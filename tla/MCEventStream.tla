--------------------------- MODULE MCEventStream ---------------------------
(* Model-checking instances of EventStream.                                  *)
EXTENDS EventStream, TLC

\* Sound for safety: no constant singles out a session, tab, stream or worker
\* (DubiousKeys is {} in the run that uses it).
EventStreamSymmetry ==
    Permutations(Sessions) \cup Permutations(Bobs)
        \cup Permutations(Streams) \cup Permutations(Workers)
=============================================================================
