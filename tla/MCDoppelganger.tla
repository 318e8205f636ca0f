--------------------------- MODULE MCDoppelganger ---------------------------
(* Model-checking instance of Doppelganger.                                  *)
EXTENDS Doppelganger, TLC

MCMatching == {<<a, a>> : a \in Answers}

\* Sound for safety: no constant singles out any of these (DubiousKeys has the
\* only session of the run and no tab).
SystemSymmetry ==
    Permutations(Sessions) \cup Permutations(Bobs) \cup Permutations(Requests)
        \cup Permutations(Answers) \cup Permutations(Streams) \cup Permutations(Workers)
=============================================================================
