--------------------------- MODULE MCVerification ---------------------------
(* Model-checking instances of Verification.  Two answers match when they    *)
(* are the same memory.                                                      *)
EXTENDS Verification, TLC

MCMatching == {<<a, a>> : a \in Answers}

\* Sound for safety: no constant singles out a session, tab, POST or answer
\* (DubiousKeys is {} or has every session of the run).
VerificationSymmetry ==
    Permutations(Sessions) \cup Permutations(Bobs)
        \cup Permutations(Requests) \cup Permutations(Answers)
=============================================================================
