------------------------------ MODULE Scoring ------------------------------
(***************************************************************************)
(* The similarity score as the handler of POST /verify judges, announces   *)
(* and stores it (app/routes/verify.py), and as the session store rebuilds *)
(* the announcement from what was stored (app/services/session_store.py).  *)
(*                                                                         *)
(* A score is an integer number of millionths.  Python's round takes a tie *)
(* to the even neighbour, but of a binary float that is rarely the tie its *)
(* decimals suggest: a tie may go either way here.                         *)
(***************************************************************************)
EXTENDS Integers

\* The integers that n / d may be rounded to.
Nearest(n, d) == {m \in {n \div d, (n \div d) + 1} : 2 * (n - m * d) \in -d .. d}

Threshold == 750000   \* SIMILARITY_THRESHOLD, 0.75

\* score >= SIMILARITY_THRESHOLD.
Passes(score) == score >= Threshold

\* round(score * 100), the percentage both tabs are told.
Percent(score) == Nearest(score, 10000)

\* Mutant: one decimal is stored instead of four.
StoredOneDecimal(score) == {1000 * m : m \in Nearest(score, 100000)}

\* str(round(score, 4)), in ten-thousandths.
Stored(score) == Nearest(score, 100)

\* round(float(similarity_score) * 100), what a rebuilt event carries.
RebuiltPercent(stored) == Nearest(stored, 100)
=============================================================================
