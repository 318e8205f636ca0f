---------------------------- MODULE MCAlicePage ----------------------------
(* Model-checking instances of AlicePage.  The scores: one just under the     *)
(* threshold that is shown as 75%, and one that is shown as 75% when it is    *)
(* announced and may be as 76% when it is rebuilt.                            *)
EXTENDS AlicePage

MCScores == {749960, 754980}
=============================================================================
