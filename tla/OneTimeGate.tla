---------------------------- MODULE OneTimeGate -----------------------------
(***************************************************************************)
(* What the verification side of the protocol promises, with no requests,  *)
(* no responses and no store: each session is a gate that opens once and   *)
(* shuts once.  Shutting it may name one tab as the winner, and Alice's    *)
(* public key is handed over to that tab and to nobody else.               *)
(***************************************************************************)
CONSTANTS Sessions, Bobs, Null

VARIABLES gate,     \* gate[s]: "unused", "open" or "shut"
          winner,   \* winner[s]: the tab whose answer passed, or Null
          holders   \* the pairs <<s, b>> such that b holds the key of s

gateVars == <<gate, winner, holders>>

Init ==
    /\ gate = [s \in Sessions |-> "unused"]
    /\ winner = [s \in Sessions |-> Null]
    /\ holders = {}

\* Alice creates the challenge.
Open(s) ==
    /\ gate[s] = "unused"
    /\ gate' = [gate EXCEPT ![s] = "open"]
    /\ UNCHANGED <<winner, holders>>

\* An answer is judged, or nobody answered in time (w is then Null, as it is
\* when the answer failed).
Shut(s, w) ==
    /\ gate[s] = "open"
    /\ gate' = [gate EXCEPT ![s] = "shut"]
    /\ winner' = [winner EXCEPT ![s] = w]
    /\ UNCHANGED holders

\* The winner receives Alice's public key.
HandOver(s, b) ==
    /\ winner[s] = b
    /\ <<s, b>> \notin holders
    /\ holders' = holders \cup {<<s, b>>}
    /\ UNCHANGED <<gate, winner>>

Next ==
    \E s \in Sessions :
        \/ Open(s)
        \/ \E w \in Bobs \cup {Null} : Shut(s, w)
        \/ \E b \in Bobs : HandOver(s, b)

Spec == Init /\ [][Next]_gateVars
=============================================================================
