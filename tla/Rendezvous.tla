----------------------------- MODULE Rendezvous -----------------------------
(***************************************************************************)
(* What the protocol promises Alice and Bob together, with no store, no    *)
(* requests and no streams.  A session is judged at most once; the server  *)
(* forgets it some time later; the winner receives Alice's key, at any     *)
(* time after; Alice is told one thing about it, once: the verdict, with   *)
(* the winner's key, or, when the server has forgotten, that it expired.   *)
(***************************************************************************)
CONSTANTS Sessions, Bobs, Null

VARIABLES phase,    \* phase[s]: "unused", "open", "judged" or "forgotten"
          verdict,  \* verdict[s]: "none", "verified" or "failed"
          winner,   \* winner[s]: the tab whose answer passed, or Null
          holders,  \* the pairs <<s, b>> such that b holds Alice's key of s
          told,     \* told[s]: "nothing", the verdict or "expired"
          partner   \* partner[s]: the tab whose key Alice holds, or Null

rendezvousVars == <<phase, verdict, winner, holders, told, partner>>

Init ==
    /\ phase = [s \in Sessions |-> "unused"]
    /\ verdict = [s \in Sessions |-> "none"]
    /\ winner = [s \in Sessions |-> Null]
    /\ holders = {}
    /\ told = [s \in Sessions |-> "nothing"]
    /\ partner = [s \in Sessions |-> Null]

\* Alice creates the challenge.
Open(s) ==
    /\ phase[s] = "unused"
    /\ phase' = [phase EXCEPT ![s] = "open"]
    /\ UNCHANGED <<verdict, winner, holders, told, partner>>

\* One answer is judged: that of tab w passed, or w is Null and it failed.
Judge(s, w) ==
    /\ phase[s] = "open"
    /\ phase' = [phase EXCEPT ![s] = "judged"]
    /\ verdict' = [verdict EXCEPT ![s] = IF w = Null THEN "failed" ELSE "verified"]
    /\ winner' = [winner EXCEPT ![s] = w]
    /\ UNCHANGED <<holders, told, partner>>

\* The session is torn down or expires, judged or not.
Forget(s) ==
    /\ phase[s] \in {"open", "judged"}
    /\ phase' = [phase EXCEPT ![s] = "forgotten"]
    /\ UNCHANGED <<verdict, winner, holders, told, partner>>

\* The winner receives Alice's key.
HandOver(s, b) ==
    /\ winner[s] = b
    /\ <<s, b>> \notin holders
    /\ holders' = holders \cup {<<s, b>>}
    /\ UNCHANGED <<phase, verdict, winner, told, partner>>

\* Alice is told the verdict, and receives the winner's key.
TellVerdict(s) ==
    /\ told[s] = "nothing"
    /\ verdict[s] # "none"
    /\ told' = [told EXCEPT ![s] = verdict[s]]
    /\ partner' = [partner EXCEPT ![s] = winner[s]]
    /\ UNCHANGED <<phase, verdict, winner, holders>>

\* Alice is told that the session is gone.
TellExpired(s) ==
    /\ told[s] = "nothing"
    /\ phase[s] = "forgotten"
    /\ told' = [told EXCEPT ![s] = "expired"]
    /\ UNCHANGED <<phase, verdict, winner, holders, partner>>

Next ==
    \E s \in Sessions :
        \/ Open(s)
        \/ \E w \in Bobs \cup {Null} : Judge(s, w)
        \/ Forget(s)
        \/ \E b \in Bobs : HandOver(s, b)
        \/ TellVerdict(s)
        \/ TellExpired(s)

Spec == Init /\ [][Next]_rendezvousVars
=============================================================================
