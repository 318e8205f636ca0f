------------------------ MODULE SessionStoreProofs -------------------------
(***************************************************************************)
(* Proofs about the session store, for every set of sessions, tabs and     *)
(* answers.                                                                *)
(***************************************************************************)
EXTENDS SessionStore, TLAPS

-----------------------------------------------------------------------------
\* A session's life, seen from its hash and its channel at once.  The two
\* invariants of the store are each too weak to be inductive: the channel says
\* nothing of a hash that was removed, and an id not issued yet must be clean.
Untouched(s) == s \notin issued => hash[s] = NoHash /\ published[s] = <<>>

InStep(s) ==
    /\ hash[s].phase = "WAITING_FOR_BOB" => published[s] = <<>>
    /\ hash[s].phase \in TerminalPhases => published[s] = <<TerminalEvent(hash[s])>>
    /\ hash[s].phase = "ABSENT" => hash[s] = NoHash

StoreInv ==
    /\ StoreTypeOK
    /\ \A s \in Sessions : Untouched(s) /\ InStep(s)
    /\ AnnouncedAtMostOnce

-----------------------------------------------------------------------------
\* The pairs and the event that verify hands to finalize are well formed.
LEMMA VerdictTypes ==
    ASSUME NEW b \in Bobs, NEW passed \in BOOLEAN
    PROVE  /\ VerdictUpdate(b, passed) \in Update
           /\ VerdictEvent(b, passed) \in Event
  BY DEF VerdictUpdate, VerdictEvent, Update, Event, Verified, Failed, TerminalPhases

\* finalize turns a waiting hash into a completed one from which exactly the
\* announced event is rebuilt.
LEMMA FinalizedHash ==
    ASSUME NEW h \in Hash, h.phase = "WAITING_FOR_BOB",
           NEW b \in Bobs, NEW passed \in BOOLEAN
    PROVE  LET k == HSet(h, VerdictUpdate(b, passed)) IN
           /\ k \in Hash
           /\ k.phase \in TerminalPhases
           /\ TerminalEvent(k) = VerdictEvent(b, passed)
           /\ k.alice_pubkey_jwk = h.alice_pubkey_jwk
           /\ k.answer_embedding = h.answer_embedding
  <1>1. Null \notin Bobs
    BY NullAssumption
  <1>2. CASE passed
    BY <1>1, <1>2 DEF HSet, VerdictUpdate, VerdictEvent, Hash, Phases, TerminalPhases,
                      TerminalEvent, Verified
  <1>3. CASE ~passed
    BY <1>1, <1>3 DEF HSet, VerdictUpdate, VerdictEvent, Hash, Phases, TerminalPhases,
                      TerminalEvent, Failed
  <1> QED BY <1>2, <1>3

-----------------------------------------------------------------------------
LEMMA StoreInvInit == StoreInit => StoreInv
  BY DEF StoreInit, StoreInv, StoreTypeOK, AnnouncedAtMostOnce, Untouched, InStep,
         NoHash, Hash, Phases, TerminalPhases

LEMMA StoreInvCreate ==
    ASSUME StoreInv, NEW s \in Sessions, NEW a \in Answers, Create(s, a)
    PROVE  StoreInv'
  <1>1. NewHash(s, a) \in Hash /\ NewHash(s, a).phase = "WAITING_FOR_BOB"
    BY DEF NewHash, Hash, Phases
  <1>2. StoreTypeOK'
    BY <1>1 DEF StoreInv, StoreTypeOK, Create
  <1>3. (\A t \in Sessions : Untouched(t) /\ InStep(t))'
    <2> TAKE t \in Sessions
    <2>1. CASE t = s
      BY <1>1, <2>1 DEF StoreInv, StoreTypeOK, Create, Untouched, InStep, TerminalPhases
    <2>2. CASE t # s
      BY <2>2 DEF StoreInv, StoreTypeOK, Create, Untouched, InStep
    <2> QED BY <2>1, <2>2
  <1>4. AnnouncedAtMostOnce'
    BY DEF StoreInv, Create, AnnouncedAtMostOnce
  <1> QED BY <1>2, <1>3, <1>4 DEF StoreInv

LEMMA StoreInvFinalize ==
    ASSUME StoreInv, NEW s \in Sessions, NEW b \in Bobs, NEW passed \in BOOLEAN,
           Finalize(s, VerdictUpdate(b, passed), VerdictEvent(b, passed))
    PROVE  StoreInv'
  <1> DEFINE u == VerdictUpdate(b, passed)
             e == VerdictEvent(b, passed)
             k == HSet(hash[s], u)
  <1>1. CASE FinalizeOutcome(s) # "done"
    BY <1>1 DEF Finalize, storeVars, StoreInv, StoreTypeOK, AnnouncedAtMostOnce,
                Untouched, InStep
  <1>2. CASE FinalizeOutcome(s) = "done"
    <2>1. hash[s] \in Hash /\ hash[s].phase = "WAITING_FOR_BOB"
      <3>1. hash[s] \in Hash
        BY DEF StoreInv, StoreTypeOK
      <3>2. hash[s].phase \in Phases
        BY <3>1 DEF Hash
      <3> QED BY <1>2, <3>1, <3>2 DEF FinalizeOutcome, Phases, TerminalPhases
    <2>2. k \in Hash /\ k.phase \in TerminalPhases /\ TerminalEvent(k) = e
      BY <2>1, FinalizedHash
    <2>3. e \in Event
      BY VerdictTypes
    <2>4. /\ hash' = [hash EXCEPT ![s] = k]
          /\ published' = [published EXCEPT ![s] = Append(@, e)]
          /\ issued' = issued
      BY <1>2 DEF Finalize
    <2>5. published[s] = <<>> /\ s \in issued
      BY <2>1 DEF StoreInv, InStep, Untouched, NoHash
    <2> HIDE DEF u, e, k
    <2>6. StoreTypeOK'
      BY <2>2, <2>3, <2>4, <2>5 DEF StoreInv, StoreTypeOK
    <2>7. hash'[s] = k /\ published'[s] = <<e>>
      BY <2>3, <2>4, <2>5 DEF StoreInv, StoreTypeOK
    <2>8. \A t \in Sessions \ {s} : hash'[t] = hash[t] /\ published'[t] = published[t]
      BY <2>4 DEF StoreInv, StoreTypeOK
    <2>9. (\A t \in Sessions : Untouched(t) /\ InStep(t))'
      <3> TAKE t \in Sessions
      <3>1. CASE t = s
        BY <2>2, <2>4, <2>5, <2>7, <3>1 DEF Untouched, InStep, TerminalPhases, TerminalEvent
      <3>2. CASE t # s
        BY <2>4, <2>8, <3>2 DEF StoreInv, Untouched, InStep, TerminalEvent
      <3> QED BY <3>1, <3>2
    <2>10. AnnouncedAtMostOnce'
      <3> SUFFICES ASSUME NEW t \in Sessions PROVE Len(published'[t]) <= 1
        BY DEF AnnouncedAtMostOnce
      <3>1. Len(published'[s]) <= 1
        <4>1. published'[s] = Append(<<>>, e)
          BY <2>4, <2>5 DEF StoreInv, StoreTypeOK
        <4>2. <<>> \in Seq(Event) /\ Len(<<>>) = 0
          OBVIOUS
        <4> QED BY <2>3, <4>1, <4>2
      <3>2. CASE t = s
        BY <3>1, <3>2
      <3>3. CASE t # s
        BY <2>8, <3>3 DEF StoreInv, AnnouncedAtMostOnce
      <3> QED BY <3>2, <3>3
    <2> QED BY <2>6, <2>9, <2>10 DEF StoreInv
  <1> QED BY <1>1, <1>2

\* DEL and the expiry of the key: the hash goes, the channel's past stays.
LEMMA StoreInvRemove ==
    ASSUME StoreInv, NEW s \in Sessions, Delete(s) \/ Expire(s)
    PROVE  StoreInv'
  <1>1. /\ hash' = [hash EXCEPT ![s] = NoHash]
        /\ published' = published
        /\ issued' = issued
    BY DEF Delete, Expire
  <1>2. NoHash \in Hash /\ NoHash.phase = "ABSENT"
    BY DEF NoHash, Hash, Phases
  <1>3. StoreTypeOK' /\ AnnouncedAtMostOnce'
    BY <1>1, <1>2 DEF StoreInv, StoreTypeOK, AnnouncedAtMostOnce
  <1>4. (\A t \in Sessions : Untouched(t) /\ InStep(t))'
    <2> TAKE t \in Sessions
    <2>1. CASE t = s
      BY <1>1, <1>2, <2>1 DEF StoreInv, StoreTypeOK, Untouched, InStep, TerminalPhases
    <2>2. CASE t # s
      BY <1>1, <2>2 DEF StoreInv, StoreTypeOK, Untouched, InStep
    <2> QED BY <2>1, <2>2
  <1> QED BY <1>3, <1>4 DEF StoreInv

LEMMA StoreInvStep == StoreInv /\ [StoreNext]_storeVars => StoreInv'
  <1> SUFFICES ASSUME StoreInv, [StoreNext]_storeVars PROVE StoreInv'
    OBVIOUS
  <1>1. CASE UNCHANGED storeVars
    BY <1>1 DEF storeVars, StoreInv, StoreTypeOK, AnnouncedAtMostOnce, Untouched, InStep
  <1>2. CASE StoreNext
    <2> PICK s \in Sessions :
            \/ \E a \in Answers : Create(s, a)
            \/ \E b \in Bobs, passed \in BOOLEAN :
                   Finalize(s, VerdictUpdate(b, passed), VerdictEvent(b, passed))
            \/ Delete(s)
            \/ Expire(s)
      BY <1>2 DEF StoreNext
    <2> QED BY StoreInvCreate, StoreInvFinalize, StoreInvRemove
  <1> QED BY <1>1, <1>2

-----------------------------------------------------------------------------
\* The strengthened invariant holds in every state the store can reach.
THEOREM StoreInvariant == StoreSpec => []StoreInv
  BY StoreInvInit, StoreInvStep, PTL DEF StoreSpec

\* The store's variables keep their types.
THEOREM StoreTypeCorrect == StoreSpec => []StoreTypeOK
  <1>1. StoreInv => StoreTypeOK
    BY DEF StoreInv
  <1> QED BY <1>1, StoreInvariant, PTL

\* "Only one Bob can ever win": whatever interleaves with the finalize script,
\* a session's result is published at most once.
THEOREM AtMostOneAnnouncement == StoreSpec => []AnnouncedAtMostOnce
  <1>1. StoreInv => AnnouncedAtMostOnce
    BY DEF StoreInv
  <1> QED BY <1>1, StoreInvariant, PTL

\* What terminal_event rebuilds for a stream that (re)connects is what finalize
\* published.
THEOREM RebuiltIsAnnounced == StoreSpec => []RebuiltEventIsAnnounced
  <1>1. StoreInv => RebuiltEventIsAnnounced
    BY DEF StoreInv, RebuiltEventIsAnnounced, InStep
  <1> QED BY <1>1, StoreInvariant, PTL

\* What one step may do to a session that was created before it.
Forward(s) ==
    /\ hash[s].phase # "WAITING_FOR_BOB" => hash'[s] \in {hash[s], NoHash}
    /\ hash'[s].phase # "ABSENT" =>
          /\ hash'[s].alice_pubkey_jwk = hash[s].alice_pubkey_jwk
          /\ hash'[s].answer_embedding = hash[s].answer_embedding

LEMMA ForwardStep ==
    ASSUME StoreInv, [StoreNext]_storeVars, NEW s \in issued
    PROVE  Forward(s)
  <1> s \in Sessions
    BY DEF StoreInv, StoreTypeOK
  <1>0. hash[s] \in Hash /\ hash \in [Sessions -> Hash]
    BY DEF StoreInv, StoreTypeOK
  <1>1. CASE UNCHANGED storeVars
    BY <1>1 DEF storeVars, Forward
  <1>2. ASSUME NEW t \in Sessions, NEW a \in Answers, Create(t, a)
        PROVE  Forward(s)
    <2>1. hash'[s] = hash[s]
      BY <1>0, <1>2 DEF Create
    <2> QED BY <2>1 DEF Forward
  <1>3. ASSUME NEW t \in Sessions, NEW b \in Bobs, NEW passed \in BOOLEAN,
               Finalize(t, VerdictUpdate(b, passed), VerdictEvent(b, passed))
        PROVE  Forward(s)
    <2>1. CASE FinalizeOutcome(t) # "done" \/ t # s
      <3>1. hash'[s] = hash[s]
        BY <1>0, <1>3, <2>1 DEF Finalize, storeVars
      <3> QED BY <3>1 DEF Forward
    <2>2. CASE FinalizeOutcome(t) = "done" /\ t = s
      <3>1. hash[s].phase = "WAITING_FOR_BOB"
        <4>1. hash[s].phase \in Phases
          BY <1>0 DEF Hash
        <4> QED BY <2>2, <4>1 DEF FinalizeOutcome, Phases, TerminalPhases
      <3>2. hash'[s] = HSet(hash[s], VerdictUpdate(b, passed))
        BY <1>0, <1>3, <2>2 DEF Finalize
      <3> QED BY <1>0, <3>1, <3>2, FinalizedHash DEF Forward
    <2> QED BY <2>1, <2>2
  <1>4. ASSUME NEW t \in Sessions, Delete(t) \/ Expire(t)
        PROVE  Forward(s)
    <2>1. hash'[s] \in {hash[s], NoHash}
      BY <1>0, <1>4 DEF Delete, Expire
    <2> QED BY <2>1 DEF Forward, NoHash
  <1> QED BY <1>1, <1>2, <1>3, <1>4 DEF StoreNext

\* A used, expired or deleted link never accepts an answer again, and what a
\* session stores of Alice is never rewritten.
THEOREM SessionsOnlyMoveForward == StoreSpec => NeverReopens
  <1>1. StoreInv /\ [StoreNext]_storeVars => [\A s \in issued : Forward(s)]_storeVars
    BY ForwardStep
  <1>2. StoreSpec => [][\A s \in issued : Forward(s)]_storeVars
    BY <1>1, StoreInvariant, PTL DEF StoreSpec
  <1> QED BY <1>2 DEF NeverReopens, Forward

-----------------------------------------------------------------------------
(* What the modules that use the store cite about a step of it.            *)

\* A session that is not open stays so, whoever is still at work on it.
LEMMA ClosedStays ==
    ASSUME StoreInv, [StoreNext]_storeVars, NEW s \in issued,
           hash[s].phase # "WAITING_FOR_BOB"
    PROVE  s \in issued' /\ hash'[s].phase # "WAITING_FOR_BOB"
  <1>1. hash'[s] \in {hash[s], NoHash}
    BY ForwardStep DEF Forward
  <1>2. s \in issued'
    BY DEF StoreNext, Create, Finalize, Delete, Expire, storeVars
  <1> QED BY <1>1, <1>2 DEF NoHash

\* A result that was announced is the only one there will ever be.
LEMMA ResultStays ==
    ASSUME StoreInv, [StoreNext]_storeVars, NEW s \in Sessions, published[s] # <<>>
    PROVE  published'[s] = published[s]
  <1>1. published \in [Sessions -> Seq(Event)] /\ hash[s] \in Hash
    BY DEF StoreInv, StoreTypeOK
  <1>2. hash[s].phase # "WAITING_FOR_BOB" /\ hash[s].phase \in Phases
    BY <1>1 DEF StoreInv, InStep, Hash
  <1>3. FinalizeOutcome(s) # "done"
    BY <1>2 DEF FinalizeOutcome, Phases, TerminalPhases
  <1> QED BY <1>1, <1>3 DEF StoreNext, Create, Finalize, Delete, Expire, storeVars
=============================================================================
