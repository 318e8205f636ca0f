------------------------- MODULE EventStreamProofs -------------------------
(***************************************************************************)
(* Proofs about Alice's event stream, for every set of sessions, tabs,     *)
(* workers and streams, every number of faults and every combination of    *)
(* them.                                                                   *)
(***************************************************************************)
EXTENDS EventStream, SessionStoreProofs, SequenceTheorems

-----------------------------------------------------------------------------
(* The inductive invariant.  An event travels from the channel through a   *)
(* hub's connection, a queue and a wire, or from the hash to a wire; on    *)
(* each of them it is the announced verdict of the session it is for.      *)

FinalEvents == {Expired, Failed} \cup {Verified(b) : b \in Bobs}

TrueOf(s, e) == e \in FinalEvents /\ (e # Expired => published[s] = <<e>>)

\* A stream has an owner and a host once it is connected, and carries only
\* what is true of its owner.
StreamInv(st) ==
    /\ spc[st] = "unused" => queue[st] = <<>> /\ wire[st] = <<>>
    /\ spc[st] # "unused" => owner[st] \in Sessions /\ host[st] \in Workers
    /\ \A e \in Range(queue[st]) \cup Range(wire[st]) : TrueOf(owner[st], e)

HubInv(w) == \A msg \in Range(inbox[w]) : TrueOf(msg.session, msg.event)

\* An EventSource reads only streams of its own session.
ConnInv(s) == conn[s] # Null => owner[conn[s]] = s /\ spc[conn[s]] # "unused"

\* A session completed as VERIFIED names the tab.
NamedInv(s) == hash[s].phase = "VERIFIED" => hash[s].bob_pubkey_jwk \in Bobs

IInv ==
    /\ TypeOK
    /\ StoreInv
    /\ \A s \in Sessions : NamedInv(s)
    /\ \A st \in Streams : StreamInv(st)
    /\ \A w \in Workers : HubInv(w)
    /\ \A s \in Sessions : ConnInv(s)
    /\ RegistryMatchesStreams
    /\ VerdictScreenIsTruthful

-----------------------------------------------------------------------------
(* What the operations on sequences do to the set of their elements.       *)

LEMMA RangeAppend ==
    ASSUME NEW S, NEW q \in Seq(S), NEW e \in S
    PROVE  Append(q, e) \in Seq(S) /\ Range(Append(q, e)) = Range(q) \cup {e}
  <1>1. Append(q, e) \in Seq(S)
    OBVIOUS
  <1>2. /\ DOMAIN q = 1 .. Len(q)
        /\ DOMAIN Append(q, e) = 1 .. Len(q) + 1
        /\ Len(q) \in Nat
    OBVIOUS
  <1>3. \A i \in 1 .. Len(q) : Append(q, e)[i] = q[i]
    OBVIOUS
  <1>4. Append(q, e)[Len(q) + 1] = e
    OBVIOUS
  <1>5. 1 .. Len(q) + 1 = (1 .. Len(q)) \cup {Len(q) + 1}
    BY <1>2
  <1>6. Range(Append(q, e)) \subseteq Range(q) \cup {e}
    BY <1>2, <1>3, <1>4, <1>5 DEF Range
  <1>7. Range(q) \cup {e} \subseteq Range(Append(q, e))
    BY <1>2, <1>3, <1>4, <1>5 DEF Range
  <1> QED BY <1>1, <1>6, <1>7

LEMMA RangeHeadTail ==
    ASSUME NEW S, NEW q \in Seq(S), q # <<>>
    PROVE  /\ Head(q) \in S /\ Head(q) \in Range(q)
           /\ Tail(q) \in Seq(S) /\ Range(Tail(q)) \subseteq Range(q)
  <1>1. Len(q) \in Nat /\ Len(q) > 0 /\ DOMAIN q = 1 .. Len(q)
    OBVIOUS
  <1>2. Head(q) = q[1] /\ Head(q) \in S
    OBVIOUS
  <1>3. Tail(q) \in Seq(S) /\ DOMAIN Tail(q) = 1 .. Len(q) - 1
    OBVIOUS
  <1>4. \A i \in 1 .. Len(q) - 1 : Tail(q)[i] = q[i + 1] /\ i + 1 \in 1 .. Len(q)
    BY <1>1
  <1>5. 1 \in 1 .. Len(q)
    BY <1>1
  <1>6. Head(q) \in Range(q)
    BY <1>1, <1>2, <1>5 DEF Range
  <1>7. Range(Tail(q)) \subseteq Range(q)
    BY <1>1, <1>3, <1>4 DEF Range
  <1> QED BY <1>2, <1>3, <1>6, <1>7

LEMMA RangeEmpty == Range(<<>>) = {}
  BY DEF Range

\* What is in a sequence has the type of the sequence.
LEMMA RangeTyped ==
    ASSUME NEW S, NEW q \in Seq(S)
    PROVE  Range(q) \subseteq S
  BY RangeOfSeq

LEMMA InboxTyped ==
    ASSUME TypeOK, NEW w \in Workers
    PROVE  /\ inbox[w] \in Seq([session : Sessions, event : Event])
           /\ \A msg \in Range(inbox[w]) : msg.session \in Sessions /\ msg.event \in Event
  <1>1. inbox[w] \in Seq([session : Sessions, event : Event])
    BY DEF TypeOK
  <1>2. Range(inbox[w]) \subseteq [session : Sessions, event : Event]
    BY <1>1, RangeTyped
  <1> QED BY <1>1, <1>2

LEMMA InboxEmptied ==
    ASSUME TypeOK, NEW w \in Workers
    PROVE  [inbox EXCEPT ![w] = <<>>] \in [Workers -> Seq([session : Sessions, event : Event])]
  <1> DEFINE Message == [session : Sessions, event : Event]
  <1>1. inbox \in [Workers -> Seq(Message)]
    BY DEF TypeOK
  <1> SUFFICES [inbox EXCEPT ![w] = <<>>] \in [Workers -> Seq(Message)]
    OBVIOUS
  <1> HIDE DEF Message
  <1> QED BY <1>1

-----------------------------------------------------------------------------
(* Facts about events and the store.                                       *)

LEMMA FinalEventsTyped == FinalEvents \subseteq Event
  BY DEF FinalEvents, Expired, Failed, Verified, Event, TerminalPhases

LEMMA VerdictIsFinal ==
    ASSUME NEW b \in Bobs, NEW passed \in BOOLEAN
    PROVE  VerdictEvent(b, passed) \in FinalEvents /\ VerdictEvent(b, passed) # Expired
  BY DEF VerdictEvent, FinalEvents, Verified, Failed, Expired

\* The event rebuilt from the hash, if there is one, is true of the session.
LEMMA RebuiltIsTrue ==
    ASSUME IInv, NEW s \in Sessions, TerminalEvent(hash[s]) # NoEvent
    PROVE  TrueOf(s, TerminalEvent(hash[s]))
  <1>1. hash[s] \in Hash /\ hash[s].phase \in Phases
    BY DEF IInv, StoreInv, StoreTypeOK, Hash
  <1>2. NamedInv(s) /\ InStep(s)
    BY DEF IInv, StoreInv
  <1>3. CASE hash[s].phase = "ABSENT"
    BY <1>3 DEF TerminalEvent, TrueOf, FinalEvents
  <1>4. CASE hash[s].phase = "WAITING_FOR_BOB"
    BY <1>4 DEF TerminalEvent
  <1>5. CASE hash[s].phase = "VERIFIED"
    BY <1>2, <1>5 DEF TerminalEvent, TrueOf, FinalEvents, NamedInv, InStep, TerminalPhases
  <1>6. CASE hash[s].phase = "FAILED"
    BY <1>2, <1>6 DEF TerminalEvent, TrueOf, FinalEvents, InStep, TerminalPhases
  <1> QED BY <1>1, <1>3, <1>4, <1>5, <1>6 DEF Phases

\* A verdict that was published once stays the session's verdict.
LEMMA PublishedKept ==
    ASSUME StoreInv, [StoreNext]_storeVars, NEW s \in Sessions, NEW e, published[s] = <<e>>
    PROVE  published'[s] = <<e>>
  <1>1. CASE UNCHANGED storeVars
    BY <1>1 DEF storeVars
  <1>2. ASSUME NEW t \in Sessions, NEW b \in Bobs, NEW passed \in BOOLEAN,
               Finalize(t, VerdictUpdate(b, passed), VerdictEvent(b, passed))
        PROVE  published'[s] = published[s]
    <2>1. CASE FinalizeOutcome(t) # "done"
      BY <1>2, <2>1 DEF Finalize, storeVars
    <2>2. CASE FinalizeOutcome(t) = "done"
      <3>1. hash[t] \in Hash /\ hash[t].phase \in Phases
        BY DEF StoreInv, StoreTypeOK, Hash
      <3>2. published[t] = <<>>
        BY <2>2, <3>1 DEF FinalizeOutcome, Phases, TerminalPhases, StoreInv, InStep
      <3>3. Len(published[t]) = 0 /\ Len(published[s]) = 1
        BY <3>2
      <3>4. t # s
        BY <3>3
      <3> QED BY <1>2, <2>2, <3>4 DEF Finalize, StoreInv, StoreTypeOK
    <2> QED BY <2>1, <2>2
  <1>3. ASSUME NEW t \in Sessions, Delete(t) \/ Expire(t) \/ \E a \in Answers : Create(t, a)
        PROVE  published'[s] = published[s]
    BY <1>3 DEF Delete, Expire, Create
  <1> QED BY <1>1, <1>2, <1>3 DEF StoreNext

LEMMA TruthKept ==
    ASSUME StoreInv, [StoreNext]_storeVars, NEW s \in Sessions, NEW e, TrueOf(s, e)
    PROVE  TrueOf(s, e)'
  BY PublishedKept DEF TrueOf

LEMMA HSetNames ==
    ASSUME NEW h \in Hash, NEW b \in Bobs, NEW passed \in BOOLEAN,
           HSet(h, VerdictUpdate(b, passed)).phase = "VERIFIED"
    PROVE  HSet(h, VerdictUpdate(b, passed)).bob_pubkey_jwk = b
  <1>1. Null \notin Bobs
    BY NullAssumption
  <1>2. CASE passed
    BY <1>1, <1>2 DEF HSet, VerdictUpdate, Hash
  <1>3. CASE ~passed
    BY <1>1, <1>3 DEF HSet, VerdictUpdate, Hash
  <1> QED BY <1>2, <1>3

\* A completed hash names its tab because verify passes finalize a name.
LEMMA NamedKept ==
    ASSUME StoreInv, [StoreNext]_storeVars, NEW s \in Sessions, NamedInv(s)
    PROVE  NamedInv(s)'
  <1>0. hash \in [Sessions -> Hash]
    BY DEF StoreInv, StoreTypeOK
  <1>1. CASE UNCHANGED storeVars
    BY <1>1 DEF storeVars, NamedInv
  <1>2. ASSUME NEW t \in Sessions, NEW b \in Bobs, NEW passed \in BOOLEAN,
               Finalize(t, VerdictUpdate(b, passed), VerdictEvent(b, passed))
        PROVE  NamedInv(s)'
    <2>1. CASE hash'[s] = hash[s]
      BY <2>1 DEF NamedInv
    <2>2. CASE hash'[s] # hash[s]
      <3>1. t = s /\ hash'[s] = HSet(hash[s], VerdictUpdate(b, passed))
        BY <1>0, <1>2, <2>2 DEF Finalize, storeVars
      <3> QED BY <1>0, <3>1, HSetNames DEF NamedInv
    <2> QED BY <2>1, <2>2
  <1>3. ASSUME NEW t \in Sessions, Delete(t) \/ Expire(t) \/ \E a \in Answers : Create(t, a)
        PROVE  NamedInv(s)'
    BY <1>0, <1>3 DEF Delete, Expire, Create, NamedInv, NoHash, NewHash
  <1> QED BY <1>1, <1>2, <1>3 DEF StoreNext

-----------------------------------------------------------------------------
(* The parts of the invariant that the store alone can disturb.            *)

LEMMA StoreStepKeeps ==
    ASSUME IInv, [StoreNext]_storeVars
    PROVE  /\ StoreInv'
           /\ \A s \in Sessions : NamedInv(s)'
           /\ \A s \in Sessions : \A e : TrueOf(s, e) => TrueOf(s, e)'
  <1>1. StoreInv'
    BY StoreInvStep DEF IInv
  <1>2. \A s \in Sessions : NamedInv(s)'
    BY NamedKept DEF IInv
  <1>3. \A s \in Sessions : \A e : TrueOf(s, e) => TrueOf(s, e)'
    BY TruthKept DEF IInv
  <1> QED BY <1>1, <1>2, <1>3

\* Steps of the stream, the hub and the browser leave the store alone.
LEMMA QuietKeeps ==
    ASSUME IInv, UNCHANGED storeVars
    PROVE  /\ StoreInv'
           /\ \A s \in Sessions : NamedInv(s)'
           /\ \A s, e : TrueOf(s, e)' <=> TrueOf(s, e)
  <1>1. StoreInv' /\ \A s \in Sessions : NamedInv(s)'
    BY StoreStepKeeps
  <1>2. \A s, e : TrueOf(s, e)' <=> TrueOf(s, e)
    BY DEF storeVars, TrueOf
  <1> QED BY <1>1, <1>2

-----------------------------------------------------------------------------
(* The initial states.                                                     *)

LEMMA IInvInit == Init => IInv
  <1> SUFFICES ASSUME Init PROVE IInv
    OBVIOUS
  <1>1. StoreInv
    BY StoreInvInit DEF Init
  <1>2. TypeOK
    BY <1>1, MaxFaultsAssumption DEF Init, TypeOK, StoreInv, Screens
  <1>3. \A s \in Sessions : NamedInv(s) /\ ConnInv(s)
    BY DEF Init, StoreInit, NamedInv, ConnInv, NoHash
  <1>4. \A st \in Streams : StreamInv(st)
    BY RangeEmpty DEF Init, StreamInv
  <1>5. \A w \in Workers : HubInv(w)
    BY RangeEmpty DEF Init, HubInv
  <1>6. RegistryMatchesStreams /\ VerdictScreenIsTruthful
    BY DEF Init, RegistryMatchesStreams, Subscribed, VerdictScreenIsTruthful
  <1> QED BY <1>1, <1>2, <1>3, <1>4, <1>5, <1>6 DEF IInv

-----------------------------------------------------------------------------
(* What the rest of the system does to the session.                        *)

\* Alice's verdict screens survive any step of the store.
LEMMA ScreenKept ==
    ASSUME IInv, [StoreNext]_storeVars, NEW s \in Sessions,
           screen'[s] = screen[s] \/ screen'[s] = "step-waiting",
           bobPubkey' = bobPubkey
    PROVE  /\ screen'[s] = "step-alice-pass" => published'[s] = <<Verified(bobPubkey'[s])>>
           /\ screen'[s] = "step-alice-fail" => published'[s] = <<Failed>>
  <1> DEFINE e == Verified(bobPubkey[s])
  <1>0. bobPubkey[s] \in Bobs \cup {Null}
    BY DEF IInv, TypeOK
  <1>1. \A f : published[s] = <<f>> => published'[s] = <<f>>
    BY PublishedKept DEF IInv
  <1>2. screen[s] = "step-alice-pass" => published[s] = <<e>>
    BY DEF IInv, VerdictScreenIsTruthful
  <1>3. screen[s] = "step-alice-fail" => published[s] = <<Failed>>
    BY DEF IInv, VerdictScreenIsTruthful
  <1> QED BY <1>1, <1>2, <1>3

\* So does what a stream carries.
LEMMA StreamKept ==
    ASSUME IInv, [StoreNext]_storeVars, NEW st \in Streams,
           UNCHANGED <<spc, owner, host, queue, wire>>
    PROVE  StreamInv(st)'
  <1>1. StreamInv(st)
    BY DEF IInv
  <1>2. CASE spc[st] = "unused"
    BY <1>1, <1>2, RangeEmpty DEF StreamInv
  <1>3. CASE spc[st] # "unused"
    <2>1. owner[st] \in Sessions
      BY <1>1, <1>3 DEF StreamInv
    <2>2. \A e : TrueOf(owner[st], e) => TrueOf(owner[st], e)'
      BY <2>1, StoreStepKeeps DEF TrueOf
    <2> QED BY <1>1, <1>3, <2>2 DEF StreamInv
  <1> QED BY <1>2, <1>3

\* Steps that change the store and Alice's tab, and neither streams nor hubs.
LEMMA SessionStep ==
    ASSUME IInv, [StoreNext]_storeVars, TypeOK', UNCHANGED <<streamVars, hubVars, conn, bobPubkey>>,
           \A s \in Sessions : screen'[s] = screen[s] \/ screen'[s] = "step-waiting"
    PROVE  IInv'
  <1>1. StoreInv' /\ \A s \in Sessions : NamedInv(s)'
    BY StoreStepKeeps
  <1>2. ASSUME NEW st \in Streams PROVE StreamInv(st)'
    BY StreamKept DEF streamVars
  <1>3. ASSUME NEW w \in Workers PROVE HubInv(w)'
    <2>1. \A msg \in Range(inbox[w]) : msg.session \in Sessions
      BY InboxTyped DEF IInv
    <2>2. HubInv(w)
      BY DEF IInv
    <2> QED BY <2>1, <2>2, StoreStepKeeps DEF HubInv, hubVars, TrueOf
  <1>4. ASSUME NEW s \in Sessions PROVE ConnInv(s)'
    BY DEF IInv, ConnInv, streamVars
  <1>5. RegistryMatchesStreams'
    BY DEF IInv, RegistryMatchesStreams, Subscribed, streamVars, hubVars
  <1>6. VerdictScreenIsTruthful'
    BY ScreenKept DEF VerdictScreenIsTruthful
  <1> QED BY <1>1, <1>2, <1>3, <1>4, <1>5, <1>6 DEF IInv

LEMMA CreateKeeps ==
    ASSUME IInv, NEW s \in Sessions, NEW a \in Answers, CreateSession(s, a)
    PROVE  IInv'
  <1>1. StoreNext
    BY DEF CreateSession, StoreNext
  <1>2. StoreTypeOK'
    BY <1>1, StoreStepKeeps DEF StoreInv
  <1>3. TypeOK'
    BY <1>2 DEF IInv, TypeOK, CreateSession, Screens, streamVars, hubVars
  <1>4. \A t \in Sessions : screen'[t] = screen[t] \/ screen'[t] = "step-waiting"
    BY DEF CreateSession, IInv, TypeOK
  <1> QED BY <1>1, <1>3, <1>4, SessionStep DEF CreateSession

LEMMA VanishKeeps ==
    ASSUME IInv, NEW s \in Sessions, Vanish(s)
    PROVE  IInv'
  <1>1. StoreNext
    BY DEF Vanish, StoreNext
  <1>2. StoreTypeOK'
    BY <1>1, StoreStepKeeps DEF StoreInv
  <1>3. TypeOK'
    BY <1>2 DEF IInv, TypeOK, Vanish, aliceVars, streamVars, hubVars
  <1> QED BY <1>1, <1>3, SessionStep DEF Vanish, aliceVars

\* A verdict enters the connections of the hubs when it is published.
LEMMA DecideKeeps ==
    ASSUME IInv, NEW s \in Sessions, NEW b \in Bobs, NEW passed \in BOOLEAN,
           Decide(s, b, passed)
    PROVE  IInv'
  <1> DEFINE e == VerdictEvent(b, passed)
             msg == [session |-> s, event |-> e]
             Message == [session : Sessions, event : Event]
  <1>1. StoreNext
    BY DEF Decide, StoreNext
  <1>2. e \in Event /\ e \in FinalEvents
    BY VerdictTypes, VerdictIsFinal
  <1>3. msg \in Message
    BY <1>2
  <1>4. published'[s] = <<e>>
    <2>1. hash[s] \in Hash /\ hash[s].phase \in Phases
      BY DEF IInv, StoreInv, StoreTypeOK, Hash
    <2>2. hash[s].phase = "WAITING_FOR_BOB"
      BY <2>1 DEF Decide, FinalizeOutcome, Phases, TerminalPhases
    <2>3. published[s] = <<>>
      BY <2>2 DEF IInv, StoreInv, InStep
    <2>4. published' = [published EXCEPT ![s] = Append(@, e)]
      BY DEF Decide, Finalize
    <2>5. published'[s] = Append(<<>>, e)
      BY <2>3, <2>4 DEF IInv, StoreInv, StoreTypeOK
    <2> QED BY <1>2, <2>5
  <1>5. TrueOf(s, e)'
    BY <1>2, <1>4 DEF TrueOf
  <1>6. \A w \in Workers : /\ inbox'[w] \in Seq(Message)
                           /\ Range(inbox'[w]) \subseteq Range(inbox[w]) \cup {msg}
    <2> TAKE w \in Workers
    <2>1. inbox[w] \in Seq(Message)
      BY DEF IInv, TypeOK
    <2>2. inbox'[w] = inbox[w] \/ inbox'[w] = Append(inbox[w], msg)
      BY DEF Decide
    <2> HIDE DEF msg, Message
    <2>3. CASE inbox'[w] = inbox[w]
      BY <2>1, <2>3
    <2>4. CASE inbox'[w] = Append(inbox[w], msg)
      BY <1>3, <2>1, <2>4, RangeAppend
    <2> QED BY <2>2, <2>3, <2>4
  <1>7. TypeOK'
    <2>1. StoreTypeOK'
      BY <1>1, StoreStepKeeps DEF StoreInv
    <2>2. inbox' \in [Workers -> Seq(Message)]
      BY <1>6 DEF Decide
    <2> QED BY <2>1, <2>2 DEF IInv, TypeOK, Decide, aliceVars, streamVars
  <1>8. ASSUME NEW w \in Workers PROVE HubInv(w)'
    <2> SUFFICES ASSUME NEW m \in Range(inbox'[w]) PROVE TrueOf(m.session, m.event)'
      BY DEF HubInv, TrueOf
    <2>1. CASE m = msg
      BY <1>5, <2>1
    <2>2. CASE m \in Range(inbox[w])
      <3>1. m.session \in Sessions
        BY <2>2, InboxTyped DEF IInv
      <3>2. TrueOf(m.session, m.event)
        BY <2>2 DEF IInv, HubInv
      <3> QED BY <1>1, <3>1, <3>2, StoreStepKeeps
    <2> QED BY <1>6, <2>1, <2>2
  <1>9. ASSUME NEW st \in Streams PROVE StreamInv(st)'
    BY <1>1, StreamKept DEF Decide, streamVars
  <1>10. /\ StoreInv' /\ \A t \in Sessions : NamedInv(t)'
         /\ \A t \in Sessions : ConnInv(t)'
         /\ RegistryMatchesStreams'
    BY <1>1, StoreStepKeeps
    DEF Decide, IInv, ConnInv, RegistryMatchesStreams, Subscribed, aliceVars, streamVars
  <1>11. VerdictScreenIsTruthful'
    BY <1>1, ScreenKept DEF Decide, aliceVars, VerdictScreenIsTruthful
  <1> QED BY <1>7, <1>8, <1>9, <1>10, <1>11 DEF IInv

-----------------------------------------------------------------------------
(* Steps that leave the store alone.                                       *)

LEMMA FaultBound ==
    ASSUME IInv, NEW kind, Fault(kind)
    PROVE  faults' \in 0 .. MaxFaults
  BY MaxFaultsAssumption DEF IInv, TypeOK, Fault

\* A stream stays sound if what it newly carries is true of its owner.
LEMMA StreamQuiet ==
    ASSUME IInv, UNCHANGED storeVars, NEW st \in Streams,
           owner'[st] = owner[st], host'[st] = host[st],
           \/ spc[st] # "unused" /\ spc'[st] # "unused"
           \/ spc'[st] = spc[st] /\ queue'[st] = queue[st] /\ wire'[st] = wire[st],
           \A e \in Range(queue'[st]) : e \in Range(queue[st]) \/ TrueOf(owner[st], e),
           \A e \in Range(wire'[st]) : e \in Range(wire[st]) \/ TrueOf(owner[st], e)
    PROVE  StreamInv(st)'
  <1>1. StreamInv(st)
    BY DEF IInv
  <1>2. \A e : TrueOf(owner[st], e) => TrueOf(owner[st], e)'
    BY DEF TrueOf, storeVars
  <1> QED BY <1>1, <1>2 DEF StreamInv

LEMMA HubInvQuiet ==
    ASSUME IInv, UNCHANGED storeVars, NEW w \in Workers,
           Range(inbox'[w]) \subseteq Range(inbox[w])
    PROVE  HubInv(w)'
  <1>1. HubInv(w)
    BY DEF IInv
  <1>2. \A s, e : TrueOf(s, e) => TrueOf(s, e)'
    BY DEF TrueOf, storeVars
  <1>3. \A msg : TrueOf(msg.session, msg.event) => TrueOf(msg.session, msg.event)'
    BY <1>2 DEF TrueOf, storeVars
  <1> QED BY <1>1, <1>3 DEF HubInv

LEMMA VerdictQuiet ==
    ASSUME IInv, UNCHANGED <<storeVars, screen, bobPubkey>>
    PROVE  VerdictScreenIsTruthful'
  BY DEF IInv, VerdictScreenIsTruthful, storeVars

LEMMA StutterKeeps ==
    ASSUME IInv, UNCHANGED vars
    PROVE  IInv'
  <1> USE DEF vars, storeVars, aliceVars, streamVars, hubVars
  <1>1. StoreInv' /\ \A s \in Sessions : NamedInv(s)'
    BY QuietKeeps
  <1>2. TypeOK'
    BY <1>1 DEF IInv, TypeOK, StoreInv
  <1>3. \A st \in Streams : StreamInv(st)'
    BY StreamQuiet
  <1>4. \A w \in Workers : HubInv(w)'
    BY HubInvQuiet
  <1>5. \A s \in Sessions : ConnInv(s)'
    BY DEF IInv, ConnInv
  <1>6. RegistryMatchesStreams' /\ VerdictScreenIsTruthful'
    BY VerdictQuiet DEF IInv, RegistryMatchesStreams, Subscribed
  <1> QED BY <1>1, <1>2, <1>3, <1>4, <1>5, <1>6 DEF IInv

-----------------------------------------------------------------------------
(* The hub.                                                                *)

\* A lost connection loses its messages, and invents none.
LEMMA ListenKeeps ==
    ASSUME IInv, NEW w \in Workers, HubListen(w) \/ HubLose(w)
    PROVE  IInv'
  <1>1. UNCHANGED <<storeVars, aliceVars, streamVars, registry>>
    BY DEF HubListen, HubLose
  <1>2. \A v \in Workers : inbox'[v] = inbox[v] \/ inbox'[v] = <<>>
    BY DEF HubListen, HubLose, IInv, TypeOK
  <1>3. listener' \in [Workers -> {"off", "starting", "listening"}]
    BY DEF HubListen, HubLose, IInv, TypeOK
  <1>11. inbox' \in [Workers -> Seq([session : Sessions, event : Event])]
    <2>1. inbox' = inbox \/ inbox' = [inbox EXCEPT ![w] = <<>>]
      BY DEF HubListen, HubLose
    <2>2. TypeOK
      BY DEF IInv
    <2> QED BY <2>1, <2>2, InboxEmptied DEF TypeOK
  <1>10. faults' \in 0 .. MaxFaults
    <2>1. CASE HubListen(w)
      BY <2>1 DEF HubListen, IInv, TypeOK
    <2>2. CASE HubLose(w)
      BY <2>2, FaultBound DEF HubLose
    <2> QED BY <2>1, <2>2
  <1>4. StoreInv' /\ \A s \in Sessions : NamedInv(s)'
    BY <1>1, QuietKeeps
  <1>5. TypeOK'
    BY <1>1, <1>3, <1>4, <1>10, <1>11 DEF IInv, TypeOK, StoreInv, storeVars, aliceVars, streamVars
  <1>6. \A st \in Streams : StreamInv(st)'
    BY <1>1, StreamQuiet DEF streamVars
  <1>7. \A v \in Workers : HubInv(v)'
    BY <1>1, <1>2, RangeEmpty, HubInvQuiet
  <1>8. \A s \in Sessions : ConnInv(s)'
    BY <1>1 DEF IInv, ConnInv, aliceVars, streamVars
  <1>9. RegistryMatchesStreams' /\ VerdictScreenIsTruthful'
    BY <1>1, VerdictQuiet DEF IInv, RegistryMatchesStreams, Subscribed, aliceVars, streamVars
  <1> QED BY <1>4, <1>5, <1>6, <1>7, <1>8, <1>9 DEF IInv

\* A message goes to streams of the session it was published for, and only to
\* those.
LEMMA DispatchKeeps ==
    ASSUME IInv, NEW w \in Workers, HubDispatch(w)
    PROVE  IInv'
  <1> DEFINE msg == Head(inbox[w])
             Message == [session : Sessions, event : Event]
  <1>1. UNCHANGED <<storeVars, aliceVars, spc, owner, host, wire, listener, registry, faults>>
    BY DEF HubDispatch
  <1>2. /\ inbox[w] \in Seq(Message) /\ inbox[w] # <<>>
        /\ inbox' = [inbox EXCEPT ![w] = Tail(@)]
    BY InboxTyped DEF IInv, HubDispatch
  <1>3. /\ msg \in Message /\ msg \in Range(inbox[w])
        /\ Tail(inbox[w]) \in Seq(Message)
        /\ Range(Tail(inbox[w])) \subseteq Range(inbox[w])
    <2> HIDE DEF Message
    <2> QED BY <1>2, RangeHeadTail
  <1>4. msg.event \in Event /\ TrueOf(msg.session, msg.event)
    BY <1>3 DEF IInv, HubInv
  <1>5. queue' = [st \in Streams |->
                    IF st \in Addressees(w, msg) THEN Put(queue[st], msg.event) ELSE queue[st]]
    BY DEF HubDispatch
  <1> HIDE DEF msg
  <1>6. ASSUME NEW st \in Streams
        PROVE  /\ queue'[st] \in Seq(Event)
               /\ Range(queue'[st]) \subseteq
                    Range(queue[st]) \cup (IF st \in Addressees(w, msg) THEN {msg.event} ELSE {})
    <2>1. queue[st] \in Seq(Event)
      BY DEF IInv, TypeOK
    <2>2. /\ Append(queue[st], msg.event) \in Seq(Event)
          /\ Range(Append(queue[st], msg.event)) = Range(queue[st]) \cup {msg.event}
      BY <1>4, <2>1, RangeAppend
    <2>3. \/ queue'[st] = queue[st]
          \/ st \in Addressees(w, msg) /\ queue'[st] = Append(queue[st], msg.event)
      BY <1>5 DEF Put
    <2> QED BY <2>1, <2>2, <2>3
  <1>7. ASSUME NEW st \in Streams, st \in Addressees(w, msg)
        PROVE  spc[st] # "unused" /\ TrueOf(owner[st], msg.event)
    BY <1>4, <1>7 DEF Addressees, IInv, RegistryMatchesStreams, Subscribed
  <1>8. ASSUME NEW st \in Streams PROVE StreamInv(st)'
    <2>1. CASE st \in Addressees(w, msg)
      BY <1>1, <1>6, <1>7, <2>1, StreamQuiet
    <2>2. CASE st \notin Addressees(w, msg)
      <3>1. queue'[st] = queue[st]
        BY <1>5, <2>2
      <3> QED BY <1>1, <3>1, StreamQuiet
    <2> QED BY <2>1, <2>2
  <1>9. StoreInv' /\ \A s \in Sessions : NamedInv(s)'
    BY <1>1, QuietKeeps
  <1>10. TypeOK'
    <2>1. queue' \in [Streams -> Seq(Event)]
      BY <1>5, <1>6
    <2>2. inbox' \in [Workers -> Seq(Message)]
      BY <1>2, <1>3 DEF IInv, TypeOK
    <2> QED BY <1>1, <1>9, <2>1, <2>2 DEF IInv, TypeOK, StoreInv, storeVars, aliceVars
  <1>11. \A v \in Workers : HubInv(v)'
    <2>1. \A v \in Workers : Range(inbox'[v]) \subseteq Range(inbox[v])
      BY <1>2, <1>3 DEF IInv, TypeOK
    <2> QED BY <1>1, <2>1, HubInvQuiet
  <1>12. \A s \in Sessions : ConnInv(s)'
    BY <1>1 DEF IInv, ConnInv, aliceVars
  <1>13. RegistryMatchesStreams' /\ VerdictScreenIsTruthful'
    BY <1>1, VerdictQuiet DEF IInv, RegistryMatchesStreams, Subscribed, aliceVars
  <1> QED BY <1>8, <1>9, <1>10, <1>11, <1>12, <1>13 DEF IInv

-----------------------------------------------------------------------------
(* The handler of a stream.                                                *)

\* A response starts: its stream was unused, so no EventSource was reading it.
LEMMA ConnectKeeps ==
    ASSUME IInv, NEW s \in Sessions, NEW st \in Streams, NEW w \in Workers, Connect(s, st, w)
    PROVE  IInv'
  <1>1. UNCHANGED <<storeVars, screen, bobPubkey, queue, wire, hubVars, faults>>
    BY DEF Connect
  <1>2. /\ spc[st] = "unused"
        /\ spc' = [spc EXCEPT ![st] = "opened"]
        /\ owner' = [owner EXCEPT ![st] = s]
        /\ host' = [host EXCEPT ![st] = w]
        /\ es' = [es EXCEPT ![s] = "OPEN"]
        /\ conn' = [conn EXCEPT ![s] = st]
    BY DEF Connect
  <1>3. StoreInv' /\ \A t \in Sessions : NamedInv(t)'
    BY <1>1, QuietKeeps
  <1>4. TypeOK'
    BY <1>1, <1>2, <1>3 DEF IInv, TypeOK, StoreInv, storeVars, hubVars
  <1>5. ASSUME NEW u \in Streams PROVE StreamInv(u)'
    <2>1. CASE u = st
      <3>1. queue[st] = <<>> /\ wire[st] = <<>>
        BY <1>2 DEF IInv, StreamInv
      <3>2. Range(queue'[st]) = {} /\ Range(wire'[st]) = {}
        BY <1>1, <3>1, RangeEmpty
      <3> QED BY <1>2, <2>1, <3>2 DEF StreamInv, IInv, TypeOK
    <2>2. CASE u # st
      BY <1>1, <1>2, <2>2, StreamQuiet DEF IInv, TypeOK
    <2> QED BY <2>1, <2>2
  <1>6. \A v \in Workers : HubInv(v)'
    BY <1>1, HubInvQuiet DEF hubVars
  <1>7. ASSUME NEW t \in Sessions PROVE ConnInv(t)'
    <2>1. ConnInv(t) /\ conn[t] \in Streams \cup {Null}
      BY DEF IInv, TypeOK
    <2> QED BY <1>2, <2>1 DEF IInv, TypeOK, ConnInv
  <1>8. RegistryMatchesStreams'
    <2> SUFFICES ASSUME NEW v \in Workers
                 PROVE  registry'[v] = {u \in Streams : Subscribed(u)' /\ host'[u] = v}
      BY DEF RegistryMatchesStreams
    <2>1. \A u \in Streams : Subscribed(u)' /\ host'[u] = v <=> Subscribed(u) /\ host[u] = v
      BY <1>2 DEF Subscribed, IInv, TypeOK
    <2> QED BY <1>1, <2>1 DEF IInv, RegistryMatchesStreams, hubVars
  <1>9. VerdictScreenIsTruthful'
    BY <1>1, VerdictQuiet
  <1> QED BY <1>3, <1>4, <1>5, <1>6, <1>7, <1>8, <1>9 DEF IInv

LEMMA GiveUpKeeps ==
    ASSUME IInv, NEW s \in Sessions, ConnectNotFound(s) \/ ConnectStoreError(s)
    PROVE  IInv'
  <1>1. /\ UNCHANGED <<storeVars, screen, conn, bobPubkey, streamVars, hubVars>>
        /\ es' = [es EXCEPT ![s] = "CLOSED"]
    BY DEF ConnectNotFound, ConnectStoreError, GiveUp
  <1>2. faults' \in 0 .. MaxFaults
    <2>1. CASE ConnectNotFound(s)
      BY <2>1 DEF ConnectNotFound, IInv, TypeOK
    <2>2. CASE ConnectStoreError(s)
      BY <2>2, FaultBound DEF ConnectStoreError
    <2> QED BY <2>1, <2>2
  <1>3. StoreInv' /\ \A t \in Sessions : NamedInv(t)'
    BY <1>1, QuietKeeps
  <1>4. TypeOK'
    BY <1>1, <1>2, <1>3 DEF IInv, TypeOK, StoreInv, storeVars, streamVars, hubVars
  <1>5. \A st \in Streams : StreamInv(st)'
    BY <1>1, StreamQuiet DEF streamVars
  <1>6. \A w \in Workers : HubInv(w)'
    BY <1>1, HubInvQuiet DEF hubVars
  <1>7. \A t \in Sessions : ConnInv(t)'
    BY <1>1 DEF IInv, ConnInv, streamVars
  <1>8. RegistryMatchesStreams' /\ VerdictScreenIsTruthful'
    BY <1>1, VerdictQuiet DEF IInv, RegistryMatchesStreams, Subscribed, streamVars, hubVars
  <1> QED BY <1>3, <1>4, <1>5, <1>6, <1>7, <1>8 DEF IInv

LEMMA SubscribeKeeps ==
    ASSUME IInv, NEW st \in Streams, Subscribe(st)
    PROVE  IInv'
  <1>1. UNCHANGED <<storeVars, aliceVars, owner, host, queue, wire, inbox, faults>>
    BY DEF Subscribe
  <1>2. /\ spc[st] = "opened"
        /\ spc' = [spc EXCEPT ![st] = "checking"]
        /\ registry' = [registry EXCEPT ![host[st]] = @ \cup {st}]
        /\ listener' = [listener EXCEPT ![host[st]] = IF @ = "off" THEN "starting" ELSE @]
    BY DEF Subscribe
  <1>3. host[st] \in Workers
    BY <1>2 DEF IInv, StreamInv
  <1>4. StoreInv' /\ \A s \in Sessions : NamedInv(s)'
    BY <1>1, QuietKeeps
  <1>5. TypeOK'
    <2>1. registry' \in [Workers -> SUBSET Streams]
      BY <1>2, <1>3 DEF IInv, TypeOK
    <2>2. listener' \in [Workers -> {"off", "starting", "listening"}]
      BY <1>2, <1>3 DEF IInv, TypeOK
    <2> QED BY <1>1, <1>2, <1>4, <2>1, <2>2 DEF IInv, TypeOK, StoreInv, storeVars, aliceVars
  <1>6. \A u \in Streams : StreamInv(u)'
    BY <1>1, <1>2, StreamQuiet DEF IInv, TypeOK
  <1>7. \A w \in Workers : HubInv(w)'
    BY <1>1, HubInvQuiet
  <1>8. \A s \in Sessions : ConnInv(s)'
    BY <1>1, <1>2 DEF IInv, TypeOK, ConnInv, aliceVars
  <1>9. RegistryMatchesStreams'
    BY <1>1, <1>2, <1>3 DEF IInv, TypeOK, RegistryMatchesStreams, Subscribed
  <1>10. VerdictScreenIsTruthful'
    BY <1>1, VerdictQuiet DEF aliceVars
  <1> QED BY <1>4, <1>5, <1>6, <1>7, <1>8, <1>9, <1>10 DEF IInv

\* However the generator is left, its queue leaves the hub with it; the last
\* thing it may write is true of its owner.
LEMMA EndKeeps ==
    ASSUME IInv, NEW st \in Streams, Subscribed(st), End(st),
           UNCHANGED <<storeVars, aliceVars>>, faults' \in 0 .. MaxFaults,
           \/ wire' = wire
           \/ \E e \in Event : TrueOf(owner[st], e) /\ wire' = [wire EXCEPT ![st] = Append(@, e)]
    PROVE  IInv'
  <1>1. /\ spc' = [spc EXCEPT ![st] = "closed"]
        /\ registry' = [registry EXCEPT ![host[st]] = @ \ {st}]
        /\ queue' = [queue EXCEPT ![st] = <<>>]
        /\ UNCHANGED <<owner, host, listener, inbox>>
    BY DEF End
  <1>2. spc[st] # "unused" /\ host[st] \in Workers
    BY DEF Subscribed, IInv, StreamInv
  <1>3. ASSUME NEW u \in Streams
        PROVE  /\ wire'[u] \in Seq(Event)
               /\ u # st => wire'[u] = wire[u]
               /\ \A e \in Range(wire'[u]) : e \in Range(wire[u]) \/ TrueOf(owner[u], e)
    <2>1. wire[u] \in Seq(Event)
      BY DEF IInv, TypeOK
    <2>2. CASE wire'[u] = wire[u]
      BY <2>1, <2>2
    <2>3. CASE wire'[u] # wire[u]
      <3>1. PICK e \in Event : TrueOf(owner[st], e) /\ wire' = [wire EXCEPT ![st] = Append(@, e)]
        BY <2>3
      <3>2. u = st /\ wire'[u] = Append(wire[u], e)
        BY <2>3, <3>1 DEF IInv, TypeOK
      <3>3. wire'[u] \in Seq(Event) /\ Range(wire'[u]) = Range(wire[u]) \cup {e}
        BY <2>1, <3>2, RangeAppend
      <3> QED BY <3>1, <3>2, <3>3
    <2> QED BY <2>2, <2>3
  <1>4. StoreInv' /\ \A s \in Sessions : NamedInv(s)'
    BY QuietKeeps
  <1>5. TypeOK'
    <2>1. registry' \in [Workers -> SUBSET Streams]
      BY <1>1, <1>2 DEF IInv, TypeOK
    <2>2. wire' \in [Streams -> Seq(Event)]
      BY <1>3 DEF IInv, TypeOK
    <2>3. queue' \in [Streams -> Seq(Event)]
      BY <1>1 DEF IInv, TypeOK
    <2> QED BY <1>1, <1>4, <2>1, <2>2, <2>3 DEF IInv, TypeOK, StoreInv, storeVars, aliceVars
  <1>6. ASSUME NEW u \in Streams PROVE StreamInv(u)'
    <2>1. CASE u = st
      <3>1. queue'[u] = <<>> /\ spc'[u] = "closed"
        BY <1>1, <2>1 DEF IInv, TypeOK
      <3> QED BY <1>1, <1>2, <1>3, <2>1, <3>1, RangeEmpty, StreamQuiet
    <2>2. CASE u # st
      BY <1>1, <1>3, <2>2, StreamQuiet DEF IInv, TypeOK
    <2> QED BY <2>1, <2>2
  <1>7. \A w \in Workers : HubInv(w)'
    BY <1>1, HubInvQuiet
  <1>8. \A s \in Sessions : ConnInv(s)'
    BY <1>1 DEF IInv, TypeOK, ConnInv, aliceVars
  <1>9. RegistryMatchesStreams'
    BY <1>1, <1>2 DEF IInv, TypeOK, RegistryMatchesStreams, Subscribed
  <1>10. VerdictScreenIsTruthful'
    BY VerdictQuiet DEF aliceVars
  <1> QED BY <1>4, <1>5, <1>6, <1>7, <1>8, <1>9, <1>10 DEF IInv

\* The three ways to send a final event, and the three ways to end without one.
LEMMA ServeKeeps ==
    ASSUME IInv, NEW st \in Streams,
           \/ Check(st) \/ Receive(st) \/ Heartbeat(st) \/ CapReached(st)
           \/ WriteFails(st) \/ StreamStoreError(st)
    PROVE  IInv'
  <1> DEFINE final == TerminalEvent(hash[owner[st]])
             Sends(e) == /\ Subscribed(st) /\ SendAndEnd(st, e)
                         /\ UNCHANGED <<storeVars, aliceVars, faults>>
  <1>1. ASSUME NEW e \in FinalEvents, TrueOf(owner[st], e), Sends(e)
        PROVE  IInv'
    <2>1. e \in Event
      BY FinalEventsTyped
    <2>2. faults' \in 0 .. MaxFaults
      BY <1>1 DEF IInv, TypeOK
    <2>3. wire' = wire \/ wire' = [wire EXCEPT ![st] = Append(@, e)]
      BY <1>1 DEF SendAndEnd
    <2> QED BY <1>1, <2>1, <2>2, <2>3, EndKeeps DEF SendAndEnd
  <1>2. ASSUME Subscribed(st), final # NoEvent
        PROVE  final \in FinalEvents /\ TrueOf(owner[st], final)
    <2>1. owner[st] \in Sessions
      BY <1>2 DEF Subscribed, IInv, StreamInv
    <2> QED BY <1>2, <2>1, RebuiltIsTrue DEF TrueOf
  <1>3. CASE Check(st)
    <2>1. CASE final # NoEvent
      <3>1. Subscribed(st) /\ Sends(final)
        BY <1>3, <2>1 DEF Check, Subscribed
      <3> HIDE DEF final, Sends
      <3> QED BY <1>1, <1>2, <2>1, <3>1
    <2>2. CASE final = NoEvent
      <3>1. /\ spc[st] = "checking" /\ spc' = [spc EXCEPT ![st] = "waiting"]
            /\ UNCHANGED <<owner, host, queue, wire, hubVars, storeVars, aliceVars, faults>>
        BY <1>3, <2>2 DEF Check
      <3>2. StoreInv' /\ \A s \in Sessions : NamedInv(s)'
        BY <3>1, QuietKeeps
      <3>3. TypeOK'
        BY <3>1, <3>2 DEF IInv, TypeOK, StoreInv, storeVars, aliceVars, hubVars
      <3>4. \A u \in Streams : StreamInv(u)'
        BY <3>1, StreamQuiet DEF IInv, TypeOK
      <3>5. \A w \in Workers : HubInv(w)'
        BY <3>1, HubInvQuiet DEF hubVars
      <3>6. \A s \in Sessions : ConnInv(s)'
        BY <3>1 DEF IInv, TypeOK, ConnInv, aliceVars
      <3>7. RegistryMatchesStreams'
        BY <3>1 DEF IInv, TypeOK, RegistryMatchesStreams, Subscribed, hubVars
      <3>8. VerdictScreenIsTruthful'
        BY <3>1, VerdictQuiet DEF aliceVars
      <3> QED BY <3>2, <3>3, <3>4, <3>5, <3>6, <3>7, <3>8 DEF IInv
    <2> QED BY <2>1, <2>2
  <1>4. CASE Receive(st)
    <2> DEFINE e == Head(queue[st])
    <2>1. queue[st] \in Seq(Event) /\ queue[st] # <<>>
      BY <1>4 DEF Receive, IInv, TypeOK
    <2>2. e \in Range(queue[st])
      BY <2>1, RangeHeadTail
    <2>3. TrueOf(owner[st], e)
      BY <2>2 DEF IInv, StreamInv
    <2>4. Sends(e)
      BY <1>4 DEF Receive, Subscribed
    <2> HIDE DEF e, Sends
    <2> QED BY <1>1, <2>3, <2>4 DEF TrueOf
  <1>5. CASE Heartbeat(st)
    <2>1. Subscribed(st) /\ final # NoEvent /\ Sends(final)
      BY <1>5 DEF Heartbeat, Subscribed
    <2> HIDE DEF final, Sends
    <2> QED BY <1>1, <1>2, <2>1
  <1>6. CASE CapReached(st)
    <2>1. Sends(Expired)
      BY <1>6 DEF CapReached, Subscribed
    <2>2. Expired \in FinalEvents /\ TrueOf(owner[st], Expired)
      BY DEF FinalEvents, TrueOf
    <2> HIDE DEF Sends
    <2> QED BY <1>1, <2>1, <2>2
  <1>7. CASE WriteFails(st)
    <2>1. faults' \in 0 .. MaxFaults
      BY <1>7 DEF WriteFails, IInv, TypeOK
    <2> QED BY <1>7, <2>1, EndKeeps DEF WriteFails
  <1>8. CASE StreamStoreError(st)
    <2>1. faults' \in 0 .. MaxFaults
      BY <1>8, FaultBound DEF StreamStoreError
    <2> QED BY <1>8, <2>1, EndKeeps DEF StreamStoreError
  <1> QED BY <1>3, <1>4, <1>5, <1>6, <1>7, <1>8

\* A crash takes the worker's streams and its hub's queues together.
LEMMA CrashKeeps ==
    ASSUME IInv, NEW w \in Workers, WorkerCrash(w)
    PROVE  IInv'
  <1>1. UNCHANGED <<storeVars, aliceVars, owner, host, wire>>
    BY DEF WorkerCrash
  <1>2. /\ listener' = [listener EXCEPT ![w] = "off"]
        /\ inbox' = [inbox EXCEPT ![w] = <<>>]
        /\ registry' = [registry EXCEPT ![w] = {}]
        /\ spc' = [st \in Streams |-> IF Live(st) /\ host[st] = w THEN "closed" ELSE spc[st]]
        /\ queue' = [st \in Streams |-> IF host[st] = w THEN <<>> ELSE queue[st]]
    BY DEF WorkerCrash
  <1>3. faults' \in 0 .. MaxFaults
    BY FaultBound DEF WorkerCrash
  <1>4. StoreInv' /\ \A s \in Sessions : NamedInv(s)'
    BY <1>1, QuietKeeps
  <1>5. \A v \in Workers : inbox'[v] = inbox[v] \/ inbox'[v] = <<>>
    BY <1>2 DEF IInv, TypeOK
  <1>6. TypeOK'
    <2>1. <<>> \in Seq(Event)
      OBVIOUS
    <2>2. inbox' \in [Workers -> Seq([session : Sessions, event : Event])]
      BY <1>2, InboxEmptied DEF IInv
    <2>3. queue' \in [Streams -> Seq(Event)]
      BY <1>2, <2>1 DEF IInv, TypeOK
    <2>4. spc' \in [Streams -> {"unused", "opened", "checking", "waiting", "closed"}]
      BY <1>2 DEF IInv, TypeOK
    <2>5. /\ listener' \in [Workers -> {"off", "starting", "listening"}]
          /\ registry' \in [Workers -> SUBSET Streams]
      BY <1>2 DEF IInv, TypeOK
    <2> QED BY <1>1, <1>3, <1>4, <2>2, <2>3, <2>4, <2>5
            DEF IInv, TypeOK, StoreInv, storeVars, aliceVars
  <1>7. ASSUME NEW st \in Streams PROVE StreamInv(st)'
    <2>1. /\ spc[st] # "unused" => spc'[st] # "unused"
          /\ spc[st] = "unused" => spc'[st] = spc[st]
      BY <1>2 DEF Live
    <2>2. queue'[st] = queue[st] \/ queue'[st] = <<>>
      BY <1>2
    <2>3. spc[st] = "unused" => queue[st] = <<>>
      BY DEF IInv, StreamInv
    <2>4. Range(queue'[st]) \subseteq Range(queue[st])
      BY <2>2, RangeEmpty
    <2> QED BY <1>1, <2>1, <2>2, <2>3, <2>4, StreamQuiet
  <1>8. \A v \in Workers : HubInv(v)'
    BY <1>1, <1>5, RangeEmpty, HubInvQuiet
  <1>9. \A s \in Sessions : ConnInv(s)'
    BY <1>1, <1>2 DEF IInv, TypeOK, ConnInv, aliceVars, Live
  <1>10. RegistryMatchesStreams'
    <2> SUFFICES ASSUME NEW v \in Workers
                 PROVE  registry'[v] = {u \in Streams : Subscribed(u)' /\ host'[u] = v}
      BY DEF RegistryMatchesStreams
    <2>1. CASE v = w
      BY <1>1, <1>2, <2>1 DEF IInv, TypeOK, Subscribed, Live
    <2>2. CASE v # w
      <3>1. \A u \in Streams : Subscribed(u)' /\ host'[u] = v <=> Subscribed(u) /\ host[u] = v
        BY <1>1, <1>2, <2>2 DEF Subscribed
      <3> QED BY <1>2, <2>2, <3>1 DEF IInv, TypeOK, RegistryMatchesStreams
    <2> QED BY <2>1, <2>2
  <1>11. VerdictScreenIsTruthful'
    BY <1>1, VerdictQuiet DEF aliceVars
  <1> QED BY <1>4, <1>6, <1>7, <1>8, <1>9, <1>10, <1>11 DEF IInv

-----------------------------------------------------------------------------
(* Alice's EventSource.                                                    *)

\* Steps of her tab that discard at most a wire.
LEMMA TabKeeps ==
    ASSUME IInv, NEW s \in Sessions,
           UNCHANGED <<storeVars, spc, owner, host, queue, hubVars>>,
           faults' \in 0 .. MaxFaults,
           screen' \in [Sessions -> Screens], bobPubkey' \in [Sessions -> Bobs \cup {Null}],
           es' \in [Sessions -> {"CONNECTING", "OPEN", "CLOSED"}],
           conn' = conn \/ conn' = [conn EXCEPT ![s] = Null],
           wire' = wire \/ \E st \in Streams : wire' = [wire EXCEPT ![st] = <<>>],
           VerdictScreenIsTruthful'
    PROVE  IInv'
  <1>1. StoreInv' /\ \A t \in Sessions : NamedInv(t)'
    BY QuietKeeps
  <1>2. \A st \in Streams : wire'[st] = wire[st] \/ wire'[st] = <<>>
    BY DEF IInv, TypeOK
  <1>3. TypeOK'
    <2>1. wire' \in [Streams -> Seq(Event)]
      <3>1. wire \in [Streams -> Seq(Event)] /\ <<>> \in Seq(Event)
        BY DEF IInv, TypeOK
      <3> QED BY <3>1
    <2>2. conn' \in [Sessions -> Streams \cup {Null}]
      BY DEF IInv, TypeOK
    <2> QED BY <1>1, <2>1, <2>2 DEF IInv, TypeOK, StoreInv, storeVars, hubVars
  <1>4. ASSUME NEW st \in Streams PROVE StreamInv(st)'
    <2>1. spc[st] = "unused" => wire[st] = <<>>
      BY DEF IInv, StreamInv
    <2>2. Range(wire'[st]) \subseteq Range(wire[st])
      BY <1>2, RangeEmpty
    <2> QED BY <1>2, <2>1, <2>2, StreamQuiet
  <1>5. \A w \in Workers : HubInv(w)'
    BY HubInvQuiet DEF hubVars
  <1>6. \A t \in Sessions : ConnInv(t)'
    BY DEF IInv, TypeOK, ConnInv
  <1>7. RegistryMatchesStreams'
    BY DEF IInv, RegistryMatchesStreams, Subscribed, hubVars
  <1> QED BY <1>1, <1>3, <1>4, <1>5, <1>6, <1>7 DEF IInv

LEMMA ImportFailsKeeps ==
    ASSUME IInv, NEW s \in Sessions, ImportFails(s)
    PROVE  IInv'
  <1>1. /\ conn[s] \in Streams
        /\ UNCHANGED <<storeVars, screen, bobPubkey, spc, owner, host, queue, hubVars, faults>>
        /\ es' \in {es, [es EXCEPT ![s] = "CLOSED"]}
        /\ conn' = conn \/ conn' = [conn EXCEPT ![s] = Null]
        /\ wire' = [wire EXCEPT ![conn[s]] = <<>>]
    BY DEF ImportFails, IInv, TypeOK
  <1>2. VerdictScreenIsTruthful'
    BY <1>1 DEF IInv, VerdictScreenIsTruthful, storeVars
  <1>3. /\ screen' \in [Sessions -> Screens] /\ bobPubkey' \in [Sessions -> Bobs \cup {Null}]
        /\ es' \in [Sessions -> {"CONNECTING", "OPEN", "CLOSED"}] /\ faults' \in 0 .. MaxFaults
    BY <1>1 DEF IInv, TypeOK
  <1> QED BY <1>1, <1>2, <1>3, TabKeeps

\* The event she reads is true of her session.
LEMMA DeliverKeeps ==
    ASSUME IInv, NEW s \in Sessions, Deliver(s)
    PROVE  IInv'
  <1> DEFINE st == conn[s]
             e == Head(wire[st])
  <1>1. st \in Streams /\ wire[st] # <<>> /\ owner[st] = s
    BY DEF Deliver, IInv, TypeOK, ConnInv
  <1>2. e \in Range(wire[st])
    <2>1. wire[st] \in Seq(Event)
      BY <1>1 DEF IInv, TypeOK
    <2> HIDE DEF st
    <2> QED BY <1>1, <2>1, RangeHeadTail
  <1>3. TrueOf(s, e)
    BY <1>1, <1>2 DEF IInv, StreamInv
  <1>4. /\ UNCHANGED <<storeVars, spc, owner, host, queue, hubVars, faults>>
        /\ es' = [es EXCEPT ![s] = "CLOSED"]
        /\ conn' = [conn EXCEPT ![s] = Null]
        /\ wire' = [wire EXCEPT ![st] = <<>>]
        /\ screen' = [screen EXCEPT ![s] = CASE e.event = "VERIFIED" -> "step-alice-pass"
                                             [] e.event = "FAILED"   -> "step-alice-fail"
                                             [] e.event = "EXPIRED"  -> "step-create"]
        /\ bobPubkey' = [bobPubkey EXCEPT ![s] =
                            IF e.event = "VERIFIED" THEN e.bob_pubkey_jwk ELSE @]
    BY DEF Deliver
  <1> HIDE DEF st, e
  <1>5. /\ e = Expired \/ e = Failed \/ \E b \in Bobs : e = Verified(b)
        /\ e # Expired => published[s] = <<e>>
    BY <1>3 DEF TrueOf, FinalEvents
  <1>6. /\ screen'[s] \in Screens /\ bobPubkey'[s] \in Bobs \cup {Null}
        /\ screen'[s] = "step-alice-pass" => published[s] = <<Verified(bobPubkey'[s])>>
        /\ screen'[s] = "step-alice-fail" => published[s] = <<Failed>>
    <2>0. screen \in [Sessions -> Screens] /\ bobPubkey \in [Sessions -> Bobs \cup {Null}]
      BY DEF IInv, TypeOK
    <2>1. CASE e = Expired
      BY <1>4, <2>0, <2>1 DEF Expired, Screens
    <2>2. CASE e = Failed
      <3>1. screen'[s] = "step-alice-fail" /\ bobPubkey'[s] = bobPubkey[s]
        BY <1>4, <2>0, <2>2 DEF Failed
      <3>2. published[s] = <<Failed>>
        BY <1>5, <2>2 DEF Failed, Expired
      <3> QED BY <2>0, <3>1, <3>2 DEF Screens
    <2>3. ASSUME NEW b \in Bobs, e = Verified(b)
          PROVE  screen'[s] = "step-alice-pass" /\ bobPubkey'[s] = b
                 /\ published[s] = <<Verified(b)>>
      <3>1. screen'[s] = "step-alice-pass" /\ bobPubkey'[s] = b
        BY <1>4, <2>0, <2>3 DEF Verified
      <3>2. e # Expired
        BY <2>3 DEF Verified, Expired
      <3> QED BY <1>5, <2>3, <3>1, <3>2
    <2> QED BY <1>5, <2>1, <2>2, <2>3 DEF Screens
  <1>7. \A t \in Sessions \ {s} : screen'[t] = screen[t] /\ bobPubkey'[t] = bobPubkey[t]
    BY <1>4 DEF IInv, TypeOK
  <1>8. VerdictScreenIsTruthful'
    <2>1. published' = published
      BY <1>4 DEF storeVars
    <2>2. VerdictScreenIsTruthful
      BY DEF IInv
    <2> QED BY <1>6, <1>7, <2>1, <2>2 DEF VerdictScreenIsTruthful
  <1>9. /\ screen' \in [Sessions -> Screens] /\ bobPubkey' \in [Sessions -> Bobs \cup {Null}]
        /\ es' \in [Sessions -> {"CONNECTING", "OPEN", "CLOSED"}]
    BY <1>4, <1>6 DEF IInv, TypeOK
  <1>10. faults' \in 0 .. MaxFaults
    BY <1>4 DEF IInv, TypeOK
  <1> QED BY <1>1, <1>4, <1>8, <1>9, <1>10, TabKeeps

LEMMA ReconnectKeeps ==
    ASSUME IInv, NEW s \in Sessions, StreamEnded(s) \/ Drop(s)
    PROVE  IInv'
  <1>1. Reconnecting(s)
    BY DEF StreamEnded, Drop
  <1>2. /\ UNCHANGED <<storeVars, screen, bobPubkey, spc, owner, host, queue, hubVars>>
        /\ conn[s] # Null
        /\ es' = [es EXCEPT ![s] = "CONNECTING"]
        /\ conn' = [conn EXCEPT ![s] = Null]
        /\ wire' = [wire EXCEPT ![conn[s]] = <<>>]
    BY <1>1 DEF Reconnecting
  <1>3. conn[s] \in Streams
    BY <1>2 DEF IInv, TypeOK
  <1>4. faults' \in 0 .. MaxFaults
    <2>1. CASE StreamEnded(s)
      BY <2>1 DEF StreamEnded, IInv, TypeOK
    <2>2. CASE Drop(s)
      BY <2>2, FaultBound DEF Drop
    <2> QED BY <2>1, <2>2
  <1>5. /\ screen' \in [Sessions -> Screens] /\ bobPubkey' \in [Sessions -> Bobs \cup {Null}]
        /\ es' \in [Sessions -> {"CONNECTING", "OPEN", "CLOSED"}]
    BY <1>2 DEF IInv, TypeOK
  <1>6. VerdictScreenIsTruthful'
    BY <1>2, VerdictQuiet
  <1> QED BY <1>2, <1>3, <1>4, <1>5, <1>6, TabKeeps

LEMMA CloseTabKeeps ==
    ASSUME IInv, NEW s \in Sessions, CloseTab(s)
    PROVE  IInv'
  <1>1. /\ UNCHANGED <<storeVars, bobPubkey, streamVars, hubVars, faults>>
        /\ screen' = [screen EXCEPT ![s] = "none"]
        /\ es' = [es EXCEPT ![s] = "CLOSED"]
        /\ conn' = [conn EXCEPT ![s] = Null]
    BY DEF CloseTab
  <1>2. /\ screen' \in [Sessions -> Screens] /\ bobPubkey' \in [Sessions -> Bobs \cup {Null}]
        /\ es' \in [Sessions -> {"CONNECTING", "OPEN", "CLOSED"}]
        /\ faults' \in 0 .. MaxFaults
    BY <1>1 DEF IInv, TypeOK, Screens
  <1>3. VerdictScreenIsTruthful'
    BY <1>1 DEF IInv, TypeOK, VerdictScreenIsTruthful, storeVars
  <1> QED BY <1>1, <1>2, <1>3, TabKeeps DEF streamVars

-----------------------------------------------------------------------------
LEMMA IInvStep == IInv /\ [Next]_vars => IInv'
  <1> SUFFICES ASSUME IInv, [Next]_vars PROVE IInv'
    OBVIOUS
  <1>1. CASE UNCHANGED vars
    BY <1>1, StutterKeeps
  <1>2. ASSUME NEW s \in Sessions, NEW a \in Answers, CreateSession(s, a)
        PROVE  IInv'
    BY <1>2, CreateKeeps
  <1>3. ASSUME NEW s \in Sessions, NEW b \in Bobs, NEW passed \in BOOLEAN, Decide(s, b, passed)
        PROVE  IInv'
    BY <1>3, DecideKeeps
  <1>4. ASSUME NEW s \in Sessions, Vanish(s)
        PROVE  IInv'
    BY <1>4, VanishKeeps
  <1>5. ASSUME NEW s \in Sessions, Reach(s) \/ ConnectStoreError(s)
        PROVE  IInv'
    BY <1>5, ConnectKeeps, GiveUpKeeps DEF Reach
  <1>6. ASSUME NEW s \in Sessions, Browse(s) \/ Drop(s) \/ CloseTab(s)
        PROVE  IInv'
    BY <1>6, DeliverKeeps, ImportFailsKeeps, ReconnectKeeps, CloseTabKeeps DEF Browse
  <1>7. ASSUME NEW st \in Streams, Serve(st) \/ CapReached(st) \/ StreamStoreError(st)
        PROVE  IInv'
    BY <1>7, SubscribeKeeps, ServeKeeps DEF Serve
  <1>8. ASSUME NEW w \in Workers, Hub(w) \/ HubLose(w) \/ WorkerCrash(w)
        PROVE  IInv'
    BY <1>8, ListenKeeps, DispatchKeeps, CrashKeeps DEF Hub
  <1> QED BY <1>1, <1>2, <1>3, <1>4, <1>5, <1>6, <1>7, <1>8 DEF Next

\* The inductive invariant holds in every state.
THEOREM StreamInvariance == Spec => []IInv
  BY IInvInit, IInvStep, PTL DEF Spec

\* Every variable of the stream side keeps its type.
THEOREM StreamTypeCorrect == Spec => []TypeOK
  <1>1. IInv => TypeOK
    BY DEF IInv
  <1> QED BY <1>1, StreamInvariance, PTL

\* No hub keeps the queue of a stream that ended, in whatever way it did, or
\* forgets one that is being served.
THEOREM NoQueueLeaks == Spec => []RegistryMatchesStreams
  <1>1. IInv => RegistryMatchesStreams
    BY DEF IInv
  <1> QED BY <1>1, StreamInvariance, PTL

\* Whichever way the result took, Alice's screen shows the verdict announced
\* for her session, and her secret is derived from the announced tab's key.
THEOREM AliceSeesTheVerdict == Spec => []VerdictScreenIsTruthful
  <1>1. IInv => VerdictScreenIsTruthful
    BY DEF IInv
  <1> QED BY <1>1, StreamInvariance, PTL

-----------------------------------------------------------------------------
(* EXPIRED.  Only a stream whose state check finds no session writes it, if *)
(* no session outlives the cap of its stream; and an id is not used again. *)

Gone(s) == s \in issued /\ hash[s].phase = "ABSENT"

GoneInv ==
    /\ \A w \in Workers : \A msg \in Range(inbox[w]) : msg.event # Expired
    /\ \A st \in Streams : Expired \notin Range(queue[st])
    /\ \A st \in Streams : spc[st] # "unused" => owner[st] \in issued
    /\ \A st \in Streams : Expired \in Range(wire[st]) => Gone(owner[st])
    /\ \A s \in Sessions : screen[s] = "step-create" => Gone(s)

LEMMA GoneInvInit == Init => GoneInv
  BY RangeEmpty DEF Init, GoneInv

LEMMA IssuedStays ==
    ASSUME IInv, [StoreNext]_storeVars, NEW s \in issued
    PROVE  s \in issued' /\ (Gone(s) => Gone(s)')
  <1>1. s \in issued'
    BY DEF StoreNext, Create, Finalize, Delete, Expire, storeVars
  <1>2. ASSUME Gone(s) PROVE hash'[s].phase = "ABSENT"
    <2>1. hash'[s] \in {hash[s], NoHash}
      BY <1>2, ForwardStep DEF Forward, Gone, IInv
    <2> QED BY <1>2, <2>1 DEF Gone, NoHash
  <1> QED BY <1>1, <1>2 DEF Gone

\* The conditions on a step under which the parts of GoneInv survive it.
Tells(st) == spc[st] # "unused" /\ hash[owner[st]].phase = "ABSENT"

OwnersKept ==
    \A st \in Streams :
        spc'[st] # "unused" => \/ spc[st] # "unused" /\ owner'[st] = owner[st]
                               \/ owner'[st] \in issued /\ wire'[st] = <<>>

OnlyToldWhenGone ==
    \A st \in Streams :
        Expired \in Range(wire'[st]) => Expired \in Range(wire[st]) \/ Tells(st)

NoExpiryQueued ==
    /\ \A st \in Streams : Expired \in Range(queue'[st]) => Expired \in Range(queue[st])
    /\ \A w \in Workers : \A msg \in Range(inbox'[w]) :
          msg \in Range(inbox[w]) \/ msg.event # Expired

SentBackWhenGone ==
    \A s \in Sessions : screen'[s] = "step-create" => screen[s] = "step-create" \/ Gone(s)

LEMMA GoneKeeps ==
    ASSUME IInv, IInv', GoneInv, [StoreNext]_storeVars,
           OwnersKept, OnlyToldWhenGone, NoExpiryQueued, SentBackWhenGone
    PROVE  GoneInv'
  <1>1. \A s \in issued : s \in issued' /\ (Gone(s) => Gone(s)')
    BY IssuedStays
  <1>2. (\A w \in Workers : \A msg \in Range(inbox[w]) : msg.event # Expired)'
    BY DEF GoneInv, NoExpiryQueued
  <1>3. (\A st \in Streams : Expired \notin Range(queue[st]))'
    BY DEF GoneInv, NoExpiryQueued
  <1>4. (\A st \in Streams : spc[st] # "unused" => owner[st] \in issued)'
    BY <1>1 DEF GoneInv, OwnersKept
  <1>5. ASSUME NEW st \in Streams, Expired \in Range(wire'[st])
        PROVE  Gone(owner[st])'
    <2>1. spc'[st] # "unused" /\ wire'[st] # <<>>
      BY <1>5, RangeEmpty DEF IInv, StreamInv
    <2>2. spc[st] # "unused" /\ owner'[st] = owner[st] /\ owner[st] \in issued
      BY <2>1 DEF OwnersKept, GoneInv
    <2>3. Gone(owner[st])
      BY <1>5, <2>2 DEF OnlyToldWhenGone, Tells, GoneInv, Gone
    <2> QED BY <1>1, <2>2, <2>3 DEF Gone
  <1>6. (\A s \in Sessions : screen[s] = "step-create" => Gone(s))'
    BY <1>1 DEF GoneInv, SentBackWhenGone, Gone
  <1> QED BY <1>2, <1>3, <1>4, <1>5, <1>6 DEF GoneInv

\* Steps that write to no wire and show no screen but the waiting one.
LEMMA GoneStoreStep ==
    ASSUME IInv, IInv', GoneInv, NEW s \in Sessions,
           \/ \E a \in Answers : CreateSession(s, a)
           \/ \E b \in Bobs, passed \in BOOLEAN : Decide(s, b, passed)
           \/ Vanish(s)
    PROVE  GoneInv'
  <1>1. [StoreNext]_storeVars
    BY DEF CreateSession, Decide, Vanish, StoreNext
  <1>2. UNCHANGED streamVars
    BY DEF CreateSession, Decide, Vanish
  <1>3. OwnersKept /\ OnlyToldWhenGone
    BY <1>2 DEF OwnersKept, OnlyToldWhenGone, streamVars
  <1>4. SentBackWhenGone
    BY DEF CreateSession, Decide, Vanish, SentBackWhenGone, aliceVars, IInv, TypeOK
  <1>5. NoExpiryQueued
    <2>1. \A st \in Streams : queue'[st] = queue[st]
      BY <1>2 DEF streamVars
    <2>2. CASE Vanish(s) \/ \E a \in Answers : CreateSession(s, a)
      BY <2>1, <2>2 DEF CreateSession, Vanish, hubVars, NoExpiryQueued
    <2>3. ASSUME NEW b \in Bobs, NEW passed \in BOOLEAN, Decide(s, b, passed),
                 NEW w \in Workers, NEW msg \in Range(inbox'[w])
          PROVE  msg \in Range(inbox[w]) \/ msg.event # Expired
      <3> DEFINE new == [session |-> s, event |-> VerdictEvent(b, passed)]
                 Message == [session : Sessions, event : Event]
      <3>1. new \in Message /\ new.event # Expired
        BY VerdictTypes, VerdictIsFinal
      <3>2. inbox[w] \in Seq(Message)
        BY DEF IInv, TypeOK
      <3>3. inbox'[w] = inbox[w] \/ inbox'[w] = Append(inbox[w], new)
        BY <2>3 DEF Decide
      <3> HIDE DEF new, Message
      <3>4. Range(inbox'[w]) \subseteq Range(inbox[w]) \cup {new}
        BY <3>1, <3>2, <3>3, RangeAppend
      <3> QED BY <2>3, <3>1, <3>4
    <2> QED BY <2>1, <2>2, <2>3 DEF NoExpiryQueued
  <1> QED BY <1>1, <1>3, <1>4, <1>5, GoneKeeps

LEMMA GoneConnectStep ==
    ASSUME IInv, IInv', GoneInv, NEW s \in Sessions, Reach(s) \/ ConnectStoreError(s)
    PROVE  GoneInv'
  <1>1. UNCHANGED <<storeVars, screen, bobPubkey, queue, wire, hubVars>>
    BY DEF Reach, Connect, ConnectNotFound, ConnectStoreError, GiveUp, streamVars
  <1>2. OwnersKept
    <2>1. CASE ConnectNotFound(s) \/ ConnectStoreError(s)
      BY <2>1 DEF ConnectNotFound, ConnectStoreError, GiveUp, streamVars, OwnersKept
    <2>2. ASSUME NEW st \in Streams, NEW w \in Workers, Connect(s, st, w)
          PROVE  OwnersKept
      <3>1. spc[st] = "unused" /\ hash[s].phase # "ABSENT"
        BY <2>2 DEF Connect
      <3>2. wire'[st] = <<>>
        BY <1>1, <3>1 DEF IInv, StreamInv
      <3>3. s \in issued
        BY <3>1 DEF IInv, StoreInv, Untouched, NoHash
      <3>4. owner'[st] = s
        BY <2>2 DEF Connect, IInv, TypeOK
      <3>5. \A u \in Streams \ {st} : spc'[u] = spc[u] /\ owner'[u] = owner[u]
        BY <2>2 DEF Connect, IInv, TypeOK
      <3> QED BY <3>2, <3>3, <3>4, <3>5 DEF OwnersKept
    <2> QED BY <2>1, <2>2 DEF Reach
  <1>3. OnlyToldWhenGone /\ NoExpiryQueued /\ SentBackWhenGone
    BY <1>1 DEF OnlyToldWhenGone, NoExpiryQueued, SentBackWhenGone, hubVars
  <1> QED BY <1>1, <1>2, <1>3, GoneKeeps

\* A stream that ends tells at most what its state check found.
LEMMA GoneSendStep ==
    ASSUME IInv, IInv', GoneInv, NEW st \in Streams,
           UNCHANGED <<storeVars, aliceVars, owner, inbox>>,
           spc[st] # "unused",
           \A u \in Streams : u # st => spc'[u] = spc[u],
           \A u \in Streams : queue'[u] = queue[u] \/ queue'[u] = <<>>,
           \/ wire' = wire
           \/ \E e \in Event : /\ wire' = [wire EXCEPT ![st] = Append(@, e)]
                               /\ e = Expired => hash[owner[st]].phase = "ABSENT"
    PROVE  GoneInv'
  <1>1. OwnersKept
    BY DEF OwnersKept
  <1>2. NoExpiryQueued /\ SentBackWhenGone
    BY RangeEmpty DEF NoExpiryQueued, SentBackWhenGone, aliceVars
  <1>3. OnlyToldWhenGone
    <2>1. CASE wire' = wire
      BY <2>1 DEF OnlyToldWhenGone
    <2>2. ASSUME NEW e \in Event, wire' = [wire EXCEPT ![st] = Append(@, e)],
                 e = Expired => hash[owner[st]].phase = "ABSENT"
          PROVE  OnlyToldWhenGone
      <3>1. wire \in [Streams -> Seq(Event)]
        BY DEF IInv, TypeOK
      <3>2. Range(Append(wire[st], e)) = Range(wire[st]) \cup {e}
        BY <3>1, RangeAppend
      <3>3. wire'[st] = Append(wire[st], e) /\ \A u \in Streams \ {st} : wire'[u] = wire[u]
        BY <2>2, <3>1
      <3> QED BY <2>2, <3>2, <3>3 DEF OnlyToldWhenGone, Tells
    <2> QED BY <2>1, <2>2
  <1> QED BY <1>1, <1>2, <1>3, GoneKeeps

LEMMA GoneServeStep ==
    ASSUME IInv, IInv', GoneInv, NEW st \in Streams,
           Serve(st) \/ StreamStoreError(st)
    PROVE  GoneInv'
  <1> DEFINE final == TerminalEvent(hash[owner[st]])
             Says(e) == /\ UNCHANGED <<storeVars, aliceVars, owner, inbox>>
                        /\ spc[st] # "unused"
                        /\ SendAndEnd(st, e)
  <1>0. spc \in [Streams -> {"unused", "opened", "checking", "waiting", "closed"}]
        /\ queue \in [Streams -> Seq(Event)]
    BY DEF IInv, TypeOK
  <1>1. ASSUME NEW e \in Event, e = Expired => hash[owner[st]].phase = "ABSENT", Says(e)
        PROVE  GoneInv'
    <2>1. wire' = wire \/ wire' = [wire EXCEPT ![st] = Append(@, e)]
      BY <1>1 DEF SendAndEnd
    <2>2. /\ \A u \in Streams : u # st => spc'[u] = spc[u]
          /\ \A u \in Streams : queue'[u] = queue[u] \/ queue'[u] = <<>>
      BY <1>0, <1>1 DEF SendAndEnd, End
    <2> QED BY <1>1, <2>1, <2>2, GoneSendStep
  <1>2. ASSUME spc[st] # "unused", final # NoEvent
        PROVE  final \in Event /\ (final = Expired => hash[owner[st]].phase = "ABSENT")
    <2>1. owner[st] \in Sessions
      BY <1>2 DEF IInv, StreamInv
    <2>2. final \in Event
      BY <1>2, <2>1, RebuiltIsTrue, FinalEventsTyped DEF TrueOf
    <2>3. hash[owner[st]] \in Hash
      BY <2>1 DEF IInv, StoreInv, StoreTypeOK
    <2>4. hash[owner[st]].phase \in Phases
      BY <2>3 DEF Hash
    <2> QED BY <2>2, <2>4 DEF TerminalEvent, Expired, Verified, Failed, NoEvent, Phases, TerminalPhases
  <1>3. CASE Subscribe(st)
    <2>1. /\ UNCHANGED <<storeVars, aliceVars, owner, inbox, queue, wire>> /\ spc[st] # "unused"
          /\ \A u \in Streams : u # st => spc'[u] = spc[u]
      BY <1>0, <1>3 DEF Subscribe
    <2> QED BY <2>1, GoneSendStep
  <1>4. CASE Check(st)
    <2>1. CASE final # NoEvent
      <3>1. Says(final)
        BY <1>4, <2>1 DEF Check, SendAndEnd, End
      <3> HIDE DEF Says, final
      <3>2. spc[st] # "unused"
        BY <1>4 DEF Check
      <3> QED BY <1>1, <1>2, <2>1, <3>1, <3>2
    <2>2. CASE final = NoEvent
      <3>1. /\ UNCHANGED <<storeVars, aliceVars, owner, inbox, queue, wire>> /\ spc[st] # "unused"
            /\ \A u \in Streams : u # st => spc'[u] = spc[u]
        BY <1>0, <1>4, <2>2 DEF Check, hubVars
      <3> QED BY <3>1, GoneSendStep
    <2> QED BY <2>1, <2>2
  <1>5. CASE Receive(st)
    <2> DEFINE e == Head(queue[st])
    <2>1. queue[st] \in Seq(Event) /\ queue[st] # <<>>
      BY <1>0, <1>5 DEF Receive
    <2>2. e \in Event /\ e \in Range(queue[st])
      BY <2>1, RangeHeadTail
    <2>3. e # Expired
      BY <2>2 DEF GoneInv
    <2>4. Says(e)
      BY <1>5 DEF Receive, SendAndEnd, End
    <2> HIDE DEF e, Says
    <2> QED BY <1>1, <2>2, <2>3, <2>4
  <1>6. CASE Heartbeat(st)
    <2>1. spc[st] # "unused" /\ final # NoEvent /\ Says(final)
      BY <1>6 DEF Heartbeat, SendAndEnd, End
    <2> HIDE DEF final, Says
    <2> QED BY <1>1, <1>2, <2>1
  <1>7. CASE WriteFails(st) \/ StreamStoreError(st)
    <2>1. /\ UNCHANGED <<storeVars, aliceVars, owner, inbox, wire>> /\ spc[st] # "unused"
          /\ \A u \in Streams : u # st => spc'[u] = spc[u]
          /\ \A u \in Streams : queue'[u] = queue[u] \/ queue'[u] = <<>>
      BY <1>0, <1>7 DEF WriteFails, StreamStoreError, Subscribed, End
    <2> QED BY <2>1, GoneSendStep
  <1> QED BY <1>3, <1>4, <1>5, <1>6, <1>7 DEF Serve

LEMMA GoneHubStep ==
    ASSUME IInv, IInv', GoneInv, NEW w \in Workers, Hub(w) \/ HubLose(w) \/ WorkerCrash(w)
    PROVE  GoneInv'
  <1>1. UNCHANGED <<storeVars, aliceVars, owner, wire>>
    BY DEF Hub, HubListen, HubDispatch, HubLose, WorkerCrash, streamVars
  <1>2. \A st \in Streams : spc'[st] # "unused" => spc[st] # "unused"
    BY DEF Hub, HubListen, HubDispatch, HubLose, WorkerCrash, streamVars, Live
  <1>3. OwnersKept /\ OnlyToldWhenGone /\ SentBackWhenGone
    BY <1>1, <1>2 DEF OwnersKept, OnlyToldWhenGone, SentBackWhenGone, aliceVars
  <1>4. NoExpiryQueued
    <2>1. CASE HubListen(w) \/ HubLose(w) \/ WorkerCrash(w)
      <3>1. \A v \in Workers : inbox'[v] = inbox[v] \/ inbox'[v] = <<>>
        BY <2>1 DEF HubListen, HubLose, WorkerCrash, IInv, TypeOK
      <3>2. \A st \in Streams : queue'[st] = queue[st] \/ queue'[st] = <<>>
        BY <2>1 DEF HubListen, HubLose, WorkerCrash, streamVars
      <3> QED BY <3>1, <3>2, RangeEmpty DEF NoExpiryQueued
    <2>2. CASE HubDispatch(w)
      <3> DEFINE Message == [session : Sessions, event : Event]
                 msg == Head(inbox[w])
      <3>1. inbox[w] \in Seq(Message) /\ inbox[w] # <<>>
        BY <2>2, InboxTyped DEF IInv, HubDispatch
      <3>2. /\ msg \in Message /\ msg \in Range(inbox[w])
            /\ Range(Tail(inbox[w])) \subseteq Range(inbox[w])
        <4> HIDE DEF Message
        <4> QED BY <3>1, RangeHeadTail
      <3>3. msg.event # Expired /\ msg.event \in Event
        BY <3>2 DEF GoneInv
      <3>4. \A v \in Workers : Range(inbox'[v]) \subseteq Range(inbox[v])
        BY <2>2, <3>2 DEF HubDispatch, IInv, TypeOK
      <3>5. ASSUME NEW st \in Streams, Expired \in Range(queue'[st])
            PROVE  Expired \in Range(queue[st])
        <4>1. queue[st] \in Seq(Event)
          BY DEF IInv, TypeOK
        <4>2. queue'[st] = queue[st] \/ queue'[st] = Append(queue[st], msg.event)
          BY <2>2 DEF HubDispatch, Put
        <4> HIDE DEF msg
        <4>3. Range(Append(queue[st], msg.event)) = Range(queue[st]) \cup {msg.event}
          BY <3>3, <4>1, RangeAppend
        <4> QED BY <3>3, <3>5, <4>2, <4>3
      <3> QED BY <3>4, <3>5 DEF NoExpiryQueued
    <2> QED BY <2>1, <2>2 DEF Hub
  <1> QED BY <1>1, <1>3, <1>4, GoneKeeps

\* Alice's tab believes what it reads.
LEMMA GoneTabStep ==
    ASSUME IInv, IInv', GoneInv, NEW s \in Sessions, Browse(s) \/ Drop(s) \/ CloseTab(s)
    PROVE  GoneInv'
  <1>0. /\ screen \in [Sessions -> Screens] /\ wire \in [Streams -> Seq(Event)]
        /\ conn \in [Sessions -> Streams \cup {Null}]
    BY DEF IInv, TypeOK
  <1>1. UNCHANGED <<storeVars, spc, owner, queue, hubVars>>
    BY DEF Browse, Deliver, ImportFails, StreamEnded, Drop, Reconnecting, CloseTab, streamVars
  <1>2. \A st \in Streams : wire'[st] = wire[st] \/ wire'[st] = <<>>
    BY <1>0 DEF Browse, Deliver, ImportFails, StreamEnded, Drop, Reconnecting, CloseTab,
                streamVars
  <1>3. OwnersKept /\ OnlyToldWhenGone /\ NoExpiryQueued
    BY <1>1, <1>2, RangeEmpty DEF OwnersKept, OnlyToldWhenGone, NoExpiryQueued, hubVars
  <1>4. SentBackWhenGone
    <2>1. CASE ImportFails(s) \/ StreamEnded(s) \/ Drop(s) \/ CloseTab(s)
      BY <1>0, <2>1 DEF ImportFails, StreamEnded, Drop, Reconnecting, CloseTab, SentBackWhenGone
    <2>2. CASE Deliver(s)
      <3> DEFINE e == Head(wire[conn[s]])
      <3>1. conn[s] \in Streams /\ wire[conn[s]] # <<>> /\ owner[conn[s]] = s
        BY <1>0, <2>2 DEF Deliver, IInv, ConnInv
      <3>2. wire[conn[s]] \in Seq(Event)
        BY <1>0, <3>1
      <3>3. e \in Range(wire[conn[s]])
        BY <3>1, <3>2, RangeHeadTail
      <3>4. TrueOf(s, e)
        BY <3>1, <3>3 DEF IInv, StreamInv
      <3>5. e = Expired => Gone(s)
        BY <3>1, <3>3 DEF GoneInv
      <3>6. screen' = [screen EXCEPT ![s] = CASE e.event = "VERIFIED" -> "step-alice-pass"
                                             [] e.event = "FAILED"   -> "step-alice-fail"
                                             [] e.event = "EXPIRED"  -> "step-create"]
        BY <2>2 DEF Deliver
      <3> HIDE DEF e
      <3>7. e # Expired => screen'[s] # "step-create"
        BY <1>0, <3>4, <3>6 DEF TrueOf, FinalEvents, Verified, Failed
      <3>8. \A t \in Sessions \ {s} : screen'[t] = screen[t]
        BY <1>0, <3>6
      <3> QED BY <3>5, <3>7, <3>8 DEF SentBackWhenGone
    <2> QED BY <2>1, <2>2 DEF Browse
  <1> QED BY <1>1, <1>3, <1>4, GoneKeeps

LEMMA GoneInvStep ==
    ASSUME "ttl_above_cap" \notin Faults
    PROVE  IInv /\ IInv' /\ GoneInv /\ [Next]_vars => GoneInv'
  <1> SUFFICES ASSUME IInv, IInv', GoneInv, [Next]_vars PROVE GoneInv'
    OBVIOUS
  <1>1. CASE UNCHANGED vars
    BY <1>1 DEF vars, storeVars, aliceVars, streamVars, hubVars, GoneInv, Gone
  <1>2. ASSUME NEW s \in Sessions,
               \/ \E a \in Answers : CreateSession(s, a)
               \/ \E b \in Bobs, passed \in BOOLEAN : Decide(s, b, passed)
               \/ Vanish(s)
        PROVE  GoneInv'
    BY <1>2, GoneStoreStep
  <1>3. ASSUME NEW s \in Sessions, Reach(s) \/ ConnectStoreError(s)
        PROVE  GoneInv'
    BY <1>3, GoneConnectStep
  <1>4. ASSUME NEW s \in Sessions, Browse(s) \/ Drop(s) \/ CloseTab(s)
        PROVE  GoneInv'
    BY <1>4, GoneTabStep
  <1>5. ASSUME NEW st \in Streams, Serve(st) \/ CapReached(st) \/ StreamStoreError(st)
        PROVE  GoneInv'
    BY <1>5, GoneServeStep DEF CapReached
  <1>6. ASSUME NEW w \in Workers, Hub(w) \/ HubLose(w) \/ WorkerCrash(w)
        PROVE  GoneInv'
    BY <1>6, GoneHubStep
  <1> QED BY <1>1, <1>2, <1>3, <1>4, <1>5, <1>6 DEF Next

LEMMA GoneInvariance ==
    ASSUME "ttl_above_cap" \notin Faults
    PROVE  Spec => []GoneInv
  <1>1. IInv /\ IInv' /\ GoneInv /\ [Next]_vars => GoneInv'
    BY GoneInvStep
  <1> QED BY <1>1, GoneInvInit, StreamInvariance, PTL DEF Spec

\* If no session outlives the cap of its stream, Alice is sent back to the form
\* only when her session is gone, however many streams she went through.
THEOREM ExpiryScreenIsTrue ==
    ASSUME "ttl_above_cap" \notin Faults
    PROVE  Spec => []ExpiredOnlyWhenGone
  <1>1. GoneInv => ExpiredOnlyWhenGone
    BY DEF GoneInv, Gone, ExpiredOnlyWhenGone
  <1> QED BY <1>1, GoneInvariance, PTL

-----------------------------------------------------------------------------
(* Alice's tab listens from its creation until it is told something: what  *)
(* it is told is the last thing, and the only one.                         *)

AliceInv(s) ==
    /\ s \notin issued => screen[s] = "none" /\ es[s] = "CLOSED"
    /\ es[s] # "CLOSED" => screen[s] = "step-waiting"
    /\ conn[s] # Null => es[s] = "OPEN"
    /\ bobPubkey[s] # Null => screen[s] = "step-alice-pass"

\* The steps that touch Alice's tab.
AliceStep(s) ==
    \/ \E a \in Answers : CreateSession(s, a)
    \/ Reach(s) \/ ConnectStoreError(s)
    \/ Deliver(s) \/ ImportFails(s)
    \/ StreamEnded(s) \/ Drop(s)
    \/ CloseTab(s)

LEMMA AliceCases ==
    ASSUME [Next]_vars
    PROVE  UNCHANGED <<aliceVars, issued>> \/ \E s \in Sessions : AliceStep(s)
  <1>1. CASE UNCHANGED vars
    BY <1>1 DEF vars, storeVars
  <1>2. ASSUME NEW s \in Sessions, Vanish(s) \/ \E b \in Bobs, passed \in BOOLEAN : Decide(s, b, passed)
        PROVE  UNCHANGED <<aliceVars, issued>>
    BY <1>2 DEF Vanish, Expire, Decide, Finalize
  <1>3. ASSUME NEW st \in Streams, Serve(st) \/ CapReached(st) \/ StreamStoreError(st)
        PROVE  UNCHANGED <<aliceVars, issued>>
    BY <1>3 DEF Serve, Subscribe, Check, Receive, Heartbeat, WriteFails, CapReached,
                StreamStoreError, storeVars
  <1>4. ASSUME NEW w \in Workers, Hub(w) \/ HubLose(w) \/ WorkerCrash(w)
        PROVE  UNCHANGED <<aliceVars, issued>>
    BY <1>4 DEF Hub, HubListen, HubDispatch, HubLose, WorkerCrash, storeVars
  <1> QED BY <1>1, <1>2, <1>3, <1>4 DEF Next, Browse, AliceStep

LEMMA AliceInvInit == Init => \A s \in Sessions : AliceInv(s)
  BY DEF Init, AliceInv

\* What a step of tab s does to the four pieces of its state, and to no other's.
LEMMA AliceFrame ==
    ASSUME TypeOK, NEW s \in Sessions, AliceStep(s), NEW t \in Sessions, t # s
    PROVE  /\ screen'[t] = screen[t] /\ es'[t] = es[t]
           /\ conn'[t] = conn[t] /\ bobPubkey'[t] = bobPubkey[t]
           /\ t \in issued' <=> t \in issued
  BY DEF TypeOK, AliceStep, CreateSession, Create, Reach, ConnectNotFound, ConnectStoreError,
         Connect, GiveUp, Deliver, ImportFails, StreamEnded, Drop, Reconnecting, CloseTab,
         storeVars

LEMMA AliceInvStep == (TypeOK /\ \A s \in Sessions : AliceInv(s)) /\ [Next]_vars
                        => (\A s \in Sessions : AliceInv(s))'
  <1> SUFFICES ASSUME TypeOK, \A s \in Sessions : AliceInv(s), [Next]_vars,
                      NEW t \in Sessions
               PROVE  AliceInv(t)'
    OBVIOUS
  <1>1. CASE UNCHANGED <<aliceVars, issued>>
    BY <1>1 DEF aliceVars, AliceInv
  <1>2. ASSUME NEW s \in Sessions, AliceStep(s), t # s PROVE AliceInv(t)'
    BY <1>2, AliceFrame DEF AliceInv
  <1>3. CASE AliceStep(t)
    <2>0. /\ screen \in [Sessions -> Screens] /\ bobPubkey \in [Sessions -> Bobs \cup {Null}]
          /\ es \in [Sessions -> {"CONNECTING", "OPEN", "CLOSED"}]
          /\ conn \in [Sessions -> Streams \cup {Null}]
      BY DEF TypeOK
    <2>1. ASSUME NEW a \in Answers, CreateSession(t, a) PROVE AliceInv(t)'
      BY <2>0, <2>1 DEF CreateSession, Create, AliceInv
    <2>2. CASE Reach(t) \/ ConnectStoreError(t)
      <3>1. CASE \E st \in Streams, w \in Workers : Connect(t, st, w)
        BY <2>0, <3>1 DEF Connect, AliceInv, storeVars
      <3>2. CASE GiveUp(t)
        BY <2>0, <3>2 DEF GiveUp, AliceInv, storeVars
      <3> QED BY <2>2, <3>1, <3>2 DEF Reach, ConnectNotFound, ConnectStoreError
    <2>3. CASE Deliver(t)
      <3>1. /\ es[t] = "OPEN" /\ screen[t] = "step-waiting" /\ t \in issued
            /\ bobPubkey[t] = Null
        BY <2>0, <2>3 DEF Deliver, AliceInv
      <3>2. issued' = issued /\ es'[t] = "CLOSED" /\ conn'[t] = Null
        BY <2>0, <2>3 DEF Deliver, storeVars
      <3> DEFINE e == Head(wire[conn[t]])
      <3>3. /\ e.event = "VERIFIED" => screen'[t] = "step-alice-pass"
            /\ e.event # "VERIFIED" => bobPubkey'[t] = Null
        BY <2>0, <2>3, <3>1 DEF Deliver
      <3> QED BY <3>1, <3>2, <3>3 DEF AliceInv
    <2>4. CASE StreamEnded(t) \/ Drop(t)
      <3>1. Reconnecting(t)
        BY <2>4 DEF StreamEnded, Drop
      <3> QED BY <2>0, <3>1 DEF Reconnecting, AliceInv, storeVars
    <2>5. CASE CloseTab(t)
      BY <2>0, <2>5 DEF CloseTab, AliceInv, storeVars
    <2>6. CASE ImportFails(t)
      BY <2>0, <2>6 DEF ImportFails, AliceInv, storeVars
    <2> QED BY <1>3, <2>1, <2>2, <2>3, <2>4, <2>5, <2>6 DEF AliceStep
  <1> QED BY <1>1, <1>2, <1>3, AliceCases

LEMMA AliceInvariance == Spec => [](\A s \in Sessions : AliceInv(s))
  <1>1. IInv => TypeOK
    BY DEF IInv
  <1> QED BY <1>1, AliceInvInit, AliceInvStep, StreamInvariance, PTL DEF Spec

\* What Alice's browser is about to read is true of her session.
LEMMA NextIsTrue ==
    ASSUME IInv, GoneInv, NEW s \in Sessions, conn[s] # Null, wire[conn[s]] # <<>>
    PROVE  LET e == Head(wire[conn[s]]) IN TrueOf(s, e) /\ (e = Expired => Gone(s))
  <1>1. conn[s] \in Streams /\ owner[conn[s]] = s /\ wire[conn[s]] \in Seq(Event)
    BY DEF IInv, ConnInv, TypeOK
  <1>2. Head(wire[conn[s]]) \in Range(wire[conn[s]])
    BY <1>1, RangeHeadTail
  <1> QED BY <1>1, <1>2 DEF IInv, StreamInv, GoneInv

\* The three things Alice can be told, and what is true when she is.
LEMMA DeliverTells ==
    ASSUME IInv, GoneInv, NEW s \in Sessions, Deliver(s)
    PROVE  \/ \E b \in Bobs :
                 /\ Head(wire[conn[s]]) = Verified(b)
                 /\ published[s] = <<Verified(b)>>
                 /\ screen' = [screen EXCEPT ![s] = "step-alice-pass"]
                 /\ bobPubkey' = [bobPubkey EXCEPT ![s] = b]
           \/ /\ Head(wire[conn[s]]) = Failed
              /\ published[s] = <<Failed>>
              /\ screen' = [screen EXCEPT ![s] = "step-alice-fail"]
              /\ bobPubkey' = bobPubkey
           \/ /\ Head(wire[conn[s]]) = Expired
              /\ Gone(s)
              /\ screen' = [screen EXCEPT ![s] = "step-create"]
              /\ bobPubkey' = bobPubkey
  <1> DEFINE e == Head(wire[conn[s]])
  <1>0. /\ screen \in [Sessions -> Screens] /\ wire \in [Streams -> Seq(Event)]
        /\ conn \in [Sessions -> Streams \cup {Null}]
        /\ bobPubkey \in [Sessions -> Bobs \cup {Null}]
    BY DEF IInv, TypeOK
  <1>3. TrueOf(s, e) /\ (e = Expired => Gone(s))
    BY NextIsTrue DEF Deliver
  <1>4. /\ screen' = [screen EXCEPT ![s] = CASE e.event = "VERIFIED" -> "step-alice-pass"
                                            [] e.event = "FAILED"   -> "step-alice-fail"
                                            [] e.event = "EXPIRED"  -> "step-create"]
        /\ bobPubkey' = [bobPubkey EXCEPT ![s] =
                              IF e.event = "VERIFIED" THEN e.bob_pubkey_jwk ELSE @]
    BY DEF Deliver
  <1> HIDE DEF e
  <1>5. ASSUME NEW b \in Bobs, e = Verified(b)
        PROVE  /\ published[s] = <<Verified(b)>>
               /\ screen' = [screen EXCEPT ![s] = "step-alice-pass"]
               /\ bobPubkey' = [bobPubkey EXCEPT ![s] = b]
    <2>1. e.event = "VERIFIED" /\ e.bob_pubkey_jwk = b /\ e # Expired
      BY <1>5 DEF Verified, Expired
    <2> QED BY <1>3, <1>4, <1>5, <2>1 DEF TrueOf
  <1>6. ASSUME e = Failed
        PROVE  /\ published[s] = <<Failed>>
               /\ screen' = [screen EXCEPT ![s] = "step-alice-fail"]
               /\ bobPubkey' = bobPubkey
    <2>1. e.event = "FAILED" /\ e # Expired
      BY <1>6 DEF Failed, Expired
    <2> QED BY <1>0, <1>3, <1>4, <1>6, <2>1 DEF TrueOf
  <1>7. ASSUME e = Expired
        PROVE  /\ screen' = [screen EXCEPT ![s] = "step-create"]
               /\ bobPubkey' = bobPubkey
    <2>1. e.event = "EXPIRED"
      BY <1>7 DEF Expired
    <2> QED BY <1>0, <1>4, <2>1
  <1> QED BY <1>3, <1>5, <1>6, <1>7 DEF TrueOf, FinalEvents, e

\* What Alice was told stands: no late event, reconnection or second stream
\* changes her screen or the key she derived the secret from.
THEOREM WhatAliceWasToldStands ==
    Spec => [][\A s \in Sessions :
                  screen[s] \in {"step-alice-pass", "step-alice-fail", "step-create"} =>
                      screen'[s] = screen[s] /\ bobPubkey'[s] = bobPubkey[s]]_vars
  <1> DEFINE Told == {"step-alice-pass", "step-alice-fail", "step-create"}
             Stands == \A s \in Sessions :
                screen[s] \in Told => screen'[s] = screen[s] /\ bobPubkey'[s] = bobPubkey[s]
  <1>1. TypeOK /\ (\A s \in Sessions : AliceInv(s)) /\ [Next]_vars => [Stands]_vars
    <2> SUFFICES ASSUME TypeOK, \A s \in Sessions : AliceInv(s), [Next]_vars,
                        NEW s \in Sessions, screen[s] \in Told
                 PROVE  screen'[s] = screen[s] /\ bobPubkey'[s] = bobPubkey[s]
      OBVIOUS
    <2>1. CASE UNCHANGED <<aliceVars, issued>>
      BY <2>1 DEF aliceVars
    <2>2. ASSUME NEW t \in Sessions, AliceStep(t), s # t
          PROVE  screen'[s] = screen[s] /\ bobPubkey'[s] = bobPubkey[s]
      BY <2>2, AliceFrame
    <2>3. CASE AliceStep(s)
      <3>1. es[s] = "CLOSED" /\ conn[s] = Null /\ s \in issued /\ screen[s] # "step-waiting"
        BY DEF AliceInv
      <3> QED BY <2>3, <3>1
              DEF AliceStep, CreateSession, Create, Reach, ConnectNotFound, ConnectStoreError,
                  Connect, GiveUp, Deliver, ImportFails, StreamEnded, Drop, Reconnecting,
                  CloseTab
    <2> QED BY <2>1, <2>2, <2>3, AliceCases
  <1>2. IInv => TypeOK
    BY DEF IInv
  <1>3. Spec => [][Stands]_vars
    BY <1>1, <1>2, StreamInvariance, AliceInvariance, PTL DEF Spec
  <1> QED BY <1>3

\* AlicePage reduces the whole way of an event to this: whatever reaches her on
\* the stream of s is the result as announced, or as rebuilt from the hash now.
MayArrive(s) == {published[s][i] : i \in DOMAIN published[s]} \cup {TerminalEvent(hash[s])}

THEOREM OnlyResultsArrive ==
    ASSUME "ttl_above_cap" \notin Faults
    PROVE  Spec => [][\A s \in Sessions :
                         Deliver(s) \/ ImportFails(s) =>
                             Head(wire[conn[s]]) \in MayArrive(s)]_vars
  <1> DEFINE Arrives == \A s \in Sessions :
                Deliver(s) \/ ImportFails(s) => Head(wire[conn[s]]) \in MayArrive(s)
  <1>1. IInv /\ GoneInv => Arrives
    <2> SUFFICES ASSUME IInv, GoneInv, NEW s \in Sessions, Deliver(s) \/ ImportFails(s)
                 PROVE  Head(wire[conn[s]]) \in MayArrive(s)
      OBVIOUS
    <2>1. ASSUME NEW e, published[s] = <<e>>
          PROVE  e \in MayArrive(s)
      <3>1. 1 \in DOMAIN published[s] /\ published[s][1] = e
        BY <2>1
      <3> QED BY <3>1 DEF MayArrive
    <2>2. Gone(s) => Expired \in MayArrive(s)
      <3>1. Gone(s) => TerminalEvent(hash[s]) = Expired
        BY DEF Gone, TerminalEvent, TerminalPhases
      <3> QED BY <3>1 DEF MayArrive
    <2>3. conn[s] # Null /\ wire[conn[s]] # <<>>
      BY DEF Deliver, ImportFails
    <2> QED BY <2>1, <2>2, <2>3, NextIsTrue DEF TrueOf
  <1>2. IInv /\ GoneInv /\ [Next]_vars => [Arrives]_vars
    BY <1>1
  <1>3. Spec => [][Arrives]_vars
    BY <1>2, StreamInvariance, GoneInvariance, PTL DEF Spec
  <1> QED BY <1>3

-----------------------------------------------------------------------------
(* The streams use the store by its own operations only.                   *)

LEMMA StreamStepOnStore == [Next]_vars => [StoreNext]_storeVars
  <1> SUFFICES ASSUME [Next]_vars PROVE [StoreNext]_storeVars
    OBVIOUS
  <1>1. CASE UNCHANGED vars
    BY <1>1 DEF vars
  <1>2. ASSUME NEW s \in Sessions,
               \/ \E a \in Answers : CreateSession(s, a)
               \/ \E b \in Bobs, passed \in BOOLEAN : Decide(s, b, passed)
               \/ Vanish(s)
        PROVE  StoreNext
    BY <1>2 DEF CreateSession, Decide, Vanish, StoreNext
  <1>3. ASSUME NEW s \in Sessions,
               Reach(s) \/ ConnectStoreError(s) \/ Browse(s) \/ Drop(s) \/ CloseTab(s)
        PROVE  UNCHANGED storeVars
    BY <1>3 DEF Reach, Connect, ConnectNotFound, ConnectStoreError, GiveUp, Browse, Deliver,
                ImportFails, StreamEnded, Drop, Reconnecting, CloseTab
  <1>4. ASSUME NEW st \in Streams, Serve(st) \/ CapReached(st) \/ StreamStoreError(st)
        PROVE  UNCHANGED storeVars
    BY <1>4 DEF Serve, Subscribe, Check, Receive, Heartbeat, WriteFails, CapReached,
                StreamStoreError
  <1>5. ASSUME NEW w \in Workers, Hub(w) \/ HubLose(w) \/ WorkerCrash(w)
        PROVE  UNCHANGED storeVars
    BY <1>5 DEF Hub, HubListen, HubDispatch, HubLose, WorkerCrash
  <1> QED BY <1>1, <1>2, <1>3, <1>4, <1>5 DEF Next

\* Every behaviour of the streams is a behaviour of the store.
THEOREM StreamUsesTheStore == Spec => StoreSpec
  <1>1. Init => StoreInit
    BY DEF Init
  <1> QED BY <1>1, StreamStepOnStore, PTL DEF Spec, StoreSpec

-----------------------------------------------------------------------------
(* While Alice waits she has a connection or is about to get one: only the *)
(* end of her session, a refusal before the response starts, or a key that *)
(* cannot be imported leaves her with an EventSource that is closed.       *)

\* The key announced to her may not be importable.
Unusable(s) == \E b \in Bobs \cap DubiousKeys : published[s] = <<Verified(b)>>

Waits(s) ==
    screen[s] = "step-waiting" =>
        \/ es[s] = "CONNECTING"
        \/ es[s] = "OPEN" /\ conn[s] # Null
        \/ es[s] = "CLOSED" /\ (Gone(s) \/ Unusable(s))

LEMMA WaitsStep ==
    ASSUME "refused" \notin Faults
    PROVE  IInv /\ (\A s \in Sessions : AliceInv(s)) /\ (\A s \in Sessions : Waits(s)) /\ [Next]_vars
               => (\A s \in Sessions : Waits(s))'
  <1> SUFFICES ASSUME IInv, \A s \in Sessions : AliceInv(s), \A s \in Sessions : Waits(s),
                      [Next]_vars, NEW t \in Sessions
               PROVE  Waits(t)'
    OBVIOUS
  <1>0. /\ TypeOK /\ screen \in [Sessions -> Screens]
        /\ es \in [Sessions -> {"CONNECTING", "OPEN", "CLOSED"}]
        /\ conn \in [Sessions -> Streams \cup {Null}]
    BY DEF IInv, TypeOK
  <1>1. Gone(t) \/ Unusable(t) => (Gone(t) \/ Unusable(t))'
    <2>1. Gone(t) => Gone(t)'
      BY StreamStepOnStore, IssuedStays DEF Gone
    <2>2. \A e : published[t] = <<e>> => published'[t] = <<e>>
      BY StreamStepOnStore, ResultStays DEF IInv
    <2> QED BY <2>1, <2>2 DEF Unusable
  <1>2. CASE UNCHANGED <<aliceVars, issued>>
    BY <1>1, <1>2 DEF aliceVars, Waits
  <1>3. ASSUME NEW s \in Sessions, AliceStep(s), t # s PROVE Waits(t)'
    BY <1>0, <1>1, <1>3, AliceFrame DEF Waits
  <1>4. CASE AliceStep(t)
    <2>1. ASSUME NEW a \in Answers, CreateSession(t, a) PROVE Waits(t)'
      BY <1>0, <2>1 DEF CreateSession, Waits
    <2>2. ASSUME NEW st \in Streams, NEW w \in Workers, Connect(t, st, w) PROVE Waits(t)'
      BY <1>0, <2>2, StreamsAssumption DEF Connect, Waits
    <2>3. CASE ConnectNotFound(t)
      <3>1. t \in issued /\ hash[t].phase = "ABSENT"
        BY <2>3 DEF ConnectNotFound, GiveUp, AliceInv
      <3> QED BY <1>0, <1>1, <2>3, <3>1 DEF ConnectNotFound, GiveUp, Waits, Gone
    <2>4. ~ConnectStoreError(t)
      BY DEF ConnectStoreError, Fault
    <2>5. CASE Deliver(t)
      <3>1. screen[t] = "step-waiting"
        BY <1>0, <2>5 DEF Deliver, AliceInv
      <3> DEFINE e == Head(wire[conn[t]])
      <3>2. conn[t] \in Streams /\ wire[conn[t]] # <<>> /\ owner[conn[t]] = t
        BY <1>0, <2>5 DEF Deliver, IInv, ConnInv
      <3>3. wire[conn[t]] \in Seq(Event)
        BY <3>2 DEF IInv, TypeOK
      <3>4. e \in Range(wire[conn[t]])
        BY <3>2, <3>3, RangeHeadTail
      <3>5. e \in FinalEvents
        BY <3>2, <3>4 DEF IInv, StreamInv, TrueOf
      <3>6. screen' = [screen EXCEPT ![t] = CASE e.event = "VERIFIED" -> "step-alice-pass"
                                             [] e.event = "FAILED"   -> "step-alice-fail"
                                             [] e.event = "EXPIRED"  -> "step-create"]
        BY <2>5 DEF Deliver
      <3> HIDE DEF e
      <3>7. screen'[t] # "step-waiting"
        BY <1>0, <3>5, <3>6 DEF FinalEvents, Verified, Failed, Expired
      <3> QED BY <3>7 DEF Waits
    <2>6. CASE StreamEnded(t) \/ Drop(t)
      <3>1. Reconnecting(t)
        BY <2>6 DEF StreamEnded, Drop
      <3> QED BY <1>0, <3>1 DEF Reconnecting, Waits
    <2>7. CASE CloseTab(t)
      BY <1>0, <2>7 DEF CloseTab, Waits
    <2>8. CASE ImportFails(t)
      <3> DEFINE e == Head(wire[conn[t]])
      <3>1. /\ conn[t] # Null /\ wire[conn[t]] # <<>> /\ UNCHANGED <<storeVars, screen>>
            /\ e.event = "VERIFIED" /\ e.bob_pubkey_jwk \in DubiousKeys
            /\ UNCHANGED <<es, conn>> \/ es' = [es EXCEPT ![t] = "CLOSED"]
        BY <2>8 DEF ImportFails
      <3>2. conn[t] \in Streams /\ owner[conn[t]] = t /\ wire[conn[t]] \in Seq(Event)
        BY <3>1 DEF IInv, ConnInv, TypeOK
      <3>3. e \in Range(wire[conn[t]])
        BY <3>1, <3>2, RangeHeadTail
      <3>4. TrueOf(t, e)
        BY <3>2, <3>3 DEF IInv, StreamInv
      <3> HIDE DEF e
      <3>5. PICK b \in Bobs : e = Verified(b)
        BY <3>1, <3>4 DEF TrueOf, FinalEvents, Failed, Expired
      <3>6. b \in DubiousKeys /\ e # Expired
        BY <3>1, <3>5 DEF Verified, Expired
      <3>7. Unusable(t)
        BY <3>4, <3>5, <3>6 DEF TrueOf, Unusable
      <3> QED BY <1>0, <1>1, <3>1, <3>7 DEF Waits
    <2> QED BY <1>4, <2>1, <2>2, <2>3, <2>4, <2>5, <2>6, <2>7, <2>8 DEF AliceStep, Reach
  <1> QED BY <1>2, <1>3, <1>4, <1>0, AliceCases

LEMMA WaitsInvariance ==
    ASSUME "refused" \notin Faults
    PROVE  Spec => [](\A s \in Sessions : Waits(s))
  <1>1. Init => \A s \in Sessions : Waits(s)
    BY DEF Init, Waits
  <1> QED BY <1>1, WaitsStep, StreamInvariance, AliceInvariance, PTL DEF Spec

\* Where the handler of her stream stands, its next step leads to her: what is
\* written she reads, what ended without a word she replaces, and a stream
\* that waits is about to end when her session is decided or gone.
OneStepFromNews(s) ==
    LET st == conn[s] IN
        \/ spc[st] \in {"opened", "checking"}
        \/ spc[st] = "waiting" /\ TerminalEvent(hash[s]) # NoEvent
        \/ spc[st] = "closed"

\* The safety core of AliceLearns: a decided session whose Alice waits has her
\* connecting, or holding a connection whose handler has a step left to take
\* towards her, whatever connections, messages and workers were lost, unless the
\* winner's key cannot be imported.
NeverStranded ==
    \A s \in Sessions :
        (/\ screen[s] = "step-waiting"
         /\ hash[s].phase \in TerminalPhases
         /\ hash[s].bob_pubkey_jwk \notin DubiousKeys) =>
            \/ es[s] = "CONNECTING"
            \/ es[s] = "OPEN" /\ owner[conn[s]] = s /\ OneStepFromNews(s)

\* As long as no request is refused before its response starts, Alice is never
\* stranded with a result she could be told.
THEOREM AliceIsNeverStranded ==
    ASSUME "refused" \notin Faults
    PROVE  Spec => []NeverStranded
  <1>1. IInv /\ (\A s \in Sessions : Waits(s)) => NeverStranded
    <2> SUFFICES ASSUME IInv, NEW s \in Sessions, Waits(s), screen[s] = "step-waiting",
                        hash[s].phase \in TerminalPhases, hash[s].bob_pubkey_jwk \notin DubiousKeys
                 PROVE  \/ es[s] = "CONNECTING"
                        \/ es[s] = "OPEN" /\ owner[conn[s]] = s /\ OneStepFromNews(s)
      BY DEF NeverStranded
    <2>1. ~Gone(s) /\ TerminalEvent(hash[s]) # NoEvent
      BY DEF Gone, TerminalPhases, TerminalEvent, Verified, Failed, NoEvent
    <2>2. ASSUME es[s] = "OPEN", conn[s] # Null
          PROVE  owner[conn[s]] = s /\ OneStepFromNews(s)
      <3>1. conn[s] \in Streams /\ owner[conn[s]] = s /\ spc[conn[s]] # "unused"
        BY <2>2 DEF IInv, TypeOK, ConnInv
      <3>2. spc[conn[s]] \in {"opened", "checking", "waiting", "closed"}
        BY <3>1 DEF IInv, TypeOK
      <3> QED BY <2>1, <3>1, <3>2 DEF OneStepFromNews
    <2>3. ~Unusable(s)
      <3> SUFFICES ASSUME NEW b \in Bobs \cap DubiousKeys, published[s] = <<Verified(b)>>
                   PROVE  FALSE
        BY DEF Unusable
      <3>1. published[s] = <<TerminalEvent(hash[s])>>
        BY DEF IInv, StoreInv, InStep
      <3>2. TerminalEvent(hash[s]) = Verified(b)
        BY <3>1
      <3> QED BY <3>2 DEF TerminalEvent, TerminalPhases, Verified, Failed
    <2> QED BY <2>1, <2>2, <2>3 DEF Waits
  <1> QED BY <1>1, WaitsInvariance, StreamInvariance, PTL

-----------------------------------------------------------------------------
(* The end of a session and of a stream.                                   *)

\* The safety core of ExpiryIsNoticed: an EventSource that is open on a session
\* that is gone has a stream of that session, with a step left towards Alice.
ExpiryIsOnItsWay ==
    \A s \in Sessions :
        es[s] = "OPEN" /\ hash[s].phase = "ABSENT" =>
            conn[s] # Null /\ owner[conn[s]] = s /\ OneStepFromNews(s)

OpenInv == \A s \in Sessions : es[s] = "OPEN" => conn[s] # Null

LEMMA OpenInvStep == TypeOK /\ OpenInv /\ [Next]_vars => OpenInv'
  <1> SUFFICES ASSUME TypeOK, OpenInv, [Next]_vars, NEW t \in Sessions
               PROVE  es'[t] = "OPEN" => conn'[t] # Null
    BY DEF OpenInv
  <1>0. /\ es \in [Sessions -> {"CONNECTING", "OPEN", "CLOSED"}]
        /\ conn \in [Sessions -> Streams \cup {Null}]
    BY DEF TypeOK
  <1>1. CASE UNCHANGED <<aliceVars, issued>>
    BY <1>1 DEF aliceVars, OpenInv
  <1>2. ASSUME NEW s \in Sessions, AliceStep(s), t # s
        PROVE  es'[t] = "OPEN" => conn'[t] # Null
    BY <1>2, AliceFrame DEF OpenInv
  <1>3. CASE AliceStep(t)
    <2>1. ASSUME NEW st \in Streams, NEW w \in Workers, Connect(t, st, w)
          PROVE  conn'[t] # Null
      BY <1>0, <2>1, StreamsAssumption DEF Connect
    <2>2. ASSUME \/ \E a \in Answers : CreateSession(t, a)
                 \/ ConnectNotFound(t) \/ ConnectStoreError(t) \/ Deliver(t)
                 \/ StreamEnded(t) \/ Drop(t) \/ CloseTab(t)
          PROVE  es'[t] # "OPEN"
      BY <1>0, <2>2 DEF CreateSession, ConnectNotFound, ConnectStoreError, GiveUp, Deliver,
                        StreamEnded, Drop, Reconnecting, CloseTab
    <2>3. CASE ImportFails(t)
      BY <1>0, <2>3 DEF ImportFails
    <2> QED BY <1>3, <2>1, <2>2, <2>3 DEF AliceStep, Reach
  <1> QED BY <1>1, <1>2, <1>3, AliceCases

\* Whatever is lost, and whether or not requests are refused, an Alice who still
\* has a connection when her session is gone is about to notice.
THEOREM ExpiryDoesNotHang == Spec => []ExpiryIsOnItsWay
  <1>1. Init => OpenInv
    BY DEF Init, OpenInv
  <1>2. IInv => TypeOK
    BY DEF IInv
  <1>3. IInv /\ OpenInv => ExpiryIsOnItsWay
    <2> SUFFICES ASSUME IInv, OpenInv, NEW s \in Sessions, es[s] = "OPEN", hash[s].phase = "ABSENT"
                 PROVE  conn[s] # Null /\ owner[conn[s]] = s /\ OneStepFromNews(s)
      BY DEF ExpiryIsOnItsWay
    <2>1. conn[s] \in Streams /\ owner[conn[s]] = s /\ spc[conn[s]] # "unused"
      BY DEF OpenInv, IInv, TypeOK, ConnInv
    <2>2. spc[conn[s]] \in {"opened", "checking", "waiting", "closed"}
      BY <2>1 DEF IInv, TypeOK
    <2>3. TerminalEvent(hash[s]) # NoEvent
      BY DEF TerminalEvent, Expired, NoEvent
    <2> QED BY <2>1, <2>2, <2>3, StreamsAssumption DEF OneStepFromNews
  <1> QED BY <1>1, <1>2, <1>3, OpenInvStep, StreamInvariance, PTL DEF Spec

\* The states a stream has before it.
StreamLeft(st) ==
    CASE spc[st] = "unused"   -> 4
      [] spc[st] = "opened"   -> 3
      [] spc[st] = "checking" -> 2
      [] spc[st] = "waiting"  -> 1
      [] spc[st] = "closed"   -> 0

\* No step takes a stream back, and each step of its own handler takes it on.
StreamsAdvance ==
    \A st \in Streams :
        /\ StreamLeft(st)' <= StreamLeft(st)
        /\ Serve(st) => StreamLeft(st)' < StreamLeft(st)

\* The safety core of StreamsEnd: no reconnection, crash or error revives a stream
\* or makes its handler check again, so one whose reader or session is gone, which
\* can always take a step, ends after three of its own.
THEOREM StreamsRunOut == Spec => [][StreamsAdvance]_vars
  <1>1. ASSUME TypeOK, Next PROVE StreamsAdvance
    <2> SUFFICES ASSUME NEW st \in Streams
                 PROVE  /\ StreamLeft(st)' <= StreamLeft(st)
                        /\ Serve(st) => StreamLeft(st)' < StreamLeft(st)
      BY DEF StreamsAdvance
    <2>0. spc \in [Streams -> {"unused", "opened", "checking", "waiting", "closed"}]
      BY <1>1 DEF TypeOK
    <2>1. ASSUME Serve(st)
          PROVE  \/ spc[st] = "opened" /\ spc'[st] = "checking"
                 \/ spc[st] = "checking" /\ spc'[st] \in {"waiting", "closed"}
                 \/ spc[st] = "waiting" /\ spc'[st] = "closed"
      BY <2>0, <2>1 DEF Serve, Subscribe, Check, Receive, Heartbeat, WriteFails, SendAndEnd, End,
                         Subscribed
    <2>2. ASSUME \/ spc'[st] = spc[st]
                 \/ spc'[st] = "closed"
                 \/ spc[st] = "unused" /\ spc'[st] = "opened"
          PROVE  StreamLeft(st)' <= StreamLeft(st)
      BY <2>0, <2>2 DEF StreamLeft
    <2>3. ASSUME NEW u \in Streams, u # st, Serve(u)
          PROVE  spc'[st] = spc[st]
      BY <2>0, <2>3 DEF Serve, Subscribe, Check, Receive, Heartbeat, WriteFails, SendAndEnd, End
    <2>4. ASSUME NEW u \in Streams, CapReached(u) \/ StreamStoreError(u)
          PROVE  spc'[st] = spc[st] \/ spc'[st] = "closed"
      BY <2>0, <2>4 DEF CapReached, StreamStoreError, SendAndEnd, End
    <2>5. ASSUME NEW s \in Sessions, NEW u \in Streams, NEW w \in Workers, Connect(s, u, w)
          PROVE  \/ spc'[st] = spc[st]
                 \/ spc[st] = "unused" /\ spc'[st] = "opened"
      <3>1. spc[u] = "unused" /\ spc' = [spc EXCEPT ![u] = "opened"]
        BY <2>5 DEF Connect
      <3> QED BY <2>0, <3>1
    <2>6. ASSUME NEW s \in Sessions,
                 \/ \E a \in Answers : CreateSession(s, a)
                 \/ \E b \in Bobs, passed \in BOOLEAN : Decide(s, b, passed)
                 \/ Vanish(s) \/ ConnectNotFound(s) \/ ConnectStoreError(s) \/ Browse(s) \/ Drop(s)
                 \/ CloseTab(s)
          PROVE  spc' = spc
      BY <2>6 DEF CreateSession, Decide, Vanish, ConnectNotFound, ConnectStoreError, GiveUp, Browse,
                  Deliver, ImportFails, StreamEnded, Drop, Reconnecting, CloseTab, streamVars
    <2>7. ASSUME NEW w \in Workers, Hub(w) \/ HubLose(w) \/ WorkerCrash(w)
          PROVE  spc'[st] = spc[st] \/ spc'[st] = "closed"
      BY <2>7 DEF Hub, HubListen, HubDispatch, HubLose, WorkerCrash, streamVars
    <2>8. ASSUME ~Serve(st)
          PROVE  \/ spc'[st] = spc[st]
                 \/ spc'[st] = "closed"
                 \/ spc[st] = "unused" /\ spc'[st] = "opened"
      <3>1. ASSUME NEW u \in Streams, Serve(u) PROVE spc'[st] = spc[st]
        BY <2>3, <2>8, <3>1
      <3> QED BY <1>1, <2>4, <2>5, <2>6, <2>7, <3>1 DEF Next, Reach
    <2>9. CASE Serve(st)
      <3>1. \/ StreamLeft(st) = 3 /\ StreamLeft(st)' = 2
            \/ StreamLeft(st) = 2 /\ StreamLeft(st)' \in {0, 1}
            \/ StreamLeft(st) = 1 /\ StreamLeft(st)' = 0
        BY <2>0, <2>1, <2>9 DEF StreamLeft
      <3> QED BY <3>1
    <2>10. CASE ~Serve(st)
      BY <2>2, <2>8, <2>10
    <2> QED BY <2>9, <2>10
  <1>2. IInv /\ [Next]_vars => [StreamsAdvance]_vars
    BY <1>1 DEF IInv
  <1> QED BY <1>2, StreamInvariance, PTL DEF Spec
=============================================================================
