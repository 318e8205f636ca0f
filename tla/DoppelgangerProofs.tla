------------------------ MODULE DoppelgangerProofs -------------------------
(***************************************************************************)
(* Proofs about the whole system, for every set of sessions, tabs, POSTs,  *)
(* answers, workers and streams, every scoring, every number of faults and *)
(* every combination of them on either side.                               *)
(***************************************************************************)
EXTENDS Doppelganger, VerificationProofs

SP == INSTANCE EventStreamProofs WITH
    screen <- aliceScreen,
    Faults <- StreamFaults,
    MaxFaults <- MaxStreamFaults

-----------------------------------------------------------------------------
(* Each side is a behaviour of its own module.                             *)

\* Stream and SP are two instances of the same definitions.
LEMMA SameSteps ==
    ASSUME [Stream!Next]_(Stream!vars)
    PROVE  [SP!Next]_(SP!vars)
  BY DEF Stream!storeVars, Stream!aliceVars, Stream!streamVars, Stream!hubVars, Stream!vars,
         Stream!NoHash, Stream!NewHash, Stream!TerminalPhases, Stream!HSet,
         Stream!Verified, Stream!Failed, Stream!Expired, Stream!NoEvent,
         Stream!TerminalEvent, Stream!FinalizeOutcome, Stream!Create, Stream!Finalize,
         Stream!Expire, Stream!VerdictUpdate, Stream!VerdictEvent, Stream!QueueSize,
         Stream!Connected, Stream!Live, Stream!Subscribed, Stream!Fault,
         Stream!CreateSession, Stream!Decide, Stream!Vanish, Stream!HubListen,
         Stream!HubLose, Stream!Put, Stream!Addressees, Stream!HubDispatch,
         Stream!Connect, Stream!GiveUp, Stream!ConnectNotFound,
         Stream!ConnectStoreError, Stream!Subscribe, Stream!End, Stream!SendAndEnd,
         Stream!Check, Stream!Receive, Stream!Heartbeat, Stream!CapReached,
         Stream!WriteFails, Stream!StreamStoreError, Stream!WorkerCrash, Stream!Deliver,
         Stream!ImportFails,
         Stream!Reconnecting, Stream!StreamEnded, Stream!Drop, Stream!CloseTab,
         Stream!Hub, Stream!Serve, Stream!Reach, Stream!Browse, Stream!Next,
         SP!storeVars, SP!aliceVars, SP!streamVars, SP!hubVars, SP!vars, SP!NoHash,
         SP!NewHash, SP!TerminalPhases, SP!HSet, SP!Verified, SP!Failed, SP!Expired,
         SP!NoEvent, SP!TerminalEvent, SP!FinalizeOutcome, SP!Create, SP!Finalize,
         SP!Expire, SP!VerdictUpdate, SP!VerdictEvent, SP!QueueSize, SP!Connected,
         SP!Live, SP!Subscribed, SP!Fault, SP!CreateSession, SP!Decide, SP!Vanish,
         SP!HubListen, SP!HubLose, SP!Put, SP!Addressees, SP!HubDispatch, SP!Connect,
         SP!GiveUp, SP!ConnectNotFound, SP!ConnectStoreError, SP!Subscribe, SP!End,
         SP!SendAndEnd, SP!Check, SP!Receive, SP!Heartbeat, SP!CapReached,
         SP!WriteFails, SP!StreamStoreError, SP!WorkerCrash, SP!Deliver, SP!ImportFails,
         SP!Reconnecting, SP!StreamEnded, SP!Drop, SP!CloseTab, SP!Hub, SP!Serve,
         SP!Reach, SP!Browse, SP!Next

LEMMA SameInit == Stream!Init <=> SP!Init
  BY DEF Stream!Init, Stream!StoreInit, Stream!NoHash, SP!Init, SP!StoreInit, SP!NoHash

LEMMA BobsSideStep == [SystemNext]_systemVars => [Next]_vars
  BY DEF SystemNext, systemVars, BobsSide, AlicesSide, Created, Removed, Judged, Next

\* A handler that is past its load has a session and a poster.
LEMMA HandledIsSent ==
    ASSUME IInv, NEW r \in Requests, Handle(r)
    PROVE  SessionOf(r) \in Sessions /\ poster[r] \in Bobs
  <1>1. pc[r] \in {"received", "scoring"}
    BY DEF Handle, Refuse, LoadSession, EmbedUnavailable, StoreError, FinalizeAnswer,
           FinalizeReplyLost
  <1> QED BY <1>1 DEF IInv, SentInv, SessionOf

LEMMA AlicesSideStep ==
    ASSUME IInv, [SystemNext]_systemVars
    PROVE  [Stream!Next]_(Stream!vars)
  <1>1. CASE UNCHANGED <<storeVars, alicesVars>>
    BY <1>1 DEF storeVars, alicesVars, Stream!vars, Stream!storeVars, Stream!aliceVars,
                Stream!streamVars, Stream!hubVars
  <1>2. CASE AlicesSide
    BY <1>2 DEF AlicesSide
  <1>3. ASSUME NEW s \in Sessions, Removed(s) \/ \E a \in Answers : Created(s, a)
        PROVE  Stream!Next
    BY <1>3 DEF Removed, Created, Stream!Next
  <1>4. ASSUME NEW r \in Requests, Judged(r)
        PROVE  Stream!Next
    <2>1. SessionOf(r) \in Sessions /\ poster[r] \in Bobs /\ Passed(r) \in BOOLEAN
      BY <1>4, HandledIsSent DEF Judged, Passed
    <2>2. Stream!Decide(SessionOf(r), poster[r], Passed(r))
      BY <1>4 DEF Judged
    <2> QED BY <2>1, <2>2 DEF Stream!Next
  <1> QED BY <1>1, <1>2, <1>3, <1>4 DEF SystemNext, systemVars, BobsSide, vars

\* What Verification lets Alice do to the store is all that she does: every
\* theorem about Bob's side holds in the whole system.
THEOREM BobsSideIsVerification == SystemSpec => Spec
  BY BobsSideStep, PTL DEF SystemSpec, SystemInit, Spec

\* What EventStream lets Bob do to the store is all that he does: every theorem
\* about Alice's side holds in the whole system.
THEOREM AlicesSideIsEventStream == SystemSpec => Stream!Spec
  <1>1. IInv /\ [SystemNext]_systemVars => [Stream!Next]_(Stream!vars)
    BY AlicesSideStep
  <1> QED BY <1>1, BobsSideIsVerification, Invariance, PTL
          DEF SystemSpec, SystemInit, Stream!Spec

LEMMA AlicesSideIsProved == SystemSpec => SP!Spec
  <1>1. [Stream!Next]_(Stream!vars) => [SP!Next]_(SP!vars)
    BY SameSteps
  <1> QED BY <1>1, AlicesSideIsEventStream, SameInit, PTL DEF Stream!Spec, SP!Spec

-----------------------------------------------------------------------------
\* What is invariant on both sides, and what is if no session outlives the cap
\* of its stream.
SystemInv == IInv /\ SP!IInv /\ \A s \in Sessions : SP!AliceInv(s)

LEMMA SystemInvariance == SystemSpec => []SystemInv
  <1>1. SP!Spec => []SP!IInv
    BY SP!StreamInvariance, NullAssumption, StreamSideAssumption
  <1>2. SP!Spec => [](\A s \in Sessions : SP!AliceInv(s))
    BY SP!AliceInvariance, NullAssumption, StreamSideAssumption
  <1> QED BY <1>1, <1>2, AlicesSideIsProved, BobsSideIsVerification, Invariance, PTL
          DEF SystemInv

LEMMA SystemGoneInvariance ==
    ASSUME "ttl_above_cap" \notin StreamFaults
    PROVE  SystemSpec => []SP!GoneInv
  <1>1. SP!Spec => []SP!GoneInv
    BY SP!GoneInvariance, NullAssumption, StreamSideAssumption
  <1> QED BY <1>1, AlicesSideIsProved, PTL

-----------------------------------------------------------------------------
(* All the secrets of a session are one.                                   *)

LEMMA AliceSecretFacts ==
    ASSUME SystemInv, NEW s \in Sessions, NEW k \in AliceSecrets(s)
    PROVE  \E b \in Bobs : /\ k = {s, b}
                           /\ published[s] = <<Verified(b)>>
                           /\ aliceScreen[s] = "step-alice-pass"
  <1>1. PICK b \in Bobs : bobPubkey[s] = b /\ k = {s, b}
    BY DEF AliceSecrets, DeriveSharedKey
  <1>2. aliceScreen[s] = "step-alice-pass"
    BY <1>1, NullAssumption DEF SystemInv, SP!AliceInv
  <1>3. published[s] = <<Verified(b)>>
    BY <1>1, <1>2 DEF SystemInv, SP!IInv, SP!VerdictScreenIsTruthful, SP!Verified, Verified
  <1> QED BY <1>1, <1>2, <1>3

LEMMA BobSecretFacts ==
    ASSUME SystemInv, NEW s \in Sessions, NEW k \in BobSecrets(s)
    PROVE  \E b \in Bobs : k = {s, b} /\ published[s] = <<Verified(b)>>
  <1>1. PICK b \in Bobs : link[b] = s /\ alicePubkey[b] # Null /\ k = {b, alicePubkey[b]}
    BY DEF BobSecrets, DeriveSharedKey
  <1>2. alicePubkey[b] = s /\ published[s] = <<Verified(b)>>
    BY <1>1 DEF SystemInv, IInv, TabInv
  <1> QED BY <1>1, <1>2

\* All the secrets that come out of a session, in any tab, are one and the same,
\* and a failed session has none.
THEOREM SecretsAgree == SystemSpec => []OneSecretPerSession
  <1>1. SystemInv => OneSecretPerSession
    <2> SUFFICES ASSUME SystemInv, NEW s \in Sessions
                 PROVE  /\ \A k, l \in AliceSecrets(s) \cup BobSecrets(s) : k = l
                        /\ aliceScreen[s] = "step-alice-fail" =>
                              AliceSecrets(s) \cup BobSecrets(s) = {}
      BY DEF OneSecretPerSession
    <2>1. \A k \in AliceSecrets(s) \cup BobSecrets(s) :
              \E b \in Bobs : k = {s, b} /\ published[s] = <<Verified(b)>>
      BY AliceSecretFacts, BobSecretFacts
    <2>2. ASSUME NEW b \in Bobs, NEW c \in Bobs, <<Verified(b)>> = <<Verified(c)>>
          PROVE  b = c
      <3>1. Verified(b) = Verified(c)
        BY <2>2
      <3> QED BY <3>1 DEF Verified
    <2>3. \A b \in Bobs : <<Failed>> # <<Verified(b)>>
      BY DEF Failed, Verified
    <2>4. aliceScreen[s] = "step-alice-fail" => published[s] = <<Failed>>
      BY DEF SystemInv, SP!IInv, SP!VerdictScreenIsTruthful, SP!Failed, Failed
    <2> QED BY <2>1, <2>2, <2>3, <2>4
  <1> QED BY <1>1, SystemInvariance, PTL

-----------------------------------------------------------------------------
(* Where each end stands once a tab was announced as verified.             *)

\* Bob's tab holds the key, or waits for the response that carries it.
BobGetsThere(s, b) ==
    \/ screen[b] = "step-bob-pass" /\ DeriveSharedKey(b, alicePubkey[b]) = {s, b}
    \/ link[b] = s /\ OnItsWay(b)

\* Alice's tab holds the key; or it waits, connecting or with a stream of its
\* session, unless the session is gone; or it was closed or told that it is gone.
AliceGetsThere(s, b) ==
    \/ aliceScreen[s] = "step-alice-pass" /\ DeriveSharedKey(s, bobPubkey[s]) = {s, b}
    \/ /\ aliceScreen[s] = "step-waiting"
       /\ \/ es[s] = "CONNECTING"
          \/ es[s] = "OPEN" /\ conn[s] \in Streams /\ owner[conn[s]] = s
          \/ hash[s].phase = "ABSENT"
    \/ aliceScreen[s] = "none"
    \/ aliceScreen[s] = "step-create" /\ hash[s].phase = "ABSENT"

\* From the announcement on, in every state, each end to which the other's key is
\* of use has the shared key or is still on a way that can bring it, and is never
\* told otherwise.
BothEndsGetThere ==
    \A s \in Sessions, b \in Bobs :
        published[s] = <<Verified(b)>> =>
            /\ s \notin DubiousKeys => BobGetsThere(s, b)
            /\ b \notin DubiousKeys => AliceGetsThere(s, b)

\* As long as Bob's responses arrive whole, no stream request is refused and no
\* session outlives the cap of its stream, an announced channel has an end
\* wherever the key it needs can be imported: store errors, and what the hubs,
\* the workers and the streams lose, are not enough to break one off.
THEOREM ChannelHasTwoEnds ==
    ASSUME "reply_lost" \notin Faults, "connection_lost" \notin Faults,
           "body_lost" \notin Faults, "refused" \notin StreamFaults,
           "ttl_above_cap" \notin StreamFaults
    PROVE  SystemSpec => []BothEndsGetThere
  <1> DEFINE Waiting == \A s \in Sessions : SP!Waits(s)
  <1>1. SP!Spec => []Waiting
    BY SP!WaitsInvariance, NullAssumption, StreamSideAssumption
  <1>2. Spec => []WinnerIsServed
    BY WinnersAreServed
  <1>3. SystemInv /\ SP!GoneInv /\ Waiting /\ WinnerIsServed => BothEndsGetThere
    <2> SUFFICES ASSUME SystemInv, SP!GoneInv, Waiting, WinnerIsServed,
                        NEW s \in Sessions, NEW b \in Bobs, published[s] = <<Verified(b)>>
                 PROVE  /\ s \notin DubiousKeys => BobGetsThere(s, b)
                        /\ b \notin DubiousKeys => AliceGetsThere(s, b)
      BY DEF BothEndsGetThere
    <2>1. s \notin DubiousKeys => BobGetsThere(s, b)
      BY DEF WinnerIsServed, BobGetsThere, DeriveSharedKey
    <2>2. aliceScreen[s] \in SP!Screens /\ es[s] \in {"CONNECTING", "OPEN", "CLOSED"}
      BY DEF SystemInv, SP!IInv, SP!TypeOK
    <2>3. aliceScreen[s] # "step-alice-fail"
      <3>1. <<Verified(b)>> # <<Failed>>
        BY DEF Verified, Failed
      <3> QED BY <3>1 DEF SystemInv, SP!IInv, SP!VerdictScreenIsTruthful, SP!Failed, Failed
    <2>4. CASE aliceScreen[s] = "step-alice-pass"
      <3>1. published[s] = <<Verified(bobPubkey[s])>>
        BY <2>4 DEF SystemInv, SP!IInv, SP!VerdictScreenIsTruthful, SP!Verified, Verified
      <3>2. Verified(b) = Verified(bobPubkey[s])
        BY <3>1
      <3>3. bobPubkey[s] = b
        BY <3>2 DEF Verified
      <3>4. DeriveSharedKey(s, bobPubkey[s]) = {s, b}
        BY <3>3 DEF DeriveSharedKey
      <3> QED BY <2>1, <2>4, <3>4 DEF AliceGetsThere
    <2>5. CASE aliceScreen[s] = "step-waiting"
      <3>1. conn \in [Sessions -> Streams \cup {Null}] /\ SP!ConnInv(s)
        BY DEF SystemInv, SP!IInv, SP!TypeOK
      <3>2. conn[s] # Null => conn[s] \in Streams /\ owner[conn[s]] = s
        BY <3>1 DEF SP!ConnInv
      <3>3. SP!Waits(s)
        OBVIOUS
      <3>4. SP!Unusable(s) => b \in DubiousKeys
        <4> SUFFICES ASSUME NEW c \in Bobs \cap DubiousKeys, published[s] = <<SP!Verified(c)>>
                     PROVE  b \in DubiousKeys
          BY DEF SP!Unusable
        <4>1. Verified(b) = SP!Verified(c)
          OBVIOUS
        <4> QED BY <4>1 DEF Verified, SP!Verified
      <3> QED BY <2>1, <2>5, <3>2, <3>3, <3>4 DEF SP!Waits, SP!Gone, AliceGetsThere
    <2>6. CASE aliceScreen[s] = "step-create"
      <3>1. hash[s].phase = "ABSENT"
        BY <2>6 DEF SP!GoneInv, SP!Gone
      <3> QED BY <2>1, <2>6, <3>1 DEF AliceGetsThere
    <2> QED BY <2>1, <2>2, <2>3, <2>4, <2>5, <2>6 DEF SP!Screens, AliceGetsThere
  <1> HIDE DEF Waiting
  <1> QED BY <1>1, <1>2, <1>3, SystemInvariance, SystemGoneInvariance, AlicesSideIsProved,
             BobsSideIsVerification, PTL

-----------------------------------------------------------------------------
(* The whole system implements the rendezvous.                             *)

meetingPhase   == [t \in Sessions |-> PhaseOf(t)]
meetingVerdict == [t \in Sessions |-> VerdictOf(t)]
meetingWinner  == [t \in Sessions |-> WinnerOf(t)]
meetingTold    == [t \in Sessions |-> ToldOf(t)]

\* Phases, verdicts and winners are functions of the store, what Alice was told
\* and her partner of her tab.
LEMMA StoreIsMeeting ==
    ASSUME UNCHANGED storeVars
    PROVE  UNCHANGED <<meetingPhase, meetingVerdict, meetingWinner>>
  BY DEF storeVars, meetingPhase, meetingVerdict, meetingWinner, PhaseOf, VerdictOf, WinnerOf

LEMMA ScreenIsMeeting ==
    ASSUME UNCHANGED aliceScreen
    PROVE  UNCHANGED meetingTold
  BY DEF meetingTold, ToldOf

LEMMA TabsHoldKeys ==
    ASSUME UNCHANGED tabVars
    PROVE  UNCHANGED KeyHolders
  BY DEF tabVars, KeyHolders

LEMMA StillMeeting ==
    ASSUME UNCHANGED <<meetingPhase, meetingVerdict, meetingWinner, KeyHolders, meetingTold,
                       bobPubkey>>
    PROVE  UNCHANGED Meeting!rendezvousVars
  BY DEF Meeting!rendezvousVars, meetingPhase, meetingVerdict, meetingWinner, meetingTold

LEMMA MeetingInit == SystemInit => Meeting!Init
  <1> SUFFICES ASSUME SystemInit PROVE Meeting!Init
    OBVIOUS
  <1>1. meetingPhase = [s \in Sessions |-> "unused"]
    BY DEF SystemInit, Init, StoreInit, meetingPhase, PhaseOf
  <1>2. meetingVerdict = [s \in Sessions |-> "none"] /\ meetingWinner = [s \in Sessions |-> Null]
    BY DEF SystemInit, Init, StoreInit, meetingVerdict, VerdictOf, meetingWinner, WinnerOf
  <1>3. KeyHolders = {}
    BY DEF SystemInit, Init, KeyHolders
  <1>4. meetingTold = [s \in Sessions |-> "nothing"] /\ bobPubkey = [s \in Sessions |-> Null]
    BY DEF SystemInit, Stream!Init, meetingTold, ToldOf
  <1> QED BY <1>1, <1>2, <1>3, <1>4
          DEF Meeting!Init, meetingPhase, meetingVerdict, meetingWinner, meetingTold

\* A step of Bob's side that leaves the store alone hands a key over, or nothing.
LEMMA MeetingBobsSide ==
    ASSUME IInv, BobsSide
    PROVE  [Meeting!Next]_(Meeting!rendezvousVars)
  <1>1. UNCHANGED <<storeVars, aliceScreen, bobPubkey>> /\ Next
    BY DEF BobsSide, alicesVars
  <1>2. UNCHANGED <<meetingPhase, meetingVerdict, meetingWinner, meetingTold, bobPubkey>>
    BY <1>1, StoreIsMeeting, ScreenIsMeeting
  <1>3. UNCHANGED [t \in Sessions |-> GateOf(t)]
    BY <1>1, StoreIsGate
  <1>4. [Gate!Next]_(Gate!gateVars)
    BY <1>1, GateStep
  <1>5. ASSUME NEW s \in Sessions, Gate!Open(s) \/ \E w \in Bobs \cup {Null} : Gate!Shut(s, w)
        PROVE  FALSE
    <2> DEFINE gate == [t \in Sessions |-> GateOf(t)]
    <2>1. \E x \in {"open", "shut"} : gate[s] # x /\ gate' = [gate EXCEPT ![s] = x]
      BY <1>5 DEF Gate!Open, Gate!Shut
    <2>2. gate'[s] # gate[s]
      BY <2>1
    <2> QED BY <1>3, <2>2
  <1>6. ASSUME NEW s \in Sessions, NEW b \in Bobs, Gate!HandOver(s, b)
        PROVE  Meeting!HandOver(s, b)
    BY <1>2, <1>6 DEF Gate!HandOver, Meeting!HandOver, meetingPhase, meetingVerdict,
                      meetingWinner, meetingTold
  <1>7. CASE UNCHANGED Gate!gateVars
    <2>1. UNCHANGED KeyHolders
      BY <1>7 DEF Gate!gateVars
    <2> QED BY <1>2, <2>1, StillMeeting
  <1> QED BY <1>4, <1>5, <1>6, <1>7 DEF Gate!Next, Meeting!Next

\* A step of Alice's side tells her something, or nothing.
LEMMA MeetingDeliver ==
    ASSUME SystemInv, SP!GoneInv, UNCHANGED vars, NEW s \in Sessions, SP!Deliver(s)
    PROVE  Meeting!TellVerdict(s) \/ Meeting!TellExpired(s)
  <1>0. /\ aliceScreen \in [Sessions -> SP!Screens] /\ bobPubkey \in [Sessions -> Bobs \cup {Null}]
    BY DEF SystemInv, SP!IInv, SP!TypeOK
  <1>1. UNCHANGED <<meetingPhase, meetingVerdict, meetingWinner, KeyHolders>>
    BY StoreIsMeeting, TabsHoldKeys DEF vars
  <1>2. aliceScreen[s] = "step-waiting" /\ bobPubkey[s] = Null
    BY DEF SP!Deliver, SystemInv, SP!AliceInv
  <1>3. meetingTold[s] = "nothing"
    BY <1>2 DEF meetingTold, ToldOf
  <1>4. ASSUME NEW x, aliceScreen' = [aliceScreen EXCEPT ![s] = x]
        PROVE  meetingTold' = [meetingTold EXCEPT ![s] =
                                  IF x = "step-alice-pass" THEN "verified"
                                  ELSE IF x = "step-alice-fail" THEN "failed"
                                  ELSE IF x = "step-create" THEN "expired" ELSE "nothing"]
    BY <1>0, <1>4 DEF meetingTold, ToldOf
  <1>5. ASSUME NEW b \in Bobs,
               published[s] = <<SP!Verified(b)>>,
               aliceScreen' = [aliceScreen EXCEPT ![s] = "step-alice-pass"],
               bobPubkey' = [bobPubkey EXCEPT ![s] = b]
        PROVE  Meeting!TellVerdict(s)
    <2>1. meetingVerdict[s] = "verified" /\ meetingWinner[s] = b
      BY <1>5 DEF meetingVerdict, VerdictOf, meetingWinner, WinnerOf, SP!Verified
    <2>2. meetingTold' = [meetingTold EXCEPT ![s] = meetingVerdict[s]]
      BY <1>4, <1>5, <2>1
    <2> QED BY <1>1, <1>3, <1>5, <2>1, <2>2
            DEF Meeting!TellVerdict, meetingPhase, meetingVerdict, meetingWinner, meetingTold
  <1>6. ASSUME published[s] = <<SP!Failed>>,
               aliceScreen' = [aliceScreen EXCEPT ![s] = "step-alice-fail"],
               bobPubkey' = bobPubkey
        PROVE  Meeting!TellVerdict(s)
    <2>1. meetingVerdict[s] = "failed" /\ meetingWinner[s] = Null
      BY <1>6 DEF meetingVerdict, VerdictOf, meetingWinner, WinnerOf, SP!Failed
    <2>2. meetingTold' = [meetingTold EXCEPT ![s] = meetingVerdict[s]]
      BY <1>4, <1>6, <2>1
    <2>3. bobPubkey' = [bobPubkey EXCEPT ![s] = meetingWinner[s]]
      BY <1>0, <1>2, <1>6, <2>1
    <2> QED BY <1>1, <1>3, <2>1, <2>2, <2>3
            DEF Meeting!TellVerdict, meetingPhase, meetingVerdict, meetingWinner, meetingTold
  <1>7. ASSUME SP!Gone(s),
               aliceScreen' = [aliceScreen EXCEPT ![s] = "step-create"],
               bobPubkey' = bobPubkey
        PROVE  Meeting!TellExpired(s)
    <2>1. meetingPhase[s] = "forgotten"
      BY <1>7 DEF SP!Gone, meetingPhase, PhaseOf, TerminalPhases
    <2>2. meetingTold' = [meetingTold EXCEPT ![s] = "expired"]
      BY <1>4, <1>7
    <2> QED BY <1>1, <1>3, <1>7, <2>1, <2>2
            DEF Meeting!TellExpired, meetingPhase, meetingVerdict, meetingWinner, meetingTold
  <1>8. SP!IInv
    BY DEF SystemInv
  <1> QED BY <1>5, <1>6, <1>7, <1>8, SP!DeliverTells, NullAssumption, StreamSideAssumption

LEMMA MeetingAlicesSide ==
    ASSUME SystemInv, SP!GoneInv, AlicesSide
    PROVE  [Meeting!Next]_(Meeting!rendezvousVars)
  <1>1. UNCHANGED vars /\ [SP!Next]_(SP!vars)
    BY SameSteps DEF AlicesSide
  <1>2. UNCHANGED <<meetingPhase, meetingVerdict, meetingWinner, KeyHolders>>
    BY <1>1, StoreIsMeeting, TabsHoldKeys DEF vars
  <1>3. /\ aliceScreen \in [Sessions -> SP!Screens] /\ bobPubkey \in [Sessions -> Bobs \cup {Null}]
    BY DEF SystemInv, SP!IInv, SP!TypeOK
  <1>4. CASE UNCHANGED <<SP!aliceVars, issued>>
    BY <1>2, <1>4, ScreenIsMeeting, StillMeeting DEF SP!aliceVars
  <1>5. ASSUME NEW s \in Sessions, SP!AliceStep(s)
        PROVE  [Meeting!Next]_(Meeting!rendezvousVars)
    <2>1. ASSUME NEW a \in Answers, SP!CreateSession(s, a)
          PROVE  FALSE
      BY <1>1, <2>1 DEF SP!CreateSession, SP!Create, vars, storeVars
    <2>2. CASE SP!Deliver(s)
      BY <1>1, <2>2, MeetingDeliver DEF Meeting!Next
    <2>3. CASE \/ SP!Reach(s) \/ SP!ConnectStoreError(s) \/ SP!ImportFails(s)
               \/ SP!StreamEnded(s) \/ SP!Drop(s)
      <3>1. UNCHANGED <<aliceScreen, bobPubkey>>
        BY <2>3 DEF SP!Reach, SP!Connect, SP!ConnectNotFound, SP!ConnectStoreError, SP!GiveUp,
                    SP!ImportFails, SP!StreamEnded, SP!Drop, SP!Reconnecting
      <3> QED BY <1>2, <3>1, ScreenIsMeeting, StillMeeting
    <2>4. CASE SP!CloseTab(s)
      <3>1. UNCHANGED meetingTold
        BY <1>3, <2>4 DEF SP!CloseTab, meetingTold, ToldOf
      <3>2. UNCHANGED bobPubkey
        BY <2>4 DEF SP!CloseTab
      <3> QED BY <1>2, <3>1, <3>2, StillMeeting
    <2> QED BY <1>5, <2>1, <2>2, <2>3, <2>4 DEF SP!AliceStep
  <1> QED BY <1>1, <1>4, <1>5, SP!AliceCases, NullAssumption, StreamSideAssumption

\* The steps that both sides take together.
LEMMA MeetingCreated ==
    ASSUME SystemInv, NEW s \in Sessions, NEW a \in Answers, Created(s, a)
    PROVE  Meeting!Open(s)
  <1>1. /\ s \notin issued /\ issued' = issued \cup {s} /\ UNCHANGED <<published, tabVars>>
        /\ hash' = [hash EXCEPT ![s] = NewHash(s, a)]
        /\ aliceScreen' = [aliceScreen EXCEPT ![s] = "step-waiting"]
        /\ bobPubkey' = bobPubkey
    BY DEF Created, CreateSession, Create, Stream!CreateSession
  <1>2. hash \in [Sessions -> Hash] /\ NewHash(s, a).phase = "WAITING_FOR_BOB"
    BY DEF SystemInv, IInv, TypeOK, StoreTypeOK, NewHash
  <1>3. meetingPhase[s] = "unused" /\ meetingPhase' = [meetingPhase EXCEPT ![s] = "open"]
    BY <1>1, <1>2 DEF meetingPhase, PhaseOf
  <1>4. UNCHANGED <<meetingVerdict, meetingWinner>>
    BY <1>1 DEF meetingVerdict, VerdictOf, meetingWinner, WinnerOf
  <1>5. UNCHANGED KeyHolders
    BY <1>1, TabsHoldKeys
  <1>6. UNCHANGED meetingTold
    <2>1. aliceScreen[s] = "none" /\ aliceScreen \in [Sessions -> SP!Screens]
      BY <1>1 DEF SystemInv, SP!AliceInv, SP!IInv, SP!TypeOK
    <2> QED BY <1>1, <2>1 DEF meetingTold, ToldOf
  <1> QED BY <1>1, <1>3, <1>4, <1>5, <1>6
          DEF Meeting!Open, meetingPhase, meetingVerdict, meetingWinner, meetingTold

LEMMA MeetingRemoved ==
    ASSUME SystemInv, NEW s \in Sessions, Removed(s)
    PROVE  Meeting!Forget(s)
  <1>1. /\ hash[s].phase # "ABSENT" /\ UNCHANGED <<published, issued, tabVars>>
        /\ hash' = [hash EXCEPT ![s] = NoHash]
        /\ UNCHANGED <<aliceScreen, bobPubkey>>
    BY DEF Removed, DeleteSession, ExpireSession, Delete, Expire, Stream!Vanish, Stream!Expire,
           Stream!aliceVars
  <1>2. hash \in [Sessions -> Hash] /\ hash[s].phase \in Phases
    BY DEF SystemInv, IInv, TypeOK, StoreTypeOK, Hash
  <1>3. s \in issued
    BY <1>1 DEF SystemInv, IInv, StoreInv, Untouched, NoHash
  <1>4. meetingPhase[s] \in {"open", "judged"}
    BY <1>1, <1>2, <1>3 DEF meetingPhase, PhaseOf, Phases, TerminalPhases
  <1>5. NoHash.phase = "ABSENT"
    BY DEF NoHash
  <1>6. meetingPhase' = [meetingPhase EXCEPT ![s] = "forgotten"]
    BY <1>1, <1>2, <1>3, <1>5 DEF meetingPhase, PhaseOf, TerminalPhases
  <1>7. UNCHANGED <<meetingVerdict, meetingWinner>>
    BY <1>1 DEF meetingVerdict, VerdictOf, meetingWinner, WinnerOf
  <1>8. UNCHANGED <<KeyHolders, meetingTold>>
    BY <1>1, TabsHoldKeys, ScreenIsMeeting
  <1> QED BY <1>1, <1>4, <1>6, <1>7, <1>8
          DEF Meeting!Forget, meetingPhase, meetingVerdict, meetingWinner, meetingTold

LEMMA MeetingJudged ==
    ASSUME SystemInv, NEW r \in Requests, Judged(r)
    PROVE  \E s \in Sessions, w \in Bobs \cup {Null} : Meeting!Judge(s, w)
  <1> DEFINE s == SessionOf(r)
             e == VerdictEvent(poster[r], Passed(r))
             w == e.bob_pubkey_jwk
  <1>1. IInv /\ s \in Sessions /\ poster[r] \in Bobs
    BY HandledIsSent DEF Judged, SystemInv
  <1>2. /\ hash \in [Sessions -> Hash] /\ published \in [Sessions -> Seq(Event)]
        /\ hash[s].phase \in Phases
    BY <1>1 DEF IInv, TypeOK, StoreTypeOK, Hash
  <1>3. FinalizeOutcome(s) = "done"
    <2>1. Stream!FinalizeOutcome(s) = "done"
      BY DEF Judged, Stream!Decide
    <2> QED BY <1>2, <2>1 DEF Stream!FinalizeOutcome, Stream!TerminalPhases, FinalizeOutcome,
                              Phases, TerminalPhases
  <1>4. published'[s] # published[s]
    <2>1. published[s] = <<>>
      BY <1>1, <1>2, <1>3 DEF FinalizeOutcome, Phases, TerminalPhases, IInv, StoreInv, InStep
    <2>2. published' = [published EXCEPT ![s] =
                           Append(@, Stream!VerdictEvent(poster[r], Passed(r)))]
      BY DEF Judged, Stream!Decide, Stream!Finalize
    <2>3. published'[s] = Append(<<>>, Stream!VerdictEvent(poster[r], Passed(r)))
      BY <1>1, <1>2, <2>1, <2>2
    <2>4. published'[s] # <<>>
      BY <2>3
    <2> QED BY <2>1, <2>4
  <1>5. Judge(r) /\ pc[r] = "scoring" /\ FinalizeEffect(r)
    BY <1>4 DEF Judged, Handle, Refuse, LoadSession, EmbedUnavailable, StoreError, storeVars,
                Judge, FinalizeAnswer, FinalizeReplyLost
  <1>6. /\ hash[s].phase = "WAITING_FOR_BOB" /\ published[s] = <<>>
        /\ published' = [published EXCEPT ![s] = <<e>>]
        /\ hash' = [hash EXCEPT ![s] = HSet(@, VerdictUpdate(poster[r], Passed(r)))]
        /\ hash'[s].phase \in TerminalPhases
        /\ issued' = issued
    BY <1>1, <1>3, <1>5, Decides
  <1>7. s \in issued
    BY <1>1, <1>6 DEF IInv, StoreInv, Untouched, NoHash
  <1>8. /\ w \in Bobs \cup {Null}
        /\ (IF e.event = "VERIFIED" THEN "verified" ELSE "failed") =
              IF w = Null THEN "failed" ELSE "verified"
    BY <1>1, NullAssumption DEF VerdictEvent, Verified, Failed
  <1>9. UNCHANGED <<KeyHolders, meetingTold, bobPubkey>>
    <2>1. UNCHANGED <<tabVars, aliceScreen, bobPubkey>>
      BY <1>5 DEF Judge, FinalizeAnswer, FinalizeReplyLost, Judged, Stream!Decide, Stream!aliceVars
    <2> QED BY <2>1, TabsHoldKeys, ScreenIsMeeting
  <1> HIDE DEF s, e
  <1>10. meetingPhase[s] = "open" /\ meetingPhase' = [meetingPhase EXCEPT ![s] = "judged"]
    <2>1. \A t \in Sessions : PhaseOf(t)' = IF t = s THEN "judged" ELSE PhaseOf(t)
      BY <1>2, <1>6, <1>7 DEF PhaseOf, TerminalPhases
    <2> QED BY <1>1, <1>6, <1>7, <2>1 DEF meetingPhase, PhaseOf
  <1>11. meetingVerdict' = [meetingVerdict EXCEPT ![s] = IF w = Null THEN "failed" ELSE "verified"]
    <2>1. \A t \in Sessions : VerdictOf(t)' =
             IF t = s THEN (IF w = Null THEN "failed" ELSE "verified") ELSE VerdictOf(t)
      BY <1>2, <1>6, <1>8 DEF VerdictOf
    <2> QED BY <2>1 DEF meetingVerdict
  <1>12. meetingWinner' = [meetingWinner EXCEPT ![s] = w]
    <2>1. \A t \in Sessions : WinnerOf(t)' = IF t = s THEN w ELSE WinnerOf(t)
      BY <1>2, <1>6 DEF WinnerOf
    <2> QED BY <2>1 DEF meetingWinner
  <1>13. Meeting!Judge(s, w)
    BY <1>9, <1>10, <1>11, <1>12
       DEF Meeting!Judge, meetingPhase, meetingVerdict, meetingWinner, meetingTold
  <1> QED BY <1>1, <1>8, <1>13

LEMMA MeetingStep ==
    ASSUME SystemInv, SP!GoneInv, [SystemNext]_systemVars
    PROVE  [Meeting!Next]_(Meeting!rendezvousVars)
  <1>1. CASE UNCHANGED systemVars
    <2>1. UNCHANGED <<storeVars, tabVars, aliceScreen, bobPubkey>>
      BY <1>1 DEF systemVars, vars, alicesVars
    <2> QED BY <2>1, StoreIsMeeting, TabsHoldKeys, ScreenIsMeeting, StillMeeting
  <1>2. CASE BobsSide
    BY <1>2, MeetingBobsSide DEF SystemInv
  <1>3. CASE AlicesSide
    BY <1>3, MeetingAlicesSide
  <1>4. CASE \E s \in Sessions, a \in Answers : Created(s, a)
    BY <1>4, MeetingCreated DEF Meeting!Next
  <1>5. CASE \E s \in Sessions : Removed(s)
    BY <1>5, MeetingRemoved DEF Meeting!Next
  <1>6. CASE \E r \in Requests : Judged(r)
    BY <1>6, MeetingJudged DEF Meeting!Next
  <1> QED BY <1>1, <1>2, <1>3, <1>4, <1>5, <1>6 DEF SystemNext

\* If no session outlives the cap of its stream, the protocol brings Alice and the
\* winner together: whatever fails on either side, a session is judged once, only
\* the winner gets Alice's key, and Alice is told once, and the truth.
THEOREM ImplementsRendezvous ==
    ASSUME "ttl_above_cap" \notin StreamFaults
    PROVE  SystemSpec => RendezvousSpec
  <1>1. SystemInv /\ SP!GoneInv /\ [SystemNext]_systemVars
            => [Meeting!Next]_(Meeting!rendezvousVars)
    BY MeetingStep
  <1>2. SystemInit => Meeting!Init
    BY MeetingInit
  <1> QED BY <1>1, <1>2, SystemInvariance, SystemGoneInvariance, PTL
          DEF SystemSpec, RendezvousSpec, Meeting!Spec
=============================================================================
