------------------------ MODULE VerificationProofs -------------------------
(***************************************************************************)
(* Proofs about the verification side of the protocol, for every set of    *)
(* sessions, tabs, POSTs and answers, every scoring and every combination  *)
(* of faults.                                                              *)
(***************************************************************************)
EXTENDS Verification, SessionStoreProofs

-----------------------------------------------------------------------------
(* The inductive invariant.  What makes it work is what ties a handler to  *)
(* the store across its embedding call: the snapshot may be stale, but its *)
(* key is that of the session, and only a handler whose script found the   *)
(* session waiting, hence its channel empty, answers 200.                  *)

\* A stored hash carries the key of its own session.
OwnKey(s) == hash[s].phase # "ABSENT" => hash[s].alice_pubkey_jwk = s

TabInv(b) ==
    /\ screen[b] = "none" <=> link[b] = Null
    /\ link[b] # Null => link[b] \in issued
    /\ awaiting[b] # Null =>
          /\ screen[b] = "step-scoring"
          /\ pc[awaiting[b]] # "unsent"
          /\ poster[awaiting[b]] = b
    /\ screen[b] = "step-bob-pass" <=> alicePubkey[b] # Null
    /\ alicePubkey[b] # Null =>
          /\ alicePubkey[b] = link[b]
          /\ published[link[b]] = <<Verified(b)>>

\* A POST that was sent has a body and a session.
SentInv(r) ==
    pc[r] # "unsent" =>
        /\ poster[r] \in Bobs
        /\ answer[r] \in Answers
        /\ link[poster[r]] \in Sessions

ScoringInv(r) ==
    pc[r] = "scoring" => snapshot[r].alice_pubkey_jwk = SessionOf(r)

ResponseInv(r) ==
    /\ pc[r] # "answered" => response[r] = NoResponse
    /\ response[r].status = 200 =>
          published[SessionOf(r)] = <<VerdictEvent(poster[r], Passed(r))>>
    /\ response[r].result = "PASS" =>
          /\ response[r].status = 200
          /\ Passed(r)
          /\ response[r].alice_pubkey_jwk = SessionOf(r)
    /\ response[r].result # "PASS" => response[r].alice_pubkey_jwk = Null

IInv ==
    /\ TypeOK
    /\ StoreInv
    /\ \A s \in Sessions : OwnKey(s)
    /\ \A b \in Bobs : TabInv(b)
    /\ \A r \in Requests : SentInv(r) /\ ScoringInv(r) /\ ResponseInv(r)
    /\ OneAnswerDecides
    /\ DecisionIsEarned

-----------------------------------------------------------------------------
(* The steps, grouped by what they do to the store.                        *)

\* Steps of the tabs and of the handlers that do not touch the store.
QuietStep ==
    \/ \E b \in Bobs :
          \/ \E s \in Sessions : OpenLink(b, s)
          \/ FetchSession(b)
          \/ FetchRefused(b)
          \/ \E r \in Requests, a \in Answers : SubmitAnswer(b, r, a)
          \/ DeliverResponse(b)
          \/ ImportFails(b)
          \/ LoseBody(b)
          \/ LoseConnection(b)
    \/ \E r \in Requests : Refuse(r) \/ LoadSession(r) \/ EmbedUnavailable(r) \/ StoreError(r)

Judge(r) == FinalizeAnswer(r) \/ FinalizeReplyLost(r)

LEMMA StepCases ==
    ASSUME [Next]_vars
    PROVE  \/ UNCHANGED vars
           \/ \E s \in Sessions :
                 (\E a \in Answers : CreateSession(s, a)) \/ DeleteSession(s) \/ ExpireSession(s)
           \/ QuietStep
           \/ \E r \in Requests : Judge(r)
  BY DEF Next, Handle, QuietStep, Judge

LEMMA QuietIsQuiet == QuietStep => UNCHANGED storeVars
  BY DEF QuietStep, OpenLink, FetchSession, FetchRefused, SubmitAnswer, DeliverResponse,
         ImportFails, LoseBody, TabReceives, LoseConnection, Refuse, LoadSession, EmbedUnavailable, StoreError

\* Every step of the protocol is a step of the store, or leaves it alone.
LEMMA StepIsStoreStep ==
    ASSUME IInv, [Next]_vars
    PROVE  [StoreNext]_storeVars
  <1>1. CASE UNCHANGED vars
    BY <1>1 DEF vars
  <1>2. ASSUME NEW s \in Sessions,
               (\E a \in Answers : CreateSession(s, a)) \/ DeleteSession(s) \/ ExpireSession(s)
        PROVE  StoreNext
    BY <1>2 DEF CreateSession, DeleteSession, ExpireSession, StoreNext
  <1>3. CASE QuietStep
    BY <1>3, QuietIsQuiet
  <1>4. ASSUME NEW r \in Requests, Judge(r)
        PROVE  StoreNext
    <2>1. poster[r] \in Bobs /\ SessionOf(r) \in Sessions
      BY <1>4 DEF Judge, FinalizeAnswer, FinalizeReplyLost, IInv, SentInv, SessionOf
    <2>2. Passed(r) \in BOOLEAN
      BY DEF Passed
    <2>3. FinalizeEffect(r)
      BY <1>4 DEF Judge, FinalizeAnswer, FinalizeReplyLost
    <2> QED BY <2>1, <2>2, <2>3 DEF FinalizeEffect, StoreNext
  <1> QED BY <1>1, <1>2, <1>3, <1>4, StepCases

LEMMA StoreInvKept ==
    ASSUME IInv, [Next]_vars
    PROVE  StoreInv'
  BY StepIsStoreStep, StoreInvStep DEF IInv

-----------------------------------------------------------------------------
(* The initial states.                                                     *)

LEMMA IInvInit == Init => IInv
  <1> SUFFICES ASSUME Init PROVE IInv
    OBVIOUS
  <1>1. StoreInv
    BY StoreInvInit DEF Init
  <1>2. TypeOK
    BY <1>1 DEF Init, TypeOK, StoreInv, Screens, Stages, NoHash, Hash, Phases,
                NoResponse, Error, Response
  <1>3. \A s \in Sessions : OwnKey(s)
    BY DEF Init, StoreInit, OwnKey, NoHash
  <1>4. \A b \in Bobs : TabInv(b)
    BY DEF Init, TabInv
  <1>5. \A r \in Requests : SentInv(r) /\ ScoringInv(r) /\ ResponseInv(r)
    BY DEF Init, SentInv, ScoringInv, ResponseInv, NoResponse, Error
  <1>6. OneAnswerDecides /\ DecisionIsEarned
    BY DEF Init, StoreInit, OneAnswerDecides, DecisionIsEarned, NoResponse, Error
  <1> QED BY <1>1, <1>2, <1>3, <1>4, <1>5, <1>6 DEF IInv

-----------------------------------------------------------------------------
(* One lemma per group of steps; StoreInv' is StoreInvKept each time.      *)

\* Steps of Alice and of time: hashes come and go, channels are untouched.
LEMMA IInvStoreStep ==
    ASSUME IInv, StoreInv', NEW s \in Sessions,
           (\E a \in Answers : CreateSession(s, a)) \/ DeleteSession(s) \/ ExpireSession(s)
    PROVE  IInv'
  <1>1. /\ UNCHANGED <<tabVars, requestVars, published>>
        /\ issued \subseteq issued'
    BY DEF CreateSession, DeleteSession, ExpireSession, Create, Delete, Expire
  <1>2. TypeOK'
    BY <1>1 DEF IInv, TypeOK, StoreInv, tabVars, requestVars
  <1>3. (\A t \in Sessions : OwnKey(t))'
    <2> TAKE t \in Sessions
    <2>1. hash'[t] = hash[t] \/ hash'[t] = NoHash \/ \E a \in Answers : hash'[t] = NewHash(t, a)
      <3> hash \in [Sessions -> Hash]
        BY DEF IInv, TypeOK, StoreTypeOK
      <3>1. ASSUME NEW a \in Answers, Create(s, a)
            PROVE  hash'[t] = hash[t] \/ hash'[t] = NewHash(t, a)
        BY <3>1 DEF Create
      <3>2. ASSUME Delete(s) \/ Expire(s)
            PROVE  hash'[t] = hash[t] \/ hash'[t] = NoHash
        BY <3>2 DEF Delete, Expire
      <3> QED BY <3>1, <3>2 DEF CreateSession, DeleteSession, ExpireSession
    <2>2. NoHash.phase = "ABSENT" /\ \A a : NewHash(t, a).alice_pubkey_jwk = t
      BY DEF NoHash, NewHash
    <2> QED BY <2>1, <2>2 DEF IInv, OwnKey
  <1>4. (\A b \in Bobs : TabInv(b))'
    BY <1>1 DEF IInv, TabInv, tabVars, requestVars
  <1>5. (\A r \in Requests : SentInv(r) /\ ScoringInv(r) /\ ResponseInv(r))'
    BY <1>1 DEF IInv, SentInv, ScoringInv, ResponseInv, SessionOf, Passed, tabVars, requestVars
  <1>6. OneAnswerDecides' /\ DecisionIsEarned'
    BY <1>1 DEF IInv, OneAnswerDecides, DecisionIsEarned, SessionOf, Passed, tabVars, requestVars
  <1> QED BY <1>2, <1>3, <1>4, <1>5, <1>6 DEF IInv

\* A tab opens its link: no POST is its own yet, so no POST changes session.
LEMMA IInvOpenLink ==
    ASSUME IInv, StoreInv', NEW b \in Bobs, NEW s \in Sessions, OpenLink(b, s)
    PROVE  IInv'
  <1>1. /\ link[b] = Null /\ s \in issued
        /\ link' = [link EXCEPT ![b] = s]
        /\ screen' = [screen EXCEPT ![b] = "step-loading"]
        /\ UNCHANGED <<storeVars, awaiting, alicePubkey, requestVars>>
    BY DEF OpenLink, IInv, TabInv
  <1>2. Null \notin Sessions
    BY NullAssumption
  <1>3. TypeOK'
    BY <1>1 DEF IInv, TypeOK, StoreInv, Screens, requestVars
  <1>4. (\A t \in Sessions : OwnKey(t))'
    BY <1>1 DEF IInv, OwnKey, storeVars
  <1>5. (\A c \in Bobs : TabInv(c))'
    BY <1>1, <1>2 DEF IInv, TabInv, TypeOK, storeVars, requestVars
  <1>6. \A r \in Requests : pc[r] # "unsent" => SessionOf(r)' = SessionOf(r)
    BY <1>1, <1>2 DEF IInv, SentInv, TypeOK, SessionOf, requestVars
  <1>7. \A r \in Requests : Passed(r)' = Passed(r)
    BY <1>1 DEF Passed, requestVars
  <1>8. (\A r \in Requests : SentInv(r) /\ ScoringInv(r) /\ ResponseInv(r))'
    <2> TAKE r \in Requests
    <2>1. (SentInv(r) /\ ScoringInv(r))'
      BY <1>1, <1>6 DEF IInv, SentInv, ScoringInv, SessionOf, requestVars, TypeOK
    <2>2. ResponseInv(r)'
      <3>1. CASE pc[r] = "answered"
        BY <1>1, <1>6, <1>7, <3>1 DEF IInv, ResponseInv, requestVars, storeVars, VerdictEvent
      <3>2. CASE pc[r] # "answered"
        BY <1>1, <3>2 DEF IInv, ResponseInv, requestVars, NoResponse, Error
      <3> QED BY <3>1, <3>2
    <2> QED BY <2>1, <2>2
  <1>9. OneAnswerDecides'
    BY <1>1, <1>6 DEF IInv, OneAnswerDecides, ResponseInv, requestVars, NoResponse, Error
  <1>10. DecisionIsEarned'
    BY <1>1, <1>6, <1>7 DEF IInv, DecisionIsEarned, requestVars, storeVars
  <1> QED BY <1>3, <1>4, <1>5, <1>8, <1>9, <1>10 DEF IInv

\* What does not depend on the screens survives when only screens change.
LEMMA HandlersUntouched ==
    ASSUME IInv, UNCHANGED <<storeVars, link, requestVars>>
    PROVE  /\ (\A s \in Sessions : OwnKey(s))'
           /\ (\A r \in Requests : SentInv(r) /\ ScoringInv(r) /\ ResponseInv(r))'
           /\ OneAnswerDecides' /\ DecisionIsEarned'
  <1>1. (\A s \in Sessions : OwnKey(s))'
    BY DEF IInv, OwnKey, storeVars
  <1>2. (\A r \in Requests : SentInv(r) /\ ScoringInv(r) /\ ResponseInv(r))'
    BY DEF IInv, SentInv, ScoringInv, ResponseInv, SessionOf, Passed, storeVars, requestVars
  <1>3. OneAnswerDecides' /\ DecisionIsEarned'
    BY DEF IInv, OneAnswerDecides, DecisionIsEarned, SessionOf, Passed, storeVars, requestVars
  <1> QED BY <1>1, <1>2, <1>3

LEMMA IInvFetch ==
    ASSUME IInv, StoreInv', NEW b \in Bobs, FetchSession(b) \/ FetchRefused(b)
    PROVE  IInv'
  <1>1. /\ screen[b] = "step-loading"
        /\ \E x \in {"step-bob-challenge", "step-expired"} : screen' = [screen EXCEPT ![b] = x]
        /\ UNCHANGED <<storeVars, link, awaiting, alicePubkey, requestVars>>
    BY DEF FetchSession, FetchRefused
  <1>2. TypeOK'
    BY <1>1 DEF IInv, TypeOK, StoreInv, Screens, requestVars
  <1>3. (\A c \in Bobs : TabInv(c))'
    BY <1>1 DEF IInv, TabInv, TypeOK, storeVars, requestVars
  <1> QED BY <1>1, <1>2, <1>3, HandlersUntouched DEF IInv

LEMMA IInvSubmit ==
    ASSUME IInv, StoreInv', NEW b \in Bobs, NEW r \in Requests, NEW a \in Answers,
           SubmitAnswer(b, r, a)
    PROVE  IInv'
  <1>1. /\ screen[b] = "step-bob-challenge" /\ pc[r] = "unsent"
        /\ screen' = [screen EXCEPT ![b] = "step-scoring"]
        /\ awaiting' = [awaiting EXCEPT ![b] = r]
        /\ pc' = [pc EXCEPT ![r] = "received"]
        /\ poster' = [poster EXCEPT ![r] = b]
        /\ answer' = [answer EXCEPT ![r] = a]
        /\ UNCHANGED <<storeVars, link, alicePubkey, snapshot, response>>
    BY DEF SubmitAnswer
  <1>2. TypeOK'
    BY <1>1 DEF IInv, TypeOK, StoreInv, Screens, Stages
  <1>3. (\A s \in Sessions : OwnKey(s))'
    BY <1>1 DEF IInv, OwnKey, storeVars
  <1>4. (\A c \in Bobs : TabInv(c))'
    BY <1>1 DEF IInv, TabInv, TypeOK, storeVars
  <1>5. link[b] \in Sessions /\ response[r] = NoResponse
    BY <1>1 DEF IInv, TabInv, ResponseInv, TypeOK, StoreTypeOK
  <1>6. \A q \in Requests \ {r} : /\ pc'[q] = pc[q] /\ poster'[q] = poster[q]
                                  /\ answer'[q] = answer[q]
                                  /\ SessionOf(q)' = SessionOf(q) /\ Passed(q)' = Passed(q)
    BY <1>1 DEF IInv, TypeOK, SessionOf, Passed
  <1>7. (\A q \in Requests : SentInv(q) /\ ScoringInv(q) /\ ResponseInv(q))'
    <2> TAKE q \in Requests
    <2>1. CASE q = r
      BY <1>1, <1>5, <2>1 DEF IInv, SentInv, ScoringInv, ResponseInv, TypeOK, NoResponse, Error
    <2>2. CASE q # r
      BY <1>1, <1>6, <2>2 DEF IInv, SentInv, ScoringInv, ResponseInv, storeVars, VerdictEvent
    <2> QED BY <2>1, <2>2
  <1>8. OneAnswerDecides'
    BY <1>1, <1>5, <1>6 DEF IInv, OneAnswerDecides, NoResponse, Error
  <1>9. DecisionIsEarned'
    BY <1>1, <1>6 DEF IInv, DecisionIsEarned, storeVars, VerdictEvent
  <1> QED BY <1>2, <1>3, <1>4, <1>7, <1>8, <1>9 DEF IInv

\* What a tab can make of its response: all of it, the status alone, or nothing.
Received(b) == {response[awaiting[b]], Error(response[awaiting[b]].status), NoResponse}

LEMMA ReceivedCases ==
    ASSUME NEW b \in Bobs, DeliverResponse(b) \/ ImportFails(b) \/ LoseBody(b)
    PROVE  \E resp \in Received(b) : TabReceives(b, resp)
  BY DEF DeliverResponse, ImportFails, LoseBody, Received

\* A key is imported only from a PASS that arrived whole.  It is the key of the
\* session the tab answered, and the tab is the one announced.
LEMMA ReceivedFacts ==
    ASSUME IInv, NEW b \in Bobs, NEW resp \in Received(b), TabReceives(b, resp)
    PROVE  /\ awaiting[b] \in Requests /\ poster[awaiting[b]] = b
           /\ screen[b] = "step-scoring" /\ alicePubkey[b] = Null
           /\ link[b] \in issued /\ link[b] \in Sessions
           /\ resp \in Response
           /\ resp.result = "PASS" =>
                 /\ resp.status = 200
                 /\ resp.alice_pubkey_jwk = link[b]
                 /\ published[link[b]] = <<Verified(b)>>
  <1> DEFINE r == awaiting[b]
  <1>1. r # Null /\ pc[r] = "answered"
    BY DEF TabReceives
  <1>2. r \in Requests /\ poster[r] = b /\ screen[b] = "step-scoring" /\ response[r] \in Response
    BY <1>1 DEF IInv, TabInv, TypeOK
  <1>3. /\ alicePubkey[b] = Null /\ SessionOf(r) = link[b]
        /\ link[b] \in issued /\ link[b] \in Sessions
    BY <1>1, <1>2 DEF IInv, TabInv, SentInv, SessionOf, TypeOK, StoreTypeOK
  <1>4. CASE resp = response[r]
    BY <1>2, <1>3, <1>4 DEF IInv, ResponseInv, VerdictEvent
  <1>5. CASE resp = Error(response[r].status)
    BY <1>2, <1>3, <1>5 DEF Error, Response
  <1>6. CASE resp = NoResponse
    BY <1>2, <1>3, <1>6 DEF NoResponse, Error, Response
  <1> QED BY <1>4, <1>5, <1>6 DEF Received

LEMMA IInvDeliver ==
    ASSUME IInv, StoreInv', NEW b \in Bobs, DeliverResponse(b) \/ ImportFails(b) \/ LoseBody(b)
    PROVE  IInv'
  <1> PICK resp \in Received(b) : TabReceives(b, resp)
    BY ReceivedCases
  <1>1. /\ screen' = [screen EXCEPT ![b] = ScreenAfter(resp)]
        /\ alicePubkey' = [alicePubkey EXCEPT ![b] =
                IF resp.result = "PASS" THEN resp.alice_pubkey_jwk ELSE @]
        /\ awaiting' = [awaiting EXCEPT ![b] = Null]
        /\ UNCHANGED <<storeVars, link, requestVars>>
    BY DEF TabReceives
  <1>2. /\ screen[b] = "step-scoring" /\ alicePubkey[b] = Null
        /\ link[b] \in issued /\ link[b] \in Sessions
        /\ resp \in Response
        /\ resp.result = "PASS" =>
              /\ resp.status = 200
              /\ resp.alice_pubkey_jwk = link[b]
              /\ published[link[b]] = <<Verified(b)>>
    BY ReceivedFacts
  <1>3. /\ ScreenAfter(resp) \in Screens \ {"none", "step-scoring"}
        /\ ScreenAfter(resp) = "step-bob-pass" <=> resp.result = "PASS"
    BY <1>2 DEF ScreenAfter, Response, Screens
  <1>4. Null \notin Sessions
    BY NullAssumption
  <1>5. TypeOK'
    BY <1>1, <1>2, <1>3 DEF IInv, TypeOK, StoreInv, requestVars, Response
  <1>6. (\A c \in Bobs : TabInv(c))'
    <2> TAKE c \in Bobs
    <2>1. CASE c = b
      BY <1>1, <1>2, <1>3, <1>4, <2>1 DEF IInv, TabInv, TypeOK, storeVars
    <2>2. CASE c # b
      BY <1>1, <2>2 DEF IInv, TabInv, TypeOK, storeVars, requestVars
    <2> QED BY <2>1, <2>2
  <1> QED BY <1>1, <1>5, <1>6, HandlersUntouched DEF IInv

\* The connection breaks: the tab gives up its POST, which may never arrive.
LEMMA IInvLose ==
    ASSUME IInv, StoreInv', NEW b \in Bobs, LoseConnection(b)
    PROVE  IInv'
  <1> DEFINE r == awaiting[b]
  <1>1. /\ r # Null
        /\ screen' = [screen EXCEPT ![b] = "step-bob-challenge"]
        /\ awaiting' = [awaiting EXCEPT ![b] = Null]
        /\ UNCHANGED pc \/ (pc[r] = "received" /\ pc' = [pc EXCEPT ![r] = "lost"])
        /\ UNCHANGED <<storeVars, link, alicePubkey, poster, answer, snapshot, response>>
    BY DEF LoseConnection
  <1>2. r \in Requests /\ poster[r] = b /\ screen[b] = "step-scoring" /\ pc[r] # "unsent"
    BY <1>1 DEF IInv, TabInv, TypeOK
  <1>3. link[b] # Null
    BY <1>2 DEF IInv, TabInv
  <1>4. TypeOK'
    BY <1>1, <1>2 DEF IInv, TypeOK, StoreInv, Screens, Stages
  <1>5. (\A s \in Sessions : OwnKey(s))'
    BY <1>1 DEF IInv, OwnKey, storeVars
  <1>6. \A q \in Requests : /\ pc'[q] = pc[q] \/ (pc[q] = "received" /\ pc'[q] = "lost")
                            /\ SessionOf(q)' = SessionOf(q) /\ Passed(q)' = Passed(q)
    BY <1>1, <1>2 DEF IInv, TypeOK, SessionOf, Passed
  <1>7. (\A c \in Bobs : TabInv(c))'
    <2> TAKE c \in Bobs
    <2>1. CASE c = b
      BY <1>1, <1>2, <1>3, <2>1 DEF IInv, TabInv, TypeOK, storeVars
    <2>2. CASE c # b
      BY <1>1, <1>6, <2>2 DEF IInv, TabInv, TypeOK, storeVars
    <2> QED BY <2>1, <2>2
  <1>8. (\A q \in Requests : SentInv(q) /\ ScoringInv(q) /\ ResponseInv(q))'
    BY <1>1, <1>6 DEF IInv, SentInv, ScoringInv, ResponseInv, storeVars, VerdictEvent
  <1>9. OneAnswerDecides' /\ DecisionIsEarned'
    BY <1>1, <1>6 DEF IInv, OneAnswerDecides, DecisionIsEarned, storeVars, VerdictEvent
  <1> QED BY <1>4, <1>5, <1>7, <1>8, <1>9 DEF IInv

ErrorCodes == {400, 404, 409, 429, 500, 503}

\* An error response gives nothing away, and judges nothing.
LEMMA IInvError ==
    ASSUME IInv, StoreInv', NEW r \in Requests, NEW code \in ErrorCodes,
           pc[r] \in {"received", "scoring"}, Respond(r, Error(code)),
           UNCHANGED <<storeVars, tabVars, snapshot>>
    PROVE  IInv'
  <1>1. /\ pc' = [pc EXCEPT ![r] = "answered"]
        /\ response' = [response EXCEPT ![r] = Error(code)]
        /\ UNCHANGED <<poster, answer>>
    BY DEF Respond
  <1>2. /\ Error(code) \in Response /\ Error(code).status # 200
        /\ Error(code).result # "PASS" /\ Error(code).alice_pubkey_jwk = Null
    BY DEF Error, Response, ErrorCodes
  <1>3. \A q \in Requests : SessionOf(q)' = SessionOf(q) /\ Passed(q)' = Passed(q)
    BY <1>1 DEF SessionOf, Passed, tabVars
  <1>4. TypeOK'
    BY <1>1, <1>2 DEF IInv, TypeOK, StoreInv, Stages, tabVars
  <1>5. (\A s \in Sessions : OwnKey(s))'
    BY DEF IInv, OwnKey, storeVars
  <1>6. (\A c \in Bobs : TabInv(c))'
    BY <1>1 DEF IInv, TabInv, TypeOK, storeVars, tabVars
  <1>7. (\A q \in Requests : SentInv(q) /\ ScoringInv(q) /\ ResponseInv(q))'
    <2> TAKE q \in Requests
    <2>1. CASE q = r
      BY <1>1, <1>2, <1>3, <2>1
         DEF IInv, TypeOK, SentInv, ScoringInv, ResponseInv, tabVars
    <2>2. CASE q # r
      BY <1>1, <1>3, <2>2
         DEF IInv, TypeOK, SentInv, ScoringInv, ResponseInv, tabVars, storeVars, VerdictEvent
    <2> QED BY <2>1, <2>2
  <1>8. OneAnswerDecides'
    BY <1>1, <1>2, <1>3 DEF IInv, TypeOK, OneAnswerDecides
  <1>9. DecisionIsEarned'
    <2> SUFFICES ASSUME NEW s \in Sessions, published[s] # <<>>
                 PROVE  \E q \in Requests :
                           /\ pc'[q] = "answered"
                           /\ SessionOf(q) = s
                           /\ published[s] = <<VerdictEvent(poster[q], Passed(q))>>
      BY <1>1, <1>3 DEF DecisionIsEarned, storeVars, VerdictEvent
    <2>1. PICK q \in Requests : /\ pc[q] = "answered"
                                /\ SessionOf(q) = s
                                /\ published[s] = <<VerdictEvent(poster[q], Passed(q))>>
      BY DEF IInv, DecisionIsEarned
    <2>2. pc'[q] = "answered"
      BY <1>1, <2>1 DEF IInv, TypeOK
    <2> QED BY <2>1, <2>2
  <1> QED BY <1>4, <1>5, <1>6, <1>7, <1>8, <1>9 DEF IInv

LEMMA IInvLoad ==
    ASSUME IInv, StoreInv', NEW r \in Requests, LoadSession(r)
    PROVE  IInv'
  <1> DEFINE session == hash[SessionOf(r)]
  <1>1. CASE session.phase # "WAITING_FOR_BOB"
    BY <1>1, IInvError DEF LoadSession, ErrorCodes
  <1>2. CASE session.phase = "WAITING_FOR_BOB"
    <2>1. /\ pc[r] = "received"
          /\ pc' = [pc EXCEPT ![r] = "scoring"]
          /\ snapshot' = [snapshot EXCEPT ![r] = session]
          /\ UNCHANGED <<poster, answer, response, storeVars, tabVars>>
      BY <1>2 DEF LoadSession, TerminalPhases
    <2>2. SessionOf(r) \in Sessions
      BY <2>1 DEF IInv, SentInv, SessionOf
    <2>3. session \in Hash /\ session.alice_pubkey_jwk = SessionOf(r)
      BY <1>2, <2>2 DEF IInv, TypeOK, StoreTypeOK, OwnKey
    <2>4. response[r] = NoResponse
      BY <2>1 DEF IInv, ResponseInv
    <2>5. \A q \in Requests :
              /\ SessionOf(q)' = SessionOf(q)
              /\ q # r => pc'[q] = pc[q] /\ snapshot'[q] = snapshot[q]
                           /\ Passed(q)' = Passed(q)
      BY <2>1 DEF SessionOf, Passed, IInv, TypeOK, tabVars
    <2> HIDE DEF session
    <2>6. TypeOK'
      BY <2>1, <2>3 DEF IInv, TypeOK, StoreInv, Stages, tabVars
    <2>7. (\A s \in Sessions : OwnKey(s))'
      BY <2>1 DEF IInv, OwnKey, storeVars
    <2>8. (\A c \in Bobs : TabInv(c))'
      BY <2>1 DEF IInv, TabInv, TypeOK, storeVars, tabVars
    <2>9. (\A q \in Requests : SentInv(q) /\ ScoringInv(q) /\ ResponseInv(q))'
      <3> TAKE q \in Requests
      <3>1. CASE q = r
        BY <2>1, <2>3, <2>4, <2>5, <3>1
           DEF IInv, TypeOK, SentInv, ScoringInv, ResponseInv, tabVars, NoResponse, Error
      <3>2. CASE q # r
        BY <2>1, <2>5, <3>2
           DEF IInv, SentInv, ScoringInv, ResponseInv, tabVars, storeVars, VerdictEvent
      <3> QED BY <3>1, <3>2
    <2>10. OneAnswerDecides'
      BY <2>1, <2>5 DEF IInv, OneAnswerDecides
    <2>11. DecisionIsEarned'
      BY <2>1, <2>5 DEF IInv, DecisionIsEarned, storeVars, VerdictEvent
    <2> QED BY <2>6, <2>7, <2>8, <2>9, <2>10, <2>11 DEF IInv
  <1> QED BY <1>1, <1>2

LEMMA IInvUnanswered ==
    ASSUME IInv, StoreInv', NEW r \in Requests,
           Refuse(r) \/ LoadSession(r) \/ EmbedUnavailable(r) \/ StoreError(r)
    PROVE  IInv'
  <1>1. CASE Refuse(r)
    BY <1>1, IInvError DEF Refuse, ErrorCodes
  <1>2. CASE LoadSession(r)
    BY <1>2, IInvLoad
  <1>3. CASE EmbedUnavailable(r) \/ StoreError(r)
    BY <1>3, IInvError DEF EmbedUnavailable, StoreError, ErrorCodes
  <1> QED BY <1>1, <1>2, <1>3

\* The finalize script found the session waiting: this handler decides.
LEMMA Decides ==
    ASSUME IInv, NEW r \in Requests, pc[r] = "scoring", FinalizeEffect(r),
           FinalizeOutcome(SessionOf(r)) = "done"
    PROVE  /\ SessionOf(r) \in Sessions
           /\ hash[SessionOf(r)].phase = "WAITING_FOR_BOB"
           /\ published[SessionOf(r)] = <<>>
           /\ published' = [published EXCEPT ![SessionOf(r)] =
                               <<VerdictEvent(poster[r], Passed(r))>>]
           /\ hash' = [hash EXCEPT ![SessionOf(r)] =
                               HSet(@, VerdictUpdate(poster[r], Passed(r)))]
           /\ hash'[SessionOf(r)].phase \in TerminalPhases
           /\ hash'[SessionOf(r)].alice_pubkey_jwk = hash[SessionOf(r)].alice_pubkey_jwk
           /\ issued' = issued
  <1>1. SessionOf(r) \in Sessions /\ poster[r] \in Bobs /\ Passed(r) \in BOOLEAN
    BY DEF IInv, SentInv, SessionOf, Passed
  <1>2. hash[SessionOf(r)] \in Hash /\ hash[SessionOf(r)].phase \in Phases
    BY <1>1 DEF IInv, TypeOK, StoreTypeOK, Hash
  <1>3. hash[SessionOf(r)].phase = "WAITING_FOR_BOB"
    BY <1>2 DEF FinalizeOutcome, Phases, TerminalPhases
  <1>4. published[SessionOf(r)] = <<>>
    BY <1>1, <1>3 DEF IInv, StoreInv, InStep
  <1>5. VerdictEvent(poster[r], Passed(r)) \in Event
    BY <1>1, VerdictTypes
  <1>6. /\ published' = [published EXCEPT ![SessionOf(r)] =
                               <<VerdictEvent(poster[r], Passed(r))>>]
        /\ hash' = [hash EXCEPT ![SessionOf(r)] =
                               HSet(@, VerdictUpdate(poster[r], Passed(r)))]
        /\ issued' = issued
    BY <1>1, <1>4, <1>5 DEF FinalizeEffect, Finalize
  <1>7. hash'[SessionOf(r)] = HSet(hash[SessionOf(r)], VerdictUpdate(poster[r], Passed(r)))
    BY <1>1, <1>6 DEF IInv, TypeOK, StoreTypeOK
  <1>8. /\ hash'[SessionOf(r)].phase \in TerminalPhases
        /\ hash'[SessionOf(r)].alice_pubkey_jwk = hash[SessionOf(r)].alice_pubkey_jwk
    BY <1>1, <1>2, <1>3, <1>7, FinalizedHash
  <1> QED BY <1>1, <1>3, <1>4, <1>6, <1>8

LEMMA IInvJudge ==
    ASSUME IInv, StoreInv', NEW r \in Requests, Judge(r)
    PROVE  IInv'
  <1> DEFINE s == SessionOf(r)
             e == VerdictEvent(poster[r], Passed(r))
  <1>1. /\ pc[r] = "scoring" /\ FinalizeEffect(r)
        /\ Respond(r, FinalResponse(r)) \/ Respond(r, Error(503))
        /\ UNCHANGED <<tabVars, snapshot>>
    BY DEF Judge, FinalizeAnswer, FinalizeReplyLost
  <1>2. CASE FinalizeOutcome(s) # "done"
    <2>1. UNCHANGED storeVars
      BY <1>1, <1>2 DEF FinalizeEffect, Finalize
    <2>2. FinalizeOutcome(s) \in {"expired", "completed"}
      <3>1. s \in Sessions
        BY <1>1 DEF IInv, SentInv, SessionOf
      <3>2. hash[s].phase \in Phases
        BY <3>1 DEF IInv, TypeOK, StoreTypeOK, Hash
      <3> QED BY <1>2, <3>2 DEF FinalizeOutcome, Phases, TerminalPhases
    <2>3. \E code \in ErrorCodes : Respond(r, Error(code))
      BY <1>1, <2>2 DEF FinalResponse, ErrorCodes
    <2> QED BY <1>1, <2>1, <2>3, IInvError
  <1>3. CASE FinalizeOutcome(s) = "done"
    <2>1. PICK resp : /\ pc' = [pc EXCEPT ![r] = "answered"]
                      /\ response' = [response EXCEPT ![r] = resp]
                      /\ UNCHANGED <<poster, answer>>
                      /\ resp \in {FinalResponse(r), Error(503)}
      BY <1>1 DEF Respond
    <2>2. resp = Error(503) \/ (Passed(r) /\ resp = Pass(s)) \/ (~Passed(r) /\ resp = Fail)
      BY <1>1, <1>3, <2>1 DEF FinalResponse, IInv, ScoringInv
    <2>3. /\ s \in Sessions /\ poster[r] \in Bobs /\ published[s] = <<>>
          /\ published' = [published EXCEPT ![s] = <<e>>]
          /\ hash' = [hash EXCEPT ![s] = HSet(@, VerdictUpdate(poster[r], Passed(r)))]
          /\ hash[s].phase = "WAITING_FOR_BOB"
          /\ hash'[s].alice_pubkey_jwk = hash[s].alice_pubkey_jwk
          /\ issued' = issued
      BY <1>1, <1>3, Decides DEF IInv, SentInv
    <2>4. \A q \in Requests : SessionOf(q)' = SessionOf(q) /\ Passed(q)' = Passed(q)
      BY <1>1, <2>1 DEF SessionOf, Passed, tabVars
    <2>5. resp \in Response
      BY <2>2, <2>3 DEF Pass, Fail, Error, Response
    <2>6. published'[s] = <<e>> /\ \A t \in Sessions \ {s} : published'[t] = published[t]
      BY <2>3 DEF IInv, TypeOK, StoreTypeOK
    <2> HIDE DEF s, e
    <2>7. TypeOK'
      BY <1>1, <2>1, <2>5 DEF IInv, TypeOK, StoreInv, Stages, tabVars
    <2>8. (\A t \in Sessions : OwnKey(t))'
      BY <2>3 DEF IInv, OwnKey, TypeOK, StoreTypeOK
    <2>9. (\A c \in Bobs : TabInv(c))'
      <3>1. \A c \in Bobs : alicePubkey[c] # Null => link[c] # s /\ link[c] \in Sessions
        <4> TAKE c \in Bobs
        <4>1. alicePubkey[c] # Null => alicePubkey[c] = link[c] /\ published[link[c]] # <<>>
          BY DEF IInv, TabInv
        <4>2. alicePubkey[c] \in Sessions \cup {Null}
          BY DEF IInv, TypeOK
        <4> QED BY <2>3, <4>1, <4>2
      <3>2. \A q \in Requests : pc'[q] # pc[q] => q = r /\ pc'[q] = "answered"
        BY <2>1 DEF IInv, TypeOK
      <3>3. \A c \in Bobs : awaiting[c] \in Requests \cup {Null}
        BY DEF IInv, TypeOK
      <3> TAKE c \in Bobs
      <3>4. TabInv(c) /\ UNCHANGED <<screen, link, awaiting, alicePubkey, poster, issued>>
        BY <1>1, <2>1, <2>3 DEF IInv, tabVars
      <3>5. alicePubkey[c] # Null => published'[link[c]] = published[link[c]]
        BY <2>6, <3>1
      <3>6. awaiting[c] # Null => pc'[awaiting[c]] # "unsent"
        BY <3>2, <3>3, <3>4 DEF TabInv
      <3> QED BY <3>4, <3>5, <3>6 DEF TabInv
    <2>10. (\A q \in Requests : SentInv(q) /\ ScoringInv(q) /\ ResponseInv(q))'
      <3> TAKE q \in Requests
      <3>1. CASE q = r
        <4>1. response'[r] = resp /\ pc'[r] = "answered"
          BY <2>1 DEF IInv, TypeOK
        <4>2. (SentInv(r) /\ ScoringInv(r))'
          BY <1>1, <2>1, <4>1 DEF IInv, SentInv, ScoringInv, tabVars
        <4>3. ResponseInv(r)'
          <5>1. published'[s] = <<VerdictEvent(poster[r], Passed(r))>> /\ s = SessionOf(r)
            BY <2>6 DEF e, s
          <5>2. resp.status = 200 \/ resp.result # "PASS"
            BY <2>2 DEF Pass, Fail, Error
          <5>3. resp.result = "PASS" => Passed(r) /\ resp.alice_pubkey_jwk = s
            BY <2>2 DEF Pass, Fail, Error
          <5>4. resp.result # "PASS" => resp.alice_pubkey_jwk = Null
            BY <2>2 DEF Pass, Fail, Error
          <5> QED BY <2>1, <2>4, <4>1, <5>1, <5>2, <5>3, <5>4 DEF ResponseInv, VerdictEvent
        <4> QED BY <3>1, <4>2, <4>3
      <3>2. CASE q # r
        <4>1. response'[q] = response[q] /\ pc'[q] = pc[q]
          BY <2>1, <3>2 DEF IInv, TypeOK
        <4>2. (SentInv(q) /\ ScoringInv(q))'
          BY <1>1, <2>1, <4>1 DEF IInv, SentInv, ScoringInv, SessionOf, tabVars
        <4>3. ResponseInv(q)'
          <5>1. CASE response[q].status = 200
            <6>1. SessionOf(q) # s /\ SessionOf(q) \in Sessions
              BY <2>3, <5>1 DEF IInv, ResponseInv, SentInv, SessionOf, NoResponse, Error
            <6> QED BY <2>1, <2>4, <2>6, <4>1, <6>1 DEF IInv, ResponseInv, VerdictEvent
          <5>2. CASE response[q].status # 200
            BY <2>4, <4>1, <5>2 DEF IInv, ResponseInv
          <5> QED BY <5>1, <5>2
        <4> QED BY <4>2, <4>3
      <3> QED BY <3>1, <3>2
    <2>11. OneAnswerDecides'
      <3>1. \A q \in Requests \ {r} : response'[q] = response[q]
        BY <2>1 DEF IInv, TypeOK
      <3>2. \A q \in Requests : response[q].status = 200 => SessionOf(q) # s
        BY <2>3 DEF IInv, ResponseInv
      <3> QED BY <2>4, <3>1, <3>2 DEF IInv, OneAnswerDecides, s
    <2>12. DecisionIsEarned'
      <3> SUFFICES ASSUME NEW t \in Sessions, published'[t] # <<>>
                   PROVE  \E q \in Requests :
                             /\ pc'[q] = "answered"
                             /\ SessionOf(q) = t
                             /\ published'[t] = <<VerdictEvent(poster[q], Passed(q))>>
        BY <2>1, <2>4 DEF DecisionIsEarned, VerdictEvent
      <3>1. CASE t = s
        <4>1. pc'[r] = "answered"
          BY <2>1 DEF IInv, TypeOK
        <4> QED BY <2>6, <3>1, <4>1 DEF s, e
      <3>2. CASE t # s
        <4>1. PICK q \in Requests : /\ pc[q] = "answered"
                                    /\ SessionOf(q) = t
                                    /\ published[t] = <<VerdictEvent(poster[q], Passed(q))>>
          BY <2>6, <3>2 DEF IInv, DecisionIsEarned
        <4>2. pc'[q] = "answered"
          BY <2>1, <4>1 DEF IInv, TypeOK
        <4> QED BY <2>6, <3>2, <4>1, <4>2
      <3> QED BY <3>1, <3>2
    <2> QED BY <2>7, <2>8, <2>9, <2>10, <2>11, <2>12 DEF IInv
  <1> QED BY <1>2, <1>3

LEMMA IInvStep ==
    ASSUME IInv, [Next]_vars
    PROVE  IInv'
  <1>0. StoreInv'
    BY StoreInvKept
  <1>1. CASE UNCHANGED vars
    <2>1. UNCHANGED <<storeVars, link, requestVars>> /\ UNCHANGED <<screen, awaiting, alicePubkey>>
      BY <1>1 DEF vars, tabVars
    <2>2. TypeOK'
      BY <1>0, <2>1 DEF IInv, TypeOK, StoreInv, requestVars
    <2>3. (\A b \in Bobs : TabInv(b))'
      BY <2>1 DEF IInv, TabInv, storeVars, requestVars
    <2> QED BY <1>0, <2>1, <2>2, <2>3, HandlersUntouched DEF IInv
  <1>2. CASE \E s \in Sessions :
                (\E a \in Answers : CreateSession(s, a)) \/ DeleteSession(s) \/ ExpireSession(s)
    BY <1>0, <1>2, IInvStoreStep
  <1>3. CASE QuietStep
    BY <1>0, <1>3, IInvOpenLink, IInvFetch, IInvSubmit, IInvDeliver, IInvLose, IInvUnanswered
       DEF QuietStep
  <1>4. CASE \E r \in Requests : Judge(r)
    BY <1>0, <1>4, IInvJudge
  <1> QED BY <1>1, <1>2, <1>3, <1>4, StepCases

-----------------------------------------------------------------------------
\* The inductive invariant holds in every reachable state.
THEOREM Invariance == Spec => []IInv
  <1>1. IInv /\ [Next]_vars => IInv'
    BY IInvStep
  <1> QED BY <1>1, IInvInit, PTL DEF Spec

\* Every variable keeps its type.
THEOREM TypeCorrect == Spec => []TypeOK
  <1>1. IInv => TypeOK
    BY DEF IInv
  <1> QED BY <1>1, Invariance, PTL

\* Of all the answers posted to one session at most one is judged.
THEOREM OneTimeUse == Spec => []OneAnswerDecides
  <1>1. IInv => OneAnswerDecides
    BY DEF IInv
  <1> QED BY <1>1, Invariance, PTL

\* Alice's key is released only to the tab announced to her as verified.
THEOREM KeyReleasedToWinnerOnly == Spec => []KeyOnlyForTheWinner
  <1>1. IInv => KeyOnlyForTheWinner
    <2> SUFFICES ASSUME IInv, NEW r \in Requests, response[r].alice_pubkey_jwk # Null
                 PROVE  /\ Passed(r)
                        /\ published[SessionOf(r)] = <<Verified(poster[r])>>
                        /\ response[r].alice_pubkey_jwk = SessionOf(r)
      BY DEF KeyOnlyForTheWinner
    <2> QED BY DEF IInv, ResponseInv, VerdictEvent
  <1> QED BY <1>1, Invariance, PTL

\* An announcement is the judgement of an answer that was posted.
THEOREM AnnouncementsAreEarned == Spec => []DecisionIsEarned
  <1>1. IInv => DecisionIsEarned
    BY DEF IInv
  <1> QED BY <1>1, Invariance, PTL

\* Both ends of an open channel derive the same secret.
THEOREM SameSecret == Spec => []ChannelEndsAgree
  <1>1. IInv => ChannelEndsAgree
    BY DEF IInv, TabInv, ChannelEndsAgree
  <1> QED BY <1>1, Invariance, PTL

\* The protocol uses the store only as its specification says, so the theorems
\* about the store hold here too.
THEOREM UsesTheStore == Spec => StoreSpec
  <1>1. Init => StoreInit
    BY DEF Init
  <1>2. IInv /\ [Next]_vars => [StoreNext]_storeVars
    BY StepIsStoreStep
  <1> QED BY <1>1, <1>2, Invariance, PTL DEF Spec, StoreSpec

-----------------------------------------------------------------------------
(* What the screens tell Bob.  The errors that end a visit are settled:    *)
(* the session they were given for is not open, and does not reopen before *)
(* they reach the tab.                                                     *)

Settled(r) ==
    /\ response[r].status \in {404, 409} => hash[SessionOf(r)].phase # "WAITING_FOR_BOB"
    /\ response[r].status = 200 /\ response[r].result # "PASS" => ~Passed(r)

ScreenInv ==
    /\ \A r \in Requests : Settled(r)
    /\ "fetch_refused" \notin Faults => ExpiredScreenIsTruthful
    /\ "body_lost" \notin Faults => FailScreenIsTruthful

\* Hashes and channels move on under the screens without making them lie.
LEMMA ScreensStand ==
    ASSUME IInv, [Next]_vars, ScreenInv, UNCHANGED tabVars
    PROVE  /\ "fetch_refused" \notin Faults => ExpiredScreenIsTruthful'
           /\ "body_lost" \notin Faults => FailScreenIsTruthful'
  <1>1. StoreInv /\ [StoreNext]_storeVars
    BY StepIsStoreStep DEF IInv
  <1>2. \A s \in issued : hash[s].phase # "WAITING_FOR_BOB" => hash'[s].phase # "WAITING_FOR_BOB"
    BY <1>1, ClosedStays
  <1>3. \A s \in Sessions : published[s] # <<>> => published'[s] = published[s]
    BY <1>1, ResultStays
  <1>4. "fetch_refused" \notin Faults => ExpiredScreenIsTruthful'
    <2>1. \A b \in Bobs : screen[b] = "step-expired" => link[b] \in issued
      BY DEF IInv, TabInv
    <2> QED BY <1>2, <2>1 DEF ScreenInv, ExpiredScreenIsTruthful, tabVars
  <1>5. "body_lost" \notin Faults => FailScreenIsTruthful'
    <2>1. \A b \in Bobs : screen[b] = "step-bob-fail" => link[b] \in Sessions
      BY DEF IInv, TabInv, TypeOK
    <2>2. <<Failed>> # <<>>
      OBVIOUS
    <2> QED BY <1>3, <2>1, <2>2 DEF ScreenInv, FailScreenIsTruthful, tabVars
  <1> QED BY <1>4, <1>5

\* An answered POST stays settled while its body and response stay.
LEMMA SettledStays ==
    ASSUME IInv, [Next]_vars, ScreenInv, UNCHANGED tabVars, NEW r \in Requests,
           response'[r] = response[r], poster'[r] = poster[r],
           response[r].status # 0 => Passed(r)' = Passed(r)
    PROVE  Settled(r)'
  <1>1. StoreInv /\ [StoreNext]_storeVars
    BY StepIsStoreStep DEF IInv
  <1>2. SessionOf(r)' = SessionOf(r)
    BY DEF SessionOf, tabVars
  <1>3. response[r].status # 0 => SessionOf(r) \in issued
    <2>1. response[r].status # 0 => pc[r] = "answered"
      BY DEF IInv, ResponseInv, NoResponse, Error
    <2> QED BY <2>1, NullAssumption DEF IInv, SentInv, TabInv, SessionOf
  <1>4. response[r].status # 0 /\ hash[SessionOf(r)].phase # "WAITING_FOR_BOB"
            => hash'[SessionOf(r)].phase # "WAITING_FOR_BOB"
    BY <1>1, <1>3, ClosedStays
  <1> QED BY <1>2, <1>4 DEF ScreenInv, Settled

LEMMA ScreenInvStore ==
    ASSUME IInv, [Next]_vars, ScreenInv, UNCHANGED <<tabVars, requestVars>>
    PROVE  ScreenInv'
  <1>1. (\A r \in Requests : Settled(r))'
    BY SettledStays DEF requestVars, Passed
  <1> QED BY <1>1, ScreensStand DEF ScreenInv

\* Every error a handler answers with is what it says: 404 and 409 for a session
\* that is gone or completed, FAIL for an answer that did not pass.
LEMMA ScreenInvHandle ==
    ASSUME IInv, [Next]_vars, ScreenInv, NEW r \in Requests, Handle(r)
    PROVE  ScreenInv'
  <1>1. UNCHANGED <<tabVars, poster, answer>> /\ pc[r] \in {"received", "scoring"}
    BY DEF Handle, Refuse, LoadSession, EmbedUnavailable, StoreError, FinalizeAnswer,
           FinalizeReplyLost, Respond
  <1>2. \A q \in Requests \ {r} : response'[q] = response[q] /\ Passed(q)' = Passed(q)
    BY <1>1 DEF Handle, Refuse, LoadSession, EmbedUnavailable, StoreError, FinalizeAnswer,
                FinalizeReplyLost, Respond, Passed, IInv, TypeOK
  <1>3. response[r] = NoResponse /\ SessionOf(r)' = SessionOf(r) /\ SessionOf(r) \in Sessions
    BY <1>1 DEF IInv, ResponseInv, SentInv, SessionOf, tabVars
  <1>4. hash[SessionOf(r)].phase \in Phases
    BY <1>3 DEF IInv, TypeOK, StoreTypeOK, Hash
  <1>5. Settled(r)'
    <2>1. CASE Refuse(r) \/ EmbedUnavailable(r) \/ StoreError(r)
      <3>1. \E code \in {400, 429, 500, 503} : response' = [response EXCEPT ![r] = Error(code)]
        BY <2>1 DEF Refuse, EmbedUnavailable, StoreError, Respond
      <3>2. response'[r].status \in {400, 429, 500, 503}
        BY <3>1 DEF IInv, TypeOK, Error
      <3> QED BY <3>2 DEF Settled
    <2>2. CASE LoadSession(r)
      <3>1. /\ hash' = hash
            /\ \/ response' = response
               \/ \E code \in {404, 409} : response' = [response EXCEPT ![r] = Error(code)]
            /\ response' # response => hash[SessionOf(r)].phase # "WAITING_FOR_BOB"
        BY <2>2 DEF LoadSession, Respond, TerminalPhases, storeVars
      <3>2. CASE response' = response
        BY <1>3, <3>2 DEF Settled, NoResponse, Error
      <3>3. CASE response' # response
        <4>1. response'[r].status \in {404, 409}
          BY <3>1, <3>3 DEF IInv, TypeOK, Error
        <4> QED BY <1>3, <3>1, <3>3, <4>1 DEF Settled
      <3> QED BY <3>2, <3>3
    <2>3. CASE FinalizeAnswer(r)
      <3>1. FinalizeEffect(r) /\ response'[r] = FinalResponse(r) /\ Passed(r)' = Passed(r)
        BY <2>3 DEF FinalizeAnswer, Respond, Passed, IInv, TypeOK
      <3>2. CASE FinalizeOutcome(SessionOf(r)) = "done"
        <4>1. /\ response'[r].status = 200
              /\ response'[r].result # "PASS" => ~Passed(r)
          BY <3>1, <3>2 DEF FinalResponse, Pass, Fail
        <4> QED BY <3>1, <4>1 DEF Settled
      <3>3. CASE FinalizeOutcome(SessionOf(r)) # "done"
        <4>1. /\ FinalizeOutcome(SessionOf(r)) \in {"expired", "completed"}
              /\ hash[SessionOf(r)].phase # "WAITING_FOR_BOB"
          BY <1>4, <3>3 DEF FinalizeOutcome, Phases, TerminalPhases
        <4>2. response'[r].status \in {404, 409}
          BY <3>1, <4>1 DEF FinalResponse, Error
        <4>3. hash' = hash
          BY <3>1, <3>3 DEF FinalizeEffect, Finalize, storeVars
        <4> QED BY <1>3, <4>1, <4>2, <4>3 DEF Settled
      <3> QED BY <3>2, <3>3
    <2>4. CASE FinalizeReplyLost(r)
      <3>1. response'[r].status = 503
        BY <2>4 DEF FinalizeReplyLost, Respond, Error, IInv, TypeOK
      <3> QED BY <3>1 DEF Settled
    <2> QED BY <2>1, <2>2, <2>3, <2>4 DEF Handle
  <1>6. \A q \in Requests \ {r} : Settled(q)'
    BY <1>1, <1>2, SettledStays
  <1>7. (\A q \in Requests : Settled(q))'
    BY <1>5, <1>6
  <1> QED BY <1>1, <1>7, ScreensStand DEF ScreenInv

\* Steps of the tabs that no response leads to.
LEMMA ScreenInvTab ==
    ASSUME IInv, ScreenInv, NEW b \in Bobs,
           \/ \E s \in Sessions : OpenLink(b, s)
           \/ FetchSession(b)
           \/ FetchRefused(b)
           \/ \E r \in Requests, a \in Answers : SubmitAnswer(b, r, a)
           \/ LoseConnection(b)
    PROVE  ScreenInv'
  <1>1. UNCHANGED <<storeVars, response>> /\ link'[b] \in Sessions \cup {Null}
    BY DEF OpenLink, FetchSession, FetchRefused, SubmitAnswer, LoseConnection, requestVars,
           IInv, TypeOK
  <1>2. /\ \A c \in Bobs \ {b} : screen'[c] = screen[c] /\ link'[c] = link[c]
        /\ screen'[b] \in Screens \ {"step-bob-fail"}
        /\ screen'[b] = "step-expired" /\ "fetch_refused" \notin Faults =>
              hash[link'[b]].phase # "WAITING_FOR_BOB"
    BY DEF OpenLink, FetchSession, FetchRefused, SubmitAnswer, LoseConnection, IInv, TypeOK,
           Screens
  <1>3. \A r \in Requests : response[r].status # 0 =>
            SessionOf(r)' = SessionOf(r) /\ Passed(r)' = Passed(r)
    <2> SUFFICES ASSUME NEW r \in Requests, response[r].status # 0
                 PROVE  SessionOf(r)' = SessionOf(r) /\ Passed(r)' = Passed(r)
      OBVIOUS
    <2>1. pc[r] = "answered" /\ poster[r] \in Bobs /\ link[poster[r]] \in Sessions
      BY DEF IInv, ResponseInv, SentInv, NoResponse, Error
    <2>2. poster'[r] = poster[r] /\ answer'[r] = answer[r] /\ snapshot'[r] = snapshot[r]
      BY <2>1 DEF OpenLink, FetchSession, FetchRefused, SubmitAnswer, LoseConnection,
                  requestVars, IInv, TypeOK
    <2>3. link'[poster[r]] = link[poster[r]]
      BY <2>1, NullAssumption
         DEF OpenLink, FetchSession, FetchRefused, SubmitAnswer, LoseConnection, IInv, TypeOK,
             TabInv
    <2> QED BY <2>2, <2>3 DEF SessionOf, Passed
  <1>4. (\A r \in Requests : Settled(r))'
    BY <1>1, <1>3 DEF ScreenInv, Settled, storeVars
  <1>5. "fetch_refused" \notin Faults => ExpiredScreenIsTruthful'
    BY <1>1, <1>2 DEF ScreenInv, ExpiredScreenIsTruthful, storeVars
  <1>6. "body_lost" \notin Faults => FailScreenIsTruthful'
    BY <1>1, <1>2 DEF ScreenInv, FailScreenIsTruthful, storeVars
  <1> QED BY <1>4, <1>5, <1>6 DEF ScreenInv

\* A response is believed: a settled error ends the visit, and a whole 200 that
\* does not pass comes from the handler that announced the failure.
LEMMA ScreenInvDeliver ==
    ASSUME IInv, ScreenInv, NEW b \in Bobs, DeliverResponse(b) \/ ImportFails(b) \/ LoseBody(b)
    PROVE  ScreenInv'
  <1> DEFINE r == awaiting[b]
  <1> PICK resp \in Received(b) :
             /\ TabReceives(b, resp)
             /\ "body_lost" \notin Faults => resp \in {response[r], NoResponse}
    BY DEF DeliverResponse, ImportFails, LoseBody, Received
  <1>1. /\ screen' = [screen EXCEPT ![b] = ScreenAfter(resp)]
        /\ UNCHANGED <<storeVars, link, requestVars>>
    BY DEF TabReceives
  <1>2. r \in Requests /\ poster[r] = b /\ resp \in Response
    BY ReceivedFacts
  <1>3. SessionOf(r) = link[b] /\ resp.status \in {response[r].status, 0}
    BY <1>2 DEF SessionOf, Received, NoResponse, Error
  <1>4. screen'[b] = ScreenAfter(resp) /\ \A c \in Bobs \ {b} : screen'[c] = screen[c]
    BY <1>1 DEF IInv, TypeOK
  <1>5. (\A q \in Requests : Settled(q))'
    BY <1>1 DEF ScreenInv, Settled, SessionOf, Passed, storeVars, requestVars
  <1>6. "fetch_refused" \notin Faults => ExpiredScreenIsTruthful'
    <2>1. ScreenAfter(resp) = "step-expired" => hash[link[b]].phase # "WAITING_FOR_BOB"
      <3>1. ScreenAfter(resp) = "step-expired" => resp.status \in {404, 409}
        BY <1>2 DEF ScreenAfter, Response
      <3> QED BY <1>2, <1>3, <3>1 DEF ScreenInv, Settled
    <2> QED BY <1>1, <1>4, <2>1 DEF ScreenInv, ExpiredScreenIsTruthful, storeVars
  <1>7. "body_lost" \notin Faults => FailScreenIsTruthful'
    <2> SUFFICES ASSUME "body_lost" \notin Faults PROVE FailScreenIsTruthful'
      OBVIOUS
    <2>1. ScreenAfter(resp) = "step-bob-fail" => published[link[b]] = <<Failed>>
      <3> SUFFICES ASSUME ScreenAfter(resp) = "step-bob-fail"
                   PROVE  published[link[b]] = <<Failed>>
        OBVIOUS
      <3>1. resp.status = 200 /\ resp.result # "PASS" /\ resp = response[r]
        BY <1>2 DEF ScreenAfter, Response, NoResponse, Error
      <3>2. ~Passed(r) /\ published[SessionOf(r)] = <<VerdictEvent(poster[r], Passed(r))>>
        BY <1>2, <3>1 DEF ScreenInv, Settled, IInv, ResponseInv
      <3> QED BY <1>3, <3>2 DEF VerdictEvent
    <2> QED BY <1>1, <1>4, <2>1 DEF ScreenInv, FailScreenIsTruthful, storeVars
  <1> QED BY <1>5, <1>6, <1>7 DEF ScreenInv

LEMMA ScreenInvStep ==
    ASSUME IInv, ScreenInv, [Next]_vars
    PROVE  ScreenInv'
  <1>1. CASE UNCHANGED vars
    BY <1>1, ScreenInvStore DEF vars
  <1>2. CASE \E s \in Sessions :
                (\E a \in Answers : CreateSession(s, a)) \/ DeleteSession(s) \/ ExpireSession(s)
    BY <1>2, ScreenInvStore DEF CreateSession, DeleteSession, ExpireSession
  <1>3. CASE \E b \in Bobs :
                \/ \E s \in Sessions : OpenLink(b, s)
                \/ FetchSession(b)
                \/ FetchRefused(b)
                \/ \E r \in Requests, a \in Answers : SubmitAnswer(b, r, a)
                \/ LoseConnection(b)
    BY <1>3, ScreenInvTab
  <1>4. CASE \E b \in Bobs : DeliverResponse(b) \/ ImportFails(b) \/ LoseBody(b)
    BY <1>4, ScreenInvDeliver
  <1>5. CASE \E r \in Requests : Handle(r)
    BY <1>5, ScreenInvHandle
  <1> QED BY <1>1, <1>2, <1>3, <1>4, <1>5 DEF Next

LEMMA ScreenInvariance == Spec => []ScreenInv
  <1>1. Init => ScreenInv
    BY DEF Init, ScreenInv, Settled, ExpiredScreenIsTruthful, FailScreenIsTruthful, NoResponse,
           Error
  <1>2. IInv /\ ScreenInv /\ [Next]_vars => ScreenInv'
    BY ScreenInvStep
  <1> QED BY <1>1, <1>2, Invariance, PTL DEF Spec

\* Unless the fetch of the session was refused, a tab that says that its link has
\* expired is right, however stale the response that told it.
THEOREM ExpiryIsTrue ==
    ASSUME "fetch_refused" \notin Faults
    PROVE  Spec => []ExpiredScreenIsTruthful
  <1>1. ScreenInv => ExpiredScreenIsTruthful
    BY DEF ScreenInv
  <1> QED BY <1>1, ScreenInvariance, PTL

\* Unless the body of a response was cut, a tab that says that the answer did not
\* match is right: the failure is what was announced to Alice.
THEOREM FailureIsTrue ==
    ASSUME "body_lost" \notin Faults
    PROVE  Spec => []FailScreenIsTruthful
  <1>1. ScreenInv => FailScreenIsTruthful
    BY DEF ScreenInv
  <1> QED BY <1>1, ScreenInvariance, PTL

-----------------------------------------------------------------------------
(* A tab waits only for what can still come.                               *)

AwaitInv(b) == screen[b] = "step-scoring" => awaiting[b] # Null /\ pc[awaiting[b]] # "lost"

LEMMA AwaitInvTab ==
    ASSUME IInv, \A c \in Bobs : AwaitInv(c), NEW b \in Bobs, NEW c \in Bobs,
           \/ \E s \in Sessions : OpenLink(b, s)
           \/ FetchSession(b)
           \/ FetchRefused(b)
           \/ \E r \in Requests, a \in Answers : SubmitAnswer(b, r, a)
           \/ DeliverResponse(b)
           \/ ImportFails(b)
           \/ LoseBody(b)
           \/ LoseConnection(b)
    PROVE  AwaitInv(c)'
  <1>0. /\ screen \in [Bobs -> Screens] /\ awaiting \in [Bobs -> Requests \cup {Null}]
        /\ pc \in [Requests -> Stages]
    BY DEF IInv, TypeOK
  <1>1. CASE \/ \E s \in Sessions : OpenLink(b, s)
             \/ FetchSession(b)
             \/ FetchRefused(b)
    BY <1>0, <1>1 DEF OpenLink, FetchSession, FetchRefused, AwaitInv, requestVars
  <1>2. ASSUME NEW r \in Requests, NEW a \in Answers, SubmitAnswer(b, r, a)
        PROVE  AwaitInv(c)'
    BY <1>0, <1>2, RequestsAssumption DEF SubmitAnswer, AwaitInv
  <1>3. CASE DeliverResponse(b) \/ ImportFails(b) \/ LoseBody(b)
    <2> PICK resp \in Received(b) : TabReceives(b, resp)
      BY <1>3, ReceivedCases
    <2>1. resp \in Response
      BY ReceivedFacts
    <2>2. ScreenAfter(resp) # "step-scoring"
      BY <2>1 DEF ScreenAfter, Response
    <2> QED BY <1>0, <2>2 DEF TabReceives, AwaitInv, requestVars
  <1>4. CASE LoseConnection(b)
    <2>1. CASE c = b
      BY <1>0, <1>4, <2>1 DEF LoseConnection, AwaitInv
    <2>2. CASE c # b
      <3>1. awaiting[c] # Null => awaiting[c] # awaiting[b]
        BY <1>4, <2>2 DEF LoseConnection, IInv, TabInv
      <3> QED BY <1>0, <1>4, <2>2, <3>1 DEF LoseConnection, AwaitInv
    <2> QED BY <2>1, <2>2
  <1> QED BY <1>1, <1>2, <1>3, <1>4

LEMMA AwaitInvStep ==
    ASSUME IInv, \A c \in Bobs : AwaitInv(c), [Next]_vars, NEW c \in Bobs
    PROVE  AwaitInv(c)'
  <1>1. CASE UNCHANGED <<tabVars, requestVars>>
    BY <1>1 DEF AwaitInv, tabVars, requestVars
  <1>2. ASSUME NEW r \in Requests, Handle(r)
        PROVE  AwaitInv(c)'
    <2>1. \E stage \in {"scoring", "answered"} : pc' = [pc EXCEPT ![r] = stage]
      BY <1>2 DEF Handle, Refuse, LoadSession, EmbedUnavailable, StoreError, FinalizeAnswer,
                  FinalizeReplyLost, Respond
    <2>2. UNCHANGED tabVars
      BY <1>2 DEF Handle, Refuse, LoadSession, EmbedUnavailable, StoreError, FinalizeAnswer,
                  FinalizeReplyLost
    <2>3. awaiting[c] \in Requests \cup {Null} /\ pc \in [Requests -> Stages]
      BY DEF IInv, TypeOK
    <2> QED BY <2>1, <2>2, <2>3 DEF AwaitInv, tabVars
  <1>3. CASE UNCHANGED vars
    BY <1>1, <1>3 DEF vars
  <1>4. ASSUME NEW s \in Sessions,
               (\E a \in Answers : CreateSession(s, a)) \/ DeleteSession(s) \/ ExpireSession(s)
        PROVE  AwaitInv(c)'
    BY <1>1, <1>4 DEF CreateSession, DeleteSession, ExpireSession
  <1> QED BY <1>2, <1>3, <1>4, AwaitInvTab DEF Next

LEMMA AwaitInvariance == Spec => [](\A b \in Bobs : AwaitInv(b))
  <1>1. Init => \A b \in Bobs : AwaitInv(b)
    BY DEF Init, AwaitInv
  <1>2. IInv /\ (\A b \in Bobs : AwaitInv(b)) /\ [Next]_vars => (\A b \in Bobs : AwaitInv(b))'
    BY AwaitInvStep
  <1> QED BY <1>1, <1>2, Invariance, PTL DEF Spec

\* Whatever fails, a tab on the scoring screen waits for a POST that is its own,
\* was sent, and is answered or still being handled.
ScoringIsAwaited ==
    \A b \in Bobs :
        screen[b] = "step-scoring" =>
            /\ awaiting[b] \in Requests
            /\ poster[awaiting[b]] = b
            /\ pc[awaiting[b]] \in {"received", "scoring", "answered"}

\* No tab is left on the scoring screen by a POST that was lost on the way or
\* taken over by another one, whatever fails and however tabs retry.
THEOREM NobodyWaitsInVain == Spec => []ScoringIsAwaited
  <1>1. IInv /\ (\A b \in Bobs : AwaitInv(b)) => ScoringIsAwaited
    <2> SUFFICES ASSUME IInv, NEW b \in Bobs, AwaitInv(b), screen[b] = "step-scoring"
                 PROVE  /\ awaiting[b] \in Requests
                        /\ poster[awaiting[b]] = b
                        /\ pc[awaiting[b]] \in {"received", "scoring", "answered"}
      BY DEF ScoringIsAwaited
    <2>1. awaiting[b] \in Requests /\ pc[awaiting[b]] \in Stages
      BY DEF AwaitInv, IInv, TypeOK
    <2> QED BY <2>1 DEF AwaitInv, IInv, TabInv, Stages
  <1> QED BY <1>1, Invariance, AwaitInvariance, PTL

-----------------------------------------------------------------------------
(* The winner gets his key, unless the one response that carries it is     *)
(* lost or the key in it cannot be imported.  What a run shows to happen   *)
(* in the end (WinnerGetsTheKey) rests on this: from the announcement on,  *)
(* the key is in his tab or on its way.                                    *)

\* As long as connections hold, a handler works for a tab that waits for it.
HeldInv(r) == pc[r] \in {"received", "scoring"} => awaiting[poster[r]] = r

OnItsWay(b) ==
    /\ screen[b] = "step-scoring" /\ awaiting[b] # Null
    /\ response[awaiting[b]] = Pass(link[b])

Served(b) ==
    \/ screen[b] = "step-bob-pass"
    \/ OnItsWay(b)
    \/ "body_lost" \in Faults /\ screen[b] = "step-bob-fail"

\* A tab that was announced for a session whose key can be imported.
Won(b) == link[b] # Null /\ link[b] \notin DubiousKeys /\ published[link[b]] = <<Verified(b)>>

ServedInv ==
    /\ \A r \in Requests : HeldInv(r)
    /\ \A b \in Bobs : Won(b) => Served(b)

\* A tab is announced only after it opened its link.
LEMMA AnnouncedAfterOpening ==
    ASSUME IInv, NEW b \in Bobs, NEW s \in Sessions, published[s] = <<Verified(b)>>
    PROVE  link[b] = s
  <1>1. published[s] # <<>>
    OBVIOUS
  <1>2. PICK r \in Requests : /\ pc[r] = "answered" /\ SessionOf(r) = s
                              /\ published[s] = <<VerdictEvent(poster[r], Passed(r))>>
    BY <1>1 DEF IInv, DecisionIsEarned
  <1>3. VerdictEvent(poster[r], Passed(r)) = Verified(b)
    BY <1>2
  <1>4. poster[r] = b
    BY <1>3 DEF VerdictEvent, Verified, Failed
  <1> QED BY <1>2, <1>4 DEF SessionOf

LEMMA ServedTab ==
    ASSUME IInv, ServedInv, NEW b \in Bobs,
           \/ \E s \in Sessions : OpenLink(b, s)
           \/ FetchSession(b)
           \/ FetchRefused(b)
           \/ \E r \in Requests, a \in Answers : SubmitAnswer(b, r, a)
           \/ DeliverResponse(b)
           \/ ImportFails(b)
           \/ LoseBody(b)
    PROVE  ServedInv'
  <1>0. /\ screen \in [Bobs -> Screens] /\ awaiting \in [Bobs -> Requests \cup {Null}]
        /\ pc \in [Requests -> Stages] /\ poster \in [Requests -> Bobs \cup {Null}]
        /\ link \in [Bobs -> Sessions \cup {Null}]
    BY DEF IInv, TypeOK
  <1>1. UNCHANGED <<storeVars, response>>
    BY DEF OpenLink, FetchSession, FetchRefused, SubmitAnswer, DeliverResponse, ImportFails,
           LoseBody, TabReceives, requestVars
  <1>2. \A c \in Bobs \ {b} : /\ screen'[c] = screen[c] /\ link'[c] = link[c]
                              /\ awaiting'[c] = awaiting[c]
    BY <1>0 DEF OpenLink, FetchSession, FetchRefused, SubmitAnswer, DeliverResponse, ImportFails,
                LoseBody, TabReceives
  <1>3. ASSUME NEW c \in Bobs \ {b}, Won(c)'
        PROVE  Served(c)'
    <2>1. Served(c)
      BY <1>1, <1>2, <1>3 DEF ServedInv, Won, storeVars
    <2> QED BY <1>1, <1>2, <2>1 DEF Served, OnItsWay
  <1>4. CASE (\E s \in Sessions : OpenLink(b, s)) \/ FetchSession(b) \/ FetchRefused(b)
    <2>1. screen[b] \in {"none", "step-loading"} /\ UNCHANGED <<awaiting, requestVars>>
      BY <1>4 DEF OpenLink, FetchSession, FetchRefused
    <2>2. (\A r \in Requests : HeldInv(r))'
      BY <2>1 DEF ServedInv, HeldInv, requestVars
    <2>3. ~Won(b)'
      <3> SUFFICES ASSUME published[link'[b]] = <<Verified(b)>>, link'[b] # Null,
                          link'[b] \notin DubiousKeys
                   PROVE  FALSE
        BY <1>1 DEF Won, storeVars
      <3>1. link'[b] \in Sessions
        BY <1>0, <1>4 DEF OpenLink, FetchSession, FetchRefused
      <3>2. link[b] = link'[b]
        BY <3>1, AnnouncedAfterOpening
      <3>3. Served(b)
        BY <3>2 DEF ServedInv, Won
      <3> QED BY <2>1, <3>3 DEF Served, OnItsWay
    <2> QED BY <1>3, <2>2, <2>3 DEF ServedInv
  <1>5. ASSUME NEW r \in Requests, NEW a \in Answers, SubmitAnswer(b, r, a)
        PROVE  ServedInv'
    <2>1. /\ screen[b] = "step-bob-challenge" /\ pc[r] = "unsent" /\ link' = link
          /\ awaiting' = [awaiting EXCEPT ![b] = r] /\ poster' = [poster EXCEPT ![r] = b]
          /\ pc' = [pc EXCEPT ![r] = "received"]
      BY <1>5 DEF SubmitAnswer
    <2>2. awaiting[b] = Null
      BY <2>1 DEF IInv, TabInv
    <2>3. ASSUME NEW q \in Requests PROVE HeldInv(q)'
      <3>1. CASE q = r
        BY <1>0, <2>1, <3>1 DEF HeldInv
      <3>2. CASE q # r
        BY <1>0, <2>1, <2>2, <3>2, RequestsAssumption DEF ServedInv, HeldInv
      <3> QED BY <3>1, <3>2
    <2>4. ~Won(b)'
      BY <1>1, <2>1 DEF ServedInv, Won, Served, OnItsWay, storeVars
    <2> QED BY <1>3, <2>3, <2>4 DEF ServedInv
  <1>6. CASE DeliverResponse(b) \/ ImportFails(b) \/ LoseBody(b)
    <2> PICK resp \in Received(b) :
               /\ TabReceives(b, resp)
               /\ \/ resp = response[awaiting[b]]
                  \/ resp = Error(response[awaiting[b]].status) /\ "body_lost" \in Faults
                  \/ response[awaiting[b]].alice_pubkey_jwk \in DubiousKeys
      BY <1>6 DEF DeliverResponse, ImportFails, LoseBody, Received
    <2>1. /\ screen' = [screen EXCEPT ![b] = ScreenAfter(resp)] /\ link' = link
          /\ awaiting' = [awaiting EXCEPT ![b] = Null] /\ UNCHANGED requestVars
          /\ pc[awaiting[b]] = "answered"
      BY DEF TabReceives
    <2>2. ASSUME NEW q \in Requests PROVE HeldInv(q)'
      BY <1>0, <2>1 DEF ServedInv, HeldInv, requestVars
    <2>3. ASSUME Won(b)'
          PROVE  Served(b)'
      <3>1. Won(b) /\ Served(b) /\ screen[b] = "step-scoring"
        BY <1>1, <2>1, <2>3, ReceivedFacts DEF ServedInv, Won, storeVars
      <3>2. /\ response[awaiting[b]] = Pass(link[b])
            /\ response[awaiting[b]].alice_pubkey_jwk \notin DubiousKeys
        BY <3>1 DEF Won, Served, OnItsWay, Pass
      <3>3. CASE resp = response[awaiting[b]]
        <4>1. ScreenAfter(resp) = "step-bob-pass"
          BY <3>2, <3>3 DEF ScreenAfter, Pass
        <4> QED BY <1>0, <2>1, <4>1 DEF Served
      <3>4. CASE resp # response[awaiting[b]]
        <4>1. resp.status = 200 /\ resp.result # "PASS" /\ "body_lost" \in Faults
          BY <3>2, <3>4 DEF Error, Pass
        <4>2. ScreenAfter(resp) = "step-bob-fail"
          BY <4>1 DEF ScreenAfter
        <4> QED BY <1>0, <2>1, <4>1, <4>2 DEF Served
      <3> QED BY <3>3, <3>4
    <2> QED BY <1>3, <2>2, <2>3 DEF ServedInv
  <1> QED BY <1>4, <1>5, <1>6

\* A handler answers nobody but the tab that waits for it.
LEMMA ServedHandle ==
    ASSUME "reply_lost" \notin Faults, IInv, ServedInv, NEW r \in Requests, Handle(r)
    PROVE  ServedInv'
  <1>0. /\ awaiting \in [Bobs -> Requests \cup {Null}] /\ pc \in [Requests -> Stages]
        /\ response \in [Requests -> Response] /\ link \in [Bobs -> Sessions \cup {Null}]
    BY DEF IInv, TypeOK
  <1>1. /\ UNCHANGED <<tabVars, poster, answer>> /\ pc[r] \in {"received", "scoring"}
        /\ \E stage \in {"scoring", "answered"} : pc' = [pc EXCEPT ![r] = stage]
        /\ \A q \in Requests \ {r} : response'[q] = response[q]
    BY <1>0 DEF Handle, Refuse, LoadSession, EmbedUnavailable, StoreError, FinalizeAnswer,
                FinalizeReplyLost, Respond
  <1>2. response[r] = NoResponse
    BY <1>1 DEF IInv, ResponseInv
  <1>3. ASSUME NEW q \in Requests PROVE HeldInv(q)'
    BY <1>0, <1>1 DEF ServedInv, HeldInv, tabVars
  <1>4. \A c \in Bobs : Served(c) => Served(c)'
    <2> TAKE c \in Bobs
    <2>1. OnItsWay(c) => awaiting[c] # r
      BY <1>2 DEF OnItsWay, NoResponse, Error, Pass
    <2> QED BY <1>0, <1>1, <2>1 DEF Served, OnItsWay, tabVars
  <1>5. CASE UNCHANGED published
    BY <1>1, <1>3, <1>4, <1>5 DEF ServedInv, Won, tabVars
  <1>6. CASE FinalizeAnswer(r) /\ FinalizeOutcome(SessionOf(r)) = "done"
    <2> DEFINE s == SessionOf(r)
               e == VerdictEvent(poster[r], Passed(r))
    <2>1. /\ s \in Sessions /\ published' = [published EXCEPT ![s] = <<e>>]
          /\ pc[r] = "scoring" /\ response' = [response EXCEPT ![r] = FinalResponse(r)]
      BY <1>6, Decides DEF FinalizeAnswer, Respond
    <2>2. poster[r] \in Bobs /\ link[poster[r]] = s /\ awaiting[poster[r]] = r
      BY <2>1 DEF IInv, SentInv, SessionOf, ServedInv, HeldInv
    <2>3. published \in [Sessions -> Seq(Event)]
      BY DEF IInv, TypeOK, StoreTypeOK
    <2>4. ASSUME NEW c \in Bobs, Won(c)'
          PROVE  Served(c)'
      <3>1. /\ link'[c] = link[c] /\ link[c] \in Sessions /\ link[c] \notin DubiousKeys
            /\ published'[link[c]] = <<Verified(c)>>
        BY <1>0, <1>1, <2>4, NullAssumption DEF Won, tabVars
      <3>2. CASE link[c] # s
        <4>1. published[link[c]] = <<Verified(c)>>
          BY <2>1, <2>3, <3>1, <3>2
        <4> QED BY <1>4, <3>1, <4>1, NullAssumption DEF ServedInv, Won
      <3>3. CASE link[c] = s
        <4>1. e = Verified(c)
          BY <2>1, <2>3, <3>1, <3>3
        <4>2. Passed(r) /\ poster[r] = c
          BY <4>1 DEF VerdictEvent, Verified, Failed
        <4>3. snapshot[r].alice_pubkey_jwk = s
          BY <2>1 DEF IInv, ScoringInv
        <4>4. response'[r] = Pass(s)
          BY <1>0, <1>6, <2>1, <4>2, <4>3 DEF FinalResponse
        <4>5. screen[c] = "step-scoring" /\ awaiting[c] = r
          BY <2>2, <4>2, RequestsAssumption DEF IInv, TabInv
        <4> QED BY <1>1, <3>1, <3>3, <4>4, <4>5, RequestsAssumption DEF Served, OnItsWay, tabVars
      <3> QED BY <3>2, <3>3
    <2> QED BY <1>3, <2>4 DEF ServedInv
  <1>7. UNCHANGED published \/ (FinalizeAnswer(r) /\ FinalizeOutcome(SessionOf(r)) = "done")
    BY DEF Handle, Refuse, LoadSession, EmbedUnavailable, StoreError, FinalizeAnswer,
           FinalizeReplyLost, FinalizeEffect, Finalize, storeVars
  <1> QED BY <1>5, <1>6, <1>7

LEMMA ServedInvariance ==
    ASSUME "reply_lost" \notin Faults, "connection_lost" \notin Faults
    PROVE  Spec => []ServedInv
  <1>1. Init => ServedInv
    BY DEF Init, ServedInv, HeldInv, Won
  <1>2. IInv /\ ServedInv /\ [Next]_vars => ServedInv'
    <2> SUFFICES ASSUME IInv, ServedInv, [Next]_vars PROVE ServedInv'
      OBVIOUS
    <2>1. CASE UNCHANGED <<published, tabVars, requestVars>>
      BY <2>1 DEF ServedInv, HeldInv, Won, Served, OnItsWay, tabVars, requestVars
    <2>2. CASE UNCHANGED vars
      BY <2>1, <2>2 DEF vars, storeVars
    <2>3. CASE \E s \in Sessions :
                  (\E a \in Answers : CreateSession(s, a)) \/ DeleteSession(s) \/ ExpireSession(s)
      BY <2>1, <2>3 DEF CreateSession, DeleteSession, ExpireSession, Create, Delete, Expire
    <2>4. ASSUME NEW b \in Bobs PROVE ~LoseConnection(b)
      BY DEF LoseConnection
    <2> QED BY <2>2, <2>3, <2>4, ServedTab, ServedHandle DEF Next
  <1> QED BY <1>1, <1>2, Invariance, PTL DEF Spec

\* If Alice's keys can be imported, and as long as the reply to the finalize script
\* and the connections of the POSTs hold, the winner is never shown a dead link:
\* his tab has the key or waits for the response that carries it.
THEOREM WinnerStaysInside ==
    ASSUME "reply_lost" \notin Faults, "connection_lost" \notin Faults,
           Sessions \cap DubiousKeys = {}
    PROVE  Spec => []WinnerIsNotLockedOut
  <1>1. IInv /\ ServedInv => WinnerIsNotLockedOut
    <2> SUFFICES ASSUME IInv, ServedInv, NEW b \in Bobs, screen[b] = "step-expired",
                        published[link[b]] = <<Verified(b)>>
                 PROVE  FALSE
      BY DEF WinnerIsNotLockedOut
    <2>1. link[b] # Null /\ link[b] \notin DubiousKeys
      BY DEF IInv, TypeOK, TabInv
    <2> QED BY <2>1 DEF ServedInv, Won, Served, OnItsWay
  <1> QED BY <1>1, Invariance, ServedInvariance, PTL

\* If no body is cut either, a key that can be imported is in the winner's tab or
\* on its way to it from the moment he is announced.
WinnerIsServed ==
    \A b \in Bobs, s \in Sessions \ DubiousKeys :
        published[s] = <<Verified(b)>> =>
            \/ screen[b] = "step-bob-pass" /\ alicePubkey[b] = s
            \/ link[b] = s /\ OnItsWay(b)

\* The winner of a session can miss its key only if a reply, a connection or a body
\* is lost or the key cannot be imported: refusals, store errors, an embedding
\* service that is down, expiries and races are not enough.
THEOREM WinnersAreServed ==
    ASSUME "reply_lost" \notin Faults, "connection_lost" \notin Faults, "body_lost" \notin Faults
    PROVE  Spec => []WinnerIsServed
  <1>1. IInv /\ ServedInv => WinnerIsServed
    <2> SUFFICES ASSUME IInv, ServedInv, NEW b \in Bobs, NEW s \in Sessions \ DubiousKeys,
                        published[s] = <<Verified(b)>>
                 PROVE  \/ screen[b] = "step-bob-pass" /\ alicePubkey[b] = s
                        \/ link[b] = s /\ OnItsWay(b)
      BY DEF WinnerIsServed
    <2>1. link[b] = s /\ s # Null
      BY AnnouncedAfterOpening, NullAssumption
    <2>2. screen[b] = "step-bob-pass" => alicePubkey[b] = s
      BY <2>1 DEF IInv, TabInv
    <2> QED BY <2>1, <2>2 DEF ServedInv, Won, Served
  <1> QED BY <1>1, Invariance, ServedInvariance, PTL

-----------------------------------------------------------------------------
(* The protocol implements the one-time gate.                              *)

LEMMA GateInit == Init => Gate!Init
  <1> SUFFICES ASSUME Init PROVE Gate!Init
    OBVIOUS
  <1>1. [s \in Sessions |-> GateOf(s)] = [s \in Sessions |-> "unused"]
    BY DEF Init, StoreInit, GateOf
  <1>2. [s \in Sessions |-> WinnerOf(s)] = [s \in Sessions |-> Null]
    BY DEF Init, StoreInit, WinnerOf
  <1>3. KeyHolders = {}
    BY DEF Init, KeyHolders
  <1> QED BY <1>1, <1>2, <1>3 DEF Gate!Init

\* While a session is open nobody has won it; a store step that leaves channels
\* alone can only open an unused gate or shut an open one without a winner.
LEMMA GateStoreStep ==
    ASSUME IInv, NEW s \in Sessions,
           (\E a \in Answers : CreateSession(s, a)) \/ DeleteSession(s) \/ ExpireSession(s)
    PROVE  [Gate!Next]_(Gate!gateVars)
  <1> DEFINE gate == [t \in Sessions |-> GateOf(t)]
             winner == [t \in Sessions |-> WinnerOf(t)]
  <1>1. UNCHANGED <<published, link, alicePubkey>>
    BY DEF CreateSession, DeleteSession, ExpireSession, Create, Delete, Expire, tabVars
  <1>2. UNCHANGED <<winner, KeyHolders>>
    BY <1>1 DEF WinnerOf, KeyHolders
  <1>3. hash \in [Sessions -> Hash]
    BY DEF IInv, TypeOK, StoreTypeOK
  <1>4. ASSUME NEW a \in Answers, CreateSession(s, a)
        PROVE  Gate!Open(s)
    <2>1. /\ s \notin issued /\ issued' = issued \cup {s}
          /\ hash' = [hash EXCEPT ![s] = NewHash(s, a)]
      BY <1>4 DEF CreateSession, Create
    <2>2. gate[s] = "unused"
      BY <2>1 DEF GateOf
    <2>3. hash'[s].phase = "WAITING_FOR_BOB"
      BY <1>3, <2>1 DEF NewHash
    <2>4. gate' = [gate EXCEPT ![s] = "open"]
      BY <1>3, <2>1, <2>3 DEF GateOf
    <2> QED BY <1>2, <2>2, <2>4 DEF Gate!Open
  <1>5. ASSUME DeleteSession(s) \/ ExpireSession(s)
        PROVE  Gate!Shut(s, Null) \/ UNCHANGED gate
    <2>1. issued' = issued /\ hash' = [hash EXCEPT ![s] = NoHash]
      BY <1>5 DEF DeleteSession, ExpireSession, Delete, Expire
    <2>2. hash'[s].phase = "ABSENT"
      BY <1>3, <2>1 DEF NoHash
    <2>3. CASE s \in issued /\ hash[s].phase = "WAITING_FOR_BOB"
      <3>1. gate[s] = "open" /\ winner[s] = Null
        BY <2>3 DEF GateOf, WinnerOf, IInv, StoreInv, InStep
      <3>2. gate' = [gate EXCEPT ![s] = "shut"]
        BY <1>3, <2>1, <2>2, <2>3 DEF GateOf
      <3>3. winner' = [winner EXCEPT ![s] = Null]
        BY <1>2, <3>1
      <3> QED BY <1>2, <3>1, <3>2, <3>3 DEF Gate!Shut
    <2>4. CASE ~(s \in issued /\ hash[s].phase = "WAITING_FOR_BOB")
      BY <1>3, <2>1, <2>2, <2>4 DEF GateOf
    <2> QED BY <2>3, <2>4
  <1> QED BY <1>2, <1>4, <1>5 DEF Gate!Next, Gate!gateVars

\* Gates and winners are functions of the store.
LEMMA StoreIsGate ==
    ASSUME UNCHANGED storeVars
    PROVE  /\ UNCHANGED [t \in Sessions |-> GateOf(t)]
           /\ UNCHANGED [t \in Sessions |-> WinnerOf(t)]
  BY DEF storeVars, GateOf, WinnerOf

LEMMA GateOpenLink ==
    ASSUME IInv, NEW b \in Bobs, NEW s \in Sessions, OpenLink(b, s)
    PROVE  UNCHANGED KeyHolders
  <1>1. alicePubkey[b] = Null /\ alicePubkey' = alicePubkey
    BY DEF OpenLink, IInv, TabInv
  <1>2. \A c \in Bobs : c # b => link'[c] = link[c]
    BY DEF OpenLink, IInv, TypeOK
  <1> QED BY <1>1, <1>2 DEF KeyHolders

\* Importing the key of a PASS response is the hand-over; the tab is the winner.
LEMMA GateDeliver ==
    ASSUME IInv, NEW b \in Bobs, DeliverResponse(b) \/ ImportFails(b) \/ LoseBody(b)
    PROVE  [Gate!Next]_(Gate!gateVars)
  <1> DEFINE winner == [t \in Sessions |-> WinnerOf(t)]
  <1> PICK resp \in Received(b) : TabReceives(b, resp)
    BY ReceivedCases
  <1>1. /\ alicePubkey' = [alicePubkey EXCEPT ![b] =
                IF resp.result = "PASS" THEN resp.alice_pubkey_jwk ELSE @]
        /\ UNCHANGED <<storeVars, link>>
    BY DEF TabReceives
  <1>2. /\ alicePubkey[b] = Null /\ link[b] \in Sessions
        /\ resp.result = "PASS" =>
              /\ resp.alice_pubkey_jwk = link[b]
              /\ published[link[b]] = <<Verified(b)>>
    BY ReceivedFacts
  <1>3. UNCHANGED <<[t \in Sessions |-> GateOf(t)], winner>>
    BY <1>1, StoreIsGate
  <1>4. CASE resp.result = "PASS"
    <2>1. alicePubkey' = [alicePubkey EXCEPT ![b] = link[b]] /\ link[b] # Null
      BY <1>1, <1>2, <1>4, NullAssumption
    <2>2. winner[link[b]] = b
      BY <1>2, <1>4 DEF WinnerOf, Verified
    <2>3. <<link[b], b>> \notin KeyHolders
      BY <1>2 DEF KeyHolders
    <2>4. KeyHolders' = KeyHolders \cup {<<link[b], b>>}
      <3>1. {c \in Bobs : alicePubkey'[c] # Null} = {c \in Bobs : alicePubkey[c] # Null} \cup {b}
        BY <2>1 DEF IInv, TypeOK
      <3> QED BY <1>1, <3>1 DEF KeyHolders
    <2>5. Gate!HandOver(link[b], b)
      BY <1>3, <2>2, <2>3, <2>4 DEF Gate!HandOver
    <2> QED BY <1>2, <2>5 DEF Gate!Next
  <1>5. CASE resp.result # "PASS"
    <2>1. alicePubkey' = alicePubkey
      BY <1>1, <1>5 DEF IInv, TypeOK
    <2> QED BY <1>1, <1>3, <2>1 DEF KeyHolders, Gate!gateVars
  <1> QED BY <1>4, <1>5

LEMMA GateQuietStep ==
    ASSUME IInv, QuietStep
    PROVE  [Gate!Next]_(Gate!gateVars)
  <1>1. UNCHANGED <<[t \in Sessions |-> GateOf(t)], [t \in Sessions |-> WinnerOf(t)]>>
    BY QuietIsQuiet, StoreIsGate
  <1>2. CASE \E b \in Bobs : DeliverResponse(b) \/ ImportFails(b) \/ LoseBody(b)
    BY <1>2, GateDeliver
  <1>3. CASE \E b \in Bobs, s \in Sessions : OpenLink(b, s)
    BY <1>1, <1>3, GateOpenLink DEF Gate!gateVars
  <1>4. CASE UNCHANGED <<link, alicePubkey>>
    BY <1>1, <1>4 DEF KeyHolders, Gate!gateVars
  <1> QED BY <1>2, <1>3, <1>4
          DEF QuietStep, FetchSession, FetchRefused, SubmitAnswer, LoseConnection,
              Refuse, LoadSession, EmbedUnavailable, StoreError, tabVars

\* The finalize script shuts the gate, for the poster if the answer passed.
LEMMA GateJudge ==
    ASSUME IInv, NEW r \in Requests, Judge(r)
    PROVE  [Gate!Next]_(Gate!gateVars)
  <1> DEFINE s == SessionOf(r)
             w == VerdictEvent(poster[r], Passed(r)).bob_pubkey_jwk
             gate == [t \in Sessions |-> GateOf(t)]
             winner == [t \in Sessions |-> WinnerOf(t)]
  <1>1. pc[r] = "scoring" /\ FinalizeEffect(r) /\ UNCHANGED <<link, alicePubkey>>
    BY DEF Judge, FinalizeAnswer, FinalizeReplyLost, tabVars
  <1>2. UNCHANGED KeyHolders
    BY <1>1 DEF KeyHolders
  <1>3. CASE FinalizeOutcome(s) # "done"
    <2>1. UNCHANGED storeVars
      BY <1>1, <1>3 DEF FinalizeEffect, Finalize
    <2> QED BY <1>2, <2>1, StoreIsGate DEF Gate!gateVars
  <1>4. CASE FinalizeOutcome(s) = "done"
    <2>1. /\ s \in Sessions /\ hash[s].phase = "WAITING_FOR_BOB" /\ published[s] = <<>>
          /\ published' = [published EXCEPT ![s] = <<VerdictEvent(poster[r], Passed(r))>>]
          /\ hash' = [hash EXCEPT ![s] = HSet(@, VerdictUpdate(poster[r], Passed(r)))]
          /\ hash'[s].phase \in TerminalPhases
          /\ issued' = issued
      BY <1>1, <1>4, Decides
    <2>2. s \in issued
      BY <2>1 DEF IInv, StoreInv, Untouched, NoHash
    <2>3. w \in Bobs \cup {Null}
      BY <1>1 DEF IInv, SentInv, VerdictEvent, Verified, Failed
    <2>4. hash \in [Sessions -> Hash] /\ published \in [Sessions -> Seq(Event)]
      BY DEF IInv, TypeOK, StoreTypeOK
    <2>5. gate[s] = "open"
      BY <2>1, <2>2 DEF GateOf
    <2> HIDE DEF s
    <2>6. gate' = [gate EXCEPT ![s] = "shut"]
      <3>1. \A t \in Sessions : GateOf(t)' = IF t = s THEN "shut" ELSE GateOf(t)
        BY <2>1, <2>2, <2>4 DEF GateOf, TerminalPhases
      <3> QED BY <3>1
    <2>7. winner' = [winner EXCEPT ![s] = w]
      <3>1. \A t \in Sessions : WinnerOf(t)' = IF t = s THEN w ELSE WinnerOf(t)
        BY <2>1, <2>4 DEF WinnerOf
      <3> QED BY <3>1
    <2>8. Gate!Shut(s, w)
      BY <1>2, <2>1, <2>5, <2>6, <2>7 DEF Gate!Shut
    <2> QED BY <2>1, <2>3, <2>8 DEF Gate!Next
  <1> QED BY <1>3, <1>4

LEMMA GateStep ==
    ASSUME IInv, [Next]_vars
    PROVE  [Gate!Next]_(Gate!gateVars)
  <1>1. CASE UNCHANGED vars
    <2>1. UNCHANGED KeyHolders
      BY <1>1 DEF vars, tabVars, KeyHolders
    <2> QED BY <1>1, <2>1, StoreIsGate DEF vars, Gate!gateVars
  <1> QED BY <1>1, StepCases, GateStoreStep, GateQuietStep, GateJudge

\* Whatever fails and however POSTs interleave, each session opens once, shuts
\* once, and hands its key to the winner of the shutting step and nobody else.
THEOREM ImplementsGate == Spec => GateSpec
  <1>1. IInv /\ [Next]_vars => [Gate!Next]_(Gate!gateVars)
    BY GateStep
  <1> QED BY <1>1, GateInit, Invariance, PTL DEF Spec, GateSpec, Gate!Spec
=============================================================================
