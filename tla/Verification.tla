---------------------------- MODULE Verification ----------------------------
(***************************************************************************)
(* The verification side of the protocol: Bob's tabs (the Bob half of      *)
(* static/js/session.js), the POST /verify handlers they call              *)
(* (app/routes/verify.py) and the session store.                           *)
(*                                                                         *)
(* Every POST is handled by a greenlet of its own and every Redis or       *)
(* embedding call is a point where others run, so a handler is a sequence  *)
(* of steps: load the session, embed the answer, finalize, respond.  The   *)
(* session it loaded (snapshot) may have been completed or removed when it *)
(* finalizes.  A tab waits for one POST at a time, but a POST whose        *)
(* connection broke may still run on the server while the tab retries.     *)
(*                                                                         *)
(* Faults names the failures of a model; each is an action with the        *)
(* status, or the lack of one, that the code turns it into:                *)
(*   "fetch_refused"    GET /session answered with an error or not at all  *)
(*   "refused"          POST refused by a validator or the rate limiter    *)
(*   "store_error"      Redis call failed with nothing executed            *)
(*   "embed_unavailable" the embedding service gave no usable vector       *)
(*   "reply_lost"       the Lua script ran, its reply timed out            *)
(*   "connection_lost"  the browser lost the connection of a POST          *)
(*   "body_lost"        it broke between the headers and the body          *)
(* That Alice's key cannot be imported is not one of them: DubiousKeys of  *)
(* BrowserCrypto says which keys may be so.                                *)
(***************************************************************************)
EXTENDS SessionStore, BrowserCrypto

CONSTANTS Requests,   \* POST /verify calls that may be made
          Matching,   \* pairs <<Alice's answer, Bob's>> scoring >= threshold
          Faults

ASSUME RequestsAssumption == Null \notin Requests
ASSUME MatchingAssumption == Matching \subseteq Answers \X Answers

VARIABLES screen,      \* screen[b]: the screen tab b shows
          link,        \* link[b]: the session whose link tab b opened
          awaiting,    \* awaiting[b]: the POST tab b waits for
          alicePubkey, \* alicePubkey[b]: the key tab b imported
          pc,          \* pc[r]: how far the handling of POST r is
          poster,      \* poster[r], answer[r]: the body of r
          answer,
          snapshot,    \* snapshot[r]: the session as the handler of r read it
          response     \* response[r]: the response of r

tabVars == <<screen, link, awaiting, alicePubkey>>
requestVars == <<pc, poster, answer, snapshot, response>>
vars == <<storeVars, tabVars, requestVars>>

-----------------------------------------------------------------------------
Screens == {"none", "step-loading", "step-bob-challenge", "step-scoring",
            "step-bob-pass", "step-bob-fail", "step-expired"}

Stages == {"unsent", "received", "lost", "scoring", "answered"}

Response == [status : {0, 200, 400, 404, 409, 429, 500, 503},
             result : {"none", "PASS", "FAIL"},
             alice_pubkey_jwk : Sessions \cup {Null}]

Error(code) == [status |-> code, result |-> "none", alice_pubkey_jwk |-> Null]
NoResponse  == Error(0)
Fail        == [status |-> 200, result |-> "FAIL", alice_pubkey_jwk |-> Null]
Pass(key)   == [status |-> 200, result |-> "PASS", alice_pubkey_jwk |-> key]

SessionOf(r) == link[poster[r]]

\* score >= SIMILARITY_THRESHOLD, from the embedding the handler loaded.
Passed(r) == <<snapshot[r].answer_embedding, answer[r]>> \in Matching

Init ==
    /\ StoreInit
    /\ screen = [b \in Bobs |-> "none"]
    /\ link = [b \in Bobs |-> Null]
    /\ awaiting = [b \in Bobs |-> Null]
    /\ alicePubkey = [b \in Bobs |-> Null]
    /\ pc = [r \in Requests |-> "unsent"]
    /\ poster = [r \in Requests |-> Null]
    /\ answer = [r \in Requests |-> Null]
    /\ snapshot = [r \in Requests |-> NoHash]
    /\ response = [r \in Requests |-> NoResponse]

-----------------------------------------------------------------------------
(* The store, as Alice's tab and time drive it.                            *)

\* POST /session.  Nothing is stored before the answer is embedded, and nobody
\* knows the id before the response, so the handler is one step; its refusals
\* leave every variable here as it is.
CreateSession(s, a) == Create(s, a) /\ UNCHANGED <<tabVars, requestVars>>

\* DELETE /session/<id>.
DeleteSession(s) == Delete(s) /\ UNCHANGED <<tabVars, requestVars>>

ExpireSession(s) == Expire(s) /\ UNCHANGED <<tabVars, requestVars>>

-----------------------------------------------------------------------------
(* Bob's tab.                                                              *)

\* The page of a link is loaded: initBob makes a key pair.  (If that fails the
\* submit button stays disabled: a tab that never submits.)  Links come from
\* Alice: an id nobody was given is one of 2^256.
OpenLink(b, s) ==
    /\ screen[b] = "none"
    /\ s \in issued
    /\ link' = [link EXCEPT ![b] = s]
    /\ screen' = [screen EXCEPT ![b] = "step-loading"]
    /\ UNCHANGED <<storeVars, awaiting, alicePubkey, requestVars>>

\* GET /session/<id>: 404 or any phase but WAITING_FOR_BOB end the visit.
FetchSession(b) ==
    /\ screen[b] = "step-loading"
    /\ screen' = [screen EXCEPT ![b] =
                    IF hash[link[b]].phase = "WAITING_FOR_BOB"
                    THEN "step-bob-challenge" ELSE "step-expired"]
    /\ UNCHANGED <<storeVars, link, awaiting, alicePubkey, requestVars>>

\* 429 and 503 bodies have no phase, and a rejected fetch lands in the catch.
FetchRefused(b) ==
    /\ "fetch_refused" \in Faults
    /\ screen[b] = "step-loading"
    /\ screen' = [screen EXCEPT ![b] = "step-expired"]
    /\ UNCHANGED <<storeVars, link, awaiting, alicePubkey, requestVars>>

SubmitAnswer(b, r, a) ==
    /\ screen[b] = "step-bob-challenge"
    /\ pc[r] = "unsent"
    /\ screen' = [screen EXCEPT ![b] = "step-scoring"]
    /\ awaiting' = [awaiting EXCEPT ![b] = r]
    /\ pc' = [pc EXCEPT ![r] = "received"]
    /\ poster' = [poster EXCEPT ![r] = b]
    /\ answer' = [answer EXCEPT ![r] = a]
    /\ UNCHANGED <<storeVars, link, alicePubkey, snapshot, response>>

\* Mutants: every error ends the visit; an error is not thrown; its catch does
\* not restore the challenge.
ScreenAfterAllExpired(resp) ==
    CASE resp.status # 200    -> "step-expired"
      [] resp.result = "PASS" -> "step-bob-pass"
      [] OTHER                -> "step-bob-fail"

ScreenAfterNoThrow(resp) ==
    CASE resp.status \in {404, 409} -> "step-expired"
      [] resp.result = "PASS"       -> "step-bob-pass"
      [] OTHER                      -> "step-bob-fail"

ScreenAfterNoCatch(resp) ==
    CASE resp.status \in {404, 409} -> "step-expired"
      [] resp.result = "PASS"       -> "step-bob-pass"
      [] resp.status = 200          -> "step-bob-fail"
      [] OTHER                      -> "step-scoring"

\* The screen a response leads to: 404 and 409 are final, any other error is
\* thrown and caught, which puts the challenge back.
ScreenAfter(resp) ==
    CASE resp.status \in {404, 409}           -> "step-expired"
      [] resp.status \notin {200, 404, 409}   -> "step-bob-challenge"
      [] resp.status = 200 /\ resp.result = "PASS" -> "step-bob-pass"
      [] resp.status = 200 /\ resp.result # "PASS" -> "step-bob-fail"

TabReceives(b, resp) ==
    /\ awaiting[b] # Null
    /\ pc[awaiting[b]] = "answered"
    /\ screen' = [screen EXCEPT ![b] = ScreenAfter(resp)]
    /\ alicePubkey' = [alicePubkey EXCEPT ![b] =
                         IF resp.result = "PASS" THEN resp.alice_pubkey_jwk ELSE @]
    /\ awaiting' = [awaiting EXCEPT ![b] = Null]
    /\ UNCHANGED <<storeVars, link, requestVars>>

DeliverResponse(b) == TabReceives(b, response[awaiting[b]])

\* A PASS whose key importPublicKey or deriveSharedKey rejects, or whose JWK has
\* no x to log: the catch is that of a request that failed.  (Nothing else can
\* happen in the tab during these awaits.)
ImportFails(b) ==
    LET resp == response[awaiting[b]] IN
    /\ TabReceives(b, NoResponse)
    /\ resp.result = "PASS" /\ resp.alice_pubkey_jwk \in DubiousKeys

\* resp.json() rejects and .catch(() => ({})) makes it an empty object: the tab
\* goes by the status alone.
LoseBody(b) ==
    /\ "body_lost" \in Faults
    /\ TabReceives(b, Error(response[awaiting[b]].status))

\* fetch rejects: the challenge is shown again.  The POST may never have
\* reached the server, or its handler runs on without a reader.
LoseConnection(b) ==
    /\ "connection_lost" \in Faults
    /\ awaiting[b] # Null
    /\ screen' = [screen EXCEPT ![b] = "step-bob-challenge"]
    /\ awaiting' = [awaiting EXCEPT ![b] = Null]
    /\ \/ UNCHANGED pc
       \/ pc[awaiting[b]] = "received" /\ pc' = [pc EXCEPT ![awaiting[b]] = "lost"]
    /\ UNCHANGED <<storeVars, link, alicePubkey, poster, answer, snapshot, response>>

-----------------------------------------------------------------------------
(* The handler of POST /session/<id>/verify.                               *)

Respond(r, resp) ==
    /\ pc' = [pc EXCEPT ![r] = "answered"]
    /\ response' = [response EXCEPT ![r] = resp]
    /\ UNCHANGED <<poster, answer>>

\* The rate limiter and the validator come before the store is touched.
Refuse(r) ==
    /\ "refused" \in Faults
    /\ pc[r] = "received"
    /\ \E code \in {400, 429} : Respond(r, Error(code))
    /\ UNCHANGED <<storeVars, tabVars, snapshot>>

\* store.get and the cheap early rejection.
LoadSession(r) ==
    LET session == hash[SessionOf(r)] IN
    /\ pc[r] = "received"
    /\ \/ /\ session.phase = "ABSENT"
          /\ Respond(r, Error(404))
          /\ UNCHANGED snapshot
       \/ /\ session.phase \in TerminalPhases
          /\ Respond(r, Error(409))
          /\ UNCHANGED snapshot
       \/ /\ session.phase = "WAITING_FOR_BOB"
          /\ pc' = [pc EXCEPT ![r] = "scoring"]
          /\ snapshot' = [snapshot EXCEPT ![r] = session]
          /\ UNCHANGED <<poster, answer, response>>
    /\ UNCHANGED <<storeVars, tabVars>>

\* EmbeddingClient.embed returned None, or a vector of another dimension, at
\* which cosine_similarity raises.
EmbedUnavailable(r) ==
    /\ "embed_unavailable" \in Faults
    /\ pc[r] = "scoring"
    /\ \E code \in {500, 503} : Respond(r, Error(code))
    /\ UNCHANGED <<storeVars, tabVars, snapshot>>

\* RedisError out of store.get or of finalize before the script ran.
StoreError(r) ==
    /\ "store_error" \in Faults
    /\ pc[r] \in {"received", "scoring"}
    /\ Respond(r, Error(503))
    /\ UNCHANGED <<storeVars, tabVars, snapshot>>

\* Mutant: the threshold is not applied to what is stored and announced.
FinalizeAsPassed(r) ==
    Finalize(SessionOf(r), VerdictUpdate(poster[r], TRUE), VerdictEvent(poster[r], TRUE))

FinalizeEffect(r) ==
    Finalize(SessionOf(r), VerdictUpdate(poster[r], Passed(r)),
                           VerdictEvent(poster[r], Passed(r)))

\* Mutants: Bob gets his own key; the outcome is ignored; 1 is taken for 0.
FinalResponseOwnKey(r) == IF Passed(r) THEN Pass(poster[r]) ELSE Fail

FinalResponseAnyOutcome(r) ==
    IF Passed(r) THEN Pass(snapshot[r].alice_pubkey_jwk) ELSE Fail

FinalResponseOffByOne(r) ==
    Error(IF FinalizeOutcome(SessionOf(r)) = "expired" THEN 404 ELSE 409)

\* What the handler answers after finalize; the key is the snapshot's.
FinalResponse(r) ==
    CASE FinalizeOutcome(SessionOf(r)) = "expired"   -> Error(404)
      [] FinalizeOutcome(SessionOf(r)) = "completed" -> Error(409)
      [] FinalizeOutcome(SessionOf(r)) = "done"      ->
            IF Passed(r) THEN Pass(snapshot[r].alice_pubkey_jwk) ELSE Fail

FinalizeAnswer(r) ==
    /\ pc[r] = "scoring"
    /\ FinalizeEffect(r)
    /\ Respond(r, FinalResponse(r))
    /\ UNCHANGED <<tabVars, snapshot>>

\* The script ran, but redis-py timed out waiting for its reply: RedisError.
FinalizeReplyLost(r) ==
    /\ "reply_lost" \in Faults
    /\ pc[r] = "scoring"
    /\ FinalizeEffect(r)
    /\ Respond(r, Error(503))
    /\ UNCHANGED <<tabVars, snapshot>>

Handle(r) ==
    \/ Refuse(r)
    \/ LoadSession(r)
    \/ EmbedUnavailable(r)
    \/ StoreError(r)
    \/ FinalizeAnswer(r)
    \/ FinalizeReplyLost(r)

Next ==
    \/ \E s \in Sessions :
          \/ \E a \in Answers : CreateSession(s, a)
          \/ DeleteSession(s)
          \/ ExpireSession(s)
    \/ \E b \in Bobs :
          \/ \E s \in Sessions : OpenLink(b, s)
          \/ FetchSession(b)
          \/ FetchRefused(b)
          \/ \E r \in Requests, a \in Answers : SubmitAnswer(b, r, a)
          \/ DeliverResponse(b)
          \/ ImportFails(b)
          \/ LoseBody(b)
          \/ LoseConnection(b)
    \/ \E r \in Requests : Handle(r)

Spec == Init /\ [][Next]_vars

\* A handler always gets on with its work: the slot wait, both HTTP timeouts
\* and the Redis socket timeout are finite, and each ends in a response.  A
\* response on an unbroken connection arrives, and its key is imported or not.
\* People need not do anything.
Fairness ==
    /\ \A r \in Requests : WF_vars(Handle(r))
    /\ \A b \in Bobs : WF_vars(DeliverResponse(b) \/ ImportFails(b)) /\ WF_vars(FetchSession(b))

FairSpec == Spec /\ Fairness

-----------------------------------------------------------------------------
\* Type invariant.
TypeOK ==
    /\ StoreTypeOK
    /\ screen \in [Bobs -> Screens]
    /\ link \in [Bobs -> Sessions \cup {Null}]
    /\ awaiting \in [Bobs -> Requests \cup {Null}]
    /\ alicePubkey \in [Bobs -> Sessions \cup {Null}]
    /\ pc \in [Requests -> Stages]
    /\ poster \in [Requests -> Bobs \cup {Null}]
    /\ answer \in [Requests -> Answers \cup {Null}]
    /\ snapshot \in [Requests -> Hash]
    /\ response \in [Requests -> Response]

\* One-time use: of all the answers posted to a session, at the same instant
\* or as retries, at most one is ever judged; every other one gets an error.
OneAnswerDecides ==
    \A q, r \in Requests :
        /\ response[q].status = 200 /\ response[r].status = 200
        /\ SessionOf(q) = SessionOf(r)
        => q = r

\* Alice's public key leaves the server only in the response to an answer that
\* passed, whose sender is the one announced to Alice as verified; and it is
\* the key of that session.
KeyOnlyForTheWinner ==
    \A r \in Requests :
        response[r].alice_pubkey_jwk # Null =>
            /\ Passed(r)
            /\ published[SessionOf(r)] = <<Verified(poster[r])>>
            /\ response[r].alice_pubkey_jwk = SessionOf(r)

\* What is announced to Alice is the judgement of an answer that really was
\* posted to her session, from the tab named in the announcement.
DecisionIsEarned ==
    \A s \in Sessions :
        published[s] # <<>> =>
            \E r \in Requests :
                /\ pc[r] = "answered"
                /\ SessionOf(r) = s
                /\ published[s] = <<VerdictEvent(poster[r], Passed(r))>>

\* A tab that shows the open channel derived its secret from the key of the
\* session it answered, and Alice was told to use that tab's key: both ends
\* derive the same secret, even if the session is gone by then.
ChannelEndsAgree ==
    \A b \in Bobs :
        screen[b] = "step-bob-pass" =>
            /\ alicePubkey[b] = link[b]
            /\ published[link[b]] = <<Verified(b)>>

\* "This link has expired" is shown only for a session that cannot be answered
\* any more: completed, expired or torn down.
ExpiredScreenIsTruthful ==
    \A b \in Bobs :
        screen[b] = "step-expired" => hash[link[b]].phase # "WAITING_FOR_BOB"

\* session.html: "Your answer didn't match the memory. No key exchange
\* occurred."  That screen is shown only for an answer that was judged a failure.
FailScreenIsTruthful ==
    \A b \in Bobs :
        screen[b] = "step-bob-fail" => published[link[b]] = <<Failed>>

\* README: a score over the threshold means that Alice's key is released to
\* Bob and both derive the secret.  So a tab announced as verified is never
\* left on the screen of a dead link, without the key.
WinnerIsNotLockedOut ==
    \A b \in Bobs :
        screen[b] = "step-expired" => published[link[b]] # <<Verified(b)>>

\* No tab hangs on the scoring screen, whatever fails under its POST.
ScoringEnds ==
    \A b \in Bobs : screen[b] = "step-scoring" ~> screen[b] # "step-scoring"

\* As long as replies to the finalize script and connections are not lost, a
\* tab announced to Alice as verified ends up on its own open channel, if her
\* key can be imported.
WinnerGetsTheKey ==
    \A s \in Sessions \ DubiousKeys, b \in Bobs :
        published[s] = <<Verified(b)>> ~> screen[b] = "step-bob-pass"

\* How a state of the protocol is seen as a state of the one-time gate: judged
\* is what is stored and announced, handed over is what arrived in the tab.
GateOf(s) == IF s \notin issued THEN "unused"
             ELSE IF hash[s].phase = "WAITING_FOR_BOB" THEN "open" ELSE "shut"

WinnerOf(s) == IF published[s] = <<>> THEN Null ELSE published[s][1].bob_pubkey_jwk

KeyHolders == {<<link[b], b>> : b \in {c \in Bobs : alicePubkey[c] # Null}}

Gate == INSTANCE OneTimeGate WITH
    gate <- [s \in Sessions |-> GateOf(s)],
    winner <- [s \in Sessions |-> WinnerOf(s)],
    holders <- KeyHolders

\* The whole of this, with all its faults, implements the one-time gate.
GateSpec == Gate!Spec
=============================================================================
