----------------------------- MODULE AlicePage -----------------------------
(***************************************************************************)
(* One tab of /verify in which Alice makes one session after another: her  *)
(* half of static/js/session.js, on the page templates/index.html, with    *)
(* the form counters of static/js/ui.js and the log of static/js/debug.js. *)
(*                                                                         *)
(* initAlice, create, onmessage and the callback of reset are asynchronous *)
(* functions that share aliceKeyPair, currentSessionId and the elements of *)
(* the page; each is a sequence of steps that end where it awaits, and any *)
(* other may run there.  The server is reduced to what it stores, and the  *)
(* stream to which events may arrive: EventStream models how.              *)
(*                                                                         *)
(* Faults names the failures of a model, MaxFaults bounds how many happen: *)
(*   "key_fails"      WebCrypto rejects a key generation or export         *)
(*   "refused"        POST /session or the stream answered with an error   *)
(*   "response_lost"  create() is thrown out of an await: its request or   *)
(*                    response is lost, perhaps after the session is stored*)
(*   "dropped"        the EventSource loses its connection, and reconnects *)
(* That Bob's key cannot be imported is not one of them: DubiousKeys of    *)
(* BrowserCrypto says which keys may be so.                                *)
(***************************************************************************)
EXTENDS SessionStore, Scoring, BrowserCrypto, DebugPanel

CONSTANTS Scores,            \* the scores an answer may get, in millionths
          Faults, MaxFaults,
          MaxKeys,           \* bound on the key pairs the tab generates
          DebugPanelLoaded   \* the page includes debug.js

ASSUME ScoresAssumption == Scores \subseteq Int
ASSUME MaxFaultsAssumption == MaxFaults \in Nat
ASSUME MaxKeysAssumption == MaxKeys \in Nat \ {0}
ASSUME DebugPanelAssumption == DebugPanelLoaded \in BOOLEAN

VARIABLES screen,         \* the screen shown
          newest,         \* the key pairs asked for so far, named 1, 2, ...
          keyTask,        \* keyTask[k]: how far the task that makes pair k is
          aliceKeyPair,   \* 0 is null
          createDisabled, \* create-btn.disabled
          keysReady,      \* key-status has the class "ready"
          form,           \* the form is filled in
          counted,        \* the counters show the length of what is in it
          post,           \* the create() under way
          current,        \* currentSessionId, and the session of currentLink
          shared,         \* sessions whose link left the tab
          keyOf,          \* keyOf[s]: the pair whose public half is in session s
          es,             \* es[s]: the EventSource of s and its onmessage
          message,        \* message[s]: the result event it handles
          secret,         \* secret[s]: the key derived for s
          percent,        \* percent[s]: the score announced for s
          stored,         \* stored[s]: the similarity_score in the hash of s
          faults

keyVars    == <<newest, keyTask, aliceKeyPair>>
formVars   == <<createDisabled, keysReady, form, counted>>
createVars == <<post, current, shared, keyOf>>
streamVars == <<es, message, secret>>
scoreVars  == <<percent, stored>>
vars == <<storeVars, panelVars, screen, keyVars, formVars, createVars, streamVars,
          scoreVars, faults>>

-----------------------------------------------------------------------------
Screens == {"none", "step-landing", "step-create", "step-waiting",
            "step-alice-pass", "step-alice-fail"}

KeyPairs == 1 .. MaxKeys
NoKey == 0

NoPost == [stage |-> "none", key |-> NoKey, session |-> Null]
NoMessage == [bob |-> Null, score |-> 0]

Fault(kind) ==
    /\ kind \in Faults
    /\ faults < MaxFaults
    /\ faults' = faults + 1

Init ==
    /\ StoreInit
    /\ PanelInit
    /\ screen = "none"
    /\ newest = 0
    /\ keyTask = [k \in KeyPairs |-> "none"]
    /\ aliceKeyPair = NoKey
    /\ createDisabled = TRUE
    /\ keysReady = FALSE
    /\ form = FALSE
    /\ counted = FALSE
    /\ post = NoPost
    /\ current = Null
    /\ shared = {}
    /\ keyOf = [s \in Sessions |-> NoKey]
    /\ es = [s \in Sessions |-> "none"]
    /\ message = [s \in Sessions |-> NoMessage]
    /\ secret = [s \in Sessions |-> {}]
    /\ percent = [s \in Sessions |-> 0]
    /\ stored = [s \in Sessions |-> 0]
    /\ faults = 0

-----------------------------------------------------------------------------
(* The key pair.                                                           *)

GenerateKeyPair ==
    /\ newest < MaxKeys
    /\ newest' = newest + 1
    /\ keyTask' = [keyTask EXCEPT ![newest + 1] = "generating"]
    /\ UNCHANGED aliceKeyPair

\* The page is loaded: initAlice up to its first await.  Without debug.js, emit
\* is a ReferenceError, and so is the one in the catch: no key is asked for.
Boot ==
    /\ screen = "none"
    /\ screen' = "step-landing"
    /\ IF DebugPanelLoaded
       THEN GenerateKeyPair /\ Emit(<<"generating keys">>)
       ELSE UNCHANGED <<keyVars, panelVars>>
    /\ UNCHANGED <<storeVars, formVars, createVars, streamVars, scoreVars, faults>>

KeyPairGenerated(k) ==
    /\ keyTask[k] = "generating"
    /\ keyTask' = [keyTask EXCEPT ![k] = "exporting"]
    /\ aliceKeyPair' = k
    /\ UNCHANGED <<storeVars, panelVars, screen, newest, formVars, createVars, streamVars,
                   scoreVars, faults>>

PublicKeyExported(k) ==
    /\ keyTask[k] = "exporting"
    /\ keyTask' = [keyTask EXCEPT ![k] = "done"]
    /\ keysReady' = TRUE
    /\ createDisabled' = FALSE
    /\ Emit(<<"keypair generated">>)
    /\ UNCHANGED <<storeVars, screen, newest, aliceKeyPair, form, counted, createVars,
                   streamVars, scoreVars, faults>>

\* initAlice catches it and logs; in reset the rejection is unhandled.
KeyFails(k) ==
    /\ Fault("key_fails")
    /\ keyTask[k] \in {"generating", "exporting"}
    /\ keyTask' = [keyTask EXCEPT ![k] = "failed"]
    /\ \/ k = 1 /\ Emit(<<"keypair failed">>)
       \/ k # 1 /\ UNCHANGED panelVars
    /\ UNCHANGED <<storeVars, screen, newest, aliceKeyPair, formVars, createVars, streamVars,
                   scoreVars>>

-----------------------------------------------------------------------------
(* The form, and create().                                                 *)

StartVerification ==
    /\ screen = "step-landing"
    /\ screen' = "step-create"
    /\ UNCHANGED <<storeVars, panelVars, keyVars, formVars, createVars, streamVars,
                   scoreVars, faults>>

\* Each input event updates the counter of its field.
FillForm ==
    /\ screen = "step-create"
    /\ ~form
    /\ form' = TRUE
    /\ counted' = TRUE
    /\ UNCHANGED <<storeVars, panelVars, screen, keyVars, createDisabled, keysReady,
                   createVars, streamVars, scoreVars, faults>>

\* create() up to its first await; with an empty field or no key pair it ends
\* in an alert.  The bound on sessions is here: some id must be left.
ClickCreate ==
    /\ screen = "step-create"
    /\ ~createDisabled
    /\ form
    /\ aliceKeyPair # NoKey
    /\ issued # Sessions
    /\ createDisabled' = TRUE
    /\ post' = [stage |-> "exporting", key |-> aliceKeyPair, session |-> Null]
    /\ UNCHANGED <<storeVars, panelVars, screen, keyVars, keysReady, form, counted, current,
                   shared, keyOf, streamVars, scoreVars, faults>>

PostSession ==
    /\ post.stage = "exporting"
    /\ post' = [post EXCEPT !.stage = "posted"]
    /\ Emit(<<"POST session">>)
    /\ UNCHANGED <<storeVars, screen, keyVars, formVars, current, shared, keyOf, streamVars,
                   scoreVars, faults>>

\* The handler of POST /session, with the key in the request.
ServerCreates(s, a) ==
    /\ post.stage = "posted"
    /\ Create(s, a)
    /\ post' = [post EXCEPT !.stage = "created", !.session = s]
    /\ keyOf' = [keyOf EXCEPT ![s] = post.key]
    /\ UNCHANGED <<panelVars, screen, keyVars, formVars, current, shared, streamVars,
                   scoreVars, faults>>

\* Mutant: the button stays as it is.
ButtonAfterErrorKept == createDisabled

ButtonAfterError == FALSE

\* create() ends with an alert and the form as it was.
CreateEndsInAlert ==
    /\ post' = NoPost
    /\ createDisabled' = ButtonAfterError
    /\ UNCHANGED <<storeVars, screen, keyVars, keysReady, form, counted, current, shared,
                   keyOf, streamVars, scoreVars>>

\* !resp.ok: 400, 429 or 503, and nothing was stored.
CreateRefused ==
    /\ Fault("refused")
    /\ post.stage = "posted"
    /\ CreateEndsInAlert
    /\ UNCHANGED panelVars

\* The catch.  If the session was stored, or is stored later, nobody knows it.
CreateFails ==
    /\ Fault("response_lost")
    /\ post.stage # "none"
    /\ CreateEndsInAlert
    /\ Emit(<<"creation failed">>)

\* create() from the response on, and connectAliceSSE.
CreateSucceeds ==
    /\ post.stage = "created"
    /\ post' = NoPost
    /\ current' = post.session
    /\ screen' = "step-waiting"
    /\ es' = [es EXCEPT ![post.session] = "connecting"]
    /\ Emit(<<"session created", "phase WAITING_FOR_BOB", "answer embedded", "stream opened">>)
    /\ UNCHANGED <<storeVars, keyVars, formVars, shared, keyOf, message, secret, scoreVars,
                   faults>>

\* Alice gives the link away: by copyLink, from the screen or as the QR code.
ShareLink ==
    /\ screen = "step-waiting"
    /\ current # Null
    /\ shared' = shared \cup {current}
    /\ UNCHANGED <<storeVars, panelVars, screen, keyVars, formVars, post, current, keyOf,
                   streamVars, scoreVars, faults>>

-----------------------------------------------------------------------------
(* The session on the server.                                              *)

\* POST /verify judges an answer of somebody who has the link.
Decide(s, b, score) ==
    /\ s \in shared
    /\ FinalizeOutcome(s) = "done"
    /\ Finalize(s, VerdictUpdate(b, Passes(score)), VerdictEvent(b, Passes(score)))
    /\ \E p \in Percent(score) : percent' = [percent EXCEPT ![s] = p]
    /\ \E f \in Stored(score) : stored' = [stored EXCEPT ![s] = f]
    /\ UNCHANGED <<panelVars, screen, keyVars, formVars, createVars, streamVars, faults>>

\* The time to live runs out, or DELETE /session is called.
Vanish(s) ==
    /\ Expire(s)
    /\ UNCHANGED <<panelVars, screen, keyVars, formVars, createVars, streamVars, scoreVars,
                   faults>>

-----------------------------------------------------------------------------
(* The EventSource of a session, and its onmessage.                        *)

\* The response has begun, and onmessage gets CONNECTED.
StreamConnected(s) ==
    /\ es[s] = "connecting"
    /\ es' = [es EXCEPT ![s] = "open"]
    /\ Emit(<<"SSE CONNECTED">>)
    /\ UNCHANGED <<storeVars, screen, keyVars, formVars, createVars, message, secret, scoreVars,
                   faults>>

\* What may arrive on the stream of s: the result as it was announced, or as it
\* is rebuilt from the hash.
Arrivals(s) ==
    {[event |-> published[s][i], score |-> percent[s]] : i \in DOMAIN published[s]} \cup
    {[event |-> TerminalEvent(hash[s]), score |-> p] : p \in RebuiltPercent(stored[s])}

\* Mutant: FAILED does not close the EventSource.
StreamAfterOpenOnFailed(e) ==
    CASE e.event = "VERIFIED" -> "importing"
      [] e.event = "FAILED"   -> "open"
      [] e.event = "EXPIRED"  -> "closed"

StreamAfter(e) ==
    CASE e.event = "VERIFIED" -> "importing"
      [] e.event = "FAILED"   -> "closed"
      [] e.event = "EXPIRED"  -> "closed"

\* Mutant: the open channel is shown before the awaits.
ScreenAfterEager(e) ==
    CASE e.event = "VERIFIED" -> "step-alice-pass"
      [] e.event = "FAILED"   -> "step-alice-fail"
      [] e.event = "EXPIRED"  -> "step-create"

\* Mutant: FAILED leaves the screen as it is.
ScreenAfterNoFail(e) == IF e.event = "EXPIRED" THEN "step-create" ELSE screen

\* VERIFIED leaves the screen to what follows the awaits.
ScreenAfter(e) ==
    CASE e.event = "VERIFIED" -> screen
      [] e.event = "FAILED"   -> "step-alice-fail"
      [] e.event = "EXPIRED"  -> "step-create"

\* onmessage for event e, up to its first await.
OnMessage(s, e) ==
    /\ es[s] = "open"
    /\ es' = [es EXCEPT ![s] = StreamAfter(e)]
    /\ screen' = ScreenAfter(e)

DeliverVerified(s, m) ==
    /\ m \in Arrivals(s)
    /\ m.event.event = "VERIFIED"
    /\ OnMessage(s, m.event)
    /\ message' = [message EXCEPT ![s] = [bob |-> m.event.bob_pubkey_jwk, score |-> m.score]]
    /\ Emit(<<"SSE VERIFIED", "importing key">>)
    /\ UNCHANGED <<storeVars, keyVars, formVars, createVars, secret, scoreVars, faults>>

DeliverFailed(s, m) ==
    /\ m \in Arrivals(s)
    /\ m.event.event = "FAILED"
    /\ OnMessage(s, m.event)
    /\ message' = [message EXCEPT ![s] = [bob |-> Null, score |-> m.score]]
    /\ Emit(<<"SSE FAILED", "phase FAILED">>)
    /\ UNCHANGED <<storeVars, keyVars, formVars, createVars, secret, scoreVars, faults>>

\* importPublicKey resolved: deriveSharedKey is called with the private key that
\* aliceKeyPair holds by now.
ImportBobKey(s) ==
    /\ es[s] = "importing"
    /\ es' = [es EXCEPT ![s] = "deriving"]
    /\ secret' = [secret EXCEPT ![s] = DeriveSharedKey(aliceKeyPair, message[s].bob)]
    /\ UNCHANGED <<storeVars, panelVars, screen, keyVars, formVars, createVars, message,
                   scoreVars, faults>>

\* importPublicKey rejected and nothing catches it: the EventSource is closed,
\* the screen stays.  (For a JWK with no x, sseEvent throws before anything is
\* done or logged: that VERIFIED is never delivered, and StreamDropped is what
\* follows, each time the browser reconnects.)
ImportFails(s) ==
    /\ es[s] = "importing"
    /\ message[s].bob \in DubiousKeys
    /\ es' = [es EXCEPT ![s] = "failed"]
    /\ UNCHANGED <<storeVars, panelVars, screen, keyVars, formVars, createVars, message,
                   secret, scoreVars, faults>>

ShowVerified(s) ==
    /\ es[s] = "deriving"
    /\ es' = [es EXCEPT ![s] = "closed"]
    /\ screen' = "step-alice-pass"
    /\ Emit(<<"shared key derived", "phase VERIFIED">>)
    /\ UNCHANGED <<storeVars, keyVars, formVars, createVars, message, secret, scoreVars, faults>>

\* onerror, on any status but 200: 404 for a session that is gone, or 503.
StreamGivesUp(s) ==
    /\ es[s] = "connecting"
    /\ \/ hash[s].phase = "ABSENT" /\ UNCHANGED faults
       \/ Fault("refused")
    /\ es' = [es EXCEPT ![s] = "gave_up"]
    /\ Emit(<<"stream closed">>)
    /\ UNCHANGED <<storeVars, screen, keyVars, formVars, createVars, message, secret, scoreVars>>

\* onerror when the connection failed or ended: the browser reconnects.
StreamDropped(s) ==
    /\ Fault("dropped")
    /\ es[s] \in {"connecting", "open"}
    /\ es' = [es EXCEPT ![s] = "connecting"]
    /\ Emit(<<"stream dropped">>)
    /\ UNCHANGED <<storeVars, screen, keyVars, formVars, createVars, message, secret, scoreVars>>

-----------------------------------------------------------------------------
(* reset().                                                                *)

\* Mutant: the button is enabled at once.
ButtonAfterResetEnabled == FALSE

ButtonAfterReset == TRUE

\* Mutant: no new key pair is made.
ResetKeepsKeys ==
    /\ form' = FALSE
    /\ counted' = FALSE
    /\ createDisabled' = ButtonAfterReset
    /\ keysReady' = FALSE
    /\ current' = Null
    /\ UNCHANGED keyVars

\* aliceKeyPair stays what it was until the new pair is there.
Reset ==
    /\ form' = FALSE
    /\ counted' = FALSE
    /\ createDisabled' = ButtonAfterReset
    /\ keysReady' = FALSE
    /\ current' = Null
    /\ GenerateKeyPair

\* "Start New Verification" and "Try Again".
StartNew ==
    /\ screen \in {"step-alice-pass", "step-alice-fail"}
    /\ Reset
    /\ screen' = "step-create"
    /\ Emit(<<"generating fresh keys">>)
    /\ UNCHANGED <<storeVars, post, shared, keyOf, streamVars, scoreVars, faults>>

\* EXPIRED: Alice is alerted and sent back to the form.
DeliverExpired(s) ==
    /\ TerminalEvent(hash[s]) = Expired
    /\ OnMessage(s, Expired)
    /\ Reset
    /\ Emit(<<"SSE EXPIRED", "expired", "generating fresh keys">>)
    /\ UNCHANGED <<storeVars, post, shared, keyOf, message, secret, scoreVars, faults>>

-----------------------------------------------------------------------------
ClickPanel ==
    /\ Click
    /\ UNCHANGED <<storeVars, screen, keyVars, formVars, createVars, streamVars, scoreVars,
                   faults>>

MakeKeys(k) == KeyPairGenerated(k) \/ PublicKeyExported(k)

RunCreate ==
    \/ PostSession
    \/ \E s \in Sessions, a \in Answers : ServerCreates(s, a)
    \/ CreateSucceeds

Deliver(s) ==
    \/ \E m \in Arrivals(s) : DeliverVerified(s, m) \/ DeliverFailed(s, m)
    \/ DeliverExpired(s)

HandleVerified(s) == ImportBobKey(s) \/ ShowVerified(s)

Next ==
    \/ Boot
    \/ StartVerification
    \/ FillForm
    \/ ClickCreate
    \/ RunCreate
    \/ CreateRefused
    \/ CreateFails
    \/ ShareLink
    \/ StartNew
    \/ ClickPanel
    \/ \E k \in KeyPairs : MakeKeys(k) \/ KeyFails(k)
    \/ \E s \in Sessions :
          \/ \E b \in Bobs, score \in Scores : Decide(s, b, score)
          \/ Vanish(s)
          \/ StreamConnected(s)
          \/ Deliver(s)
          \/ HandleVerified(s)
          \/ ImportFails(s)
          \/ StreamGivesUp(s)
          \/ StreamDropped(s)

Spec == Init /\ [][Next]_vars

\* No key was announced for s whose event might not get through onmessage.
Sound(s) == \A i \in DOMAIN published[s] : published[s][i].bob_pubkey_jwk \notin DubiousKeys

\* The page boots, WebCrypto and fetch settle, the server answers, also to an
\* EventSource, and what the stream promises (EventStream) arrives.  Alice need
\* not do anything.
Fairness ==
    /\ WF_vars(Boot)
    /\ WF_vars(RunCreate)
    /\ WF_vars(\E k \in KeyPairs : MakeKeys(k))
    /\ WF_vars(\E s \in Sessions : StreamConnected(s) \/ StreamGivesUp(s))
    /\ WF_vars(\E s \in Sessions : Sound(s) /\ Deliver(s))
    /\ WF_vars(\E s \in Sessions : HandleVerified(s))

FairSpec == Spec /\ Fairness

-----------------------------------------------------------------------------
\* Type invariant.
TypeOK ==
    /\ StoreTypeOK
    /\ PanelTypeOK
    /\ screen \in Screens
    /\ newest \in 0 .. MaxKeys
    /\ keyTask \in [KeyPairs -> {"none", "generating", "exporting", "done", "failed"}]
    /\ aliceKeyPair \in KeyPairs \cup {NoKey}
    /\ createDisabled \in BOOLEAN
    /\ keysReady \in BOOLEAN
    /\ form \in BOOLEAN
    /\ counted \in BOOLEAN
    /\ post \in [stage : {"none", "exporting", "posted", "created"},
                 key : KeyPairs \cup {NoKey}, session : Sessions \cup {Null}]
    /\ current \in Sessions \cup {Null}
    /\ shared \in SUBSET Sessions
    /\ keyOf \in [Sessions -> KeyPairs \cup {NoKey}]
    /\ es \in [Sessions -> {"none", "connecting", "open", "importing", "deriving", "failed",
                            "gave_up", "closed"}]
    /\ message \in [Sessions -> [bob : Bobs \cup {Null}, score : Int]]
    /\ secret \in [Sessions -> SUBSET (KeyPairs \cup Bobs \cup {NoKey, Null})]
    /\ percent \in [Sessions -> Int]
    /\ stored \in [Sessions -> Int]
    /\ faults \in 0 .. MaxFaults

Tried == {s \in Sessions : es[s] # "none"}

\* A result screen is about the session Alice is at, however many she had
\* before in this tab and whatever is still under way for them.
VerdictIsForCurrentSession ==
    /\ screen = "step-alice-pass" =>
          current # Null /\ published[current] = <<Verified(message[current].bob)>>
    /\ screen = "step-alice-fail" => current # Null /\ published[current] = <<Failed>>

\* "Identity Verified. The channel is now open": what Alice then encrypts is
\* readable with the key Bob derived, from the public key the server stored for
\* the session, although reset() replaces aliceKeyPair for the next one.
ChannelWorks ==
    \A s \in Sessions :
        current = s /\ screen = "step-alice-pass" =>
            \E b \in Bobs :
                /\ published[s] = <<Verified(b)>>
                /\ Decrypts(DeriveSharedKey(b, keyOf[s]), Encrypt(secret[s], "iv", "hello"), "hello")

\* "New ECDH keys required": no two sessions Alice waited on have one key pair.
FreshKeyPerSession ==
    \A s, t \in Tried : keyOf[s] = keyOf[t] => s = t

\* The percentage Alice reads is at most one off the one Bob was told, and never
\* on the wrong side of the threshold, rebuilt or not.
ShownScoreIsFair ==
    /\ screen = "step-alice-pass" => message[current].score >= 75
    /\ screen = "step-alice-fail" => message[current].score <= 75
    /\ screen \in {"step-alice-pass", "step-alice-fail"} =>
          message[current].score - percent[current] \in -1 .. 1

\* "The debug panel shows exactly what's happening": the last phase in the log,
\* unless it was cleared, is the one on the screen.
PhaseOnScreen ==
    CASE screen = "step-waiting"    -> {"phase WAITING_FOR_BOB"}
      [] screen = "step-alice-pass" -> {"phase VERIFIED"}
      [] screen = "step-alice-fail" -> {"phase FAILED"}
      [] OTHER                      -> Entries

LogMatchesScreen ==
    \A i \in DOMAIN entries :
        entries[i] \in {"phase WAITING_FOR_BOB", "phase VERIFIED", "phase FAILED"} =>
            \/ entries[i] \in PhaseOnScreen
            \/ \E j \in DOMAIN entries :
                  j > i /\ entries[j] \in PhaseOnScreen

\* Alice at the form gets a usable button, unless WebCrypto failed her.
KeysGetReady ==
    screen = "step-create" ~>
        \/ ~createDisabled
        \/ screen # "step-create"
        \/ \E k \in KeyPairs : keyTask[k] = "failed"

\* A create() under way ends: she waits for Bob, or may try again.
CreateEnds == post.stage # "none" ~> screen = "step-waiting" \/ ~createDisabled

\* While her stream lives and Bob's key is sound, a result gets to her screen.
VerdictArrives ==
    screen = "step-waiting" /\ (\E s \in Sessions :
                                   current = s /\ published[s] # <<>> /\ Sound(s))
        ~> screen # "step-waiting" \/ \E s \in Sessions : es[s] = "gave_up"
=============================================================================
