# Formal model of doppelganger-web

TLA+ specifications of the browser reference implementation of the Doppelgänger
Protocol, checked with TLC on small instances, with the main safety results proved
with TLAPS for every value of the constants.  Paths such as `app/routes/verify.py`
are relative to `src/`.

## 1. The system

Alice writes a memory question and her answer; the server stores the answer's
embedding and her ECDH public key under a one-time link.  Bob opens the link and
answers.  If the embeddings are close enough, each side gets the other's public key
and both derive the same secret.  A session may be answered once, and lives
`SESSION_TTL_SECONDS`.

### Inventory

| Component | State | Operations | Talks to |
|---|---|---|---|
| **Session store** `services/session_store.py`, `utils/session_id.py` | Redis hash `session:<id>` with a TTL; pub/sub channel `session:<id>:events` | `create` (MULTI: HSET, EXPIRE), `get`, `get_phase`, `finalize` (Lua: EXISTS, phase check, HSET, PUBLISH), `terminal_event`, `delete`, expiry by Redis | called by every route; PUBLISH reaches the event hubs |
| **Verify handler** `routes/verify.py` | locals of one greenlet: the session it read, the score | rate limit, validate, load, early rejection, embed, score, finalize, respond | store, embedding client, Bob's tab |
| **Session routes** `routes/session.py` | none | POST, GET, DELETE `/session` | store, embedding client, both tabs |
| **Bob's tab** `static/js/session.js` (`initBob`, `submitAnswer`), `templates/session.html` | screen, key pair, the POST it awaits | open link, fetch the session, submit, retry, import Alice's key | session and verify routes |
| **Event stream** `routes/stream.py` | one generator per response: queue, deadline | phase check, subscribe, state check, receive, heartbeat, cap, unsubscribe | store, hub, Alice's tab |
| **Event hub** `services/event_hub.py` | per worker: queues by session, listener thread, its Redis connection | subscribe, unsubscribe, listen, dispatch, reconnect | Redis pub/sub, streams |
| **Alice's tab** `session.js` (`initAlice`, `create`, `connectAliceSSE`, `reset`), `templates/index.html` | screen, key pair, current session, form and its button, one EventSource per session | make keys, create, share, connect, reconnect, show the result, reset | session routes, event stream, debug panel |
| **Embedding client** `services/embedding_client.py` | per worker: 16 slots, HTTP session | acquire a slot, at most two attempts, release | external embedding service |
| **Redis client** `services/redis_client.py` | per process: one pool, and the pid it was made under | lazy creation under a lock, again after a fork | store |
| **Score arithmetic** `services/embedding_client.py`, `routes/verify.py`, `services/session_store.py` | none | threshold, rounding for the announcement, for the hash, and from the hash | verify handler, rebuilt events |
| **Debug panel** `static/js/debug.js` | open flag, entries, their count, placeholder, dot, scroll | open, close, clear, emit | both tabs |
| **Validators, rate limits, errors** `utils/validators.py`, `app/__init__.py`, `config.py` | counters in Redis | refuse with 400 or 429; RedisError becomes 503 | before and around every route |
| **Cryptography** `static/js/crypto.js` | none | ECDH P-256 through WebCrypto | both tabs |
| **Screens** `static/js/ui.js` | the visible screen, the form counters | `showStep`, counters | both tabs |
| **Pages, QR code, page scripts** `routes/pages.py`, `services/qr.py`, `wsgi.py`, `static/js/sse.js` | none | rendering; `sse.js` is loaded, but its function is never called | – |

### What is hard here

* **Concurrency.**  Every request is a greenlet; every Redis or embedding call lets
  others run.  `verify` reads the session, then spends up to a minute in the
  embedding service, then finalizes: the session may have been answered, deleted or
  have expired meanwhile.  A tab that lost its connection retries while its first POST
  still runs.
* **Partial failure.**  A Lua script may have run although its reply timed out; a
  response may break between headers and body; an error status may be taken for
  something else by the page; `validators.py` looks at `kty` and `crv` only, so a public
  key that the server takes may be one that a browser refuses to import.
* **Lossy notification.**  Redis pub/sub keeps nothing.  A listener that is starting or
  reconnecting, a stream that is not open, a crashed worker: each loses the message,
  and the state check at (re)connection and at each heartbeat must make up for it,
  rebuilding the very event that was published.
* **Time.**  TTL, heartbeat, stream cap, socket timeouts, slot wait, reconnection delay.
* **Resources.**  Queues of readers that are gone, streams of dead sessions, slots.
* **Shared page state.**  `create`, `onmessage` and `reset` are asynchronous functions that
  read `aliceKeyPair` and `currentSessionId` after an await, when another may have replaced
  them.  Nothing tests for it: that it is harmless rests on one button being disabled.
* **Real threads.**  gunicorn runs greenlets, `flask run` threads, and either may fork after
  the module-level singletons were made.
* **Numbers.**  A percentage is rounded once for the announcement and twice for the event
  rebuilt from the hash.

### What makes each component correct

* Store: a result is announced at most once; the rebuilt event is the announced one;
  a session never reopens, and Alice's part of it is never rewritten.
* Verification: one answer decides; what is announced was earned by a posted answer;
  Alice's key goes to the announced winner only; both ends of an open channel derive
  the same secret; the screens tell Bob the truth; scoring ends; a winner gets the key.
* Event stream: Alice's screen shows her session's verdict and the announced key;
  she is told of an expiry only when the session is gone; she learns a stored result
  in spite of losses; streams end and leave no queue behind.
* A worker process: one Redis client and one listener for all its requests, before and
  after a fork; slots neither leaked nor released twice; no queue left behind and none cut
  off; every request ends.
* Alice's tab: a result screen, the secret under it, the percentage and the log are those
  of the session she is at; keys are not reused; neither the form nor the waiting screen
  holds her for ever.
* Debug panel: its parts agree with its entries in whatever order clicks and events come.

## 2. Modules

```
SessionStore ──┬─> Verification ──(refines)──> OneTimeGate
               │        │
               │        ├── Doppelganger ──(refines)──> Rendezvous
               │        │
               ├─> EventStream
               └─> AlicePage <── Scoring, BrowserCrypto, DebugPanel

ServerProcess ──> RedisClient, EmbeddingClient, EventHub ──> Worker
```

`MCVerification`, `MCEventStream`, `MCDoppelganger`, `MCAlicePage` and `MCWorker`
instantiate the five systems for TLC.  The proofs are in `SessionStoreProofs`,
`VerificationProofs`, `EventStreamProofs`, `DoppelgangerProofs`, `ScoringProofs`,
`AlicePageProofs` and `WorkerProofs`.

### `SessionStore`

One action per atomic Redis operation, which the other modules use as the effect
of their handlers on the store.

| TLA+ | Code |
|---|---|
| `hash[s]`, `published[s]`, `issued` | the hash, everything ever PUBLISHed on the channel, the ids handed out |
| `Create`, `Finalize`, `Delete`, `Expire` | `create`, `_FINALIZE_LUA`, `delete`, Redis removing the key |
| `TerminalEvent(h)` | `terminal_event`, from what HMGET answers |
| `VerdictUpdate`, `VerdictEvent` | the pairs and the event `verify` builds |

Abstractions: a public key is named by the tab that made it; an embedding by the
answer it was computed from; the score is its comparison with the threshold, hence the
phase.  Names, the question and `created_at` influence no control.  Ids are taken
never to repeat (256 random bits).

### `Verification`

`Bobs` are tabs, `Requests` are POSTs.  A handler's `pc` goes from `received` (load) to
`scoring` (embed and finalize) to `answered`; `snapshot[r]` is the session as it read it.
`FinalizeAnswer` is everything from the score to the response, as nothing else runs
between the script's reply and the response.  `LoadSession` includes the early 409,
and the rate limiter and the validator (`Refuse`) come first as in the code.  In the
tab, `ScreenAfter` is the chain of conditions after the `fetch`, and `LoseConnection` its
`catch`: the POST may have been lost, or its handler runs on without a reader.
`ImportFails` is a `PASS` whose key is rejected by `importPublicKey` or `deriveSharedKey`:
their awaits are inside the same `try`, so the tab goes back to the challenge.

`Faults` selects what may fail, so that a run can say exactly which failures a property
withstands: see the module's header for the list and the status each leads to.

### `OneTimeGate`

The abstract promise: each session is a gate that opens once and shuts once, perhaps
naming a winner, and Alice's key is handed to that winner only.  `Verification!Gate`
maps the protocol to it: judged is what is stored and announced, handed over is what
has arrived in a tab.

### `EventStream`

Streams are responses to GET `/stream`, each on a worker with a hub.  `spc` goes from
`opened` (headers sent) to `checking` (subscribed) to `waiting` (in `q.get`) to `closed`.
The phase check is in `Connect`; `Check` is the state check after subscribing;
`Receive`, `Heartbeat` and `CapReached` are the three ways to send a final event;
`WriteFails`, `StreamStoreError` and `WorkerCrash` the ways to end without one.  `End`
is the `finally`.  A hub is a listener (`off`, `starting`, `listening`), the messages
buffered on its connection (`inbox`), and the set of queues it holds (`registry`).
The EventSource follows the HTML standard as the page uses it: it reconnects when a
response ends or breaks, and fails for good on any status but 200.  `ImportFails` is a
VERIFIED with a key that cannot be imported: the EventSource is closed or, if the JWK has
no `x`, stays open, as `ProtocolLog.sseEvent` throws before `es.close()`.

Greenlet granularity: `unsubscribe` and one round of dispatch contain no switch under
gevent and are atomic here.  So is `subscribe`, which may switch inside `Thread.start` at
its end; the stream's next step is `Check`, so that others run between the two anyway.
A keepalive changes nothing in Alice's tab, and `CONNECTED` only her log, which
`AlicePage` has (`StreamConnected`).  What `verify` does to the session is reduced to the
store's `Finalize` with some verdict.

### `Doppelganger`

The whole protocol: `Verification` and an instance of `EventStream` over the one store.
Each of the two reduces the other side to what it may do to the store.  Here a step that
leaves the store alone is a step of one side (`BobsSide`, `AlicesSide`), and one that
changes it is a step of both: `Created` (POST `/session` and Alice's EventSource),
`Removed` (DELETE or the TTL) and `Judged` (the handler's finalize, whose PUBLISH reaches
the hubs that listen).  A session's id also names its Alice.

### `Rendezvous`

The abstract promise to Alice and Bob together: a session is judged at most once, is
forgotten some time later, its winner receives Alice's key at any time after, and Alice
is told one thing, once: the verdict with the winner's key, or, of a session that is
forgotten, that it expired.  `Doppelganger!Meeting` maps the system to it: `phase` and
`verdict` from the store, `holders` from Bob's tabs, `told` and `partner` from Alice's.

### `AlicePage`

One tab of Alice's over several sessions.  Each asynchronous function is cut where it
awaits; what `EventStream` says of the way an event takes is reduced to `Arrivals`.

| TLA+ | Code |
|---|---|
| `keyTask[k]`, `aliceKeyPair`, `keysReady`, `createDisabled` | each `generateKeyPair` under way, the module-level pair, the key status, the button |
| `post`, `current`, `keyOf[s]`, `shared` | the `create()` under way, `currentSessionId`, the key the server stored, the links given away |
| `es[s]`, `message[s]`, `secret[s]` | the EventSource of `s` and the locals of its `onmessage` |
| `Boot`, `KeyPairGenerated`, `PublicKeyExported`, `KeyFails` | `initAlice`, and the same task in `reset` |
| `ClickCreate`, `PostSession`, `ServerCreates`, `CreateSucceeds`, `CreateRefused`, `CreateFails` | `create` by its awaits, its `!resp.ok` and its `catch` |
| `StreamConnected`, `DeliverVerified`, `DeliverFailed`, `DeliverExpired`, `ImportBobKey`, `ShowVerified`, `ImportFails` | `onmessage` by its events and its awaits |
| `StreamGivesUp`, `StreamDropped` | `onerror` |
| `StartNew` | the two buttons that call `reset` |

`Decide` is the server judging an answer; its score goes through `Scoring`, where a score
is a number of millionths and a tie may be rounded either way, because Python rounds the
binary float.  `BrowserCrypto` is symbolic: a derived key is the pair of names it was
derived from, and `DubiousKeys` are the public keys whose import may be rejected.
`DebugPanel` keeps an entry as the event it reports; every emit of Alice's half is part of
the action that makes it.  (Of a JWK without `x` no entry is made: the page sees of it what
`StreamDropped` does.)  Its style sheet and the bodies of the entries have no state.

### `Worker`

The requests of one process at the granularity of real threads, each a list of calls to
the services (`Handlers`).  `RedisClient` makes every access to `_client` and `_pid` a
step, `EventHub` every operation on the dict and the sets of queues, `EmbeddingClient`
every blocking point of `embed`.  `Init` is a fresh process or one forked from a process
that had served requests (`Inherited`, pid `"parent"`).  The fork is assumed to
happen while no thread of the parent holds a lock or a slot, that is, between its requests.  The streams of `EventHub` are of one
session, as sessions have different keys of the dict.  `overlapped` is a history variable.

## 3. Runs

The longest runs take three to four minutes.  No run checks deadlock: each system may stop,
when every tab has reached its last screen and every POST, stream, request or key pair of
the instance is used up; that it does not stop too early is what the liveness runs show.

| Run | Instance | Properties | Shows |
|---|---|---|---|
| `whole_system` | 1 session, 2 tabs, 2 POSTs with every fault of Bob's side, a doubtful key of Alice's; 1 worker, 2 streams with 1 fault: a lost listener, a crash, a store error or a refusal | `TypeOK`, `ChannelEndsAgree`, `OneSecretPerSession`, `RendezvousSpec` | both sides over one store: one secret comes out of a session at most, and the whole implements the rendezvous |
| `verify_two_sessions` | 2 sessions, both with a doubtful key, 2 tabs, 3 POSTs; store errors, lost replies, connections and bodies | the store's `StoreTypeOK`, `AnnouncedAtMostOnce`, `RebuiltEventIsAnnounced`, `NeverReopens`; `OneAnswerDecides`, `DecisionIsEarned`, `KeyOnlyForTheWinner`, `ExpiredScreenIsTruthful`, `GateSpec` | a race between tabs, and between a retry and the POST it replaces; the store under its real callers; no mixing of sessions; refinement of the gate |
| `verify_live` | 2 sessions, one with a doubtful key, 2 tabs, 2 POSTs; nothing lost | `FailScreenIsTruthful`, `ScoringEnds`, `WinnerGetsTheKey` | progress, and a failure that both sides see |
| `verify_locked_out` | 1 tab, 2 POSTs, `reply_lost` | `WinnerIsNotLockedOut` | violated, finding 1 |
| `verify_fetch_refused` | 1 tab, `fetch_refused` | `ExpiredScreenIsTruthful` | violated, finding 2 |
| `stream_faults` | 2 sessions, 1 tab of Bob's, 2 workers, 3 streams, 1 fault of any kind | `TypeOK`, `RegistryMatchesStreams`, `VerdictScreenIsTruthful`, `ExpiredOnlyWhenGone` | no queue leaks, no verdict reaches another session's Alice, no false expiry |
| `stream_live` | 1 session, 2 Bobs, one with a doubtful key, 1 worker, 3 streams, 2 faults, the cap | `AliceLearns`, `StreamsEnd`, `ExpiryIsNoticed` | progress in spite of losses |
| `stream_hung` | 1 refused connection | `AliceLearns` | violated, finding 3 |
| `stream_slips` | no fault | `NothingSlipsThrough` | violated, finding 4 |
| `alice_page` | 2 sessions, 2 key pairs, 2 Bobs, one with a doubtful key, 2 scores, 2 clicks, 1 fault of four kinds | `TypeOK`, `VerdictIsForCurrentSession`, `ChannelWorks`, `FreshKeyPerSession`, `ShownScoreIsFair`, `PanelInStep`, `LogMatchesScreen`, `KeysGetReady`, `CreateEnds`, `VerdictArrives` | nothing of one session shows in the next; progress |
| `alice_no_log` | the page without `debug.js` | `KeysGetReady` | violated, finding 5 |
| `worker` | 3 threads, 1 slot, fresh or forked | `TypeOK`, `OneClientPerProcess`, `SlotsConserved`, `OneListenerPerProcess`, `CutOffOnlyByOverlap`, `NothingLeaks`, `RequestsEnd` | the singletons and the hub under real threads |

### Bounds, and why they are enough

* On the server, sessions share nothing but a hub, so two show any mixing of them; races
  are within one.  In Alice's tab a session can be disturbed by those before it only
  through what `reset` leaves behind, so two sessions show it too, each with the key pair
  that the boot or the `reset` before it asked for.
* A doubtful key (in `DubiousKeys`) may be imported or rejected each time.  Where a property
  speaks of sound keys only, the run has one key of each kind; where it speaks of all, the
  keys of the run are doubtful, or, in `stream_faults`, left sound, as a rejected import only
  leaves the screen where it is; the theorems behind that run hold for any set.  A set
  over which a run has symmetry has all of its keys in `DubiousKeys` or none.
* The whole system needs one session only: that sessions do not mix is shown on each side.
  One worker and two streams give Alice a reconnection after a loss; the other faults of
  her side are in `stream_faults`.
* Two tabs are needed for two different winners; a third POST for a retry beside a
  rival.  A POST influences others only through the session's hash, which changes at
  most twice after its creation, so a fourth adds another loser.
* Two answers, matching when equal, give each POST a passing and a failing choice
  whichever of them Alice wrote.
* A stream ends for at most one reason, so three streams of two sessions serve one fault
  with one left to succeed, and three of one session serve two.  Two workers let a
  reconnect land on a hub with another state; for the liveness run one is enough, since
  after a crash its hub is a fresh one.
* The two scores are 74.996%, which fails and is shown as 75%, and 75.498%, which is
  announced as 75% and may be rebuilt as 76% or 75% once it was stored as 75.50%.
* Two clicks open the panel and clear or close it.
* Two threads race for a lock; the third makes a stream that subscribes while another of
  the session leaves, with a third still there.  One slot makes the others wait.
* `QueueSize` is the code's 10.  A session publishes at most one message
  (`AnnouncedAtMostOnce`), so `queue.Full` cannot happen, but the guard is modelled.
* The counters that are capped: `MaxFaults`, `MaxKeys`, `MaxClicks`.  `ClickCreate` needs a
  session id that is left.

### Fairness

`Verification!Fairness`: weak fairness of each handler's steps and of the delivery of a
response, which ends in its screen or in `ImportFails`, and of the fetch.  The slot wait (10 s), the HTTP timeouts (3 s, 20 s) and the
Redis timeouts (5 s) are finite and each leads to a response, so a handler never stays
where it is.  People (opening a link, submitting) and faults get none.

`EventStream!Fairness`: a stream's loop (a wait of at most 15 s, then a check or a write
that fails in the end if nobody reads), the browser's reading and its reconnection.
The hubs get none: a message may stay undelivered for ever, and the heartbeat alone
must carry the promise.  That is what makes `AliceLearns` say something.

`AlicePage!Fairness`: the page boots, WebCrypto and `fetch` settle, the server answers a
POST and an EventSource, and what `AliceLearns` promises arrives on it: the result of a
session that was not won with a doubtful key (`Sound`).  Alice, Bob, the TTL
and the faults get none.

`Worker!FairSpec`: each thread is scheduled.  It never waits for another for ever: a lock
is held for a few assignments, a slot wait ends by its timeout, the retry sleeps once,
and a stream ends by its cap (`StreamsEnd`).

### What the violations show

1. **A lost reply locks the winner out** (`verify_locked_out`).  The finalize script ran,
   its reply timed out: Alice is told VERIFIED, Bob gets 503, retries, gets 409 and reads
   that the link has expired.  He has no key, and cannot get it: nothing but the first
   response carries it.  The same follows from a lost connection.
2. **An error is shown as an expiry** (`verify_fetch_refused`).  `initBob` looks only for
   404 and otherwise reads `data.phase`, so 429, 503 or a failed fetch show "This link
   has expired" for an open session.
3. **One 503 hangs Alice** (`stream_hung`).  `get_phase` runs before the response starts;
   a Redis error there becomes a 503, after which an EventSource does not reconnect.
4. **The gap is not closed** (`stream_slips`).  `subscribe` starts the listener but does
   not wait for it to subscribe, so for the first stream of a worker an event published
   after the check is missed, and waits for the heartbeat.
5. **The log panel is not removable** (`alice_no_log`).  `templates/base.html` invites to
   remove the line that loads `debug.js`; `initAlice` then ends in a ReferenceError before it
   asks for keys, and the button is never enabled.

More consequences met while modelling have no run of their own.  (a) A 200 whose
body is cut becomes `{}` in `submitAnswer`, whose result is not `PASS`: a winner may read
"Your answer didn't match", which is why `FailScreenIsTruthful` is checked in `verify_live`, without `body_lost`.
(b) `terminal_event` says EXPIRED for any missing hash: if the message was missed and the
hash expires before the next check, Alice is told that nobody answered.  (c) A
reconnection after the hash is gone gets 404 and leaves her on the waiting screen; that
is why `AliceLearns` stops promising once the hash is gone.  (d) If the TTL were set above
`MAX_STREAM_SECONDS`, the cap's EXPIRED would be sent for a live session
(`ttl_above_cap`); with the defaults (600 s, 900 s) it cannot be.  (e) Under real threads a
stream can be cut off from the hub for good: it takes the set that another stream of its
session has just emptied, and adds its queue after that set was removed from the dict; or
the set it joined is popped after the emptiness test.  It then learns its result at a
heartbeat.  `CutOffOnlyByOverlap` says that nothing else does this, and `NothingLeaks` that
even then nothing stays behind.  Greenlets do not switch there.  (f) Nothing catches a
Bob's key that cannot be imported: the EventSource is closed, and Alice waits for ever; for
a JWK without `x`, `sseEvent` throws before `es.close()`, and the EventSource reconnects for
ever, to the same event.  `VerdictArrives` and `AliceLearns` exclude such keys.  (g) The
same key on the other side: `validators.py:22` lets it pass, Alice is told VERIFIED, and
Bob's import rejects inside the `try` of `submitAnswer`, whose `catch` shows the challenge again;
his retry gets 409, and he ends on the screen of a dead link without the key, although
nothing was lost.  `WinnerGetsTheKey` and the theorems about winners exclude such keys;
neither page makes one.  (h) A failed answer of 74.5% or more is shown as 75%.  (i) A lost
response to POST `/session` leaves a session nobody knows until it expires; Alice may try
again with the same pair, so the orphan and the new session have one public key, but never
two sessions she waited on (`FreshKeyPerSession`).  (j) `embedding_client.py:16` says "No
retry on 503/timeouts"; a connect timeout, which is a ConnectionError too, is.

## 4. Proofs

`SessionStoreProofs` proves `StoreInv` inductive: types, `AnnouncedAtMostOnce`, and for
each session `Untouched` (an id not yet issued has no hash and an empty channel: without
it `Create` could hide an old announcement) and `InStep` (the hash and the channel tell
the same story).  From it follow the store's four properties, `NeverReopens` as an
action property.

`VerificationProofs` proves `IInv` inductive.  The runs' invariants are not inductive
because they say nothing of a handler in the middle of its work.  What is added:

* `OwnKey`: a stored hash carries its own session's key, so a snapshot, however stale,
  does too (`ScoringInv`);
* `ResponseInv`: a response with status 200 comes from a handler whose script found the
  session waiting, hence (by `StoreInv`) its channel empty, hence the announcement is
  its own verdict;
* `TabInv`, `SentInv`: a tab awaits only its own POST, to the session of its link.

`StepIsStoreStep` shows that every step of the protocol is a step of the store, so that
`StoreInv` carries over (`UsesTheStore`).  One lemma per group of actions does the rest.
`ImplementsGate` proves `Spec => GateSpec`: each step opens, shuts or hands over, or
leaves the gate as it is.

The assumptions are the named ones of the modules only: `Null` is none of the values,
and `MaxFaults` is a natural number.
The theorems hold for any scoring (`Matching`) and every set of faults.

`EventStreamProofs` proves the stream's `IInv` inductive.  `VerdictScreenIsTruthful` speaks
only of the end of an event's journey; `IInv` says at each stage of it (a hub's
connection, a queue, a wire) that what is carried is the verdict published for the
session it is for (`TrueOf`), which holds on arrival by either way: `HubDispatch` looks the
queues up by session, and a rebuilt event is the published one by `InStep`.
`PublishedKept` makes it last.  `NamedInv` is needed because `StoreTypeOK` alone allows a
VERIFIED hash without Bob's key.  The proof is for any number of faults.

Two action properties follow with a second invariant, `AliceInv`: an EventSource that is
not closed belongs to a tab that waits, and only a tab that was told VERIFIED has a key.
`WhatAliceWasToldStands`: no late event or reconnection changes her screen or her key.
`OnlyResultsArrive`: an event that reaches her is the announced one, or what the hash
tells at that moment.  This is what `AlicePage!Arrivals` takes for granted.

### The whole system

`DoppelgangerProofs` shows first that each side's picture of the other is right:
`BobsSideIsVerification` and `AlicesSideIsEventStream` map every step of `Doppelganger` to
a step or a stutter of the one and of the other, so that all theorems about the sides
hold in the whole.  From the two inductive invariants together follow

* `SecretsAgree`: Alice's secret names the announced tab by `VerdictScreenIsTruthful`, a
  tab's names it by `TabInv`, and a channel holds one announcement;
* `ImplementsRendezvous`: every step is one of the rendezvous or a stutter.  That Alice is
  told once is `WhatAliceWasToldStands`; that an expiry she is told of is one needs
  `ExpiryScreenIsTrue`, hence the assumption `"ttl_above_cap" \notin StreamFaults`, which
  the defaults satisfy (600 s, 900 s).

### The safety side of liveness

TLAPS cannot prove that something happens, but it can prove that nobody is left in a
state from which it cannot: that whoever waits, waits for something that is under way.
Each theorem below is the core of a liveness property of the runs, for every value of
the constants, and names the failures it needs excluded.  A "doubtful key" is one that cannot
be imported.

| Theorem | Core of | Failures excluded |
|---|---|---|
| `NobodyWaitsInVain`: a tab on the scoring screen has a POST of its own that is being handled or was answered | `ScoringEnds` | none |
| `WinnerStaysInside`: the announced winner is never shown a dead link | the opposite of finding 1 | `reply_lost`, `connection_lost`, a doubtful key of any Alice's |
| `WinnersAreServed`: the winner has the key, or the response that carries it is on its way | `WinnerGetsTheKey` | `reply_lost`, `connection_lost`, `body_lost`, a doubtful key of the session's Alice |
| `AliceIsNeverStranded`: an Alice whose session is decided connects, or has a stream whose next step leads to her | `AliceLearns` | `refused` (finding 3), a doubtful key of the winner's |
| `ExpiryDoesNotHang`: an open EventSource of a session that is gone has such a stream too | `ExpiryIsNoticed` | none |
| `StreamsRunOut`: no step takes a stream back, each of its handler takes it on, and it has three | `StreamsEnd` | none |
| `ChannelHasTwoEnds`: once announced, each end has the shared key or is on a way that can bring it, or its tab or session is gone | the above, in the whole system | `reply_lost`, `connection_lost`, `body_lost`, `refused` of the stream, `ttl_above_cap`; for each end, a doubtful key of the other |
| `PageNeverDead`: a disabled button, a `create()` and the waiting screen each have a next step, or have failed | `KeysGetReady`, `CreateEnds`, `VerdictArrives` | a page without `debug.js` (finding 5) |
| `NoDeadlock`, `RequestsGetOn`: the owner of a lock never waits; each step shortens its request's way (`Left`, at most 18) and no other's | `RequestsEnd` | none |

Each exclusion is a failure that the code does have, with a finding or a consequence above;
the theorem says that no other failure of the model leads there.  The invariants behind them (`AwaitInv`, `ServedInv`, `Waits`, `OpenInv`,
`OrderInv`, `PageIsAwaited`) follow an answer from the script to the tab, a stream from its
first check to its end, and a lock from its owner to its release.

### Screens that depend on the faults

`ExpiryIsTrue` and `FailureIsTrue` are proved with the fault that breaks them excluded by an
assumption (`"fetch_refused" \notin Faults`, `"body_lost" \notin Faults`), and
`ExpiryScreenIsTrue` with `"ttl_above_cap" \notin Faults`: the violation runs and
consequence (a) show that the assumptions are needed.  The invariants behind them
(`ScreenInv`, `GoneInv`) trace what a screen says back to what its tab was told, and use
that a session that is not waiting never waits again (`ClosedStays`) and that an
announcement lasts (`ResultStays`).

### Alice's tab

`AlicePageProofs` proves three invariants of a step of the page together.

* `KeyInv` is about the button.  A pair being made means: it is the newest, the button is
  disabled, no `create()` is under way and the screen is one of the form's.  An enabled
  button, a `create()` or a session's screen means: the newest pair is done and is
  `aliceKeyPair`.  `reset` runs from a session's screen only, hence never while a pair is
  being made; this is the whole reason why reading `aliceKeyPair` after an await is sound.
* `SessionInv`: only the current session's EventSource is listened to, the screen is then
  `step-waiting`, and its pair is the newest, which no other session has.
* `ResultInv`: what `onmessage` carries across its awaits is what was announced, its
  secret is made from the session's own pair, and its score is close to the announced
  one, by `Roundings` of `ScoringProofs`.  An event may come from the channel or from the
  hash; that both are the same is `InStep` of the store (`ArrivalIsResult`).

The panel has `PanelInv`; `LogMatchesScreen` is preserved by a row of entries that `Fits`,
and each action emits such a row.  `LateHandlersAreHarmless` is an action property: from a
session's screen Alice is moved by that session's own stream or by her click, never by
what an earlier session, key pair or `create()` left behind.  `PageUsesTheStore`: the server
of this module is the store, as that of `Verification` (`UsesTheStore`) and of
`EventStream` (`StreamUsesTheStore`) is.  `ScoringProofs` proves the roundings for every integer
score, from `NearestIsClose`.

### A worker process

`WorkerProofs` proves one invariant per service.  For `get_redis`, the thread that holds the
lock is the only one between the two assignments, and `_pid` is `own` only after `_client`
is.  For `embed`, the slots and the set of holders add up, by the cardinality theorems.
For the hub, a set is either fresh, in the dict, or dead (popped or the parent's); a thread
that did not overlap an unsubscribe has its queue in the set of the dict; and of the
threads that leave, the last one to discard will test, and pop.  The proofs are for any
finite number of threads and any cap.  `HubHoldsTheSubscribed` compares this hub with that
of `EventStream`, a set that `subscribe` and `unsubscribe` change at once: dispatch reaches
every queue subscribed without an overlap, and none that was discarded.

### Model-checked only

Every liveness property under its fairness, as neither fairness nor ENABLED can be
reasoned about here: the step from the cores above to "it happens" is TLC's, on the
instances of section 3.  The properties of the violation runs are proved where the failure
that refutes them is excluded (`WinnerStaysInside`, `ExpiryIsTrue`, and the cores of
`AliceLearns` and `KeysGetReady`); `NothingSlipsThrough` is refuted by no failure at all.

## 5. Not modelled, and why

* Cosine similarity and embedding: floating point, and an external service.  Their
  outcome is a relation on answers (`Matching`), a score, or a fault.
* ECDH and AES-GCM themselves: the browser's.  Base64 and the wire format of keys.
* Pages, the QR code, `wsgi.py`: rendering and start-up without state.  `sse.js` is loaded
  by `index.html`, but its `connectAliceSSE` is never called: `session.js` has its own.
* The style sheet of the debug panel, the bodies and times of its entries, and the entries
  of Bob's tab, whose screens `Verification` has.
* The conditions of the validators, except that the keys they let pass need not be ones that
  can be imported, and the rate limiter's counting: only their refusal,
  which may happen at any time.
* Time: timeouts and the TTL may strike at any moment, except where the order of two
  durations matters, which is a named fault (`ttl_above_cap`).

## 6. Plan

Done: every component that has state, the whole protocol against its abstract promise, the
safety properties of every run proved, and a safety core of every liveness property.  What
could follow:

1. `AlicePage` with its several sessions in place of the Alices of `EventStream` in the whole
   system, and `Rendezvous` implemented by it.
2. Specifications of `get_redis`, of `embed` and of the hub as atomic objects, implemented
   by `Worker`.
3. Two sessions in `EventHub`, with the dispatch of `EventStream` at thread granularity.
4. Bob's tab with the debug panel, as `AlicePage` has it.
