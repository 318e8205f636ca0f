---------------------------- MODULE EventStream ----------------------------
(***************************************************************************)
(* How Alice learns the result: the GET /stream handler                    *)
(* (app/routes/stream.py), the event hub of each gunicorn worker           *)
(* (app/services/event_hub.py), the EventSource of Alice's tab             *)
(* (connectAliceSSE in static/js/session.js) and the session store.        *)
(*                                                                         *)
(* A stream is one response to GET /stream: a greenlet of the worker that  *)
(* accepted it, with a queue the worker's hub puts messages into.  A hub   *)
(* has one listener, whose Redis connection buffers messages (inbox) and   *)
(* gets only those published while it is subscribed.  Greenlets switch at  *)
(* Redis calls, socket writes and queue waits, so each action below ends   *)
(* at one of those.                                                        *)
(*                                                                         *)
(* What verify and the rest of the server do to the session is reduced to  *)
(* the store's own actions.  A session stands for the tab that created it; *)
(* reset() can only be reached once its EventSource is closed.             *)
(*                                                                         *)
(* Faults names the failures of a model, MaxFaults bounds how many happen: *)
(*   "drop"           the connection of a stream breaks                    *)
(*   "listener_lost"  a listener loses its Redis connection                *)
(*   "worker_crash"   a worker dies and gunicorn starts it anew            *)
(*   "store_error"    a Redis call of a running stream fails               *)
(*   "refused"        the Redis call before the response starts fails      *)
(*   "ttl_above_cap"  SESSION_TTL_SECONDS exceeds MAX_STREAM_SECONDS; it   *)
(*                    is a setting, and does not count as a failure        *)
(* That Bob's key cannot be imported is not one of them: DubiousKeys of    *)
(* BrowserCrypto says which keys may be so.                                *)
(***************************************************************************)
EXTENDS SessionStore, BrowserCrypto

CONSTANTS Workers, Streams, Faults, MaxFaults

ASSUME StreamsAssumption == Null \notin Streams
ASSUME MaxFaultsAssumption == MaxFaults \in Nat

VARIABLES screen,    \* screen[s]: what Alice's tab shows
          es,        \* es[s]: the readyState of its EventSource
          conn,      \* conn[s]: the stream it is connected to
          bobPubkey, \* bobPubkey[s]: the key it derived the secret from
          spc,       \* spc[st]: how far the handler of stream st is
          owner,     \* owner[st]: the session in its URL
          host,      \* host[st]: the worker that runs it
          queue,     \* queue[st]: the queue hub.subscribe gave it
          wire,      \* wire[st]: events written and not read by the browser
          listener,  \* listener[w]: the listener thread of worker w
          inbox,     \* inbox[w]: messages on its Redis connection
          registry,  \* registry[w]: the streams whose queues the hub holds
          faults     \* failures so far

aliceVars  == <<screen, es, conn, bobPubkey>>
streamVars == <<spc, owner, host, queue, wire>>
hubVars    == <<listener, inbox, registry>>
vars == <<storeVars, aliceVars, streamVars, hubVars, faults>>

-----------------------------------------------------------------------------
Screens == {"none", "step-waiting", "step-alice-pass", "step-alice-fail", "step-create"}

QueueSize == 10   \* queue.Queue(maxsize=10)

Connected(st) == conn[owner[st]] = st
Live(st) == spc[st] \in {"opened", "checking", "waiting"}
Subscribed(st) == spc[st] \in {"checking", "waiting"}

Fault(kind) ==
    /\ kind \in Faults
    /\ faults < MaxFaults
    /\ faults' = faults + 1

Init ==
    /\ StoreInit
    /\ screen = [s \in Sessions |-> "none"]
    /\ es = [s \in Sessions |-> "CLOSED"]
    /\ conn = [s \in Sessions |-> Null]
    /\ bobPubkey = [s \in Sessions |-> Null]
    /\ spc = [st \in Streams |-> "unused"]
    /\ owner = [st \in Streams |-> Null]
    /\ host = [st \in Streams |-> Null]
    /\ queue = [st \in Streams |-> <<>>]
    /\ wire = [st \in Streams |-> <<>>]
    /\ listener = [w \in Workers |-> "off"]
    /\ inbox = [w \in Workers |-> <<>>]
    /\ registry = [w \in Workers |-> {}]
    /\ faults = 0

-----------------------------------------------------------------------------
(* The session, as the rest of the system drives it.                       *)

\* create() got its response: the link is shown and the EventSource opened.
CreateSession(s, a) ==
    /\ Create(s, a)
    /\ screen' = [screen EXCEPT ![s] = "step-waiting"]
    /\ es' = [es EXCEPT ![s] = "CONNECTING"]
    /\ UNCHANGED <<conn, bobPubkey, streamVars, hubVars, faults>>

\* The finalize script completes the session: its PUBLISH reaches the
\* listeners that are subscribed at that instant.
Decide(s, b, passed) ==
    /\ FinalizeOutcome(s) = "done"
    /\ Finalize(s, VerdictUpdate(b, passed), VerdictEvent(b, passed))
    /\ inbox' = [w \in Workers |->
                    IF listener[w] = "listening"
                    THEN Append(inbox[w], [session |-> s, event |-> VerdictEvent(b, passed)])
                    ELSE inbox[w]]
    /\ UNCHANGED <<aliceVars, streamVars, listener, registry, faults>>

\* The time to live runs out, or DELETE /session is called.
Vanish(s) ==
    /\ Expire(s)
    /\ UNCHANGED <<aliceVars, streamVars, hubVars, faults>>

-----------------------------------------------------------------------------
(* The hub of a worker.                                                    *)

\* psubscribe takes effect, at the first start or after a reconnection.
HubListen(w) ==
    /\ listener[w] = "starting"
    /\ listener' = [listener EXCEPT ![w] = "listening"]
    /\ UNCHANGED <<storeVars, aliceVars, streamVars, inbox, registry, faults>>

\* _listen_forever catches the exception and tries again: what was buffered or
\* is published meanwhile is lost, the queues stay registered.
HubLose(w) ==
    /\ Fault("listener_lost")
    /\ listener[w] = "listening"
    /\ listener' = [listener EXCEPT ![w] = "starting"]
    /\ inbox' = [inbox EXCEPT ![w] = <<>>]
    /\ UNCHANGED <<storeVars, aliceVars, streamVars, registry>>

\* put_nowait, with queue.Full ignored.
Put(q, e) == IF Len(q) < QueueSize THEN Append(q, e) ELSE q

\* Mutant: the queues are not kept by session.
AddresseesAll(w, msg) == registry[w]

\* The streams whose queues are at self._queues[session_id].
Addressees(w, msg) == {st \in registry[w] : owner[st] = msg.session}

\* A message is put into the queues of the streams of its session.
HubDispatch(w) ==
    LET msg == Head(inbox[w]) IN
    /\ inbox[w] # <<>>
    /\ inbox' = [inbox EXCEPT ![w] = Tail(@)]
    /\ queue' = [st \in Streams |->
                    IF st \in Addressees(w, msg) THEN Put(queue[st], msg.event)
                                                ELSE queue[st]]
    /\ UNCHANGED <<storeVars, aliceVars, spc, owner, host, wire, listener, registry, faults>>

-----------------------------------------------------------------------------
(* The handler of GET /session/<id>/stream.                                *)

\* get_phase found the session: the response starts.
Connect(s, st, w) ==
    /\ es[s] = "CONNECTING"
    /\ spc[st] = "unused"
    /\ hash[s].phase # "ABSENT"
    /\ spc' = [spc EXCEPT ![st] = "opened"]
    /\ owner' = [owner EXCEPT ![st] = s]
    /\ host' = [host EXCEPT ![st] = w]
    /\ es' = [es EXCEPT ![s] = "OPEN"]
    /\ conn' = [conn EXCEPT ![s] = st]
    /\ UNCHANGED <<storeVars, screen, bobPubkey, queue, wire, hubVars, faults>>

\* Any status but 200 makes the EventSource fail for good.
GiveUp(s) ==
    /\ es[s] = "CONNECTING"
    /\ es' = [es EXCEPT ![s] = "CLOSED"]
    /\ UNCHANGED <<storeVars, screen, conn, bobPubkey, streamVars, hubVars>>

ConnectNotFound(s) == hash[s].phase = "ABSENT" /\ GiveUp(s) /\ UNCHANGED faults

ConnectStoreError(s) == Fault("refused") /\ GiveUp(s)

\* hub.subscribe: the first subscription of a worker starts its listener.
Subscribe(st) ==
    /\ spc[st] = "opened"
    /\ spc' = [spc EXCEPT ![st] = "checking"]
    /\ registry' = [registry EXCEPT ![host[st]] = @ \cup {st}]
    /\ listener' = [listener EXCEPT ![host[st]] = IF @ = "off" THEN "starting" ELSE @]
    /\ UNCHANGED <<storeVars, aliceVars, owner, host, queue, wire, inbox, faults>>

\* Mutant: no finally.
EndSubscribed(st) ==
    /\ spc' = [spc EXCEPT ![st] = "closed"]
    /\ queue' = [queue EXCEPT ![st] = <<>>]
    /\ UNCHANGED <<owner, host, hubVars>>

\* The generator is left, by return or by exception: hub.unsubscribe.
End(st) ==
    /\ spc' = [spc EXCEPT ![st] = "closed"]
    /\ registry' = [registry EXCEPT ![host[st]] = @ \ {st}]
    /\ queue' = [queue EXCEPT ![st] = <<>>]
    /\ UNCHANGED <<owner, host, listener, inbox>>

\* yield _sse(e), then return.
SendAndEnd(st, e) ==
    /\ wire' = IF Connected(st) THEN [wire EXCEPT ![st] = Append(@, e)] ELSE wire
    /\ End(st)

\* The state check right after subscribing.
Check(st) ==
    LET final == TerminalEvent(hash[owner[st]]) IN
    /\ spc[st] = "checking"
    /\ \/ final # NoEvent /\ SendAndEnd(st, final)
       \/ /\ final = NoEvent
          /\ spc' = [spc EXCEPT ![st] = "waiting"]
          /\ UNCHANGED <<owner, host, queue, wire, hubVars>>
    /\ UNCHANGED <<storeVars, aliceVars, faults>>

\* q.get returned a message.  Every message is a VERIFIED or FAILED event.
Receive(st) ==
    /\ spc[st] = "waiting"
    /\ queue[st] # <<>>
    /\ SendAndEnd(st, Head(queue[st]))
    /\ UNCHANGED <<storeVars, aliceVars, faults>>

\* Mutant: a heartbeat without the safety-net check.
HeartbeatKeepaliveOnly(st) == spc[st] = "waiting" /\ UNCHANGED vars

\* q.get timed out and the safety-net check finds the session completed or
\* gone; a message put into the queue since then is dropped with it.  (While
\* the session is open, only a keepalive is written.)
Heartbeat(st) ==
    LET final == TerminalEvent(hash[owner[st]]) IN
    /\ spc[st] = "waiting"
    /\ final # NoEvent
    /\ SendAndEnd(st, final)
    /\ UNCHANGED <<storeVars, aliceVars, faults>>

\* MAX_STREAM_SECONDS have passed.  A session that does not outlive the cap is
\* gone by then, which Heartbeat notices first.
CapReached(st) ==
    /\ "ttl_above_cap" \in Faults
    /\ spc[st] = "waiting"
    /\ SendAndEnd(st, Expired)
    /\ UNCHANGED <<storeVars, aliceVars, faults>>

\* A write to a connection that is gone fails: the generator is closed.
WriteFails(st) ==
    /\ Subscribed(st)
    /\ ~Connected(st)
    /\ End(st)
    /\ UNCHANGED <<storeVars, aliceVars, wire, faults>>

\* terminal_event raises a RedisError: the response breaks off.
StreamStoreError(st) ==
    /\ Fault("store_error")
    /\ Subscribed(st)
    /\ End(st)
    /\ UNCHANGED <<storeVars, aliceVars, wire>>

\* The process dies without a finally; its successor starts with an empty hub.
WorkerCrash(w) ==
    /\ Fault("worker_crash")
    /\ listener' = [listener EXCEPT ![w] = "off"]
    /\ inbox' = [inbox EXCEPT ![w] = <<>>]
    /\ registry' = [registry EXCEPT ![w] = {}]
    /\ spc' = [st \in Streams |-> IF Live(st) /\ host[st] = w THEN "closed" ELSE spc[st]]
    /\ queue' = [st \in Streams |-> IF host[st] = w THEN <<>> ELSE queue[st]]
    /\ UNCHANGED <<storeVars, aliceVars, owner, host, wire>>

-----------------------------------------------------------------------------
(* Alice's EventSource.                                                    *)

\* onmessage: every final event closes the EventSource, which discards what
\* else was on the connection; CONNECTED changes nothing.
Deliver(s) ==
    LET st == conn[s]
        e == Head(wire[st])
    IN
    /\ st # Null
    /\ wire[st] # <<>>
    /\ es' = [es EXCEPT ![s] = "CLOSED"]
    /\ conn' = [conn EXCEPT ![s] = Null]
    /\ wire' = [wire EXCEPT ![st] = <<>>]
    /\ screen' = [screen EXCEPT ![s] = CASE e.event = "VERIFIED" -> "step-alice-pass"
                                         [] e.event = "FAILED"   -> "step-alice-fail"
                                         [] e.event = "EXPIRED"  -> "step-create"]
    /\ bobPubkey' = [bobPubkey EXCEPT ![s] =
                        IF e.event = "VERIFIED" THEN e.bob_pubkey_jwk ELSE @]
    /\ UNCHANGED <<storeVars, spc, owner, host, queue, hubVars, faults>>

\* onmessage for a VERIFIED it cannot handle; nothing catches the exception, and
\* the screen stays.  importPublicKey rejects after es.close(), but for a JWK
\* with no x ProtocolLog.sseEvent already throws before it: then the EventSource
\* stays open and reconnects, to be sent the same event again.
ImportFails(s) ==
    LET st == conn[s]
        e == Head(wire[st])
    IN
    /\ st # Null
    /\ wire[st] # <<>>
    /\ e.event = "VERIFIED" /\ e.bob_pubkey_jwk \in DubiousKeys
    /\ \/ /\ es' = [es EXCEPT ![s] = "CLOSED"]
          /\ conn' = [conn EXCEPT ![s] = Null]
       \/ UNCHANGED <<es, conn>>
    /\ wire' = [wire EXCEPT ![st] = <<>>]
    /\ UNCHANGED <<storeVars, screen, bobPubkey, spc, owner, host, queue, hubVars, faults>>

\* The connection is gone for the browser, which will reconnect by itself.
Reconnecting(s) ==
    /\ conn[s] # Null
    /\ es' = [es EXCEPT ![s] = "CONNECTING"]
    /\ conn' = [conn EXCEPT ![s] = Null]
    /\ wire' = [wire EXCEPT ![conn[s]] = <<>>]
    /\ UNCHANGED <<storeVars, screen, bobPubkey, spc, owner, host, queue, hubVars>>

\* The response ended without a final event.
StreamEnded(s) ==
    /\ Reconnecting(s)
    /\ spc[conn[s]] = "closed"
    /\ wire[conn[s]] = <<>>
    /\ UNCHANGED faults

Drop(s) == Fault("drop") /\ Reconnecting(s)

\* Alice closes the tab while she waits.
CloseTab(s) ==
    /\ screen[s] = "step-waiting"
    /\ screen' = [screen EXCEPT ![s] = "none"]
    /\ es' = [es EXCEPT ![s] = "CLOSED"]
    /\ conn' = [conn EXCEPT ![s] = Null]
    /\ UNCHANGED <<storeVars, bobPubkey, streamVars, hubVars, faults>>

-----------------------------------------------------------------------------
Hub(w) == HubListen(w) \/ HubDispatch(w)

Serve(st) == Subscribe(st) \/ Check(st) \/ Receive(st) \/ Heartbeat(st) \/ WriteFails(st)

Reach(s) == ConnectNotFound(s) \/ \E st \in Streams, w \in Workers : Connect(s, st, w)

Browse(s) == Deliver(s) \/ ImportFails(s) \/ StreamEnded(s)

Next ==
    \/ \E s \in Sessions :
          \/ \E a \in Answers : CreateSession(s, a)
          \/ \E b \in Bobs, passed \in BOOLEAN : Decide(s, b, passed)
          \/ Vanish(s)
          \/ Reach(s)
          \/ ConnectStoreError(s)
          \/ Browse(s)
          \/ Drop(s)
          \/ CloseTab(s)
    \/ \E st \in Streams : Serve(st) \/ CapReached(st) \/ StreamStoreError(st)
    \/ \E w \in Workers : Hub(w) \/ HubLose(w) \/ WorkerCrash(w)

Spec == Init /\ [][Next]_vars

\* A stream waits 15 s at most, a write to a dead connection fails in the end,
\* and a browser reads what arrives and reconnects 5 s after a loss.  Nothing
\* is asked of the hubs: the heartbeat alone must carry the promises.
Fairness ==
    /\ \A st \in Streams : WF_vars(Serve(st))
    /\ \A s \in Sessions : WF_vars(Reach(s)) /\ WF_vars(Browse(s))

FairSpec == Spec /\ Fairness

-----------------------------------------------------------------------------
\* Type invariant.
TypeOK ==
    /\ StoreTypeOK
    /\ screen \in [Sessions -> Screens]
    /\ es \in [Sessions -> {"CONNECTING", "OPEN", "CLOSED"}]
    /\ conn \in [Sessions -> Streams \cup {Null}]
    /\ bobPubkey \in [Sessions -> Bobs \cup {Null}]
    /\ spc \in [Streams -> {"unused", "opened", "checking", "waiting", "closed"}]
    /\ owner \in [Streams -> Sessions \cup {Null}]
    /\ host \in [Streams -> Workers \cup {Null}]
    /\ queue \in [Streams -> Seq(Event)]
    /\ wire \in [Streams -> Seq(Event)]
    /\ listener \in [Workers -> {"off", "starting", "listening"}]
    /\ inbox \in [Workers -> Seq([session : Sessions, event : Event])]
    /\ registry \in [Workers -> SUBSET Streams]
    /\ faults \in 0 .. MaxFaults

\* By whichever way the result reached Alice (queue, state check or reconnect,
\* any worker), her screen shows the result of her session, and she derived
\* the secret from the key of the tab that was announced as verified.
VerdictScreenIsTruthful ==
    \A s \in Sessions :
        /\ screen[s] = "step-alice-pass" => published[s] = <<Verified(bobPubkey[s])>>
        /\ screen[s] = "step-alice-fail" => published[s] = <<Failed>>

\* Alice is sent back to the form only when the session really is gone.
ExpiredOnlyWhenGone ==
    \A s \in Sessions : screen[s] = "step-create" => hash[s].phase = "ABSENT"

\* Each hub holds the queues of exactly the streams its worker is serving:
\* none leaks when a stream ends in any of its ways, none is forgotten.
RegistryMatchesStreams ==
    \A w \in Workers : registry[w] = {st \in Streams : Subscribed(st) /\ host[st] = w}

\* "A missed pub/sub message (e.g. during a Redis reconnect) costs at most 15s,
\* never a hung demo": once Bob was judged, Alice finds out while the result is
\* stored, whatever connections, subscriptions and workers are lost meanwhile,
\* unless the winner's key cannot be imported.
AliceLearns ==
    \A s \in Sessions :
        hash[s].phase \in TerminalPhases /\ hash[s].bob_pubkey_jwk \notin DubiousKeys
            ~> screen[s] # "step-waiting" \/ hash[s].phase = "ABSENT"

\* "Ends itself when the session expires", and notices closed tabs: no stream
\* outlives its session or its reader.
StreamsEnd ==
    \A st \in Streams :
        Live(st) /\ (~Connected(st) \/ hash[owner[st]].phase = "ABSENT")
            ~> spc[st] = "closed"

\* As long as her connection holds, Alice is told that the session is gone.
ExpiryIsNoticed ==
    \A s \in Sessions :
        es[s] = "OPEN" /\ hash[s].phase = "ABSENT" ~> es[s] # "OPEN"

\* stream.py: "Checking AFTER subscribing means no event can slip through the
\* gap": a waiting stream has its result, or the hub is about to hand it over.
NothingSlipsThrough ==
    \A st \in Streams :
        spc[st] = "waiting" /\ published[owner[st]] # <<>>
            => \/ queue[st] # <<>>
               \/ \E i \in DOMAIN inbox[host[st]] : inbox[host[st]][i].session = owner[st]
=============================================================================
