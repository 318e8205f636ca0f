------------------------------- MODULE Worker -------------------------------
(***************************************************************************)
(* The requests of one server process and the services they share: which   *)
(* of get_redis, embed and the hub a handler calls, and in which order.    *)
(*   POST /session          embed, then get_redis (session.py)             *)
(*   POST /session/verify   get_redis, then embed (verify.py)              *)
(*   GET /session/stream    get_redis, then the hub (stream.py)            *)
(* What the handlers do with the results is in Verification and            *)
(* EventStream.                                                            *)
(***************************************************************************)
EXTENDS RedisClient, EmbeddingClient, EventHub, Sequences

VARIABLE todo   \* todo[t]: the services the request of t still calls

vars == <<redisVars, embedVars, hubVars, todo>>

-----------------------------------------------------------------------------
Handlers == {<<"embed", "redis">>, <<"redis", "embed">>, <<"redis", "hub">>}

\* A fresh process, or one forked from a process that had served requests.
Init ==
    /\ RedisInit
    /\ EmbedInit
    /\ HubInit
    /\ clientPid = hubPid
    /\ todo \in [Threads -> Handlers]

Calls(t, service) == todo[t] # <<>> /\ Head(todo[t]) = service

\* The call is back: the request goes on, or, without a vector, ends with 503.
Proceeds(t, service) ==
    todo' = [todo EXCEPT ![t] = IF service = "embed" /\ ~vector[t] THEN <<>> ELSE Tail(@)]

CallRedis(t) ==
    /\ Calls(t, "redis")
    /\ \/ GetRedis(t) /\ UNCHANGED todo
       \/ rpc[t] = "returned" /\ Proceeds(t, "redis") /\ UNCHANGED redisVars
    /\ UNCHANGED <<embedVars, hubVars>>

CallEmbed(t) ==
    /\ Calls(t, "embed")
    /\ \/ Embed(t) /\ UNCHANGED todo
       \/ epc[t] = "returned" /\ Proceeds(t, "embed") /\ UNCHANGED embedVars
    /\ UNCHANGED <<redisVars, hubVars>>

CallHub(t) ==
    /\ Calls(t, "hub")
    /\ \/ Subscription(t) /\ UNCHANGED todo
       \/ hpc[t] = "unsubscribed" /\ Proceeds(t, "hub") /\ UNCHANGED hubVars
    /\ UNCHANGED <<redisVars, embedVars>>

Step(t) == CallRedis(t) \/ CallEmbed(t) \/ CallHub(t)

Next == \E t \in Threads : Step(t)

Spec == Init /\ [][Next]_vars

\* Threads are scheduled, HTTP timeouts and the sleep are finite, and a stream
\* ends sooner or later (StreamsEnd of EventStream).
FairSpec == Spec /\ \A t \in Threads : WF_vars(Step(t))

-----------------------------------------------------------------------------
\* Type invariant.
TypeOK ==
    /\ RedisTypeOK
    /\ EmbedTypeOK
    /\ HubTypeOK
    /\ todo \in [Threads -> Handlers \cup {<<"embed">>, <<"redis">>, <<"hub">>, <<>>}]

\* No request waits for ever: not for a lock, not for a slot, not in a retry.
RequestsEnd == <>(\A t \in Threads : todo[t] = <<>>)
=============================================================================
