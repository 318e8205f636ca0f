---------------------------- MODULE RedisClient ----------------------------
(***************************************************************************)
(* get_redis (app/services/redis_client.py): the one client of a process,  *)
(* made by the first caller.  _client and _pid are tested outside the lock *)
(* and written one after the other, and each access is a step.  A client   *)
(* is named by the thread that made it.                                    *)
(***************************************************************************)
EXTENDS ServerProcess

VARIABLES client,      \* _client
          clientPid,   \* _pid
          clientLock,  \* the owner of _lock
          rpc,         \* rpc[t]: where thread t is in get_redis
          got          \* got[t]: the client it returned to t

redisVars == <<client, clientPid, clientLock, rpc, got>>

RedisStages == {"idle", "test_pid", "lock", "make", "set_pid", "return", "returned"}

RedisInit ==
    /\ \/ client = Nobody /\ clientPid = "none"
       \/ client = Inherited /\ clientPid = "parent"
    /\ clientLock = Nobody
    /\ rpc = [t \in Threads |-> "idle"]
    /\ got = [t \in Threads |-> Nobody]

RedisGoTo(t, stage) == rpc' = [rpc EXCEPT ![t] = stage]

TestClient(t) ==
    /\ rpc[t] = "idle"
    /\ RedisGoTo(t, IF client # Nobody THEN "test_pid" ELSE "lock")
    /\ UNCHANGED <<client, clientPid, clientLock, got>>

TestClientPid(t) ==
    /\ rpc[t] = "test_pid"
    /\ RedisGoTo(t, IF clientPid = "own" THEN "return" ELSE "lock")
    /\ UNCHANGED <<client, clientPid, clientLock, got>>

\* The lock and the test under it, as its owner alone writes the two variables.
LockClient(t) ==
    /\ rpc[t] = "lock"
    /\ clientLock = Nobody
    /\ IF client = Nobody \/ clientPid # "own"
       THEN RedisGoTo(t, "make") /\ clientLock' = t
       ELSE RedisGoTo(t, "return") /\ UNCHANGED clientLock
    /\ UNCHANGED <<client, clientPid, got>>

\* Mutant: _pid is written first.
WritePidFirst(t, stage) ==
    CASE stage = "make"    -> clientPid' = "own" /\ UNCHANGED client
      [] stage = "set_pid" -> client' = t /\ UNCHANGED clientPid

\* The two assignments, in their order.
Write(t, stage) ==
    CASE stage = "make"    -> client' = t /\ UNCHANGED clientPid
      [] stage = "set_pid" -> clientPid' = "own" /\ UNCHANGED client

SetClient(t) ==
    /\ rpc[t] = "make"
    /\ Write(t, "make")
    /\ RedisGoTo(t, "set_pid")
    /\ UNCHANGED <<clientLock, got>>

SetClientPid(t) ==
    /\ rpc[t] = "set_pid"
    /\ Write(t, "set_pid")
    /\ clientLock' = Nobody
    /\ RedisGoTo(t, "return")
    /\ UNCHANGED got

ReturnClient(t) ==
    /\ rpc[t] = "return"
    /\ got' = [got EXCEPT ![t] = client]
    /\ RedisGoTo(t, "returned")
    /\ UNCHANGED <<client, clientPid, clientLock>>

GetRedis(t) ==
    \/ TestClient(t)
    \/ TestClientPid(t)
    \/ LockClient(t)
    \/ SetClient(t)
    \/ SetClientPid(t)
    \/ ReturnClient(t)

-----------------------------------------------------------------------------
\* Type invariant.
RedisTypeOK ==
    /\ client \in Threads \cup {Nobody, Inherited}
    /\ clientPid \in Pids
    /\ clientLock \in Threads \cup {Nobody}
    /\ rpc \in [Threads -> RedisStages]
    /\ got \in [Threads -> Threads \cup {Nobody, Inherited}]

\* "One Redis connection pool per worker process, shared by every request":
\* whoever calls first and however the calls overlap, every request gets the
\* same client, and never one whose sockets the parent process opened.
OneClientPerProcess ==
    \A t, u \in Threads :
        got[t] # Nobody => got[t] # Inherited /\ (got[u] # Nobody => got[u] = got[t])
=============================================================================
