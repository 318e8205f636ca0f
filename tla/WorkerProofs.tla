---------------------------- MODULE WorkerProofs ----------------------------
(***************************************************************************)
(* Proofs about the services the requests of one process share, for any    *)
(* number of threads and any cap on the requests in flight.                *)
(***************************************************************************)
EXTENDS Worker, FiniteSetTheorems, TLAPS

-----------------------------------------------------------------------------
(* get_redis.  Whoever finds _pid set finds the client of this process,    *)
(* and nobody writes the client after that.                                *)

ClientWriters == {t \in Threads : rpc[t] \in {"make", "set_pid"}}

RedisInv ==
    /\ RedisTypeOK
    /\ \A t \in Threads : t \in ClientWriters => clientLock = t /\ clientPid # "own"
    /\ \A t \in Threads : rpc[t] = "set_pid" => client = t
    /\ \A t \in Threads : rpc[t] = "return" => clientPid = "own"
    /\ clientPid = "own" => client \in Threads
    /\ \A t \in Threads : got[t] # Nobody => clientPid = "own" /\ got[t] = client

LEMMA RedisInvInit == RedisInit => RedisInv
  BY DEF RedisInit, RedisInv, RedisTypeOK, RedisStages, ClientWriters, Pids

LEMMA RedisInvStep ==
    ASSUME RedisInv, NEW t \in Threads, GetRedis(t)
    PROVE  RedisInv'
  <1> USE DEF RedisInv, RedisTypeOK, RedisStages, ClientWriters, Pids, RedisGoTo
  <1>1. CASE TestClient(t)
    BY <1>1 DEF TestClient
  <1>2. CASE TestClientPid(t)
    BY <1>2 DEF TestClientPid
  <1>3. CASE LockClient(t)
    <2>1. CASE client = Nobody \/ clientPid # "own"
      <3>1. clientPid # "own"
        BY <2>1, NobodyAssumption
      <3>2. \A u \in Threads : u \notin ClientWriters
        BY <1>3, NobodyAssumption DEF LockClient
      <3> QED BY <1>3, <2>1, <3>1, <3>2 DEF LockClient
    <2>2. CASE ~(client = Nobody \/ clientPid # "own")
      BY <1>3, <2>2 DEF LockClient
    <2> QED BY <2>1, <2>2
  <1>4. CASE SetClient(t)
    BY <1>4 DEF SetClient, Write
  <1>5. CASE SetClientPid(t)
    <2>1. \A u \in Threads \ {t} : u \notin ClientWriters
      BY <1>5 DEF SetClientPid
    <2> QED BY <1>5, <2>1 DEF SetClientPid, Write
  <1>6. CASE ReturnClient(t)
    BY <1>6 DEF ReturnClient
  <1> QED BY <1>1, <1>2, <1>3, <1>4, <1>5, <1>6 DEF GetRedis

LEMMA RedisInvKept == RedisInv /\ UNCHANGED redisVars => RedisInv'
  BY DEF redisVars, RedisInv, RedisTypeOK, ClientWriters

-----------------------------------------------------------------------------
(* embed.  A slot moves between the semaphore and the call that holds it.  *)

Holders == {t \in Threads : HoldsSlot(t)}

EmbedInv ==
    /\ EmbedTypeOK
    /\ \A t \in Threads : epc[t] \in {"post", "sleep"} => attempt[t] # 0
    /\ \A t \in Threads : epc[t] = "sleep" => attempt[t] = 1
    /\ slots + Cardinality(Holders) = MaxInFlight

LEMMA HoldersFinite == IsFiniteSet(Holders) /\ Cardinality(Holders) \in Nat
  <1>1. IsFiniteSet(Holders)
    BY ThreadsAssumption, FS_Subset DEF Holders
  <1> QED BY <1>1, FS_CardinalityType

LEMMA EmbedInvInit == EmbedInit => EmbedInv
  <1> SUFFICES ASSUME EmbedInit PROVE EmbedInv
    OBVIOUS
  <1>1. Holders = {}
    BY DEF EmbedInit, Holders, HoldsSlot
  <1>2. Cardinality(Holders) = 0
    BY <1>1, FS_EmptySet
  <1> QED BY <1>2, MaxInFlightAssumption DEF EmbedInit, EmbedInv, EmbedTypeOK, EmbedStages

LEMMA EmbedInvStep ==
    ASSUME EmbedInv, NEW t \in Threads, Embed(t)
    PROVE  EmbedInv'
  <1> USE DEF EmbedInv, EmbedTypeOK, EmbedStages, EmbedGoTo
  <1>0. IsFiniteSet(Holders) /\ Cardinality(Holders) \in Nat /\ slots \in Nat
    BY HoldersFinite
  <1>1. CASE AcquireSlot(t)
    <2>1. t \notin Holders /\ Holders' = Holders \cup {t}
      BY <1>1 DEF AcquireSlot, Holders, HoldsSlot
    <2>2. Cardinality(Holders') = Cardinality(Holders) + 1
      BY <1>0, <2>1, FS_AddElement
    <2>3. slots' \in 0 .. MaxInFlight /\ slots' + Cardinality(Holders') = MaxInFlight
      BY <1>0, <1>1, <2>2, MaxInFlightAssumption DEF AcquireSlot
    <2> QED BY <1>1, <2>3 DEF AcquireSlot
  <1>2. ASSUME Holders' = Holders, UNCHANGED slots
        PROVE  slots' \in 0 .. MaxInFlight /\ slots' + Cardinality(Holders') = MaxInFlight
    BY <1>2
  <1>3. CASE SlotTimeout(t)
    <2>1. Holders' = Holders
      BY <1>3 DEF SlotTimeout, Holders, HoldsSlot
    <2> QED BY <1>2, <1>3, <2>1 DEF SlotTimeout
  <1>4. ASSUME NEW o \in Outcomes, Post(t, o)
        PROVE  EmbedInv'
    <2>1. Holders' = Holders
      BY <1>4 DEF Post, Holders, HoldsSlot
    <2> QED BY <1>2, <1>4, <2>1 DEF Post, Retries
  <1>5. CASE WakeUp(t)
    <2>1. Holders' = Holders
      BY <1>5 DEF WakeUp, Holders, HoldsSlot
    <2> QED BY <1>2, <1>5, <2>1 DEF WakeUp, NextAttempt
  <1>6. CASE ReleaseSlot(t)
    <2>1. t \in Holders /\ Holders' = Holders \ {t}
      BY <1>6 DEF ReleaseSlot, Holders, HoldsSlot
    <2>2. Cardinality(Holders') = Cardinality(Holders) - 1
      BY <1>0, <2>1, FS_RemoveElement
    <2>3. Cardinality(Holders') \in Nat
      BY <1>0, <2>1, FS_RemoveElement, FS_CardinalityType
    <2>4. slots' \in 0 .. MaxInFlight /\ slots' + Cardinality(Holders') = MaxInFlight
      BY <1>0, <1>6, <2>2, <2>3, MaxInFlightAssumption DEF ReleaseSlot, GivenBack
    <2> QED BY <1>6, <2>4 DEF ReleaseSlot
  <1> QED BY <1>1, <1>3, <1>4, <1>5, <1>6 DEF Embed

LEMMA EmbedInvKept == EmbedInv /\ UNCHANGED embedVars => EmbedInv'
  <1> SUFFICES ASSUME EmbedInv, UNCHANGED embedVars PROVE EmbedInv'
    OBVIOUS
  <1>1. Holders' = Holders
    BY DEF embedVars, Holders, HoldsSlot
  <1> QED BY <1>1 DEF embedVars, EmbedInv, EmbedTypeOK

-----------------------------------------------------------------------------
(* The hub.                                                                *)

BeforeSet == {"idle", "lock", "empty", "start", "setdefault"}
WithListener == {"setdefault", "add", "subscribed"} \cup UnsubscribeStages

\* _ensure_listener: the listener and _pid go together, under the lock.
ListenerInv ==
    /\ listeners \in {0, 1} /\ (listeners = 1 <=> hubPid = "own")
    /\ \A t \in Threads : hpc[t] \in {"empty", "start"} => hubLock = t /\ hubPid # "own"
    /\ \A t \in Threads : hpc[t] \in WithListener => hubPid = "own"
    /\ \A t \in Threads : hpc[t] = "start" => entry = Nobody
    /\ hubPid = "own" => entry # Inherited

\* The set a thread will name is not in use.
FreshSet(t) ==
    /\ entry # t
    /\ members[t] = {}
    /\ \A u \in Threads : mySet[u] # t
    /\ \A v \in Sets : t \notin members[v]

\* A thread that leaves has removed its queue, or is about to.
LeaverInv(t) ==
    /\ hpc[t] \in {"add", "subscribed"} => \A v \in Sets : t \in members[v] => v = mySet[t]
    /\ hpc[t] = "add" => mySet[t] \in Threads /\ \A v \in Sets : t \notin members[v]
    /\ hpc[t] \in UnsubscribeStages => mySet[t] \in Threads
    /\ hpc[t] = "discard" /\ entry # Nobody /\ t \in members[entry] => mySet[t] = entry
    /\ hpc[t] \in {"test_empty", "pop", "unsubscribed"} /\ entry # Nobody => t \notin members[entry]

\* Somebody will remove the set that is in the dict.
Remover(t) ==
    \/ hpc[t] = "add" /\ mySet[t] = entry
    \/ t \in members[entry]
    \/ hpc[t] = "test_empty" /\ mySet[t] = entry
    \/ hpc[t] = "pop"

\* Who is about to remove it sees a thread that subscribed undisturbed.
Undisturbed(t) ==
    /\ entry # Nobody
    /\ t \in members[entry]
    /\ \A u \in Unsubscribing : hpc[u] # "pop" /\ mySet[u] = entry

HubInv ==
    /\ HubTypeOK
    /\ ListenerInv
    /\ \A t \in Threads : hpc[t] \in BeforeSet => FreshSet(t)
    /\ \A t \in Threads : LeaverInv(t)
    /\ hubPid = "own" /\ entry # Nobody => \E t \in Threads : Remover(t)
    /\ \A t \in Threads : hpc[t] = "subscribed" /\ t \notin overlapped => Undisturbed(t)

LEMMA HubInvInit == HubInit => HubInv
  BY NobodyAssumption, InheritedAssumption
  DEF HubInit, HubInv, HubTypeOK, ListenerInv, BeforeSet, FreshSet, LeaverInv, Remover,
      WithListener, SubscribeStages, UnsubscribeStages, Sets, Pids

LEMMA HubInvKept == HubInv /\ UNCHANGED hubVars => HubInv'
  BY DEF hubVars, HubInv, HubTypeOK, ListenerInv, FreshSet, LeaverInv, Remover, Undisturbed,
         Unsubscribing

\* The listener thread is started once.
LEMMA StartedOnce ==
    ASSUME listeners = 0, NEW t \in Threads, StartListener(t)
    PROVE  listeners' = 1
  <1>1. listeners' = listeners + 1
    BY DEF StartListener
  <1> QED BY <1>1

\* After _ensure_listener a thread leaves the listener alone.
LEMMA ListenerKept ==
    ASSUME HubInv, NEW t \in Threads, hpc[t] \in WithListener,
           NEW stage \in {"add", "subscribed", "unsubscribed"} \cup UnsubscribeStages,
           HubGoTo(t, stage),
           UNCHANGED <<hubPid, hubLock, listeners>>,
           entry' \in {entry, Nobody, t}
    PROVE  /\ ListenerInv'
           /\ hubPid = "own" /\ entry \in Threads \cup {Nobody}
           /\ hpc'[t] = stage /\ \A u \in Threads \ {t} : hpc'[u] = hpc[u]
  <1> USE NobodyAssumption, InheritedAssumption DEF UnsubscribeStages, WithListener, HubGoTo
  <1>1. ListenerInv /\ HubTypeOK
    BY DEF HubInv
  <1>2. hubPid = "own" /\ entry \in Threads \cup {Nobody}
    BY <1>1 DEF ListenerInv, HubTypeOK, Sets
  <1>3. hpc'[t] = stage /\ \A u \in Threads \ {t} : hpc'[u] = hpc[u]
    BY <1>1 DEF HubTypeOK
  <1>4. \A u \in Threads : hpc'[u] \notin {"empty", "start"}
    BY <1>1, <1>2, <1>3 DEF ListenerInv
  <1>5. entry' # Inherited
    BY <1>2
  <1> QED BY <1>1, <1>2, <1>3, <1>4, <1>5 DEF ListenerInv

LEMMA HubInvStep ==
    ASSUME HubInv, NEW t \in Threads, Subscription(t)
    PROVE  HubInv'
  <1> USE NobodyAssumption, InheritedAssumption
  <1>0. /\ HubTypeOK /\ ListenerInv
        /\ \A u \in Threads : hpc[u] \in BeforeSet => FreshSet(u)
        /\ \A u \in Threads : LeaverInv(u)
        /\ hubPid = "own" /\ entry # Nobody => \E u \in Threads : Remover(u)
        /\ \A u \in Threads : hpc[u] = "subscribed" /\ u \notin overlapped => Undisturbed(u)
    BY DEF HubInv
  <1>1. CASE EnsureListener(t)
    <2> USE <1>0
    <2> USE DEF HubTypeOK, ListenerInv, HubGoTo, SubscribeStages, UnsubscribeStages, WithListener,
                Pids, Sets
    <2>1. /\ UNCHANGED <<members, mySet, overlapped>>
          /\ hpc[t] \in BeforeSet /\ hpc'[t] \in BeforeSet
          /\ \A u \in Threads \ {t} : hpc'[u] = hpc[u]
      BY <1>1 DEF EnsureListener, TestHubPid, LockHub, EmptyQueues, StartListener, BeforeSet
    <2>2. HubTypeOK'
      <3>1. CASE TestHubPid(t)
        BY <3>1 DEF TestHubPid
      <3>2. CASE LockHub(t)
        BY <3>2 DEF LockHub
      <3>3. CASE EmptyQueues(t)
        BY <3>3 DEF EmptyQueues
      <3>4. CASE StartListener(t)
        <4>1. listeners' \in Nat
          <5>1. listeners = 0
            BY <3>4 DEF StartListener
          <5>2. listeners' = 1
            BY <3>4, <5>1, StartedOnce
          <5> HIDE <1>0
          <5> QED BY <5>2
        <4>2. /\ UNCHANGED <<entry, members, mySet, overlapped>>
              /\ hubPid' = "own" /\ hubLock' = Nobody /\ hpc' = [hpc EXCEPT ![t] = "setdefault"]
          BY <3>4 DEF StartListener
        <4> QED BY <4>1, <4>2
      <3> QED BY <1>1, <3>1, <3>2, <3>3, <3>4 DEF EnsureListener
    <2>3. ListenerInv' /\ (entry' = entry \/ entry' = Nobody)
      <3>1. CASE TestHubPid(t)
        BY <3>1 DEF TestHubPid
      <3>2. CASE LockHub(t)
        BY <3>2 DEF LockHub, StartedMeanwhile
      <3>3. CASE EmptyQueues(t)
        BY <3>3 DEF EmptyQueues
      <3>4. CASE StartListener(t)
        <4>1. hubPid # "own" /\ hubLock = t /\ entry = Nobody /\ listeners = 0
          BY <3>4 DEF StartListener
        <4>2. /\ hubPid' = "own" /\ entry' = entry
              /\ hpc' = [hpc EXCEPT ![t] = "setdefault"]
          BY <3>4 DEF StartListener
        <4>4. listeners' = 1
          BY <3>4, <4>1, StartedOnce
        <4>3. \A u \in Threads : hpc'[u] \notin {"empty", "start"}
          BY <4>1, <4>2
        <4> QED BY <4>1, <4>2, <4>3, <4>4
      <3> QED BY <1>1, <3>1, <3>2, <3>3, <3>4 DEF EnsureListener
    <2>4. hubPid = "own" => hubPid' = "own" /\ entry' = entry
      BY <1>1 DEF EnsureListener, TestHubPid, LockHub, EmptyQueues, StartListener
    <2>5. hubPid # "own" /\ hubPid' = "own" => entry' = Nobody
      BY <1>1 DEF EnsureListener, TestHubPid, LockHub, EmptyQueues, StartListener
    <2>6. ASSUME NEW u \in Threads, hpc'[u] \in BeforeSet
          PROVE  FreshSet(u)'
      <3>1. FreshSet(u)
        BY <2>1, <2>6
      <3> QED BY <2>1, <2>3, <3>1 DEF FreshSet
    <2>7. \A u \in Threads : LeaverInv(u)'
      BY <2>1, <2>3 DEF LeaverInv, BeforeSet
    <2>8. hubPid' = "own" /\ entry' # Nobody => \E u \in Threads : Remover(u)'
      <3> SUFFICES ASSUME hubPid' = "own", entry' # Nobody PROVE \E u \in Threads : Remover(u)'
        OBVIOUS
      <3>1. hubPid = "own" /\ entry' = entry
        BY <2>4, <2>5
      <3>2. PICK u \in Threads : Remover(u)
        BY <3>1
      <3>3. u # t \/ t \in members[entry]
        BY <2>1, <3>2 DEF Remover, BeforeSet
      <3> QED BY <2>1, <3>1, <3>2, <3>3 DEF Remover
    <2>9. ASSUME NEW u \in Threads, hpc'[u] = "subscribed", u \notin overlapped'
          PROVE  Undisturbed(u)'
      <3>1. u # t /\ hpc[u] = "subscribed" /\ u \notin overlapped
        BY <2>1, <2>9 DEF BeforeSet
      <3>2. Undisturbed(u) /\ entry' = entry
        BY <2>4, <3>1
      <3>3. Unsubscribing' = Unsubscribing
        BY <2>1 DEF Unsubscribing, BeforeSet
      <3>4. t \notin Unsubscribing
        BY <2>1 DEF Unsubscribing, BeforeSet
      <3> QED BY <2>1, <3>2, <3>3, <3>4 DEF Undisturbed, Unsubscribing
    <2> HIDE <1>0
    <2> QED BY <2>2, <2>3, <2>6, <2>7, <2>8, <2>9 DEF HubInv
  <1> DEFINE Others == \A u \in Threads \ {t} : hpc'[u] = hpc[u]
  <1>2. CASE SetDefault(t)
    <2>1. /\ hpc[t] = "setdefault" /\ HubGoTo(t, "add")
          /\ entry' = IF entry = Nobody THEN t ELSE entry
          /\ mySet' = [mySet EXCEPT ![t] = entry']
          /\ overlapped \subseteq overlapped' /\ overlapped' \subseteq overlapped \cup {t}
          /\ UNCHANGED <<hubPid, hubLock, listeners, members>>
      BY <1>2 DEF SetDefault
    <2>2. ListenerInv' /\ entry \in Threads \cup {Nobody} /\ hpc'[t] = "add" /\ Others
      BY <2>1, ListenerKept DEF WithListener
    <2>3. entry' \in Threads /\ mySet'[t] = entry' /\ \A u \in Threads \ {t} : mySet'[u] = mySet[u]
      BY <1>0, <2>1, <2>2 DEF HubTypeOK
    <2>4. HubTypeOK'
      BY <1>0, <2>1, <2>3 DEF HubTypeOK, HubGoTo, Sets, SubscribeStages
    <2>5. FreshSet(t)
      BY <1>0, <2>1 DEF BeforeSet
    <2>6. ASSUME NEW u \in Threads, hpc'[u] \in BeforeSet
          PROVE  FreshSet(u)'
      <3>1. u # t /\ FreshSet(u)
        BY <1>0, <2>2, <2>6 DEF BeforeSet
      <3> QED BY <2>1, <2>3, <3>1 DEF FreshSet
    <2>7. ASSUME NEW u \in Threads
          PROVE  LeaverInv(u)'
      <3>1. CASE u = t
        BY <2>1, <2>2, <2>3, <2>5, <3>1 DEF LeaverInv, FreshSet, UnsubscribeStages
      <3>2. CASE u # t
        <4>1. LeaverInv(u)
          BY <1>0
        <4>2. entry = Nobody => members'[entry'] = {}
          BY <2>1, <2>5 DEF FreshSet
        <4> QED BY <2>1, <2>2, <2>3, <3>2, <4>1, <4>2 DEF LeaverInv
      <3> QED BY <3>1, <3>2
    <2>8. Remover(t)'
      BY <2>2, <2>3 DEF Remover
    <2>9. ASSUME NEW u \in Threads, hpc'[u] = "subscribed", u \notin overlapped'
          PROVE  Undisturbed(u)'
      <3>1. u # t /\ hpc[u] = "subscribed" /\ u \notin overlapped
        BY <2>1, <2>2, <2>9
      <3>2. Undisturbed(u)
        BY <1>0, <3>1
      <3>3. entry' = entry
        BY <2>1, <3>2 DEF Undisturbed
      <3>4. Unsubscribing' = Unsubscribing /\ t \notin Unsubscribing
        BY <2>1, <2>2 DEF Unsubscribing, UnsubscribeStages
      <3>5. \A w \in Unsubscribing : hpc'[w] = hpc[w] /\ mySet'[w] = mySet[w]
        BY <2>2, <2>3, <3>4 DEF Unsubscribing
      <3> QED BY <2>1, <3>2, <3>3, <3>4, <3>5 DEF Undisturbed
    <2> QED BY <2>2, <2>4, <2>6, <2>7, <2>8, <2>9 DEF HubInv
  <1>3. CASE AddQueue(t)
    <2>1. /\ hpc[t] = "add" /\ HubGoTo(t, "subscribed")
          /\ members' = [members EXCEPT ![mySet[t]] = @ \cup {t}]
          /\ overlapped \subseteq overlapped' /\ overlapped' \subseteq overlapped \cup {t}
          /\ t \notin overlapped' => Unsubscribing = {} /\ entry = mySet[t]
          /\ UNCHANGED <<hubPid, hubLock, listeners, entry, mySet>>
      BY <1>3 DEF AddQueue
    <2>2. ListenerInv' /\ entry \in Threads \cup {Nobody} /\ hpc'[t] = "subscribed" /\ Others
      BY <2>1, ListenerKept DEF WithListener
    <2>3. mySet[t] \in Threads /\ \A v \in Sets : t \notin members[v]
      BY <1>0, <2>1 DEF LeaverInv
    <2>4. HubTypeOK'
      BY <1>0, <2>1, <2>3 DEF HubTypeOK, HubGoTo, Sets
    <2>5. /\ members'[mySet[t]] = members[mySet[t]] \cup {t}
          /\ \A v \in Sets \ {mySet[t]} : members'[v] = members[v]
      BY <1>0, <2>1, <2>3 DEF HubTypeOK, Sets
    <2>6. ASSUME NEW u \in Threads, hpc'[u] \in BeforeSet
          PROVE  FreshSet(u)'
      <3>1. u # t /\ FreshSet(u)
        BY <1>0, <2>2, <2>6 DEF BeforeSet
      <3> QED BY <2>1, <2>5, <3>1 DEF FreshSet, Sets
    <2>7. ASSUME NEW u \in Threads
          PROVE  LeaverInv(u)'
      <3>1. CASE u = t
        BY <2>1, <2>2, <2>3, <2>5, <3>1 DEF LeaverInv, UnsubscribeStages
      <3>2. CASE u # t
        <4>1. LeaverInv(u)
          BY <1>0
        <4>2. \A v \in Sets : u \in members'[v] <=> u \in members[v]
          BY <2>5, <3>2
        <4> QED BY <2>1, <2>2, <3>2, <4>1, <4>2 DEF LeaverInv, Sets
      <3> QED BY <3>1, <3>2
    <2>8. hubPid' = "own" /\ entry' # Nobody => \E u \in Threads : Remover(u)'
      <3> SUFFICES ASSUME hubPid = "own", entry # Nobody PROVE \E u \in Threads : Remover(u)'
        BY <2>1
      <3>1. PICK u \in Threads : Remover(u)
        BY <1>0
      <3>2. CASE u = t
        <4>1. mySet[t] = entry
          BY <2>1, <2>2, <2>3, <3>1, <3>2 DEF Remover, Sets
        <4> QED BY <2>1, <2>5, <4>1 DEF Remover
      <3>3. CASE u # t
        <4>1. members[entry] \subseteq members'[entry]
          BY <2>2, <2>5 DEF Sets
        <4> QED BY <2>1, <2>2, <3>1, <3>3, <4>1 DEF Remover
      <3> QED BY <3>2, <3>3
    <2>9. ASSUME NEW u \in Threads, hpc'[u] = "subscribed", u \notin overlapped'
          PROVE  Undisturbed(u)'
      <3>0. Unsubscribing' = Unsubscribing /\ t \notin Unsubscribing
        BY <2>1, <2>2 DEF Unsubscribing, UnsubscribeStages
      <3>1. CASE u = t
        BY <2>1, <2>3, <2>5, <2>9, <3>0, <3>1 DEF Undisturbed
      <3>2. CASE u # t
        <4>1. Undisturbed(u)
          BY <1>0, <2>1, <2>2, <2>9, <3>2
        <4>2. u \in members'[entry]
          BY <2>2, <2>5, <4>1 DEF Undisturbed, Sets
        <4>3. \A w \in Unsubscribing : hpc'[w] = hpc[w]
          BY <2>2, <3>0 DEF Unsubscribing
        <4> QED BY <2>1, <3>0, <4>1, <4>2, <4>3 DEF Undisturbed
      <3> QED BY <3>1, <3>2
    <2> QED BY <2>2, <2>4, <2>6, <2>7, <2>8, <2>9 DEF HubInv
  <1>4. CASE GetQueues(t)
    <2>1. /\ hpc[t] = "subscribed"
          /\ mySet' = [mySet EXCEPT ![t] = entry]
          /\ HubGoTo(t, IF entry = Nobody THEN "unsubscribed" ELSE "discard")
          /\ UNCHANGED <<hubPid, hubLock, listeners, entry, members, overlapped>>
      BY <1>4 DEF GetQueues
    <2>2. /\ ListenerInv' /\ entry \in Threads \cup {Nobody}
          /\ hpc'[t] = IF entry = Nobody THEN "unsubscribed" ELSE "discard"
          /\ Others
      BY <2>1, ListenerKept DEF WithListener, UnsubscribeStages
    <2>3. mySet'[t] = entry /\ \A u \in Threads \ {t} : mySet'[u] = mySet[u]
      BY <1>0, <2>1 DEF HubTypeOK
    <2>4. HubTypeOK'
      BY <1>0, <2>1, <2>2 DEF HubTypeOK, HubGoTo, Sets, UnsubscribeStages
    <2>6. ASSUME NEW u \in Threads, hpc'[u] \in BeforeSet
          PROVE  FreshSet(u)'
      <3>1. u # t /\ FreshSet(u)
        BY <1>0, <2>2, <2>6 DEF BeforeSet
      <3> QED BY <2>1, <2>3, <3>1 DEF FreshSet
    <2>7. ASSUME NEW u \in Threads
          PROVE  LeaverInv(u)'
      <3>1. CASE u = t
        BY <2>1, <2>2, <2>3, <3>1 DEF LeaverInv, UnsubscribeStages
      <3>2. CASE u # t
        <4>1. LeaverInv(u)
          BY <1>0
        <4> QED BY <2>1, <2>2, <2>3, <3>2, <4>1 DEF LeaverInv
      <3> QED BY <3>1, <3>2
    <2>8. \A u \in Threads : Remover(u) => Remover(u)'
      BY <2>1, <2>2, <2>3 DEF Remover
    <2>9. ASSUME NEW u \in Threads, hpc'[u] = "subscribed", u \notin overlapped'
          PROVE  Undisturbed(u)'
      <3>1. u # t /\ Undisturbed(u)
        BY <1>0, <2>1, <2>2, <2>9
      <3>2. Unsubscribing' \subseteq Unsubscribing \cup {t}
        BY <2>2 DEF Unsubscribing
      <3>3. \A w \in Unsubscribing' : hpc'[w] # "pop" /\ mySet'[w] = entry
        BY <2>2, <2>3, <3>1, <3>2 DEF Undisturbed, Unsubscribing
      <3> QED BY <2>1, <3>1, <3>3 DEF Undisturbed
    <2>10. hubPid' = "own" /\ entry' # Nobody => \E u \in Threads : Remover(u)'
      BY <1>0, <2>1, <2>8
    <2> QED BY <2>2, <2>4, <2>6, <2>7, <2>9, <2>10 DEF HubInv
  <1>5. CASE DiscardQueue(t)
    <2>1. /\ hpc[t] = "discard" /\ HubGoTo(t, "test_empty")
          /\ members' = [members EXCEPT ![mySet[t]] = members[mySet[t]] \ {t}]
          /\ UNCHANGED <<hubPid, hubLock, listeners, entry, mySet, overlapped>>
      BY <1>5 DEF DiscardQueue, WithoutQueue
    <2>2. ListenerInv' /\ entry \in Threads \cup {Nobody} /\ hpc'[t] = "test_empty" /\ Others
      BY <2>1, ListenerKept DEF WithListener, UnsubscribeStages
    <2>3. mySet[t] \in Threads
      BY <1>0, <2>1 DEF LeaverInv, UnsubscribeStages
    <2>4. HubTypeOK'
      BY <1>0, <2>1, <2>3 DEF HubTypeOK, HubGoTo, Sets, UnsubscribeStages
    <2>5. /\ members'[mySet[t]] = members[mySet[t]] \ {t}
          /\ \A v \in Sets \ {mySet[t]} : members'[v] = members[v]
      BY <1>0, <2>1, <2>3 DEF HubTypeOK, Sets
    <2>6. ASSUME NEW u \in Threads, hpc'[u] \in BeforeSet
          PROVE  FreshSet(u)'
      <3>1. u # t /\ FreshSet(u)
        BY <1>0, <2>2, <2>6 DEF BeforeSet
      <3> QED BY <2>1, <2>5, <3>1 DEF FreshSet, Sets
    <2>7. ASSUME NEW u \in Threads
          PROVE  LeaverInv(u)'
      <3>1. CASE u = t
        <4>1. LeaverInv(t)
          BY <1>0
        <4>2. entry # Nobody => t \notin members'[entry]
          BY <2>1, <2>2, <2>5, <4>1 DEF LeaverInv, Sets
        <4> QED BY <2>1, <2>2, <2>3, <3>1, <4>2 DEF LeaverInv, UnsubscribeStages
      <3>2. CASE u # t
        <4>1. LeaverInv(u)
          BY <1>0
        <4>2. \A v \in Sets : u \in members'[v] <=> u \in members[v]
          BY <2>5, <3>2
        <4> QED BY <2>1, <2>2, <3>2, <4>1, <4>2 DEF LeaverInv, Sets
      <3> QED BY <3>1, <3>2
    <2>8. hubPid' = "own" /\ entry' # Nobody => \E u \in Threads : Remover(u)'
      <3> SUFFICES ASSUME hubPid = "own", entry # Nobody PROVE \E u \in Threads : Remover(u)'
        BY <2>1
      <3>1. PICK u \in Threads : Remover(u)
        BY <1>0
      <3>2. CASE u = t
        <4>1. mySet[t] = entry
          BY <1>0, <2>1, <3>1, <3>2 DEF Remover, LeaverInv
        <4> QED BY <2>1, <2>2, <4>1 DEF Remover
      <3>3. CASE u # t
        <4>1. u \in members[entry] => u \in members'[entry]
          BY <2>2, <2>5, <3>3 DEF Sets
        <4> QED BY <2>1, <2>2, <3>1, <3>3, <4>1 DEF Remover
      <3> QED BY <3>2, <3>3
    <2>9. ASSUME NEW u \in Threads, hpc'[u] = "subscribed", u \notin overlapped'
          PROVE  Undisturbed(u)'
      <3>1. u # t /\ Undisturbed(u)
        BY <1>0, <2>1, <2>2, <2>9
      <3>2. Unsubscribing' = Unsubscribing
        BY <2>1, <2>2 DEF Unsubscribing, UnsubscribeStages
      <3>3. u \in members'[entry]
        BY <2>2, <2>5, <3>1 DEF Undisturbed, Sets
      <3>4. \A w \in Unsubscribing : hpc'[w] # "pop" /\ mySet'[w] = entry
        BY <2>1, <2>2, <3>1 DEF Undisturbed, Unsubscribing
      <3> QED BY <2>1, <3>1, <3>2, <3>3, <3>4 DEF Undisturbed
    <2> QED BY <2>2, <2>4, <2>6, <2>7, <2>8, <2>9 DEF HubInv
  <1>6. CASE TestEmpty(t)
    <2> DEFINE stage == IF members[mySet[t]] = {} THEN "pop" ELSE "unsubscribed"
    <2>1. /\ hpc[t] = "test_empty" /\ HubGoTo(t, stage)
          /\ UNCHANGED <<hubPid, hubLock, listeners, entry, members, mySet, overlapped>>
      BY <1>6 DEF TestEmpty, NoneLeft
    <2>2. ListenerInv' /\ entry \in Threads \cup {Nobody} /\ hpc'[t] = stage /\ Others
      BY <2>1, ListenerKept DEF WithListener, UnsubscribeStages
    <2>3. mySet[t] \in Threads
      BY <1>0, <2>1 DEF LeaverInv, UnsubscribeStages
    <2>4. HubTypeOK'
      BY <1>0, <2>1 DEF HubTypeOK, HubGoTo, Sets, UnsubscribeStages
    <2>6. ASSUME NEW u \in Threads, hpc'[u] \in BeforeSet
          PROVE  FreshSet(u)'
      <3>1. u # t /\ FreshSet(u)
        BY <1>0, <2>2, <2>6 DEF BeforeSet
      <3> QED BY <2>1, <3>1 DEF FreshSet
    <2>7. ASSUME NEW u \in Threads
          PROVE  LeaverInv(u)'
      <3>1. LeaverInv(u)
        BY <1>0
      <3>2. CASE u = t
        BY <2>1, <2>2, <2>3, <3>1, <3>2 DEF LeaverInv, UnsubscribeStages
      <3>3. CASE u # t
        BY <2>1, <2>2, <3>1, <3>3 DEF LeaverInv
      <3> QED BY <3>2, <3>3
    <2>8. hubPid' = "own" /\ entry' # Nobody => \E u \in Threads : Remover(u)'
      <3> SUFFICES ASSUME hubPid = "own", entry # Nobody PROVE \E u \in Threads : Remover(u)'
        BY <2>1
      <3>1. PICK u \in Threads : Remover(u)
        BY <1>0
      <3>2. CASE u # t \/ u \in members[entry]
        BY <2>1, <2>2, <3>1, <3>2 DEF Remover
      <3>3. CASE u = t /\ u \notin members[entry]
        <4>1. mySet[t] = entry
          BY <2>1, <3>1, <3>3 DEF Remover
        <4>2. CASE members[entry] = {}
          BY <2>2, <4>1, <4>2 DEF Remover
        <4>3. CASE members[entry] # {}
          <5>1. members[entry] \subseteq Threads
            BY <1>0, <2>2 DEF HubTypeOK, Sets
          <5> QED BY <2>1, <4>3, <5>1 DEF Remover
        <4> QED BY <4>2, <4>3
      <3> QED BY <3>2, <3>3
    <2>9. ASSUME NEW u \in Threads, hpc'[u] = "subscribed", u \notin overlapped'
          PROVE  Undisturbed(u)'
      <3>1. u # t /\ Undisturbed(u)
        BY <1>0, <2>1, <2>2, <2>9
      <3>2. mySet[t] = entry /\ members[entry] # {}
        BY <2>1, <3>1 DEF Undisturbed, Unsubscribing, UnsubscribeStages
      <3>3. hpc'[t] = "unsubscribed"
        BY <2>2, <3>2
      <3>4. Unsubscribing' = Unsubscribing \ {t}
        BY <2>1, <2>2, <3>3 DEF Unsubscribing, UnsubscribeStages
      <3>5. \A w \in Unsubscribing \ {t} : hpc'[w] = hpc[w]
        BY <2>2 DEF Unsubscribing
      <3> QED BY <2>1, <3>1, <3>4, <3>5 DEF Undisturbed
    <2> QED BY <2>2, <2>4, <2>6, <2>7, <2>8, <2>9 DEF HubInv
  <1>7. CASE PopQueues(t)
    <2>1. /\ hpc[t] = "pop" /\ HubGoTo(t, "unsubscribed")
          /\ entry' = Nobody
          /\ UNCHANGED <<hubPid, hubLock, listeners, members, mySet, overlapped>>
      BY <1>7 DEF PopQueues
    <2>2. ListenerInv' /\ hpc'[t] = "unsubscribed" /\ Others
      BY <2>1, ListenerKept DEF WithListener, UnsubscribeStages
    <2>4. HubTypeOK'
      BY <1>0, <2>1 DEF HubTypeOK, HubGoTo, Sets, UnsubscribeStages
    <2>6. ASSUME NEW u \in Threads, hpc'[u] \in BeforeSet
          PROVE  FreshSet(u)'
      <3>1. u # t /\ FreshSet(u)
        BY <1>0, <2>2, <2>6 DEF BeforeSet
      <3> QED BY <2>1, <3>1 DEF FreshSet
    <2>7. ASSUME NEW u \in Threads
          PROVE  LeaverInv(u)'
      <3>1. LeaverInv(u)
        BY <1>0
      <3>2. CASE u = t
        BY <2>1, <2>2, <3>2 DEF LeaverInv, UnsubscribeStages
      <3>3. CASE u # t
        BY <2>1, <2>2, <3>1, <3>3 DEF LeaverInv
      <3> QED BY <3>2, <3>3
    <2>9. ASSUME NEW u \in Threads, hpc'[u] = "subscribed", u \notin overlapped'
          PROVE  FALSE
      <3>1. Undisturbed(u)
        BY <1>0, <2>1, <2>2, <2>9
      <3> QED BY <2>1, <3>1 DEF Undisturbed, Unsubscribing, UnsubscribeStages
    <2> QED BY <2>1, <2>2, <2>4, <2>6, <2>7, <2>9 DEF HubInv
  <1> QED BY <1>1, <1>2, <1>3, <1>4, <1>5, <1>6, <1>7 DEF Subscription

-----------------------------------------------------------------------------
(* The requests.                                                           *)

IInv == RedisInv /\ EmbedInv /\ HubInv

LEMMA IInvInit == Init => IInv
  BY RedisInvInit, EmbedInvInit, HubInvInit DEF Init, IInv

LEMMA IInvStep == IInv /\ [Next]_vars => IInv'
  <1> SUFFICES ASSUME IInv, [Next]_vars PROVE IInv'
    OBVIOUS
  <1> USE DEF IInv
  <1>1. CASE UNCHANGED vars
    BY <1>1, RedisInvKept, EmbedInvKept, HubInvKept DEF vars
  <1>2. ASSUME NEW t \in Threads, CallRedis(t) PROVE IInv'
    BY <1>2, RedisInvStep, RedisInvKept, EmbedInvKept, HubInvKept DEF CallRedis
  <1>3. ASSUME NEW t \in Threads, CallEmbed(t) PROVE IInv'
    BY <1>3, EmbedInvStep, RedisInvKept, EmbedInvKept, HubInvKept DEF CallEmbed
  <1>4. ASSUME NEW t \in Threads, CallHub(t) PROVE IInv'
    BY <1>4, HubInvStep, RedisInvKept, EmbedInvKept, HubInvKept DEF CallHub
  <1> QED BY <1>1, <1>2, <1>3, <1>4 DEF Next, Step

THEOREM WorkerInvariance == Spec => []IInv
  BY IInvInit, IInvStep, PTL DEF Spec

\* The states of a request: what is left of its handler's calls.
Rests == Handlers \cup {<<"embed">>, <<"redis">>, <<"hub">>, <<>>}

Typed == todo \in [Threads -> Rests]

LEMMA TodoTyped == Spec => []Typed
  <1>1. Init => Typed
    BY DEF Init, Typed, Rests
  <1>2. \A r \in Rests : r # <<>> => Tail(r) \in Rests
    <2>1. \A x, y : Tail(<<x, y>>) = <<y>>
      OBVIOUS
    <2>2. \A x : Tail(<<x>>) = <<>>
      OBVIOUS
    <2> QED BY <2>1, <2>2 DEF Handlers, Rests
  <1>3. Typed /\ [Next]_vars => Typed'
    <2> SUFFICES ASSUME Typed, [Next]_vars PROVE Typed'
      OBVIOUS
    <2> USE DEF Typed
    <2>1. CASE UNCHANGED vars
      BY <2>1 DEF vars
    <2>2. ASSUME NEW t \in Threads, NEW service, Calls(t, service), Proceeds(t, service)
          PROVE  Typed'
      <3>1. <<>> \in Rests
        BY DEF Rests
      <3> QED BY <1>2, <2>2, <3>1 DEF Calls, Proceeds
    <2>3. ASSUME NEW t \in Threads, Step(t) PROVE Typed'
      BY <2>2, <2>3 DEF Step, CallRedis, CallEmbed, CallHub
    <2> QED BY <2>1, <2>3 DEF Next
  <1> QED BY <1>1, <1>3, PTL DEF Spec

\* Every variable of the worker process keeps its type.
THEOREM WorkerTypeCorrect == Spec => []TypeOK
  <1>1. IInv /\ Typed => TypeOK
    BY DEF IInv, RedisInv, EmbedInv, HubInv, TypeOK, Typed, Rests
  <1> QED BY <1>1, TodoTyped, WorkerInvariance, PTL

\* However the first calls of get_redis overlap, in a fresh or a forked process,
\* its requests share one client, and it is not the parent's.
THEOREM SharedClient == Spec => []OneClientPerProcess
  <1>1. IInv => OneClientPerProcess
    BY InheritedAssumption DEF IInv, RedisInv, OneClientPerProcess
  <1> QED BY <1>1, WorkerInvariance, PTL

\* No way out of embed loses a slot or gives one back twice, and no more than
\* the cap are taken.
THEOREM SlotsAreConserved == Spec => []SlotsConserved
  <1>1. IInv => SlotsConserved
    BY DEF IInv, EmbedInv, SlotsConserved, Holders
  <1> QED BY <1>1, WorkerInvariance, PTL

\* Streams that start at the same time start one listener between them.
THEOREM SharedListener == Spec => []OneListenerPerProcess
  <1>1. IInv => OneListenerPerProcess
    BY DEF IInv, HubInv, ListenerInv, WithListener, OneListenerPerProcess
  <1> QED BY <1>1, WorkerInvariance, PTL

\* With real threads too, a stream is cut off from the hub only if it subscribed
\* while another stream of its session unsubscribed.
THEOREM CutOffExplained == Spec => []CutOffOnlyByOverlap
  <1>1. IInv => CutOffOnlyByOverlap
    BY DEF IInv, HubInv, Undisturbed, CutOffOnlyByOverlap, Reachable
  <1> QED BY <1>1, WorkerInvariance, PTL

LEMMA IInvLeaksNothing == IInv => NothingLeaks
  <1> SUFFICES ASSUME IInv PROVE NothingLeaks
    OBVIOUS
  <1>1. \A t \in Threads : hpc[t] = "unsubscribed" => t \notin Reachable
    BY DEF IInv, HubInv, LeaverInv, Reachable
  <1>2. ASSUME hubPid = "own", \A t \in Threads : hpc[t] \in {"idle", "unsubscribed"},
               entry # Nobody
        PROVE  FALSE
    <2>1. PICK t \in Threads : Remover(t)
      BY <1>2 DEF IInv, HubInv
    <2>2. entry \in Sets /\ t \in members[entry]
      BY <1>2, <2>1 DEF Remover, IInv, HubInv, HubTypeOK
    <2>3. hpc[t] # "unsubscribed"
      BY <1>1, <1>2, <2>2 DEF Reachable
    <2>4. hpc[t] # "idle"
      BY <2>2 DEF IInv, HubInv, FreshSet, BeforeSet
    <2> QED BY <1>2, <2>3, <2>4
  <1> QED BY <1>1, <1>2 DEF NothingLeaks

\* No stream leaves its queue in the hub, and the last to leave a session takes
\* the session's key with it.
THEOREM NoQueueLeft == Spec => []NothingLeaks
  BY IInvLeaksNothing, WorkerInvariance, PTL

-----------------------------------------------------------------------------
(* The hub of EventStream, deadlocks, and progress.                        *)

\* EventStream has the hub as a set that subscribe and unsubscribe change at once.
\* Taken apart into its dict and set operations it is still that: what the
\* listener can reach is no stream but those subscribed or in the act of leaving,
\* and of those subscribed it misses only what an overlap cut off.
HubIsASet ==
    /\ Reachable \subseteq {t \in Threads : hpc[t] \in {"subscribed", "discard"}}
    /\ {t \in Threads : hpc[t] = "subscribed"} \ overlapped \subseteq Reachable

\* In any interleaving of subscribe and unsubscribe, in a fresh or a forked process.
THEOREM HubHoldsTheSubscribed == Spec => []HubIsASet
  <1>1. IInv => HubIsASet
    <2> SUFFICES ASSUME IInv PROVE HubIsASet
      OBVIOUS
    <2>1. ASSUME NEW t \in Reachable
          PROVE  t \in Threads /\ hpc[t] \in {"subscribed", "discard"}
      <3>1. entry \in Sets /\ t \in members[entry] /\ t \in Threads
        BY <2>1 DEF Reachable, IInv, HubInv, HubTypeOK
      <3>2. entry # Nobody
        BY <2>1 DEF Reachable
      <3>3. hpc[t] \notin BeforeSet
        BY <3>1 DEF IInv, HubInv, FreshSet
      <3>4. hpc[t] \notin {"add", "test_empty", "pop", "unsubscribed"}
        BY <3>1, <3>2 DEF IInv, HubInv, LeaverInv
      <3>5. hpc[t] \in SubscribeStages \cup UnsubscribeStages
                            \cup {"idle", "subscribed", "unsubscribed"}
        BY <3>1 DEF IInv, HubInv, HubTypeOK
      <3> QED BY <3>1, <3>3, <3>4, <3>5 DEF BeforeSet, SubscribeStages, UnsubscribeStages
    <2>2. ASSUME NEW t \in Threads, hpc[t] = "subscribed", t \notin overlapped
          PROVE  t \in Reachable
      BY <2>2 DEF IInv, HubInv, Undisturbed, Reachable
    <2> QED BY <2>1, <2>2 DEF HubIsASet
  <1> QED BY <1>1, WorkerInvariance, PTL

-----------------------------------------------------------------------------
(* The safety core of RequestsEnd, first part: nobody waits for a lock     *)
(* whose owner waits, and an owner is in the middle of a request.          *)

\* A request is inside the service that it calls, and in no other.
PlaceInv(t) ==
    /\ rpc[t] \notin {"idle", "returned"} => Calls(t, "redis")
    /\ epc[t] \notin {"idle", "returned"} => Calls(t, "embed")
    /\ hpc[t] \notin {"idle", "unsubscribed"} => Calls(t, "hub")

LockInv ==
    /\ clientLock # Nobody => clientLock \in ClientWriters
    /\ hubLock # Nobody => hubLock \in Threads /\ hpc[hubLock] \in {"empty", "start"}

OrderInv == LockInv /\ \A t \in Threads : PlaceInv(t)

LEMMA OrderInvInit == Init => OrderInv
  BY DEF Init, RedisInit, EmbedInit, HubInit, OrderInv, LockInv, PlaceInv

\* A request moves in its own place only.
LEMMA OthersTodo ==
    ASSUME Typed, NEW t \in Threads, NEW service, Proceeds(t, service),
           NEW u \in Threads, u # t
    PROVE  todo'[u] = todo[u]
  BY DEF Typed, Proceeds

LEMMA OthersRedis ==
    ASSUME RedisInv, NEW t \in Threads, GetRedis(t), NEW u \in Threads, u # t
    PROVE  rpc'[u] = rpc[u]
  <1>1. \E stage \in RedisStages : RedisGoTo(t, stage)
    <2> USE DEF RedisStages
    <2>1. CASE TestClient(t) \/ TestClientPid(t)
      BY <2>1 DEF TestClient, TestClientPid
    <2>2. CASE LockClient(t)
      BY <2>2 DEF LockClient
    <2>3. CASE SetClient(t) \/ SetClientPid(t) \/ ReturnClient(t)
      BY <2>3 DEF SetClient, SetClientPid, ReturnClient
    <2> QED BY <2>1, <2>2, <2>3 DEF GetRedis
  <1> QED BY <1>1 DEF RedisGoTo, RedisInv, RedisTypeOK

LEMMA OthersEmbed ==
    ASSUME EmbedInv, NEW t \in Threads, Embed(t), NEW u \in Threads, u # t
    PROVE  epc'[u] = epc[u] /\ attempt'[u] = attempt[u]
  BY DEF Embed, AcquireSlot, SlotTimeout, Post, WakeUp, ReleaseSlot, EmbedGoTo, EmbedInv,
         EmbedTypeOK

LEMMA OthersHub ==
    ASSUME HubInv, NEW t \in Threads, Subscription(t), NEW u \in Threads, u # t
    PROVE  hpc'[u] = hpc[u]
  <1>1. \E stage : HubGoTo(t, stage)
    BY DEF Subscription, EnsureListener, TestHubPid, LockHub, EmptyQueues, StartListener,
           SetDefault, AddQueue, GetQueues, DiscardQueue, TestEmpty, PopQueues
  <1> QED BY <1>1 DEF HubGoTo, HubInv, HubTypeOK

LEMMA RedisOrderStep ==
    ASSUME IInv, Typed, OrderInv, NEW t \in Threads, CallRedis(t)
    PROVE  OrderInv'
  <1> USE DEF RedisGoTo
  <1>0. /\ RedisInv /\ rpc \in [Threads -> RedisStages] /\ UNCHANGED <<embedVars, hubVars>>
        /\ \A u \in Threads : u \in ClientWriters => clientLock = u
        /\ \A u \in Threads : PlaceInv(u)
    BY DEF CallRedis, IInv, RedisInv, RedisTypeOK, OrderInv
  <1>1. epc[t] \in {"idle", "returned"} /\ hpc[t] \in {"idle", "unsubscribed"}
    BY <1>0 DEF CallRedis, Calls, PlaceInv
  <1>2. ASSUME NEW u \in Threads \ {t} PROVE rpc'[u] = rpc[u] /\ todo'[u] = todo[u]
    BY <1>0, OthersTodo, OthersRedis DEF CallRedis, redisVars
  <1>3. PlaceInv(t)'
    <2>1. CASE UNCHANGED todo
      BY <1>0, <1>1, <2>1 DEF CallRedis, Calls, PlaceInv, embedVars, hubVars
    <2>2. CASE rpc[t] = "returned" /\ UNCHANGED redisVars
      BY <1>0, <1>1, <2>2 DEF PlaceInv, redisVars, embedVars, hubVars
    <2> QED BY <2>1, <2>2 DEF CallRedis
  <1>4. \A u \in Threads : PlaceInv(u)'
    BY <1>0, <1>2, <1>3 DEF PlaceInv, Calls, embedVars, hubVars
  <1>5. clientLock' # Nobody => clientLock' \in ClientWriters'
    <2>1. CASE LockClient(t)
      BY <1>0, <2>1 DEF LockClient, OrderInv, LockInv, ClientWriters
    <2>2. CASE SetClientPid(t)
      BY <2>2 DEF SetClientPid
    <2>3. CASE SetClient(t)
      BY <1>0, <2>3 DEF SetClient, OrderInv, LockInv, ClientWriters
    <2>4. ASSUME UNCHANGED clientLock, t \notin ClientWriters
          PROVE  clientLock' # Nobody => clientLock' \in ClientWriters'
      BY <1>2, <2>4 DEF OrderInv, LockInv, ClientWriters
    <2>6. CASE TestClient(t) \/ TestClientPid(t) \/ ReturnClient(t)
      BY <2>4, <2>6 DEF TestClient, TestClientPid, ReturnClient, ClientWriters
    <2>5. CASE UNCHANGED redisVars
      BY <2>5 DEF redisVars, OrderInv, LockInv, ClientWriters
    <2> QED BY <2>1, <2>2, <2>3, <2>5, <2>6 DEF CallRedis, GetRedis
  <1> QED BY <1>0, <1>4, <1>5 DEF OrderInv, LockInv, hubVars

LEMMA EmbedOrderStep ==
    ASSUME IInv, Typed, OrderInv, NEW t \in Threads, CallEmbed(t)
    PROVE  OrderInv'
  <1>0. /\ EmbedInv /\ epc \in [Threads -> EmbedStages] /\ UNCHANGED <<redisVars, hubVars>>
        /\ \A u \in Threads : PlaceInv(u)
    BY DEF CallEmbed, IInv, EmbedInv, EmbedTypeOK, OrderInv
  <1>1. rpc[t] \in {"idle", "returned"} /\ hpc[t] \in {"idle", "unsubscribed"}
    BY <1>0 DEF CallEmbed, Calls, PlaceInv
  <1>2. ASSUME NEW u \in Threads \ {t} PROVE epc'[u] = epc[u] /\ todo'[u] = todo[u]
    BY <1>0, OthersTodo, OthersEmbed DEF CallEmbed, embedVars
  <1>3. PlaceInv(t)'
    <2>1. CASE UNCHANGED todo
      BY <1>0, <1>1, <2>1 DEF CallEmbed, Calls, PlaceInv, redisVars, hubVars
    <2>2. CASE epc[t] = "returned" /\ UNCHANGED embedVars
      BY <1>0, <1>1, <2>2 DEF PlaceInv, redisVars, embedVars, hubVars
    <2> QED BY <2>1, <2>2 DEF CallEmbed
  <1>4. \A u \in Threads : PlaceInv(u)'
    BY <1>0, <1>2, <1>3 DEF PlaceInv, Calls, redisVars, hubVars
  <1> QED BY <1>0, <1>4 DEF OrderInv, LockInv, ClientWriters, redisVars, hubVars

LEMMA HubOrderStep ==
    ASSUME IInv, Typed, OrderInv, NEW t \in Threads, CallHub(t)
    PROVE  OrderInv'
  <1> USE DEF HubGoTo
  <1>0. /\ HubInv
        /\ hpc \in [Threads -> SubscribeStages \cup UnsubscribeStages
                                  \cup {"idle", "subscribed", "unsubscribed"}]
        /\ UNCHANGED <<redisVars, embedVars>>
        /\ \A u \in Threads : hpc[u] \in {"empty", "start"} => hubLock = u
        /\ \A u \in Threads : PlaceInv(u)
    BY DEF CallHub, IInv, HubInv, HubTypeOK, ListenerInv, OrderInv
  <1>1. rpc[t] \in {"idle", "returned"} /\ epc[t] \in {"idle", "returned"}
    BY <1>0 DEF CallHub, Calls, PlaceInv
  <1>2. ASSUME NEW u \in Threads \ {t} PROVE hpc'[u] = hpc[u] /\ todo'[u] = todo[u]
    BY <1>0, OthersTodo, OthersHub DEF CallHub, hubVars
  <1>3. PlaceInv(t)'
    <2>1. CASE UNCHANGED todo
      BY <1>0, <1>1, <2>1 DEF CallHub, Calls, PlaceInv, redisVars, embedVars
    <2>2. CASE hpc[t] = "unsubscribed" /\ UNCHANGED hubVars
      BY <1>0, <1>1, <2>2 DEF PlaceInv, redisVars, embedVars, hubVars
    <2> QED BY <2>1, <2>2 DEF CallHub
  <1>4. \A u \in Threads : PlaceInv(u)'
    BY <1>0, <1>2, <1>3 DEF PlaceInv, Calls, redisVars, embedVars
  <1>5. hubLock' # Nobody => hubLock' \in Threads /\ hpc'[hubLock'] \in {"empty", "start"}
    <2>1. CASE LockHub(t)
      BY <1>0, <2>1 DEF LockHub, OrderInv, LockInv
    <2>2. CASE EmptyQueues(t)
      BY <1>0, <2>2 DEF EmptyQueues, OrderInv, LockInv
    <2>3. CASE StartListener(t)
      BY <2>3 DEF StartListener
    <2>4. ASSUME UNCHANGED hubLock, hpc[t] \notin {"empty", "start"}
          PROVE  hubLock' # Nobody => hubLock' \in Threads /\ hpc'[hubLock'] \in {"empty", "start"}
      BY <1>0, <1>2, <2>4 DEF OrderInv, LockInv
    <2>5. CASE \/ TestHubPid(t) \/ SetDefault(t) \/ AddQueue(t) \/ GetQueues(t)
               \/ DiscardQueue(t) \/ TestEmpty(t) \/ PopQueues(t)
      BY <2>4, <2>5 DEF TestHubPid, SetDefault, AddQueue, GetQueues, DiscardQueue, TestEmpty,
                        PopQueues
    <2>6. CASE UNCHANGED hubVars
      BY <2>6 DEF hubVars, OrderInv, LockInv
    <2> QED BY <2>1, <2>2, <2>3, <2>5, <2>6 DEF CallHub, Subscription, EnsureListener
  <1> QED BY <1>0, <1>4, <1>5 DEF OrderInv, LockInv, ClientWriters, redisVars

LEMMA OrderInvariance == Spec => []OrderInv
  <1>1. IInv /\ Typed /\ OrderInv /\ [Next]_vars => OrderInv'
    <2>1. UNCHANGED vars /\ OrderInv => OrderInv'
      BY DEF vars, redisVars, embedVars, hubVars, OrderInv, LockInv, ClientWriters, PlaceInv, Calls
    <2> QED BY <2>1, RedisOrderStep, EmbedOrderStep, HubOrderStep DEF Next, Step
  <1> QED BY <1>1, OrderInvInit, TodoTyped, WorkerInvariance, PTL DEF Spec

\* What a request can wait for: a lock that another one has.  (For a slot it does
\* not wait longer than SLOT_WAIT.)
Blocked(t) ==
    \/ Calls(t, "redis") /\ rpc[t] = "lock" /\ clientLock # Nobody
    \/ Calls(t, "hub") /\ hpc[t] = "lock" /\ hubLock # Nobody

\* The owner of a lock is a request that is under way and does not itself wait:
\* nobody waits for a lock in vain, no two requests wait for each other, and no
\* lock outlives its use.
LockOwnersMove ==
    \A lock \in {clientLock, hubLock} :
        lock # Nobody => lock \in Threads /\ todo[lock] # <<>> /\ ~Blocked(lock)

\* However the locks of get_redis and of the hub are contended for, by any number
\* of requests, none is kept by a request that waits or has ended.
THEOREM NoDeadlock == Spec => []LockOwnersMove
  <1>1. IInv /\ OrderInv => LockOwnersMove
    <2> SUFFICES ASSUME IInv, OrderInv PROVE LockOwnersMove
      OBVIOUS
    <2>1. ASSUME clientLock # Nobody
          PROVE  clientLock \in Threads /\ todo[clientLock] # <<>> /\ ~Blocked(clientLock)
      <3>1. clientLock \in Threads /\ rpc[clientLock] \in {"make", "set_pid"}
        BY <2>1 DEF OrderInv, LockInv, ClientWriters
      <3>2. Calls(clientLock, "redis")
        BY <3>1 DEF OrderInv, PlaceInv
      <3> QED BY <3>1, <3>2 DEF Blocked, Calls
    <2>2. ASSUME hubLock # Nobody
          PROVE  hubLock \in Threads /\ todo[hubLock] # <<>> /\ ~Blocked(hubLock)
      <3>1. hubLock \in Threads /\ hpc[hubLock] \in {"empty", "start"}
        BY <2>2 DEF OrderInv, LockInv
      <3>2. Calls(hubLock, "hub")
        BY <3>1 DEF OrderInv, PlaceInv
      <3> QED BY <3>1, <3>2 DEF Blocked, Calls
    <2> QED BY <2>1, <2>2 DEF LockOwnersMove
  <1> QED BY <1>1, WorkerInvariance, OrderInvariance, PTL

-----------------------------------------------------------------------------
(* Second part: every step brings the request that takes it closer to its  *)
(* end and no other one further from it, so that together with NoDeadlock  *)
(* and a fair scheduler all requests end.                                  *)

\* The longest way of a call from where it is to its return, and the return.
RedisLeft(t) ==
    CASE rpc[t] = "idle"     -> 7
      [] rpc[t] = "test_pid" -> 6
      [] rpc[t] = "lock"     -> 5
      [] rpc[t] = "make"     -> 4
      [] rpc[t] = "set_pid"  -> 3
      [] rpc[t] = "return"   -> 2
      [] rpc[t] = "returned" -> 1

EmbedLeft(t) ==
    CASE epc[t] = "idle"     -> 7
      [] epc[t] = "post"     -> IF attempt[t] = 1 THEN 6 ELSE 4
      [] epc[t] = "sleep"    -> 5
      [] epc[t] = "release"  -> 3
      [] epc[t] = "returned" -> 1

HubLeft(t) ==
    CASE hpc[t] = "idle"         -> 11
      [] hpc[t] = "lock"         -> 10
      [] hpc[t] = "empty"        -> 9
      [] hpc[t] = "start"        -> 8
      [] hpc[t] = "setdefault"   -> 7
      [] hpc[t] = "add"          -> 6
      [] hpc[t] = "subscribed"   -> 5
      [] hpc[t] = "discard"      -> 4
      [] hpc[t] = "test_empty"   -> 3
      [] hpc[t] = "pop"          -> 2
      [] hpc[t] = "unsubscribed" -> 1

StillCalls(t, service) == \E i \in DOMAIN todo[t] : todo[t][i] = service

Left(t) ==
    (IF StillCalls(t, "redis") THEN RedisLeft(t) ELSE 0)
        + (IF StillCalls(t, "embed") THEN EmbedLeft(t) ELSE 0)
        + (IF StillCalls(t, "hub") THEN HubLeft(t) ELSE 0)

LEMMA RedisLeftTyped ==
    ASSUME RedisInv, NEW t \in Threads
    PROVE  RedisLeft(t) \in 1 .. 7
  BY DEF RedisInv, RedisTypeOK, RedisStages, RedisLeft

LEMMA EmbedLeftTyped ==
    ASSUME EmbedInv, NEW t \in Threads
    PROVE  EmbedLeft(t) \in 1 .. 7
  BY DEF EmbedInv, EmbedTypeOK, EmbedStages, EmbedLeft

LEMMA HubLeftTyped ==
    ASSUME HubInv, NEW t \in Threads
    PROVE  HubLeft(t) \in 1 .. 11
  BY DEF HubInv, HubTypeOK, SubscribeStages, UnsubscribeStages, HubLeft

LEMMA RedisGetsOn ==
    ASSUME RedisInv, NEW t \in Threads, GetRedis(t)
    PROVE  RedisLeft(t)' < RedisLeft(t)
  <1>0. rpc \in [Threads -> RedisStages]
    BY DEF RedisInv, RedisTypeOK
  <1>1. CASE TestClient(t)
    <2>1. rpc'[t] \in {"test_pid", "lock"}
      BY <1>0, <1>1 DEF TestClient, RedisGoTo
    <2> QED BY <1>1, <2>1 DEF TestClient, RedisLeft
  <1>2. CASE TestClientPid(t)
    <2>1. rpc'[t] \in {"return", "lock"}
      BY <1>0, <1>2 DEF TestClientPid, RedisGoTo
    <2> QED BY <1>2, <2>1 DEF TestClientPid, RedisLeft
  <1>3. CASE LockClient(t)
    <2>1. rpc'[t] \in {"make", "return"}
      BY <1>0, <1>3 DEF LockClient, RedisGoTo
    <2> QED BY <1>3, <2>1 DEF LockClient, RedisLeft
  <1>4. CASE SetClient(t)
    <2>1. rpc'[t] = "set_pid"
      BY <1>0, <1>4 DEF SetClient, RedisGoTo
    <2> QED BY <1>4, <2>1 DEF SetClient, RedisLeft
  <1>5. CASE SetClientPid(t)
    <2>1. rpc'[t] = "return"
      BY <1>0, <1>5 DEF SetClientPid, RedisGoTo
    <2> QED BY <1>5, <2>1 DEF SetClientPid, RedisLeft
  <1>6. CASE ReturnClient(t)
    <2>1. rpc'[t] = "returned"
      BY <1>0, <1>6 DEF ReturnClient, RedisGoTo
    <2> QED BY <1>6, <2>1 DEF ReturnClient, RedisLeft
  <1> QED BY <1>1, <1>2, <1>3, <1>4, <1>5, <1>6 DEF GetRedis

\* Two POSTs at most: a call that slept does not sleep again.
LEMMA EmbedGetsOn ==
    ASSUME EmbedInv, NEW t \in Threads, Embed(t)
    PROVE  EmbedLeft(t)' < EmbedLeft(t)
  <1>0. /\ epc \in [Threads -> EmbedStages] /\ attempt \in [Threads -> 0 .. 2]
        /\ epc[t] = "sleep" => attempt[t] = 1
    BY DEF EmbedInv, EmbedTypeOK
  <1>1. CASE AcquireSlot(t)
    <2>1. epc'[t] = "post" /\ attempt'[t] = 1
      BY <1>0, <1>1 DEF AcquireSlot, EmbedGoTo
    <2> QED BY <1>1, <2>1 DEF AcquireSlot, EmbedLeft
  <1>2. CASE SlotTimeout(t)
    <2>1. epc'[t] = "returned"
      BY <1>0, <1>2 DEF SlotTimeout, EmbedGoTo
    <2> QED BY <1>2, <2>1 DEF SlotTimeout, EmbedLeft
  <1>3. ASSUME NEW o \in Outcomes, Post(t, o)
        PROVE  EmbedLeft(t)' < EmbedLeft(t)
    <2>1. epc[t] = "post" /\ epc'[t] = IF Retries(t, o) THEN "sleep" ELSE "release"
      BY <1>0, <1>3 DEF Post, EmbedGoTo
    <2>2. Retries(t, o) => attempt[t] = 1
      BY DEF Retries
    <2> QED BY <2>1, <2>2 DEF EmbedLeft
  <1>4. CASE WakeUp(t)
    <2>1. epc[t] = "sleep" /\ epc'[t] = "post" /\ attempt'[t] = 2
      BY <1>0, <1>4 DEF WakeUp, EmbedGoTo, NextAttempt
    <2> QED BY <2>1 DEF EmbedLeft
  <1>5. CASE ReleaseSlot(t)
    <2>1. epc'[t] = "returned"
      BY <1>0, <1>5 DEF ReleaseSlot, EmbedGoTo
    <2> QED BY <1>5, <2>1 DEF ReleaseSlot, EmbedLeft
  <1> QED BY <1>1, <1>2, <1>3, <1>4, <1>5 DEF Embed

LEMMA HubGetsOn ==
    ASSUME HubInv, NEW t \in Threads, Subscription(t)
    PROVE  HubLeft(t)' < HubLeft(t)
  <1>0. hpc \in [Threads -> SubscribeStages \cup UnsubscribeStages
                                  \cup {"idle", "subscribed", "unsubscribed"}]
    BY DEF HubInv, HubTypeOK
  <1>1. CASE TestHubPid(t)
    <2>1. hpc'[t] \in {"setdefault", "lock"}
      BY <1>0, <1>1 DEF TestHubPid, HubGoTo
    <2> QED BY <1>1, <2>1 DEF TestHubPid, HubLeft
  <1>2. CASE LockHub(t)
    <2>1. hpc'[t] \in {"setdefault", "empty"}
      BY <1>0, <1>2 DEF LockHub, HubGoTo
    <2> QED BY <1>2, <2>1 DEF LockHub, HubLeft
  <1>3. CASE EmptyQueues(t)
    <2>1. hpc'[t] = "start"
      BY <1>0, <1>3 DEF EmptyQueues, HubGoTo
    <2> QED BY <1>3, <2>1 DEF EmptyQueues, HubLeft
  <1>4. CASE StartListener(t)
    <2>1. hpc'[t] = "setdefault"
      BY <1>0, <1>4 DEF StartListener, HubGoTo
    <2> QED BY <1>4, <2>1 DEF StartListener, HubLeft
  <1>5. CASE SetDefault(t)
    <2>1. hpc'[t] = "add"
      BY <1>0, <1>5 DEF SetDefault, HubGoTo
    <2> QED BY <1>5, <2>1 DEF SetDefault, HubLeft
  <1>6. CASE AddQueue(t)
    <2>1. hpc'[t] = "subscribed"
      BY <1>0, <1>6 DEF AddQueue, HubGoTo
    <2> QED BY <1>6, <2>1 DEF AddQueue, HubLeft
  <1>7. CASE GetQueues(t)
    <2>1. hpc'[t] \in {"unsubscribed", "discard"}
      BY <1>0, <1>7 DEF GetQueues, HubGoTo
    <2> QED BY <1>7, <2>1 DEF GetQueues, HubLeft
  <1>8. CASE DiscardQueue(t)
    <2>1. hpc'[t] = "test_empty"
      BY <1>0, <1>8 DEF DiscardQueue, HubGoTo
    <2> QED BY <1>8, <2>1 DEF DiscardQueue, HubLeft
  <1>9. CASE TestEmpty(t)
    <2>1. hpc'[t] \in {"pop", "unsubscribed"}
      BY <1>0, <1>9 DEF TestEmpty, HubGoTo
    <2> QED BY <1>9, <2>1 DEF TestEmpty, HubLeft
  <1>10. CASE PopQueues(t)
    <2>1. hpc'[t] = "unsubscribed"
      BY <1>0, <1>10 DEF PopQueues, HubGoTo
    <2> QED BY <1>10, <2>1 DEF PopQueues, HubLeft
  <1> QED BY <1>1, <1>2, <1>3, <1>4, <1>5, <1>6, <1>7, <1>8, <1>9, <1>10
          DEF Subscription, EnsureListener

\* A call that is back is called no more, and nothing new is.
LEMMA ProceedsCallsLess ==
    ASSUME Typed, NEW t \in Threads, NEW service \in {"redis", "embed", "hub"},
           Calls(t, service), Proceeds(t, service)
    PROVE  /\ StillCalls(t, service) /\ ~StillCalls(t, service)'
           /\ \A other : StillCalls(t, other)' => StillCalls(t, other)
  <1> DEFINE r == todo[t]
  <1>1. r \in Rests /\ r # <<>> /\ Head(r) = service
    BY DEF Calls, Typed
  <1>2. todo'[t] \in {<<>>, Tail(r)}
    BY DEF Proceeds, Typed
  <1>3. ASSUME NEW x, NEW y, r = <<x, y>>, x # y
        PROVE  /\ \E i \in DOMAIN r : r[i] = Head(r)
               /\ \A i \in DOMAIN Tail(r) : Tail(r)[i] # Head(r) /\ Tail(r)[i] = r[2]
               /\ 2 \in DOMAIN r
    BY <1>3
  <1>4. ASSUME NEW x, r = <<x>>
        PROVE  (\E i \in DOMAIN r : r[i] = Head(r)) /\ Tail(r) = <<>>
    BY <1>4
  <1>5. (\E x, y : r = <<x, y>> /\ x # y) \/ (\E x : r = <<x>>)
    BY <1>1 DEF Rests, Handlers
  <1> HIDE DEF r
  <1>6. \E i \in DOMAIN r : r[i] = service
    BY <1>1, <1>3, <1>4, <1>5
  <1>7. \A i \in DOMAIN todo'[t] : /\ todo'[t][i] # service
                                   /\ \E j \in DOMAIN r : r[j] = todo'[t][i]
    <2>1. CASE todo'[t] = <<>>
      BY <2>1
    <2>2. CASE todo'[t] = Tail(r)
      BY <1>1, <1>3, <1>4, <1>5, <2>2
    <2> QED BY <1>2, <2>1, <2>2
  <1> QED BY <1>6, <1>7 DEF StillCalls, r

\* A service that is called is among those left.
LEMMA CallsAreLeft ==
    ASSUME Typed, NEW t \in Threads, NEW service, Calls(t, service)
    PROVE  StillCalls(t, service)
  <1>1. \A x, y : \E i \in DOMAIN <<x, y>> : <<x, y>>[i] = Head(<<x, y>>)
    <2> TAKE x, y
    <2>1. 1 \in DOMAIN <<x, y>> /\ <<x, y>>[1] = x /\ Head(<<x, y>>) = x
      OBVIOUS
    <2> QED BY <2>1
  <1>2. \A x : \E i \in DOMAIN <<x>> : <<x>>[i] = Head(<<x>>)
    <2> TAKE x
    <2>1. 1 \in DOMAIN <<x>> /\ <<x>>[1] = x /\ Head(<<x>>) = x
      OBVIOUS
    <2> QED BY <2>1
  <1>3. (\E x, y : todo[t] = <<x, y>>) \/ (\E x : todo[t] = <<x>>)
    BY DEF Calls, Typed, Rests, Handlers
  <1> QED BY <1>1, <1>2, <1>3 DEF Calls, StillCalls

LEMMA SameLeft ==
    ASSUME NEW t \in Threads
    PROVE  /\ rpc' = rpc => RedisLeft(t)' = RedisLeft(t)
           /\ epc' = epc /\ attempt' = attempt => EmbedLeft(t)' = EmbedLeft(t)
           /\ hpc' = hpc => HubLeft(t)' = HubLeft(t)
  <1>1. rpc' = rpc => RedisLeft(t)' = RedisLeft(t)
    BY DEF RedisLeft
  <1>2. epc' = epc /\ attempt' = attempt => EmbedLeft(t)' = EmbedLeft(t)
    BY DEF EmbedLeft
  <1>3. hpc' = hpc => HubLeft(t)' = HubLeft(t)
    BY DEF HubLeft
  <1> QED BY <1>1, <1>2, <1>3

\* A step within the service called, and the step back from it.
LEMMA StepsOn ==
    ASSUME IInv, Typed, NEW t \in Threads, Step(t)
    PROVE  Left(t)' < Left(t)
  <1>1. /\ RedisLeft(t) \in 1 .. 7 /\ EmbedLeft(t) \in 1 .. 7 /\ HubLeft(t) \in 1 .. 11
    BY RedisLeftTyped, EmbedLeftTyped, HubLeftTyped DEF IInv
  <1>2. /\ RedisInv' => RedisLeft(t)' \in 1 .. 7
        /\ EmbedInv' => EmbedLeft(t)' \in 1 .. 7
        /\ HubInv' => HubLeft(t)' \in 1 .. 11
    <2>1. RedisInv' => RedisLeft(t)' \in 1 .. 7
      BY DEF RedisInv, RedisTypeOK, RedisStages, RedisLeft
    <2>2. EmbedInv' => EmbedLeft(t)' \in 1 .. 7
      BY DEF EmbedInv, EmbedTypeOK, EmbedStages, EmbedLeft
    <2>3. HubInv' => HubLeft(t)' \in 1 .. 11
      BY DEF HubInv, HubTypeOK, SubscribeStages, UnsubscribeStages, HubLeft
    <2> QED BY <2>1, <2>2, <2>3
  <1>3. /\ UNCHANGED redisVars => RedisLeft(t)' = RedisLeft(t)
        /\ UNCHANGED embedVars => EmbedLeft(t)' = EmbedLeft(t)
        /\ UNCHANGED hubVars => HubLeft(t)' = HubLeft(t)
    BY SameLeft DEF redisVars, embedVars, hubVars
  <1>4. ASSUME UNCHANGED <<redisVars, embedVars, hubVars>>,
               NEW service \in {"redis", "embed", "hub"},
               Calls(t, service), Proceeds(t, service)
        PROVE  Left(t)' < Left(t)
    <2>1. /\ StillCalls(t, service) /\ ~StillCalls(t, service)'
          /\ \A other : StillCalls(t, other)' => StillCalls(t, other)
      BY <1>4, ProceedsCallsLess
    <2>2. /\ RedisLeft(t)' = RedisLeft(t) /\ EmbedLeft(t)' = EmbedLeft(t)
          /\ HubLeft(t)' = HubLeft(t)
      BY <1>3, <1>4
    <2> QED BY <1>1, <2>1, <2>2 DEF Left
  <1>5. ASSUME UNCHANGED todo PROVE \A s : StillCalls(t, s)' <=> StillCalls(t, s)
    BY <1>5 DEF StillCalls
  <1>6. CASE CallRedis(t)
    <2>1. CASE GetRedis(t) /\ UNCHANGED todo
      <3>1. StillCalls(t, "redis") /\ RedisLeft(t)' < RedisLeft(t) /\ RedisInv'
        BY <1>6, <2>1, CallsAreLeft, RedisGetsOn, RedisInvStep DEF CallRedis, IInv
      <3>2. RedisLeft(t)' \in 1 .. 7 /\ EmbedLeft(t)' = EmbedLeft(t) /\ HubLeft(t)' = HubLeft(t)
        BY <1>2, <1>3, <1>6, <3>1 DEF CallRedis
      <3> QED BY <1>1, <1>5, <2>1, <3>1, <3>2 DEF Left
    <2> QED BY <1>4, <1>6, <2>1 DEF CallRedis
  <1>7. CASE CallEmbed(t)
    <2>1. CASE Embed(t) /\ UNCHANGED todo
      <3>1. StillCalls(t, "embed") /\ EmbedLeft(t)' < EmbedLeft(t) /\ EmbedInv'
        BY <1>7, <2>1, CallsAreLeft, EmbedGetsOn, EmbedInvStep DEF CallEmbed, IInv
      <3>2. EmbedLeft(t)' \in 1 .. 7
        BY <1>2, <3>1
      <3>3. RedisLeft(t)' = RedisLeft(t) /\ HubLeft(t)' = HubLeft(t)
        BY <1>3, <1>7 DEF CallEmbed
      <3> QED BY <1>1, <1>5, <2>1, <3>1, <3>2, <3>3 DEF Left
    <2> QED BY <1>4, <1>7, <2>1 DEF CallEmbed
  <1>8. CASE CallHub(t)
    <2>1. CASE Subscription(t) /\ UNCHANGED todo
      <3>1. StillCalls(t, "hub") /\ HubLeft(t)' < HubLeft(t) /\ HubInv'
        BY <1>8, <2>1, CallsAreLeft, HubGetsOn, HubInvStep DEF CallHub, IInv
      <3>2. HubLeft(t)' \in 1 .. 11
        BY <1>2, <3>1
      <3>3. RedisLeft(t)' = RedisLeft(t) /\ EmbedLeft(t)' = EmbedLeft(t)
        BY <1>3, <1>8 DEF CallHub
      <3> QED BY <1>1, <1>5, <2>1, <3>1, <3>2, <3>3 DEF Left
    <2> QED BY <1>4, <1>8, <2>1 DEF CallHub
  <1> QED BY <1>6, <1>7, <1>8 DEF Step

LEMMA OthersStay ==
    ASSUME IInv, Typed, NEW t \in Threads, Step(t), NEW u \in Threads, u # t
    PROVE  Left(u)' = Left(u)
  <1>1. todo'[u] = todo[u]
    BY OthersTodo DEF Step, CallRedis, CallEmbed, CallHub
  <1>2. rpc'[u] = rpc[u]
    BY OthersRedis DEF Step, CallRedis, CallEmbed, CallHub, redisVars, IInv
  <1>3. epc'[u] = epc[u] /\ attempt'[u] = attempt[u]
    BY OthersEmbed DEF Step, CallRedis, CallEmbed, CallHub, embedVars, IInv
  <1>4. hpc'[u] = hpc[u]
    BY OthersHub DEF Step, CallRedis, CallEmbed, CallHub, hubVars, IInv
  <1> QED BY <1>1, <1>2, <1>3, <1>4 DEF Left, StillCalls, RedisLeft, EmbedLeft, HubLeft

\* What a step does to the ways: it shortens that of the request that takes it,
\* and leaves those of all others.
EveryStepIsProgress ==
    \E t \in Threads :
        /\ Left(t)' < Left(t)
        /\ \A u \in Threads \ {t} : Left(u)' = Left(u)

\* No retry, no lock and no race makes a request go round in circles: each takes
\* 18 steps at most, seven for the Redis client and eleven for the hub, whatever
\* the others do.
THEOREM RequestsGetOn ==
    Spec => /\ [](\A t \in Threads : Left(t) \in 0 .. 18)
            /\ [][EveryStepIsProgress]_vars
  <1>1. IInv /\ Typed => \A t \in Threads : Left(t) \in 0 .. 18
    <2> SUFFICES ASSUME IInv, Typed, NEW t \in Threads PROVE Left(t) \in 0 .. 18
      OBVIOUS
    <2>1. RedisLeft(t) \in 1 .. 7 /\ EmbedLeft(t) \in 1 .. 7 /\ HubLeft(t) \in 1 .. 11
      BY RedisLeftTyped, EmbedLeftTyped, HubLeftTyped DEF IInv
    <2>2. ~(StillCalls(t, "embed") /\ StillCalls(t, "hub"))
      <3>1. todo[t] \in {<<"embed", "redis">>, <<"redis", "embed">>, <<"redis", "hub">>,
                         <<"embed">>, <<"redis">>, <<"hub">>, <<>>}
        BY DEF Typed, Rests, Handlers
      <3> QED BY <3>1 DEF StillCalls
    <2> QED BY <2>1, <2>2 DEF Left
  <1>2. IInv /\ Typed /\ [Next]_vars => [EveryStepIsProgress]_vars
    BY StepsOn, OthersStay DEF Next, EveryStepIsProgress
  <1> QED BY <1>1, <1>2, TodoTyped, WorkerInvariance, PTL DEF Spec
=============================================================================
