----------------------------- MODULE EventHub -----------------------------
(***************************************************************************)
(* The event hub of a process (app/services/event_hub.py) as its threads   *)
(* use it for the streams of one session: the listener that the first of   *)
(* them starts, and the registry of queues, in which each dict or set      *)
(* operation is atomic and a sequence of them is not.                      *)
(*                                                                         *)
(* A thread has one queue, named by it; a set of queues is named by the    *)
(* thread whose setdefault put it into the dict.  Sessions have different  *)
(* keys of the dict, so one shows what can happen to any.                  *)
(***************************************************************************)
EXTENDS ServerProcess

VARIABLES hubPid,      \* _pid
          hubLock,     \* the owner of _lock
          listeners,   \* listener threads started in this process
          entry,       \* the set at _queues[session_id], Nobody if there is none
          members,     \* members[v]: the queues in set v
          hpc,         \* hpc[t]: where thread t is in subscribe or unsubscribe
          mySet,       \* mySet[t]: the set it works on
          overlapped   \* threads that subscribed while another unsubscribed: what
                       \* happened before, for CutOffOnlyByOverlap

hubVars == <<hubPid, hubLock, listeners, entry, members, hpc, mySet, overlapped>>

Sets == Threads \cup {Inherited}

SubscribeStages == {"lock", "empty", "start", "setdefault", "add"}
UnsubscribeStages == {"discard", "test_empty", "pop"}

HubInit ==
    /\ \/ hubPid = "none" /\ entry = Nobody
       \/ hubPid = "parent" /\ entry = Inherited
    /\ hubLock = Nobody
    /\ listeners = 0
    /\ members = [v \in Sets |-> {}]
    /\ hpc = [t \in Threads |-> "idle"]
    /\ mySet = [t \in Threads |-> Nobody]
    /\ overlapped = {}

HubGoTo(t, stage) == hpc' = [hpc EXCEPT ![t] = stage]

-----------------------------------------------------------------------------
(* _ensure_listener.                                                       *)

TestHubPid(t) ==
    /\ hpc[t] = "idle"
    /\ HubGoTo(t, IF hubPid = "own" THEN "setdefault" ELSE "lock")
    /\ UNCHANGED <<hubPid, hubLock, listeners, entry, members, mySet, overlapped>>

\* Mutant: no second test under the lock.
StartedMeanwhileUntested == FALSE

StartedMeanwhile == hubPid = "own"

\* The lock and the test under it, as its owner alone writes _pid.
LockHub(t) ==
    /\ hpc[t] = "lock"
    /\ hubLock = Nobody
    /\ IF StartedMeanwhile
       THEN HubGoTo(t, "setdefault") /\ UNCHANGED hubLock
       ELSE HubGoTo(t, "empty") /\ hubLock' = t
    /\ UNCHANGED <<hubPid, listeners, entry, members, mySet, overlapped>>

\* self._queues = {}: the queues of the parent process are forgotten.
EmptyQueues(t) ==
    /\ hpc[t] = "empty"
    /\ entry' = Nobody
    /\ HubGoTo(t, "start")
    /\ UNCHANGED <<hubPid, hubLock, listeners, members, mySet, overlapped>>

\* The thread is started and _pid set; nobody can tell the order of the two.
StartListener(t) ==
    /\ hpc[t] = "start"
    /\ listeners' = listeners + 1
    /\ hubPid' = "own"
    /\ hubLock' = Nobody
    /\ HubGoTo(t, "setdefault")
    /\ UNCHANGED <<entry, members, mySet, overlapped>>

-----------------------------------------------------------------------------
(* The rest of subscribe.                                                  *)

Unsubscribing == {u \in Threads : hpc[u] \in UnsubscribeStages}

\* setdefault(session_id, set()).
SetDefault(t) ==
    /\ hpc[t] = "setdefault"
    /\ entry' = IF entry = Nobody THEN t ELSE entry
    /\ mySet' = [mySet EXCEPT ![t] = entry']
    /\ overlapped' = IF Unsubscribing # {} THEN overlapped \cup {t} ELSE overlapped
    /\ HubGoTo(t, "add")
    /\ UNCHANGED <<hubPid, hubLock, listeners, members>>

\* .add(q), to a set that may have been removed from the dict by now.
AddQueue(t) ==
    /\ hpc[t] = "add"
    /\ members' = [members EXCEPT ![mySet[t]] = @ \cup {t}]
    /\ overlapped' = IF Unsubscribing # {} \/ entry # mySet[t]
                     THEN overlapped \cup {t} ELSE overlapped
    /\ HubGoTo(t, "subscribed")
    /\ UNCHANGED <<hubPid, hubLock, listeners, entry, mySet>>

-----------------------------------------------------------------------------
(* unsubscribe.                                                            *)

GetQueues(t) ==
    /\ hpc[t] = "subscribed"
    /\ mySet' = [mySet EXCEPT ![t] = entry]
    /\ HubGoTo(t, IF entry = Nobody THEN "unsubscribed" ELSE "discard")
    /\ UNCHANGED <<hubPid, hubLock, listeners, entry, members, overlapped>>

\* Mutant: the queue is not discarded.
WithoutQueueKept(t) == members[mySet[t]]

WithoutQueue(t) == members[mySet[t]] \ {t}

DiscardQueue(t) ==
    /\ hpc[t] = "discard"
    /\ members' = [members EXCEPT ![mySet[t]] = WithoutQueue(t)]
    /\ HubGoTo(t, "test_empty")
    /\ UNCHANGED <<hubPid, hubLock, listeners, entry, mySet, overlapped>>

\* Mutant: the key is removed with the first queue.
NoneLeftUntested(t) == TRUE

NoneLeft(t) == members[mySet[t]] = {}

TestEmpty(t) ==
    /\ hpc[t] = "test_empty"
    /\ HubGoTo(t, IF NoneLeft(t) THEN "pop" ELSE "unsubscribed")
    /\ UNCHANGED <<hubPid, hubLock, listeners, entry, members, mySet, overlapped>>

\* pop(session_id, None) removes whatever is there by now.
PopQueues(t) ==
    /\ hpc[t] = "pop"
    /\ entry' = Nobody
    /\ HubGoTo(t, "unsubscribed")
    /\ UNCHANGED <<hubPid, hubLock, listeners, members, mySet, overlapped>>

EnsureListener(t) ==
    \/ TestHubPid(t)
    \/ LockHub(t)
    \/ EmptyQueues(t)
    \/ StartListener(t)

Subscription(t) ==
    \/ EnsureListener(t)
    \/ SetDefault(t)
    \/ AddQueue(t)
    \/ GetQueues(t)
    \/ DiscardQueue(t)
    \/ TestEmpty(t)
    \/ PopQueues(t)

-----------------------------------------------------------------------------
Reachable == IF entry = Nobody THEN {} ELSE members[entry]

\* Type invariant.
HubTypeOK ==
    /\ hubPid \in Pids
    /\ hubLock \in Threads \cup {Nobody}
    /\ listeners \in Nat
    /\ entry \in Sets \cup {Nobody}
    /\ members \in [Sets -> SUBSET Threads]
    /\ hpc \in [Threads -> SubscribeStages \cup UnsubscribeStages
                              \cup {"idle", "subscribed", "unsubscribed"}]
    /\ mySet \in [Threads -> Sets \cup {Nobody}]
    /\ overlapped \in SUBSET Threads

\* "ONE Redis pub/sub connection per worker process": streams that start at the
\* same time, in a fresh or a forked process, start one listener between them.
OneListenerPerProcess ==
    /\ listeners <= 1
    /\ \A t \in Threads : hpc[t] \in {"setdefault", "add", "subscribed"} => listeners = 1

\* Real threads can cut a live stream off from the hub (it then learns its
\* result at a heartbeat); but only one that subscribed while another stream of
\* its session unsubscribed.  Any other stays reachable until it leaves.
CutOffOnlyByOverlap ==
    \A t \in Threads :
        hpc[t] = "subscribed" => t \in Reachable \/ t \in overlapped

\* No stream leaves its queue behind, and the last one leaves nothing at all.
NothingLeaks ==
    /\ \A t \in Threads : hpc[t] = "unsubscribed" => t \notin Reachable
    /\ hubPid = "own" /\ (\A t \in Threads : hpc[t] \in {"idle", "unsubscribed"})
          => entry = Nobody
=============================================================================
