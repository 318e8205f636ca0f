-------------------------- MODULE EmbeddingClient --------------------------
(***************************************************************************)
(* EmbeddingClient.embed (app/services/embedding_client.py): one of the    *)
(* MaxInFlight slots of the process, at most two POSTs to the embedding    *)
(* service, and the slot given back on every way out.                      *)
(***************************************************************************)
EXTENDS ServerProcess

CONSTANT MaxInFlight   \* EMBEDDING_MAX_IN_FLIGHT

ASSUME MaxInFlightAssumption == MaxInFlight \in Nat \ {0}

VARIABLES slots,    \* the value of the semaphore _slots
          epc,      \* epc[t]: where thread t is in embed
          attempt,  \* attempt[t]: its loop variable
          vector    \* vector[t]: what embed returned: a vector or None

embedVars == <<slots, epc, attempt, vector>>

EmbedStages == {"idle", "post", "sleep", "release", "returned"}

Outcomes == {"connection error", "read timeout", "502 or 504", "other status",
             "bad body", "exception", "vector"}

HoldsSlot(t) == epc[t] \in {"post", "sleep", "release"}

EmbedInit ==
    /\ slots = MaxInFlight
    /\ epc = [t \in Threads |-> "idle"]
    /\ attempt = [t \in Threads |-> 0]
    /\ vector = [t \in Threads |-> FALSE]

EmbedGoTo(t, stage) == epc' = [epc EXCEPT ![t] = stage]

AcquireSlot(t) ==
    /\ epc[t] = "idle"
    /\ slots > 0
    /\ slots' = slots - 1
    /\ attempt' = [attempt EXCEPT ![t] = 1]
    /\ EmbedGoTo(t, "post")
    /\ UNCHANGED vector

\* SLOT_WAIT is over: None, and nothing to release.
SlotTimeout(t) ==
    /\ epc[t] = "idle"
    /\ slots = 0
    /\ EmbedGoTo(t, "returned")
    /\ UNCHANGED <<slots, attempt, vector>>

\* Mutant: every attempt is followed by another.
RetriesForEver(t, o) == o \in {"connection error", "502 or 504"}

Retries(t, o) == attempt[t] = 1 /\ o \in {"connection error", "502 or 504"}

Post(t, o) ==
    /\ epc[t] = "post"
    /\ EmbedGoTo(t, IF Retries(t, o) THEN "sleep" ELSE "release")
    /\ vector' = [vector EXCEPT ![t] = (o = "vector")]
    /\ UNCHANGED <<slots, attempt>>

\* Mutant: the loop does not count.
NextAttemptSame(t) == attempt[t]

NextAttempt(t) == attempt[t] + 1

WakeUp(t) ==
    /\ epc[t] = "sleep"
    /\ attempt' = [attempt EXCEPT ![t] = NextAttempt(t)]
    /\ EmbedGoTo(t, "post")
    /\ UNCHANGED <<slots, vector>>

\* Mutant: the slot is given back on success only.
GivenBackOnSuccess(t) == IF vector[t] THEN 1 ELSE 0

GivenBack(t) == 1

\* finally: _slots.release().
ReleaseSlot(t) ==
    /\ epc[t] = "release"
    /\ slots' = slots + GivenBack(t)
    /\ EmbedGoTo(t, "returned")
    /\ UNCHANGED <<attempt, vector>>

Embed(t) ==
    \/ AcquireSlot(t)
    \/ SlotTimeout(t)
    \/ \E o \in Outcomes : Post(t, o)
    \/ WakeUp(t)
    \/ ReleaseSlot(t)

-----------------------------------------------------------------------------
\* Type invariant.
EmbedTypeOK ==
    /\ slots \in 0 .. MaxInFlight
    /\ epc \in [Threads -> EmbedStages]
    /\ attempt \in [Threads -> 0 .. 2]
    /\ vector \in [Threads -> BOOLEAN]

\* "Per-worker cap on in-flight requests": by whichever way calls end, the slots
\* that are free and those held by calls under way add up to the cap: none is
\* lost, none given back twice, and no more POSTs than the cap are under way.
SlotsConserved == slots + Cardinality({t \in Threads : HoldsSlot(t)}) = MaxInFlight
=============================================================================
