---------------------------- MODULE Doppelganger ----------------------------
(***************************************************************************)
(* The two sides of the protocol over one session store: Bob's tabs and    *)
(* the verify handlers of Verification, the streams, hubs and Alices of    *)
(* EventStream.  A session's id also names its Alice.                      *)
(*                                                                         *)
(* Each of the two modules reduces the other side to what it may do to the *)
(* store.  Here they are put together: a step that leaves the store alone  *)
(* is a step of one side, and a step that changes it is a step of both.    *)
(* So it is the handler of Verification that decides what is published to  *)
(* the hubs, and a result that was missed is rebuilt from what it stored.  *)
(***************************************************************************)
EXTENDS Verification, BrowserCrypto

CONSTANTS Workers, Streams,
          StreamFaults, MaxStreamFaults   \* Faults and MaxFaults of EventStream

ASSUME StreamSideAssumption == Null \notin Streams /\ MaxStreamFaults \in Nat

VARIABLES aliceScreen, es, conn, bobPubkey,   \* the variables of EventStream
          spc, owner, host, queue, wire,
          listener, inbox, registry, faults

Stream == INSTANCE EventStream WITH
    screen <- aliceScreen,
    Faults <- StreamFaults,
    MaxFaults <- MaxStreamFaults

alicesVars == <<aliceScreen, es, conn, bobPubkey, spc, owner, host, queue, wire,
                listener, inbox, registry, faults>>
systemVars == <<vars, alicesVars>>

SystemInit == Init /\ Stream!Init

-----------------------------------------------------------------------------
\* Bob's tabs, and what a handler does before and after its finalize.
BobsSide == UNCHANGED <<storeVars, alicesVars>> /\ Next

\* Alice's tabs, the streams and the hubs.
AlicesSide == UNCHANGED vars /\ Stream!Next

\* POST /session: the hash is stored, and Alice's tab opens its EventSource.
Created(s, a) == CreateSession(s, a) /\ Stream!CreateSession(s, a)

Removed(s) == (DeleteSession(s) \/ ExpireSession(s)) /\ Stream!Vanish(s)

\* The finalize script of POST r: what it publishes reaches the hubs that listen.
Judged(r) == Handle(r) /\ Stream!Decide(SessionOf(r), poster[r], Passed(r))

SystemNext ==
    \/ BobsSide
    \/ AlicesSide
    \/ \E s \in Sessions, a \in Answers : Created(s, a)
    \/ \E s \in Sessions : Removed(s)
    \/ \E r \in Requests : Judged(r)

SystemSpec == SystemInit /\ [][SystemNext]_systemVars

-----------------------------------------------------------------------------
\* The secrets derived for session s, by Alice and by the tabs of its link.
AliceSecrets(s) ==
    {DeriveSharedKey(s, b) : b \in {c \in Bobs : bobPubkey[s] = c}}

BobSecrets(s) ==
    {DeriveSharedKey(b, alicePubkey[b]) :
        b \in {c \in Bobs : link[c] = s /\ alicePubkey[c] # Null}}

\* Whatever races, retries, losses and crashes there are on either side, all
\* the secrets that come out of a session are one and the same, and none comes
\* out of a session that Alice was told had failed.
OneSecretPerSession ==
    \A s \in Sessions :
        /\ \A k, l \in AliceSecrets(s) \cup BobSecrets(s) : k = l
        /\ aliceScreen[s] = "step-alice-fail" => AliceSecrets(s) \cup BobSecrets(s) = {}

-----------------------------------------------------------------------------
\* How a state of the system is seen as a state of the rendezvous.
PhaseOf(s) ==
    IF s \notin issued THEN "unused"
    ELSE IF hash[s].phase = "WAITING_FOR_BOB" THEN "open"
    ELSE IF hash[s].phase \in TerminalPhases THEN "judged" ELSE "forgotten"

VerdictOf(s) ==
    IF published[s] = <<>> THEN "none"
    ELSE IF published[s][1].event = "VERIFIED" THEN "verified" ELSE "failed"

ToldOf(s) ==
    IF aliceScreen[s] = "step-alice-pass" THEN "verified"
    ELSE IF aliceScreen[s] = "step-alice-fail" THEN "failed"
    ELSE IF aliceScreen[s] = "step-create" THEN "expired" ELSE "nothing"

Meeting == INSTANCE Rendezvous WITH
    phase <- [s \in Sessions |-> PhaseOf(s)],
    verdict <- [s \in Sessions |-> VerdictOf(s)],
    winner <- [s \in Sessions |-> WinnerOf(s)],
    holders <- KeyHolders,
    told <- [s \in Sessions |-> ToldOf(s)],
    partner <- bobPubkey

\* The whole system implements the rendezvous, with all its failures but a
\* stream's cap below the life of a session.
RendezvousSpec == Meeting!Spec
=============================================================================
