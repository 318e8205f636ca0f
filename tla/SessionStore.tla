---------------------------- MODULE SessionStore ----------------------------
(***************************************************************************)
(* The Redis-backed session store (app/services/session_store.py): one     *)
(* hash per session with a time to live, and one pub/sub channel per       *)
(* session on which the result of the challenge is announced.              *)
(*                                                                         *)
(* Every action below is one atomic Redis command, MULTI block or Lua      *)
(* script.  The modules that model the HTTP handlers and the event stream  *)
(* extend this one and use these actions as their effects on the store.    *)
(*                                                                         *)
(* Abstractions.  A browser tab holds one ECDH key pair, so a public key   *)
(* is named by the tab that generated it: Alice's by the session she       *)
(* created with it, Bob's by the tab in which he opened the link.  An      *)
(* embedding is named by the answer it was computed from.  The score is    *)
(* kept only as its comparison with the threshold (the phase); names, the  *)
(* question and created_at never influence control and are left out.       *)
(***************************************************************************)
EXTENDS Naturals, Sequences, FiniteSets

CONSTANTS Sessions,   \* session ids, and the public keys Alice made them with
          Bobs,       \* tabs that opened a link, and the public keys they made
          Answers,    \* what may be written as an answer, hence its embedding
          Null        \* the empty string of a field not written yet

ASSUME NullAssumption == Null \notin Sessions \cup Bobs \cup Answers

VARIABLES hash,       \* hash[s]: the hash at key session:s
          published,  \* published[s]: the messages PUBLISHed on session:s:events
          issued      \* the ids generate_session_id has returned

storeVars == <<hash, published, issued>>

-----------------------------------------------------------------------------
Phases == {"ABSENT", "WAITING_FOR_BOB", "VERIFIED", "FAILED"}
TerminalPhases == {"VERIFIED", "FAILED"}

Hash == [phase            : Phases,
         answer_embedding : Answers \cup {Null},
         alice_pubkey_jwk : Sessions \cup {Null},
         bob_pubkey_jwk   : Bobs \cup {Null}]

\* What HGETALL, HGET and HMGET answer for a key that does not exist.
NoHash == [phase |-> "ABSENT", answer_embedding |-> Null,
           alice_pubkey_jwk |-> Null, bob_pubkey_jwk |-> Null]

\* Mutant: the two arguments of create swapped.
NewHashSwapped(s, a) == [phase |-> "WAITING_FOR_BOB", answer_embedding |-> s,
                         alice_pubkey_jwk |-> a, bob_pubkey_jwk |-> Null]

NewHash(s, a) == [phase |-> "WAITING_FOR_BOB", answer_embedding |-> a,
                  alice_pubkey_jwk |-> s, bob_pubkey_jwk |-> Null]

\* The field/value pairs handed to finalize.  Null in bob_pubkey_jwk means that
\* the pair is not in the list, so that HSET leaves the field as it was.
Update == [phase : TerminalPhases, bob_pubkey_jwk : Bobs \cup {Null}]

\* Mutant: Bob's key is not among the pairs.
HSetPhaseOnly(h, u) == [h EXCEPT !.phase = u.phase]

HSet(h, u) ==
    [h EXCEPT !.phase = u.phase,
              !.bob_pubkey_jwk = IF u.bob_pubkey_jwk = Null THEN @ ELSE u.bob_pubkey_jwk]

Event == [event : TerminalPhases \cup {"EXPIRED", "NONE"}, bob_pubkey_jwk : Bobs \cup {Null}]

Verified(b) == [event |-> "VERIFIED", bob_pubkey_jwk |-> b]
Failed      == [event |-> "FAILED",  bob_pubkey_jwk |-> Null]
Expired     == [event |-> "EXPIRED", bob_pubkey_jwk |-> Null]
NoEvent     == [event |-> "NONE",    bob_pubkey_jwk |-> Null]

\* Mutants: whatever is not VERIFIED or FAILED is EXPIRED; nothing is.
TerminalEventElseExpired(h) ==
    CASE h.phase = "VERIFIED" -> Verified(h.bob_pubkey_jwk)
      [] h.phase = "FAILED"   -> Failed
      [] OTHER                -> Expired

TerminalEventNeverExpired(h) ==
    CASE h.phase = "VERIFIED" -> Verified(h.bob_pubkey_jwk)
      [] h.phase = "FAILED"   -> Failed
      [] OTHER                -> NoEvent

\* The final event rebuilt from the stored hash, NoEvent while Bob is awaited.
TerminalEvent(h) ==
    CASE h.phase = "ABSENT"          -> Expired
      [] h.phase = "VERIFIED"        -> Verified(h.bob_pubkey_jwk)
      [] h.phase = "FAILED"          -> Failed
      [] h.phase = "WAITING_FOR_BOB" -> NoEvent

\* Mutants: the script without its phase check, and without EXISTS.
FinalizeOutcomeNoPhase(s) == IF hash[s].phase = "ABSENT" THEN "expired" ELSE "done"

FinalizeOutcomeNoExists(s) ==
    IF hash[s].phase \in TerminalPhases THEN "completed" ELSE "done"

\* -1, 0 and 1 of the Lua script.
FinalizeOutcome(s) ==
    CASE hash[s].phase = "ABSENT"          -> "expired"
      [] hash[s].phase \in TerminalPhases  -> "completed"
      [] hash[s].phase = "WAITING_FOR_BOB" -> "done"

-----------------------------------------------------------------------------
StoreInit ==
    /\ hash = [s \in Sessions |-> NoHash]
    /\ published = [s \in Sessions |-> <<>>]
    /\ issued = {}

\* HSET and EXPIRE in one MULTI, under an id drawn from 256 random bits, which
\* is taken never to repeat.
Create(s, a) ==
    /\ s \notin issued
    /\ issued' = issued \cup {s}
    /\ hash' = [hash EXCEPT ![s] = NewHash(s, a)]
    /\ UNCHANGED published

\* The Lua script: phase check, HSET and PUBLISH in one atomic step.
Finalize(s, u, e) ==
    IF FinalizeOutcome(s) = "done"
    THEN /\ hash' = [hash EXCEPT ![s] = HSet(@, u)]
         /\ published' = [published EXCEPT ![s] = Append(@, e)]
         /\ UNCHANGED issued
    ELSE UNCHANGED storeVars

\* DEL, whatever the phase; deleting an absent key does nothing.
Delete(s) ==
    /\ hash' = [hash EXCEPT ![s] = NoHash]
    /\ UNCHANGED <<published, issued>>

\* The time to live set at creation runs out.  HSET does not renew it, so it
\* removes completed sessions too.
Expire(s) ==
    /\ hash[s].phase # "ABSENT"
    /\ hash' = [hash EXCEPT ![s] = NoHash]
    /\ UNCHANGED <<published, issued>>

\* The pairs verify builds for an answer by Bob that passed or did not: the
\* store is specified for these callers only.
VerdictUpdate(b, passed) ==
    IF passed THEN [phase |-> "VERIFIED", bob_pubkey_jwk |-> b]
              ELSE [phase |-> "FAILED", bob_pubkey_jwk |-> Null]

VerdictEvent(b, passed) == IF passed THEN Verified(b) ELSE Failed

StoreNext ==
    \E s \in Sessions :
        \/ \E a \in Answers : Create(s, a)
        \/ \E b \in Bobs, passed \in BOOLEAN :
              Finalize(s, VerdictUpdate(b, passed), VerdictEvent(b, passed))
        \/ Delete(s)
        \/ Expire(s)

StoreSpec == StoreInit /\ [][StoreNext]_storeVars

-----------------------------------------------------------------------------
\* Type invariant.
StoreTypeOK ==
    /\ hash \in [Sessions -> Hash]
    /\ published \in [Sessions -> Seq(Event)]
    /\ issued \in SUBSET Sessions

\* However many verify calls, deletions and expiries interleave, a session's
\* result is announced at most once in its life ("Only one Bob can ever win").
AnnouncedAtMostOnce == \A s \in Sessions : Len(published[s]) <= 1

\* The event a reconnecting stream rebuilds from the hash is the one that was
\* announced on the channel: while the hash is there, nothing was announced if
\* the session is open, and exactly the rebuilt event if it is completed.
RebuiltEventIsAnnounced ==
    \A s \in Sessions :
        /\ hash[s].phase = "WAITING_FOR_BOB" => published[s] = <<>>
        /\ hash[s].phase \in TerminalPhases => published[s] = <<TerminalEvent(hash[s])>>

\* A session only moves forward: once its link has been used, has expired or
\* was torn down it never accepts an answer again, and a stored result or the
\* key it releases is never rewritten, only removed.
NeverReopens ==
    [][\A s \in issued :
          /\ hash[s].phase # "WAITING_FOR_BOB" => hash'[s] \in {hash[s], NoHash}
          /\ hash'[s].phase # "ABSENT" =>
                /\ hash'[s].alice_pubkey_jwk = hash[s].alice_pubkey_jwk
                /\ hash'[s].answer_embedding = hash[s].answer_embedding]_storeVars
=============================================================================
