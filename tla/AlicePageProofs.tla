-------------------------- MODULE AlicePageProofs --------------------------
(***************************************************************************)
(* Proofs about Alice's tab, for every number of sessions, key pairs,      *)
(* clicks and faults, every score and every combination of faults.         *)
(***************************************************************************)
EXTENDS AlicePage, SessionStoreProofs, ScoringProofs, SequenceTheorems

-----------------------------------------------------------------------------
(* The debug panel and the log.                                            *)

PanelInv == PanelTypeOK /\ PanelInStep /\ LogMatchesScreen

PhaseEntries == {"phase WAITING_FOR_BOB", "phase VERIFIED", "phase FAILED"}

\* A row of entries keeps the log in step with the screen if the screen shows
\* no phase, if it names no phase and the screen stays, or if it names the one
\* phase that the screen shows from now on.
Fits(row) ==
    \/ PhaseOnScreen' = Entries
    \/ screen' = screen /\ \A i \in DOMAIN row : row[i] \notin PhaseEntries
    \/ /\ \E i \in DOMAIN row : row[i] \in PhaseOnScreen'
       /\ \A i \in DOMAIN row : row[i] \in PhaseEntries => row[i] \in PhaseOnScreen'

LEMMA Joined ==
    ASSUME NEW S, NEW q \in Seq(S), NEW r \in Seq(S)
    PROVE  /\ q \o r \in Seq(S) /\ Len(q \o r) = Len(q) + Len(r)
           /\ DOMAIN (q \o r) = 1 .. Len(q) + Len(r)
           /\ \A i \in DOMAIN q : (q \o r)[i] = q[i] /\ i \in DOMAIN (q \o r)
           /\ \A i \in DOMAIN r : /\ (q \o r)[Len(q) + i] = r[i]
                                  /\ Len(q) + i \in DOMAIN (q \o r)
           /\ \A i \in DOMAIN (q \o r) :
                 i \in DOMAIN q \/ (i - Len(q) \in DOMAIN r /\ (q \o r)[i] = r[i - Len(q)])
  <1>1. /\ q \o r \in Seq(S) /\ Len(q \o r) = Len(q) + Len(r)
        /\ Len(q) \in Nat /\ Len(r) \in Nat
        /\ DOMAIN q = 1 .. Len(q) /\ DOMAIN r = 1 .. Len(r)
        /\ DOMAIN (q \o r) = 1 .. Len(q) + Len(r)
    OBVIOUS
  <1>2. \A i \in 1 .. Len(q) + Len(r) :
           (q \o r)[i] = IF i <= Len(q) THEN q[i] ELSE r[i - Len(q)]
    OBVIOUS
  <1> QED BY <1>1, <1>2

LEMMA LogGrows ==
    ASSUME entries \in Seq(Entries), LogMatchesScreen,
           NEW row \in Seq(Entries), entries' = entries \o row, Fits(row)
    PROVE  LogMatchesScreen'
  <1> DEFINE q == entries
  <1>1. /\ entries' \in Seq(Entries)
        /\ DOMAIN entries' = 1 .. Len(q) + Len(row) /\ Len(q) \in Nat /\ Len(row) \in Nat
        /\ DOMAIN q = 1 .. Len(q) /\ DOMAIN row = 1 .. Len(row)
        /\ \A i \in DOMAIN q : entries'[i] = q[i] /\ i \in DOMAIN entries'
        /\ \A i \in DOMAIN row : /\ entries'[Len(q) + i] = row[i]
                                 /\ Len(q) + i \in DOMAIN entries'
        /\ \A i \in DOMAIN entries' :
              i \in DOMAIN q \/ (i - Len(q) \in DOMAIN row /\ entries'[i] = row[i - Len(q)])
    BY Joined
  <1> HIDE DEF q
  <1> SUFFICES ASSUME NEW i \in DOMAIN entries', entries'[i] \in PhaseEntries
               PROVE  \/ entries'[i] \in PhaseOnScreen'
                      \/ \E j \in DOMAIN entries' : j > i /\ entries'[j] \in PhaseOnScreen'
    BY DEF LogMatchesScreen, PhaseEntries
  <1>2. CASE PhaseOnScreen' = Entries
    BY <1>1, <1>2
  <1>3. CASE screen' = screen /\ \A k \in DOMAIN row : row[k] \notin PhaseEntries
    <2>1. i \in DOMAIN q /\ entries'[i] = q[i]
      BY <1>1, <1>3
    <2>2. q[i] \in PhaseOnScreen \/ \E j \in DOMAIN q : j > i /\ q[j] \in PhaseOnScreen
      BY <2>1 DEF LogMatchesScreen, PhaseEntries, q
    <2>3. PhaseOnScreen' = PhaseOnScreen
      BY <1>3 DEF PhaseOnScreen
    <2> QED BY <1>1, <2>1, <2>2, <2>3
  <1>4. ASSUME NEW n \in DOMAIN row, row[n] \in PhaseOnScreen',
               \A k \in DOMAIN row : row[k] \in PhaseEntries => row[k] \in PhaseOnScreen'
        PROVE  \/ entries'[i] \in PhaseOnScreen'
               \/ \E j \in DOMAIN entries' : j > i /\ entries'[j] \in PhaseOnScreen'
    <2>1. CASE i \in DOMAIN q
      <3>1. Len(q) + n > i /\ Len(q) + n \in DOMAIN entries' /\ entries'[Len(q) + n] = row[n]
        BY <1>1, <2>1
      <3> QED BY <1>4, <3>1
    <2>2. CASE i \notin DOMAIN q
      BY <1>1, <1>4, <2>2
    <2> QED BY <2>1, <2>2
  <1> QED BY <1>2, <1>3, <1>4 DEF Fits

LEMMA EmitKeeps ==
    ASSUME PanelInv, NEW row \in Seq(Entries), Len(row) > 0, Emit(row), Fits(row)
    PROVE  PanelInv'
  <1>1. entries \in Seq(Entries) /\ entryCount \in Nat /\ entryCount = Len(entries)
    BY DEF PanelInv, PanelTypeOK, PanelInStep
  <1>2. entries' = entries \o row /\ entryCount' = entryCount + Len(row)
    BY DEF Emit
  <1>3. entries' \in Seq(Entries) /\ Len(entries') = Len(entries) + Len(row)
    BY <1>1, <1>2, Joined
  <1>4. Len(row) \in Nat /\ Len(entries) \in Nat
    BY <1>1
  <1>5. entryCount' \in Nat /\ entryCount' = Len(entries') /\ entries' # <<>>
    <2>1. Len(entries') > 0
      BY <1>3, <1>4
    <2> QED BY <1>1, <1>2, <1>3, <1>4, <2>1
  <1>6. LogMatchesScreen'
    BY <1>1, <1>2, LogGrows DEF PanelInv
  <1>7. PanelTypeOK'
    BY <1>3, <1>5 DEF Emit, PanelInv, PanelTypeOK
  <1>8. PanelInStep'
    BY <1>5 DEF Emit, PanelInv, PanelTypeOK, PanelInStep
  <1> QED BY <1>6, <1>7, <1>8 DEF PanelInv

LEMMA ClickKeeps ==
    ASSUME PanelInv, Click, UNCHANGED screen
    PROVE  PanelInv'
  <1>1. clicks' \in 0 .. MaxClicks
    BY MaxClicksAssumption DEF Click, PanelInv, PanelTypeOK
  <1>2. CASE Open \/ Close
    <2>1. LogMatchesScreen'
      BY <1>2 DEF Open, Close, PanelInv, LogMatchesScreen, PhaseOnScreen
    <2>2. UNCHANGED <<entries, entryCount, placeholder, live>>
      BY <1>2 DEF Open, Close
    <2>3. /\ isOpen' \in BOOLEAN /\ marked' = IF isOpen' THEN Parts ELSE {}
          /\ atBottom' \in BOOLEAN /\ (isOpen' => atBottom')
      <3>1. CASE Open
        BY <3>1 DEF Open
      <3>2. CASE Close
        BY <3>2 DEF Close, PanelInv, PanelTypeOK
      <3> QED BY <1>2, <3>1, <3>2
    <2>4. marked' \in SUBSET Parts
      BY <2>3
    <2>5. PanelTypeOK'
      BY <1>1, <2>2, <2>3, <2>4 DEF PanelInv, PanelTypeOK
    <2>6. PanelInStep'
      BY <2>2, <2>3 DEF PanelInv, PanelInStep
    <2> QED BY <2>1, <2>5, <2>6 DEF PanelInv
  <1>3. CASE Clear
    <2>1. entries' = <<>> /\ entryCount' = 0
      BY <1>3 DEF Clear, ClearedCount
    <2>2. PanelTypeOK' /\ PanelInStep'
      <3>1. Len(entries') = 0 /\ entries' \in Seq(Entries)
        BY <2>1
      <3>2. /\ UNCHANGED <<isOpen, marked>>
            /\ placeholder' = TRUE /\ live' = FALSE /\ atBottom' = TRUE
        BY <1>3 DEF Clear
      <3>3. PanelTypeOK'
        BY <1>1, <2>1, <3>1, <3>2 DEF PanelInv, PanelTypeOK
      <3>4. PanelInStep'
        BY <2>1, <3>1, <3>2 DEF PanelInv, PanelInStep
      <3> QED BY <3>3, <3>4
    <2>3. LogMatchesScreen'
      <3>1. DOMAIN entries' = {}
        BY <2>1
      <3> QED BY <3>1 DEF LogMatchesScreen
    <2> QED BY <2>2, <2>3 DEF PanelInv
  <1> QED BY <1>2, <1>3 DEF Click

\* Steps that say nothing to the panel.
LEMMA SilentKeeps ==
    ASSUME PanelInv, UNCHANGED panelVars,
           screen' = screen \/ PhaseOnScreen' = Entries
    PROVE  PanelInv'
  <1>1. PanelTypeOK' /\ PanelInStep'
    BY DEF panelVars, PanelInv, PanelTypeOK, PanelInStep
  <1>2. LogMatchesScreen'
    <2>1. CASE screen' = screen
      BY <2>1 DEF panelVars, PanelInv, LogMatchesScreen, PhaseOnScreen
    <2>2. CASE PhaseOnScreen' = Entries
      <3>1. \A i \in DOMAIN entries : entries[i] \in Entries
        BY DEF PanelInv, PanelTypeOK
      <3>2. entries' = entries
        BY DEF panelVars
      <3> QED BY <2>2, <3>1, <3>2 DEF LogMatchesScreen
    <2> QED BY <2>1, <2>2
  <1> QED BY <1>1, <1>2 DEF PanelInv

-----------------------------------------------------------------------------
(* The page.  What the code never tests holds because of the button: while *)
(* a pair is being made it is disabled and no session is under way, and    *)
(* whoever sees it enabled, or went through it, finds the newest pair done.*)

FormScreens == {"none", "step-landing", "step-create"}
SessionScreens == {"step-waiting", "step-alice-pass", "step-alice-fail"}

Listening == {"connecting", "open", "importing", "deriving"}
Stages == Listening \cup {"none", "failed", "gave_up", "closed"}

PageTypeOK ==
    /\ screen \in Screens
    /\ newest \in 0 .. MaxKeys
    /\ keyTask \in [KeyPairs -> {"none", "generating", "exporting", "done", "failed"}]
    /\ aliceKeyPair \in KeyPairs \cup {NoKey}
    /\ createDisabled \in BOOLEAN
    /\ keysReady \in BOOLEAN
    /\ form \in BOOLEAN
    /\ counted \in BOOLEAN
    /\ post \in [stage : {"none", "exporting", "posted", "created"},
                 key : KeyPairs \cup {NoKey}, session : Sessions \cup {Null}]
    /\ current \in Sessions \cup {Null}
    /\ shared \in SUBSET Sessions
    /\ keyOf \in [Sessions -> KeyPairs \cup {NoKey}]
    /\ es \in [Sessions -> Stages]
    /\ message \in [Sessions -> [bob : Bobs \cup {Null}, score : Int]]
    /\ secret \in [Sessions -> SUBSET (KeyPairs \cup Bobs \cup {NoKey, Null})]
    /\ percent \in [Sessions -> Int]
    /\ stored \in [Sessions -> Int]
    /\ faults \in 0 .. MaxFaults

HasKeys == newest \in KeyPairs /\ keyTask[newest] = "done" /\ aliceKeyPair = newest

KeyInv ==
    /\ \A k \in KeyPairs :
          keyTask[k] \in {"generating", "exporting"} =>
              k = newest /\ createDisabled /\ post.stage = "none" /\ screen \in FormScreens
    /\ \A k \in KeyPairs : keyTask[k] = "exporting" => aliceKeyPair = k
    /\ ~createDisabled \/ post.stage # "none" \/ screen \in SessionScreens => HasKeys
    /\ screen = "none" => newest = 0
    /\ post.stage # "none" => screen = "step-create" /\ createDisabled /\ post.key = newest
    /\ screen \in SessionScreens => createDisabled

Waits(s) == es[s] \in Listening

\* One session at a time is listened to, and it has the newest pair alone.
SessionInv ==
    /\ \A s \in Sessions : Waits(s) => current = s /\ screen = "step-waiting"
    /\ \A s \in Tried : s \in issued /\ keyOf[s] \in 1 .. newest
    /\ screen \in FormScreens => \A s \in Tried : keyOf[s] # newest
    /\ FreshKeyPerSession
    /\ screen \in SessionScreens => current \in Tried /\ keyOf[current] = newest
    /\ post.stage = "created" =>
          post.session \in issued \ Tried /\ keyOf[post.session] = newest

\* A result that was announced, with what was made of its score.
Scored(s) ==
    \E score \in Int :
        /\ percent[s] \in Percent(score)
        /\ stored[s] \in Stored(score)
        /\ Passes(score) => \E b \in Bobs : published[s] = <<Verified(b)>>
        /\ ~Passes(score) => published[s] = <<Failed>>

ScoreIsClose(s) == message[s].score - percent[s] \in -1 .. 1

PassShown(s) == current = s /\ screen = "step-alice-pass"

ResultInv(s) ==
    /\ published[s] # <<>> => Scored(s)
    /\ es[s] \in {"importing", "deriving"} \/ PassShown(s) =>
          /\ message[s].bob \in Bobs /\ published[s] = <<Verified(message[s].bob)>>
          /\ message[s].score >= 75 /\ ScoreIsClose(s)
    /\ current = s /\ screen = "step-alice-fail" =>
          published[s] = <<Failed>> /\ message[s].score <= 75 /\ ScoreIsClose(s)
    /\ es[s] = "deriving" \/ PassShown(s) => secret[s] = {keyOf[s], message[s].bob}

PageInv == PageTypeOK /\ KeyInv /\ SessionInv /\ \A s \in Sessions : ResultInv(s)

LEMMA PageInvInit == Init => PageInv
  <1> SUFFICES ASSUME Init PROVE PageInv
    OBVIOUS
  <1>1. PageTypeOK
    <2>1. NoPost \in [stage : {"none", "exporting", "posted", "created"},
                      key : KeyPairs \cup {NoKey}, session : Sessions \cup {Null}]
      BY DEF NoPost
    <2>2. NoMessage \in [bob : Bobs \cup {Null}, score : Int]
      BY DEF NoMessage
    <2>3. newest \in 0 .. MaxKeys /\ faults \in 0 .. MaxFaults
      BY MaxFaultsAssumption, MaxKeysAssumption DEF Init
    <2>4. /\ createDisabled \in BOOLEAN /\ keysReady \in BOOLEAN
          /\ form \in BOOLEAN /\ counted \in BOOLEAN
      BY DEF Init
    <2> QED BY <2>1, <2>2, <2>3, <2>4 DEF Init, PageTypeOK, Screens, Stages
  <1>2. KeyInv /\ SessionInv
    BY DEF Init, KeyInv, SessionInv, Waits, Listening, Tried, FreshKeyPerSession, SessionScreens, NoPost
  <1>3. \A s \in Sessions : ResultInv(s)
    BY DEF Init, StoreInit, ResultInv, PassShown
  <1> QED BY <1>1, <1>2, <1>3 DEF PageInv

\* Steps that announce nothing and bring nothing to a result screen.
LEMMA ResultKept ==
    ASSUME PageInv, NEW s \in Sessions,
           published'[s] = published[s], percent'[s] = percent[s], stored'[s] = stored[s],
           message'[s] = message[s], secret'[s] = secret[s],
           es'[s] = es[s] \/ es'[s] \notin {"importing", "deriving"},
           \/ screen' = screen /\ current' = current
           \/ screen' \notin {"step-alice-pass", "step-alice-fail"},
           keyOf'[s] = keyOf[s] \/ (es[s] = "none" /\ screen' \in FormScreens)
    PROVE  ResultInv(s)'
  <1>1. ResultInv(s)
    BY DEF PageInv
  <1>2. Scored(s) => Scored(s)'
    BY DEF Scored
  <1>3. ScoreIsClose(s) => ScoreIsClose(s)'
    BY DEF ScoreIsClose
  <1> QED BY <1>1, <1>2, <1>3 DEF ResultInv, PassShown, FormScreens

LEMMA FaultBound ==
    ASSUME PageInv, NEW kind, Fault(kind)
    PROVE  faults' \in 0 .. MaxFaults
  BY MaxFaultsAssumption DEF PageInv, PageTypeOK, Fault

-----------------------------------------------------------------------------
(* The key pairs.                                                          *)

\* A pair is asked for only when no other is being made.
LEMMA GenerateKeeps ==
    ASSUME PageInv, GenerateKeyPair, UNCHANGED <<post, keyOf, issued>>,
           \A k \in KeyPairs : keyTask[k] \notin {"generating", "exporting"},
           post.stage = "none", createDisabled' = TRUE, screen' \in FormScreens \ {"none"},
           \A s \in Sessions : es'[s] = es[s] \/ (es'[s] = "closed" /\ es[s] # "none"),
           \A s \in Sessions : es'[s] \notin Listening
    PROVE  /\ KeyInv' /\ SessionInv'
           /\ newest' \in 0 .. MaxKeys /\ aliceKeyPair' = aliceKeyPair
           /\ keyTask' \in [KeyPairs -> {"none", "generating", "exporting", "done", "failed"}]
  <1>1. /\ newest' = newest + 1 /\ newest \in 0 .. MaxKeys /\ newest' \in KeyPairs
        /\ keyTask' = [keyTask EXCEPT ![newest + 1] = "generating"]
        /\ UNCHANGED aliceKeyPair
    BY MaxKeysAssumption DEF GenerateKeyPair, PageInv, PageTypeOK, KeyPairs
  <1>2. keyTask \in [KeyPairs -> {"none", "generating", "exporting", "done", "failed"}]
    BY DEF PageInv, PageTypeOK
  <1>3. KeyInv'
    BY <1>1, <1>2 DEF KeyInv, FormScreens, SessionScreens
  <1>4. Tried' = Tried
    BY DEF Tried
  <1>5. SessionInv'
    <2>1. \A s \in Tried : s \in issued /\ keyOf[s] \in 1 .. newest
      BY DEF PageInv, SessionInv
    <2>2. \A s \in Tried : keyOf[s] \in 1 .. newest' /\ keyOf[s] # newest'
      BY <1>1, <2>1
    <2>3. FreshKeyPerSession'
      BY <1>4 DEF PageInv, SessionInv, FreshKeyPerSession
    <2> QED BY <1>4, <2>1, <2>2, <2>3 DEF SessionInv, Waits, FormScreens, SessionScreens
  <1> QED BY <1>1, <1>2, <1>3, <1>5 DEF KeyPairs

LEMMA BootKeeps ==
    ASSUME PageInv, Boot
    PROVE  PageInv'
  <1>1. /\ screen = "none" /\ screen' = "step-landing"
        /\ UNCHANGED <<storeVars, formVars, createVars, streamVars, scoreVars, faults>>
        /\ GenerateKeyPair \/ UNCHANGED keyVars
    BY DEF Boot
  <1>2. newest = 0 /\ createDisabled /\ post.stage = "none"
    BY <1>1 DEF PageInv, KeyInv, HasKeys, KeyPairs, PageTypeOK
  <1>3. \A s \in Sessions : ~Waits(s)
    BY <1>1 DEF PageInv, SessionInv
  <1>4. \A k \in KeyPairs : keyTask[k] \notin {"generating", "exporting"}
    BY <1>2 DEF PageInv, KeyInv, KeyPairs
  <1>5. /\ KeyInv' /\ SessionInv' /\ newest' \in 0 .. MaxKeys
        /\ keyTask' \in [KeyPairs -> {"none", "generating", "exporting", "done", "failed"}]
        /\ aliceKeyPair' = aliceKeyPair
    <2>1. CASE GenerateKeyPair
      <3>1. /\ UNCHANGED <<post, keyOf, issued, faults>> /\ createDisabled' = createDisabled
            /\ screen' \in FormScreens \ {"none"}
        BY <1>1 DEF storeVars, formVars, createVars, FormScreens
      <3>2. \A s \in Sessions : es'[s] = es[s] /\ es[s] \notin Listening
        BY <1>1, <1>3 DEF streamVars, Waits
      <3>3. createDisabled' = TRUE
        BY <1>2, <3>1 DEF PageInv, PageTypeOK
      <3>4. UNCHANGED <<post, keyOf, issued>>
        BY <3>1
      <3> QED BY <1>2, <1>4, <2>1, <3>1, <3>2, <3>3, <3>4, GenerateKeeps
    <2>2. CASE UNCHANGED keyVars
      <3>1. KeyInv'
        BY <1>1, <1>2, <1>4, <2>2
        DEF PageInv, KeyInv, keyVars, formVars, createVars, FormScreens, SessionScreens
      <3>2. SessionInv'
        BY <1>1, <1>2, <1>3, <2>2
        DEF PageInv, SessionInv, Waits, Tried, FreshKeyPerSession, keyVars, storeVars, createVars,
            streamVars, FormScreens, SessionScreens
      <3> QED BY <2>2, <3>1, <3>2 DEF PageInv, PageTypeOK, keyVars
    <2> QED BY <1>1, <2>1, <2>2
  <1>6. \A s \in Sessions : ResultInv(s)'
    BY <1>1, ResultKept DEF storeVars, createVars, streamVars, scoreVars
  <1>7. PageTypeOK'
    BY <1>1, <1>5 DEF PageInv, PageTypeOK, Screens, formVars, createVars, streamVars, scoreVars
  <1> QED BY <1>5, <1>6, <1>7 DEF PageInv

LEMMA MakeKeysKeeps ==
    ASSUME PageInv, NEW k \in KeyPairs, MakeKeys(k) \/ KeyFails(k)
    PROVE  PageInv'
  <1>1. /\ keyTask[k] \in {"generating", "exporting"}
        /\ UNCHANGED <<storeVars, screen, newest, form, counted, createVars, streamVars, scoreVars>>
    BY DEF MakeKeys, KeyPairGenerated, PublicKeyExported, KeyFails, formVars
  <1>2. k = newest /\ createDisabled /\ post.stage = "none" /\ screen \in FormScreens
    BY <1>1 DEF PageInv, KeyInv
  <1>0. /\ keyTask \in [KeyPairs -> {"none", "generating", "exporting", "done", "failed"}]
        /\ \A j \in KeyPairs \ {k} : keyTask[j] \notin {"generating", "exporting"}
        /\ screen = "none" => newest = 0
    BY <1>2 DEF PageInv, PageTypeOK, KeyInv
  <1>3. KeyInv' /\ aliceKeyPair' \in KeyPairs \cup {NoKey}
        /\ keyTask' \in [KeyPairs -> {"none", "generating", "exporting", "done", "failed"}]
        /\ createDisabled' \in BOOLEAN /\ keysReady' \in BOOLEAN
        /\ faults' \in 0 .. MaxFaults
    <2>1. CASE KeyPairGenerated(k)
      BY <1>0, <1>1, <1>2, <2>1
      DEF KeyPairGenerated, PageInv, PageTypeOK, KeyInv, createVars, formVars, FormScreens, SessionScreens
    <2>2. CASE PublicKeyExported(k)
      <3>1. aliceKeyPair = k
        BY <2>2 DEF PublicKeyExported, PageInv, KeyInv
      <3> QED BY <1>0, <1>1, <1>2, <2>2, <3>1
          DEF PublicKeyExported, PageInv, PageTypeOK, KeyInv, HasKeys, createVars, FormScreens,
              SessionScreens
    <2>3. CASE KeyFails(k)
      <3>1. faults' \in 0 .. MaxFaults
        BY <2>3, FaultBound DEF KeyFails
      <3>2. keyTask' = [keyTask EXCEPT ![k] = "failed"] /\ UNCHANGED <<aliceKeyPair, formVars>>
        BY <2>3 DEF KeyFails
      <3> QED BY <1>0, <1>1, <1>2, <3>1, <3>2
          DEF PageInv, PageTypeOK, KeyInv, createVars, formVars, FormScreens, SessionScreens
    <2> QED BY <2>1, <2>2, <2>3 DEF MakeKeys
  <1>4. SessionInv'
    BY <1>1, <1>2 DEF PageInv, SessionInv, Waits, Tried, FreshKeyPerSession, storeVars, createVars,
                      streamVars, FormScreens, SessionScreens
  <1>5. \A s \in Sessions : ResultInv(s)'
    BY <1>1, ResultKept DEF storeVars, createVars, streamVars, scoreVars
  <1>6. PageTypeOK'
    BY <1>1, <1>3 DEF PageInv, PageTypeOK, createVars, streamVars, scoreVars
  <1> QED BY <1>3, <1>4, <1>5, <1>6 DEF PageInv

-----------------------------------------------------------------------------
(* The form, create(), and what leaves the page as it is.                  *)

LEMMA FormKeeps ==
    ASSUME PageInv,
           StartVerification \/ FillForm \/ ShareLink \/ ClickPanel
    PROVE  PageInv'
  <1>1. /\ UNCHANGED <<storeVars, keyVars, createDisabled, post, current, keyOf, streamVars, scoreVars>>
        /\ screen' = screen \/ (screen = "step-landing" /\ screen' = "step-create")
    BY DEF StartVerification, FillForm, ShareLink, ClickPanel, formVars, createVars
  <1>2. faults' \in 0 .. MaxFaults
    BY DEF StartVerification, FillForm, ShareLink, ClickPanel, PageInv, PageTypeOK
  <1>3. form' \in BOOLEAN /\ counted' \in BOOLEAN /\ keysReady' \in BOOLEAN
    <2>1. CASE FillForm
      BY <2>1 DEF FillForm, PageInv, PageTypeOK
    <2>2. CASE StartVerification \/ ShareLink \/ ClickPanel
      <3>1. UNCHANGED formVars
        BY <2>2 DEF StartVerification, ShareLink, ClickPanel
      <3> QED BY <3>1 DEF formVars, PageInv, PageTypeOK
    <2> QED BY <2>1, <2>2
  <1>4. shared' \in SUBSET Sessions
    BY DEF StartVerification, FillForm, ShareLink, ClickPanel, createVars, PageInv,
           PageTypeOK
  <1>5. PageTypeOK'
    BY <1>1, <1>2, <1>3, <1>4 DEF PageInv, PageTypeOK, Screens, keyVars, streamVars, scoreVars
  <1>6. KeyInv'
    BY <1>1 DEF PageInv, KeyInv, HasKeys, keyVars, FormScreens, SessionScreens
  <1>7. SessionInv'
    BY <1>1 DEF PageInv, SessionInv, Waits, Tried, FreshKeyPerSession, keyVars, storeVars, streamVars,
                FormScreens, SessionScreens
  <1>8. \A s \in Sessions : ResultInv(s)'
    BY <1>1, ResultKept DEF storeVars, streamVars, scoreVars
  <1> QED BY <1>5, <1>6, <1>7, <1>8 DEF PageInv

\* Steps of a create() that has no session yet, or gives up.
LEMMA PostKeeps ==
    ASSUME PageInv, ClickCreate \/ PostSession \/ CreateRefused \/ CreateFails
    PROVE  PageInv'
  <1>0. post \in [stage : {"none", "exporting", "posted", "created"},
                  key : KeyPairs \cup {NoKey}, session : Sessions \cup {Null}]
    BY DEF PageInv, PageTypeOK
  <1>1. UNCHANGED <<storeVars, screen, keyVars, keysReady, form, counted, current, shared, keyOf,
                    streamVars, scoreVars>>
    BY DEF ClickCreate, PostSession, CreateRefused, CreateFails, CreateEndsInAlert, formVars
  <1>2. /\ screen = "step-create" /\ HasKeys
        /\ \A k \in KeyPairs : keyTask[k] \notin {"generating", "exporting"}
    BY DEF ClickCreate, PostSession, CreateRefused, CreateFails, PageInv, KeyInv
  <1>3. /\ post'.stage \in {"none", "exporting", "posted"}
        /\ post'.stage # "none" => post'.key = newest /\ createDisabled' = TRUE
        /\ post' \in [stage : {"none", "exporting", "posted", "created"},
                      key : KeyPairs \cup {NoKey}, session : Sessions \cup {Null}]
        /\ createDisabled' \in BOOLEAN
    <2>1. CASE ClickCreate
      BY <1>2, <2>1 DEF ClickCreate, HasKeys
    <2>2. CASE PostSession
      <3>1. post.stage = "exporting" /\ post' = [post EXCEPT !.stage = "posted"]
            /\ createDisabled' = createDisabled
        BY <2>2 DEF PostSession, formVars
      <3>2. post.key = newest /\ createDisabled = TRUE
        BY <3>1 DEF PageInv, PageTypeOK, KeyInv
      <3> QED BY <1>0, <3>1, <3>2
    <2>3. CASE CreateRefused \/ CreateFails
      <3>1. post' = NoPost /\ createDisabled' = FALSE
        BY <2>3 DEF CreateRefused, CreateFails, CreateEndsInAlert, ButtonAfterError
      <3>2. /\ NoPost \in [stage : {"none", "exporting", "posted", "created"},
                           key : KeyPairs \cup {NoKey}, session : Sessions \cup {Null}]
            /\ NoPost.stage = "none"
        BY DEF NoPost
      <3> QED BY <3>1, <3>2
    <2> QED BY <2>1, <2>2, <2>3
  <1>4. faults' \in 0 .. MaxFaults
    <2>1. CASE ClickCreate \/ PostSession
      BY <2>1 DEF ClickCreate, PostSession, PageInv, PageTypeOK
    <2>2. CASE CreateRefused \/ CreateFails
      BY <2>2, FaultBound DEF CreateRefused, CreateFails
    <2> QED BY <2>1, <2>2
  <1>5. PageTypeOK'
    BY <1>1, <1>3, <1>4 DEF PageInv, PageTypeOK, keyVars, streamVars, scoreVars
  <1>6. KeyInv'
    BY <1>1, <1>2, <1>3 DEF PageInv, KeyInv, HasKeys, keyVars, FormScreens, SessionScreens
  <1>7. SessionInv'
    BY <1>1, <1>3 DEF PageInv, SessionInv, Waits, Tried, FreshKeyPerSession, keyVars, storeVars,
                      streamVars
  <1>8. \A s \in Sessions : ResultInv(s)'
    BY <1>1, ResultKept DEF storeVars, streamVars, scoreVars
  <1> QED BY <1>5, <1>6, <1>7, <1>8 DEF PageInv

\* The new session is nobody's yet.
LEMMA ServerCreatesKeeps ==
    ASSUME PageInv, NEW s \in Sessions, NEW a \in Answers, ServerCreates(s, a)
    PROVE  PageInv'
  <1>0. /\ post \in [stage : {"none", "exporting", "posted", "created"},
                     key : KeyPairs \cup {NoKey}, session : Sessions \cup {Null}]
        /\ keyOf \in [Sessions -> KeyPairs \cup {NoKey}]
    BY DEF PageInv, PageTypeOK
  <1>1. /\ post.stage = "posted" /\ s \notin issued /\ issued' = issued \cup {s}
        /\ post' = [post EXCEPT !.stage = "created", !.session = s]
        /\ keyOf' = [keyOf EXCEPT ![s] = post.key]
        /\ UNCHANGED <<published, screen, keyVars, formVars, current, shared, streamVars, scoreVars,
                       faults>>
    BY DEF ServerCreates, Create
  <1>2. screen = "step-create" /\ post.key = newest /\ s \notin Tried
    BY <1>1 DEF PageInv, KeyInv, SessionInv
  <1>3. post'.stage = "created" /\ post'.key = newest /\ post'.session = s
    BY <1>0, <1>1, <1>2
  <1>4. keyOf'[s] = newest /\ \A t \in Sessions \ {s} : keyOf'[t] = keyOf[t]
    BY <1>0, <1>1, <1>2
  <1>5. PageTypeOK'
    BY <1>0, <1>1 DEF PageInv, PageTypeOK, keyVars, formVars, streamVars, scoreVars
  <1>6. KeyInv'
    BY <1>1, <1>2, <1>3 DEF PageInv, KeyInv, HasKeys, keyVars, formVars
  <1>7. SessionInv'
    <2>1. Tried' = Tried /\ newest' = newest /\ screen' = screen /\ es' = es
      BY <1>1 DEF Tried, streamVars, keyVars
    <2>2. \A t \in Tried : t # s /\ keyOf'[t] = keyOf[t]
      BY <1>2, <1>4 DEF Tried
    <2>3. FreshKeyPerSession'
      BY <2>1, <2>2 DEF PageInv, SessionInv, FreshKeyPerSession
    <2> QED BY <1>1, <1>2, <1>3, <1>4, <2>1, <2>2, <2>3
        DEF PageInv, SessionInv, Waits, SessionScreens
  <1>8. ASSUME NEW t \in Sessions PROVE ResultInv(t)'
    <2>1. keyOf'[t] = keyOf[t] \/ (es[t] = "none" /\ screen' \in FormScreens)
      BY <1>1, <1>2, <1>4 DEF Tried, FormScreens
    <2> QED BY <1>1, <2>1, ResultKept DEF streamVars, scoreVars
  <1> QED BY <1>5, <1>6, <1>7, <1>8 DEF PageInv

\* From here on Alice waits for one session, which has a pair no other had.
LEMMA CreateSucceedsKeeps ==
    ASSUME PageInv, CreateSucceeds, issued \subseteq Sessions
    PROVE  PageInv'
  <1> DEFINE s == post.session
  <1>1. /\ post.stage = "created" /\ post' = NoPost /\ current' = s
        /\ screen' = "step-waiting"
        /\ es' = [es EXCEPT ![s] = "connecting"]
        /\ UNCHANGED <<storeVars, keyVars, formVars, shared, keyOf, message, secret, scoreVars, faults>>
    BY DEF CreateSucceeds
  <1>2. /\ screen = "step-create" /\ createDisabled /\ HasKeys
        /\ s \in Sessions /\ s \in issued /\ s \notin Tried /\ keyOf[s] = newest
    BY <1>1 DEF PageInv, KeyInv, SessionInv
  <1>3. /\ es'[s] = "connecting" /\ \A t \in Sessions \ {s} : es'[t] = es[t]
        /\ es' \in [Sessions -> Stages]
    BY <1>1, <1>2 DEF PageInv, PageTypeOK, Stages, Listening
  <1> HIDE DEF s
  <1>4. post'.stage = "none"
    BY <1>1 DEF NoPost
  <1>5. PageTypeOK'
    BY <1>1, <1>2, <1>3 DEF PageInv, PageTypeOK, NoPost, Screens, keyVars, formVars, scoreVars
  <1>6. KeyInv'
    BY <1>1, <1>2, <1>4 DEF PageInv, KeyInv, HasKeys, keyVars, formVars, FormScreens, SessionScreens
  <1>7. SessionInv'
    <2>1. Tried' = Tried \cup {s}
      BY <1>2, <1>3 DEF Tried
    <2>2. /\ \A t \in Tried : t \in issued /\ keyOf[t] \in 1 .. newest /\ keyOf[t] # newest
          /\ \A t \in Sessions : ~Waits(t)
          /\ FreshKeyPerSession
      BY <1>2 DEF PageInv, SessionInv, FormScreens
    <2>3. FreshKeyPerSession'
      BY <1>1, <1>2, <2>1, <2>2 DEF FreshKeyPerSession
    <2>4. newest \in 1 .. newest
      BY <1>2 DEF HasKeys, KeyPairs
    <2> QED BY <1>1, <1>2, <1>3, <1>4, <2>1, <2>2, <2>3, <2>4
        DEF SessionInv, Waits, FormScreens, SessionScreens, keyVars, storeVars
  <1>8. \A t \in Sessions : ResultInv(t)'
    <2>1. \A t \in Sessions : es'[t] = es[t] \/ es'[t] = "connecting"
      BY <1>3
    <2> QED BY <1>1, <2>1, ResultKept DEF storeVars, scoreVars
  <1> QED BY <1>5, <1>6, <1>7, <1>8 DEF PageInv
-----------------------------------------------------------------------------
(* The result.                                                             *)

LEMMA AnnouncedScore ==
    ASSUME NEW score \in Int, NEW p \in Percent(score)
    PROVE  /\ p \in Int
           /\ Passes(score) => p >= 75
           /\ ~Passes(score) => p <= 75
  <1>1. score \div 10000 \in Int
    OBVIOUS
  <1>2. p \in Int /\ -10000 <= 2 * (score - p * 10000) /\ 2 * (score - p * 10000) <= 10000
    BY <1>1, NearestIsClose DEF Percent
  <1> QED BY <1>2 DEF Passes, Threshold

\* What arrives on a stream as a result is the one that was announced, and its
\* percentage fits, whether it comes from the channel or from the hash.
LEMMA ArrivalIsResult ==
    ASSUME StoreInv, PageInv, NEW s \in Sessions, NEW m \in Arrivals(s),
           m.event.event \in {"VERIFIED", "FAILED"}
    PROVE  /\ m.score \in Int /\ m.score - percent[s] \in -1 .. 1
           /\ m.event.event = "VERIFIED" =>
                 /\ m.event.bob_pubkey_jwk \in Bobs
                 /\ published[s] = <<Verified(m.event.bob_pubkey_jwk)>>
                 /\ m.score >= 75
           /\ m.event.event = "FAILED" => published[s] = <<Failed>> /\ m.score <= 75
  <1>1. /\ published[s] \in Seq(Event) /\ Len(published[s]) <= 1
        /\ hash[s] \in Hash /\ InStep(s)
    BY DEF StoreInv, StoreTypeOK, AnnouncedAtMostOnce
  <1>2. published[s] = <<m.event>> /\ (m.score = percent[s] \/ m.score \in RebuiltPercent(stored[s]))
    <2>1. ASSUME NEW i \in DOMAIN published[s],
                 m = [event |-> published[s][i], score |-> percent[s]]
          PROVE  published[s] = <<m.event>> /\ m.score = percent[s]
      <3>1. i = 1 /\ Len(published[s]) = 1
        <4>1. DOMAIN published[s] = 1 .. Len(published[s]) /\ Len(published[s]) \in Nat
          BY <1>1
        <4>2. i \in 1 .. Len(published[s])
          BY <2>1, <4>1
        <4>3. \A n \in Nat : n <= 1 => \A k \in 1 .. n : k = 1 /\ n = 1
          OBVIOUS
        <4> QED BY <1>1, <4>1, <4>2, <4>3, Zenon
      <3> QED BY <1>1, <2>1, <3>1
    <2>2. ASSUME NEW p \in RebuiltPercent(stored[s]),
                 m = [event |-> TerminalEvent(hash[s]), score |-> p]
          PROVE  published[s] = <<m.event>> /\ m.score \in RebuiltPercent(stored[s])
      <3>1. m.event = TerminalEvent(hash[s]) /\ m.score = p
        BY <2>2
      <3>2. hash[s].phase \in TerminalPhases
        <4>1. CASE hash[s].phase = "ABSENT"
          <5>1. TerminalEvent(hash[s]) = Expired
            BY <4>1 DEF TerminalEvent
          <5> QED BY <3>1, <5>1 DEF Expired
        <4>2. CASE hash[s].phase = "WAITING_FOR_BOB"
          <5>1. TerminalEvent(hash[s]) = NoEvent
            BY <4>2 DEF TerminalEvent
          <5> QED BY <3>1, <5>1 DEF NoEvent
        <4> QED BY <1>1, <4>1, <4>2 DEF Hash, Phases, TerminalPhases
      <3> QED BY <1>1, <3>1, <3>2 DEF InStep
    <2> QED BY <2>1, <2>2 DEF Arrivals
  <1>3. PICK score \in Int :
           /\ percent[s] \in Percent(score)
           /\ stored[s] \in Stored(score)
           /\ Passes(score) => \E b \in Bobs : published[s] = <<Verified(b)>>
           /\ ~Passes(score) => published[s] = <<Failed>>
    <2>1. published[s] # <<>>
      BY <1>2
    <2> QED BY <2>1 DEF PageInv, ResultInv, Scored
  <1>4. /\ m.score \in Int /\ m.score - percent[s] \in -1 .. 1
        /\ Passes(score) => m.score >= 75
        /\ ~Passes(score) => m.score <= 75
    <2>1. CASE m.score = percent[s]
      <3>1. /\ percent[s] \in Int
            /\ Passes(score) => percent[s] >= 75
            /\ ~Passes(score) => percent[s] <= 75
        BY <1>3, AnnouncedScore
      <3> QED BY <2>1, <3>1
    <2>2. CASE m.score \in RebuiltPercent(stored[s])
      <3>1. m.score \in Int
        BY <1>3, <2>2, Roundings
      <3>2. m.score - percent[s] \in -1 .. 1
        BY <1>3, <2>2, RebuiltScoreIsClose, Zenon
      <3>3. /\ Passes(score) => m.score >= 75
            /\ ~Passes(score) => m.score <= 75
        BY <1>3, <2>2, ShownScoreFitsVerdict, Zenon
      <3> QED BY <3>1, <3>2, <3>3
    <2> QED BY <1>2, <2>1, <2>2
  <1>5. CASE Passes(score)
    <2>1. PICK b \in Bobs : published[s] = <<Verified(b)>>
      BY <1>3, <1>5
    <2>2. m.event = Verified(b)
      BY <1>2, <2>1
    <2>3. m.event.event = "VERIFIED" /\ m.event.bob_pubkey_jwk = b
      BY <2>2 DEF Verified
    <2> QED BY <1>4, <1>5, <2>1, <2>3
  <1>6. CASE ~Passes(score)
    <2>1. published[s] = <<Failed>>
      BY <1>3, <1>6
    <2>2. m.event = Failed
      BY <1>2, <2>1
    <2>3. m.event.event = "FAILED"
      BY <2>2 DEF Failed
    <2> QED BY <1>4, <1>6, <2>1, <2>3
  <1> QED BY <1>5, <1>6

\* The score is rounded for the announcement and for the hash when it is judged.
LEMMA DecideKeeps ==
    ASSUME StoreInv, PageInv, NEW s \in Sessions, NEW b \in Bobs, NEW score \in Scores,
           Decide(s, b, score)
    PROVE  PageInv'
  <1>0. score \in Int /\ percent \in [Sessions -> Int] /\ stored \in [Sessions -> Int]
    BY ScoresAssumption DEF PageInv, PageTypeOK
  <1>1. PICK p \in Percent(score), f \in Stored(score) :
           percent' = [percent EXCEPT ![s] = p] /\ stored' = [stored EXCEPT ![s] = f]
    BY DEF Decide
  <1>2. /\ p \in Int /\ f \in Int
        /\ percent' \in [Sessions -> Int] /\ stored' \in [Sessions -> Int]
        /\ percent'[s] = p /\ stored'[s] = f
        /\ \A t \in Sessions \ {s} : percent'[t] = percent[t] /\ stored'[t] = stored[t]
    <2>1. p \in Int /\ f \in Int
      BY <1>0, RoundedToInt
    <2> QED BY <1>0, <1>1, <2>1
  <1>3. UNCHANGED <<screen, keyVars, formVars, createVars, streamVars, faults>>
    BY DEF Decide
  <1>4. /\ published \in [Sessions -> Seq(Event)] /\ published[s] = <<>>
        /\ published' = [published EXCEPT ![s] = Append(@, VerdictEvent(b, Passes(score)))]
        /\ issued' = issued
    <2>1. FinalizeOutcome(s) = "done" /\ hash[s] \in Hash
      BY DEF Decide, StoreInv, StoreTypeOK
    <2>2. hash[s].phase = "WAITING_FOR_BOB"
      BY <2>1 DEF FinalizeOutcome, Hash, Phases, TerminalPhases
    <2> QED BY <2>1, <2>2 DEF Decide, Finalize, StoreInv, StoreTypeOK, InStep
  <1>5. /\ published'[s] = <<VerdictEvent(b, Passes(score))>>
        /\ \A t \in Sessions \ {s} : published'[t] = published[t]
    BY <1>4
  <1>6. PageTypeOK'
    BY <1>2, <1>3 DEF PageInv, PageTypeOK, keyVars, formVars, createVars, streamVars
  <1>7. KeyInv' /\ SessionInv'
    <2>1. KeyInv'
      BY <1>3 DEF PageInv, KeyInv, HasKeys, keyVars, formVars, createVars
    <2>2. SessionInv'
      BY <1>3, <1>4 DEF PageInv, SessionInv, Waits, Tried, FreshKeyPerSession, keyVars, createVars,
                        streamVars
    <2> QED BY <2>1, <2>2
  <1>8. ASSUME NEW t \in Sessions PROVE ResultInv(t)'
    <2>1. CASE t # s
      BY <1>2, <1>3, <1>5, <2>1, ResultKept DEF createVars, streamVars
    <2>2. CASE t = s
      <3>1. Scored(s)'
        BY <1>0, <1>1, <1>2, <1>5 DEF Scored, VerdictEvent
      <3>2. /\ es[s] \notin {"importing", "deriving"} /\ ~PassShown(s)
            /\ ~(current = s /\ screen = "step-alice-fail")
        <4>1. ResultInv(s)
          BY DEF PageInv
        <4>2. published[s] # <<Verified(message[s].bob)>> /\ published[s] # <<Failed>>
          BY <1>4
        <4> QED BY <4>1, <4>2 DEF ResultInv
      <3>3. /\ es'[s] = es[s] /\ current' = current /\ screen' = screen
            /\ published'[s] # <<>>
        BY <1>3, <1>5 DEF createVars, streamVars
      <3> QED BY <2>2, <3>1, <3>2, <3>3 DEF ResultInv, PassShown
    <2> QED BY <2>1, <2>2
  <1> QED BY <1>6, <1>7, <1>8 DEF PageInv

LEMMA VanishKeeps ==
    ASSUME PageInv, NEW s \in Sessions, Vanish(s)
    PROVE  PageInv'
  <1>1. UNCHANGED <<published, issued, screen, keyVars, formVars, createVars, streamVars, scoreVars,
                    faults>>
    BY DEF Vanish, Expire
  <1>2. PageTypeOK'
    BY <1>1 DEF PageInv, PageTypeOK, keyVars, formVars, createVars, streamVars, scoreVars
  <1>3. KeyInv'
    BY <1>1 DEF PageInv, KeyInv, HasKeys, keyVars, formVars, createVars
  <1>4. SessionInv'
    BY <1>1 DEF PageInv, SessionInv, Waits, Tried, FreshKeyPerSession, keyVars, createVars,
                streamVars
  <1>5. \A t \in Sessions : ResultInv(t)'
    BY <1>1, ResultKept DEF createVars, streamVars, scoreVars
  <1> QED BY <1>2, <1>3, <1>4, <1>5 DEF PageInv
-----------------------------------------------------------------------------
(* The EventSource of the session Alice waits for, and its onmessage.      *)

LEMMA ListenerStep ==
    ASSUME PageInv, NEW s \in Sessions, Waits(s),
           NEW stage \in Stages \ {"none"},
           es' = [es EXCEPT ![s] = stage],
           UNCHANGED <<storeVars, keyVars, formVars, createVars, scoreVars>>,
           screen' \in SessionScreens,
           stage \in Listening => screen' = "step-waiting",
           message' = message \/ \E x : message' = [message EXCEPT ![s] = x],
           secret' = secret \/ \E x : secret' = [secret EXCEPT ![s] = x]
    PROVE  /\ KeyInv' /\ SessionInv'
           /\ current = s /\ screen = "step-waiting" /\ es'[s] = stage
           /\ es' \in [Sessions -> Stages]
           /\ \A t \in Sessions \ {s} : ResultInv(t)'
  <1>1. current = s /\ screen = "step-waiting" /\ \A t \in Sessions \ {s} : ~Waits(t)
    BY DEF PageInv, SessionInv
  <1>2. /\ es'[s] = stage /\ \A t \in Sessions \ {s} : es'[t] = es[t]
        /\ es' \in [Sessions -> Stages]
    BY DEF PageInv, PageTypeOK
  <1>3. Tried' = Tried
    BY <1>2 DEF Tried, Waits, Listening
  <1>4. KeyInv'
    BY <1>1 DEF PageInv, KeyInv, HasKeys, keyVars, formVars, createVars, FormScreens, SessionScreens
  <1>5. SessionInv'
    BY <1>1, <1>2, <1>3
    DEF PageInv, SessionInv, Waits, FreshKeyPerSession, keyVars, storeVars, createVars, FormScreens,
        SessionScreens
  <1>6. ASSUME NEW t \in Sessions \ {s} PROVE ResultInv(t)'
    <2>1. message'[t] = message[t] /\ secret'[t] = secret[t] /\ es'[t] = es[t]
      BY <1>2 DEF PageInv, PageTypeOK
    <2>2. current' = s /\ es'[t] \notin {"importing", "deriving"}
      BY <1>1, <2>1 DEF createVars, Waits, Listening
    <2>3. Scored(t) => Scored(t)'
      BY DEF Scored, storeVars, scoreVars
    <2>4. published'[t] # <<>> => Scored(t)'
      BY <2>3 DEF PageInv, ResultInv, storeVars
    <2> QED BY <2>2, <2>4 DEF ResultInv, PassShown
  <1> QED BY <1>1, <1>2, <1>4, <1>5, <1>6

LEMMA DeliverVerifiedKeeps ==
    ASSUME StoreInv, PageInv, NEW s \in Sessions, NEW m \in Arrivals(s), DeliverVerified(s, m)
    PROVE  PageInv' /\ screen' = screen
  <1>1. /\ m.event.event = "VERIFIED" /\ es[s] = "open"
        /\ es' = [es EXCEPT ![s] = "importing"] /\ screen' = screen
        /\ message' = [message EXCEPT ![s] = [bob |-> m.event.bob_pubkey_jwk, score |-> m.score]]
        /\ UNCHANGED <<storeVars, keyVars, formVars, createVars, secret, scoreVars, faults>>
    <2>1. m.event.event = "VERIFIED"
      BY DEF DeliverVerified
    <2>2. StreamAfter(m.event) = "importing" /\ ScreenAfter(m.event) = screen
      BY <2>1 DEF StreamAfter, ScreenAfter
    <2> QED BY <2>1, <2>2 DEF DeliverVerified, OnMessage
  <1>2. /\ m.score \in Int /\ m.score - percent[s] \in -1 .. 1
        /\ m.event.bob_pubkey_jwk \in Bobs
        /\ published[s] = <<Verified(m.event.bob_pubkey_jwk)>> /\ m.score >= 75
    BY <1>1, ArrivalIsResult
  <1>3. screen = "step-waiting"
    BY <1>1 DEF PageInv, SessionInv, Waits, Listening
  <1>4. /\ KeyInv' /\ SessionInv'
        /\ current = s /\ screen = "step-waiting" /\ es'[s] = "importing"
        /\ es' \in [Sessions -> Stages]
        /\ \A t \in Sessions \ {s} : ResultInv(t)'
    <2>1. Waits(s)
      BY <1>1 DEF Waits, Listening
    <2>2. screen' \in SessionScreens /\ screen' = "step-waiting"
      BY <1>1, <1>3 DEF SessionScreens
    <2> QED BY <1>1, <2>1, <2>2, ListenerStep DEF Stages, Listening
  <1>5. /\ message'[s] = [bob |-> m.event.bob_pubkey_jwk, score |-> m.score]
        /\ message' \in [Sessions -> [bob : Bobs \cup {Null}, score : Int]]
    BY <1>1, <1>2 DEF PageInv, PageTypeOK
  <1>6. PageTypeOK'
    BY <1>1, <1>4, <1>5 DEF PageInv, PageTypeOK, keyVars, formVars, createVars, scoreVars
  <1>7. ResultInv(s)'
    <2>1. message'[s].bob = m.event.bob_pubkey_jwk /\ message'[s].score = m.score
      BY <1>5
    <2>2. published'[s] = published[s] /\ percent'[s] = percent[s] /\ current' = s
      BY <1>1, <1>4 DEF storeVars, scoreVars, createVars
    <2>3. Scored(s)'
      <3>1. published[s] # <<>>
        BY <1>2
      <3> QED BY <1>1, <3>1 DEF PageInv, ResultInv, Scored, storeVars, scoreVars
    <2>4. ScoreIsClose(s)'
      BY <1>2, <2>1, <2>2 DEF ScoreIsClose
    <2> QED BY <1>1, <1>2, <1>4, <2>1, <2>2, <2>3, <2>4 DEF ResultInv, PassShown
  <1> QED BY <1>1, <1>4, <1>6, <1>7 DEF PageInv

LEMMA DeliverFailedKeeps ==
    ASSUME StoreInv, PageInv, NEW s \in Sessions, NEW m \in Arrivals(s), DeliverFailed(s, m)
    PROVE  PageInv' /\ screen' = "step-alice-fail"
  <1>1. /\ m.event.event = "FAILED" /\ es[s] = "open"
        /\ es' = [es EXCEPT ![s] = "closed"] /\ screen' = "step-alice-fail"
        /\ message' = [message EXCEPT ![s] = [bob |-> Null, score |-> m.score]]
        /\ UNCHANGED <<storeVars, keyVars, formVars, createVars, secret, scoreVars, faults>>
    <2>1. m.event.event = "FAILED"
      BY DEF DeliverFailed
    <2>2. StreamAfter(m.event) = "closed" /\ ScreenAfter(m.event) = "step-alice-fail"
      BY <2>1 DEF StreamAfter, ScreenAfter
    <2> QED BY <2>1, <2>2 DEF DeliverFailed, OnMessage
  <1>2. /\ m.score \in Int /\ m.score - percent[s] \in -1 .. 1
        /\ published[s] = <<Failed>> /\ m.score <= 75
    BY <1>1, ArrivalIsResult
  <1>4. /\ KeyInv' /\ SessionInv'
        /\ current = s /\ screen = "step-waiting" /\ es'[s] = "closed"
        /\ es' \in [Sessions -> Stages]
        /\ \A t \in Sessions \ {s} : ResultInv(t)'
    <2>1. Waits(s)
      BY <1>1 DEF Waits, Listening
    <2>2. screen' \in SessionScreens
      BY <1>1 DEF SessionScreens
    <2> QED BY <1>1, <2>1, <2>2, ListenerStep DEF Stages, Listening
  <1>5. /\ message'[s] = [bob |-> Null, score |-> m.score]
        /\ message' \in [Sessions -> [bob : Bobs \cup {Null}, score : Int]]
    BY <1>1, <1>2 DEF PageInv, PageTypeOK
  <1>6. PageTypeOK'
    BY <1>1, <1>4, <1>5 DEF PageInv, PageTypeOK, Screens, keyVars, formVars, createVars, scoreVars
  <1>7. ResultInv(s)'
    <2>1. message'[s].score = m.score
      BY <1>5
    <2>2. published'[s] = published[s] /\ percent'[s] = percent[s]
      BY <1>1 DEF storeVars, scoreVars
    <2>3. Scored(s)'
      <3>1. published[s] # <<>>
        BY <1>2
      <3> QED BY <1>1, <3>1 DEF PageInv, ResultInv, Scored, storeVars, scoreVars
    <2>4. ScoreIsClose(s)'
      BY <1>2, <2>1, <2>2 DEF ScoreIsClose
    <2> QED BY <1>1, <1>2, <1>4, <2>1, <2>2, <2>3, <2>4 DEF ResultInv, PassShown
  <1> QED BY <1>1, <1>4, <1>6, <1>7 DEF PageInv

\* aliceKeyPair is still the pair of the session: no new one is asked for before
\* a result is shown.
LEMMA HandleVerifiedKeeps ==
    ASSUME PageInv, NEW s \in Sessions, HandleVerified(s)
    PROVE  PageInv'
  <1>0. /\ secret \in [Sessions -> SUBSET (KeyPairs \cup Bobs \cup {NoKey, Null})]
        /\ es[s] \in {"importing", "deriving"} /\ Waits(s)
    BY DEF HandleVerified, ImportBobKey, ShowVerified, PageInv, PageTypeOK, Waits, Listening
  <1>1. /\ current = s /\ screen = "step-waiting" /\ aliceKeyPair = newest /\ keyOf[s] = newest
        /\ newest \in KeyPairs
        /\ message[s].bob \in Bobs /\ published[s] = <<Verified(message[s].bob)>>
        /\ message[s].score >= 75 /\ ScoreIsClose(s) /\ Scored(s)
    <2>1. current = s /\ screen = "step-waiting"
      BY <1>0 DEF PageInv, SessionInv
    <2>2. aliceKeyPair = newest /\ newest \in KeyPairs /\ keyOf[s] = newest
      BY <2>1 DEF PageInv, KeyInv, SessionInv, SessionScreens, HasKeys
    <2>3. message[s].bob \in Bobs /\ published[s] = <<Verified(message[s].bob)>>
          /\ message[s].score >= 75 /\ ScoreIsClose(s)
      BY <1>0 DEF PageInv, ResultInv
    <2>4. Scored(s)
      BY <2>3 DEF PageInv, ResultInv
    <2> QED BY <2>1, <2>2, <2>3, <2>4
  <1>2. CASE ImportBobKey(s)
    <2>1. /\ es[s] = "importing" /\ es' = [es EXCEPT ![s] = "deriving"]
          /\ secret' = [secret EXCEPT ![s] = {aliceKeyPair, message[s].bob}]
          /\ UNCHANGED <<storeVars, screen, keyVars, formVars, createVars, message, scoreVars, faults>>
      BY <1>2 DEF ImportBobKey, DeriveSharedKey
    <2>2. /\ KeyInv' /\ SessionInv' /\ es'[s] = "deriving"
          /\ es' \in [Sessions -> Stages]
          /\ \A t \in Sessions \ {s} : ResultInv(t)'
      <3>1. screen' \in SessionScreens /\ screen' = "step-waiting"
        BY <1>1, <2>1 DEF SessionScreens
      <3> QED BY <1>0, <2>1, <3>1, ListenerStep DEF Stages, Listening
    <2>3. /\ secret'[s] = {keyOf'[s], message'[s].bob}
          /\ secret' \in [Sessions -> SUBSET (KeyPairs \cup Bobs \cup {NoKey, Null})]
      BY <1>0, <1>1, <2>1 DEF createVars
    <2>4. PageTypeOK'
      BY <2>1, <2>2, <2>3 DEF PageInv, PageTypeOK, keyVars, formVars, createVars, scoreVars
    <2>5. ResultInv(s)'
      <3>1. Scored(s)' /\ ScoreIsClose(s)'
        BY <1>1, <2>1 DEF Scored, ScoreIsClose, storeVars, scoreVars
      <3>2. screen' = "step-waiting" /\ published'[s] = published[s]
        BY <1>1, <2>1 DEF storeVars
      <3> QED BY <1>1, <2>1, <2>3, <3>1, <3>2 DEF ResultInv, PassShown
    <2> QED BY <2>2, <2>4, <2>5 DEF PageInv
  <1>3. CASE ShowVerified(s)
    <2>1. /\ es[s] = "deriving" /\ es' = [es EXCEPT ![s] = "closed"]
          /\ screen' = "step-alice-pass"
          /\ UNCHANGED <<storeVars, keyVars, formVars, createVars, message, secret, scoreVars, faults>>
      BY <1>3 DEF ShowVerified
    <2>2. /\ KeyInv' /\ SessionInv' /\ es'[s] = "closed"
          /\ es' \in [Sessions -> Stages]
          /\ \A t \in Sessions \ {s} : ResultInv(t)'
      <3>1. screen' \in SessionScreens
        BY <2>1 DEF SessionScreens
      <3> QED BY <1>0, <2>1, <3>1, ListenerStep DEF Stages, Listening
    <2>3. secret'[s] = {keyOf'[s], message'[s].bob}
      BY <2>1 DEF PageInv, ResultInv, createVars
    <2>4. PageTypeOK'
      BY <2>1, <2>2 DEF PageInv, PageTypeOK, Screens, keyVars, formVars, createVars, scoreVars
    <2>5. ResultInv(s)'
      <3>1. Scored(s)' /\ ScoreIsClose(s)'
        BY <1>1, <2>1 DEF Scored, ScoreIsClose, storeVars, scoreVars
      <3>2. published'[s] = published[s]
        BY <2>1 DEF storeVars
      <3> QED BY <1>1, <2>1, <2>3, <3>1, <3>2 DEF ResultInv, PassShown
    <2> QED BY <2>2, <2>4, <2>5 DEF PageInv
  <1> QED BY <1>2, <1>3 DEF HandleVerified

\* Alice goes on waiting, or is left waiting.
Stands(s) == StreamConnected(s) \/ StreamDropped(s) \/ ImportFails(s) \/ StreamGivesUp(s)

LEMMA StandsKeeps ==
    ASSUME PageInv, NEW s \in Sessions, Stands(s)
    PROVE  PageInv' /\ screen' = screen
  <1>1. /\ es[s] \in Listening
        /\ UNCHANGED <<storeVars, screen, keyVars, formVars, createVars, message, secret, scoreVars>>
    BY DEF Stands, StreamConnected, StreamDropped, ImportFails, StreamGivesUp, Listening
  <1>2. PICK stage \in {"connecting", "open", "failed", "gave_up"} : es' = [es EXCEPT ![s] = stage]
    BY DEF Stands, StreamConnected, StreamDropped, ImportFails, StreamGivesUp
  <1>3. Waits(s) /\ screen = "step-waiting"
    BY <1>1 DEF PageInv, SessionInv, Waits
  <1>4. /\ KeyInv' /\ SessionInv' /\ es'[s] = stage
        /\ es' \in [Sessions -> Stages]
    <2>1. screen' \in SessionScreens /\ screen' = "step-waiting"
      BY <1>1, <1>3 DEF SessionScreens
    <2>2. stage \in Stages \ {"none"}
      BY <1>2 DEF Stages, Listening
    <2> QED BY <1>1, <1>2, <1>3, <2>1, <2>2, ListenerStep
  <1>5. faults' \in 0 .. MaxFaults
    <2>1. faults' = faults \/ \E kind : Fault(kind)
      BY DEF Stands, StreamConnected, StreamDropped, ImportFails, StreamGivesUp
    <2> QED BY <2>1, FaultBound DEF PageInv, PageTypeOK
  <1>6. PageTypeOK'
    BY <1>1, <1>4, <1>5 DEF PageInv, PageTypeOK, keyVars, formVars, createVars, scoreVars
  <1>7. ASSUME NEW t \in Sessions PROVE ResultInv(t)'
    <2>1. es'[t] = es[t] \/ es'[t] \notin {"importing", "deriving"}
      BY <1>2 DEF PageInv, PageTypeOK
    <2> QED BY <1>1, <2>1, ResultKept DEF storeVars, createVars, scoreVars
  <1> QED BY <1>1, <1>4, <1>6, <1>7 DEF PageInv

-----------------------------------------------------------------------------
(* reset().  It runs from the screens of a session, when the pair of that  *)
(* session is long done, so the button stays disabled until the next is.   *)

LEMMA ResetKeeps ==
    ASSUME PageInv, Reset, UNCHANGED <<storeVars, post, shared, keyOf, message, secret, scoreVars, faults>>,
           screen \in SessionScreens, screen' = "step-create",
           \A s \in Sessions : es'[s] = es[s] \/ (es'[s] = "closed" /\ es[s] # "none"),
           \A s \in Sessions : es'[s] \notin Listening,
           es' \in [Sessions -> Stages]
    PROVE  PageInv'
  <1>1. /\ form' = FALSE /\ counted' = FALSE /\ createDisabled' = TRUE /\ keysReady' = FALSE
        /\ current' = Null /\ GenerateKeyPair
    BY DEF Reset, ButtonAfterReset
  <1>2. post.stage = "none" /\ \A k \in KeyPairs : keyTask[k] \notin {"generating", "exporting"}
    BY DEF PageInv, KeyInv, FormScreens, SessionScreens
  <1>3. /\ KeyInv' /\ SessionInv'
        /\ newest' \in 0 .. MaxKeys /\ aliceKeyPair' = aliceKeyPair
        /\ keyTask' \in [KeyPairs -> {"none", "generating", "exporting", "done", "failed"}]
    <2>1. UNCHANGED <<post, keyOf, issued>> /\ screen' \in FormScreens \ {"none"}
      BY DEF storeVars, FormScreens
    <2> QED BY <1>1, <1>2, <2>1, GenerateKeeps
  <1>4. PageTypeOK'
    BY <1>1, <1>3 DEF PageInv, PageTypeOK, Screens, scoreVars
  <1>5. \A s \in Sessions : ResultInv(s)'
    BY ResultKept DEF storeVars, scoreVars
  <1> QED BY <1>3, <1>4, <1>5 DEF PageInv

LEMMA StartNewKeeps ==
    ASSUME PageInv, StartNew
    PROVE  PageInv' /\ screen' = "step-create"
  <1>1. /\ screen \in SessionScreens /\ screen # "step-waiting" /\ screen' = "step-create" /\ Reset
        /\ UNCHANGED <<storeVars, post, shared, keyOf, message, secret, scoreVars, faults, es>>
    BY DEF StartNew, SessionScreens, streamVars
  <1>2. \A s \in Sessions : es[s] \notin Listening
    BY <1>1 DEF PageInv, SessionInv, Waits
  <1>3. es \in [Sessions -> Stages]
    BY DEF PageInv, PageTypeOK
  <1> QED BY <1>1, <1>2, <1>3, ResetKeeps

LEMMA DeliverExpiredKeeps ==
    ASSUME PageInv, NEW s \in Sessions, DeliverExpired(s)
    PROVE  PageInv' /\ screen' = "step-create"
  <1>1. /\ es[s] = "open" /\ es' = [es EXCEPT ![s] = "closed"] /\ screen' = "step-create" /\ Reset
        /\ UNCHANGED <<storeVars, post, shared, keyOf, message, secret, scoreVars, faults>>
    <2>1. Expired.event = "EXPIRED"
      BY DEF Expired
    <2>2. StreamAfter(Expired) = "closed" /\ ScreenAfter(Expired) = "step-create"
      BY <2>1 DEF StreamAfter, ScreenAfter
    <2> QED BY <2>1, <2>2 DEF DeliverExpired, OnMessage
  <1>2. screen = "step-waiting" /\ \A t \in Sessions \ {s} : ~Waits(t)
    BY <1>1 DEF PageInv, SessionInv, Waits, Listening
  <1>3. es \in [Sessions -> Stages]
    BY DEF PageInv, PageTypeOK
  <1>4. /\ es'[s] = "closed" /\ \A t \in Sessions \ {s} : es'[t] = es[t]
        /\ es' \in [Sessions -> Stages]
    BY <1>1, <1>3 DEF Stages
  <1>5. screen \in SessionScreens
    BY <1>2 DEF SessionScreens
  <1>6. /\ \A t \in Sessions : es'[t] = es[t] \/ (es'[t] = "closed" /\ es[t] # "none")
        /\ \A t \in Sessions : es'[t] \notin Listening
    BY <1>1, <1>2, <1>4 DEF Waits, Listening
  <1> QED BY <1>1, <1>4, <1>5, <1>6, ResetKeeps
-----------------------------------------------------------------------------
(* All together.  A step changes the store as the store allows, and tells *)
(* the panel what happens on the screen.                                   *)

Quiet == Entries \ PhaseEntries

WaitingRow  == <<"session created", "phase WAITING_FOR_BOB", "answer embedded", "stream opened">>
VerifiedRow == <<"shared key derived", "phase VERIFIED">>
FailedRow   == <<"SSE FAILED", "phase FAILED">>

PanelStep ==
    \/ UNCHANGED panelVars /\ (screen' = screen \/ screen' \in FormScreens)
    \/ Click /\ UNCHANGED screen
    \/ \E row \in Seq(Quiet) :
          Len(row) > 0 /\ Emit(row) /\ (screen' = screen \/ screen' \in FormScreens)
    \/ Emit(WaitingRow) /\ screen' = "step-waiting"
    \/ Emit(VerifiedRow) /\ screen' = "step-alice-pass"
    \/ Emit(FailedRow) /\ screen' = "step-alice-fail"

LEMMA PhaseShown ==
    /\ screen' \in FormScreens => PhaseOnScreen' = Entries
    /\ screen' = "step-waiting" => PhaseOnScreen' = {"phase WAITING_FOR_BOB"}
    /\ screen' = "step-alice-pass" => PhaseOnScreen' = {"phase VERIFIED"}
    /\ screen' = "step-alice-fail" => PhaseOnScreen' = {"phase FAILED"}
  BY DEF PhaseOnScreen, FormScreens

LEMMA PhaseRows ==
    /\ \A row \in {WaitingRow, VerifiedRow, FailedRow} :
          /\ row \in Seq(Entries) /\ Len(row) > 0 /\ 2 \in DOMAIN row
          /\ \A i \in DOMAIN row : row[i] \in PhaseEntries => i = 2
    /\ WaitingRow[2] = "phase WAITING_FOR_BOB"
    /\ VerifiedRow[2] = "phase VERIFIED"
    /\ FailedRow[2] = "phase FAILED"
  <1>1. /\ WaitingRow[2] = "phase WAITING_FOR_BOB"
        /\ VerifiedRow[2] = "phase VERIFIED"
        /\ FailedRow[2] = "phase FAILED"
    BY DEF WaitingRow, VerifiedRow, FailedRow
  <1>2. /\ WaitingRow \in Seq(Entries) /\ Len(WaitingRow) = 4 /\ DOMAIN WaitingRow = 1 .. 4
        /\ VerifiedRow \in Seq(Entries) /\ Len(VerifiedRow) = 2 /\ DOMAIN VerifiedRow = 1 .. 2
        /\ FailedRow \in Seq(Entries) /\ Len(FailedRow) = 2 /\ DOMAIN FailedRow = 1 .. 2
    BY DEF WaitingRow, VerifiedRow, FailedRow, Entries
  <1>3. /\ WaitingRow[1] \notin PhaseEntries /\ WaitingRow[3] \notin PhaseEntries
        /\ WaitingRow[4] \notin PhaseEntries
        /\ VerifiedRow[1] \notin PhaseEntries /\ FailedRow[1] \notin PhaseEntries
    BY DEF WaitingRow, VerifiedRow, FailedRow, PhaseEntries
  <1>4. /\ Len(WaitingRow) > 0 /\ Len(VerifiedRow) > 0 /\ Len(FailedRow) > 0
        /\ 2 \in DOMAIN WaitingRow /\ 2 \in DOMAIN VerifiedRow /\ 2 \in DOMAIN FailedRow
    BY <1>2
  <1>5. \A i \in 1 .. 4 : WaitingRow[i] \in PhaseEntries => i = 2
    <2>1. \A i \in 1 .. 4 : i = 1 \/ i = 2 \/ i = 3 \/ i = 4
      OBVIOUS
    <2> QED BY <1>3, <2>1, Zenon
  <1>6. \A i \in 1 .. 2 : /\ VerifiedRow[i] \in PhaseEntries => i = 2
                          /\ FailedRow[i] \in PhaseEntries => i = 2
    <2>1. \A i \in 1 .. 2 : i = 1 \/ i = 2
      OBVIOUS
    <2> QED BY <1>3, <2>1, Zenon
  <1> QED BY <1>1, <1>2, <1>4, <1>5, <1>6, Zenon

LEMMA NamedPhaseFits ==
    ASSUME NEW row \in Seq(Entries), NEW n \in DOMAIN row, PhaseOnScreen' = {row[n]},
           \A i \in DOMAIN row : row[i] \in PhaseEntries => i = n
    PROVE  Fits(row)
  BY DEF Fits

LEMMA PanelStepKeeps ==
    ASSUME PanelInv, PanelStep
    PROVE  PanelInv'
  <1>1. CASE UNCHANGED panelVars /\ (screen' = screen \/ screen' \in FormScreens)
    BY <1>1, PhaseShown, SilentKeeps
  <1>2. CASE Click /\ UNCHANGED screen
    BY <1>2, ClickKeeps
  <1>3. ASSUME NEW row \in Seq(Quiet), Len(row) > 0, Emit(row),
               screen' = screen \/ screen' \in FormScreens
        PROVE  PanelInv'
    <2>1. row \in Seq(Entries) /\ \A i \in DOMAIN row : row[i] \notin PhaseEntries
      BY DEF Quiet
    <2>2. Fits(row)
      BY <1>3, <2>1, PhaseShown DEF Fits
    <2> QED BY <1>3, <2>1, <2>2, EmitKeeps
  <1>4. ASSUME Emit(WaitingRow),
               screen' = "step-waiting"
        PROVE  PanelInv'
    <2>1. PhaseOnScreen' = {WaitingRow[2]}
      BY <1>4, PhaseShown, PhaseRows
    <2>2. Fits(WaitingRow)
      BY <2>1, PhaseRows, NamedPhaseFits
    <2> QED BY <1>4, <2>2, PhaseRows, EmitKeeps
  <1>5. ASSUME Emit(VerifiedRow), screen' = "step-alice-pass"
        PROVE  PanelInv'
    <2>1. PhaseOnScreen' = {VerifiedRow[2]}
      BY <1>5, PhaseShown, PhaseRows
    <2>2. Fits(VerifiedRow)
      BY <2>1, PhaseRows, NamedPhaseFits
    <2> QED BY <1>5, <2>2, PhaseRows, EmitKeeps
  <1>6. ASSUME Emit(FailedRow), screen' = "step-alice-fail"
        PROVE  PanelInv'
    <2>1. PhaseOnScreen' = {FailedRow[2]}
      BY <1>6, PhaseShown, PhaseRows
    <2>2. Fits(FailedRow)
      BY <2>1, PhaseRows, NamedPhaseFits
    <2> QED BY <1>6, <2>2, PhaseRows, EmitKeeps
  <1> QED BY <1>1, <1>2, <1>3, <1>4, <1>5, <1>6 DEF PanelStep

LEMMA QuietRows ==
    /\ <<"generating keys">> \in Seq(Quiet)
    /\ <<"keypair generated">> \in Seq(Quiet)
    /\ <<"keypair failed">> \in Seq(Quiet)
    /\ <<"POST session">> \in Seq(Quiet)
    /\ <<"creation failed">> \in Seq(Quiet)
    /\ <<"SSE VERIFIED", "importing key">> \in Seq(Quiet)
    /\ <<"stream closed">> \in Seq(Quiet)
    /\ <<"stream dropped">> \in Seq(Quiet)
    /\ <<"SSE CONNECTED">> \in Seq(Quiet)
    /\ <<"generating fresh keys">> \in Seq(Quiet)
    /\ <<"SSE EXPIRED", "expired", "generating fresh keys">> \in Seq(Quiet)
  BY DEF Quiet, Entries, PhaseEntries

IInv == StoreInv /\ PanelInv /\ PageInv

LEMMA IInvInit == Init => IInv
  <1> SUFFICES ASSUME Init PROVE IInv
    OBVIOUS
  <1>1. StoreInv
    BY StoreInvInit DEF Init
  <1>2. PageInv
    BY PageInvInit
  <1>3. PanelInv
    <2>0. /\ entries = <<>> /\ entryCount = 0 /\ clicks = 0 /\ marked = {}
          /\ isOpen = FALSE /\ placeholder = TRUE /\ live = FALSE /\ atBottom = TRUE
          /\ Len(entries) = 0 /\ DOMAIN entries = {} /\ entries \in Seq(Entries)
      <3>1. PanelInit
        BY DEF Init
      <3>2. entries = <<>>
        BY <3>1 DEF PanelInit
      <3>3. Len(entries) = 0 /\ DOMAIN entries = {} /\ entries \in Seq(Entries)
        BY <3>2
      <3> QED BY <3>1, <3>2, <3>3 DEF PanelInit
    <2>1. PanelTypeOK
      <3>1. /\ isOpen \in BOOLEAN /\ placeholder \in BOOLEAN /\ live \in BOOLEAN
            /\ atBottom \in BOOLEAN
        BY <2>0
      <3>2. clicks \in 0 .. MaxClicks
        BY <2>0, MaxClicksAssumption
      <3>3. entries \in Seq(Entries) /\ entryCount \in Nat /\ marked \in SUBSET Parts
        BY <2>0
      <3> QED BY <3>1, <3>2, <3>3 DEF PanelTypeOK
    <2>2. PanelInStep
      BY <2>0 DEF PanelInStep
    <2>3. LogMatchesScreen
      BY <2>0 DEF LogMatchesScreen
    <2> QED BY <2>1, <2>2, <2>3 DEF PanelInv
  <1> QED BY <1>1, <1>2, <1>3 DEF IInv

\* Only the handlers of the server touch the store.
LEMMA PageStepOnStore ==
    ASSUME Next
    PROVE  [StoreNext]_storeVars
  <1>1. ASSUME NEW s \in Sessions, NEW a \in Answers, ServerCreates(s, a)
        PROVE  StoreNext
    BY <1>1 DEF ServerCreates, StoreNext
  <1>2. ASSUME NEW s \in Sessions, NEW b \in Bobs, NEW score \in Scores, Decide(s, b, score)
        PROVE  StoreNext
    <2>1. Passes(score) \in BOOLEAN
      BY DEF Passes
    <2>2. Finalize(s, VerdictUpdate(b, Passes(score)), VerdictEvent(b, Passes(score)))
      BY <1>2 DEF Decide
    <2> QED BY <2>1, <2>2 DEF StoreNext
  <1>3. ASSUME NEW s \in Sessions, Vanish(s)
        PROVE  StoreNext
    BY <1>3 DEF Vanish, StoreNext
  <1>4. CASE \/ Boot \/ StartVerification \/ FillForm \/ ClickCreate \/ PostSession \/ CreateSucceeds
             \/ CreateRefused \/ CreateFails \/ ShareLink \/ StartNew \/ ClickPanel
    BY <1>4 DEF Boot, StartVerification, FillForm, ClickCreate, PostSession, CreateSucceeds,
                CreateRefused, CreateFails, CreateEndsInAlert, ShareLink, StartNew, ClickPanel
  <1>5. ASSUME NEW k \in KeyPairs, MakeKeys(k) \/ KeyFails(k)
        PROVE  UNCHANGED storeVars
    BY <1>5 DEF MakeKeys, KeyPairGenerated, PublicKeyExported, KeyFails
  <1>6. ASSUME NEW s \in Sessions,
               Deliver(s) \/ HandleVerified(s) \/ Stands(s)
        PROVE  UNCHANGED storeVars
    BY <1>6 DEF Deliver, DeliverVerified, DeliverFailed, DeliverExpired, HandleVerified, ImportBobKey,
                ShowVerified, Stands, StreamConnected, StreamDropped, ImportFails, StreamGivesUp
  <1> QED BY <1>1, <1>2, <1>3, <1>4, <1>5, <1>6 DEF Next, RunCreate, Stands

LEMMA CreatingSteps ==
    ASSUME IInv,
           \/ Boot \/ StartVerification \/ FillForm \/ ClickCreate \/ RunCreate \/ CreateRefused
           \/ CreateFails \/ ShareLink \/ StartNew \/ ClickPanel
    PROVE  PageInv' /\ PanelStep
  <1> USE DEF IInv
  <1>1. CASE Boot
    <2>1. PageInv'
      BY <1>1, BootKeeps
    <2>2. screen' \in FormScreens /\ (UNCHANGED panelVars \/ Emit(<<"generating keys">>))
      BY <1>1 DEF Boot, FormScreens
    <2>3. Len(<<"generating keys">>) > 0
      OBVIOUS
    <2> QED BY <2>1, <2>2, <2>3, QuietRows DEF PanelStep
  <1>2. CASE StartVerification \/ FillForm \/ ShareLink
    <2>1. PageInv'
      BY <1>2, FormKeeps
    <2>2. UNCHANGED panelVars /\ (screen' = screen \/ screen' \in FormScreens)
      BY <1>2 DEF StartVerification, FillForm, ShareLink, FormScreens
    <2> QED BY <2>1, <2>2 DEF PanelStep
  <1>3. CASE ClickPanel
    <2>1. PageInv'
      BY <1>3, FormKeeps
    <2> QED BY <1>3, <2>1 DEF ClickPanel, PanelStep
  <1>4. CASE ClickCreate \/ CreateRefused
    <2>1. PageInv'
      BY <1>4, PostKeeps
    <2>2. UNCHANGED panelVars /\ screen' = screen
      BY <1>4 DEF ClickCreate, CreateRefused, CreateEndsInAlert
    <2> QED BY <2>1, <2>2 DEF PanelStep
  <1>5. CASE PostSession \/ CreateFails
    <2>1. PageInv'
      BY <1>5, PostKeeps
    <2>2. /\ Emit(<<"POST session">>) \/ Emit(<<"creation failed">>)
          /\ screen' = screen
      BY <1>5 DEF PostSession, CreateFails, CreateEndsInAlert
    <2>3. Len(<<"POST session">>) > 0 /\ Len(<<"creation failed">>) > 0
      OBVIOUS
    <2> QED BY <2>1, <2>2, <2>3, QuietRows DEF PanelStep
  <1>6. ASSUME NEW s \in Sessions, NEW a \in Answers, ServerCreates(s, a)
        PROVE  PageInv' /\ PanelStep
    <2>1. PageInv'
      BY <1>6, ServerCreatesKeeps
    <2>2. UNCHANGED panelVars /\ screen' = screen
      BY <1>6 DEF ServerCreates
    <2> QED BY <2>1, <2>2 DEF PanelStep
  <1>7. CASE CreateSucceeds
    <2>1. PageInv'
      BY <1>7, CreateSucceedsKeeps DEF StoreInv, StoreTypeOK
    <2> QED BY <1>7, <2>1 DEF CreateSucceeds, PanelStep, WaitingRow
  <1>8. CASE StartNew
    <2>1. PageInv' /\ screen' \in FormScreens
      BY <1>8, StartNewKeeps DEF FormScreens
    <2>2. Len(<<"generating fresh keys">>) > 0
      OBVIOUS
    <2> QED BY <1>8, <2>1, <2>2, QuietRows DEF StartNew, PanelStep
  <1> QED BY <1>1, <1>2, <1>3, <1>4, <1>5, <1>6, <1>7, <1>8 DEF RunCreate

LEMMA KeySteps ==
    ASSUME IInv, NEW k \in KeyPairs, MakeKeys(k) \/ KeyFails(k)
    PROVE  PageInv' /\ PanelStep
  <1>1. PageInv'
    BY MakeKeysKeeps DEF IInv
  <1>2. /\ screen' = screen
        /\ \/ UNCHANGED panelVars
           \/ Emit(<<"keypair generated">>) \/ Emit(<<"keypair failed">>)
    BY DEF MakeKeys, KeyPairGenerated, PublicKeyExported, KeyFails
  <1>3. Len(<<"keypair generated">>) > 0 /\ Len(<<"keypair failed">>) > 0
    OBVIOUS
  <1> QED BY <1>1, <1>2, <1>3, QuietRows DEF PanelStep

LEMMA SessionSteps ==
    ASSUME IInv, NEW s \in Sessions,
           \/ \E b \in Bobs, score \in Scores : Decide(s, b, score)
           \/ Vanish(s) \/ Deliver(s) \/ HandleVerified(s) \/ Stands(s)
    PROVE  PageInv' /\ PanelStep
  <1> USE DEF IInv
  <1>1. ASSUME NEW b \in Bobs, NEW score \in Scores, Decide(s, b, score)
        PROVE  PageInv' /\ PanelStep
    <2>1. PageInv'
      BY <1>1, DecideKeeps
    <2>2. UNCHANGED panelVars /\ screen' = screen
      BY <1>1 DEF Decide
    <2> QED BY <2>1, <2>2 DEF PanelStep
  <1>2. CASE Vanish(s)
    <2>1. PageInv'
      BY <1>2, VanishKeeps
    <2>2. UNCHANGED panelVars /\ screen' = screen
      BY <1>2 DEF Vanish
    <2> QED BY <2>1, <2>2 DEF PanelStep
  <1>3. ASSUME NEW m \in Arrivals(s), DeliverVerified(s, m)
        PROVE  PageInv' /\ PanelStep
    <2>1. PageInv' /\ screen' = screen
      BY <1>3, DeliverVerifiedKeeps
    <2>2. Emit(<<"SSE VERIFIED", "importing key">>)
      BY <1>3 DEF DeliverVerified
    <2>3. Len(<<"SSE VERIFIED", "importing key">>) > 0
      OBVIOUS
    <2> QED BY <2>1, <2>2, <2>3, QuietRows DEF PanelStep
  <1>4. ASSUME NEW m \in Arrivals(s), DeliverFailed(s, m)
        PROVE  PageInv' /\ PanelStep
    <2>1. PageInv' /\ screen' = "step-alice-fail"
      BY <1>4, DeliverFailedKeeps
    <2> QED BY <1>4, <2>1 DEF DeliverFailed, PanelStep, FailedRow
  <1>5. CASE DeliverExpired(s)
    <2>1. PageInv' /\ screen' \in FormScreens
      BY <1>5, DeliverExpiredKeeps DEF FormScreens
    <2>2. Emit(<<"SSE EXPIRED", "expired", "generating fresh keys">>)
      BY <1>5 DEF DeliverExpired
    <2>3. Len(<<"SSE EXPIRED", "expired", "generating fresh keys">>) > 0
      OBVIOUS
    <2> QED BY <2>1, <2>2, <2>3, QuietRows DEF PanelStep
  <1>6. CASE HandleVerified(s)
    <2>1. PageInv'
      BY <1>6, HandleVerifiedKeeps
    <2>2. \/ UNCHANGED panelVars /\ screen' = screen
          \/ Emit(VerifiedRow) /\ screen' = "step-alice-pass"
      BY <1>6 DEF HandleVerified, ImportBobKey, ShowVerified, VerifiedRow
    <2> QED BY <2>1, <2>2 DEF PanelStep
  <1>7. CASE Stands(s)
    <2>1. PageInv' /\ screen' = screen
      BY <1>7, StandsKeeps
    <2>2. \/ UNCHANGED panelVars
          \/ Emit(<<"SSE CONNECTED">>) \/ Emit(<<"stream dropped">>) \/ Emit(<<"stream closed">>)
      BY <1>7 DEF Stands, StreamConnected, StreamDropped, ImportFails, StreamGivesUp
    <2>3. /\ Len(<<"SSE CONNECTED">>) > 0 /\ Len(<<"stream dropped">>) > 0
          /\ Len(<<"stream closed">>) > 0
      OBVIOUS
    <2> QED BY <2>1, <2>2, <2>3, QuietRows DEF PanelStep
  <1> QED BY <1>1, <1>2, <1>3, <1>4, <1>5, <1>6, <1>7 DEF Deliver

LEMMA IInvStep == IInv /\ [Next]_vars => IInv'
  <1> SUFFICES ASSUME IInv, [Next]_vars PROVE IInv'
    OBVIOUS
  <1>1. CASE UNCHANGED vars
    <2>1. UNCHANGED <<storeVars, panelVars, screen>>
      BY <1>1 DEF vars
    <2>2. StoreInv'
      BY <2>1, StoreInvStep DEF IInv
    <2>3. PanelInv'
      BY <2>1, PanelStepKeeps DEF PanelStep, IInv
    <2>4. PageInv'
      <3>1. UNCHANGED <<storeVars, screen, keyVars, formVars, createVars, streamVars, scoreVars, faults>>
        BY <1>1 DEF vars
      <3>2. PageTypeOK' /\ KeyInv' /\ SessionInv'
        <4>1. PageTypeOK'
          BY <3>1 DEF IInv, PageInv, PageTypeOK, keyVars, formVars, createVars, streamVars, scoreVars
        <4>2. KeyInv'
          BY <3>1 DEF IInv, PageInv, KeyInv, HasKeys, keyVars, formVars, createVars
        <4>3. SessionInv'
          BY <3>1 DEF IInv, PageInv, SessionInv, Waits, Tried, FreshKeyPerSession, storeVars, keyVars,
                      createVars, streamVars
        <4> QED BY <4>1, <4>2, <4>3
      <3>3. \A s \in Sessions : ResultInv(s)'
        BY <3>1, ResultKept DEF IInv, storeVars, createVars, streamVars, scoreVars
      <3> QED BY <3>2, <3>3 DEF PageInv
    <2> QED BY <2>2, <2>3, <2>4 DEF IInv
  <1>2. CASE Next
    <2>1. StoreInv'
      BY <1>2, PageStepOnStore, StoreInvStep DEF IInv
    <2>2. PageInv' /\ PanelStep
      BY <1>2, CreatingSteps, KeySteps, SessionSteps DEF Next, Stands
    <2>3. PanelInv'
      BY <2>2, PanelStepKeeps DEF IInv
    <2> QED BY <2>1, <2>2, <2>3 DEF IInv
  <1> QED BY <1>1, <1>2

LEMMA Invariance == Spec => []IInv
  BY IInvInit, IInvStep, PTL DEF Spec

\* The page, its panel and the store under it keep their types.
THEOREM PageTypeCorrect == Spec => []TypeOK
  <1>1. IInv => TypeOK
    <2> SUFFICES ASSUME IInv PROVE TypeOK
      OBVIOUS
    <2>1. StoreTypeOK /\ PanelTypeOK /\ PageTypeOK
      BY DEF IInv, StoreInv, PanelInv, PageInv
    <2> QED BY <2>1 DEF TypeOK, PageTypeOK, Stages, Listening
  <1> QED BY <1>1, Invariance, PTL

\* Whatever was under way when Alice started anew, a result screen is about the
\* session she is at.
THEOREM VerdictIsCurrent == Spec => []VerdictIsForCurrentSession
  <1>1. IInv => VerdictIsForCurrentSession
    <2> SUFFICES ASSUME IInv PROVE VerdictIsForCurrentSession
      OBVIOUS
    <2>1. screen \in SessionScreens => current \in Sessions /\ current # Null
      BY NullAssumption DEF IInv, PageInv, SessionInv, Tried
    <2> QED BY <2>1 DEF IInv, PageInv, ResultInv, PassShown, VerdictIsForCurrentSession, SessionScreens
  <1> QED BY <1>1, Invariance, PTL

\* The key Alice holds under "The channel is now open" is the one Bob derives
\* from the public key stored for that session.
THEOREM ChannelOpens == Spec => []ChannelWorks
  <1>1. IInv => ChannelWorks
    <2> SUFFICES ASSUME IInv, NEW s \in Sessions, current = s, screen = "step-alice-pass"
                 PROVE  \E b \in Bobs :
                           /\ published[s] = <<Verified(b)>>
                           /\ Decrypts(DeriveSharedKey(b, keyOf[s]),
                                       Encrypt(secret[s], "iv", "hello"), "hello")
      BY DEF ChannelWorks
    <2>1. /\ message[s].bob \in Bobs /\ published[s] = <<Verified(message[s].bob)>>
          /\ secret[s] = {keyOf[s], message[s].bob}
      BY DEF IInv, PageInv, ResultInv, PassShown
    <2>2. DeriveSharedKey(message[s].bob, keyOf[s]) = secret[s]
      BY <2>1 DEF DeriveSharedKey
    <2>3. Decrypts(secret[s], Encrypt(secret[s], "iv", "hello"), "hello")
      BY DEF Decrypts, Encrypt
    <2> QED BY <2>1, <2>2, <2>3
  <1> QED BY <1>1, Invariance, PTL

\* No two sessions Alice waited on have one key pair.
THEOREM KeysAreFresh == Spec => []FreshKeyPerSession
  <1>1. IInv => FreshKeyPerSession
    BY DEF IInv, PageInv, SessionInv
  <1> QED BY <1>1, Invariance, PTL

\* The percentage Alice reads is at most one off Bob's and on the right side of
\* the threshold.
THEOREM ScoreIsFair == Spec => []ShownScoreIsFair
  <1>1. IInv => ShownScoreIsFair
    <2> SUFFICES ASSUME IInv PROVE ShownScoreIsFair
      OBVIOUS
    <2>1. screen \in SessionScreens => current \in Sessions
      BY DEF IInv, PageInv, SessionInv, Tried
    <2> QED BY <2>1 DEF IInv, PageInv, ResultInv, PassShown, ScoreIsClose, ShownScoreIsFair, SessionScreens
  <1> QED BY <1>1, Invariance, PTL

\* The parts of the debug panel agree.
THEOREM PanelAgrees == Spec => []PanelInStep
  <1>1. IInv => PanelInStep
    BY DEF IInv, PanelInv
  <1> QED BY <1>1, Invariance, PTL

\* The last phase in the log is the one on the screen.
THEOREM LogIsOfTheScreen == Spec => []LogMatchesScreen
  <1>1. IInv => LogMatchesScreen
    BY DEF IInv, PanelInv
  <1> QED BY <1>1, Invariance, PTL

-----------------------------------------------------------------------------
(* The store under the page, and what moves Alice.                         *)

\* The server as the page sees it is the store of SessionStore: what is proved
\* of the store holds here.
THEOREM PageUsesTheStore == Spec => StoreSpec
  <1>1. Init => StoreInit
    BY DEF Init
  <1>2. [Next]_vars => [StoreNext]_storeVars
    <2>1. UNCHANGED vars => UNCHANGED storeVars
      BY DEF vars
    <2> QED BY <2>1, PageStepOnStore
  <1> QED BY <1>1, <1>2, PTL DEF Spec, StoreSpec

\* From the screens of a session Alice is moved by that session's own stream, or
\* by her click on "Start New Verification".
OnlyHerSessionMovesHer ==
    screen \in SessionScreens /\ screen' # screen =>
        \/ screen = "step-waiting" /\ Waits(current) /\ es'[current] = "closed"
        \/ screen # "step-waiting" /\ screen' = "step-create" /\ current' = Null

\* No handler left over from an earlier session, key pair or create() changes
\* the screen of the session Alice is at.
THEOREM LateHandlersAreHarmless == Spec => [][OnlyHerSessionMovesHer]_vars
  <1>1. ASSUME IInv, Next PROVE OnlyHerSessionMovesHer
    <2>0. /\ KeyInv /\ SessionInv /\ PageTypeOK
      BY <1>1 DEF IInv, PageInv
    <2>1. CASE \/ Boot \/ StartVerification \/ FillForm \/ ClickCreate \/ CreateRefused
               \/ CreateFails \/ ShareLink \/ ClickPanel \/ PostSession
      BY <2>1 DEF Boot, StartVerification, FillForm, ClickCreate, CreateRefused, CreateFails,
                  CreateEndsInAlert, ShareLink, ClickPanel, PostSession, OnlyHerSessionMovesHer,
                  SessionScreens
    <2>2. CASE StartNew
      BY <2>2 DEF StartNew, Reset, OnlyHerSessionMovesHer
    <2>3. ASSUME NEW s \in Sessions, NEW a \in Answers, ServerCreates(s, a)
          PROVE  OnlyHerSessionMovesHer
      BY <2>3 DEF ServerCreates, OnlyHerSessionMovesHer
    <2>4. CASE CreateSucceeds
      <3>1. screen = "step-create"
        BY <2>0, <2>4 DEF CreateSucceeds, KeyInv
      <3> QED BY <3>1 DEF OnlyHerSessionMovesHer, SessionScreens
    <2>5. ASSUME NEW k \in KeyPairs, MakeKeys(k) \/ KeyFails(k)
          PROVE  OnlyHerSessionMovesHer
      BY <2>5 DEF MakeKeys, KeyPairGenerated, PublicKeyExported, KeyFails, OnlyHerSessionMovesHer
    <2>6. ASSUME NEW s \in Sessions, Deliver(s) \/ ShowVerified(s)
          PROVE  OnlyHerSessionMovesHer
      <3>1. Waits(s) /\ (screen' = screen \/ es' = [es EXCEPT ![s] = "closed"])
        BY <2>6 DEF Deliver, DeliverVerified, DeliverFailed, DeliverExpired, ShowVerified, OnMessage,
                    StreamAfter, ScreenAfter, Waits, Listening, Expired
      <3>2. current = s /\ screen = "step-waiting"
        BY <2>0, <3>1 DEF SessionInv
      <3> QED BY <2>0, <3>1, <3>2 DEF OnlyHerSessionMovesHer, PageTypeOK
    <2>7. ASSUME NEW s \in Sessions,
                 \/ \E b \in Bobs, score \in Scores : Decide(s, b, score)
                 \/ Vanish(s) \/ ImportBobKey(s) \/ Stands(s)
          PROVE  OnlyHerSessionMovesHer
      BY <2>7 DEF Decide, Vanish, ImportBobKey, Stands, StreamConnected, StreamDropped, ImportFails,
                  StreamGivesUp, OnlyHerSessionMovesHer
    <2> QED BY <1>1, <2>1, <2>2, <2>3, <2>4, <2>5, <2>6, <2>7
        DEF Next, RunCreate, HandleVerified, Stands
  <1>2. IInv /\ [Next]_vars => [OnlyHerSessionMovesHer]_vars
    BY <1>1
  <1> QED BY <1>2, Invariance, PTL DEF Spec

-----------------------------------------------------------------------------
(* The safety cores of KeysGetReady, CreateEnds and VerdictArrives.        *)

\* A disabled button is awaited: by a create() under way, or by a key pair that
\* is being made, unless WebCrypto failed her.
ButtonIsAwaited ==
    screen \in {"step-landing", "step-create"} /\ createDisabled =>
        \/ post.stage # "none"
        \/ newest \in KeyPairs /\ keyTask[newest] \in {"generating", "exporting", "failed"}

\* A create() under way has its next step enabled.
PostIsAwaited ==
    post.stage \in {"exporting", "posted"} => Sessions \ issued # {}

\* Alice who waits listens, to the session she waits for, or her stream has given
\* up or failed on Bob's key.
WaitingIsListening ==
    screen = "step-waiting" => Waits(current) \/ es[current] \in {"failed", "gave_up"}

PageIsAwaited == ButtonIsAwaited /\ PostIsAwaited /\ WaitingIsListening


LEMMA PageIsAwaitedStep ==
    ASSUME DebugPanelLoaded, IInv, PageIsAwaited, [Next]_vars
    PROVE  PageIsAwaited'
  <1> USE DEF PageIsAwaited
  <1>0. /\ KeyInv /\ SessionInv /\ PageTypeOK
    BY DEF IInv, PageInv
  <1>a. ASSUME GenerateKeyPair
        PROVE  newest' \in KeyPairs /\ keyTask'[newest'] = "generating"
    <2>1. newest \in Nat /\ newest + 1 \in KeyPairs /\ newest' = newest + 1
      BY <1>0, <1>a, MaxKeysAssumption DEF GenerateKeyPair, PageTypeOK, KeyPairs
    <2>2. keyTask'[newest + 1] = "generating"
      BY <1>0, <1>a, <2>1 DEF GenerateKeyPair, PageTypeOK
    <2> QED BY <2>1, <2>2
  <1>1. CASE Boot
    <2>1. /\ screen = "none" /\ screen' = "step-landing" /\ GenerateKeyPair
          /\ UNCHANGED <<storeVars, createVars>>
      BY <1>1 DEF Boot
    <2>2. newest' \in KeyPairs /\ keyTask'[newest'] = "generating"
      BY <1>a, <2>1
    <2>3. PostIsAwaited'
      BY <2>1 DEF createVars, storeVars, PostIsAwaited
    <2> QED BY <2>1, <2>2, <2>3 DEF ButtonIsAwaited, WaitingIsListening
  <1>2. CASE StartVerification \/ FillForm \/ ShareLink \/ ClickPanel \/ UNCHANGED vars
    <2>1. /\ UNCHANGED <<storeVars, keyVars, createDisabled, post, es>>
          /\ \/ screen' = screen /\ current' = current
             \/ screen = "step-landing" /\ screen' = "step-create"
      BY <1>2 DEF StartVerification, FillForm, ShareLink, ClickPanel, vars, formVars, createVars,
                  streamVars
    <2> QED BY <2>1 DEF storeVars, keyVars, ButtonIsAwaited, PostIsAwaited, WaitingIsListening, Waits
  <1>3. CASE ClickCreate
    <2>1. Sessions \ issued # {}
      BY <1>3 DEF ClickCreate, IInv, StoreInv, StoreTypeOK
    <2> QED BY <1>3, <2>1 DEF ClickCreate, storeVars, ButtonIsAwaited, PostIsAwaited,
                              WaitingIsListening
  <1>4. CASE PostSession
    <2>1. post.stage = "exporting" /\ screen = "step-create" /\ post'.stage = "posted"
      BY <1>0, <1>4 DEF PostSession, KeyInv, PageTypeOK
    <2> QED BY <1>4, <2>1 DEF PostSession, storeVars, ButtonIsAwaited, PostIsAwaited,
                              WaitingIsListening
  <1>5. ASSUME NEW s \in Sessions, NEW a \in Answers, ServerCreates(s, a)
        PROVE  PageIsAwaited'
    <2>1. screen = "step-create" /\ screen' = screen /\ post'.stage = "created"
      BY <1>0, <1>5 DEF ServerCreates, KeyInv, PageTypeOK
    <2> QED BY <2>1 DEF ButtonIsAwaited, PostIsAwaited, WaitingIsListening
  <1>6. CASE CreateRefused \/ CreateFails
    <2>1. createDisabled' = FALSE /\ post'.stage = "none" /\ screen' = "step-create"
      <3>1. post.stage # "none" /\ CreateEndsInAlert
        <4>1. CASE CreateRefused
          BY <4>1 DEF CreateRefused
        <4>2. CASE CreateFails
          BY <4>2 DEF CreateFails
        <4> QED BY <1>6, <4>1, <4>2
      <3>2. screen = "step-create"
        BY <1>0, <3>1 DEF KeyInv
      <3> QED BY <3>1, <3>2 DEF CreateEndsInAlert, ButtonAfterError, NoPost
    <2> QED BY <2>1 DEF ButtonIsAwaited, PostIsAwaited, WaitingIsListening
  <1>7. CASE CreateSucceeds
    <2>1. post.session \in Sessions
      BY <1>0, <1>7 DEF CreateSucceeds, SessionInv, IInv, StoreInv, StoreTypeOK
    <2>2. screen' = "step-waiting" /\ post'.stage = "none" /\ es'[current'] = "connecting"
      BY <1>0, <1>7, <2>1 DEF CreateSucceeds, NoPost, PageTypeOK
    <2> QED BY <2>2 DEF ButtonIsAwaited, PostIsAwaited, WaitingIsListening, Waits, Listening
  <1>8. ASSUME Reset, screen' = "step-create", UNCHANGED <<storeVars, post>>
        PROVE  PageIsAwaited'
    <2>1. newest' \in KeyPairs /\ keyTask'[newest'] = "generating"
      BY <1>8, <1>a DEF Reset
    <2> QED BY <1>8, <2>1 DEF storeVars, ButtonIsAwaited, PostIsAwaited, WaitingIsListening
  <1>9. CASE StartNew
    BY <1>8, <1>9 DEF StartNew
  <1>10. ASSUME NEW k \in KeyPairs, MakeKeys(k) \/ KeyFails(k)
         PROVE  PageIsAwaited'
    <2>1. /\ UNCHANGED <<storeVars, screen, newest, post, current, es>>
          /\ \/ createDisabled' = FALSE
             \/ /\ createDisabled' = createDisabled
                /\ \E x \in {"exporting", "failed"} : keyTask' = [keyTask EXCEPT ![k] = x]
      BY <1>10 DEF MakeKeys, KeyPairGenerated, PublicKeyExported, KeyFails, formVars, createVars,
                   streamVars
    <2>2. \A j \in KeyPairs : keyTask'[j] = keyTask[j] \/ keyTask'[j] \in {"exporting", "failed"}
                              \/ createDisabled' = FALSE
      BY <1>0, <2>1 DEF PageTypeOK
    <2>3. ButtonIsAwaited'
      BY <2>1, <2>2 DEF ButtonIsAwaited
    <2>4. PostIsAwaited' /\ WaitingIsListening'
      BY <2>1 DEF storeVars, PostIsAwaited, WaitingIsListening, Waits
    <2> QED BY <2>3, <2>4
  <1>11. ASSUME NEW s \in Sessions,
                (\E b \in Bobs, score \in Scores : Decide(s, b, score)) \/ Vanish(s)
         PROVE  PageIsAwaited'
    <2>1. UNCHANGED <<issued, screen, newest, keyTask, createDisabled, post, current, es>>
      BY <1>11 DEF Decide, Vanish, Finalize, Expire, storeVars, keyVars, formVars, createVars,
                   streamVars
    <2> QED BY <2>1 DEF ButtonIsAwaited, PostIsAwaited, WaitingIsListening, Waits
  <1>12. ASSUME NEW s \in Sessions,
                \/ \E m \in Arrivals(s) : DeliverVerified(s, m) \/ DeliverFailed(s, m)
                \/ HandleVerified(s) \/ Stands(s)
         PROVE  PageIsAwaited'
    <2>1. /\ UNCHANGED <<storeVars, newest, keyTask, createDisabled, post, current>>
          /\ \/ screen' \in {"step-alice-pass", "step-alice-fail"}
             \/ /\ screen' = screen
                /\ \/ es' = es
                   \/ \E x \in Listening \cup {"failed", "gave_up"} : es' = [es EXCEPT ![s] = x]
      BY <1>12 DEF DeliverVerified, DeliverFailed, OnMessage, StreamAfter, ScreenAfter,
                   HandleVerified, ImportBobKey, ShowVerified, Stands, StreamConnected,
                   StreamDropped, ImportFails, StreamGivesUp, Listening, keyVars, formVars,
                   createVars, streamVars
    <2>2. ButtonIsAwaited' /\ PostIsAwaited'
      BY <2>1 DEF storeVars, ButtonIsAwaited, PostIsAwaited
    <2>3. WaitingIsListening'
      <3>1. screen = "step-waiting" => current \in Sessions
        BY <1>0 DEF SessionInv, SessionScreens, Tried
      <3> QED BY <1>0, <2>1, <3>1 DEF WaitingIsListening, Waits, PageTypeOK
    <2> QED BY <2>2, <2>3
  <1>13. ASSUME NEW s \in Sessions, DeliverExpired(s)
         PROVE  PageIsAwaited'
    <2>1. screen' = "step-create"
      BY <1>13 DEF DeliverExpired, OnMessage, ScreenAfter, Expired
    <2> QED BY <1>8, <1>13, <2>1 DEF DeliverExpired
  <1> QED BY <1>1, <1>2, <1>3, <1>4, <1>5, <1>6, <1>7, <1>9, <1>10, <1>11, <1>12, <1>13
          DEF Next, RunCreate, Deliver, Stands

\* With debug.js on the page Alice never sits before a dead button, an unanswered
\* create() or a stream that nobody reads: what she waits for is under way, or
\* it has failed in the way the property names.
THEOREM PageNeverDead ==
    ASSUME DebugPanelLoaded
    PROVE  Spec => []PageIsAwaited
  <1>1. Init => PageIsAwaited
    BY DEF Init, NoPost, PageIsAwaited, ButtonIsAwaited, PostIsAwaited, WaitingIsListening
  <1>2. IInv /\ PageIsAwaited /\ [Next]_vars => PageIsAwaited'
    BY PageIsAwaitedStep
  <1> QED BY <1>1, <1>2, Invariance, PTL DEF Spec

=============================================================================
