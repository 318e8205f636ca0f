----------------------------- MODULE DebugPanel -----------------------------
(***************************************************************************)
(* The panel that shows what the protocol does in a tab                    *)
(* (static/js/debug.js).  An entry is kept as the event it reports; its    *)
(* time and its body are left out.  A page's actions emit entries as part  *)
(* of what they do; Alice's clicks on the panel come at any time.          *)
(***************************************************************************)
EXTENDS Naturals, Sequences

CONSTANT MaxClicks   \* bound on Alice's clicks on the panel

ASSUME MaxClicksAssumption == MaxClicks \in Nat

VARIABLES isOpen,      \* the script's own flag
          marked,      \* the elements that carry the classes of an open panel
          entries,     \* the entries in the log element
          entryCount,  \* the script's counter, and the text that shows it
          placeholder, \* "Waiting for protocol events..." is in the log element
          live,        \* the live dot is active
          atBottom,    \* the log is scrolled to its newest entry
          clicks       \* clicks so far

panelVars == <<isOpen, marked, entries, entryCount, placeholder, live, atBottom,
               clicks>>

\* What the emitters report.
Entries == {"generating keys", "keypair generated", "keypair failed", "POST session",
            "session created", "answer embedded", "creation failed", "stream opened",
            "stream closed", "stream dropped", "SSE CONNECTED", "SSE VERIFIED", "SSE FAILED",
            "SSE EXPIRED", "importing key", "shared key derived", "phase WAITING_FOR_BOB",
            "phase VERIFIED", "phase FAILED", "expired", "generating fresh keys"}

Parts == {"debug-panel", "debug-trigger", "body"}

PanelInit ==
    /\ isOpen = FALSE
    /\ marked = {}
    /\ entries = <<>>
    /\ entryCount = 0
    /\ placeholder = TRUE
    /\ live = FALSE
    /\ atBottom = TRUE
    /\ clicks = 0

Open ==
    /\ ~isOpen
    /\ isOpen' = TRUE
    /\ marked' = Parts
    /\ atBottom' = TRUE
    /\ UNCHANGED <<entries, entryCount, placeholder, live>>

\* The trigger button again, or the panel's own close button.
Close ==
    /\ isOpen
    /\ isOpen' = FALSE
    /\ marked' = {}
    /\ UNCHANGED <<entries, entryCount, placeholder, live, atBottom>>

\* Mutant: the counter is not reset.
ClearedCountKept == entryCount

ClearedCount == 0

Clear ==
    /\ isOpen
    /\ entries # <<>>
    /\ entryCount' = ClearedCount
    /\ entries' = <<>>
    /\ placeholder' = TRUE
    /\ live' = FALSE
    /\ atBottom' = TRUE
    /\ UNCHANGED <<isOpen, marked>>

\* Calls of emit in a row.  A closed panel is not scrolled.
Emit(es) ==
    /\ entries' = entries \o es
    /\ entryCount' = entryCount + Len(es)
    /\ placeholder' = FALSE
    /\ live' = TRUE
    /\ atBottom' = isOpen
    /\ UNCHANGED <<isOpen, marked, clicks>>

Click ==
    /\ clicks < MaxClicks
    /\ clicks' = clicks + 1
    /\ Open \/ Close \/ Clear

-----------------------------------------------------------------------------
\* Type invariant.
PanelTypeOK ==
    /\ isOpen \in BOOLEAN
    /\ marked \in SUBSET Parts
    /\ entries \in Seq(Entries)
    /\ entryCount \in Nat
    /\ placeholder \in BOOLEAN
    /\ live \in BOOLEAN
    /\ atBottom \in BOOLEAN
    /\ clicks \in 0 .. MaxClicks

\* The panel's parts agree, whatever the order of clicks and events: the count
\* is the number of entries shown, the placeholder stands for an empty log, the
\* dot for one that is not, the page makes room exactly for an open panel, and
\* an open panel shows the newest entry.
PanelInStep ==
    /\ entryCount = Len(entries)
    /\ placeholder <=> entries = <<>>
    /\ live <=> entries # <<>>
    /\ marked = IF isOpen THEN Parts ELSE {}
    /\ isOpen => atBottom
=============================================================================
