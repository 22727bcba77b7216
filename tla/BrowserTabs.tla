----------------------------- MODULE BrowserTabs -----------------------------
(***************************************************************************)
(* One session of the pool from the inside: its tabs, the active tab and   *)
(* its HAR recorder (runTabs and runHar of services/playwright-extensions, *)
(* HarBuffer of playwright-har.ts).  Tool calls on one session are not     *)
(* serialised: openTab awaits newPage and goto between its check of the    *)
(* tab cap and its push, and a captured request awaits its response.       *)
(***************************************************************************)
EXTENDS Integers, SequencesExt

CONSTANTS
    PageId,        \* pages of the browser context
    Opener,        \* openTab calls that may be in flight together
    BufferId,      \* HarBuffer objects
    Null,
    MaxTabs,       \* MAX_TABS_PER_SESSION
    OutputLimit,   \* largest recording, in entries, that fits PLAYWRIGHT_OUTPUT_LIMIT_BYTES
    MaxCaptures    \* bound: requests captured per recording

ASSUME TabsAssumption ==
    /\ Null \notin PageId /\ Null \notin BufferId
    /\ PageId \cap {"idle", "newPage"} = {}
    /\ MaxTabs \in Nat \ {0} /\ OutputLimit \in Nat /\ MaxCaptures \in Nat

VARIABLES
    pages,     \* entry.pages
    active,    \* entry.activePageIndex, counted from 0
    opening,   \* each openTab call: idle, awaiting newPage, or awaiting goto of a page
    openPages, \* pages opened and not closed by a tool call: one that crashes stays here
    har,       \* entry.harBuffer
    buffers    \* HarBuffer objects: state, attached pages, entries, responses awaited

tabVars == <<pages, active, opening, openPages, har, buffers>>

Buffer == [state : {"unused", "listening", "stopped"}, attached : SUBSET PageId,
           entries : 0..MaxCaptures, awaiting : 0..MaxCaptures]

TabsTypeOK ==
    /\ pages \in Seq(PageId)
    /\ active \in Nat
    /\ opening \in [Opener -> {"idle", "newPage"} \cup PageId]
    /\ openPages \in SUBSET PageId
    /\ har \in BufferId \cup {Null}
    /\ buffers \in [BufferId -> Buffer]

\* registerSession: one tab, active, no recorder.
TabsInit ==
    /\ \E p \in PageId : pages = <<p>> /\ openPages = {p}
    /\ active = 0
    /\ opening = [o \in Opener |-> "idle"]
    /\ har = Null
    /\ buffers = [b \in BufferId |->
                    [state |-> "unused", attached |-> {}, entries |-> 0, awaiting |-> 0]]

-----------------------------------------------------------------------------
(* browser_tabs *)

\* ensureTabIndex
TabIndex == 0..Len(pages) - 1

SwitchTab(i) ==
    /\ i \in TabIndex
    /\ active' = i
    /\ UNCHANGED <<pages, opening, openPages, har, buffers>>

FocusUnlessClosed(i) ==   \* mutant: only closing the active tab moves it
    IF active = i THEN IF i = 0 THEN 0 ELSE i - 1 ELSE active

FocusAfterClose(i) ==
    IF active = i THEN IF i = 0 THEN 0 ELSE i - 1
    ELSE IF active > i THEN active - 1 ELSE active

\* closeTab: the last tab is refused; the active index follows the shift.  The page is
\* closed last, and the list is the same if that fails.
CloseTab(i) ==
    /\ i \in TabIndex
    /\ Len(pages) # 1
    /\ pages' = RemoveAt(pages, i + 1)
    /\ active' = FocusAfterClose(i)
    /\ openPages' = openPages \ {pages[i + 1]}
    /\ UNCHANGED <<opening, har, buffers>>

RoomForTab == Len(pages) < MaxTabs

\* openTab up to its first await.
BeginOpen(o) ==
    /\ opening[o] = "idle"
    /\ RoomForTab
    /\ opening' = [opening EXCEPT ![o] = "newPage"]
    /\ UNCHANGED <<pages, active, openPages, har, buffers>>

PageCreated(o, p) ==
    /\ opening[o] = "newPage"
    /\ p \notin openPages
    /\ \A b \in BufferId : p \notin buffers[b].attached
    /\ openPages' = openPages \cup {p}
    /\ opening' = [opening EXCEPT ![o] = p]
    /\ UNCHANGED <<pages, active, har, buffers>>

FinishOpen(o) ==
    /\ opening[o] \in PageId
    /\ pages' = Append(pages, opening[o])
    /\ active' = Len(pages)
    /\ opening' = [opening EXCEPT ![o] = "idle"]
    /\ UNCHANGED <<openPages, har, buffers>>

\* newPage or goto rejects: the error propagates and nothing is undone.
OpenFails(o) ==
    /\ opening[o] # "idle"
    /\ opening' = [opening EXCEPT ![o] = "idle"]
    /\ UNCHANGED <<pages, active, openPages, har, buffers>>

-----------------------------------------------------------------------------
(* browser_har *)

\* runHar "start": a new HarBuffer listens on the tabs of this moment.
HarStart(b) ==
    /\ har = Null
    /\ buffers[b].state = "unused"
    /\ har' = b
    /\ buffers' = [buffers EXCEPT ![b].state = "listening", ![b].attached = ToSet(pages)]
    /\ UNCHANGED <<pages, active, opening, openPages>>

\* HarBuffer.serialize
Stopped(b) == [b EXCEPT !.state = "stopped", !.attached = {}]

\* runHar "stop": serialize() detaches the listeners, then the size is checked,
\* and only a recording that fits is taken off the session.
HarStop ==
    /\ har # Null
    /\ buffers' = [buffers EXCEPT ![har] = Stopped(@)]
    /\ har' = IF buffers[har].entries > OutputLimit THEN har ELSE Null
    /\ UNCHANGED <<pages, active, opening, openPages>>

\* captureFinished, up to and after `await request.response()`.
CaptureBegins(b, p) ==
    /\ p \in openPages \cap buffers[b].attached
    /\ buffers[b].state = "listening"
    /\ buffers[b].entries + buffers[b].awaiting < MaxCaptures
    /\ buffers' = [buffers EXCEPT ![b].awaiting = @ + 1]
    /\ UNCHANGED <<pages, active, opening, openPages, har>>

CaptureEnds(b) ==
    /\ buffers[b].awaiting > 0
    /\ buffers' = [buffers EXCEPT ![b].awaiting = @ - 1, ![b].entries = @ + 1]
    /\ UNCHANGED <<pages, active, opening, openPages, har>>

-----------------------------------------------------------------------------
TabsNext ==
    \/ \E i \in TabIndex : SwitchTab(i)
    \/ \E i \in TabIndex : CloseTab(i)
    \/ \E o \in Opener : BeginOpen(o)
    \/ \E o \in Opener, p \in PageId : PageCreated(o, p)
    \/ \E o \in Opener : FinishOpen(o)
    \/ \E o \in Opener : OpenFails(o)
    \/ \E b \in BufferId : HarStart(b)
    \/ HarStop
    \/ \E b \in BufferId, p \in PageId : CaptureBegins(b, p)
    \/ \E b \in BufferId : CaptureEnds(b)

TabsSpec == TabsInit /\ [][TabsNext]_tabVars

-----------------------------------------------------------------------------
(* Properties *)

\* p is the page the next tool call of the session acts on.
InFocus(p) == active \in TabIndex /\ pages[active + 1] = p

ActiveTabValid ==
    /\ active \in TabIndex
    /\ IsInjective(pages)
    /\ ToSet(pages) \subseteq openPages

CloseKeepsFocus ==
    \A p \in PageId : InFocus(p) /\ Len(pages') < Len(pages) /\ p \in ToSet(pages')
         => InFocus(p)'

\* With opens, closes and switches interleaved, the active index always names a tab
\* and the tabs are distinct pages no call has closed: activePage never meets its
\* INTERNAL_ERROR (playwright-pool.ts).  And closing a tab never moves the caller to
\* another page than the one that was active, unless that is the page closed
\* (closeTab).
FocusSound == [][ActiveTabValid' /\ CloseKeepsFocus]_tabVars

\* "har_already_recording" is answered only while a recording is active
\* (stellara-konzept.md 8.29).
RecorderIsActive == har # Null => buffers[har].state = "listening"
=============================================================================
