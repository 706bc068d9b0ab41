------------------------------ MODULE Browser ------------------------------
(***************************************************************************)
(* The sessions one plugin holds in the host's browser (browser/browser.go,*)
(* session.go, subscribe.go) and the feed the plugin sees                  *)
(* (pluginhost/facade.go, subscriptionAdapter).  Open asks policy, reserves*)
(* a slot, makes an engine context and commits it into a slot; pages and   *)
(* subscriptions are made outside the session's lock and listed under it;  *)
(* Close, and disabling the plugin, take the lists and close what is on    *)
(* them, while readers, openers and closers run on.                        *)
(***************************************************************************)
EXTENDS Naturals, FiniteSets

CONSTANTS
    BSession,       \* calls of Open
    BPage,          \* calls of NewPage
    Feed,           \* calls of Subscribe
    MaxSessions,    \* sessions a plugin may hold
    MaxPages,       \* pages a session may hold
    FrameBuffer,    \* frames a feed may lag behind
    NoParent        \* the session of a call that was not made yet

ASSUME BrowserConstants ==
    /\ MaxSessions \in Nat \ {0} /\ MaxPages \in Nat \ {0} /\ FrameBuffer \in Nat \ {0}
    /\ NoParent \notin BSession /\ IsFiniteSet(BSession)

VARIABLES
    browserOn,  \* policy admits the plugin
    reserved,   \* placeholders in the plugin's list of sessions
    listed,     \* sessions in that list
    doomed,     \* sessions a ClosePlugin has taken and not yet closed
    sess,       \* per Open: where it stands, and where the session's close stands
    page,       \* per NewPage: its session and where it stands
    feed,       \* per Subscribe: its session and where it stands
    reader,     \* per feed: the goroutine that reads the socket
    finish,     \* per feed: closed flag and whether Frames is closed
    queued,     \* frames in the core channel
    pumped,     \* the plugin's channel is closed
    panicked    \* a send met a closed channel

browserVars == <<browserOn, reserved, listed, doomed, sess, page, feed, reader, finish, queued, pumped, panicked>>

OpenStep == {"new", "admitted", "reserved", "engine", "open", "refused"}
PartStep == {"new", "admitted", "counted", "engine", "listed", "closed", "refused"}

\* The type of the state.
BrowserTypeOK ==
    /\ browserOn \in BOOLEAN /\ panicked \in BOOLEAN
    /\ reserved \in 0..Cardinality(BSession)
    /\ listed \subseteq BSession /\ doomed \subseteq BSession
    /\ sess \in [BSession -> [at: OpenStep, close: {"no", "marked", "done"}, engine: BOOLEAN]]
    /\ \A p \in BPage: page[p].at \in PartStep /\ page[p].engine \in BOOLEAN
    /\ \A f \in Feed: feed[f].at \in PartStep
    /\ reader \in [Feed -> {"none", "reading", "got", "ended"}]
    /\ finish \in [Feed -> {"no", "flagged", "closed"}]
    /\ queued \in [Feed -> 0..FrameBuffer] /\ pumped \in [Feed -> BOOLEAN]

BrowserInit ==
    /\ browserOn = TRUE /\ panicked = FALSE /\ reserved = 0 /\ listed = {} /\ doomed = {}
    /\ sess = [s \in BSession |-> [at |-> "new", close |-> "no", engine |-> FALSE]]
    /\ page = [p \in BPage |-> [at |-> "new", of |-> NoParent, engine |-> FALSE]]
    /\ feed = [f \in Feed |-> [at |-> "new", of |-> NoParent]]
    /\ reader = [f \in Feed |-> "none"] /\ finish = [f \in Feed |-> "no"]
    /\ queued = [f \in Feed |-> 0] /\ pumped = [f \in Feed |-> FALSE]

FeedsStay == UNCHANGED <<feed, reader, finish, queued, pumped, panicked>>
PagesStay == UNCHANGED page
ListStays == UNCHANGED <<browserOn, reserved, listed, doomed>>
------------------------------------------------------------------------------
(* Open.                                                                   *)

\* CheckWork and the allowlist.
OpenSession(s) ==
    /\ sess[s].at = "new"
    /\ sess' = [sess EXCEPT ![s].at = IF browserOn THEN "admitted" ELSE "refused"]
    /\ ListStays /\ PagesStay /\ FeedsStay

\* mutant: the placeholders of calls under way are not counted
SlotFreeOfOpen == Cardinality(listed) < MaxSessions

SlotFree == Cardinality(listed) + reserved < MaxSessions

\* reserveSlot puts a placeholder into the list.
ReserveSlot(s) ==
    /\ sess[s].at = "admitted"
    /\ \/ SlotFree /\ reserved' = reserved + 1 /\ sess' = [sess EXCEPT ![s].at = "reserved"]
       \/ ~SlotFree /\ UNCHANGED reserved /\ sess' = [sess EXCEPT ![s].at = "refused"]
    /\ UNCHANGED <<browserOn, listed, doomed>> /\ PagesStay /\ FeedsStay

\* The engine makes a context, or fails: releaseReservation takes some placeholder back.
NewEngineSession(s) ==
    /\ sess[s].at = "reserved"
    /\ \/ sess' = [sess EXCEPT ![s].at = "engine", ![s].engine = TRUE] /\ UNCHANGED reserved
       \/ /\ sess' = [sess EXCEPT ![s].at = "refused"]
          /\ reserved' = IF reserved > 0 THEN reserved - 1 ELSE 0
    /\ UNCHANGED <<browserOn, listed, doomed>> /\ PagesStay /\ FeedsStay

\* commitSession fills any placeholder; with none left the context is closed again.
CommitSession(s) ==
    /\ sess[s].at = "engine"
    /\ IF reserved > 0
       THEN /\ reserved' = reserved - 1 /\ listed' = listed \cup {s}
            /\ sess' = [sess EXCEPT ![s].at = "open"]
       ELSE /\ UNCHANGED <<reserved, listed>>
            /\ sess' = [sess EXCEPT ![s].at = "refused", ![s].engine = FALSE]
    /\ UNCHANGED <<browserOn, doomed>> /\ PagesStay /\ FeedsStay
------------------------------------------------------------------------------
(* Closing.                                                                *)

\* Policy switches the plugin; the watcher's ClosePlugin takes the whole list.
SwitchPlugin ==
    /\ browserOn' = ~browserOn
    /\ IF browserOn THEN doomed' = doomed \cup listed /\ listed' = {} /\ reserved' = 0
                    ELSE UNCHANGED <<doomed, listed, reserved>>
    /\ UNCHANGED sess /\ PagesStay /\ FeedsStay

PagesOf(s) == {p \in BPage: page[p].of = s /\ page[p].at = "listed"}
FeedsOf(s) == {f \in Feed: feed[f].of = s /\ feed[f].at = "listed"}

\* closeLocked, under the lock: the first call marks the session and takes its lists.
MarkClosed(s) ==
    /\ sess[s].at = "open" /\ sess[s].close = "no"
    /\ sess' = [sess EXCEPT ![s].close = "marked"]
    /\ doomed' = doomed \ {s}
    /\ UNCHANGED <<browserOn, reserved, listed>> /\ PagesStay /\ FeedsStay

\* page.closeEngine, by closeLocked or by the plugin.
ClosePage(p) ==
    /\ page[p].at = "listed"
    /\ page' = [page EXCEPT ![p].at = "closed", ![p].engine = FALSE]
    /\ ListStays /\ UNCHANGED sess /\ FeedsStay

\* The engine context is closed after the parts on the lists, and the session is dropped.
CloseEngine(s) ==
    /\ sess[s].close = "marked"
    /\ PagesOf(s) = {} /\ \A f \in FeedsOf(s): finish[f] = "closed"
    /\ sess' = [sess EXCEPT ![s].close = "done", ![s].engine = FALSE]
    /\ listed' = listed \ {s}
    /\ UNCHANGED <<browserOn, reserved, doomed>> /\ PagesStay /\ FeedsStay
------------------------------------------------------------------------------
(* NewPage.                                                                *)

\* session.admit: policy, then the closed flag.
Admit(s) == browserOn /\ sess[s].at = "open" /\ sess[s].close = "no"

NewPage(p, s) ==
    /\ page[p].at = "new" /\ Admit(s)
    /\ page' = [page EXCEPT ![p].at = "admitted", ![p].of = s]
    /\ ListStays /\ UNCHANGED sess /\ FeedsStay

\* The pages are counted under the lock, which is then released.
CountPages(p) ==
    /\ page[p].at = "admitted"
    /\ page' = [page EXCEPT ![p].at = IF Cardinality(PagesOf(page[p].of)) < MaxPages THEN "counted" ELSE "refused"]
    /\ ListStays /\ UNCHANGED sess /\ FeedsStay

\* The engine makes a page, unless it fails or its context is closed.
NewEnginePage(p) ==
    /\ page[p].at = "counted"
    /\ \/ sess[page[p].of].engine /\ page' = [page EXCEPT ![p].at = "engine", ![p].engine = TRUE]
       \/ page' = [page EXCEPT ![p].at = "refused"]
    /\ ListStays /\ UNCHANGED sess /\ FeedsStay

\* mutant: the flag was looked at in admit, and is not looked at again
StillOpenThen(s) == TRUE

\* The flag as it is when the part is to be listed.
StillOpen(s) == sess[s].close = "no"

ListPage(p) ==
    /\ page[p].at = "engine"
    /\ page' = IF StillOpen(page[p].of) THEN [page EXCEPT ![p].at = "listed"]
               ELSE [page EXCEPT ![p].at = "closed", ![p].engine = FALSE]
    /\ ListStays /\ UNCHANGED sess /\ FeedsStay
------------------------------------------------------------------------------
(* Subscribe, the reader and the plugin's side of the feed.                *)

Subscribe(f, s) ==
    /\ feed[f].at = "new" /\ Admit(s)
    /\ feed' = [feed EXCEPT ![f].at = "admitted", ![f].of = s]
    /\ ListStays /\ UNCHANGED <<sess, reader, finish, queued, pumped, panicked>> /\ PagesStay

\* The dial and the handshake, outside the lock.
Dial(f) ==
    /\ feed[f].at = "admitted"
    /\ \E ok \in BOOLEAN: feed' = [feed EXCEPT ![f].at = IF ok THEN "engine" ELSE "refused"]
    /\ ListStays /\ UNCHANGED <<sess, reader, finish, queued, pumped, panicked>> /\ PagesStay

\* The subscription is listed and its reader started, unless the session was closed.
ListFeed(f) ==
    /\ feed[f].at = "engine"
    /\ IF StillOpen(feed[f].of)
       THEN feed' = [feed EXCEPT ![f].at = "listed"] /\ reader' = [reader EXCEPT ![f] = "reading"]
       ELSE feed' = [feed EXCEPT ![f].at = "closed"] /\ UNCHANGED reader
    /\ ListStays /\ UNCHANGED <<sess, finish, queued, pumped, panicked>> /\ PagesStay

\* finish, under the lock: the first of reader, plugin and session close sets the flag.
FinishFlag(f) ==
    /\ feed[f].at = "listed" /\ finish[f] = "no"
    /\ finish' = [finish EXCEPT ![f] = "flagged"]
    /\ ListStays /\ UNCHANGED <<sess, feed, reader, queued, pumped, panicked>> /\ PagesStay

\* Then, without the lock, the socket and Frames are closed and the feed is dropped.
FinishClose(f) ==
    /\ finish[f] = "flagged"
    /\ finish' = [finish EXCEPT ![f] = "closed"]
    /\ ListStays /\ UNCHANGED <<sess, feed, reader, queued, pumped, panicked>> /\ PagesStay

\* A text frame arrives and is answered if a keepalive rule says so.
ReadFrame(f) ==
    /\ reader[f] = "reading" /\ finish[f] # "closed"
    /\ reader' = [reader EXCEPT ![f] = "got"]
    /\ ListStays /\ UNCHANGED <<sess, feed, finish, queued, pumped, panicked>> /\ PagesStay

\* The read fails, because the socket does or because somebody closed it.
ReadFails(f) ==
    /\ reader[f] = "reading"
    /\ finish[f] # "flagged"
    /\ reader' = [reader EXCEPT ![f] = "ended"]
    /\ finish' = [finish EXCEPT ![f] = IF @ = "no" THEN "flagged" ELSE @]
    /\ ListStays /\ UNCHANGED <<sess, feed, queued, pumped, panicked>> /\ PagesStay

\* The frame goes into the channel, or is dropped when that is full.
SendFrame(f) ==
    /\ reader[f] = "got"
    /\ panicked' = (finish[f] = "closed")
    /\ reader' = [reader EXCEPT ![f] = "reading"]
    /\ queued' = [queued EXCEPT ![f] = IF @ < FrameBuffer /\ finish[f] # "closed" THEN @ + 1 ELSE @]
    /\ ListStays /\ UNCHANGED <<sess, feed, finish, pumped>> /\ PagesStay

\* mutant: the loop gives up when the plugin is behind, and leaves its channel open
PumpedNever(f) == FALSE

\* The adapter's channel ends with the core's, once that is drained.
Pumped(f) == finish[f] = "closed" /\ queued[f] = 0

\* The adapter's goroutine moves frames on until the core channel is closed.
Pump(f) ==
    /\ feed[f].at = "listed" /\ ~pumped[f]
    /\ \/ queued[f] > 0 /\ queued' = [queued EXCEPT ![f] = @ - 1] /\ UNCHANGED pumped
       \/ Pumped(f) /\ pumped' = [pumped EXCEPT ![f] = TRUE] /\ UNCHANGED queued
    /\ ListStays /\ UNCHANGED <<sess, feed, reader, finish, panicked>> /\ PagesStay
------------------------------------------------------------------------------
OpenSteps(s) == ReserveSlot(s) \/ NewEngineSession(s) \/ CommitSession(s)
PageSteps(p) == CountPages(p) \/ NewEnginePage(p) \/ ListPage(p)
FeedSteps(f) == Dial(f) \/ ListFeed(f) \/ FinishClose(f) \/ SendFrame(f) \/ Pump(f)
CloseSteps(s) ==
    \/ s \in doomed /\ MarkClosed(s)
    \/ sess[s].close = "marked" /\ \E p \in PagesOf(s): ClosePage(p)
    \/ sess[s].close = "marked" /\ \E f \in FeedsOf(s): FinishFlag(f)
    \/ CloseEngine(s)

BrowserNext ==
    /\ ~panicked
    /\ \/ SwitchPlugin
       \/ \E s \in BSession: OpenSession(s) \/ OpenSteps(s) \/ MarkClosed(s) \/ CloseSteps(s)
       \/ \E p \in BPage: PageSteps(p) \/ ClosePage(p) \/ \E s \in BSession: NewPage(p, s)
       \/ \E f \in Feed: FeedSteps(f) \/ FinishFlag(f) \/ ReadFrame(f) \/ ReadFails(f)
                         \/ \E s \in BSession: Subscribe(f, s)

\* Calls and goroutines under way go on.
BrowserFairness ==
    /\ \A s \in BSession: WF_browserVars(OpenSteps(s)) /\ WF_browserVars(CloseSteps(s))
    /\ \A p \in BPage: WF_browserVars(PageSteps(p))
    /\ \A f \in Feed: WF_browserVars(FinishClose(f)) /\ WF_browserVars(Pump(f)) /\ WF_browserVars(SendFrame(f))

BrowserSpec == BrowserInit /\ [][BrowserNext]_browserVars /\ BrowserFairness
------------------------------------------------------------------------------
\* Nothing the engine holds is forgotten: a context is open only for a session that is in
\* the plugin's list, about to be closed, or still in a call of Open or Close; once a close
\* has returned no page and no socket of the session is left, whatever NewPage and Subscribe
\* were under way; and the list never holds more sessions than the limit
\* (browser.go, reserveSlot, commitSession; session.go, NewPage, closeLocked).
NothingLeaks ==
    /\ BrowserTypeOK
    /\ \A s \in BSession: sess[s].engine =>
         s \in listed \cup doomed \/ sess[s].at = "engine" \/ sess[s].close = "marked"
    /\ \A p \in BPage: page[p].at = "listed" => sess[page[p].of].close # "done"
    /\ \A p \in BPage: page[p].engine => page[p].at \in {"engine", "listed"}
    /\ \A f \in Feed: feed[f].at = "listed" /\ sess[feed[f].of].close = "done" => finish[f] = "closed"
    /\ Cardinality(listed) + reserved <= MaxSessions

\* A feed whose session is closed ends for the plugin: its channel is closed after the
\* frames that were read, whoever closed what first (subscribe.go, finish; facade.go, pump).
FeedEnds ==
    \A f \in Feed: (feed[f].at = "listed" /\ sess[feed[f].of].close = "marked") ~> (pumped[f] \/ panicked)

\* finish says "closes Frames exactly once.  The reader and the plugin race to call it": the
\* reader that holds a frame while the plugin closes must not send it into a closed channel.
\* The code does not hold this: nothing orders read's send after finish's close.
FramesOpenWhenSent == ~panicked

\* docs/modules/browser.md says disabling "closes every page, every subscription, and the
\* browser context".  The code does not hold this: Open asks policy before it reserves its
\* slot, so a ClosePlugin in between does not see it.
DisabledHasNoContext ==
    (~browserOn /\ doomed = {}) => \A s \in BSession: sess[s].at = "open" => sess[s].close # "no"
==============================================================================
