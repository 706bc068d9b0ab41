----------------------------- MODULE BidrlSweep -----------------------------
(***************************************************************************)
(* The bidrl plugin's scheduled sweep (plugins/bidrl: automation.go,       *)
(* discover.go, pace.go and the collection loop of collect.go).            *)
(*                                                                         *)
(* A tick lists the auctions open at the chosen locations, keeps the ones  *)
(* not stored yet, soonest to close first, and collects them lot by lot.   *)
(* The site may refuse any request; after RateLimitMax refusals in a row   *)
(* the pacer says so.  The listing cache, the stored auctions and the      *)
(* latch are rows; the tick itself is one job at a time (concurrency 1).   *)
(* What a landing page shows does not change within a behaviour, so        *)
(* reading the pages and replacing the cache is one step: the transaction  *)
(* is where its effect happens.                                            *)
(***************************************************************************)
EXTENDS Naturals, Sequences, FiniteSets, FiniteSetsExt

CONSTANTS
    BidrlAuction,   \* auction ids
    NoAuction,      \* no auction
    Location,       \* SITES locations (affiliate ids)
    NoLocation,     \* a row without a location
    SiteMenu,       \* the location menu, in its order: a sequence of locations
    SitePage,       \* SitePage[l]: the auctions on a location's landing page
    ClosingOrder,   \* the auctions by closing time, a sequence
    GalleryLots,    \* GalleryLots[a]: how many lots an auction's gallery lists
    Chosen,         \* automation.affiliateIds
    Preferred,      \* preferredAffiliateIds; {} allows every location
    MaxAffiliates, MaxAuctionsPerSweep, MaxNewLotsPerSweep,
    MaxLotsPerAuction, RateLimitMax, ThrottleHold,
    MaxSweepClock,  \* bound on the clock
    MaxTicks        \* bound on the ticks taken

ASSUME SweepAssumption ==
    /\ Chosen \subseteq Location /\ Preferred \subseteq Location
    /\ SiteMenu \in Seq(Location) /\ ClosingOrder \in Seq(BidrlAuction)
    /\ SitePage \in [Location -> SUBSET BidrlAuction]
    /\ GalleryLots \in [BidrlAuction -> Nat]
    /\ \A n \in {MaxAffiliates, MaxAuctionsPerSweep, MaxNewLotsPerSweep,
                 MaxLotsPerAuction, RateLimitMax, ThrottleHold} : n \in Nat \ {0}
    /\ MaxSweepClock \in Nat /\ MaxTicks \in Nat

VARIABLES
    automationOn,   \* automation.enabled
    listing,        \* bidrl_affiliate_auctions: an auction's location, or none
    status,         \* bidrl_auctions.status, "none" for no row
    place,          \* the location stamped on a stored auction
    latch,          \* throttled_until, 0 when empty
    sweepClock,
    tick            \* the sweep job, see the type invariant

sweepVars == <<automationOn, listing, status, place, latch, sweepClock, tick>>

IdleTick == [pc |-> "idle", targets |-> <<>>, cur |-> NoAuction, left |-> 0, got |-> 0,
             lots |-> 0, consecutive |-> 0, refused |-> FALSE, n |-> 0]

\* Types.  "consecutive" is the pacer's count; a pacer lasts for one auction.
\* "refused" is a history variable: a tick reached the pacer's limit since the latch
\* was last cleared.
SweepTypeOK ==
    /\ automationOn \in BOOLEAN
    /\ listing \in [BidrlAuction -> Location \cup {NoLocation}]
    /\ status \in [BidrlAuction -> {"none", "collecting", "ready", "failed"}]
    /\ place \in [BidrlAuction -> Location \cup {NoLocation}]
    /\ latch \in 0 .. MaxSweepClock + ThrottleHold
    /\ sweepClock \in 0 .. MaxSweepClock
    /\ tick.pc \in {"idle", "discover", "targets", "next", "enumerate", "item", "store"}
    /\ tick.targets \in Seq(BidrlAuction) /\ Len(tick.targets) <= MaxAuctionsPerSweep
    /\ tick.cur \in BidrlAuction \cup {NoAuction}
    /\ tick.left \in 0 .. MaxLotsPerAuction /\ tick.got \in 0 .. MaxLotsPerAuction
    /\ tick.lots \in Nat /\ tick.n \in 0 .. MaxTicks
    /\ tick.consecutive \in Nat /\ tick.refused \in BOOLEAN

SweepInit ==
    /\ automationOn \in BOOLEAN
    /\ listing = [a \in BidrlAuction |-> NoLocation]
    /\ status = [a \in BidrlAuction |-> "none"]
    /\ place = [a \in BidrlAuction |-> NoLocation]
    /\ latch = 0 /\ sweepClock = 0
    /\ tick = IdleTick

-----------------------------------------------------------------------------
(* Discovery.                                                              *)

\* The locations of the menu a run visits, at most MaxAffiliates of them.
Wanted(allow) ==
    LET want == {i \in DOMAIN SiteMenu : SiteMenu[i] \in allow}
    IN  {SiteMenu[i] : i \in {j \in want : Cardinality({k \in want : k <= j}) <= MaxAffiliates}}

\* The location whose page contributes an auction: the first in the menu's order.
FirstSeen(a, visited) ==
    LET at == {i \in DOMAIN SiteMenu : SiteMenu[i] \in visited /\ a \in SitePage[SiteMenu[i]]}
    IN  IF at = {} THEN NoLocation ELSE SiteMenu[Min(at)]

\* mutant: the scoped run clears the whole cache
ClearedAll(only) == BidrlAuction

\* The rows a replacement deletes: all of them, or those of the locations named.
Cleared(only) == IF only = {} THEN BidrlAuction ELSE {a \in BidrlAuction : listing[a] \in only}

\* A row inserted over one that was kept breaks the primary key and the transaction.
Conflicts(only, visited) ==
    \E a \in BidrlAuction \ Cleared(only) :
        listing[a] # NoLocation /\ FirstSeen(a, visited) # NoLocation

\* mutant: an auction without a cached listing loses its location
StampedJoin(a, rows) == rows[a]

\* stampAuctionLocation: the cached location where there is one, else what was stored.
Stamped(a, rows) ==
    IF status[a] = "none" \/ rows[a] = NoLocation THEN place[a] ELSE rows[a]

\* The replacement and the stamps of the rows it inserts.
ReplaceListing(only, visited) ==
    LET rows == [a \in BidrlAuction |->
                    IF FirstSeen(a, visited) # NoLocation THEN FirstSeen(a, visited)
                    ELSE IF a \in Cleared(only) THEN NoLocation ELSE listing[a]]
    IN  /\ listing' = rows
        /\ place' = [a \in BidrlAuction |->
                        IF FirstSeen(a, visited) # NoLocation THEN Stamped(a, rows) ELSE place[a]]

\* discoverSitesFor after the menu was read: pages that fail contribute nothing, a
\* menu without a wanted location changes nothing.
Discovers(only, allow) ==
    \E failed \in SUBSET Wanted(allow) :
        IF Wanted(allow) = {} THEN UNCHANGED <<listing, place>>
        ELSE /\ ~Conflicts(only, Wanted(allow) \ failed)
             /\ ReplaceListing(only, Wanted(allow) \ failed)

\* The discover job, which a person starts: every location the config prefers, and
\* the whole cache replaced.  Its failures change nothing.
DiscoverJob ==
    /\ Discovers({}, IF Preferred = {} THEN Location ELSE Preferred)
    /\ UNCHANGED <<automationOn, status, latch, sweepClock, tick>>

-----------------------------------------------------------------------------
(* The tick.                                                               *)

ThrottleHeld == latch > sweepClock

\* sweepJob's guards: each of them ends the tick before a session is opened.
SweepStarts ==
    /\ tick.pc = "idle" /\ tick.n < MaxTicks
    /\ tick' = [IdleTick EXCEPT !.n = tick.n + 1, !.refused = tick.refused,
                !.pc = IF automationOn /\ Chosen # {} /\ ~ThrottleHeld THEN "discover" ELSE "idle"]
    /\ UNCHANGED <<automationOn, listing, status, place, latch, sweepClock>>

\* The end of a tick, whatever its note says.
TickOver == [IdleTick EXCEPT !.n = tick.n, !.refused = tick.refused]

SweepDiscovers ==
    /\ tick.pc = "discover"
    /\ Discovers(Chosen, Chosen)
    /\ tick' = [tick EXCEPT !.pc = "targets"]
    /\ UNCHANGED <<automationOn, status, latch, sweepClock>>

\* The menu cannot be read, or the replacement broke on a kept row: sweepFailed
\* without the latch, because the menu and the pages are read without a pacer.
SweepDiscoverFails ==
    /\ tick.pc = "discover"
    /\ tick' = TickOver
    /\ UNCHANGED <<automationOn, listing, status, place, latch, sweepClock>>

\* auctionsToSweep: listed at a chosen location, not stored as ready, soonest to close
\* first, up to a limit.
ToSweep(a) == listing[a] \in Chosen /\ status[a] # "ready"
AuctionsToSweep ==
    LET upTo[n \in 0..Len(ClosingOrder)] ==
          IF n = 0 THEN <<>>
          ELSE IF ToSweep(ClosingOrder[n]) /\ Len(upTo[n - 1]) < MaxAuctionsPerSweep
               THEN Append(upTo[n - 1], ClosingOrder[n]) ELSE upTo[n - 1]
    IN  upTo[Len(ClosingOrder)]

SweepTargets ==
    /\ tick.pc = "targets"
    /\ tick' = IF AuctionsToSweep = <<>> THEN TickOver
               ELSE [tick EXCEPT !.pc = "next", !.targets = AuctionsToSweep]
    /\ UNCHANGED <<automationOn, listing, status, place, latch, sweepClock>>

\* mutant: the cap is tested one lot late
PastCap == tick.lots > MaxNewLotsPerSweep

AtCap == tick.lots >= MaxNewLotsPerSweep

\* The next target: upsertAuction, unless the tick has read its share.
NextAuction ==
    /\ tick.pc = "next"
    /\ IF tick.targets = <<>> \/ AtCap
       THEN tick' = TickOver /\ UNCHANGED <<status>>
       ELSE LET a == Head(tick.targets) IN
            /\ status' = [status EXCEPT ![a] = "collecting"]
            /\ tick' = [tick EXCEPT !.pc = "enumerate", !.cur = a, !.got = 0,
                                    !.targets = Tail(tick.targets), !.consecutive = 0]
    /\ UNCHANGED <<automationOn, listing, place, latch, sweepClock>>

\* collectAuction's failure: failAuction.  A refusal ends the tick and sets the latch
\* (sweepFailed); after anything else the tick goes on with the next auction.
CollectFails(err) ==
    /\ status' = [status EXCEPT ![tick.cur] = "failed"]
    /\ IF err = "throttled"
       THEN tick' = TickOver /\ latch' = sweepClock + ThrottleHold
       ELSE /\ tick' = [tick EXCEPT !.pc = "next", !.cur = NoAuction, !.left = 0, !.got = 0]
            /\ UNCHANGED latch

\* enumerateLots and the lot cap; a gallery without lots fails the auction.
Enumerate ==
    /\ tick.pc = "enumerate"
    /\ LET listed == Min({GalleryLots[tick.cur], MaxLotsPerAuction}) IN
       IF listed = 0 THEN CollectFails("no lots")
       ELSE tick' = [tick EXCEPT !.pc = "item", !.left = listed] /\ UNCHANGED <<status, latch>>
    /\ UNCHANGED <<automationOn, listing, place, sweepClock>>

\* A session or page that cannot be opened, or the transaction that fails.
HarvestFails ==
    /\ tick.pc \in {"enumerate", "store"} /\ CollectFails("failed")
    /\ UNCHANGED <<automationOn, listing, place, sweepClock>>

\* pacer.observe: the refusals of this pacer in a row.
Observed(reply) == IF reply = "refused" THEN tick.consecutive + 1 ELSE 0

\* What fetchItemData returns for a reply of the site or the host.
ItemError(reply) ==
    IF reply = "refused" /\ Observed(reply) >= RateLimitMax THEN "throttled" ELSE reply

\* mutant: the stop the documentation describes
StopOnThrottle(err) == err \in {"disabled", "throttled"}

\* stopCollect: the errors of one lot that end the collection.
StopCollect(err) == err = "disabled"

\* One lot's ItemData and its photos; a lot that cannot be read is skipped.
ReadItem(reply) ==
    /\ tick.pc = "item"
    /\ IF StopCollect(ItemError(reply))
       THEN CollectFails(ItemError(reply))
       ELSE /\ tick' = [tick EXCEPT !.left = tick.left - 1,
                            !.got = IF reply = "ok" THEN tick.got + 1 ELSE tick.got,
                            !.consecutive = Observed(reply),
                            !.refused = tick.refused \/ ItemError(reply) = "throttled",
                            !.pc = IF tick.left = 1 THEN "store" ELSE "item"]
            /\ UNCHANGED <<status, latch>>
    /\ UNCHANGED <<automationOn, listing, place, sweepClock>>

\* storeCollected: ready, whatever was skipped, and stamped with its location.
StoreCollected ==
    /\ tick.pc = "store"
    /\ status' = [status EXCEPT ![tick.cur] = "ready"]
    /\ place' = [place EXCEPT ![tick.cur] = Stamped(tick.cur, listing)]
    /\ tick' = [tick EXCEPT !.pc = "next", !.lots = tick.lots + tick.got, !.cur = NoAuction, !.got = 0]
    /\ UNCHANGED <<automationOn, listing, latch, sweepClock>>

\* The job is cancelled: the context is done, so nothing more is written, and an
\* auction being collected stays "collecting".
SweepCancelled ==
    /\ tick.pc # "idle" /\ tick' = TickOver
    /\ UNCHANGED <<automationOn, listing, status, place, latch, sweepClock>>

-----------------------------------------------------------------------------
(* The people and the clock.                                               *)

ConfigureAutomation ==
    /\ automationOn' = ~automationOn
    /\ UNCHANGED <<listing, status, place, latch, sweepClock, tick>>

\* handleResumeAutomation.
ResumeAutomation ==
    /\ latch' = 0 /\ tick' = [tick EXCEPT !.refused = FALSE]
    /\ UNCHANGED <<automationOn, listing, status, place, sweepClock>>

\* cleanupExpired: the listings that have ended go.
CleanupSites(a) ==
    /\ listing[a] # NoLocation /\ listing' = [listing EXCEPT ![a] = NoLocation]
    /\ UNCHANGED <<automationOn, status, place, latch, sweepClock, tick>>

\* handleDeleteAuction.
DeleteStored(a) ==
    /\ status[a] # "none"
    /\ status' = [status EXCEPT ![a] = "none"]
    /\ place' = [place EXCEPT ![a] = NoLocation]
    /\ UNCHANGED <<automationOn, listing, latch, sweepClock, tick>>

SweepClock ==
    /\ sweepClock < MaxSweepClock /\ sweepClock' = sweepClock + 1
    /\ UNCHANGED <<automationOn, listing, status, place, latch, tick>>

SweepNext ==
    \/ DiscoverJob \/ SweepStarts \/ SweepDiscovers \/ SweepDiscoverFails \/ SweepTargets
    \/ NextAuction \/ Enumerate \/ HarvestFails \/ StoreCollected \/ SweepCancelled
    \/ \E reply \in {"ok", "bad", "refused", "disabled"} : ReadItem(reply)
    \/ ConfigureAutomation \/ ResumeAutomation \/ SweepClock
    \/ \E a \in BidrlAuction : CleanupSites(a) \/ DeleteStored(a)

SweepSpec == SweepInit /\ [][SweepNext]_sweepVars

-----------------------------------------------------------------------------
(* Properties.                                                             *)

\* A tick stops asking for auctions once it has read MaxNewLotsPerSweep lots, so it
\* stores at most one auction more than its share (sweepJob's loop).
TickBounded == tick.lots < MaxNewLotsPerSweep + MaxLotsPerAuction

\* Only the locations a sweep chose lose listings to it, and a stored auction never
\* forgets where it is while it is stored, however its listing comes and goes
\* (replaceAffiliateAuctions, stampAuctionLocation).
SweepKeeps ==
    [][ /\ tick.pc = "discover" /\ tick'.pc = "targets" =>
              \A a \in BidrlAuction :
                  listing[a] \notin Chosen \cup {NoLocation} => listing'[a] = listing[a]
        /\ \A a \in BidrlAuction :
              place[a] # NoLocation /\ status'[a] # "none" => place'[a] # NoLocation ]_sweepVars

\* A tick stays within its share and loses nothing it was not sent for.
SweepHolds == [](SweepTypeOK /\ TickBounded) /\ SweepKeeps

\* What docs/plugins/bidrl.md says: three consecutive refusals on a tick set the
\* latch.  The code does not: stopCollect lets the refusal pass as a skipped lot.
RefusalsLatch == tick.pc = "idle" /\ tick.refused => latch # 0

=============================================================================
