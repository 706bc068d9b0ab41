---------------------------- MODULE PluginProofs ----------------------------
(***************************************************************************)
(* Proofs about the plugins.  The auction plugin: the bids on stored lots  *)
(* (BidrlBids), the warnings before a saved lot closes (BidrlWarn), the    *)
(* catalog of an auction (BidrlCatalog), the live feed (BidrlLive), the    *)
(* searches it keeps (BidrlAsk), a watchlist with its funnel (BidrlWatch)  *)
(* and the sweep (BidrlSweep), for every number of lots, readers, jobs and *)
(* requests.  The utility plugin: its sync (Tid), for every calendar and   *)
(* every answer of the portal.                                             *)
(***************************************************************************)
EXTENDS BidrlBids, BidrlWarn, BidrlCatalog, BidrlLive, BidrlAsk, BidrlWatch, BidrlSweep, Tid, FiniteSetTheorems,
        SequenceTheorems, WellFoundedInduction, TLAPS

(***************************************************************************)
(* The least and the greatest element of a set of numbers.                 *)
(***************************************************************************)

(* A set of numbers that is not empty has a least element, the one Min chooses. *)
LEMMA LeastFacts ==
    ASSUME NEW S \in SUBSET Nat, S # {}
    PROVE  Min(S) \in S /\ \A y \in S : Min(S) <= y
<1>1. PICK x \in S : \A y \in S : ~ (<<y, x>> \in OpToRel(<, Nat))
  BY NatLessThanWellFounded, WFMin
<1>2. \A y \in S : ~ (y < x)
  BY <1>1 DEF OpToRel
<1>3. \E z \in S : \A y \in S : z =< y
  BY <1>2
<1>4. QED
  BY <1>3 DEF Min

(* A bounded set of numbers that is not empty has a greatest element. *)
LEMMA GreatestFacts ==
    ASSUME NEW S \in SUBSET Nat, S # {}, NEW n \in Nat, \A s \in S : s <= n
    PROVE  Max(S) \in S /\ \A y \in S : Max(S) >= y
<1> DEFINE T == {n - s : s \in S}
<1>1. T \in SUBSET Nat /\ T # {}
  <2>1. \A s \in S : n - s \in Nat
    OBVIOUS
  <2>2. PICK s \in S : TRUE
    OBVIOUS
  <2> QED
    BY ONLY <2>1, <2>2
<1>2. Min(T) \in T /\ \A y \in T : Min(T) <= y
  <2> HIDE DEF T
  <2> QED BY <1>1, LeastFacts
<1>3. PICK x \in S : Min(T) = n - x
  BY <1>2
<1>4. \A y \in S : x >= y
  <2> SUFFICES ASSUME NEW y \in S PROVE x >= y
    OBVIOUS
  <2>1. n - y \in T
    OBVIOUS
  <2>2. n - x <= n - y
    BY <1>2, <1>3, <2>1
  <2> QED BY <2>2
<1>5. QED
  BY <1>4 DEF Max

-----------------------------------------------------------------------------
(***************************************************************************)
(* The bids on stored lots.                                                *)
(***************************************************************************)

LotSite == [bid : 0 .. MaxBid, bidder : Bidder \cup {Nobody}, ends : Closes]
LotBid == [bid : 0 .. MaxBid, id : Bidder \cup {Nobody}, name : Bidder \cup {Nobody},
           ends : Closes, at : 0 .. MaxBidClock]
SiteRead == [pc : {"idle", "rows", "auction"}, kind : {"feed", "catalog", "lot", "enrich"},
             snap : [BLot -> Snap], left : SUBSET BLot]

(* The state, with the domains of its functions; every bid has moved its    *)
(* lot's close by the same amount; a reader at work has a lot to read.      *)
BidsTyped ==
    /\ site \in [BLot -> LotSite] /\ bidRow \in [BLot -> LotBid]
    /\ reader \in [SiteReader -> SiteRead]
    /\ auctionEnds \in Closes /\ bidClock \in 0 .. MaxBidClock /\ reads \in 0 .. MaxReads
    /\ \A l \in BLot : site[l].ends = MaxBidClock + site[l].bid * SoftClose
    /\ \A r \in SiteReader : reader[r].pc # "idle" => BLot # {}

(* A name goes with its id, in the rows and in the answers on their way. *)
Matches(x) == x.name # Nobody => x.name = x.id
BidsInv ==
    /\ BidsTyped
    /\ \A l \in BLot : Matches(bidRow[l])
    /\ \A r \in SiteReader, l \in BLot : Matches(reader[r].snap[l])

LEMMA BidsNumbers ==
    /\ MaxBid \in Nat /\ MaxBidClock \in Nat /\ MaxReads \in Nat /\ SoftClose \in Nat
    /\ MaxBid * SoftClose \in Nat /\ 0 \in Closes
    /\ MaxBidClock \in Closes
    /\ \A b \in 0 .. MaxBid : MaxBidClock + b * SoftClose \in Closes
<1>1. MaxBid \in Nat /\ MaxBidClock \in Nat /\ MaxReads \in Nat /\ SoftClose \in Nat
  BY BidsAssumption
<1>2. MaxBid * SoftClose \in Nat
  BY <1>1
<1>3. \A b \in 0 .. MaxBid : b * SoftClose \in Nat /\ b * SoftClose <= MaxBid * SoftClose
  <2> SUFFICES ASSUME NEW b \in 0 .. MaxBid
               PROVE  b * SoftClose \in Nat /\ b * SoftClose <= MaxBid * SoftClose
    OBVIOUS
  <2>1. PICK c \in Nat : MaxBid = b + c
    <3>1. MaxBid - b \in Nat /\ MaxBid = b + (MaxBid - b)
      BY <1>1
    <3> QED
      BY <3>1
  <2>2. MaxBid * SoftClose = b * SoftClose + c * SoftClose
    BY <1>1, <2>1
  <2>3. b * SoftClose \in Nat /\ c * SoftClose \in Nat
    BY <1>1, <2>1
  <2> HIDE DEF Closes
  <2> QED
    BY <2>2, <2>3
<1>4. 0 \in Closes /\ MaxBidClock \in Closes
  BY <1>1, <1>2 DEF Closes
<1>5. \A b \in 0 .. MaxBid : MaxBidClock + b * SoftClose \in Closes
  BY <1>1, <1>2, <1>3 DEF Closes
<1> QED
  BY <1>1, <1>2, <1>4, <1>5

LEMMA IdleReads ==
    /\ NoSnap \in Snap /\ Matches(NoSnap)
    /\ IdleReader \in SiteRead /\ IdleReader.pc = "idle" /\ IdleReader.snap = [l \in BLot |-> NoSnap]
<1>1. NoSnap \in Snap /\ Matches(NoSnap)
  BY BidsNumbers DEF NoSnap, Snap, Matches
<1> QED
  BY <1>1 DEF IdleReader, SiteRead

LEMMA BidsInvInit == BidsInit => BidsInv
<1> SUFFICES ASSUME BidsInit PROVE BidsInv
  OBVIOUS
<1>1. PICK b \in Bidder \cup {Nobody} :
        /\ site = [l \in BLot |-> [bid |-> 0, bidder |-> b, ends |-> MaxBidClock]]
        /\ bidRow = [l \in BLot |-> [bid |-> 0, id |-> b, name |-> b, ends |-> MaxBidClock, at |-> 0]]
  BY DEF BidsInit
<1>2. site \in [BLot -> LotSite] /\ \A l \in BLot : site[l].bid = 0 /\ site[l].ends = MaxBidClock
  BY <1>1, BidsNumbers DEF LotSite
<1>3. bidRow \in [BLot -> LotBid] /\ \A l \in BLot : Matches(bidRow[l])
  BY <1>1, BidsNumbers DEF LotBid, Matches
<1>4. \A l \in BLot : site[l].ends = MaxBidClock + site[l].bid * SoftClose
  BY <1>2, BidsNumbers
<1>5. reader \in [SiteReader -> SiteRead] /\ \A r \in SiteReader : reader[r].pc = "idle"
  BY IdleReads DEF BidsInit
<1>6. \A r \in SiteReader, l \in BLot : Matches(reader[r].snap[l])
  BY IdleReads DEF BidsInit
<1>7. auctionEnds \in Closes /\ bidClock \in 0 .. MaxBidClock /\ reads \in 0 .. MaxReads
  BY BidsNumbers DEF BidsInit
<1> QED
  BY <1>2, <1>3, <1>4, <1>5, <1>6, <1>7 DEF BidsInv, BidsTyped

(* One reader changes, to a state whose names go with their ids. *)
LEMMA ReaderKeeps ==
    ASSUME BidsInv, NEW r \in SiteReader, NEW x \in SiteRead, \A l \in BLot : Matches(x.snap[l]),
           BLot # {} \/ x.pc = "idle", reader' = [reader EXCEPT ![r] = x]
    PROVE  /\ reader' \in [SiteReader -> SiteRead]
           /\ \A q \in SiteReader : reader'[q].pc # "idle" => BLot # {}
           /\ \A q \in SiteReader, l \in BLot : Matches(reader'[q].snap[l])
<1>1. reader \in [SiteReader -> SiteRead]
  BY DEF BidsInv, BidsTyped
<1>2. \A q \in SiteReader : reader'[q] = IF q = r THEN x ELSE reader[q]
  BY <1>1
<1>3. reader' \in [SiteReader -> SiteRead]
  BY <1>1
<1>4. \A q \in SiteReader : reader'[q].pc # "idle" => BLot # {}
  BY <1>2 DEF BidsInv, BidsTyped
<1>5. \A q \in SiteReader, l \in BLot : Matches(reader'[q].snap[l])
  BY <1>2 DEF BidsInv
<1> QED
  BY <1>3, <1>4, <1>5

LEMMA SiteBidsKeeps == ASSUME BidsInv, NEW l \in BLot, NEW b \in Bidder, SiteBids(l, b) PROVE BidsInv'
<1> DEFINE x == [bid |-> site[l].bid + 1, bidder |-> b, ends |-> site[l].ends + SoftClose]
<1>1. /\ site' = [site EXCEPT ![l] = x] /\ site[l].bid < MaxBid
      /\ UNCHANGED <<bidRow, auctionEnds, bidClock, reader, reads>>
  BY DEF SiteBids
<1>2. /\ site \in [BLot -> LotSite] /\ site[l].bid \in 0 .. MaxBid
      /\ site[l].ends = MaxBidClock + site[l].bid * SoftClose
  BY DEF BidsInv, BidsTyped, LotSite
<1>3. site[l].bid + 1 \in 0 .. MaxBid
  BY <1>1, <1>2, BidsNumbers
<1>4. (site[l].bid + 1) * SoftClose = site[l].bid * SoftClose + SoftClose
  BY <1>2, BidsNumbers
<1>5. site[l].ends + SoftClose = MaxBidClock + (site[l].bid + 1) * SoftClose
  <2>1. site[l].bid * SoftClose \in Nat
    BY <1>2, BidsNumbers
  <2> QED
    BY <1>2, <1>4, <2>1, BidsNumbers
<1>6. site[l].ends + SoftClose \in Closes
  BY <1>3, <1>5, BidsNumbers
<1>7. x \in LotSite /\ x.ends = MaxBidClock + x.bid * SoftClose
  BY <1>3, <1>5, <1>6 DEF LotSite
<1> HIDE DEF x
<1>8. site' \in [BLot -> LotSite] /\ \A m \in BLot : site'[m] = IF m = l THEN x ELSE site[m]
  BY <1>1, <1>2, <1>7
<1>9. \A m \in BLot : site'[m].ends = MaxBidClock + site'[m].bid * SoftClose
  BY <1>7, <1>8 DEF BidsInv, BidsTyped
<1>10. BidsTyped'
  BY <1>1, <1>8, <1>9 DEF BidsInv, BidsTyped
<1>11. /\ \A m \in BLot : Matches(bidRow'[m])
       /\ \A r \in SiteReader, m \in BLot : Matches(reader'[r].snap[m])
  BY <1>1 DEF BidsInv
<1> QED
  BY <1>10, <1>11 DEF BidsInv, Matches

LEMMA ReadSiteKeeps ==
    ASSUME BidsInv, NEW r \in SiteReader, NEW l \in BLot, NEW dated \in BOOLEAN, NEW job \in BOOLEAN,
           NEW kind \in {"feed", "catalog", "lot", "enrich"}, ReadSite(r, kind, l, dated, job)
    PROVE  BidsInv'
<1> DEFINE ls == IF kind = "catalog" THEN BLot ELSE {l}
           snap == [m \in BLot |-> IF m \in ls THEN Reply(kind, m, dated) ELSE NoSnap]
           x == [pc |-> "rows", kind |-> kind, left |-> ls, snap |-> snap]
<1>1. /\ reader' = [reader EXCEPT ![r] = x] /\ reads < MaxReads /\ reads' = reads + 1
      /\ UNCHANGED <<site, bidRow, auctionEnds, bidClock>>
  BY DEF ReadSite
<1>2. \A m \in BLot : Reply(kind, m, dated) \in Snap /\ Matches(Reply(kind, m, dated))
  <2> SUFFICES ASSUME NEW m \in BLot
               PROVE  Reply(kind, m, dated) \in Snap /\ Matches(Reply(kind, m, dated))
    OBVIOUS
  <2>1. site[m] \in LotSite
    BY DEF BidsInv, BidsTyped
  <2> QED
    BY <2>1, BidsNumbers DEF Reply, Snap, LotSite, Matches
<1>3. snap \in [BLot -> Snap] /\ \A m \in BLot : Matches(snap[m])
  BY <1>2, IdleReads
<1>4. x \in SiteRead /\ \A m \in BLot : Matches(x.snap[m])
  <2> HIDE DEF snap
  <2> QED
    BY <1>3 DEF SiteRead
<1> HIDE DEF x
<1>5. /\ reader' \in [SiteReader -> SiteRead]
      /\ \A q \in SiteReader : reader'[q].pc # "idle" => BLot # {}
      /\ \A q \in SiteReader, m \in BLot : Matches(reader'[q].snap[m])
  BY <1>1, <1>4, ReaderKeeps
<1>6. reads' \in 0 .. MaxReads
  BY <1>1, BidsNumbers DEF BidsInv, BidsTyped
<1>7. BidsTyped'
  BY <1>1, <1>5, <1>6 DEF BidsInv, BidsTyped
<1>8. \A m \in BLot : Matches(bidRow'[m])
  BY <1>1 DEF BidsInv
<1> QED
  BY <1>5, <1>7, <1>8 DEF BidsInv, Matches

(* What a write makes of a row: the name is the id's, given or confirmed. *)
LEMMA RowAfter ==
    ASSUME NEW kind \in {"feed", "catalog", "lot", "enrich"}, NEW s \in Snap, NEW row \in LotBid,
           Matches(s), Matches(row), NEW at \in 0 .. MaxBidClock
    PROVE  LET x == [bid |-> s.bid, id |-> IdAfter(kind, s, row), name |-> NameAfter(kind, s, row),
                     ends |-> EndsAfter(kind, s, row), at |-> at]
           IN  x \in LotBid /\ Matches(x)
<1>1. NameAfter(kind, s, row) \in Bidder \cup {Nobody} /\ IdAfter(kind, s, row) \in Bidder \cup {Nobody}
  BY DEF NameAfter, IdAfter, Snap, LotBid
<1>2. NameAfter(kind, s, row) # Nobody => NameAfter(kind, s, row) = IdAfter(kind, s, row)
  BY DEF NameAfter, IdAfter, Matches
<1>3. EndsAfter(kind, s, row) \in Closes /\ s.bid \in 0 .. MaxBid
  BY DEF EndsAfter, Snap, LotBid
<1> QED
  BY <1>1, <1>2, <1>3 DEF LotBid, Matches

LEMMA WriteRowKeeps ==
    ASSUME BidsInv, NEW r \in SiteReader, NEW l \in BLot, WriteRow(r, l) PROVE BidsInv'
<1> DEFINE kind == reader[r].kind
           s == reader[r].snap[l]
           at == IF kind = "enrich" THEN bidRow[l].at ELSE bidClock
           x == [bid |-> s.bid, id |-> IdAfter(kind, s, bidRow[l]), name |-> NameAfter(kind, s, bidRow[l]),
                 ends |-> EndsAfter(kind, s, bidRow[l]), at |-> at]
           y == [reader[r] EXCEPT !.left = @ \ {l},
                                  !.pc = IF reader[r].left = {l} THEN "auction" ELSE "rows"]
<1>1. /\ bidRow' = [bidRow EXCEPT ![l] = x]
      /\ UNCHANGED <<site, auctionEnds, bidClock, reads>>
  BY DEF WriteRow
<1>2. /\ bidRow \in [BLot -> LotBid] /\ reader[r] \in SiteRead /\ reader \in [SiteReader -> SiteRead]
      /\ bidClock \in 0 .. MaxBidClock /\ bidRow[l] \in LotBid
  BY DEF BidsInv, BidsTyped
<1>3. reader' = [reader EXCEPT ![r] = y]
  BY <1>2 DEF WriteRow
<1>4. /\ kind \in {"feed", "catalog", "lot", "enrich"} /\ s \in Snap /\ at \in 0 .. MaxBidClock
      /\ Matches(s) /\ Matches(bidRow[l])
  <2>1. s \in Snap /\ kind \in {"feed", "catalog", "lot", "enrich"} /\ at \in 0 .. MaxBidClock
    BY <1>2 DEF SiteRead, LotBid
  <2> QED
    BY <2>1 DEF BidsInv
<1>5. x \in LotBid /\ Matches(x)
  <2> HIDE DEF kind, s, at
  <2> QED
    BY <1>2, <1>4, RowAfter
<1>6. y \in SiteRead /\ y.snap = reader[r].snap
  BY <1>2 DEF SiteRead
<1>7. \A m \in BLot : Matches(y.snap[m])
  <2> HIDE DEF y
  <2> QED
    BY <1>6 DEF BidsInv
<1> HIDE DEF x, y
<1>8. /\ reader' \in [SiteReader -> SiteRead]
      /\ \A q \in SiteReader : reader'[q].pc # "idle" => BLot # {}
      /\ \A q \in SiteReader, m \in BLot : Matches(reader'[q].snap[m])
  BY <1>3, <1>6, <1>7, ReaderKeeps
<1>9. bidRow' \in [BLot -> LotBid] /\ \A m \in BLot : bidRow'[m] = IF m = l THEN x ELSE bidRow[m]
  BY <1>1, <1>2, <1>5
<1>10. \A m \in BLot : Matches(bidRow'[m])
  BY <1>5, <1>9 DEF BidsInv
<1>11. BidsTyped'
  BY <1>1, <1>8, <1>9 DEF BidsInv, BidsTyped
<1> QED
  BY <1>8, <1>10, <1>11 DEF BidsInv, Matches

LEMMA ReaderEndsKeeps ==
    ASSUME BidsInv, NEW r \in SiteReader, WriteAuction(r) \/ ReaderStops(r) PROVE BidsInv'
<1>1. /\ reader' = [reader EXCEPT ![r] = IdleReader] /\ UNCHANGED <<site, bidRow, bidClock, reads>>
  BY DEF WriteAuction, ReaderStops
<1>2. /\ reader' \in [SiteReader -> SiteRead]
      /\ \A q \in SiteReader : reader'[q].pc # "idle" => BLot # {}
      /\ \A q \in SiteReader, m \in BLot : Matches(reader'[q].snap[m])
  <2>1. \A l \in BLot : Matches(IdleReader.snap[l])
    BY IdleReads
  <2> QED
    BY <1>1, <2>1, IdleReads, ReaderKeeps
<1>3. auctionEnds' \in Closes
  <2>1. CASE ReaderStops(r)
    BY <2>1 DEF ReaderStops, BidsInv, BidsTyped
  <2>2. CASE WriteAuction(r)
    <3> DEFINE S == {reader[r].snap[l].ends : l \in BLot}
               n == MaxBidClock + 1 + MaxBid * SoftClose
    <3>1. reader[r] \in SiteRead /\ BLot # {}
      BY <2>2 DEF WriteAuction, BidsInv, BidsTyped
    <3>2. \A l \in BLot : reader[r].snap[l].ends \in Closes
      BY <3>1 DEF SiteRead, Snap
    <3>3. n \in Nat
      BY BidsNumbers
    <3>4. S \subseteq Closes /\ S # {}
      BY <3>1, <3>2
    <3>5. S \in SUBSET Nat /\ \A e \in S : e <= n
      <4> HIDE DEF S
      <4> QED
        BY <3>3, <3>4 DEF Closes
    <3>6. Max(S) \in S
      <4> HIDE DEF S, n
      <4> QED
        BY <3>3, <3>4, <3>5, GreatestFacts
    <3>7. auctionEnds' \in {auctionEnds, Max(S)}
      <4> HIDE DEF n
      <4> QED
        BY <2>2 DEF WriteAuction
    <3> HIDE DEF S
    <3> QED
      BY <3>4, <3>6, <3>7 DEF BidsInv, BidsTyped
  <2> QED
    BY <2>1, <2>2
<1>4. BidsTyped'
  BY <1>1, <1>2, <1>3 DEF BidsInv, BidsTyped
<1>5. \A m \in BLot : Matches(bidRow'[m])
  BY <1>1 DEF BidsInv
<1> QED
  BY <1>2, <1>4, <1>5 DEF BidsInv, Matches

LEMMA BidsInvStep == BidsInv /\ [BidsNext]_bidsVars => BidsInv'
<1> SUFFICES ASSUME BidsInv, [BidsNext]_bidsVars PROVE BidsInv'
  OBVIOUS
<1>1. CASE \E l \in BLot, b \in Bidder : SiteBids(l, b)
  BY <1>1, SiteBidsKeeps
<1>2. CASE \E r \in SiteReader, l \in BLot, kind \in {"feed", "catalog", "lot", "enrich"},
              dated \in BOOLEAN, job \in BOOLEAN : ReadSite(r, kind, l, dated, job)
  BY <1>2, ReadSiteKeeps
<1>3. CASE \E r \in SiteReader, l \in BLot : WriteRow(r, l)
  BY <1>3, WriteRowKeeps
<1>4. CASE \E r \in SiteReader : WriteAuction(r) \/ ReaderStops(r)
  BY <1>4, ReaderEndsKeeps
<1>5. CASE BidsTick
  <2>1. bidClock' \in 0 .. MaxBidClock
    BY <1>5, BidsNumbers DEF BidsTick, BidsInv, BidsTyped
  <2> QED
    BY <1>5, <2>1 DEF BidsTick, BidsInv, BidsTyped, Matches
<1>6. CASE UNCHANGED bidsVars
  BY <1>6 DEF bidsVars, BidsInv, BidsTyped, Matches
<1> QED
  BY <1>1, <1>2, <1>3, <1>4, <1>5, <1>6 DEF BidsNext

LEMMA BidsInvMeans == BidsInv => NameBelongs
<1> SUFFICES ASSUME BidsInv PROVE NameBelongs
  OBVIOUS
<1>1. \A l \in BLot : site[l] \in LotSite /\ bidRow[l] \in LotBid
  BY DEF BidsInv, BidsTyped
<1>2. \A r \in SiteReader : reader[r] \in SiteRead
  BY DEF BidsInv, BidsTyped
<1>3. BidsTypeOK
  <2>1. \A l \in BLot :
          /\ site[l].bid \in 0 .. MaxBid /\ site[l].bidder \in Bidder \cup {Nobody}
          /\ site[l].ends \in Closes
          /\ bidRow[l].bid \in 0 .. MaxBid /\ bidRow[l].ends \in Closes
          /\ bidRow[l].id \in Bidder \cup {Nobody} /\ bidRow[l].name \in Bidder \cup {Nobody}
          /\ bidRow[l].at \in 0 .. MaxBidClock
    BY <1>1 DEF LotSite, LotBid
  <2>2. \A r \in SiteReader :
          /\ reader[r].pc \in {"idle", "rows", "auction"}
          /\ reader[r].kind \in {"feed", "catalog", "lot", "enrich"}
          /\ reader[r].snap \in [BLot -> Snap] /\ reader[r].left \subseteq BLot
    BY <1>2 DEF SiteRead
  <2> QED
    BY <2>1, <2>2 DEF BidsTypeOK, BidsInv, BidsTyped
<1> QED
  BY <1>3 DEF NameBelongs, BidsInv, Matches

(* applyCatalogBids keeps the winner's name only while the id confirms it:  *)
(* whichever readers write a row, and however late their answers are, the   *)
(* name in it is the name of the id in it.                                  *)
THEOREM NamesBelong == BidsSpec => []NameBelongs
<1>1. BidsSpec => []BidsInv
  BY BidsInvInit, BidsInvStep, PTL DEF BidsSpec
<1> QED
  BY <1>1, BidsInvMeans, PTL

-----------------------------------------------------------------------------
(***************************************************************************)
(* The warnings before a saved lot closes.                                 *)
(***************************************************************************)

WarnJobs == [pc : {"idle", "fire"}, due : [WLot -> LeadTimes \cup {0}], stages : SUBSET LeadTimes]

WarnTyped == WarnTypeOK /\ fired \in [WLot -> Seq(LeadTimes)]

(* Every stage alerted is recorded, and none was alerted twice. *)
AlertsRecorded ==
    \A l \in WLot : \A i \in 1 .. Len(fired[l]) :
        fired[l][i] \in marks[l] /\ \A j \in 1 .. Len(fired[l]) : i < j => fired[l][i] # fired[l][j]

(* Until the lead times are edited every job works with all of them, so     *)
(* that the wider stages of a recorded one are recorded.                    *)
WiderRecorded ==
    reconfigured = FALSE =>
        /\ leads = LeadTimes
        /\ \A w \in Warner : warner[w].pc = "fire" => warner[w].stages = LeadTimes
        /\ \A l \in WLot : \A s \in marks[l] : \A t \in LeadTimes : t >= s => t \in marks[l]

NarrowerFollow ==
    reconfigured = FALSE =>
        \A l \in WLot : \A i, j \in 1 .. Len(fired[l]) : i < j => fired[l][i] > fired[l][j]

(* A job picks from the lead times it read. *)
DueConfigured == \A w \in Warner : \A l \in WLot : warner[w].due[l] \in warner[w].stages \cup {0}

WarnInv == WarnTyped /\ AlertsRecorded /\ WiderRecorded /\ NarrowerFollow /\ DueConfigured

LEMMA IdleWarns ==
    IdleWarner \in WarnJobs /\ IdleWarner.pc = "idle" /\ \A l \in WLot : IdleWarner.due[l] = 0
  BY DEF IdleWarner, WarnJobs

LEMMA WarnFields ==
    ASSUME WarnTyped
    PROVE  /\ warner \in [Warner -> WarnJobs] /\ marks \in [WLot -> SUBSET LeadTimes]
           /\ fired \in [WLot -> Seq(LeadTimes)] /\ leads \subseteq LeadTimes
           /\ lotEnds \in [WLot -> 0 .. MaxWarnClock] /\ warnClock \in 0 .. MaxWarnClock
           /\ savedLots \subseteq WLot /\ reconfigured \in BOOLEAN
  BY DEF WarnTyped, WarnTypeOK, WarnJobs

LEMMA WarnTypedNext ==
    ASSUME lotEnds' \in [WLot -> 0 .. MaxWarnClock], savedLots' \subseteq WLot,
           leads' \subseteq LeadTimes, marks' \in [WLot -> SUBSET LeadTimes],
           warner' \in [Warner -> WarnJobs], warnClock' \in 0 .. MaxWarnClock,
           fired' \in [WLot -> Seq(LeadTimes)], reconfigured' \in BOOLEAN
    PROVE  WarnTyped'
  BY DEF WarnTyped, WarnTypeOK, WarnJobs

LEMMA WarnInvInit == WarnInit => WarnInv
<1> SUFFICES ASSUME WarnInit PROVE WarnInv
  OBVIOUS
<1>1. warner \in [Warner -> WarnJobs] /\ \A w \in Warner : warner[w].pc = "idle"
  BY IdleWarns DEF WarnInit
<1>2. fired \in [WLot -> Seq(LeadTimes)] /\ \A l \in WLot : Len(fired[l]) = 0
  BY DEF WarnInit
<1>3. WarnTyped
  <2>1. /\ lotEnds \in [WLot -> 0 .. MaxWarnClock] /\ marks \in [WLot -> SUBSET LeadTimes]
        /\ savedLots \subseteq WLot /\ leads \subseteq LeadTimes
    BY DEF WarnInit
  <2>2. warnClock \in 0 .. MaxWarnClock
    BY WarnAssumption DEF WarnInit
  <2>3. reconfigured \in BOOLEAN
    BY DEF WarnInit
  <2>4. \A l \in WLot : fired[l] \in Seq(LeadTimes)
    BY <1>2
  <2> QED
    BY <1>1, <1>2, <2>1, <2>2, <2>3, <2>4 DEF WarnTyped, WarnTypeOK, WarnJobs
<1>4. AlertsRecorded /\ NarrowerFollow
  BY <1>2 DEF AlertsRecorded, NarrowerFollow
<1>5. WiderRecorded
  BY <1>1 DEF WiderRecorded, WarnInit
<1>6. DueConfigured
  BY IdleWarns DEF DueConfigured, WarnInit
<1> QED
  BY <1>3, <1>4, <1>5, <1>6 DEF WarnInv

LEMMA DueStageType ==
    ASSUME WarnTyped, NEW l \in WLot
    PROVE  DueStage(l) \in LeadTimes \cup {0} /\ DueStage(l) \in leads \cup {0}
<1> DEFINE due == {s \in leads \ marks[l] : EndingWithin(l, s)}
<1>1. due \subseteq LeadTimes /\ due \subseteq leads /\ due \in SUBSET Nat
  BY WarnFields, WarnAssumption
<1>2. due # {} => Min(due) \in due
  <2> HIDE DEF due
  <2> QED
    BY <1>1, LeastFacts
<1>3. DueStage(l) = IF due = {} THEN 0 ELSE Min(due)
  BY DEF DueStage
<1> HIDE DEF due
<1> QED
  BY <1>1, <1>2, <1>3

(* A step of one job that alerts nobody: it reads, or it ends. *)
LEMMA WarnerMoves ==
    ASSUME WarnInv, NEW w \in Warner, NEW x \in WarnJobs, warner' = [warner EXCEPT ![w] = x],
           reconfigured = FALSE /\ x.pc = "fire" => x.stages = LeadTimes,
           \A l \in WLot : x.due[l] \in x.stages \cup {0},
           UNCHANGED <<lotEnds, savedLots, leads, marks, warnClock, fired, reconfigured>>
    PROVE  WarnInv'
<1>1. warner \in [Warner -> WarnJobs]
  BY WarnFields DEF WarnInv
<1>2. /\ warner' \in [Warner -> WarnJobs]
      /\ \A v \in Warner : warner'[v] = IF v = w THEN x ELSE warner[v]
  BY <1>1
<1>3. WarnTyped'
  BY <1>2, WarnFields, WarnTypedNext DEF WarnInv
<1>4. AlertsRecorded' /\ NarrowerFollow'
  BY DEF WarnInv, AlertsRecorded, NarrowerFollow
<1>5. WiderRecorded'
  BY <1>2 DEF WarnInv, WiderRecorded
<1>6. DueConfigured'
  BY <1>2 DEF WarnInv, DueConfigured
<1> QED
  BY <1>3, <1>4, <1>5, <1>6 DEF WarnInv

LEMMA WarnReadsKeeps == ASSUME WarnInv, NEW w \in Warner, WarnReads(w) PROVE WarnInv'
<1> DEFINE d == [l \in WLot |-> IF l \in savedLots THEN DueStage(l) ELSE 0]
           x == [pc |-> "fire", stages |-> leads, due |-> d]
<1>1. /\ warner' = [warner EXCEPT ![w] = x]
      /\ UNCHANGED <<lotEnds, savedLots, leads, marks, warnClock, fired, reconfigured>>
  BY DEF WarnReads
<1>2. d \in [WLot -> LeadTimes \cup {0}] /\ \A l \in WLot : d[l] \in leads \cup {0}
  BY DueStageType DEF WarnInv
<1>3. x \in WarnJobs /\ x.stages = leads /\ \A l \in WLot : x.due[l] \in x.stages \cup {0}
  <2> HIDE DEF d
  <2> QED
    BY <1>2, WarnFields DEF WarnJobs, WarnInv
<1>4. reconfigured = FALSE => x.stages = LeadTimes
  BY <1>3 DEF WarnInv, WiderRecorded
<1> HIDE DEF x
<1> QED
  BY <1>1, <1>3, <1>4, WarnerMoves

LEMMA WarnEndsKeeps == ASSUME WarnInv, NEW w \in Warner, WarnEnds(w) PROVE WarnInv'
  BY IdleWarns, WarnerMoves DEF WarnEnds

(* The alert of a stage that nobody recorded: it is new and, while the lead *)
(* times stay, narrower than every one before.                              *)
LEMMA AlertIsNew ==
    ASSUME WarnInv, NEW w \in Warner, NEW l \in WLot, NEW stage \in LeadTimes, stage \notin marks[l],
           warner[w].pc = "fire"
    PROVE  /\ \A i \in 1 .. Len(fired[l]) : fired[l][i] # stage
           /\ reconfigured = FALSE => \A i \in 1 .. Len(fired[l]) : fired[l][i] > stage
<1>1. fired[l] \in Seq(LeadTimes) /\ LeadTimes \subseteq Nat
  BY WarnFields, WarnAssumption DEF WarnInv
<1>2. \A i \in 1 .. Len(fired[l]) : fired[l][i] \in marks[l] /\ fired[l][i] \in LeadTimes
  BY <1>1 DEF WarnInv, AlertsRecorded
<1>3. ASSUME reconfigured = FALSE, NEW i \in 1 .. Len(fired[l]) PROVE fired[l][i] > stage
  <2>1. fired[l][i] \in Nat /\ stage \in Nat
    BY <1>1, <1>2
  <2>2. ~ (stage >= fired[l][i])
    BY <1>2, <1>3 DEF WarnInv, WiderRecorded
  <2> QED
    BY <2>1, <2>2
<1> QED
  BY <1>2, <1>3

LEMMA WarnFiresKeeps ==
    ASSUME WarnInv, NEW w \in Warner, NEW l \in WLot, WarnFires(w, l) PROVE WarnInv'
<1> DEFINE stage == warner[w].due[l]
           x == [warner[w] EXCEPT !.due[l] = 0]
<1>0. /\ warner \in [Warner -> WarnJobs] /\ marks \in [WLot -> SUBSET LeadTimes]
      /\ fired \in [WLot -> Seq(LeadTimes)] /\ warner[w] \in WarnJobs
  BY WarnFields DEF WarnInv
<1>1. /\ warner[w].pc = "fire" /\ stage # 0
      /\ UNCHANGED <<lotEnds, savedLots, leads, warnClock, reconfigured>>
  BY DEF WarnFires
<1>2. warner' = [warner EXCEPT ![w] = x]
  BY <1>0 DEF WarnFires
<1>3. x \in WarnJobs /\ x.stages = warner[w].stages /\ x.pc = warner[w].pc
  BY <1>0 DEF WarnJobs
<1>4. stage \in LeadTimes /\ warner[w].stages \subseteq LeadTimes
  BY <1>0, <1>1 DEF WarnJobs
<1>8. \A m \in WLot : x.due[m] \in x.stages \cup {0}
  <2>1. \A m \in WLot : x.due[m] = IF m = l THEN 0 ELSE warner[w].due[m]
    BY <1>0 DEF WarnJobs
  <2> QED
    BY <1>3, <2>1 DEF WarnInv, DueConfigured
<1> HIDE DEF x
<1>5. reconfigured = FALSE => x.stages = LeadTimes
  BY <1>1, <1>3 DEF WarnInv, WiderRecorded
<1>6. CASE ~ First(l, stage)
  <2>1. UNCHANGED <<marks, fired>>
    BY <1>6 DEF WarnFires
  <2> QED
    BY <1>1, <1>2, <1>3, <1>5, <1>8, <2>1, WarnerMoves
<1>7. CASE First(l, stage)
  <2> DEFINE new == marks[l] \cup Overtaken(w, stage)
             log == Append(fired[l], stage)
  <2>1. marks' = [marks EXCEPT ![l] = new] /\ fired' = [fired EXCEPT ![l] = log]
    BY <1>7 DEF WarnFires
  <2>2. stage \notin marks[l]
    BY <1>7 DEF First
  <2>3. Overtaken(w, stage) \subseteq LeadTimes
    BY <1>4 DEF Overtaken
  <2>4. stage \in new /\ stage \in Nat
    <3>1. stage \in Nat
      BY <1>4, WarnAssumption
    <3>2. stage \in warner[w].stages
      BY <1>1 DEF WarnInv, DueConfigured
    <3> QED
      BY <3>1, <3>2 DEF Overtaken
  <2>5. new \in SUBSET LeadTimes /\ log \in Seq(LeadTimes)
    BY <1>0, <1>4, <2>3
  <2>6. /\ Len(log) = Len(fired[l]) + 1 /\ Len(fired[l]) \in Nat
        /\ \A i \in 1 .. Len(log) : log[i] = IF i <= Len(fired[l]) THEN fired[l][i] ELSE stage
    BY <1>0
  <2>7. reconfigured = FALSE => \A s \in new : \A t \in LeadTimes : t >= s => t \in new
    <3> SUFFICES ASSUME reconfigured = FALSE, NEW s \in new, NEW t \in LeadTimes, t >= s PROVE t \in new
      OBVIOUS
    <3>1. warner[w].stages = LeadTimes /\ \A u \in marks[l] : t >= u => t \in marks[l]
      BY <1>1 DEF WarnInv, WiderRecorded
    <3>2. CASE s \in marks[l]
      BY <3>1, <3>2
    <3>3. CASE s \in Overtaken(w, stage)
      <4>1. s >= stage /\ s \in LeadTimes
        BY <3>3, <2>3 DEF Overtaken
      <4>2. {s, t, stage} \subseteq Nat
        BY <4>1, <2>4, WarnAssumption
      <4>3. t >= stage
        BY <4>1, <4>2
      <4> QED
        BY <3>1, <4>3 DEF Overtaken
    <3> QED
      BY <3>2, <3>3
  <2>8. /\ \A i \in 1 .. Len(fired[l]) : fired[l][i] # stage
        /\ reconfigured = FALSE => \A i \in 1 .. Len(fired[l]) : fired[l][i] > stage
    BY <1>1, <1>4, <2>2, AlertIsNew
  <2>9. /\ \A m \in WLot : marks'[m] = IF m = l THEN new ELSE marks[m]
        /\ \A m \in WLot : fired'[m] = IF m = l THEN log ELSE fired[m]
        /\ marks' \in [WLot -> SUBSET LeadTimes] /\ fired' \in [WLot -> Seq(LeadTimes)]
    <3> HIDE DEF new, log
    <3> QED
      BY <1>0, <2>1, <2>5
  <2>10. marks[l] \subseteq new
    OBVIOUS
  <2>11. \A i \in 1 .. Len(fired[l]) : fired[l][i] \in marks[l]
    BY DEF WarnInv, AlertsRecorded
  <2> HIDE DEF new, log, stage
  <2>12. /\ warner' \in [Warner -> WarnJobs]
         /\ \A v \in Warner : warner'[v] = IF v = w THEN x ELSE warner[v]
    BY <1>0, <1>2, <1>3
  <2>13. WarnTyped'
    BY <1>1, <2>9, <2>12, WarnFields, WarnTypedNext DEF WarnInv
  <2>14. \A i \in 1 .. Len(log) :
           log[i] \in new /\ \A j \in 1 .. Len(log) : i < j => log[i] # log[j]
    <3> SUFFICES ASSUME NEW i \in 1 .. Len(log)
                 PROVE  log[i] \in new /\ \A j \in 1 .. Len(log) : i < j => log[i] # log[j]
      OBVIOUS
    <3>1. log[i] \in new
      BY <2>4, <2>6, <2>10, <2>11
    <3>2. ASSUME NEW j \in 1 .. Len(log), i < j PROVE log[i] # log[j]
      <4>1. i \in 1 .. Len(fired[l]) /\ log[i] = fired[l][i]
        BY <2>6, <3>2
      <4>2. CASE j <= Len(fired[l])
        <5>1. j \in 1 .. Len(fired[l]) /\ log[j] = fired[l][j]
          BY <2>6, <4>2
        <5> QED
          BY <3>2, <4>1, <5>1 DEF WarnInv, AlertsRecorded
      <4>3. CASE ~ (j <= Len(fired[l]))
        BY <2>6, <2>8, <4>1, <4>3
      <4> QED
        BY <4>2, <4>3
    <3> QED
      BY <3>1, <3>2
  <2>15. AlertsRecorded'
    <3> SUFFICES ASSUME NEW m \in WLot
                 PROVE  \A i \in 1 .. Len(fired'[m]) :
                           /\ fired'[m][i] \in marks'[m]
                           /\ \A j \in 1 .. Len(fired'[m]) : i < j => fired'[m][i] # fired'[m][j]
      BY DEF AlertsRecorded
    <3>1. CASE m = l
      <4>1. fired'[m] = log /\ marks'[m] = new
        BY <2>9, <3>1
      <4> QED
        BY <2>14, <4>1
    <3>2. CASE m # l
      <4>1. fired'[m] = fired[m] /\ marks'[m] = marks[m]
        BY <2>9, <3>2
      <4> QED
        BY <4>1 DEF WarnInv, AlertsRecorded
    <3> QED
      BY <3>1, <3>2
  <2>16. WiderRecorded'
    BY <1>1, <1>5, <2>7, <2>9, <2>12 DEF WarnInv, WiderRecorded
  <2>17. reconfigured = FALSE => \A i, j \in 1 .. Len(log) : i < j => log[i] > log[j]
    <3> SUFFICES ASSUME reconfigured = FALSE, NEW i \in 1 .. Len(log), NEW j \in 1 .. Len(log), i < j
                 PROVE  log[i] > log[j]
      OBVIOUS
    <3>1. i \in 1 .. Len(fired[l]) /\ log[i] = fired[l][i]
      BY <2>6
    <3>2. CASE j <= Len(fired[l])
      <4>1. j \in 1 .. Len(fired[l]) /\ log[j] = fired[l][j]
        BY <2>6, <3>2
      <4> QED
        BY <3>1, <4>1 DEF WarnInv, NarrowerFollow
    <3>3. CASE ~ (j <= Len(fired[l]))
      BY <2>6, <2>8, <3>1, <3>3
    <3> QED
      BY <3>2, <3>3
  <2>18. NarrowerFollow'
    BY <1>1, <2>9, <2>17 DEF WarnInv, NarrowerFollow
  <2>20. DueConfigured'
    BY <2>12, <1>8 DEF WarnInv, DueConfigured
  <2> QED
    BY <2>13, <2>15, <2>16, <2>18, <2>20 DEF WarnInv
<1> QED
  BY <1>6, <1>7

LEMMA WarnInvStep == WarnInv /\ [WarnNext]_warnVars => WarnInv'
<1> SUFFICES ASSUME WarnInv, [WarnNext]_warnVars PROVE WarnInv'
  OBVIOUS
<1>0. WarnTyped
  BY DEF WarnInv
<1>1. CASE \E w \in Warner : WarnReads(w) \/ WarnEnds(w)
  BY <1>1, WarnReadsKeeps, WarnEndsKeeps
<1>2. CASE \E w \in Warner, l \in WLot : WarnFires(w, l)
  BY <1>2, WarnFiresKeeps
<1>3. CASE \/ \E l \in WLot : SaveLot(l) \/ CloseMoves(l)
           \/ WarnTick \/ UNCHANGED warnVars
  <2>1. UNCHANGED <<leads, marks, warner, fired, reconfigured>>
    BY <1>3 DEF SaveLot, CloseMoves, WarnTick, warnVars
  <2>2. /\ lotEnds' \in [WLot -> 0 .. MaxWarnClock] /\ savedLots' \subseteq WLot
        /\ warnClock' \in 0 .. MaxWarnClock
    <3>1. CASE \E l \in WLot : SaveLot(l)
      BY <1>0, <3>1, WarnFields DEF SaveLot
    <3>2. CASE \E l \in WLot : CloseMoves(l)
      <4>1. PICK l \in WLot : CloseMoves(l)
        BY <3>2
      <4>2. lotEnds[l] + 1 \in 0 .. MaxWarnClock
        BY <1>0, <4>1, WarnFields, WarnAssumption DEF CloseMoves
      <4> QED
        BY <1>0, <4>1, <4>2, WarnFields DEF CloseMoves
    <3>3. CASE WarnTick
      BY <1>0, <3>3, WarnFields, WarnAssumption DEF WarnTick
    <3>4. CASE UNCHANGED warnVars
      BY <1>0, <3>4, WarnFields DEF warnVars
    <3> QED
      BY <1>3, <3>1, <3>2, <3>3, <3>4
  <2>3. WarnTyped'
    BY <1>0, <2>1, <2>2, WarnFields, WarnTypedNext
  <2> QED
    BY <2>1, <2>3 DEF WarnInv, AlertsRecorded, WiderRecorded, NarrowerFollow, DueConfigured
<1>4. CASE \E ls \in SUBSET LeadTimes : ConfigureLeads(ls)
  <2>1. /\ reconfigured' = TRUE /\ leads' \subseteq LeadTimes
        /\ UNCHANGED <<lotEnds, savedLots, marks, warner, warnClock, fired>>
    BY <1>4 DEF ConfigureLeads
  <2>2. WarnTyped'
    BY <1>0, <2>1, WarnFields, WarnTypedNext
  <2> QED
    BY <2>1, <2>2 DEF WarnInv, AlertsRecorded, WiderRecorded, NarrowerFollow, DueConfigured
<1> QED
  BY <1>1, <1>2, <1>3, <1>4 DEF WarnNext

LEMMA WarnInvMeans == WarnInv => WarnedOnce
<1> SUFFICES ASSUME WarnInv, NEW l \in WLot, NEW i \in DOMAIN fired[l], NEW j \in DOMAIN fired[l], i < j
             PROVE  IF reconfigured THEN fired[l][i] # fired[l][j] ELSE fired[l][i] > fired[l][j]
  BY DEF WarnedOnce, WarnInv, WarnTyped
<1>1. DOMAIN fired[l] = 1 .. Len(fired[l]) /\ reconfigured \in BOOLEAN
  BY WarnFields DEF WarnInv
<1>2. fired[l][i] # fired[l][j]
  BY <1>1 DEF WarnInv, AlertsRecorded
<1>3. reconfigured = FALSE => fired[l][i] > fired[l][j]
  BY <1>1 DEF WarnInv, NarrowerFollow
<1> QED
  BY <1>1, <1>2, <1>3

(* warnJob records a stage and the wider ones it overtakes in the            *)
(* transaction that alerts: no stage of a lot is alerted twice and, until    *)
(* the lead times are edited, no wider one after a narrower one, for any     *)
(* number of overlapping jobs.                                               *)
THEOREM WarningsComeOnce == WarnSpec => []WarnedOnce
<1>1. WarnSpec => []WarnInv
  BY WarnInvInit, WarnInvStep, PTL DEF WarnSpec
<1> QED
  BY <1>1, WarnInvMeans, PTL

-----------------------------------------------------------------------------
(***************************************************************************)
(* The catalog of an auction.                                              *)
(***************************************************************************)

Collects == [pc : {"idle", "harvest", "report"}, got : [CLot -> {Unread, "skipped", "bare", "photo"}]]
Removes == [pc : {"idle", "readLots", "plan", "keys", "tx", "photos"}, kind : {"delete", "cleanup"},
            auction : AuctionRows, whole : BOOLEAN, drop : SUBSET CLot, cur : SUBSET CLot,
            keys : SUBSET CLot, pinned : SUBSET CLot]
Enriches == [pc : {"idle", "update", "count", "insert"}, lot : CLot]

CatalogTyped ==
    /\ auction \in AuctionRows /\ lotRow \in [CLot -> LotRows]
    /\ blobs \subseteq CLot /\ saved \subseteq CLot /\ found \subseteq CLot /\ saving \subseteq CLot
    /\ collector \in [Collector -> Collects] /\ remover \in [Remover -> Removes]
    /\ enriching \in Enriches /\ starts \in 0 .. MaxStarts

(* A request to remove what has ended keeps away from the lots pinned since *)
(* it read them: they are not in its plan, and while there are any the plan *)
(* is not the whole auction.  What it deletes now comes from the plan.      *)
Spares(r) ==
    r.kind = "cleanup" =>
        /\ r.whole = TRUE => r.pinned = {}
        /\ r.drop \cap r.pinned = {}
        /\ r.pc = "tx" /\ r.whole = FALSE => r.cur \subseteq r.drop

CatalogInv ==
    CatalogTyped /\ (\A k \in Remover : Spares(remover[k])) /\ lostPinned = {}

LEMMA IdleCatalog ==
    /\ IdleCollector \in Collects /\ IdleEnrich \in Enriches
    /\ IdleRemover \in Removes /\ Spares(IdleRemover)
    /\ NoAuctionRow \in AuctionRows /\ NoLotRow \in LotRows
<1>1. NoAuctionRow \in AuctionRows /\ NoLotRow \in LotRows
  BY DEF NoAuctionRow, AuctionRows, NoLotRow, LotRows, Closing
<1>2. IdleCollector \in Collects
  BY DEF IdleCollector, Collects
<1>3. IdleEnrich \in Enriches
  <2>1. (CHOOSE l \in CLot : TRUE) \in CLot
    BY CatalogAssumption
  <2> QED
    BY <2>1 DEF IdleEnrich, Enriches
<1>4. IdleRemover \in Removes /\ Spares(IdleRemover)
  BY <1>1 DEF IdleRemover, Removes, Spares
<1> QED
  BY <1>1, <1>2, <1>3, <1>4

LEMMA CatalogInvInit == CatalogInit => CatalogInv
<1> SUFFICES ASSUME CatalogInit PROVE CatalogInv
  OBVIOUS
<1>1. auction \in AuctionRows
  <2>1. [row |-> TRUE, status |-> "ready", hidden |-> FALSE, closes |-> "open"] \in AuctionRows
    BY DEF AuctionRows, Closing
  <2> QED
    BY <2>1, IdleCatalog DEF CatalogInit
<1>2. lotRow \in [CLot -> LotRows]
  <2>1. [row |-> TRUE, closes |-> "open", image |-> TRUE] \in LotRows
    BY DEF LotRows, Closing
  <2> QED
    BY <2>1, IdleCatalog DEF CatalogInit
<1>3. blobs \subseteq CLot /\ saved \subseteq CLot /\ found \subseteq CLot /\ saving \subseteq CLot
  BY DEF CatalogInit
<1>4. collector \in [Collector -> Collects] /\ enriching \in Enriches
  BY IdleCatalog DEF CatalogInit
<1>5. remover \in [Remover -> Removes] /\ \A k \in Remover : Spares(remover[k])
  BY IdleCatalog DEF CatalogInit
<1>6. starts \in 0 .. MaxStarts
  BY CatalogAssumption DEF CatalogInit
<1>7. lostPinned = {}
  BY DEF CatalogInit
<1> QED
  BY <1>1, <1>2, <1>3, <1>4, <1>5, <1>6, <1>7 DEF CatalogInv, CatalogTyped

(* Steps that leave the removers and what they lost alone. *)
LEMMA RemoversRest ==
    ASSUME CatalogInv, CatalogTyped', UNCHANGED <<remover, lostPinned>> PROVE CatalogInv'
<1>1. \A k \in Remover : Spares(remover'[k])
  BY DEF CatalogInv
<1> QED
  BY <1>1 DEF CatalogInv, Spares

(* The step of one remover. *)
LEMMA RemoverMoves ==
    ASSUME CatalogInv, NEW k \in Remover, NEW x \in Removes, Spares(x),
           remover' = [remover EXCEPT ![k] = x]
    PROVE  remover' \in [Remover -> Removes] /\ \A j \in Remover : Spares(remover'[j])
<1>1. remover \in [Remover -> Removes]
  BY DEF CatalogInv, CatalogTyped
<1>2. \A j \in Remover : remover'[j] = IF j = k THEN x ELSE remover[j]
  BY <1>1
<1>3. \A j \in Remover : Spares(remover'[j])
  BY <1>2 DEF CatalogInv
<1> QED
  BY <1>1, <1>3

(* Every remover may lose some of the lots pinned since it read them. *)
LEMMA LessPinned ==
    ASSUME NEW r \in Removes, Spares(r), NEW S
    PROVE  LET x == [r EXCEPT !.pinned = @ \ S] IN x \in Removes /\ Spares(x)
<1> DEFINE x == [r EXCEPT !.pinned = @ \ S]
<1>1. /\ x \in Removes /\ x.kind = r.kind /\ x.whole = r.whole /\ x.drop = r.drop /\ x.cur = r.cur
      /\ x.pc = r.pc /\ x.pinned = r.pinned \ S
  BY DEF Removes
<1> HIDE DEF x
<1>2. Spares(x)
  BY <1>1 DEF Spares
<1>3. x \in Removes /\ Spares(x)
  BY <1>1, <1>2
<1> QED
  BY <1>3 DEF x

(* A change of the auction's row. *)
LEMMA AuctionEdits ==
    ASSUME NEW a \in AuctionRows, NEW c \in Closing
    PROVE  /\ \A st \in {"collecting", "ready", "failed"} : [a EXCEPT !.status = st] \in AuctionRows
           /\ [a EXCEPT !.row = TRUE, !.status = "collecting", !.hidden = FALSE] \in AuctionRows
           /\ [a EXCEPT !.status = "ready", !.closes = c] \in AuctionRows
           /\ [a EXCEPT !.closes = c] \in AuctionRows
           /\ [a EXCEPT !.hidden = TRUE] \in AuctionRows
           /\ [a EXCEPT !.hidden = FALSE] \in AuctionRows
           /\ a.closes \in Closing
<1>1. a.closes \in Closing
  BY DEF AuctionRows
<1> QED
  BY <1>1 DEF AuctionRows

LEMMA CollectorMoves ==
    ASSUME CatalogInv, NEW c \in Collector, NEW x \in Collects, collector' = [collector EXCEPT ![c] = x]
    PROVE  collector' \in [Collector -> Collects]
  BY DEF CatalogInv, CatalogTyped

LEMMA CollectionKeeps ==
    ASSUME CatalogInv, NEW c \in Collector,
           \/ CollectStart(c) \/ HarvestFailed(c) \/ CollectReports(c)
           \/ \E l \in CLot, how \in {"skipped", "bare", "photo"} : ReadLot(c, l, how)
           \/ \E closes \in {"unknown", "open"} : StoreRows(c, closes)
    PROVE  CatalogInv'
<1>0. /\ CatalogTyped /\ collector[c] \in Collects /\ auction \in AuctionRows
      /\ starts \in 0 .. MaxStarts /\ collector \in [Collector -> Collects]
  BY DEF CatalogInv, CatalogTyped
<1>1. "open" \in Closing /\ "unknown" \in Closing
  BY DEF Closing
<1>2. CASE CollectStart(c)
  <2> DEFINE x == [IdleCollector EXCEPT !.pc = "harvest"]
  <2>1. x \in Collects
    BY IdleCatalog DEF Collects
  <2>2. collector' = [collector EXCEPT ![c] = x]
    BY <1>2 DEF CollectStart
  <2> HIDE DEF x
  <2>3. collector' \in [Collector -> Collects]
    BY <2>1, <2>2, CollectorMoves
  <2>4. auction' \in AuctionRows
    BY <1>0, <1>1, <1>2, AuctionEdits DEF CollectStart
  <2>5. starts' \in 0 .. MaxStarts
    BY <1>0, <1>2, CatalogAssumption DEF CollectStart
  <2>6. UNCHANGED <<lotRow, blobs, saved, found, saving, remover, enriching, lostPinned>>
    BY <1>2 DEF CollectStart
  <2>7. CatalogTyped'
    BY <1>0, <2>3, <2>4, <2>5, <2>6 DEF CatalogTyped
  <2> QED
    BY <2>6, <2>7, RemoversRest
<1>3. CASE HarvestFailed(c)
  <2>1. collector' \in [Collector -> Collects]
    BY <1>3, IdleCatalog, CollectorMoves DEF HarvestFailed
  <2>2. auction' \in AuctionRows
    <3>1. [auction EXCEPT !.status = "failed"] \in AuctionRows
      BY <1>0, <1>1, AuctionEdits
    <3> QED
      BY <1>0, <1>3, <3>1 DEF HarvestFailed
  <2>3. UNCHANGED <<lotRow, blobs, saved, found, saving, remover, enriching, starts, lostPinned>>
    BY <1>3 DEF HarvestFailed
  <2>4. CatalogTyped'
    BY <1>0, <2>1, <2>2, <2>3 DEF CatalogTyped
  <2> QED
    BY <2>3, <2>4, RemoversRest
<1>4. CASE CollectReports(c)
  <2>1. collector' \in [Collector -> Collects]
    BY <1>4, IdleCatalog, CollectorMoves DEF CollectReports
  <2>2. UNCHANGED <<auction, lotRow, blobs, saved, found, saving, remover, enriching, starts, lostPinned>>
    BY <1>4 DEF CollectReports
  <2>3. CatalogTyped'
    BY <1>0, <2>1, <2>2 DEF CatalogTyped
  <2> QED
    BY <2>2, <2>3, RemoversRest
<1>5. CASE \E l \in CLot, how \in {"skipped", "bare", "photo"} : ReadLot(c, l, how)
  <2>1. PICK l \in CLot, how \in {"skipped", "bare", "photo"} : ReadLot(c, l, how)
    BY <1>5
  <2> DEFINE x == [collector[c] EXCEPT !.got[l] = how]
  <2>2. x \in Collects
    BY <1>0 DEF Collects
  <2>3. collector' = [collector EXCEPT ![c] = x]
    BY <1>0, <2>1 DEF ReadLot
  <2> HIDE DEF x
  <2>4. collector' \in [Collector -> Collects]
    BY <2>2, <2>3, CollectorMoves
  <2>5. /\ UNCHANGED <<auction, lotRow, saved, found, saving, remover, enriching, starts, lostPinned>>
        /\ blobs' \subseteq blobs \cup CLot
    BY <2>1 DEF ReadLot
  <2>6. CatalogTyped'
    BY <1>0, <2>4, <2>5 DEF CatalogTyped
  <2> QED
    BY <2>5, <2>6, RemoversRest
<1>6. CASE \E closes \in {"unknown", "open"} : StoreRows(c, closes)
  <2>1. PICK closes \in {"unknown", "open"} : StoreRows(c, closes)
    BY <1>6
  <2> DEFINE x == [collector[c] EXCEPT !.pc = "report"]
  <2>2. x \in Collects
    BY <1>0 DEF Collects
  <2>3. collector' = [collector EXCEPT ![c] = x]
    BY <1>0, <2>1 DEF StoreRows
  <2> HIDE DEF x
  <2>4. collector' \in [Collector -> Collects]
    BY <2>2, <2>3, CollectorMoves
  <2>5. closes \in Closing
    BY <1>1
  <2>6. \A b \in BOOLEAN : [row |-> TRUE, closes |-> closes, image |-> b] \in LotRows
    BY <2>5 DEF LotRows
  <2>7. lotRow' \in [CLot -> LotRows]
    <3>1. \A l \in CLot : lotRow[l] \in LotRows
      BY <1>0 DEF CatalogTyped
    <3>2. \A l \in CLot : [row |-> TRUE, closes |-> closes, image |-> collector[c].got[l] = "photo"] \in LotRows
      BY <2>6
    <3> QED
      BY <2>1, <3>1, <3>2 DEF StoreRows
  <2>8. auction' \in AuctionRows
    BY <1>0, <2>1, <2>5, AuctionEdits DEF StoreRows
  <2>9. UNCHANGED <<blobs, saved, found, saving, remover, enriching, starts, lostPinned>>
    BY <2>1 DEF StoreRows
  <2>10. CatalogTyped'
    BY <1>0, <2>4, <2>7, <2>8, <2>9 DEF CatalogTyped
  <2> QED
    BY <2>9, <2>10, RemoversRest
<1> QED
  BY <1>2, <1>3, <1>4, <1>5, <1>6

LEMMA RemovalStarts ==
    ASSUME CatalogInv, NEW k \in Remover, DeleteStart(k) \/ CleanupStart(k) PROVE CatalogInv'
<1> DEFINE d == [IdleRemover EXCEPT !.pc = "keys", !.whole = TRUE]
           e == [IdleRemover EXCEPT !.pc = "readLots", !.kind = "cleanup", !.auction = auction]
<1>0. CatalogTyped /\ auction \in AuctionRows /\ starts \in 0 .. MaxStarts
  BY DEF CatalogInv, CatalogTyped
<1>1. d \in Removes /\ d.kind = "delete"
  BY IdleCatalog DEF Removes, IdleRemover
<1>2. e \in Removes /\ e.pinned = {} /\ e.pc = "readLots"
  BY <1>0, IdleCatalog DEF Removes, IdleRemover
<1>3. /\ remover' = [remover EXCEPT ![k] = d] \/ remover' = [remover EXCEPT ![k] = e]
      /\ starts < MaxStarts /\ starts' = starts + 1
      /\ UNCHANGED <<auction, lotRow, blobs, saved, found, saving, collector, enriching, lostPinned>>
  BY DEF DeleteStart, CleanupStart
<1> HIDE DEF d, e
<1>4. Spares(d) /\ Spares(e)
  BY <1>1, <1>2 DEF Spares
<1>5. remover' \in [Remover -> Removes] /\ \A j \in Remover : Spares(remover'[j])
  BY <1>1, <1>2, <1>3, <1>4, RemoverMoves
<1>6. starts' \in 0 .. MaxStarts
  BY <1>0, <1>3, CatalogAssumption
<1>7. CatalogTyped'
  BY <1>0, <1>3, <1>5, <1>6 DEF CatalogTyped
<1> QED
  BY <1>3, <1>5, <1>7 DEF CatalogInv, Spares

(* The plan of cleanupExpired: it names no pinned lot, and is the whole      *)
(* auction only when there is none.                                          *)
LEMMA CleanupReads == ASSUME CatalogInv, NEW k \in Remover, CleanupReadsLots(k) PROVE CatalogInv'
<1> DEFINE over == AuctionEnded(remover[k].auction, lotRow)
           pins == Pins(lotRow)
           x == [remover[k] EXCEPT !.pc = "plan", !.pinned = {l \in Pinned : lotRow[l].row},
                                   !.whole = over /\ pins = {},
                                   !.drop = {l \in CLot : lotRow[l].row /\ l \notin pins
                                                            /\ HasEnded(lotRow[l].closes)},
                                   !.auction = [remover[k].auction EXCEPT !.hidden = over /\ pins # {}]]
<1>0. CatalogTyped /\ remover[k] \in Removes /\ remover \in [Remover -> Removes]
  BY DEF CatalogInv, CatalogTyped
<1>1. remover' = [remover EXCEPT ![k] = x]
  BY Zenon DEF CleanupReadsLots
<1>2. UNCHANGED <<auction, lotRow, blobs, saved, found, saving, collector, enriching, starts, lostPinned>>
  BY DEF CleanupReadsLots
<1>3. {l \in Pinned : lotRow[l].row} \subseteq pins /\ pins \subseteq CLot
  BY <1>0 DEF Pinned, Pins, CatalogTyped
<1>4. [remover[k].auction EXCEPT !.hidden = over /\ pins # {}] \in AuctionRows
  <2>1. remover[k].auction \in AuctionRows
    BY <1>0 DEF Removes
  <2>2. (over /\ pins # {}) \in BOOLEAN
    OBVIOUS
  <2> HIDE DEF over, pins
  <2> QED
    BY <2>1, <2>2 DEF AuctionRows
<1>5. x \in Removes
  <2>1. {l \in Pinned : lotRow[l].row} \in SUBSET CLot
    BY <1>3
  <2>2. {l \in CLot : lotRow[l].row /\ l \notin pins /\ HasEnded(lotRow[l].closes)} \in SUBSET CLot
    OBVIOUS
  <2>3. (over /\ pins = {}) \in BOOLEAN
    OBVIOUS
  <2> HIDE DEF over, pins
  <2> QED
    BY <1>0, <1>4, <2>1, <2>2, <2>3 DEF Removes
<1>6. /\ x.pc = "plan" /\ x.pinned = {l \in Pinned : lotRow[l].row}
      /\ x.whole = (over /\ pins = {})
      /\ x.drop = {l \in CLot : lotRow[l].row /\ l \notin pins /\ HasEnded(lotRow[l].closes)}
  <2> HIDE DEF over, pins
  <2> QED
    BY <1>0 DEF Removes
<1>7. Spares(x)
  <2>1. x.pinned \subseteq pins
    <3> HIDE DEF x
    <3> QED BY <1>3, <1>6
  <2>2. x.whole = TRUE => pins = {}
    <3> HIDE DEF x, over, pins
    <3> QED BY <1>6
  <2>3. x.drop \cap pins = {}
    <3> HIDE DEF x, over, pins
    <3> QED BY <1>6
  <2> HIDE DEF x, pins
  <2> QED
    BY <1>6, <2>1, <2>2, <2>3 DEF Spares
<1> HIDE DEF x
<1>8. remover' \in [Remover -> Removes] /\ \A j \in Remover : Spares(remover'[j])
  BY <1>1, <1>5, <1>7, RemoverMoves
<1>9. CatalogTyped'
  BY <1>0, <1>2, <1>8 DEF CatalogTyped
<1> QED
  BY <1>2, <1>8, <1>9 DEF CatalogInv, Spares

(* Steps of one remover that keep its plan and delete no row. *)
LEMMA RemovalGoesOn ==
    ASSUME CatalogInv, NEW k \in Remover,
           \/ CleanupPlan(k) \/ RemovalDone(k)
           \/ \E ls \in Targets(k) : ReadKeys(k, ls)
           \/ \E l \in CLot : DeletePhoto(k, l)
    PROVE  CatalogInv'
<1> DEFINE a == [remover[k] EXCEPT !.pc = "keys"]
           b == [remover[k] EXCEPT !.pc = "plan"]
           c(ls) == [remover[k] EXCEPT !.pc = "tx", !.cur = ls,
                        !.keys = {l \in ls : lotRow[l].image /\ (remover[k].whole => lotRow[l].row)}]
           d(l) == [remover[k] EXCEPT !.keys = @ \ {l}]
<1>0. /\ CatalogTyped /\ remover[k] \in Removes /\ remover \in [Remover -> Removes]
      /\ Spares(remover[k]) /\ auction \in AuctionRows
  BY DEF CatalogInv, CatalogTyped
<1>1. a \in Removes /\ Spares(a) /\ b \in Removes /\ Spares(b)
  BY <1>0 DEF Removes, Spares
<1>2. \A ls \in Targets(k) : c(ls) \in Removes /\ Spares(c(ls))
  <2> SUFFICES ASSUME NEW ls \in Targets(k) PROVE c(ls) \in Removes /\ Spares(c(ls))
    OBVIOUS
  <2>1. remover[k].whole \in BOOLEAN /\ remover[k].drop \subseteq CLot
    BY <1>0 DEF Removes
  <2>2. ls \subseteq CLot /\ (remover[k].whole = FALSE => ls \subseteq remover[k].drop)
    BY <2>1 DEF Targets
  <2>3. c(ls) \in Removes
    BY <1>0, <2>2 DEF Removes
  <2>4. /\ c(ls).kind = remover[k].kind /\ c(ls).whole = remover[k].whole
        /\ c(ls).drop = remover[k].drop /\ c(ls).pinned = remover[k].pinned /\ c(ls).cur = ls
    BY <1>0 DEF Removes
  <2> HIDE DEF c
  <2> QED
    BY <1>0, <2>2, <2>3, <2>4 DEF Spares
<1>3. \A l \in CLot : d(l) \in Removes /\ Spares(d(l))
  <2> SUFFICES ASSUME NEW l \in CLot PROVE d(l) \in Removes /\ Spares(d(l))
    OBVIOUS
  <2>1. d(l) \in Removes
    BY <1>0 DEF Removes
  <2>2. /\ d(l).kind = remover[k].kind /\ d(l).whole = remover[k].whole /\ d(l).pc = remover[k].pc
        /\ d(l).drop = remover[k].drop /\ d(l).pinned = remover[k].pinned /\ d(l).cur = remover[k].cur
    BY <1>0 DEF Removes
  <2> HIDE DEF d
  <2> QED
    BY <1>0, <2>1, <2>2 DEF Spares
<1>4. \E x \in Removes : Spares(x) /\ remover' = [remover EXCEPT ![k] = x]
  <2>1. CASE CleanupPlan(k)
    <3>1. remover' = [remover EXCEPT ![k] = a] \/ remover' = [remover EXCEPT ![k] = IdleRemover]
      BY <1>0, <2>1 DEF CleanupPlan
    <3> HIDE DEF a
    <3> QED
      BY <1>1, <3>1, IdleCatalog
  <2>2. CASE RemovalDone(k)
    <3>1. remover' = [remover EXCEPT ![k] = b] \/ remover' = [remover EXCEPT ![k] = IdleRemover]
      BY <1>0, <2>2 DEF RemovalDone
    <3> HIDE DEF b
    <3> QED
      BY <1>1, <3>1, IdleCatalog
  <2>3. CASE \E ls \in Targets(k) : ReadKeys(k, ls)
    <3>1. PICK ls \in Targets(k) : ReadKeys(k, ls)
      BY <2>3
    <3>2. remover' = [remover EXCEPT ![k] = c(ls)]
      BY <1>0, <3>1 DEF ReadKeys
    <3> HIDE DEF c
    <3> QED
      BY <1>2, <3>2
  <2>4. CASE \E l \in CLot : DeletePhoto(k, l)
    <3>1. PICK l \in CLot : DeletePhoto(k, l)
      BY <2>4
    <3>2. remover' = [remover EXCEPT ![k] = d(l)]
      BY <1>0, <3>1 DEF DeletePhoto
    <3> HIDE DEF d
    <3> QED
      BY <1>3, <3>2
  <2> QED
    BY <2>1, <2>2, <2>3, <2>4
<1>5. remover' \in [Remover -> Removes] /\ \A j \in Remover : Spares(remover'[j])
  BY <1>4, RemoverMoves
<1>6. auction' \in AuctionRows
  <2>1. [auction EXCEPT !.hidden = TRUE] \in AuctionRows
    BY <1>0 DEF AuctionRows
  <2> QED
    BY <1>0, <2>1 DEF CleanupPlan, RemovalDone, ReadKeys, DeletePhoto
<1>7. blobs' \subseteq blobs /\ UNCHANGED <<lotRow, saved, found, saving, collector, enriching, starts, lostPinned>>
  BY DEF CleanupPlan, RemovalDone, ReadKeys, DeletePhoto
<1>8. CatalogTyped'
  BY <1>0, <1>5, <1>6, <1>7 DEF CatalogTyped
<1> QED
  BY <1>5, <1>7, <1>8 DEF CatalogInv, Spares

(* The transaction takes nothing that was pinned since the request read. *)
LEMMA DeleteRowsKeeps == ASSUME CatalogInv, NEW k \in Remover, DeleteRows(k) PROVE CatalogInv'
<1> DEFINE gone == {l \in remover[k].cur : remover[k].whole => lotRow[l].row}
           x == [remover[k] EXCEPT !.pc = "photos", !.drop = @ \ remover[k].cur]
<1>0. /\ CatalogTyped /\ remover[k] \in Removes /\ remover \in [Remover -> Removes]
      /\ Spares(remover[k])
  BY DEF CatalogInv, CatalogTyped
<1>1. /\ remover[k].pc = "tx"
      /\ lotRow' = [l \in CLot |-> IF l \in gone THEN NoLotRow ELSE lotRow[l]]
      /\ saved' = saved \ gone /\ found' = found \ gone
      /\ lostPinned' = IF remover[k].kind = "cleanup"
                       THEN lostPinned \cup (gone \cap remover[k].pinned) ELSE lostPinned
      /\ remover' = [j \in Remover |-> IF j = k THEN x ELSE [remover[j] EXCEPT !.pinned = @ \ gone]]
      /\ auction' = IF remover[k].whole THEN NoAuctionRow ELSE auction
      /\ UNCHANGED <<blobs, saving, collector, enriching, starts>>
  BY DEF DeleteRows
<1>2. gone \subseteq remover[k].cur
  OBVIOUS
<1>3. /\ x \in Removes /\ x.kind = remover[k].kind /\ x.whole = remover[k].whole
      /\ x.drop = remover[k].drop \ remover[k].cur /\ x.pinned = remover[k].pinned
      /\ x.pc = "photos" /\ remover[k].whole \in BOOLEAN
  BY <1>0 DEF Removes
<1> HIDE DEF x, gone
<1>4. Spares(x)
  BY <1>0, <1>3 DEF Spares
<1>5. \A j \in Remover : remover'[j] \in Removes /\ Spares(remover'[j])
  <2> SUFFICES ASSUME NEW j \in Remover, j # k PROVE remover'[j] \in Removes /\ Spares(remover'[j])
    BY <1>1, <1>3, <1>4
  <2>1. remover'[j] = [remover[j] EXCEPT !.pinned = @ \ gone]
    BY <1>1
  <2>2. remover[j] \in Removes /\ Spares(remover[j])
    BY DEF CatalogInv, CatalogTyped
  <2>3. LET y == [remover[j] EXCEPT !.pinned = @ \ gone] IN y \in Removes /\ Spares(y)
    BY <2>2, LessPinned
  <2> QED
    BY <2>1, <2>3
<1>6. remover' \in [Remover -> Removes]
  BY <1>1, <1>5
<1>7. remover[k].kind = "cleanup" => gone \cap remover[k].pinned = {}
  BY <1>0, <1>1, <1>2, <1>3 DEF Spares
<1>8. lostPinned' = {}
  BY <1>1, <1>7 DEF CatalogInv
<1>9. lotRow' \in [CLot -> LotRows] /\ auction' \in AuctionRows
  BY <1>0, <1>1, IdleCatalog DEF CatalogTyped
<1>10. CatalogTyped'
  BY <1>0, <1>1, <1>6, <1>9 DEF CatalogTyped
<1> QED
  BY <1>5, <1>8, <1>10 DEF CatalogInv, Spares

LEMMA PinsKeep ==
    ASSUME CatalogInv, NEW l \in CLot,
           \/ FavoriteChecks(l) \/ FavoriteWrites(l) \/ Unfavorite(l) \/ FindingStored(l)
           \/ \E accepted \in BOOLEAN : FindingDecided(l, accepted)
    PROVE  CatalogInv'
<1>0. CatalogTyped /\ remover \in [Remover -> Removes] /\ \A k \in Remover : Spares(remover[k])
  BY DEF CatalogInv, CatalogTyped
<1>1. /\ remover' = [k \in Remover |-> remover'[k]]
      /\ \A k \in Remover :
            remover'[k] = remover[k] \/ remover'[k] = [remover[k] EXCEPT !.pinned = @ \ {l}]
  <2>1. CASE remover' = remover
    BY <1>0, <2>1
  <2>2. CASE remover' # remover
    <3>1. PICK stays : remover' = Unpinned(l, stays)
      BY <2>2 DEF FavoriteChecks, FavoriteWrites, Unfavorite, FindingStored, FindingDecided
    <3> QED
      BY <3>1 DEF Unpinned
  <2> QED
    BY <2>1, <2>2
<1>2. \A k \in Remover : LET y == [remover[k] EXCEPT !.pinned = @ \ {l}] IN y \in Removes /\ Spares(y)
  BY <1>0, LessPinned
<1>3. \A k \in Remover : remover'[k] \in Removes /\ Spares(remover'[k])
  BY <1>0, <1>1, <1>2
<1>4. remover' \in [Remover -> Removes] /\ \A k \in Remover : Spares(remover'[k])
  BY <1>1, <1>3
<1>5. /\ saved' \subseteq CLot /\ found' \subseteq CLot /\ saving' \subseteq CLot
      /\ UNCHANGED <<auction, lotRow, blobs, collector, enriching, starts, lostPinned>>
  BY <1>0 DEF FavoriteChecks, FavoriteWrites, Unfavorite, FindingStored, FindingDecided, CatalogTyped
<1>6. CatalogTyped'
  BY <1>0, <1>4, <1>5 DEF CatalogTyped
<1> QED
  BY <1>4, <1>5, <1>6 DEF CatalogInv, Spares

LEMMA LotEdits ==
    ASSUME NEW r \in LotRows, NEW c \in Closing
    PROVE  /\ [r EXCEPT !.closes = c] \in LotRows /\ [r EXCEPT !.image = TRUE] \in LotRows
           /\ [r EXCEPT !.closes = r.closes] \in LotRows
  BY DEF LotRows

LEMMA EnrichmentKeeps ==
    ASSUME CatalogInv,
           \/ \E l \in CLot : EnrichLoads(l) \/ LotCloses(l)
           \/ \E closes \in {"unknown", "open"} : EnrichUpdates(closes)
           \/ EnrichCounts \/ EnrichInserts
    PROVE  CatalogInv'
<1>0. /\ CatalogTyped /\ auction \in AuctionRows /\ lotRow \in [CLot -> LotRows] /\ enriching \in Enriches
      /\ starts \in 0 .. MaxStarts
  BY DEF CatalogInv, CatalogTyped
<1>1. "open" \in Closing /\ "unknown" \in Closing /\ "ended" \in Closing
  BY DEF Closing
<1>2. enriching.lot \in CLot /\ \A l \in CLot : lotRow[l] \in LotRows
  BY <1>0 DEF Enriches
<1>3. UNCHANGED <<saved, found, saving, collector, remover, lostPinned>>
  BY DEF EnrichLoads, LotCloses, EnrichUpdates, EnrichCounts, EnrichInserts
<1>4. enriching' \in Enriches
  <2>1. [enriching EXCEPT !.pc = "count"] \in Enriches /\ [enriching EXCEPT !.pc = "insert"] \in Enriches
    BY <1>0 DEF Enriches
  <2>2. \A l \in CLot : [pc |-> "update", lot |-> l] \in Enriches
    BY DEF Enriches
  <2> QED
    BY <1>0, <2>1, <2>2, IdleCatalog DEF EnrichLoads, LotCloses, EnrichUpdates, EnrichCounts, EnrichInserts
<1>5. blobs' \subseteq CLot
  BY <1>0, <1>2 DEF EnrichLoads, LotCloses, EnrichUpdates, EnrichCounts, EnrichInserts, CatalogTyped
<1>6. starts' \in 0 .. MaxStarts
  BY <1>0, CatalogAssumption DEF EnrichLoads, LotCloses, EnrichUpdates, EnrichCounts, EnrichInserts
<1>7. lotRow' \in [CLot -> LotRows] /\ auction' \in AuctionRows
  <2>1. CASE \E l \in CLot : LotCloses(l)
    <3>1. PICK l \in CLot : LotCloses(l)
      BY <2>1
    <3>2. [lotRow[l] EXCEPT !.closes = "ended"] \in LotRows /\ [auction EXCEPT !.closes = "ended"] \in AuctionRows
      BY <1>0, <1>1, <1>2, LotEdits, AuctionEdits
    <3>3. lotRow' = [lotRow EXCEPT ![l] = [lotRow[l] EXCEPT !.closes = "ended"]]
      BY <1>0, <3>1 DEF LotCloses
    <3>4. auction' \in {auction, [auction EXCEPT !.closes = "ended"]}
      BY <3>1 DEF LotCloses
    <3>5. lotRow' \in [CLot -> LotRows]
      BY <1>0, <3>2, <3>3
    <3> QED
      BY <1>0, <3>2, <3>4, <3>5
  <2>2. CASE \E closes \in {"unknown", "open"} : EnrichUpdates(closes)
    <3>1. PICK closes \in {"unknown", "open"} : EnrichUpdates(closes)
      BY <2>2
    <3> DEFINE m == enriching.lot
               c == IF lotRow[m].row THEN closes ELSE lotRow[m].closes
               d == IF auction.row /\ (auction.closes = "unknown" \/ closes = "open")
                    THEN closes ELSE auction.closes
    <3>2. c \in Closing /\ d \in Closing
      <4>1. lotRow[m].closes \in Closing /\ auction.closes \in Closing
        BY <1>0, <1>2 DEF LotRows, AuctionRows
      <4> QED
        BY <1>1, <4>1
    <3>3. lotRow' = [lotRow EXCEPT ![m] = [lotRow[m] EXCEPT !.closes = c]]
      BY <1>0, <1>2, <3>1 DEF EnrichUpdates
    <3>4. auction' = [auction EXCEPT !.closes = d]
      BY <1>0, <3>1 DEF EnrichUpdates
    <3> HIDE DEF c, d
    <3>5. [lotRow[m] EXCEPT !.closes = c] \in LotRows /\ [auction EXCEPT !.closes = d] \in AuctionRows
      BY <1>0, <1>2, <3>2, LotEdits, AuctionEdits
    <3> QED
      BY <1>0, <3>3, <3>4, <3>5
  <2>3. CASE EnrichInserts
    <3>1. [lotRow[enriching.lot] EXCEPT !.image = TRUE] \in LotRows
      BY <1>1, <1>2, LotEdits
    <3>2. lotRow' = [lotRow EXCEPT ![enriching.lot] = [lotRow[enriching.lot] EXCEPT !.image = TRUE]]
      BY <1>0, <1>2, <2>3 DEF EnrichInserts
    <3>3. auction' = auction
      BY <2>3 DEF EnrichInserts
    <3> QED
      BY <1>0, <3>1, <3>2, <3>3
  <2>4. CASE EnrichCounts \/ \E l \in CLot : EnrichLoads(l)
    BY <1>0, <2>4 DEF EnrichCounts, EnrichLoads
  <2> QED
    BY <2>1, <2>2, <2>3, <2>4
<1>8. CatalogTyped'
  BY <1>0, <1>3, <1>4, <1>5, <1>6, <1>7 DEF CatalogTyped
<1> QED
  BY <1>3, <1>8, RemoversRest

LEMMA CatalogInvStep == CatalogInv /\ [CatalogNext]_catalogVars => CatalogInv'
<1> SUFFICES ASSUME CatalogInv, [CatalogNext]_catalogVars PROVE CatalogInv'
  OBVIOUS
<1>1. CASE \/ \E c \in Collector : CollectStart(c) \/ HarvestFailed(c) \/ CollectReports(c)
           \/ \E c \in Collector, l \in CLot, how \in {"skipped", "bare", "photo"} : ReadLot(c, l, how)
           \/ \E c \in Collector, closes \in {"unknown", "open"} : StoreRows(c, closes)
  BY <1>1, CollectionKeeps
<1>2. CASE \E k \in Remover : DeleteStart(k) \/ CleanupStart(k)
  BY <1>2, RemovalStarts
<1>3. CASE \E k \in Remover : CleanupReadsLots(k)
  BY <1>3, CleanupReads
<1>4. CASE \E k \in Remover : DeleteRows(k)
  BY <1>4, DeleteRowsKeeps
<1>5. CASE \/ \E k \in Remover : CleanupPlan(k) \/ RemovalDone(k)
           \/ \E k \in Remover : \E ls \in Targets(k) : ReadKeys(k, ls)
           \/ \E k \in Remover, l \in CLot : DeletePhoto(k, l)
  BY <1>5, RemovalGoesOn
<1>6. CASE \/ \E l \in CLot : FavoriteChecks(l) \/ FavoriteWrites(l) \/ Unfavorite(l) \/ FindingStored(l)
           \/ \E l \in CLot, accepted \in BOOLEAN : FindingDecided(l, accepted)
  BY <1>6, PinsKeep
<1>7. CASE \/ \E l \in CLot : EnrichLoads(l) \/ LotCloses(l)
           \/ \E closes \in {"unknown", "open"} : EnrichUpdates(closes)
           \/ EnrichCounts \/ EnrichInserts
  BY <1>7, EnrichmentKeeps
<1>8. CASE UNCHANGED catalogVars
  <2>1. CatalogTyped'
    BY <1>8 DEF catalogVars, CatalogInv, CatalogTyped
  <2> QED
    BY <1>8, <2>1, RemoversRest DEF catalogVars
<1> HIDE DEF CatalogInv
<1> QED
  BY <1>1, <1>2, <1>3, <1>4, <1>5, <1>6, <1>7, <1>8 DEF CatalogNext

LEMMA CatalogInvMeans == CatalogInv => PinnedSurvive
<1> SUFFICES ASSUME CatalogInv PROVE PinnedSurvive
  OBVIOUS
<1>1. CatalogTyped /\ lostPinned = {}
  BY DEF CatalogInv
<1>2. \A k \in Remover :
        /\ remover[k].pc \in {"idle", "readLots", "plan", "keys", "tx", "photos"}
        /\ remover[k].kind \in {"delete", "cleanup"}
        /\ remover[k].auction \in AuctionRows /\ remover[k].whole \in BOOLEAN
        /\ UNION {remover[k].drop, remover[k].cur, remover[k].keys, remover[k].pinned} \subseteq CLot
  <2> SUFFICES ASSUME NEW k \in Remover
               PROVE  /\ remover[k].pc \in {"idle", "readLots", "plan", "keys", "tx", "photos"}
                      /\ remover[k].kind \in {"delete", "cleanup"}
                      /\ remover[k].auction \in AuctionRows /\ remover[k].whole \in BOOLEAN
                      /\ UNION {remover[k].drop, remover[k].cur, remover[k].keys, remover[k].pinned} \subseteq CLot
    OBVIOUS
  <2>1. remover[k] \in Removes
    BY <1>1 DEF CatalogTyped
  <2> QED
    BY <2>1 DEF Removes
<1>3. enriching.pc \in {"idle", "update", "count", "insert"} /\ enriching.lot \in CLot
  BY <1>1 DEF CatalogTyped, Enriches
<1> QED
  BY <1>1, <1>2, <1>3 DEF CatalogTyped, Collects, CatalogTypeOK, PinnedSurvive

(* cleanupPlan leaves a lot alone that is saved, or has an undecided         *)
(* finding, when its request reads the lots, and deletes by that plan: no    *)
(* lot pinned ever since is removed, whatever collections, enrichments and   *)
(* other requests run beside it.                                             *)
THEOREM PinnedLotsSurvive == CatalogSpec => []PinnedSurvive
<1>1. CatalogSpec => []CatalogInv
  BY CatalogInvInit, CatalogInvStep, PTL DEF CatalogSpec
<1> QED
  BY <1>1, CatalogInvMeans, PTL

-----------------------------------------------------------------------------
(***************************************************************************)
(* The live feed.                                                          *)
(***************************************************************************)

Rebuilds == [pc : {"idle", "start", "cancel", "check"}, host : 0 .. MaxEnabled, gen : 0 .. MaxGen,
             watched : SUBSET LiveLot, prev : 0 .. MaxGen]
FeedRuns == [pc : {"none", "dial", "joined", "live", "down", "ended"}, host : 0 .. MaxEnabled,
             watched : SUBSET LiveLot, cancelled : BOOLEAN]

LiveTyped ==
    /\ liveEnabled \in 0 .. MaxEnabled /\ enables \in 0 .. MaxEnabled
    /\ closing \in {"no", "unwatch", "close"}
    /\ viewed \subseteq LiveLot /\ views \in 0 .. MaxViews
    /\ call \in [LiveLot -> {"none", "join", "add", "leave", "schedule"}]
    /\ feedLots \subseteq LiveLot /\ IsFiniteSet(feedLots) /\ Cardinality(feedLots) <= MaxLiveLots
    /\ timer \in {"none", "armed", "spent"} /\ gen \in 0 .. MaxGen /\ stop \in 0 .. MaxGen
    /\ rebuild \in [Rebuilder -> Rebuilds] /\ run \in [Gens -> FeedRuns]
    /\ shown \in [LiveLot -> {"nothing", "live", "not live"}]

(* A rebuild between its two sections, and the newest of them. *)
Busy(b) == rebuild[b].pc \in {"cancel", "check"}
Newest(b) == Busy(b) /\ rebuild[b].gen = gen

(* The watch set will be looked at again. *)
Pending ==
    \/ \E l \in LiveLot : call[l] = "schedule"
    \/ timer = "armed"
    \/ \E b \in Rebuilder : rebuild[b].pc = "start"

(* The cancel function of a generation that runs is held by the feed, or by *)
(* the rebuild that is about to call it.                                    *)
CancelHeld ==
    \A g \in Gens : Running(g) =>
        g = stop \/ \E b \in Rebuilder : rebuild[b].pc = "cancel" /\ rebuild[b].prev = g

(* No two rebuilds carry the same number, and while the newest of them is   *)
(* under way the feed holds no cancel function.                             *)
Numbered ==
    \A b \in Rebuilder : Busy(b) =>
        /\ rebuild[b].gen \in 1 .. gen
        /\ \A c \in Rebuilder : Busy(c) /\ rebuild[c].gen = rebuild[b].gen => c = b
NewestAlone == \A b \in Rebuilder : Newest(b) => stop = 0

(* Unless the set will be looked at again, it is the one that is fed or is   *)
(* about to be.                                                              *)
SetMatches ==
    Pending \/ /\ stop # 0 => run[stop].watched = feedLots
               /\ \A b \in Rebuilder : Newest(b) => rebuild[b].watched = feedLots

(* A plugin that was shut down feeds nothing, and starts nothing. *)
NoneWhenOff ==
    liveEnabled = 0 /\ closing = "no" => stop = 0 /\ \A b \in Rebuilder : ~ Newest(b)

LiveInv == LiveTyped /\ CancelHeld /\ Numbered /\ NewestAlone /\ SetMatches /\ NoneWhenOff

LEMMA LiveNumbers ==
    /\ MaxGen \in Nat /\ MaxEnabled \in Nat /\ MaxViews \in Nat /\ MaxLiveLots \in Nat
    /\ MaxEnabled >= 1 /\ 0 \in 0 .. MaxGen /\ 0 \in 0 .. MaxEnabled /\ MaxLiveLots >= 1
  BY LiveAssumption

LEMMA IdleFeed ==
    /\ IdleRebuild \in Rebuilds /\ IdleRebuild.pc = "idle"
    /\ NoRun \in FeedRuns /\ NoRun.pc = "none"
  BY LiveNumbers DEF IdleRebuild, Rebuilds, NoRun, FeedRuns

LEMMA LiveInvInit == LiveInit => LiveInv
<1> SUFFICES ASSUME LiveInit PROVE LiveInv
  OBVIOUS
<1>1. rebuild \in [Rebuilder -> Rebuilds] /\ \A b \in Rebuilder : rebuild[b].pc = "idle"
  BY IdleFeed DEF LiveInit
<1>2. run \in [Gens -> FeedRuns] /\ \A g \in Gens : run[g].pc = "none"
  BY IdleFeed DEF LiveInit
<1>3. feedLots = {} /\ stop = 0 /\ gen = 0 /\ liveEnabled = 1
  BY DEF LiveInit
<1>4. IsFiniteSet(feedLots) /\ Cardinality(feedLots) <= MaxLiveLots
  BY <1>3, FS_EmptySet, LiveNumbers
<1>5. LiveTyped
  BY <1>1, <1>2, <1>4, LiveNumbers DEF LiveInit, LiveTyped
<1>6. CancelHeld /\ Numbered /\ NewestAlone /\ SetMatches /\ NoneWhenOff
  BY <1>1, <1>2, <1>3 DEF CancelHeld, Numbered, NewestAlone, SetMatches, NoneWhenOff, Running, Busy, Newest
<1> QED
  BY <1>5, <1>6 DEF LiveInv

(* Steps that leave generations and rebuilds alone: the watch set stays, or  *)
(* will be looked at again.                                                  *)
LEMMA FeedStays ==
    ASSUME LiveInv, LiveTyped', UNCHANGED <<gen, stop, rebuild, run>>, NoneWhenOff',
           Pending' \/ (~ Pending /\ feedLots' = feedLots)
    PROVE  LiveInv'
<1>1. /\ \A b \in Rebuilder : Busy(b)' = Busy(b) /\ Newest(b)' = Newest(b)
      /\ \A g \in Gens : Running(g)' = Running(g)
  BY DEF Busy, Newest, Running
<1>2. CancelHeld'
  BY <1>1 DEF LiveInv, CancelHeld
<1>3. Numbered' /\ NewestAlone'
  BY <1>1 DEF LiveInv, Numbered, NewestAlone
<1>4. SetMatches'
  BY <1>1 DEF LiveInv, SetMatches
<1> QED
  BY <1>2, <1>3, <1>4 DEF LiveInv

LEMMA OffStays ==
    ASSUME LiveInv, UNCHANGED <<gen, stop, rebuild, liveEnabled, closing>> PROVE NoneWhenOff'
  BY DEF LiveInv, NoneWhenOff, Newest, Busy

LEMMA DemandKeeps ==
    ASSUME LiveInv, NEW l \in LiveLot,
           Demand(l) \/ \E found1 \in {"yes", "no", "error"} : JoinResolves(l, found1)
    PROVE  LiveInv'
<1>0. LiveTyped /\ call \in [LiveLot -> {"none", "join", "add", "leave", "schedule"}]
  BY DEF LiveInv, LiveTyped
<1>1. UNCHANGED <<liveEnabled, enables, closing, gen, stop, rebuild, run, feedLots, timer>>
  BY DEF Demand, JoinResolves, PluginUnchanged, FeedUnchanged
<1>2. \E x \in {"none", "join", "add", "leave"} :
         call[l] \in {"none", "join"} /\ call' = [call EXCEPT ![l] = x]
  BY DEF Demand, JoinResolves
<1>3. call' \in [LiveLot -> {"none", "join", "add", "leave", "schedule"}]
  BY <1>0, <1>2
<1>4. viewed' \subseteq LiveLot /\ views' \in 0 .. MaxViews
  <2>1. viewed \subseteq LiveLot /\ views \in 0 .. MaxViews
    BY <1>0 DEF LiveTyped
  <2>2. views' = views \/ (views < MaxViews /\ views' = views + 1)
    BY DEF Demand, JoinResolves
  <2>3. views' \in 0 .. MaxViews
    BY <2>1, <2>2, LiveNumbers
  <2>4. viewed' \subseteq LiveLot
    BY <2>1 DEF Demand, JoinResolves
  <2> QED
    BY <2>3, <2>4
<1>5. shown' \in [LiveLot -> {"nothing", "live", "not live"}]
  BY <1>0 DEF Demand, JoinResolves, LiveTyped
<1>6. LiveTyped'
  BY <1>0, <1>1, <1>3, <1>4, <1>5 DEF LiveTyped
<1>7. Pending' = Pending
  <2>1. (\E m \in LiveLot : call'[m] = "schedule") <=> (\E m \in LiveLot : call[m] = "schedule")
    <3>1. /\ \A m \in LiveLot : m # l => call'[m] = call[m]
          /\ call[l] # "schedule" /\ call'[l] # "schedule"
      BY <1>0, <1>2
    <3> QED
      BY <3>1
  <2> QED
    BY <1>1, <2>1 DEF Pending
<1> QED
  BY <1>1, <1>6, <1>7, FeedStays, OffStays

LEMMA JoinAddsKeeps == ASSUME LiveInv, NEW l \in LiveLot, JoinAdds(l) PROVE LiveInv'
<1>0. /\ LiveTyped /\ call \in [LiveLot -> {"none", "join", "add", "leave", "schedule"}]
      /\ IsFiniteSet(feedLots) /\ Cardinality(feedLots) <= MaxLiveLots /\ feedLots \subseteq LiveLot
  BY DEF LiveInv, LiveTyped
<1>1. UNCHANGED <<liveEnabled, enables, closing, gen, stop, rebuild, run, viewed, views, timer, shown>>
  BY DEF JoinAdds, PluginUnchanged, FeedUnchanged
<1>2. CASE Cardinality(feedLots) >= MaxLiveLots
  <2>1. call[l] = "add" /\ call' = [call EXCEPT ![l] = "none"] /\ feedLots' = feedLots
    BY <1>2 DEF JoinAdds
  <2>2. LiveTyped'
    BY <1>0, <1>1, <2>1 DEF LiveTyped
  <2>3. Pending' = Pending
    <3>1. (\E m \in LiveLot : call'[m] = "schedule") <=> (\E m \in LiveLot : call[m] = "schedule")
      <4>1. /\ \A m \in LiveLot : m # l => call'[m] = call[m]
            /\ call[l] # "schedule" /\ call'[l] # "schedule"
        BY <1>0, <2>1
      <4> QED
        BY <4>1
    <3> QED
      BY <1>1, <3>1 DEF Pending
  <2> QED
    BY <1>1, <2>1, <2>2, <2>3, FeedStays, OffStays
<1>3. CASE ~ (Cardinality(feedLots) >= MaxLiveLots)
  <2>1. call' = [call EXCEPT ![l] = "schedule"] /\ feedLots' = feedLots \cup {l}
    BY <1>3 DEF JoinAdds
  <2>2. IsFiniteSet(feedLots') /\ Cardinality(feedLots') <= MaxLiveLots
    <3>1. Cardinality(feedLots) \in Nat
      BY <1>0, FS_CardinalityType
    <3>2. CASE l \in feedLots
      <4>1. feedLots' = feedLots
        BY <2>1, <3>2
      <4> QED
        BY <1>0, <4>1
    <3>3. CASE l \notin feedLots
      <4>1. IsFiniteSet(feedLots') /\ Cardinality(feedLots') = Cardinality(feedLots) + 1
        BY <1>0, <2>1, <3>3, FS_AddElement
      <4> QED
        BY <1>3, <3>1, <4>1, LiveNumbers
    <3> QED
      BY <3>2, <3>3
  <2>3. LiveTyped'
    <3>1. call' \in [LiveLot -> {"none", "join", "add", "leave", "schedule"}] /\ feedLots' \subseteq LiveLot
      BY <1>0, <2>1
    <3> QED
      BY <1>0, <1>1, <2>2, <3>1 DEF LiveTyped
  <2>4. Pending'
    BY <1>0, <2>1 DEF Pending
  <2> QED
    BY <1>1, <2>3, <2>4, FeedStays, OffStays
<1> QED
  BY <1>2, <1>3

LEMMA LeaveRemovesKeeps == ASSUME LiveInv, NEW l \in LiveLot, LeaveRemoves(l) PROVE LiveInv'
<1>0. /\ LiveTyped /\ call \in [LiveLot -> {"none", "join", "add", "leave", "schedule"}]
      /\ IsFiniteSet(feedLots) /\ Cardinality(feedLots) <= MaxLiveLots /\ feedLots \subseteq LiveLot
  BY DEF LiveInv, LiveTyped
<1>1. /\ UNCHANGED <<liveEnabled, enables, closing, gen, stop, rebuild, run, viewed, views, timer, shown>>
      /\ call[l] = "leave" /\ feedLots' = feedLots \ {l}
      /\ call' = [call EXCEPT ![l] = IF l \in feedLots THEN "schedule" ELSE "none"]
  BY DEF LeaveRemoves, PluginUnchanged, FeedUnchanged
<1>2. IsFiniteSet(feedLots') /\ Cardinality(feedLots') <= MaxLiveLots
  <2>1. Cardinality(feedLots) \in Nat
    BY <1>0, FS_CardinalityType
  <2>2. IsFiniteSet(feedLots') /\ Cardinality(feedLots') \in Nat /\ Cardinality(feedLots') <= Cardinality(feedLots)
    <3>1. feedLots' \subseteq feedLots
      BY <1>1
    <3>2. IsFiniteSet(feedLots') /\ Cardinality(feedLots') <= Cardinality(feedLots)
      BY <1>0, <3>1, FS_Subset
    <3> QED
      BY <3>2, FS_CardinalityType
  <2> QED
    BY <1>0, <2>1, <2>2, LiveNumbers
<1>3. LiveTyped'
  <2>1. call' \in [LiveLot -> {"none", "join", "add", "leave", "schedule"}] /\ feedLots' \subseteq LiveLot
    BY <1>0, <1>1
  <2> QED
    BY <1>0, <1>1, <1>2, <2>1 DEF LiveTyped
<1>4. Pending' \/ (~ Pending /\ feedLots' = feedLots)
  <2>1. CASE l \in feedLots
    BY <1>0, <1>1, <2>1 DEF Pending
  <2>2. CASE l \notin feedLots
    <3>1. feedLots' = feedLots
      BY <1>1, <2>2
    <3>2. /\ \A m \in LiveLot : m # l => call'[m] = call[m]
          /\ call[l] # "schedule" /\ call'[l] # "schedule"
      BY <1>0, <1>1, <2>2
    <3>3. Pending' = Pending
      BY <1>1, <3>2 DEF Pending
    <3> QED
      BY <3>1, <3>3
  <2> QED
    BY <2>1, <2>2
<1> QED
  BY <1>1, <1>3, <1>4, FeedStays, OffStays

LEMMA LifeKeeps ==
    ASSUME LiveInv,
           \/ \E l \in LiveLot : Schedule(l)
           \/ ShutdownStarts \/ ShutdownUnwatches \/ EnableLive \/ UNCHANGED liveVars
    PROVE  LiveInv'
<1>0. LiveTyped /\ call \in [LiveLot -> {"none", "join", "add", "leave", "schedule"}]
  BY DEF LiveInv, LiveTyped
<1>1. CASE \E l \in LiveLot : Schedule(l)
  <2>1. PICK l \in LiveLot : Schedule(l)
    BY <1>1
  <2>2. /\ call' = [call EXCEPT ![l] = "none"] /\ timer' = "armed"
        /\ UNCHANGED <<liveEnabled, enables, closing, gen, stop, rebuild, run, viewed, views, feedLots, shown>>
    BY <2>1 DEF Schedule, Armed, PluginUnchanged, FeedUnchanged
  <2>3. LiveTyped'
    BY <1>0, <2>2 DEF LiveTyped
  <2>4. Pending'
    BY <2>2 DEF Pending
  <2> QED
    BY <2>2, <2>3, <2>4, FeedStays, OffStays
<1>2. CASE ShutdownStarts \/ ShutdownUnwatches \/ EnableLive \/ UNCHANGED liveVars
  <2>1. UNCHANGED <<call, feedLots, timer, gen, stop, rebuild, run>>
    BY <1>2 DEF ShutdownStarts, ShutdownUnwatches, EnableLive, liveVars
  <2>2. /\ liveEnabled' \in 0 .. MaxEnabled /\ enables' \in 0 .. MaxEnabled
        /\ closing' \in {"no", "unwatch", "close"}
    <3>1. liveEnabled \in 0 .. MaxEnabled /\ enables \in 0 .. MaxEnabled /\ closing \in {"no", "unwatch", "close"}
      BY <1>0 DEF LiveTyped
    <3>2. enables < MaxEnabled => enables + 1 \in 0 .. MaxEnabled
      BY <3>1, LiveNumbers
    <3>3. liveEnabled' \in {liveEnabled, 0} \/ (enables < MaxEnabled /\ liveEnabled' = enables + 1)
      BY <1>2 DEF ShutdownStarts, ShutdownUnwatches, EnableLive, liveVars
    <3>4. enables' = enables \/ (enables < MaxEnabled /\ enables' = enables + 1)
      BY <1>2 DEF ShutdownStarts, ShutdownUnwatches, EnableLive, liveVars
    <3>5. closing' \in {"no", "unwatch", "close"}
      BY <1>2, <3>1 DEF ShutdownStarts, ShutdownUnwatches, EnableLive, liveVars
    <3> QED
      BY <3>1, <3>2, <3>3, <3>4, <3>5, LiveNumbers
  <2>3. /\ viewed' \subseteq LiveLot /\ views' \in 0 .. MaxViews
        /\ shown' \in [LiveLot -> {"nothing", "live", "not live"}]
    BY <1>0, <1>2 DEF ShutdownStarts, ShutdownUnwatches, EnableLive, liveVars, LiveTyped
  <2>4. LiveTyped'
    BY <1>0, <2>1, <2>2, <2>3 DEF LiveTyped
  <2>5. Pending' = Pending
    BY <2>1 DEF Pending
  <2>6. NoneWhenOff'
    <3>1. CASE ShutdownStarts
      BY <3>1 DEF ShutdownStarts, NoneWhenOff
    <3>2. CASE ShutdownUnwatches
      BY <3>2 DEF ShutdownUnwatches, NoneWhenOff
    <3>3. CASE EnableLive
      <4>0. enables \in 0 .. MaxEnabled
        BY <1>0 DEF LiveTyped
      <4>1. enables + 1 # 0
        BY <4>0, LiveNumbers
      <4>2. liveEnabled' = enables + 1
        BY <3>3 DEF EnableLive
      <4> QED
        BY <4>1, <4>2 DEF NoneWhenOff
    <3>4. CASE UNCHANGED liveVars
      BY <3>4, OffStays DEF liveVars
    <3> QED
      BY <1>2, <3>1, <3>2, <3>3, <3>4
  <2> QED
    BY <2>1, <2>4, <2>5, <2>6, FeedStays
<1> QED
  BY <1>1, <1>2

(* The step of one rebuild. *)
LEMMA RebuildMoves ==
    ASSUME LiveTyped, NEW b \in Rebuilder, NEW x \in Rebuilds, rebuild' = [rebuild EXCEPT ![b] = x]
    PROVE  /\ rebuild' \in [Rebuilder -> Rebuilds] /\ rebuild'[b] = x
           /\ \A c \in Rebuilder : c # b => rebuild'[c] = rebuild[c]
  BY DEF LiveTyped

LEMMA TimerFiresKeeps == ASSUME LiveInv, NEW b \in Rebuilder, TimerFires(b) PROVE LiveInv'
<1> DEFINE x == [IdleRebuild EXCEPT !.pc = "start"]
<1>0. LiveTyped /\ timer \in {"none", "armed", "spent"}
  BY DEF LiveInv, LiveTyped
<1>1. /\ rebuild[b].pc = "idle" /\ timer' = "spent" /\ rebuild' = [rebuild EXCEPT ![b] = x]
      /\ UNCHANGED <<liveEnabled, enables, closing, viewed, views, call, feedLots, gen, stop, run, shown>>
  BY DEF TimerFires, PluginUnchanged
<1>2. x \in Rebuilds /\ x.pc = "start"
  BY IdleFeed DEF Rebuilds
<1> HIDE DEF x
<1>3. /\ rebuild' \in [Rebuilder -> Rebuilds] /\ rebuild'[b] = x
      /\ \A c \in Rebuilder : c # b => rebuild'[c] = rebuild[c]
  BY <1>0, <1>1, <1>2, RebuildMoves
<1>4. LiveTyped'
  BY <1>0, <1>1, <1>3 DEF LiveTyped
<1>5. /\ \A c \in Rebuilder : Busy(c)' = Busy(c) /\ Newest(c)' = Newest(c)
      /\ \A c \in Rebuilder : Busy(c) => rebuild'[c] = rebuild[c]
  BY <1>1, <1>2, <1>3 DEF Busy, Newest
<1>6. CancelHeld'
  BY <1>1, <1>5 DEF LiveInv, CancelHeld, Running, Busy
<1>7. Numbered'
  BY <1>1, <1>5 DEF LiveInv, Numbered
<1>8. NewestAlone' /\ NoneWhenOff'
  BY <1>1, <1>5 DEF LiveInv, NewestAlone, NoneWhenOff
<1>9. SetMatches'
  BY <1>2, <1>3 DEF SetMatches, Pending
<1> QED
  BY <1>4, <1>6, <1>7, <1>8, <1>9 DEF LiveInv

(* What cancelling a generation leaves. *)
LEMMA CancelledFacts ==
    ASSUME LiveTyped, NEW g \in 0 .. MaxGen, run' = Cancelled(g)
    PROVE  /\ run' \in [Gens -> FeedRuns]
           /\ \A h \in Gens : run'[h].watched = run[h].watched
           /\ \A h \in Gens : Running(h)' => Running(h) /\ h # g
<1>1. run \in [Gens -> FeedRuns] /\ \A h \in Gens : run[h] \in FeedRuns
  BY DEF LiveTyped
<1>2. \A h \in Gens : run'[h] = IF h = g THEN [run[h] EXCEPT !.cancelled = TRUE] ELSE run[h]
  BY DEF Cancelled
<1>3. \A h \in Gens : LET x == [run[h] EXCEPT !.cancelled = TRUE] IN
                      /\ x \in FeedRuns /\ x.watched = run[h].watched /\ x.cancelled = TRUE
  BY <1>1 DEF FeedRuns
<1>4. \A h \in Gens : run'[h] \in FeedRuns /\ run'[h].watched = run[h].watched
  BY <1>1, <1>2, <1>3
<1>5. run' \in [Gens -> FeedRuns]
  BY <1>4 DEF Cancelled
<1>6. \A h \in Gens : Running(h)' => Running(h) /\ h # g
  BY <1>2, <1>3 DEF Running
<1> QED
  BY <1>4, <1>5, <1>6

(* liveFeed.close: nothing runs, and every rebuild is overtaken. *)
LEMMA CloseFeedKeeps ==
    ASSUME LiveInv, gen < MaxGen, CloseFeed, UNCHANGED <<liveEnabled, enables, viewed, views, call, shown>>,
           closing' \in {"no", "unwatch", "close"}, rebuild' \in [Rebuilder -> Rebuilds],
           \A b \in Rebuilder : rebuild'[b].pc = "idle" \/ rebuild'[b] = rebuild[b],
           \A b \in Rebuilder : rebuild[b].pc = "cancel" => rebuild'[b] = rebuild[b]
    PROVE  LiveInv'
<1>0. LiveTyped /\ gen \in 0 .. MaxGen /\ stop \in 0 .. MaxGen
  BY DEF LiveInv, LiveTyped
<1>1. gen' = gen + 1 /\ run' = Cancelled(stop) /\ stop' = 0 /\ feedLots' = {} /\ timer' = "none"
  BY DEF CloseFeed
<1>2. /\ run' \in [Gens -> FeedRuns]
      /\ \A h \in Gens : Running(h)' => Running(h) /\ h # stop
  BY <1>0, <1>1, CancelledFacts
<1>3. gen' \in 0 .. MaxGen /\ stop' \in 0 .. MaxGen
  BY <1>0, <1>1, LiveNumbers
<1>4. IsFiniteSet(feedLots') /\ Cardinality(feedLots') <= MaxLiveLots /\ feedLots' \subseteq LiveLot
  BY <1>1, FS_EmptySet, LiveNumbers
<1>5. LiveTyped'
  BY <1>0, <1>1, <1>2, <1>3, <1>4 DEF LiveTyped
<1>6. CancelHeld'
  BY <1>2 DEF LiveInv, CancelHeld
<1>7. \A b \in Rebuilder : Busy(b)' => Busy(b) /\ rebuild'[b] = rebuild[b]
  BY DEF Busy
<1>8. Numbered'
  <2> SUFFICES ASSUME NEW b \in Rebuilder, Busy(b)'
               PROVE  /\ rebuild'[b].gen \in 1 .. gen'
                      /\ \A c \in Rebuilder : Busy(c)' /\ rebuild'[c].gen = rebuild'[b].gen => c = b
    BY DEF Numbered
  <2>1. /\ rebuild'[b].gen = rebuild[b].gen /\ rebuild[b].gen \in 1 .. gen
        /\ \A c \in Rebuilder : Busy(c) /\ rebuild[c].gen = rebuild[b].gen => c = b
    BY <1>7 DEF LiveInv, Numbered
  <2>2. rebuild'[b].gen \in 1 .. gen'
    BY <1>0, <1>1, <2>1
  <2> QED
    BY <1>7, <2>1, <2>2
<1>9. \A b \in Rebuilder : ~ Newest(b)'
  <2> SUFFICES ASSUME NEW b \in Rebuilder, Newest(b)' PROVE FALSE
    OBVIOUS
  <2>1. Busy(b)' /\ rebuild'[b].gen = gen'
    BY DEF Newest
  <2>2. rebuild[b].gen \in 1 .. gen /\ rebuild[b].gen = gen + 1
    BY <1>1, <1>7, <2>1 DEF LiveInv, Numbered
  <2> QED
    BY <1>0, <2>2
<1>10. NewestAlone' /\ NoneWhenOff' /\ SetMatches'
  BY <1>1, <1>9 DEF NewestAlone, NoneWhenOff, SetMatches
<1> QED
  BY <1>5, <1>6, <1>8, <1>10 DEF LiveInv

LEMMA ShutdownClosesKeeps == ASSUME LiveInv, ShutdownCloses PROVE LiveInv'
<1>1. rebuild' = rebuild /\ rebuild' \in [Rebuilder -> Rebuilds]
  BY DEF ShutdownCloses, LiveInv, LiveTyped
<1> QED
  BY <1>1, CloseFeedKeeps DEF ShutdownCloses

LEMMA RebuildStartsKeeps == ASSUME LiveInv, NEW b \in Rebuilder, RebuildStarts(b) PROVE LiveInv'
<1>0. LiveTyped /\ gen \in 0 .. MaxGen /\ stop \in 0 .. MaxGen /\ feedLots \subseteq LiveLot
      /\ liveEnabled \in 0 .. MaxEnabled
  BY DEF LiveInv, LiveTyped
<1>1. /\ rebuild[b].pc = "start" /\ gen < MaxGen
      /\ UNCHANGED <<liveEnabled, enables, closing, viewed, views, call, shown>>
  BY DEF RebuildStarts, PluginUnchanged
<1>2. CASE liveEnabled = 0
  <2>1. CloseFeed /\ rebuild' = [rebuild EXCEPT ![b] = IdleRebuild]
    BY <1>2 DEF RebuildStarts
  <2>2. /\ rebuild' \in [Rebuilder -> Rebuilds] /\ rebuild'[b] = IdleRebuild
        /\ \A c \in Rebuilder : c # b => rebuild'[c] = rebuild[c]
    BY <1>0, <2>1, IdleFeed, RebuildMoves
  <2>3. closing' \in {"no", "unwatch", "close"}
    BY <1>0, <1>1 DEF LiveTyped
  <2>4. /\ \A c \in Rebuilder : rebuild'[c].pc = "idle" \/ rebuild'[c] = rebuild[c]
        /\ \A c \in Rebuilder : rebuild[c].pc = "cancel" => rebuild'[c] = rebuild[c]
    BY <1>1, <2>2, IdleFeed
  <2> QED
    BY <1>1, <2>1, <2>2, <2>3, <2>4, CloseFeedKeeps
<1>3. CASE liveEnabled # 0
  <2> DEFINE x == [pc |-> "cancel", host |-> liveEnabled, gen |-> gen + 1, watched |-> feedLots, prev |-> stop]
  <2>1. /\ gen' = gen + 1 /\ stop' = 0 /\ rebuild' = [rebuild EXCEPT ![b] = x]
        /\ UNCHANGED <<run, feedLots, timer>>
    BY <1>3 DEF RebuildStarts
  <2>2. gen + 1 \in 0 .. MaxGen /\ gen + 1 \in 1 .. gen + 1
    BY <1>0, <1>1, LiveNumbers
  <2>3. x \in Rebuilds /\ x.pc = "cancel" /\ x.gen = gen + 1 /\ x.watched = feedLots /\ x.prev = stop
    BY <1>0, <2>2 DEF Rebuilds
  <2> HIDE DEF x
  <2>4. /\ rebuild' \in [Rebuilder -> Rebuilds] /\ rebuild'[b] = x
        /\ \A c \in Rebuilder : c # b => rebuild'[c] = rebuild[c]
    BY <1>0, <2>1, <2>3, RebuildMoves
  <2>5. LiveTyped'
    <3>1. stop' \in 0 .. MaxGen
      BY <2>1, LiveNumbers
    <3> QED
      BY <1>0, <1>1, <2>1, <2>2, <2>4, <3>1 DEF LiveTyped
  <2>6. CancelHeld'
    <3> SUFFICES ASSUME NEW g \in Gens, Running(g)'
                 PROVE  \E c \in Rebuilder : rebuild'[c].pc = "cancel" /\ rebuild'[c].prev = g
      BY DEF CancelHeld
    <3>1. Running(g)
      BY <2>1 DEF Running
    <3>2. CASE g = stop
      BY <2>3, <2>4, <3>2
    <3>3. CASE g # stop
      <4>1. PICK c \in Rebuilder : rebuild[c].pc = "cancel" /\ rebuild[c].prev = g
        BY <3>1, <3>3 DEF LiveInv, CancelHeld
      <4>2. c # b
        BY <1>1, <4>1
      <4> QED
        BY <2>4, <4>1, <4>2
    <3> QED
      BY <3>2, <3>3
  <2>7. \A c \in Rebuilder : c # b => Busy(c)' = Busy(c)
    BY <2>4 DEF Busy
  <2>8. \A c \in Rebuilder : c # b /\ Busy(c) => rebuild[c].gen \in 1 .. gen
    BY DEF LiveInv, Numbered
  <2>9. Numbered'
    <3> SUFFICES ASSUME NEW c \in Rebuilder, Busy(c)'
                 PROVE  /\ rebuild'[c].gen \in 1 .. gen'
                        /\ \A d \in Rebuilder : Busy(d)' /\ rebuild'[d].gen = rebuild'[c].gen => d = c
      BY DEF Numbered
    <3>1. CASE c = b
      <4>1. rebuild'[c].gen = gen + 1
        BY <2>3, <2>4, <3>1
      <4>2. ASSUME NEW d \in Rebuilder, Busy(d)', rebuild'[d].gen = gen + 1, d # c PROVE FALSE
        <5>1. rebuild[d].gen \in 1 .. gen /\ rebuild'[d].gen = rebuild[d].gen
          BY <2>4, <2>7, <2>8, <3>1, <4>2
        <5> QED
          BY <1>0, <4>2, <5>1
      <4> QED
        BY <2>1, <2>2, <4>1, <4>2
    <3>2. CASE c # b
      <4>1. /\ rebuild'[c].gen = rebuild[c].gen /\ rebuild[c].gen \in 1 .. gen /\ Busy(c)
            /\ \A d \in Rebuilder : Busy(d) /\ rebuild[d].gen = rebuild[c].gen => d = c
        BY <2>4, <2>7, <3>2 DEF LiveInv, Numbered
      <4>2. rebuild'[c].gen \in 1 .. gen' /\ rebuild'[b].gen # rebuild'[c].gen
        BY <1>0, <2>1, <2>3, <2>4, <4>1
      <4> QED
        BY <2>4, <2>7, <4>1, <4>2
    <3> QED
      BY <3>1, <3>2
  <2>10. \A c \in Rebuilder : Newest(c)' => c = b
    <3> SUFFICES ASSUME NEW c \in Rebuilder, Newest(c)', c # b PROVE FALSE
      OBVIOUS
    <3>1. rebuild[c].gen \in 1 .. gen /\ rebuild[c].gen = gen + 1
      BY <2>1, <2>4, <2>7, <2>8 DEF Newest
    <3> QED
      BY <1>0, <3>1
  <2>11. NewestAlone'
    BY <2>1 DEF NewestAlone
  <2>12. SetMatches'
    BY <2>1, <2>3, <2>4, <2>10 DEF SetMatches
  <2>13. NoneWhenOff'
    BY <1>1, <1>3 DEF NoneWhenOff
  <2> QED
    BY <2>5, <2>6, <2>9, <2>11, <2>12, <2>13 DEF LiveInv
<1> QED
  BY <1>2, <1>3

LEMMA RebuildCancelsKeeps == ASSUME LiveInv, NEW b \in Rebuilder, RebuildCancels(b) PROVE LiveInv'
<1> DEFINE x == IF rebuild[b].watched = {} THEN IdleRebuild ELSE [rebuild[b] EXCEPT !.pc = "check"]
<1>0. LiveTyped /\ rebuild[b] \in Rebuilds /\ stop \in 0 .. MaxGen
  BY DEF LiveInv, LiveTyped
<1>1. /\ rebuild[b].pc = "cancel" /\ run' = Cancelled(rebuild[b].prev) /\ rebuild' = [rebuild EXCEPT ![b] = x]
      /\ UNCHANGED <<liveEnabled, enables, closing, viewed, views, call, feedLots, timer, gen, stop, shown>>
  BY DEF RebuildCancels, PluginUnchanged
<1>2. /\ x \in Rebuilds /\ x.pc \in {"idle", "check"}
      /\ x.pc = "check" => x.gen = rebuild[b].gen /\ x.watched = rebuild[b].watched
  BY <1>0, IdleFeed DEF Rebuilds
<1> HIDE DEF x
<1>3. /\ rebuild' \in [Rebuilder -> Rebuilds] /\ rebuild'[b] = x
      /\ \A c \in Rebuilder : c # b => rebuild'[c] = rebuild[c]
  BY <1>0, <1>1, <1>2, RebuildMoves
<1>4. rebuild[b].prev \in 0 .. MaxGen
  BY <1>0 DEF Rebuilds
<1>5. /\ run' \in [Gens -> FeedRuns]
      /\ \A h \in Gens : run'[h].watched = run[h].watched
      /\ \A h \in Gens : Running(h)' => Running(h) /\ h # rebuild[b].prev
  BY <1>0, <1>1, <1>4, CancelledFacts
<1>6. LiveTyped'
  BY <1>0, <1>1, <1>3, <1>5 DEF LiveTyped
<1>7. CancelHeld'
  <2> SUFFICES ASSUME NEW g \in Gens, Running(g)', g # stop'
               PROVE  \E c \in Rebuilder : rebuild'[c].pc = "cancel" /\ rebuild'[c].prev = g
    BY DEF CancelHeld
  <2>1. Running(g) /\ g # rebuild[b].prev /\ g # stop
    BY <1>1, <1>5
  <2>2. PICK c \in Rebuilder : rebuild[c].pc = "cancel" /\ rebuild[c].prev = g
    BY <2>1 DEF LiveInv, CancelHeld
  <2> QED
    BY <1>3, <2>1, <2>2
<1>8. \A c \in Rebuilder : /\ Busy(c)' => Busy(c) /\ rebuild'[c].gen = rebuild[c].gen
                           /\ Newest(c)' => Newest(c) /\ rebuild'[c].watched = rebuild[c].watched
  BY <1>1, <1>2, <1>3 DEF Busy, Newest
<1>9. Numbered'
  BY <1>1, <1>8 DEF LiveInv, Numbered
<1>10. NewestAlone' /\ NoneWhenOff'
  BY <1>1, <1>8 DEF LiveInv, NewestAlone, NoneWhenOff
<1>11. Pending' = Pending
  <2>1. \A c \in Rebuilder : rebuild'[c].pc = "start" <=> rebuild[c].pc = "start"
    BY <1>1, <1>2, <1>3
  <2> QED
    BY <1>1, <2>1 DEF Pending
<1>12. SetMatches'
  <2>1. stop # 0 => stop \in Gens
    BY <1>0, LiveNumbers DEF Gens
  <2>2. stop # 0 => run'[stop].watched = run[stop].watched
    BY <1>5, <2>1
  <2> QED
    BY <1>1, <1>8, <1>11, <2>2 DEF LiveInv, SetMatches
<1> QED
  BY <1>6, <1>7, <1>9, <1>10, <1>12 DEF LiveInv

LEMMA RebuildRunsKeeps == ASSUME LiveInv, NEW b \in Rebuilder, RebuildRuns(b) PROVE LiveInv'
<1>0. /\ LiveTyped /\ rebuild[b] \in Rebuilds /\ stop \in 0 .. MaxGen /\ gen \in 0 .. MaxGen
      /\ run \in [Gens -> FeedRuns]
  BY DEF LiveInv, LiveTyped
<1>1. /\ rebuild[b].pc = "check" /\ rebuild' = [rebuild EXCEPT ![b] = IdleRebuild]
      /\ UNCHANGED <<liveEnabled, enables, closing, viewed, views, call, feedLots, timer, gen, shown>>
  BY DEF RebuildRuns, PluginUnchanged
<1>2. /\ rebuild' \in [Rebuilder -> Rebuilds] /\ rebuild'[b] = IdleRebuild
      /\ \A c \in Rebuilder : c # b => rebuild'[c] = rebuild[c]
  BY <1>0, <1>1, IdleFeed, RebuildMoves
<1>3. \A c \in Rebuilder : /\ Busy(c)' => c # b /\ Busy(c) /\ rebuild'[c].gen = rebuild[c].gen
                           /\ Newest(c)' => c # b /\ Newest(c) /\ rebuild'[c].watched = rebuild[c].watched
  BY <1>1, <1>2, IdleFeed DEF Busy, Newest
<1>4. Numbered'
  BY <1>1, <1>3 DEF LiveInv, Numbered
<1>5. Pending' = Pending
  <2>1. \A c \in Rebuilder : rebuild'[c].pc = "start" <=> rebuild[c].pc = "start"
    BY <1>1, <1>2, IdleFeed
  <2> QED
    BY <1>1, <2>1 DEF Pending
<1>6. \A c \in Rebuilder : rebuild[c].pc = "cancel" => rebuild'[c] = rebuild[c]
  BY <1>1, <1>2
<1>7. CASE ~ Current(b)
  <2>1. UNCHANGED <<stop, run>>
    BY <1>7 DEF RebuildRuns
  <2>2. LiveTyped'
    BY <1>0, <1>1, <1>2, <2>1 DEF LiveTyped
  <2>3. CancelHeld'
    BY <1>6, <2>1 DEF LiveInv, CancelHeld, Running
  <2>4. NewestAlone' /\ NoneWhenOff'
    BY <1>1, <1>3, <2>1 DEF LiveInv, NewestAlone, NoneWhenOff
  <2>5. SetMatches'
    BY <1>1, <1>3, <1>5, <2>1 DEF LiveInv, SetMatches
  <2> QED
    BY <1>4, <2>2, <2>3, <2>4, <2>5 DEF LiveInv
<1>8. CASE Current(b)
  <2> DEFINE x == [NoRun EXCEPT !.pc = "dial", !.host = rebuild[b].host, !.watched = rebuild[b].watched]
  <2>1. /\ rebuild[b].gen = gen /\ stop' = gen /\ run' = [run EXCEPT ![gen] = x]
    BY <1>8 DEF RebuildRuns, Current
  <2>2. Newest(b) /\ stop = 0 /\ gen \in 1 .. gen
    BY <1>1, <2>1 DEF LiveInv, NewestAlone, Numbered, Newest, Busy
  <2>3. gen \in Gens /\ gen # 0
    BY <1>0, <2>2, LiveNumbers DEF Gens
  <2>4. x \in FeedRuns /\ x.watched = rebuild[b].watched
    BY <1>0, IdleFeed DEF FeedRuns, Rebuilds
  <2> HIDE DEF x
  <2>5. run' \in [Gens -> FeedRuns] /\ \A h \in Gens : run'[h] = IF h = gen THEN x ELSE run[h]
    BY <1>0, <2>1, <2>3, <2>4
  <2>6. LiveTyped'
    BY <1>0, <1>1, <1>2, <2>1, <2>5 DEF LiveTyped
  <2>7. CancelHeld'
    <3> SUFFICES ASSUME NEW g \in Gens, Running(g)', g # gen
                 PROVE  \E c \in Rebuilder : rebuild'[c].pc = "cancel" /\ rebuild'[c].prev = g
      BY <2>1 DEF CancelHeld
    <3>1. Running(g) /\ g # stop
      <4>1. run'[g] = run[g]
        BY <2>5
      <4>2. g # 0
        BY LiveNumbers DEF Gens
      <4> QED
        BY <2>2, <4>1, <4>2 DEF Running
    <3> QED
      BY <1>6, <3>1 DEF LiveInv, CancelHeld
  <2>8. \A c \in Rebuilder : ~ Newest(c)'
    <3> SUFFICES ASSUME NEW c \in Rebuilder, Newest(c)' PROVE FALSE
      OBVIOUS
    <3>1. c # b /\ Busy(c) /\ rebuild[c].gen = rebuild[b].gen /\ Busy(b)
      BY <1>1, <1>3, <2>1, <2>2 DEF Newest
    <3> QED
      BY <3>1 DEF LiveInv, Numbered
  <2>9. NewestAlone'
    BY <2>8 DEF NewestAlone
  <2>10. SetMatches'
    <3>1. Pending \/ rebuild[b].watched = feedLots
      BY <2>2 DEF LiveInv, SetMatches
    <3>2. run'[gen].watched = rebuild[b].watched
      BY <2>3, <2>4, <2>5
    <3> QED
      BY <1>1, <1>5, <2>1, <2>8, <3>1, <3>2 DEF SetMatches
  <2>11. NoneWhenOff'
    <3>1. ~ (liveEnabled = 0 /\ closing = "no")
      BY <2>2 DEF LiveInv, NoneWhenOff
    <3> QED
      BY <1>1, <3>1 DEF NoneWhenOff
  <2> QED
    BY <1>4, <2>6, <2>7, <2>9, <2>10, <2>11 DEF LiveInv
<1> QED
  BY <1>7, <1>8

(* A generation at work: its state changes, never what it watches. *)
LEMMA RunKeeps ==
    ASSUME LiveInv, NEW g \in Gens,
           \/ RunAnnounces(g) \/ RunLeaves(g) \/ RunTellsDown(g)
           \/ \E ok \in BOOLEAN : RunDials(g, ok)
    PROVE  LiveInv'
<1>0. LiveTyped /\ run \in [Gens -> FeedRuns] /\ run[g] \in FeedRuns
  BY DEF LiveInv, LiveTyped
<1>1. UNCHANGED <<liveEnabled, enables, closing, viewed, views, call, feedLots, timer, gen, stop, rebuild>>
  BY DEF RunAnnounces, RunLeaves, RunTellsDown, RunDials, PluginUnchanged, RunUnchanged
<1>2. PICK pc \in {"joined", "live", "down", "ended"} :
        /\ run' = [run EXCEPT ![g].pc = pc]
        /\ pc \in {"joined", "live"} => run[g].pc \in {"dial", "joined"}
  BY <1>0 DEF RunAnnounces, RunLeaves, RunTellsDown, RunDials, AfterLoop
<1> DEFINE x == [run[g] EXCEPT !.pc = pc]
<1>3. run' = [run EXCEPT ![g] = x]
  BY <1>0, <1>2
<1>4. /\ x \in FeedRuns /\ x.watched = run[g].watched /\ x.cancelled = run[g].cancelled /\ x.pc = pc
  BY <1>0 DEF FeedRuns
<1> HIDE DEF x
<1>5. run' \in [Gens -> FeedRuns] /\ \A h \in Gens : run'[h] = IF h = g THEN x ELSE run[h]
  BY <1>0, <1>3, <1>4
<1>6. /\ \A h \in Gens : run'[h].watched = run[h].watched
      /\ \A h \in Gens : Running(h)' => Running(h)
  BY <1>2, <1>4, <1>5 DEF Running
<1>7. shown' \in [LiveLot -> {"nothing", "live", "not live"}]
  <2>1. shown' = shown \/ \E what \in {"live", "not live"} : shown' = Told(g, what)
    BY DEF RunAnnounces, RunLeaves, RunTellsDown, RunDials
  <2>2. shown \in [LiveLot -> {"nothing", "live", "not live"}]
    BY <1>0 DEF LiveTyped
  <2>3. \A what \in {"live", "not live"} : Told(g, what) \in [LiveLot -> {"nothing", "live", "not live"}]
    BY <2>2 DEF Told
  <2> QED
    BY <2>1, <2>2, <2>3
<1>8. LiveTyped'
  BY <1>0, <1>1, <1>5, <1>7 DEF LiveTyped
<1>9. /\ \A b \in Rebuilder : Busy(b)' = Busy(b) /\ Newest(b)' = Newest(b)
      /\ Pending' = Pending
  BY <1>1 DEF Busy, Newest, Pending
<1>10. CancelHeld'
  BY <1>1, <1>6 DEF LiveInv, CancelHeld
<1>11. Numbered' /\ NewestAlone' /\ NoneWhenOff'
  BY <1>1, <1>9 DEF LiveInv, Numbered, NewestAlone, NoneWhenOff
<1>12. SetMatches'
  <2>1. stop # 0 => stop \in Gens
    <3>1. stop \in 0 .. MaxGen
      BY <1>0 DEF LiveTyped
    <3> QED
      BY <3>1, LiveNumbers DEF Gens
  <2>2. stop # 0 => run'[stop].watched = run[stop].watched
    BY <1>6, <2>1
  <2> QED
    BY <1>1, <1>9, <2>2 DEF LiveInv, SetMatches
<1> QED
  BY <1>8, <1>10, <1>11, <1>12 DEF LiveInv

LEMMA LiveInvStep == LiveInv /\ [LiveNext]_liveVars => LiveInv'
<1> SUFFICES ASSUME LiveInv, [LiveNext]_liveVars PROVE LiveInv'
  OBVIOUS
<1>1. CASE \/ \E l \in LiveLot : Demand(l)
           \/ \E l \in LiveLot, found1 \in {"yes", "no", "error"} : JoinResolves(l, found1)
  BY <1>1, DemandKeeps
<1>2. CASE \E l \in LiveLot : JoinAdds(l)
  BY <1>2, JoinAddsKeeps
<1>3. CASE \E l \in LiveLot : LeaveRemoves(l)
  BY <1>3, LeaveRemovesKeeps
<1>4. CASE \/ \E l \in LiveLot : Schedule(l)
           \/ ShutdownStarts \/ ShutdownUnwatches \/ EnableLive \/ UNCHANGED liveVars
  BY <1>4, LifeKeeps
<1>5. CASE \E b \in Rebuilder : TimerFires(b)
  BY <1>5, TimerFiresKeeps
<1>6. CASE \E b \in Rebuilder : RebuildStarts(b)
  BY <1>6, RebuildStartsKeeps
<1>7. CASE \E b \in Rebuilder : RebuildCancels(b)
  BY <1>7, RebuildCancelsKeeps
<1>8. CASE \E b \in Rebuilder : RebuildRuns(b)
  BY <1>8, RebuildRunsKeeps
<1>9. CASE \/ \E g \in Gens : RunAnnounces(g) \/ RunLeaves(g) \/ RunTellsDown(g)
           \/ \E g \in Gens, ok \in BOOLEAN : RunDials(g, ok)
  BY <1>9, RunKeeps
<1>10. CASE ShutdownCloses
  BY <1>10, ShutdownClosesKeeps
<1> HIDE DEF LiveInv
<1> QED
  BY <1>1, <1>2, <1>3, <1>4, <1>5, <1>6, <1>7, <1>8, <1>9, <1>10 DEF LiveNext

LEMMA LiveInvMeans == LiveInv => FeedMatchesDemand
<1> SUFFICES ASSUME LiveInv PROVE FeedMatchesDemand
  OBVIOUS
<1>0. LiveTyped
  BY DEF LiveInv
<1>1. LiveTypeOK
  <2>1. \A b \in Rebuilder :
          /\ rebuild[b].pc \in {"idle", "start", "cancel", "check"}
          /\ rebuild[b].watched \subseteq LiveLot /\ rebuild[b].prev \in 0 .. MaxGen
          /\ rebuild[b].gen \in 0 .. MaxGen /\ rebuild[b].host \in 0 .. MaxEnabled
    <3> SUFFICES ASSUME NEW b \in Rebuilder
                 PROVE  /\ rebuild[b].pc \in {"idle", "start", "cancel", "check"}
                        /\ rebuild[b].watched \subseteq LiveLot /\ rebuild[b].prev \in 0 .. MaxGen
                        /\ rebuild[b].gen \in 0 .. MaxGen /\ rebuild[b].host \in 0 .. MaxEnabled
      OBVIOUS
    <3>1. rebuild[b] \in Rebuilds
      BY <1>0 DEF LiveTyped
    <3> QED
      BY <3>1 DEF Rebuilds
  <2>2. \A g \in Gens :
          /\ run[g].pc \in {"none", "dial", "joined", "live", "down", "ended"}
          /\ run[g].watched \subseteq LiveLot /\ run[g].cancelled \in BOOLEAN
    <3> SUFFICES ASSUME NEW g \in Gens
                 PROVE  /\ run[g].pc \in {"none", "dial", "joined", "live", "down", "ended"}
                        /\ run[g].watched \subseteq LiveLot /\ run[g].cancelled \in BOOLEAN
      OBVIOUS
    <3>1. run[g] \in FeedRuns
      BY <1>0 DEF LiveTyped
    <3> QED
      BY <3>1 DEF FeedRuns
  <2> QED
    BY <1>0, <2>1, <2>2 DEF LiveTyped, LiveTypeOK
<1>2. \A g, h \in Gens : Owned(g) /\ Owned(h) => g = h
  <2>1. \A g \in Gens : Owned(g) => g = stop
    BY DEF LiveInv, CancelHeld, Owned
  <2> QED
    BY <2>1
<1>3. ASSUME FeedQuiet, NEW g \in Gens, Running(g) PROVE run[g].watched = feedLots /\ liveEnabled # 0
  <2>1. /\ \A b \in Rebuilder : rebuild[b].pc = "idle"
        /\ ~ Pending /\ closing = "no"
    BY <1>3 DEF FeedQuiet, Pending
  <2>2. g = stop
    BY <1>3, <2>1 DEF LiveInv, CancelHeld
  <2>3. g # 0
    BY LiveNumbers DEF Gens
  <2>4. run[stop].watched = feedLots
    BY <2>1, <2>2, <2>3 DEF LiveInv, SetMatches
  <2>5. liveEnabled # 0
    BY <2>1, <2>2, <2>3 DEF LiveInv, NoneWhenOff
  <2> QED
    BY <2>2, <2>4, <2>5
<1> QED
  BY <1>1, <1>2, <1>3 DEF FeedMatchesDemand

(* rebuild numbers its generations and looks at the number again before it   *)
(* starts one: however joins, leaves, overlapping rebuilds and a shutdown    *)
(* interleave, no two generations run uncancelled and unclaimed, and a feed  *)
(* at rest carries the watch set.                                            *)
THEOREM FeedFollowsDemand == LiveSpec => []FeedMatchesDemand
<1>1. LiveSpec => []LiveInv
  BY LiveInvInit, LiveInvStep, PTL DEF LiveSpec
<1> QED
  BY <1>1, LiveInvMeans, PTL

-----------------------------------------------------------------------------
(***************************************************************************)
(* The searches the plugin keeps.                                          *)
(***************************************************************************)

AskRuns == [pc : {"idle", "work", "store", "list", "hits", "row", "done"}, job : SUBSET AskJob,
            now : 0 .. MaxAskClock, drop : Seq(AskId)]

AskTyped ==
    /\ askKind \in {"search", "intent"}
    /\ askRow \in [AskId -> AskRows \cup {NoAsk}] /\ askHits \in [AskId -> AskText \cup {NoAsk}]
    /\ askKeyed \subseteq AskId /\ askJobs \subseteq AskJob /\ askClock \in AskId
    /\ askRun \in AskRuns
    /\ \A j \in askJobs : j.left > 0
    /\ askRun.pc # "idle" => askRun.now \in AskId

(* What the attempt under way has still to prune. *)
DropSet == {askRun.drop[n] : n \in 1 .. Len(askRun.drop)}

HitsHaveRow == \A i \in AskId : askHits[i] # NoAsk => askRow[i] # NoAsk

(* Only pruning deletes rows: until its hits are stored the attempt's own    *)
(* row is there.                                                             *)
RunHasRow == askRun.pc \in {"work", "store"} => \A j \in askRun.job : askRow[j.id] # NoAsk

(* Before a row goes its hits are gone. *)
HeadBare == askRun.pc = "row" => askHits[Head(askRun.drop)] = NoAsk

(* The list names rows that are there, each once. *)
DropListed ==
    /\ DropSet \subseteq Rows
    /\ \A m, n \in 1 .. Len(askRun.drop) : askRun.drop[m] = askRun.drop[n] => m = n
    /\ askRun.pc \in {"hits", "row"} => askRun.drop # <<>>

(* A search to be pruned, or that a pruning cut short left without its hits, *)
(* is older than one that stays.                                             *)
Outlived(i) == \E k \in Rows : Newer(k, i) /\ k \notin DropSet
BareOutlived ==
    \A i \in Rows :
        (askRow[i].status = "ready" /\ askHits[i] = NoAsk) \/ i \in DropSet => Outlived(i)

AskInv ==
    AskTyped /\ HitsHaveRow /\ RunHasRow /\ HeadBare /\ DropListed /\ BareOutlived

LEMMA AskNumbers ==
    /\ MaxAskClock \in Nat /\ MaxAskClock >= 1 /\ 1 \in AskId /\ AskAttempts \in Nat /\ AskAttempts >= 1
    /\ KeepSearches \in Nat /\ KeepSearches >= 1
    /\ NoAsk \notin AskText /\ NoAsk \notin AskRows
  BY AskAssumption DEF AskId

LEMMA RestingFacts ==
    /\ Resting \in AskRuns /\ Resting.pc = "idle" /\ Resting.drop = <<>> /\ Len(Resting.drop) = 0
<1>1. <<>> \in Seq(AskId)
  BY EmptySeq
<1>2. 0 \in 0 .. MaxAskClock
  BY AskNumbers
<1> QED
  BY <1>1, <1>2 DEF Resting, AskRuns

LEMMA AskFields ==
    ASSUME AskTyped
    PROVE  /\ askRun.drop \in Seq(AskId) /\ Len(askRun.drop) \in Nat /\ DropSet \subseteq AskId
           /\ \A i \in Rows : i \in AskId /\ askRow[i] \in AskRows /\ askRow[i].created \in AskId
           /\ \A i \in AskId : i \in Nat
<1>1. askRun.drop \in Seq(AskId)
  BY DEF AskTyped, AskRuns
<1>2. Len(askRun.drop) \in Nat /\ \A n \in 1 .. Len(askRun.drop) : askRun.drop[n] \in AskId
  BY <1>1, LenProperties, ElementOfSeq
<1>3. DropSet \subseteq AskId
  BY <1>2 DEF DropSet
<1>4. \A i \in Rows : i \in AskId /\ askRow[i] \in AskRows
  BY DEF Rows, AskTyped
<1>5. \A i \in Rows : askRow[i].created \in AskId
  BY <1>4 DEF AskRows
<1>6. \A i \in AskId : i \in Nat
  BY AskNumbers DEF AskId
<1> QED
  BY <1>1, <1>2, <1>3, <1>4, <1>5, <1>6

LEMMA AskInvInit == AskInit => AskInv
<1> SUFFICES ASSUME AskInit PROVE AskInv
  OBVIOUS
<1>1. /\ askRow = [i \in AskId |-> NoAsk] /\ askHits = [i \in AskId |-> NoAsk]
      /\ askJobs = {} /\ askKeyed = {} /\ askRun = Resting /\ askClock = 1
      /\ askKind \in {"search", "intent"}
  BY DEF AskInit
<1>2. AskTyped
  <2>1. askRow \in [AskId -> AskRows \cup {NoAsk}] /\ askHits \in [AskId -> AskText \cup {NoAsk}]
    BY <1>1
  <2> QED
    BY <1>1, <2>1, AskNumbers, RestingFacts DEF AskTyped
<1>3. Rows = {} /\ DropSet = {}
  <2>1. 1 .. 0 = {}
    OBVIOUS
  <2> QED
    BY <1>1, <2>1, RestingFacts DEF Rows, DropSet
<1>4. HitsHaveRow /\ BareOutlived
  BY <1>1, <1>3 DEF HitsHaveRow, BareOutlived
<1>5. RunHasRow /\ HeadBare
  BY <1>1, RestingFacts DEF RunHasRow, HeadBare
<1>6. DropListed
  <2>1. \A m, n \in 1 .. Len(askRun.drop) : askRun.drop[m] = askRun.drop[n] => m = n
    BY <1>1, RestingFacts
  <2> QED
    BY <1>1, <1>3, <2>1, RestingFacts DEF DropListed
<1> QED
  BY <1>2, <1>4, <1>5, <1>6 DEF AskInv

(* Newer is a strict order on the rows. *)
LEMMA NewerFacts ==
    ASSUME AskTyped, NEW i \in Rows, NEW k \in Rows, Newer(i, k)
    PROVE  i # k /\ ~ Newer(k, i)
<1>1. askRow[i].created \in Nat /\ askRow[k].created \in Nat /\ i \in Nat /\ k \in Nat
  BY AskFields
<1> QED
  BY <1>1 DEF Newer

(* Steps that delete nothing: rows keep the time of their creation, a row    *)
(* becomes ready with its hits, and the list stays or is dropped.            *)
LEMMA NothingDeleted ==
    ASSUME AskInv, AskTyped',
           \A m \in Rows : askRow'[m] # NoAsk /\ askRow'[m].created = askRow[m].created,
           \A m \in AskId : askRow'[m] # NoAsk /\ askRow'[m].status = "ready" =>
               (askRow[m] # NoAsk /\ askRow[m].status = "ready") \/ askHits'[m] # NoAsk,
           \A m \in AskId : askHits'[m] # NoAsk => askHits[m] # NoAsk \/ askRow'[m] # NoAsk,
           \A m \in AskId : askHits[m] # NoAsk => askHits'[m] # NoAsk,
           askRun'.drop \in {askRun.drop, <<>>},
           RunHasRow', HeadBare', askRun'.pc \in {"hits", "row"} => askRun'.drop # <<>>
    PROVE  AskInv'
<1>0. AskTyped
  BY DEF AskInv
<1>1. Rows \subseteq Rows'
  BY DEF Rows
<1>2. DropSet' \subseteq DropSet
  <2>1. Len(<<>>) = 0 /\ 1 .. 0 = {}
    BY EmptySeq
  <2> QED
    BY <2>1 DEF DropSet
<1>3. \A i, k \in Rows : Newer(k, i) => Newer(k, i)'
  BY DEF Newer
<1>4. \A i \in Rows : Outlived(i) => Outlived(i)'
  BY <1>1, <1>2, <1>3 DEF Outlived
<1>5. HitsHaveRow'
  BY DEF AskInv, HitsHaveRow, Rows
<1>6. DropListed'
  <2>1. DropSet' \subseteq Rows'
    BY <1>1, <1>2 DEF AskInv, DropListed
  <2>2. \A m, n \in 1 .. Len(askRun'.drop) : askRun'.drop[m] = askRun'.drop[n] => m = n
    <3>1. CASE askRun'.drop = askRun.drop
      BY <3>1 DEF AskInv, DropListed
    <3>2. CASE askRun'.drop = <<>>
      BY <3>2
    <3> QED
      BY <3>1, <3>2
  <2> QED
    BY <2>1, <2>2 DEF DropListed
<1>7. BareOutlived'
  <2> SUFFICES ASSUME NEW i \in Rows',
                      (askRow'[i].status = "ready" /\ askHits'[i] = NoAsk) \/ i \in DropSet'
               PROVE  Outlived(i)'
    BY DEF BareOutlived
  <2>0. i \in AskId /\ askRow'[i] # NoAsk
    BY DEF Rows
  <2>1. CASE i \in DropSet'
    BY <1>2, <1>4, <2>1 DEF AskInv, DropListed, BareOutlived
  <2>2. CASE askRow'[i].status = "ready" /\ askHits'[i] = NoAsk
    <3>1. i \in Rows /\ askRow[i].status = "ready" /\ askHits[i] = NoAsk
      BY <2>0, <2>2 DEF Rows
    <3> QED
      BY <1>4, <3>1 DEF AskInv, BareOutlived
  <2> QED
    BY <2>1, <2>2
<1> QED
  BY <1>5, <1>6, <1>7 DEF AskInv

(* markSearch and markIntent. *)
LEMMA MarkedFacts ==
    ASSUME AskTyped, NEW i \in AskId, NEW q \in AskText, NEW st \in {"queued", "running", "failed"},
           NEW now \in AskId, askRow' = Marked(i, q, st, now)
    PROVE  /\ askRow' \in [AskId -> AskRows \cup {NoAsk}] /\ askRow'[i] # NoAsk
           /\ \A m \in AskId : askRow[m] # NoAsk =>
                 askRow'[m] # NoAsk /\ askRow'[m].created = askRow[m].created
           /\ \A m \in AskId : askRow'[m] # NoAsk /\ askRow'[m].status = "ready" =>
                 askRow[m] # NoAsk /\ askRow[m].status = "ready"
<1> DEFINE c == IF askRow[i] = NoAsk THEN now ELSE askRow[i].created
           x == [query |-> q, status |-> st, created |-> c]
<1>1. askRow \in [AskId -> AskRows \cup {NoAsk}]
  BY DEF AskTyped
<1>2. c \in AskId
  BY <1>1 DEF AskRows
<1>3. x \in AskRows /\ x.status = st /\ x.created = c
  <2> HIDE DEF c
  <2> QED
    BY <1>2 DEF AskRows
<1>4. askRow' = [askRow EXCEPT ![i] = x]
  BY DEF Marked
<1> HIDE DEF x
<1>5. x # NoAsk
  BY <1>3, AskNumbers
<1>6. /\ askRow' \in [AskId -> AskRows \cup {NoAsk}]
      /\ \A m \in AskId : askRow'[m] = IF m = i THEN x ELSE askRow[m]
  BY <1>1, <1>3, <1>4
<1> QED
  BY <1>3, <1>5, <1>6

LEMMA PostKeeps ==
    ASSUME AskInv, NEW q \in AskText, NEW ok \in BOOLEAN, PostAsk(q, ok) PROVE AskInv'
<1>0. AskTyped /\ askClock \in AskId
  BY DEF AskInv, AskTyped
<1>1. askRow' = Marked(askClock, q, "queued", askClock) /\ UNCHANGED <<askKind, askHits, askRun, askClock>>
  BY DEF PostAsk
<1>2. /\ askRow' \in [AskId -> AskRows \cup {NoAsk}] /\ askRow'[askClock] # NoAsk
      /\ \A m \in AskId : askRow[m] # NoAsk =>
            askRow'[m] # NoAsk /\ askRow'[m].created = askRow[m].created
      /\ \A m \in AskId : askRow'[m] # NoAsk /\ askRow'[m].status = "ready" =>
            askRow[m] # NoAsk /\ askRow[m].status = "ready"
  BY <1>0, <1>1, MarkedFacts
<1>3. /\ askJobs' \subseteq AskJob /\ askKeyed' \subseteq AskId /\ \A j \in askJobs' : j.left > 0
  <2> DEFINE j == [id |-> askClock, query |-> q, left |-> AskAttempts]
  <2>1. AskAttempts \in 0 .. AskAttempts /\ AskAttempts > 0
    BY AskNumbers
  <2>2. j \in AskJob /\ j.left > 0
    BY <1>0, <2>1 DEF AskJob
  <2>3. askJobs' \subseteq askJobs \cup {j} /\ askKeyed' \subseteq askKeyed \cup {askClock}
    BY DEF PostAsk
  <2> HIDE DEF j
  <2> QED
    BY <1>0, <2>2, <2>3 DEF AskTyped
<1>4. AskTyped'
  BY <1>0, <1>1, <1>2, <1>3 DEF AskTyped
<1>5. RunHasRow' /\ HeadBare'
  <2>1. askRun.job \subseteq AskJob /\ \A j \in AskJob : j.id \in AskId
    BY <1>0 DEF AskTyped, AskRuns, AskJob
  <2> QED
    BY <1>1, <1>2, <2>1 DEF AskInv, RunHasRow, HeadBare
<1>6. askRun'.pc \in {"hits", "row"} => askRun'.drop # <<>>
  BY <1>1 DEF AskInv, DropListed
<1> QED
  BY <1>1, <1>2, <1>4, <1>5, <1>6, NothingDeleted DEF Rows

LEMMA StartsKeeps == ASSUME AskInv, NEW j \in askJobs, AskStarts(j) PROVE AskInv'
<1> DEFINE k == [j EXCEPT !.left = @ - 1]
           x == [pc |-> "work", job |-> {k}, now |-> askClock, drop |-> <<>>]
<1>0. AskTyped /\ askClock \in AskId /\ j \in AskJob /\ j.left > 0
  BY DEF AskInv, AskTyped
<1>1. /\ askRow' = Marked(j.id, j.query, "running", askClock) /\ askRun' = x /\ askJobs' = askJobs \ {j}
      /\ UNCHANGED <<askKind, askHits, askKeyed, askClock>>
  BY DEF AskStarts
<1>2. j.id \in AskId /\ j.query \in AskText /\ j.left \in 0 .. AskAttempts
  BY <1>0 DEF AskJob
<1>3. /\ askRow' \in [AskId -> AskRows \cup {NoAsk}] /\ askRow'[j.id] # NoAsk
      /\ \A m \in AskId : askRow[m] # NoAsk =>
            askRow'[m] # NoAsk /\ askRow'[m].created = askRow[m].created
      /\ \A m \in AskId : askRow'[m] # NoAsk /\ askRow'[m].status = "ready" =>
            askRow[m] # NoAsk /\ askRow[m].status = "ready"
  BY <1>0, <1>1, <1>2, MarkedFacts
<1>4. j.left - 1 \in 0 .. AskAttempts
  BY <1>0, <1>2, AskNumbers
<1>5. k \in AskJob /\ k.id = j.id
  BY <1>0, <1>4 DEF AskJob
<1> HIDE DEF k
<1>6. /\ x \in AskRuns /\ x.pc = "work" /\ x.now = askClock /\ x.drop = <<>> /\ x.job = {k}
  <2>1. <<>> \in Seq(AskId)
    BY EmptySeq
  <2>2. askClock \in 0 .. MaxAskClock
    BY <1>0, AskNumbers DEF AskId
  <2> QED
    BY <1>5, <2>1, <2>2 DEF AskRuns
<1> HIDE DEF x
<1>7. AskTyped'
  <2>1. askJobs' \subseteq AskJob /\ \A i \in askJobs' : i.left > 0
    BY <1>0, <1>1 DEF AskTyped
  <2> QED
    BY <1>0, <1>1, <1>3, <1>6, <2>1 DEF AskTyped
<1>8. RunHasRow' /\ HeadBare'
  BY <1>1, <1>3, <1>5, <1>6 DEF RunHasRow, HeadBare
<1> QED
  BY <1>1, <1>3, <1>6, <1>7, <1>8, NothingDeleted DEF Rows

(* What is tried again. *)
LEMMA RetriedFacts ==
    ASSUME AskTyped PROVE Retried \subseteq AskJob /\ \A j \in Retried : j.left > 0
  BY DEF AskTyped, AskRuns, Retried

LEMMA FailsKeeps == ASSUME AskInv, AskFails PROVE AskInv'
<1>0. AskTyped /\ askRun \in AskRuns
  BY DEF AskInv, AskTyped
<1>1. PICK j \in askRun.job : askRow' = Marked(j.id, j.query, "failed", askRun.now)
  BY DEF AskFails
<1>2. /\ askJobs' = askJobs \cup Retried /\ askRun' = Resting /\ askRun.pc # "idle"
      /\ UNCHANGED <<askKind, askHits, askKeyed, askClock>>
  BY DEF AskFails
<1>3. j.id \in AskId /\ j.query \in AskText /\ askRun.now \in AskId
  BY <1>0, <1>2 DEF AskRuns, AskJob, AskTyped
<1>4. /\ askRow' \in [AskId -> AskRows \cup {NoAsk}]
      /\ \A m \in AskId : askRow[m] # NoAsk =>
            askRow'[m] # NoAsk /\ askRow'[m].created = askRow[m].created
      /\ \A m \in AskId : askRow'[m] # NoAsk /\ askRow'[m].status = "ready" =>
            askRow[m] # NoAsk /\ askRow[m].status = "ready"
  BY <1>0, <1>1, <1>3, MarkedFacts
<1>5. AskTyped'
  BY <1>0, <1>2, <1>4, RestingFacts, RetriedFacts DEF AskTyped
<1>6. RunHasRow' /\ HeadBare'
  BY <1>2, RestingFacts DEF RunHasRow, HeadBare
<1> QED
  BY <1>2, <1>4, <1>5, <1>6, RestingFacts, NothingDeleted DEF Rows

LEMMA StoreKeeps == ASSUME AskInv, StoreHits PROVE AskInv'
<1> DEFINE x == [askRun EXCEPT !.pc = "list"]
<1>0. /\ AskTyped /\ askRun \in AskRuns /\ askRow \in [AskId -> AskRows \cup {NoAsk}]
      /\ askHits \in [AskId -> AskText \cup {NoAsk}]
  BY DEF AskInv, AskTyped
<1>1. PICK j \in askRun.job :
        /\ askRow' = [askRow EXCEPT ![j.id] = IF @ = NoAsk THEN @ ELSE [@ EXCEPT !.status = "ready"]]
        /\ askHits' = [askHits EXCEPT ![j.id] = j.query]
  BY DEF StoreHits
<1>2. askRun.pc = "store" /\ askRun' = x /\ UNCHANGED <<askKind, askJobs, askKeyed, askClock>>
  BY DEF StoreHits
<1>3. j.id \in AskId /\ j.query \in AskText /\ askRow[j.id] # NoAsk /\ j.query # NoAsk
  <2>1. j.id \in AskId /\ j.query \in AskText
    BY <1>0 DEF AskRuns, AskJob
  <2> QED
    BY <1>2, <2>1, AskNumbers DEF AskInv, RunHasRow
<1> DEFINE r == [askRow[j.id] EXCEPT !.status = "ready"]
<1>4. r \in AskRows /\ r.created = askRow[j.id].created
  <2>1. askRow[j.id] \in AskRows
    BY <1>0, <1>3
  <2> QED
    BY <2>1 DEF AskRows
<1>5. askRow' = [askRow EXCEPT ![j.id] = r]
  BY <1>1, <1>3
<1> HIDE DEF r
<1>6. /\ askRow' \in [AskId -> AskRows \cup {NoAsk}]
      /\ \A m \in AskId : askRow'[m] = IF m = j.id THEN r ELSE askRow[m]
  BY <1>0, <1>3, <1>4, <1>5
<1>7. /\ askHits' \in [AskId -> AskText \cup {NoAsk}]
      /\ \A m \in AskId : askHits'[m] = IF m = j.id THEN j.query ELSE askHits[m]
  BY <1>0, <1>1, <1>3
<1>8. x \in AskRuns /\ x.pc = "list" /\ x.now = askRun.now /\ x.drop = askRun.drop
  BY <1>0 DEF AskRuns
<1> HIDE DEF x
<1>9. AskTyped'
  BY <1>0, <1>2, <1>6, <1>7, <1>8 DEF AskTyped
<1>10. r # NoAsk
  BY <1>4, AskNumbers
<1>11. /\ \A m \in Rows : askRow'[m] # NoAsk /\ askRow'[m].created = askRow[m].created
       /\ \A m \in AskId : askRow'[m] # NoAsk /\ askRow'[m].status = "ready" =>
             (askRow[m] # NoAsk /\ askRow[m].status = "ready") \/ askHits'[m] # NoAsk
       /\ \A m \in AskId : askHits'[m] # NoAsk => askHits[m] # NoAsk \/ askRow'[m] # NoAsk
       /\ \A m \in AskId : askHits[m] # NoAsk => askHits'[m] # NoAsk
  BY <1>3, <1>4, <1>6, <1>7, <1>10 DEF Rows
<1>12. RunHasRow' /\ HeadBare'
  BY <1>2, <1>8 DEF RunHasRow, HeadBare
<1> QED
  BY <1>2, <1>8, <1>9, <1>11, <1>12, NothingDeleted

LEMMA QuietAsk ==
    ASSUME AskInv,
           \/ SearchFinds \/ IntentFinds \/ \E ok \in BOOLEAN : AskCompletes(ok)
           \/ AskCutShort \/ AskTick \/ UNCHANGED askVars
    PROVE  AskInv'
<1> DEFINE x == [askRun EXCEPT !.pc = "store"]
<1>0. AskTyped /\ askRun \in AskRuns /\ askClock \in AskId
  BY DEF AskInv, AskTyped
<1>1. UNCHANGED <<askKind, askRow, askHits, askKeyed>>
  BY DEF SearchFinds, IntentFinds, AskCompletes, AskCutShort, AskTick, askVars
<1>2. askJobs' \subseteq askJobs \cup Retried
  BY DEF SearchFinds, IntentFinds, AskCompletes, AskCutShort, AskTick, askVars
<1>3. askRun' \in {askRun, Resting} \/ (askRun.pc = "work" /\ askRun' = x)
  BY DEF SearchFinds, IntentFinds, AskCompletes, AskCutShort, AskTick, askVars
<1>4. x \in AskRuns /\ x.pc = "store" /\ x.now = askRun.now /\ x.drop = askRun.drop /\ x.job = askRun.job
  BY <1>0 DEF AskRuns
<1> HIDE DEF x
<1>5. askClock' \in AskId
  <2>1. askClock' = askClock \/ (askClock < MaxAskClock /\ askClock' = askClock + 1)
    BY DEF SearchFinds, IntentFinds, AskCompletes, AskCutShort, AskTick, askVars
  <2> QED
    BY <1>0, <2>1, AskNumbers DEF AskId
<1>6. AskTyped'
  <2>1. askJobs' \subseteq AskJob /\ \A j \in askJobs' : j.left > 0
    BY <1>0, <1>2, RetriedFacts DEF AskTyped
  <2>2. askRun' \in AskRuns /\ (askRun'.pc # "idle" => askRun'.now \in AskId)
    BY <1>0, <1>3, <1>4, RestingFacts DEF AskTyped
  <2> QED
    BY <1>0, <1>1, <1>5, <2>1, <2>2 DEF AskTyped
<1>7. RunHasRow' /\ HeadBare' /\ (askRun'.pc \in {"hits", "row"} => askRun'.drop # <<>>)
  BY <1>1, <1>3, <1>4, RestingFacts DEF AskInv, RunHasRow, HeadBare, DropListed
<1>8. askRun'.drop \in {askRun.drop, <<>>}
  BY <1>3, <1>4, RestingFacts
<1> QED
  BY <1>1, <1>6, <1>7, <1>8, NothingDeleted DEF Rows

(* Of any rows one is newer than all the others, and pruning spares it. *)
LEMMA NewestSpared ==
    ASSUME AskTyped, Rows # {}
    PROVE  \E m \in Rows : m \notin PastNewest /\ \A i \in Rows \ {m} : Newer(m, i)
<1>1. /\ Rows \subseteq AskId /\ \A i \in Rows : askRow[i].created \in Nat /\ askRow[i].created <= MaxAskClock
      /\ MaxAskClock \in Nat /\ \A i \in Rows : i \in Nat /\ i <= MaxAskClock
  <2>1. \A n \in AskId : n \in Nat /\ n <= MaxAskClock
    BY AskNumbers DEF AskId
  <2> QED
    BY <2>1, AskFields, AskNumbers
<1> DEFINE C == {askRow[i].created : i \in Rows}
<1>2. C \in SUBSET Nat /\ C # {} /\ \A c \in C : c <= MaxAskClock
  BY <1>1
<1>3. Max(C) \in C /\ \A c \in C : Max(C) >= c
  <2> HIDE DEF C
  <2> QED
    BY <1>1, <1>2, GreatestFacts
<1> DEFINE L == {i \in Rows : askRow[i].created = Max(C)}
<1>4. L \in SUBSET Nat /\ L # {} /\ \A i \in L : i <= MaxAskClock
  BY <1>1, <1>3
<1>5. Max(L) \in L /\ \A i \in L : Max(L) >= i
  <2> HIDE DEF L
  <2> QED
    BY <1>1, <1>4, GreatestFacts
<1> DEFINE m == Max(L)
<1>6. /\ m \in Rows /\ \A i \in Rows : askRow[m].created >= askRow[i].created
      /\ \A i \in Rows : askRow[m].created = askRow[i].created => m >= i
  BY <1>3, <1>5
<1> HIDE DEF m, C, L
<1>7. \A i \in Rows \ {m} : Newer(m, i)
  BY <1>1, <1>6 DEF Newer
<1>8. {k \in Rows : Newer(k, m)} = {}
  BY <1>6, <1>7, NewerFacts
<1>9. m \notin PastNewest
  <2>1. Cardinality({k \in Rows : Newer(k, m)}) = 0
    BY ONLY <1>8, FS_EmptySet
  <2>2. ~ (0 >= KeepSearches)
    BY AskNumbers
  <2> QED
    BY <2>1, <2>2 DEF PastNewest
<1> QED
  BY <1>6, <1>7, <1>9

LEMMA ListKeeps == ASSUME AskInv, ListPruned PROVE AskInv'
<1>0. AskTyped /\ askRun \in AskRuns
  BY DEF AskInv, AskTyped
<1> DEFINE n == Cardinality(PastNewest)
<1>1. PICK drop \in [1 .. n -> PastNewest] :
        /\ \A a, b \in DOMAIN drop : a < b => Newer(drop[a], drop[b])
        /\ askRun' = [askRun EXCEPT !.pc = IF drop = <<>> THEN "done" ELSE "hits", !.drop = drop]
  BY DEF ListPruned
<1>2. askRun.pc = "list" /\ UNCHANGED <<askKind, askRow, askHits, askJobs, askKeyed, askClock>>
  BY DEF ListPruned
<1>3. PastNewest \subseteq Rows /\ PastNewest \subseteq AskId
  BY DEF PastNewest, Rows
<1>4. n \in Nat
  <2>1. IsFiniteSet(AskId)
    BY AskNumbers, FS_Interval DEF AskId
  <2>2. IsFiniteSet(PastNewest)
    BY <1>3, <2>1, FS_Subset
  <2> QED
    BY <2>2, FS_CardinalityType
<1> HIDE DEF n
<1>5. drop \in Seq(AskId) /\ Len(drop) = n /\ DOMAIN drop = 1 .. n
  <2>1. drop \in [1 .. n -> AskId]
    BY <1>3
  <2>2. drop \in Seq(AskId)
    BY <1>4, <2>1, SeqDef
  <2> QED
    BY <1>4, <2>1, <2>2, LenProperties
<1>6. \A a, b \in 1 .. n : drop[a] = drop[b] => a = b
  <2> SUFFICES ASSUME NEW a \in 1 .. n, NEW b \in 1 .. n, a < b PROVE drop[a] # drop[b]
    BY <1>4
  <2>1. Newer(drop[a], drop[b]) /\ drop[a] \in Rows /\ drop[b] \in Rows
    BY <1>1, <1>3, <1>5
  <2> QED
    BY <1>0, <2>1, NewerFacts
<1> DEFINE x == [askRun EXCEPT !.pc = IF drop = <<>> THEN "done" ELSE "hits", !.drop = drop]
<1>7. /\ x \in AskRuns /\ x.drop = drop /\ x.now = askRun.now
      /\ x.pc = IF drop = <<>> THEN "done" ELSE "hits"
  BY <1>0, <1>5 DEF AskRuns
<1>8. askRun' = x
  BY <1>1
<1> HIDE DEF x
<1>9. AskTyped'
  BY <1>0, <1>2, <1>7, <1>8 DEF AskTyped
<1>10. Rows' = Rows /\ DropSet' \subseteq PastNewest /\ \A i, k : Newer(i, k)' = Newer(i, k)
  <2>1. Rows' = Rows
    BY <1>2 DEF Rows
  <2>2. DropSet' \subseteq PastNewest
    BY <1>5, <1>7, <1>8 DEF DropSet
  <2>3. \A i, k : Newer(i, k)' = Newer(i, k)
    BY <1>2 DEF Newer
  <2> QED
    BY <2>1, <2>2, <2>3
<1>11. HitsHaveRow' /\ RunHasRow' /\ HeadBare'
  BY <1>2, <1>7, <1>8 DEF AskInv, HitsHaveRow, RunHasRow, HeadBare
<1>12. DropListed'
  <2>1. DropSet' \subseteq Rows'
    BY <1>3, <1>10
  <2>2. \A a, b \in 1 .. Len(askRun'.drop) : askRun'.drop[a] = askRun'.drop[b] => a = b
    BY <1>5, <1>6, <1>7, <1>8
  <2>3. askRun'.pc \in {"hits", "row"} => askRun'.drop # <<>>
    BY <1>7, <1>8
  <2> QED
    BY <2>1, <2>2, <2>3 DEF DropListed
<1>13. BareOutlived'
  <2> SUFFICES ASSUME NEW i \in Rows,
                      (askRow[i].status = "ready" /\ askHits[i] = NoAsk) \/ i \in DropSet'
               PROVE  Outlived(i)'
    BY <1>2, <1>10 DEF BareOutlived
  <2>1. PICK m \in Rows : m \notin PastNewest /\ \A k \in Rows \ {m} : Newer(m, k)
    BY <1>0, NewestSpared
  <2>2. i # m
    <3>1. CASE i \in DropSet'
      BY <1>10, <2>1, <3>1
    <3>2. CASE askRow[i].status = "ready" /\ askHits[i] = NoAsk
      <4>1. PICK k \in Rows : Newer(k, i)
        BY <3>2 DEF AskInv, BareOutlived, Outlived
      <4> QED
        BY <1>0, <2>1, <4>1, NewerFacts
    <3> QED
      BY <3>1, <3>2
  <2> QED
    BY <1>10, <2>1, <2>2 DEF Outlived
<1> QED
  BY <1>9, <1>11, <1>12, <1>13 DEF AskInv

LEMMA HitsKeeps == ASSUME AskInv, DeleteHits PROVE AskInv'
<1> DEFINE h == Head(askRun.drop)
           x == [askRun EXCEPT !.pc = "row"]
<1>0. AskTyped /\ askRun \in AskRuns /\ askHits \in [AskId -> AskText \cup {NoAsk}]
  BY DEF AskInv, AskTyped
<1>1. /\ askRun.pc = "hits" /\ askHits' = [askHits EXCEPT ![h] = NoAsk] /\ askRun' = x
      /\ UNCHANGED <<askKind, askRow, askJobs, askKeyed, askClock>>
  BY DEF DeleteHits
<1>2. x \in AskRuns /\ x.pc = "row" /\ x.drop = askRun.drop /\ x.now = askRun.now
  BY <1>0 DEF AskRuns
<1> HIDE DEF x
<1>3. askRun.drop # <<>>
  BY <1>1 DEF AskInv, DropListed
<1>4. h \in AskId /\ h \in DropSet
  <2>1. askRun.drop \in Seq(AskId) /\ Len(askRun.drop) >= 1 /\ Len(askRun.drop) \in Nat
    BY <1>0, <1>3, AskFields, EmptySeq
  <2>2. h = askRun.drop[1] /\ 1 \in 1 .. Len(askRun.drop)
    BY <2>1
  <2> QED
    BY <2>2, <1>0, AskFields DEF DropSet
<1> HIDE DEF h
<1>5. /\ askHits' \in [AskId -> AskText \cup {NoAsk}]
      /\ \A m \in AskId : askHits'[m] = IF m = h THEN NoAsk ELSE askHits[m]
  BY <1>0, <1>1, <1>4
<1>6. AskTyped'
  BY <1>0, <1>1, <1>2, <1>5 DEF AskTyped
<1>7. Rows' = Rows /\ DropSet' = DropSet /\ \A i, k : Newer(i, k)' = Newer(i, k)
  BY <1>1, <1>2 DEF Rows, DropSet, Newer
<1>8. HitsHaveRow' /\ RunHasRow'
  BY <1>1, <1>2, <1>5 DEF AskInv, HitsHaveRow, RunHasRow
<1>9. HeadBare'
  BY <1>1, <1>2, <1>4, <1>5 DEF HeadBare, h
<1>10. DropListed'
  BY <1>1, <1>2, <1>3, <1>7 DEF AskInv, DropListed
<1>11. BareOutlived'
  <2> SUFFICES ASSUME NEW i \in Rows,
                      (askRow[i].status = "ready" /\ askHits'[i] = NoAsk) \/ i \in DropSet
               PROVE  Outlived(i)'
    BY <1>1, <1>7 DEF BareOutlived
  <2>1. (askRow[i].status = "ready" /\ askHits[i] = NoAsk) \/ i \in DropSet
    BY <1>4, <1>5 DEF Rows
  <2>2. Outlived(i)
    BY <2>1 DEF AskInv, BareOutlived
  <2> QED
    BY <1>7, <2>2 DEF Outlived
<1> QED
  BY <1>6, <1>8, <1>9, <1>10, <1>11 DEF AskInv

LEMMA RowKeeps == ASSUME AskInv, DeleteRow PROVE AskInv'
<1> DEFINE h == Head(askRun.drop)
           t == Tail(askRun.drop)
           x == [askRun EXCEPT !.pc = IF Len(askRun.drop) = 1 THEN "done" ELSE "hits", !.drop = t]
<1>0. AskTyped /\ askRun \in AskRuns /\ askRow \in [AskId -> AskRows \cup {NoAsk}]
  BY DEF AskInv, AskTyped
<1>1. /\ askRun.pc = "row" /\ askRow' = [askRow EXCEPT ![h] = NoAsk] /\ askRun' = x
      /\ UNCHANGED <<askKind, askHits, askJobs, askKeyed, askClock>>
  BY DEF DeleteRow
<1>2. askRun.drop # <<>> /\ askRun.drop \in Seq(AskId) /\ Len(askRun.drop) \in Nat \ {0}
  BY <1>0, <1>1, AskFields, EmptySeq DEF AskInv, DropListed
<1>3. /\ h = askRun.drop[1] /\ h \in AskId /\ t \in Seq(AskId) /\ Len(t) = Len(askRun.drop) - 1
      /\ \A i \in 1 .. Len(t) : t[i] = askRun.drop[i + 1]
  BY <1>2, HeadTailProperties
<1> HIDE DEF t
<1>4. Len(askRun.drop) # 1 => t # <<>>
  <2> SUFFICES ASSUME t = <<>> PROVE Len(askRun.drop) = 1
    OBVIOUS
  <2>1. Len(t) = 0
    BY EmptySeq
  <2> QED
    BY ONLY <1>2, <1>3, <2>1
<1>5. /\ x \in AskRuns /\ x.drop = t /\ x.now = askRun.now
      /\ x.pc = IF Len(askRun.drop) = 1 THEN "done" ELSE "hits"
  BY <1>0, <1>3 DEF AskRuns
<1> HIDE DEF x, h
<1>6. /\ askRow' \in [AskId -> AskRows \cup {NoAsk}]
      /\ \A m \in AskId : askRow'[m] = IF m = h THEN NoAsk ELSE askRow[m]
  BY <1>0, <1>1, <1>3
<1>7. AskTyped'
  BY <1>0, <1>1, <1>5, <1>6 DEF AskTyped
<1>8. h \in DropSet /\ h \in Rows
  <2>1. h \in DropSet
    BY <1>2, <1>3 DEF DropSet
  <2> QED
    BY <2>1 DEF AskInv, DropListed
<1>9. \A a \in 1 .. Len(t) : a + 1 \in 1 .. Len(askRun.drop) /\ a + 1 # 1
  BY <1>2, <1>3
<1>10. 1 \in 1 .. Len(askRun.drop)
  BY <1>2
<1>11. \A a, b \in 1 .. Len(askRun.drop) : askRun.drop[a] = askRun.drop[b] => a = b
  BY DEF AskInv, DropListed
<1>12. DropSet' \subseteq DropSet \ {h}
  <2>1. DropSet' = {t[a] : a \in 1 .. Len(t)}
    BY <1>1, <1>5 DEF DropSet
  <2> SUFFICES ASSUME NEW a \in 1 .. Len(t) PROVE t[a] \in DropSet /\ t[a] # h
    BY <2>1
  <2>2. t[a] = askRun.drop[a + 1] /\ a + 1 \in 1 .. Len(askRun.drop) /\ a + 1 # 1
    BY <1>3, <1>9
  <2>3. t[a] # h
    BY <1>3, <1>10, <1>11, <2>2
  <2> QED
    BY <2>2, <2>3 DEF DropSet
<1>13. Rows' = Rows \ {h}
  BY <1>6 DEF Rows
<1>14. \A i, k \in Rows' : Newer(i, k)' = Newer(i, k)
  <2>1. \A i \in Rows' : askRow'[i] = askRow[i]
    BY <1>6, <1>13 DEF Rows
  <2> QED
    BY <2>1 DEF Newer
<1>15. HitsHaveRow'
  BY <1>1, <1>6 DEF AskInv, HitsHaveRow, HeadBare, h
<1>16. RunHasRow' /\ HeadBare'
  BY <1>1, <1>5 DEF RunHasRow, HeadBare
<1>17. DropListed'
  <2>1. DropSet' \subseteq Rows'
    BY <1>12, <1>13 DEF AskInv, DropListed
  <2>2. \A a, b \in 1 .. Len(t) : t[a] = t[b] => a = b
    <3> SUFFICES ASSUME NEW a \in 1 .. Len(t), NEW b \in 1 .. Len(t), t[a] = t[b] PROVE a = b
      OBVIOUS
    <3>1. askRun.drop[a + 1] = askRun.drop[b + 1]
      BY <1>3
    <3>2. a + 1 = b + 1
      BY <1>9, <1>11, <3>1
    <3> QED
      BY <1>2, <1>3, <3>2
  <2> QED
    BY <1>1, <1>4, <1>5, <2>1, <2>2 DEF DropListed
<1>18. BareOutlived'
  <2> SUFFICES ASSUME NEW i \in Rows',
                      (askRow'[i].status = "ready" /\ askHits[i] = NoAsk) \/ i \in DropSet'
               PROVE  Outlived(i)'
    BY <1>1 DEF BareOutlived
  <2>1. i \in Rows /\ askRow'[i] = askRow[i]
    BY <1>6, <1>13 DEF Rows
  <2>2. PICK k \in Rows : Newer(k, i) /\ k \notin DropSet
    BY <1>12, <2>1 DEF AskInv, BareOutlived, Outlived
  <2>3. k \in Rows' /\ k \notin DropSet'
    BY <1>8, <1>12, <1>13, <2>2
  <2> QED
    BY <1>14, <2>2, <2>3 DEF Outlived
<1> QED
  BY <1>7, <1>15, <1>16, <1>17, <1>18 DEF AskInv

LEMMA AskInvStep == AskInv /\ [AskNext]_askVars => AskInv'
<1> SUFFICES ASSUME AskInv, [AskNext]_askVars PROVE AskInv'
  OBVIOUS
<1> HIDE DEF AskInv
<1>1. CASE \E q \in AskText, ok \in BOOLEAN : PostSearch(q, ok) \/ PostIntent(q, ok)
  BY <1>1, PostKeeps DEF PostSearch, PostIntent
<1>2. CASE \E j \in askJobs : AskStarts(j)
  BY <1>2, StartsKeeps
<1>3. CASE FailSearch \/ FailIntent
  BY <1>3, FailsKeeps DEF FailSearch, FailIntent
<1>4. CASE StoreSearchHits \/ StoreIntentHits
  BY <1>4, StoreKeeps DEF StoreSearchHits, StoreIntentHits
<1>5. CASE PruneSearches \/ PruneIntentSearches
  BY <1>5, ListKeeps DEF PruneSearches, PruneIntentSearches
<1>6. CASE DeleteHits
  BY <1>6, HitsKeeps
<1>7. CASE DeleteRow
  BY <1>7, RowKeeps
<1>8. CASE \/ SearchFinds \/ IntentFinds \/ \E ok \in BOOLEAN : AskCompletes(ok)
           \/ AskCutShort \/ AskTick \/ UNCHANGED askVars
  BY <1>8, QuietAsk
<1> QED
  BY <1>1, <1>2, <1>3, <1>4, <1>5, <1>6, <1>7, <1>8 DEF AskNext

LEMMA AskInvMeans == AskInv => AskSafe
<1> SUFFICES ASSUME AskInv PROVE AskSafe
  OBVIOUS
<1>0. AskTyped
  BY DEF AskInv
<1>1. AskTypeOK
  BY <1>0 DEF AskTyped, AskTypeOK, AskRuns
<1>2. ASSUME NEW i \in Shown, askRow[i].status = "ready", askHits[i] = NoAsk PROVE FALSE
  <2>1. i \in Rows /\ \A k \in Rows \ {i} : Newer(i, k)
    BY DEF Shown
  <2>2. PICK k \in Rows : Newer(k, i)
    BY <1>2, <2>1 DEF AskInv, BareOutlived, Outlived
  <2> QED
    BY <1>0, <2>1, <2>2, NewerFacts
<1> QED
  BY <1>1, <1>2 DEF AskInv, HitsHaveRow, AskSafe

(* storeHits, pruneSearches and their intent twins: however posts, attempts, *)
(* retries and stops interleave, no hits outlive their row, and the search   *)
(* the screen shows as ready has its hits, because pruning takes a search's  *)
(* hits only while a newer search that it keeps is there.                    *)
THEOREM SearchesKeepTheirHits == AskSpec => []AskSafe
<1>1. AskSpec => []AskInv
  BY AskInvInit, AskInvStep, PTL DEF AskSpec
<1> QED
  BY <1>1, AskInvMeans, PTL

(***************************************************************************)
(* One watchlist: its funnel, its findings and its handlers (BidrlWatch).  *)
(***************************************************************************)

ListRow == [row : {"none", "here", "deleted"}, query : WatchQuery \cup {NoQuery},
            enabled : BOOLEAN, words : WatchQuery \cup {NoQuery}]

RunPc == {"idle", "prune", "cards", "words", "expand", "probe", "stored", "clear", "embed",
          "rank", "judge", "store", "announce", "finish"}

RunRow == [pc : RunPc, query : WatchQuery \cup {NoQuery}, cards : [WatchLot -> 0 .. MaxText],
           dims : Dims \cup {0}, have : [WatchLot -> Vector], kept : SUBSET WatchLot,
           lexical : BOOLEAN]

Verdict == {"accepted", "rejected"}

WatchTyped ==
    /\ list \in ListRow
    /\ finding \in [WatchLot -> {"none", "new", "accepted", "rejected"}]
    /\ savedFinds \subseteq WatchLot /\ lotText \in [WatchLot -> 0 .. MaxText]
    /\ vectors \in [WatchLot -> Vector] /\ embedder \in Dims
    /\ wrun \in [WatchRun -> RunRow]
    /\ editor \in WatchQuery \cup {NoQuery}
    /\ decider \subseteq WatchLot \X Verdict
    /\ watchRuns \in 0 .. MaxRuns /\ watchEdits \in 0 .. MaxWatchEdits
    /\ announced \in [WatchLot -> Nat]

(* What a run that matches by vector holds for a lot it carded: after the   *)
(* missing vectors were bought, one of the text on the card; among those it *)
(* kept, one of the dimension of its probes too.                            *)
RunSees(t) ==
    /\ t.pc = "rank" /\ t.lexical = FALSE =>
          \A l \in WatchLot : t.cards[l] # 0 => t.have[l].hash = t.cards[l]
    /\ t.pc = "judge" /\ t.lexical = FALSE =>
          \A l \in t.kept : t.have[l] = [hash |-> t.cards[l], dims |-> t.dims]
    /\ t.pc \in {"prune", "cards", "words", "expand", "probe", "stored", "clear", "embed"} =>
          t.lexical = FALSE

WatchSees == \A r \in WatchRun : RunSees(wrun[r])

(* A lot a run is about to announce. *)
Tells(t, l) == t.pc = "announce" /\ l \in t.kept

(* While the list exists, a finding is owed to one run or was announced, and *)
(* a lot without one was never announced; before it, no run is under way.   *)
WatchTells ==
    /\ list.row = "none" => /\ \A r \in WatchRun : wrun[r].pc = "idle"
                            /\ \A l \in WatchLot : announced[l] = 0 /\ finding[l] = "none"
    /\ list.row = "here" => \A l \in WatchLot :
          /\ announced[l] <= 1
          /\ finding[l] = "none" => announced[l] = 0
          /\ \A r \in WatchRun : Tells(wrun[r], l) => finding[l] # "none" /\ announced[l] = 0
          /\ \A r, s \in WatchRun : Tells(wrun[r], l) /\ Tells(wrun[s], l) => r = s

WatchInv == WatchTyped /\ WatchSees /\ WatchTells

(* No run, no vector: what the runs and the rows start from. *)
LEMMA IdleRunFacts ==
    /\ IdleRun \in RunRow /\ IdleRun.pc = "idle" /\ IdleRun.kept = {} /\ IdleRun.lexical = FALSE
    /\ NoVector \in Vector
<1>1. 0 \in 0 .. MaxText
  BY WatchAssumption
<1>2. NoVector \in Vector
  BY <1>1 DEF NoVector, Vector
<1> QED
  BY <1>1, <1>2 DEF IdleRun, RunRow, RunPc

(* A step of one run that leaves findings, list and announcements alone, and *)
(* that does not begin to announce, keeps what the runs see and tell.       *)
LEMMA RunMoves ==
    ASSUME WatchInv, NEW r \in WatchRun, NEW t \in RunRow, RunSees(t), t.pc # "announce",
           list.row # "none", wrun' = [wrun EXCEPT ![r] = t],
           UNCHANGED <<finding, announced>>, list'.row = list.row
    PROVE  wrun' \in [WatchRun -> RunRow] /\ WatchSees' /\ WatchTells'
<1>1. wrun \in [WatchRun -> RunRow]
  BY DEF WatchInv, WatchTyped
<1>2. /\ wrun' \in [WatchRun -> RunRow]
      /\ wrun'[r] = t /\ \A s \in WatchRun \ {r} : wrun'[s] = wrun[s]
  BY <1>1
<1>3. WatchSees'
  BY <1>2 DEF WatchInv, WatchSees
<1>4. \A s \in WatchRun, l \in WatchLot : Tells(wrun'[s], l) => Tells(wrun[s], l)
  BY <1>2 DEF Tells
<1>5. WatchTells'
  BY <1>4 DEF WatchInv, WatchTells
<1> QED
  BY <1>2, <1>3, <1>5

(* A run is under way only once there is a list. *)
LEMMA RunNeedsList ==
    ASSUME WatchInv, NEW r \in WatchRun, wrun[r].pc # "idle"
    PROVE  list.row # "none"
BY DEF WatchInv, WatchTells

(* A run that goes on before it ranks sees nothing yet. *)
LEMMA EarlySees ==
    ASSUME NEW t, t.pc \in RunPc \ {"rank", "judge"}, t.lexical = FALSE
    PROVE  RunSees(t)
BY DEF RunSees, RunPc

(* Neither does one that matches by words, or is past its verdicts. *)
LEMMA LateSees ==
    ASSUME NEW t, t.pc \in {"idle", "store", "announce", "finish"}
                  \/ (t.lexical = TRUE /\ t.pc \in {"rank", "judge"})
    PROVE  RunSees(t)
BY DEF RunSees

(* The steps of the funnel that touch neither findings nor announcements.   *)
QuietRun(r) ==
    \/ LoadWatchlist(r) \/ PruneLotEmbeddings(r) \/ LoadCards(r) \/ WatchWords(r)
    \/ \E ok \in BOOLEAN : WatchExpands(r, ok)
    \/ EmbedProbes(r) \/ LoadLotEmbeddings(r) \/ ClearLotEmbeddings(r) \/ EmbedStale(r)
    \/ MatchIntentLexical(r) \/ KeepWatchMatches(r) \/ JudgeLots(r) \/ RunEnds(r)

(* Each of them moves its run to one that ranks by what it read.            *)
LEMMA QuietRunMoves ==
    ASSUME WatchInv, NEW r \in WatchRun, QuietRun(r)
    PROVE  \E t \in RunRow : wrun' = [wrun EXCEPT ![r] = t] /\ RunSees(t) /\ t.pc # "announce"
<1> DEFINE u == wrun[r]
<1>w. wrun \in [WatchRun -> RunRow] /\ list \in ListRow /\ embedder \in Dims
  BY DEF WatchInv, WatchTyped
<1>v. vectors \in [WatchLot -> Vector] /\ lotText \in [WatchLot -> 0 .. MaxText]
  BY DEF WatchInv, WatchTyped
<1>u. /\ u \in RunRow /\ u.pc \in RunPc /\ u.cards \in [WatchLot -> 0 .. MaxText]
      /\ u.have \in [WatchLot -> Vector] /\ u.kept \in SUBSET WatchLot /\ u.dims \in Dims \cup {0}
  BY <1>w DEF RunRow
<1>s. RunSees(u)
  BY DEF WatchInv, WatchSees
<1>z. 0 \in 0 .. MaxText
  BY WatchAssumption
<1>1. CASE LoadWatchlist(r)
  <2> DEFINE t == [IdleRun EXCEPT !.pc = "prune", !.query = list.query]
  <2>1. wrun' = [wrun EXCEPT ![r] = t]
    BY <1>1 DEF LoadWatchlist
  <2>2. t \in RunRow /\ t.pc = "prune" /\ t.lexical = FALSE
    BY <1>w, IdleRunFacts DEF RunRow, RunPc, ListRow
  <2> HIDE DEF t
  <2>3. RunSees(t)
    BY <2>2, EarlySees DEF RunPc
  <2> QED
    BY <2>1, <2>2, <2>3
<1>2. ASSUME NEW pc \in RunPc \ {"rank", "judge", "announce"}, u.lexical = FALSE,
             wrun' = [wrun EXCEPT ![r].pc = pc]
      PROVE  \E t \in RunRow : wrun' = [wrun EXCEPT ![r] = t] /\ RunSees(t) /\ t.pc # "announce"
  <2> DEFINE t == [u EXCEPT !.pc = pc]
  <2>1. wrun' = [wrun EXCEPT ![r] = t]
    BY <1>2
  <2>2. t \in RunRow /\ t.pc = pc /\ t.lexical = FALSE
    BY <1>2, <1>u DEF RunRow
  <2> HIDE DEF t
  <2>3. RunSees(t)
    BY <1>2, <2>2, EarlySees
  <2> QED
    BY <2>1, <2>2, <2>3
<1>3. CASE \/ PruneLotEmbeddings(r) \/ WatchWords(r) \/ ClearLotEmbeddings(r)
           \/ \E ok \in BOOLEAN : WatchExpands(r, ok)
  <2>1. u.lexical = FALSE
    BY <1>3, <1>s DEF PruneLotEmbeddings, WatchWords, WatchExpands, ClearLotEmbeddings, RunSees
  <2>2. \E pc \in RunPc \ {"rank", "judge", "announce"} : wrun' = [wrun EXCEPT ![r].pc = pc]
    <3>1. CASE WatchWords(r)
      <4> DEFINE pc == IF list.row = "here" /\ list.words # NoQuery THEN "probe" ELSE "expand"
      <4>1. wrun' = [wrun EXCEPT ![r].pc = pc] /\ pc \in RunPc \ {"rank", "judge", "announce"}
        BY <3>1 DEF WatchWords, RunPc
      <4> QED
        BY <4>1
    <3>2. CASE PruneLotEmbeddings(r)
      BY <3>2 DEF PruneLotEmbeddings, RunPc
    <3>3. CASE ClearLotEmbeddings(r)
      BY <3>3 DEF ClearLotEmbeddings, RunPc
    <3>4. CASE \E ok \in BOOLEAN : WatchExpands(r, ok)
      BY <3>4 DEF WatchExpands, RunPc
    <3> QED
      BY <1>3, <3>1, <3>2, <3>3, <3>4
  <2> QED
    BY <1>2, <2>1, <2>2
<1>4. CASE LoadCards(r)
  <2>1. PICK A \in SUBSET WatchLot :
          wrun' = [wrun EXCEPT ![r].pc = IF A = {} THEN "finish" ELSE "words",
                               ![r].cards = [l \in WatchLot |-> IF l \in A THEN lotText[l] ELSE 0]]
    BY <1>4 DEF LoadCards
  <2> DEFINE pc == IF A = {} THEN "finish" ELSE "words"
             c == [l \in WatchLot |-> IF l \in A THEN lotText[l] ELSE 0]
             t == [u EXCEPT !.pc = pc, !.cards = c]
  <2>2. wrun' = [wrun EXCEPT ![r] = t]
    BY <2>1
  <2>3. pc \in RunPc \ {"rank", "judge", "announce"} /\ c \in [WatchLot -> 0 .. MaxText]
    BY <1>v, <1>z DEF RunPc
  <2>4. u.lexical = FALSE
    BY <1>4, <1>s DEF LoadCards, RunSees
  <2> HIDE DEF pc, c
  <2>5. t \in RunRow /\ t.pc = pc /\ t.lexical = FALSE
    BY <1>u, <2>3, <2>4 DEF RunRow
  <2> HIDE DEF t
  <2>6. RunSees(t)
    BY <2>3, <2>5, EarlySees
  <2> QED
    BY <2>2, <2>3, <2>5, <2>6
<1>5. CASE EmbedProbes(r)
  <2> DEFINE t == [u EXCEPT !.pc = "stored", !.dims = embedder]
  <2>1. wrun' = [wrun EXCEPT ![r] = t] /\ u.lexical = FALSE
    BY <1>5, <1>s DEF EmbedProbes, RunSees
  <2>2. t \in RunRow /\ t.pc = "stored" /\ t.lexical = FALSE
    BY <1>u, <1>w, <2>1 DEF RunRow, RunPc
  <2> HIDE DEF t
  <2>3. RunSees(t)
    BY <2>2, EarlySees DEF RunPc
  <2> QED
    BY <2>1, <2>2, <2>3
<1>6. CASE LoadLotEmbeddings(r)
  <2> DEFINE other == \E l \in WatchLot : vectors[l].dims \notin {0, wrun[r].dims}
             pc == IF other THEN "clear" ELSE "embed"
             h == IF other THEN [l \in WatchLot |-> NoVector] ELSE vectors
             t == [u EXCEPT !.pc = pc, !.have = h]
  <2>1. wrun' = [wrun EXCEPT ![r] = t]
    BY <1>6 DEF LoadLotEmbeddings
  <2>2. u.lexical = FALSE
    BY <1>6, <1>s DEF LoadLotEmbeddings, RunSees
  <2>3. pc \in RunPc \ {"rank", "judge", "announce"} /\ h \in [WatchLot -> Vector]
    BY <1>v, IdleRunFacts DEF RunPc
  <2> HIDE DEF pc, h
  <2>4. t \in RunRow /\ t.pc = pc /\ t.lexical = FALSE
    BY <1>u, <2>2, <2>3 DEF RunRow
  <2> HIDE DEF t
  <2>5. RunSees(t)
    BY <2>3, <2>4, EarlySees
  <2> QED
    BY <2>1, <2>3, <2>4, <2>5
<1>7. CASE EmbedStale(r)
  <2> DEFINE S == {l \in WatchLot : u.cards[l] # 0 /\ ~FreshVector(r, l)}
             h == [l \in WatchLot |-> IF l \in S THEN [hash |-> u.cards[l], dims |-> embedder]
                                      ELSE u.have[l]]
             t == [u EXCEPT !.pc = "rank", !.have = h]
  <2>1. wrun' = [wrun EXCEPT ![r] = t]
    BY <1>7 DEF EmbedStale
  <2>2. \A l \in WatchLot : [hash |-> u.cards[l], dims |-> embedder] \in Vector
    BY <1>u, <1>w DEF Vector
  <2>3. h \in [WatchLot -> Vector]
    BY <1>u, <2>2
  <2>4. ASSUME NEW l \in WatchLot, u.cards[l] # 0
        PROVE  h[l].hash = u.cards[l]
    <3>1. CASE l \in S
      BY <3>1
    <3>2. CASE l \notin S
      <4>1. h[l] = [hash |-> u.cards[l], dims |-> u.dims]
        BY <2>4, <3>2 DEF FreshVector
      <4> QED
        BY <4>1
    <3> QED
      BY <3>1, <3>2
  <2> HIDE DEF S, h
  <2>5. t \in RunRow /\ t.pc = "rank" /\ t.cards = u.cards /\ t.have = h
    BY <1>u, <2>3 DEF RunRow, RunPc
  <2> HIDE DEF t
  <2>6. RunSees(t)
    BY <2>4, <2>5 DEF RunSees
  <2> QED
    BY <2>1, <2>5, <2>6
<1>8. CASE MatchIntentLexical(r)
  <2> DEFINE t == [u EXCEPT !.pc = "rank", !.lexical = TRUE]
  <2>1. wrun' = [wrun EXCEPT ![r] = t]
    BY <1>8 DEF MatchIntentLexical
  <2>2. t \in RunRow /\ t.pc = "rank" /\ t.lexical = TRUE
    BY <1>u DEF RunRow, RunPc
  <2> HIDE DEF t
  <2>3. RunSees(t)
    BY <2>2, LateSees
  <2> QED
    BY <2>1, <2>2, <2>3
<1>9. CASE KeepWatchMatches(r)
  <2>1. PICK K \in SUBSET Rankable(r) :
          wrun' = [wrun EXCEPT ![r].pc = IF K = {} THEN "finish" ELSE "judge", ![r].kept = K]
    BY <1>9 DEF KeepWatchMatches
  <2> DEFINE pc == IF K = {} THEN "finish" ELSE "judge"
             t == [u EXCEPT !.pc = pc, !.kept = K]
  <2>2. wrun' = [wrun EXCEPT ![r] = t]
    BY <2>1
  <2>3. pc \in {"finish", "judge"} /\ K \in SUBSET WatchLot
    BY DEF Rankable
  <2>4. u.pc = "rank" /\ u.lexical \in BOOLEAN
    BY <1>9, <1>u DEF KeepWatchMatches, RunRow
  <2>5. ASSUME u.lexical = FALSE, NEW l \in K
        PROVE  u.have[l] = [hash |-> u.cards[l], dims |-> u.dims]
    <3>1. l \in WatchLot /\ u.cards[l] # 0 /\ u.have[l].dims = u.dims
      BY <2>5 DEF Rankable
    <3>2. u.have[l].hash = u.cards[l]
      BY <1>s, <2>4, <2>5, <3>1 DEF RunSees
    <3>3. u.have[l] \in Vector
      BY <1>u, <3>1
    <3> QED
      BY <3>1, <3>2, <3>3 DEF Vector
  <2> HIDE DEF pc
  <2>6. /\ t \in RunRow /\ t.pc = pc /\ t.kept = K /\ t.have = u.have /\ t.cards = u.cards
        /\ t.dims = u.dims /\ t.lexical = u.lexical
    BY <1>u, <2>3 DEF RunRow, RunPc
  <2> HIDE DEF t
  <2>7. RunSees(t)
    BY <2>3, <2>5, <2>6 DEF RunSees
  <2> QED
    BY <2>2, <2>3, <2>6, <2>7
<1>10. CASE JudgeLots(r)
  <2>1. PICK K \in SUBSET u.kept :
          wrun' = [wrun EXCEPT ![r] = [IdleRun EXCEPT
                        !.pc = IF K = {} THEN "finish" ELSE "store", !.kept = K]]
    BY <1>10, Zenon DEF JudgeLots
  <2> DEFINE pc == IF K = {} THEN "finish" ELSE "store"
             t == [IdleRun EXCEPT !.pc = pc, !.kept = K]
  <2>2. wrun' = [wrun EXCEPT ![r] = t]
    BY <2>1
  <2>3. pc \in {"finish", "store"} /\ K \in SUBSET WatchLot
    BY <1>u
  <2> HIDE DEF pc
  <2>4. t \in RunRow /\ t.pc = pc
    BY <2>3, IdleRunFacts DEF RunRow, RunPc
  <2> HIDE DEF t
  <2>5. RunSees(t)
    BY <2>3, <2>4, LateSees
  <2> QED
    BY <2>2, <2>3, <2>4, <2>5
<1>11. CASE RunEnds(r)
  <2>1. wrun' = [wrun EXCEPT ![r] = IdleRun]
    BY <1>11 DEF RunEnds
  <2>2. RunSees(IdleRun)
    BY IdleRunFacts, LateSees
  <2> QED
    BY <2>1, <2>2, IdleRunFacts
<1> QED
  BY <1>1, <1>3, <1>4, <1>5, <1>6, <1>7, <1>8, <1>9, <1>10, <1>11 DEF QuietRun

(* What such a step leaves alone.                                           *)
LEMMA QuietRunFrame ==
    ASSUME NEW r \in WatchRun, QuietRun(r)
    PROVE  /\ UNCHANGED <<finding, savedFinds, announced, lotText, embedder, editor, decider, watchEdits>>
           /\ list' = list \/ list' = [list EXCEPT !.words = wrun[r].query]
           /\ vectors' = vectors \/ PruneLotEmbeddings(r) \/ ClearLotEmbeddings(r) \/ EmbedStale(r)
           /\ watchRuns' = watchRuns \/ (watchRuns < MaxRuns /\ watchRuns' = watchRuns + 1)
<1> DEFINE Kept == UNCHANGED <<finding, savedFinds, announced, lotText, embedder, editor, decider, watchEdits>>
           Words == list' = list \/ list' = [list EXCEPT !.words = wrun[r].query]
           Vecs == vectors' = vectors \/ PruneLotEmbeddings(r) \/ ClearLotEmbeddings(r) \/ EmbedStale(r)
           Runs == watchRuns' = watchRuns \/ (watchRuns < MaxRuns /\ watchRuns' = watchRuns + 1)
<1> SUFFICES Kept /\ Words /\ Vecs /\ Runs
  BY Zenon
<1>1. CASE LoadWatchlist(r)
  BY <1>1 DEF LoadWatchlist, rowVars, catalogText
<1>2. CASE PruneLotEmbeddings(r)
  <2>1. UNCHANGED <<rowVars, catalogText, handlerVars>>
    BY <1>2, Zenon DEF PruneLotEmbeddings
  <2> QED
    BY <1>2, <2>1 DEF rowVars, catalogText, handlerVars
<1>3. CASE LoadCards(r)
  <2>1. UNCHANGED <<rowVars, catalogText, vectors, handlerVars>>
    BY <1>3, Zenon DEF LoadCards
  <2> QED
    BY <2>1 DEF rowVars, catalogText, handlerVars
<1>4. CASE WatchWords(r)
  <2>1. UNCHANGED <<rowVars, catalogText, vectors, handlerVars>>
    BY <1>4, Zenon DEF WatchWords
  <2> QED
    BY <2>1 DEF rowVars, catalogText, handlerVars
<1>5. CASE EmbedProbes(r)
  <2>1. UNCHANGED <<rowVars, catalogText, vectors, handlerVars>>
    BY <1>5, Zenon DEF EmbedProbes
  <2> QED
    BY <2>1 DEF rowVars, catalogText, handlerVars
<1>6. CASE LoadLotEmbeddings(r)
  <2>1. UNCHANGED <<rowVars, catalogText, vectors, handlerVars>>
    BY <1>6, Zenon DEF LoadLotEmbeddings
  <2> QED
    BY <2>1 DEF rowVars, catalogText, handlerVars
<1>7. CASE ClearLotEmbeddings(r)
  <2>1. UNCHANGED <<rowVars, catalogText, handlerVars>>
    BY <1>7, Zenon DEF ClearLotEmbeddings
  <2> QED
    BY <1>7, <2>1 DEF rowVars, catalogText, handlerVars
<1>8. CASE EmbedStale(r)
  <2>1. UNCHANGED <<rowVars, catalogText, handlerVars>>
    BY <1>8, Zenon DEF EmbedStale
  <2> QED
    BY <1>8, <2>1 DEF rowVars, catalogText, handlerVars
<1>9. CASE MatchIntentLexical(r)
  <2>1. UNCHANGED <<rowVars, catalogText, vectors, handlerVars>>
    BY <1>9, Zenon DEF MatchIntentLexical
  <2> QED
    BY <2>1 DEF rowVars, catalogText, handlerVars
<1>10. CASE KeepWatchMatches(r)
  <2>1. UNCHANGED <<rowVars, catalogText, vectors, handlerVars>>
    BY <1>10, Zenon DEF KeepWatchMatches
  <2> QED
    BY <2>1 DEF rowVars, catalogText, handlerVars
<1>11. CASE JudgeLots(r)
  <2>1. UNCHANGED <<rowVars, catalogText, vectors, handlerVars>>
    BY <1>11, Zenon DEF JudgeLots
  <2> QED
    BY <2>1 DEF rowVars, catalogText, handlerVars
<1>12. CASE RunEnds(r)
  <2>1. UNCHANGED <<rowVars, catalogText, vectors, handlerVars>>
    BY <1>12, Zenon DEF RunEnds
  <2> QED
    BY <2>1 DEF rowVars, catalogText, handlerVars
<1>13. CASE \E ok \in BOOLEAN : WatchExpands(r, ok)
  BY <1>13 DEF WatchExpands, catalogText, handlerVars
<1> HIDE DEF Kept, Words, Vecs, Runs
<1> QED
  BY <1>1, <1>2, <1>3, <1>4, <1>5, <1>6, <1>7, <1>8, <1>9, <1>10, <1>11, <1>12, <1>13 DEF QuietRun

(* So the rows keep their types, and the runs what they see and tell.       *)
LEMMA QuietRunKeeps ==
    ASSUME WatchInv, NEW r \in WatchRun, QuietRun(r)
    PROVE  WatchInv'
<1>w. /\ wrun \in [WatchRun -> RunRow] /\ list \in ListRow /\ embedder \in Dims
      /\ vectors \in [WatchLot -> Vector] /\ lotText \in [WatchLot -> 0 .. MaxText]
  BY DEF WatchInv, WatchTyped
<1>u. /\ wrun[r] \in RunRow /\ wrun[r].cards \in [WatchLot -> 0 .. MaxText]
      /\ wrun[r].query \in WatchQuery \cup {NoQuery}
  BY <1>w DEF RunRow
<1>1. /\ UNCHANGED <<finding, savedFinds, announced, catalogText, editor, decider, watchEdits>>
      /\ list.row # "none" /\ list'.row = list.row
  <2>1. UNCHANGED <<finding, savedFinds, announced, catalogText, editor, decider, watchEdits>>
    BY QuietRunFrame DEF catalogText
  <2>2. wrun[r].pc = "idle" => LoadWatchlist(r)
    BY DEF QuietRun, PruneLotEmbeddings, LoadCards, WatchWords, WatchExpands,
           EmbedProbes, LoadLotEmbeddings, ClearLotEmbeddings, EmbedStale, MatchIntentLexical,
           KeepWatchMatches, JudgeLots, RunEnds
  <2>3. list.row # "none"
    BY <2>2, RunNeedsList DEF LoadWatchlist
  <2>4. list'.row = list.row
    BY <1>w, QuietRunFrame DEF ListRow
  <2> QED
    BY <2>1, <2>3, <2>4
<1>2. list' \in ListRow
  BY <1>w, <1>u, QuietRunFrame DEF ListRow
<1>3. vectors' \in [WatchLot -> Vector]
  <2>1. CASE PruneLotEmbeddings(r) \/ ClearLotEmbeddings(r)
    BY <1>w, <2>1, IdleRunFacts DEF PruneLotEmbeddings, ClearLotEmbeddings
  <2>2. CASE EmbedStale(r)
    <3> DEFINE S == {l \in WatchLot : wrun[r].cards[l] # 0 /\ ~FreshVector(r, l)}
    <3>1. vectors' = [l \in WatchLot |-> IF l \in S THEN [hash |-> wrun[r].cards[l], dims |-> embedder]
                                         ELSE vectors[l]]
      BY <2>2 DEF EmbedStale
    <3>2. \A l \in WatchLot : [hash |-> wrun[r].cards[l], dims |-> embedder] \in Vector
      BY <1>u, <1>w DEF Vector
    <3> HIDE DEF S
    <3> QED
      BY <1>w, <3>1, <3>2
  <2>3. CASE ~ (PruneLotEmbeddings(r) \/ ClearLotEmbeddings(r) \/ EmbedStale(r))
    BY <1>w, <2>3, QuietRunFrame
  <2> QED
    BY <2>1, <2>2, <2>3
<1>4. watchRuns' \in 0 .. MaxRuns
  <2>1. watchRuns \in 0 .. MaxRuns /\ MaxRuns \in Nat
    BY WatchAssumption DEF WatchInv, WatchTyped
  <2> QED
    BY <2>1, QuietRunFrame
<1>5. wrun' \in [WatchRun -> RunRow] /\ WatchSees' /\ WatchTells'
  BY <1>1, QuietRunMoves, RunMoves
<1> QED
  BY <1>1, <1>2, <1>3, <1>4, <1>5 DEF WatchInv, WatchTyped, catalogText

(* Storing inserts only the lots that have no finding, so no two runs come  *)
(* to announce the same one.                                                *)
LEMMA StoreFindingsKeeps ==
    ASSUME WatchInv, NEW r \in WatchRun, StoreFindings(r)
    PROVE  WatchInv'
<1> DEFINE u == wrun[r]
           K == {l \in u.kept : Unfound(l)}
           pc == IF K = {} THEN "finish" ELSE "announce"
           t == [u EXCEPT !.pc = pc, !.kept = K]
<1>w. /\ wrun \in [WatchRun -> RunRow] /\ list \in ListRow
      /\ finding \in [WatchLot -> {"none", "new", "accepted", "rejected"}]
  BY DEF WatchInv, WatchTyped
<1>u. u \in RunRow /\ u.kept \in SUBSET WatchLot /\ u.pc = "store"
  BY <1>w DEF RunRow, StoreFindings
<1>1. /\ finding' = [l \in WatchLot |-> IF l \in K THEN "new" ELSE finding[l]]
      /\ wrun' = [wrun EXCEPT ![r] = t]
  BY DEF StoreFindings
<1>2. K \in SUBSET WatchLot /\ pc \in {"finish", "announce"} /\ \A l \in K : finding[l] = "none"
  BY <1>u DEF Unfound
<1>3. UNCHANGED <<list, savedFinds, announced, catalogText, vectors, handlerVars>>
  BY DEF StoreFindings
<1> HIDE DEF K, pc
<1>4. t \in RunRow /\ t.pc = pc /\ t.kept = K
  BY <1>u, <1>2 DEF RunRow, RunPc
<1> HIDE DEF t
<1>5. /\ wrun' \in [WatchRun -> RunRow]
      /\ wrun'[r] = t /\ \A s \in WatchRun \ {r} : wrun'[s] = wrun[s]
  BY <1>1, <1>4, <1>w
<1>6. WatchSees'
  <2>1. RunSees(t)
    BY <1>2, <1>4, LateSees
  <2> QED
    BY <1>5, <2>1 DEF WatchInv, WatchSees
<1>7. WatchTells'
  <2>1. list.row # "none"
    BY <1>u, RunNeedsList
  <2>2. ASSUME list.row = "here", NEW l \in WatchLot
        PROVE  /\ announced[l] <= 1
               /\ finding'[l] = "none" => announced[l] = 0
               /\ \A s \in WatchRun : Tells(wrun'[s], l) => finding'[l] # "none" /\ announced[l] = 0
               /\ \A s, q \in WatchRun : Tells(wrun'[s], l) /\ Tells(wrun'[q], l) => s = q
    <3>1. CASE l \in K
      <4>1. finding[l] = "none" /\ finding'[l] = "new" /\ announced[l] = 0
        BY <1>1, <1>2, <2>2, <3>1 DEF WatchInv, WatchTells
      <4>2. \A s \in WatchRun \ {r} : ~ Tells(wrun'[s], l)
        BY <1>5, <2>2, <4>1 DEF WatchInv, WatchTells
      <4> QED
        BY <4>1, <4>2
    <3>2. CASE l \notin K
      <4>1. finding'[l] = finding[l] /\ ~ Tells(wrun'[r], l)
        BY <1>1, <1>4, <1>5, <3>2 DEF Tells
      <4>2. \A s \in WatchRun : Tells(wrun'[s], l) => Tells(wrun[s], l)
        BY <1>5, <4>1
      <4> QED
        BY <2>2, <4>1, <4>2 DEF WatchInv, WatchTells
    <3> QED
      BY <3>1, <3>2
  <2> QED
    BY <1>3, <2>1, <2>2 DEF WatchTells
<1>8. finding' \in [WatchLot -> {"none", "new", "accepted", "rejected"}]
  BY <1>1, <1>w
<1> QED
  BY <1>3, <1>5, <1>6, <1>7, <1>8 DEF WatchInv, WatchTyped, catalogText, handlerVars

(* A run announces what it stored, and then owes nothing. *)
LEMMA AnnounceKeeps ==
    ASSUME WatchInv, NEW r \in WatchRun, NEW ok \in BOOLEAN, Announce(r, ok)
    PROVE  WatchInv'
<1> DEFINE u == wrun[r]
           t == [u EXCEPT !.pc = "finish"]
<1>w. wrun \in [WatchRun -> RunRow] /\ list \in ListRow /\ announced \in [WatchLot -> Nat]
  BY DEF WatchInv, WatchTyped
<1>u. u \in RunRow /\ u.pc = "announce"
  BY <1>w DEF Announce
<1>1. /\ wrun' = [wrun EXCEPT ![r] = t]
      /\ announced' = [l \in WatchLot |-> IF ok /\ l \in u.kept THEN announced[l] + 1 ELSE announced[l]]
      /\ UNCHANGED <<list, finding, savedFinds, catalogText, vectors, handlerVars>>
  BY DEF Announce
<1>2. t \in RunRow /\ t.pc = "finish"
  BY <1>u DEF RunRow, RunPc
<1> HIDE DEF t
<1>3. /\ wrun' \in [WatchRun -> RunRow]
      /\ wrun'[r] = t /\ \A s \in WatchRun \ {r} : wrun'[s] = wrun[s]
  BY <1>1, <1>2, <1>w
<1>4. announced' \in [WatchLot -> Nat]
  BY <1>1, <1>w
<1>5. WatchSees'
  <2>1. RunSees(t)
    BY <1>2, LateSees
  <2> QED
    BY <1>3, <2>1 DEF WatchInv, WatchSees
<1>6. WatchTells'
  <2>1. list.row # "none"
    BY <1>u, RunNeedsList
  <2>2. \A s \in WatchRun, l \in WatchLot : Tells(wrun'[s], l) => s # r /\ Tells(wrun[s], l)
    BY <1>2, <1>3 DEF Tells
  <2>3. ASSUME list.row = "here", NEW l \in WatchLot
        PROVE  /\ announced'[l] <= 1
               /\ finding[l] = "none" => announced'[l] = 0
               /\ \A s \in WatchRun : Tells(wrun'[s], l) => finding[l] # "none" /\ announced'[l] = 0
               /\ \A s, q \in WatchRun : Tells(wrun'[s], l) /\ Tells(wrun'[q], l) => s = q
    <3>1. CASE l \in u.kept
      <4>1. Tells(wrun[r], l)
        BY <1>u, <3>1 DEF Tells
      <4>2. finding[l] # "none" /\ announced[l] = 0 /\ \A s \in WatchRun \ {r} : ~ Tells(wrun[s], l)
        BY <2>3, <4>1 DEF WatchInv, WatchTells
      <4>3. announced'[l] <= 1
        BY <1>1, <4>2
      <4> QED
        BY <2>2, <4>2, <4>3
    <3>2. CASE l \notin u.kept
      <4>1. announced'[l] = announced[l]
        BY <1>1, <3>2
      <4> QED
        BY <2>2, <2>3, <4>1 DEF WatchInv, WatchTells
    <3> QED
      BY <3>1, <3>2
  <2> QED
    BY <1>1, <2>1, <2>3 DEF WatchTells
<1> QED
  BY <1>1, <1>3, <1>4, <1>5, <1>6 DEF WatchInv, WatchTyped, catalogText, handlerVars

(* A handler leaves the runs alone: it may decide findings, and delete the  *)
(* list together with them.                                                 *)
LEMMA HandlerKeeps ==
    ASSUME WatchInv, UNCHANGED <<wrun, announced>>, WatchTyped',
           \/ list'.row = "deleted"
           \/ list'.row = "here" /\ list.row = "none" /\ finding' = finding
           \/ /\ list'.row = list.row
              /\ \A l \in WatchLot : finding[l] = "none" <=> finding'[l] = "none"
    PROVE  WatchInv'
<1>1. WatchSees'
  BY DEF WatchInv, WatchSees
<1>2. WatchTells'
  <2>1. CASE list'.row = "deleted"
    BY <2>1 DEF WatchTells
  <2>2. CASE list'.row = "here" /\ list.row = "none" /\ finding' = finding
    BY <2>2 DEF WatchInv, WatchTells, Tells
  <2>3. CASE /\ list'.row = list.row
             /\ \A l \in WatchLot : finding[l] = "none" <=> finding'[l] = "none"
    BY <2>3 DEF WatchInv, WatchTells
  <2> QED
    BY <2>1, <2>2, <2>3
<1> QED
  BY <1>1, <1>2 DEF WatchInv

(* The handlers of the list, of its findings, and what happens to lots and  *)
(* models meanwhile.                                                        *)
Handler ==
    \/ \E q \in WatchQuery : CreateWatchlist(q)
    \/ UpdateReads \/ DeleteWatchlist \/ DecideWrites \/ ExpansionStale
    \/ \E q \in WatchQuery, on \in BOOLEAN : UpdateWrites(q, on)
    \/ \E l \in WatchLot : TextChanges(l)
    \/ \E l \in WatchLot, verdict \in {"accepted", "rejected"} : DecideReads(l, verdict)
    \/ \E d \in Dims : ModelReplaced(d)

(* No handler loses a decision while the list is there. *)
LEMMA HandlerStep ==
    ASSUME WatchInv, Handler
    PROVE  /\ WatchInv'
           /\ list'.row = "here" =>
                 \A l \in WatchLot : finding[l] \in Verdict => finding'[l] \in Verdict
<1>w. WatchTyped
  BY DEF WatchInv
<1>r. /\ list \in ListRow /\ list.row \in {"none", "here", "deleted"}
      /\ watchEdits \in 0 .. MaxWatchEdits /\ MaxWatchEdits \in Nat
      /\ finding \in [WatchLot -> {"none", "new", "accepted", "rejected"}]
  BY <1>w, WatchAssumption DEF WatchTyped, ListRow
<1>1. ASSUME NEW q \in WatchQuery, CreateWatchlist(q)
      PROVE  /\ WatchInv'
             /\ \A l \in WatchLot : finding[l] \in Verdict => finding'[l] \in Verdict
  <2>1. list' \in ListRow /\ list'.row = "here" /\ list.row = "none" /\ finding' = finding
    BY <1>1 DEF CreateWatchlist, ListRow
  <2>2. WatchTyped'
    BY <1>1, <1>w, <2>1 DEF CreateWatchlist, WatchTyped, catalogText, handlerVars
  <2>3. UNCHANGED <<wrun, announced>>
    BY <1>1 DEF CreateWatchlist
  <2> QED
    BY <2>1, <2>2, <2>3, HandlerKeeps
<1>2. ASSUME UpdateReads
      PROVE  WatchInv' /\ finding' = finding
  <2>1. UNCHANGED <<list, finding, wrun, announced>>
    BY <1>2 DEF UpdateReads, rowVars
  <2>2. editor' \in WatchQuery \cup {NoQuery} /\ watchEdits' \in 0 .. MaxWatchEdits
    BY <1>2, <1>r DEF UpdateReads, ListRow
  <2>3. WatchTyped'
    BY <1>2, <1>w, <2>2 DEF UpdateReads, WatchTyped, rowVars, catalogText
  <2> QED
    BY <2>1, <2>3, HandlerKeeps
<1>3. ASSUME NEW q \in WatchQuery, NEW on \in BOOLEAN, UpdateWrites(q, on)
      PROVE  WatchInv' /\ finding' = finding
  <2>1. UNCHANGED <<finding, wrun, announced>>
    BY <1>3 DEF UpdateWrites
  <2>2. list' \in ListRow /\ list'.row = list.row
    BY <1>3, <1>r DEF UpdateWrites, ListRow
  <2>3. WatchTyped'
    BY <1>3, <1>w, <2>2 DEF UpdateWrites, WatchTyped, catalogText
  <2> QED
    BY <2>1, <2>2, <2>3, HandlerKeeps
<1>4. ASSUME DeleteWatchlist
      PROVE  WatchInv' /\ list'.row = "deleted"
  <2>1. list' \in ListRow /\ list'.row = "deleted"
    BY <1>4, <1>r DEF DeleteWatchlist, ListRow
  <2>2. WatchTyped'
    BY <1>4, <1>w, <2>1 DEF DeleteWatchlist, WatchTyped, catalogText, handlerVars
  <2>3. UNCHANGED <<wrun, announced>>
    BY <1>4 DEF DeleteWatchlist
  <2> QED
    BY <2>1, <2>2, <2>3, HandlerKeeps
<1>5. ASSUME NEW l \in WatchLot, NEW v \in Verdict, DecideReads(l, v)
      PROVE  WatchInv' /\ finding' = finding
  <2>1. UNCHANGED <<list, finding, wrun, announced>>
    BY <1>5 DEF DecideReads, rowVars
  <2>2. decider' \subseteq WatchLot \X Verdict /\ watchEdits' \in 0 .. MaxWatchEdits
    BY <1>5, <1>r DEF DecideReads
  <2>3. WatchTyped'
    BY <1>5, <1>w, <2>2 DEF DecideReads, WatchTyped, rowVars, catalogText
  <2> QED
    BY <2>1, <2>3, HandlerKeeps
<1>6. ASSUME DecideWrites
      PROVE  /\ WatchInv'
             /\ \A l \in WatchLot : finding[l] \in Verdict => finding'[l] \in Verdict
  <2>1. PICK d \in decider :
          /\ finding' = [finding EXCEPT ![d[1]] = IF @ = "none" THEN @ ELSE d[2]]
          /\ savedFinds' = IF d[2] = "accepted" THEN savedFinds \cup {d[1]} ELSE savedFinds
    BY <1>6 DEF DecideWrites
  <2>2. d[1] \in WatchLot /\ d[2] \in Verdict
    BY <1>w DEF WatchTyped
  <2>3. UNCHANGED <<list, wrun, announced>> /\ decider' = {}
    BY <1>6 DEF DecideWrites
  <2>4. /\ finding' \in [WatchLot -> {"none", "new", "accepted", "rejected"}]
        /\ \A l \in WatchLot : finding'[l] = IF l = d[1] /\ finding[l] # "none" THEN d[2] ELSE finding[l]
    BY <1>r, <2>1, <2>2 DEF Verdict
  <2>5. savedFinds' \subseteq WatchLot
    BY <1>w, <2>1, <2>2 DEF WatchTyped
  <2>6. WatchTyped'
    BY <1>6, <1>w, <2>3, <2>4, <2>5 DEF DecideWrites, WatchTyped, catalogText
  <2>7. \A l \in WatchLot : finding[l] = "none" <=> finding'[l] = "none"
    BY <2>2, <2>4 DEF Verdict
  <2> QED
    BY <2>2, <2>3, <2>4, <2>6, <2>7, HandlerKeeps
<1>7. ASSUME ExpansionStale
      PROVE  WatchInv' /\ finding' = finding
  <2>1. UNCHANGED <<finding, wrun, announced>>
    BY <1>7 DEF ExpansionStale
  <2>2. list' \in ListRow /\ list'.row = list.row
    BY <1>7, <1>r DEF ExpansionStale, ListRow
  <2>3. WatchTyped'
    BY <1>7, <1>w, <2>2 DEF ExpansionStale, WatchTyped, catalogText, handlerVars
  <2> QED
    BY <2>1, <2>2, <2>3, HandlerKeeps
<1>8. ASSUME NEW l \in WatchLot, TextChanges(l)
      PROVE  WatchInv' /\ finding' = finding
  <2>1. UNCHANGED <<list, finding, wrun, announced>>
    BY <1>8 DEF TextChanges, rowVars
  <2>2. PICK t \in {0} \cup ((lotText[l] + 1) .. MaxText) : lotText' = [lotText EXCEPT ![l] = t]
    BY <1>8 DEF TextChanges
  <2>3. t \in 0 .. MaxText
    BY <1>w, <2>2, WatchAssumption DEF WatchTyped
  <2>4. lotText' \in [WatchLot -> 0 .. MaxText]
    BY <1>w, <2>2, <2>3 DEF WatchTyped
  <2>5. WatchTyped'
    BY <1>8, <1>w, <2>4 DEF TextChanges, WatchTyped, rowVars, handlerVars
  <2> QED
    BY <2>1, <2>5, HandlerKeeps
<1>9. ASSUME NEW d \in Dims, ModelReplaced(d)
      PROVE  WatchInv' /\ finding' = finding
  <2>1. UNCHANGED <<list, finding, wrun, announced>>
    BY <1>9 DEF ModelReplaced, rowVars
  <2>2. watchEdits' \in 0 .. MaxWatchEdits /\ embedder' \in Dims
    BY <1>9, <1>r DEF ModelReplaced
  <2>3. WatchTyped'
    BY <1>9, <1>w, <2>2 DEF ModelReplaced, WatchTyped, rowVars
  <2> QED
    BY <2>1, <2>3, HandlerKeeps
<1> QED
  BY <1>1, <1>2, <1>3, <1>4, <1>5, <1>6, <1>7, <1>8, <1>9 DEF Handler, Verdict

(* However many runs match the list at once, and whatever the operator, the *)
(* lots and the model do meanwhile, a lot is ranked by the text on its card *)
(* and the dimension of the probes, announced once while the list exists,   *)
(* and never reopened once it was decided.                                  *)
THEOREM FindingsStayDecided == WatchSpec => WatchHolds
<1> DEFINE Stick == list'.row = "here" =>
       \A l \in WatchLot : finding[l] \in {"accepted", "rejected"} => finding'[l] \in {"accepted", "rejected"}
<1>1. WatchInit => WatchInv
  <2> SUFFICES ASSUME WatchInit PROVE WatchInv
    OBVIOUS
  <2>1. \A r \in WatchRun : wrun[r] = IdleRun
    BY DEF WatchInit
  <2>2. WatchSees
    BY <2>1, IdleRunFacts, LateSees DEF WatchSees
  <2>3. WatchTells
    BY <2>1, IdleRunFacts DEF WatchInit, WatchTells
  <2>4. WatchTyped
    <3>1. lotText \in [WatchLot -> 0 .. MaxText]
      BY WatchAssumption DEF WatchInit
    <3>2. 0 \in 0 .. MaxRuns /\ 0 \in 0 .. MaxWatchEdits
      BY WatchAssumption
    <3>3. list \in ListRow
      BY DEF WatchInit, ListRow
    <3> QED
      BY <3>1, <3>2, <3>3, IdleRunFacts DEF WatchInit, WatchTyped
  <2> QED
    BY <2>2, <2>3, <2>4 DEF WatchInv
<1>2. ASSUME WatchInv, [WatchNext]_watchVars
      PROVE  WatchInv' /\ [Stick]_watchVars
  <2> USE <1>2
  <2>1. ASSUME NEW r \in WatchRun, QuietRun(r)
        PROVE  WatchInv' /\ Stick
    <3>1. finding' = finding
      BY <2>1, QuietRunFrame
    <3> QED
      BY <2>1, <3>1, QuietRunKeeps
  <2>2. ASSUME NEW r \in WatchRun, StoreFindings(r)
        PROVE  WatchInv' /\ Stick
    <3>1. \A l \in WatchLot : finding[l] # "none" => finding'[l] = finding[l]
      BY <2>2 DEF StoreFindings, Unfound
    <3> QED
      BY <2>2, <3>1, StoreFindingsKeeps
  <2>3. ASSUME NEW r \in WatchRun, NEW ok \in BOOLEAN, Announce(r, ok)
        PROVE  WatchInv' /\ Stick
    BY <2>3, AnnounceKeeps DEF Announce
  <2>4. CASE Handler
    BY <2>4, HandlerStep DEF Verdict
  <2>5. CASE UNCHANGED watchVars
    BY <2>5 DEF watchVars, WatchInv, WatchTyped, WatchSees, WatchTells
  <2> HIDE DEF Stick
  <2> QED
    BY <2>1, <2>2, <2>3, <2>4, <2>5 DEF WatchNext, QuietRun, Handler
<1>3. WatchInv => WatchTypeOK /\ RankedAsSeen /\ AnnouncedOnce
  <2> SUFFICES ASSUME WatchInv PROVE WatchTypeOK /\ RankedAsSeen /\ AnnouncedOnce
    OBVIOUS
  <2>1. \A r \in WatchRun : wrun[r] \in RunRow
    BY DEF WatchInv, WatchTyped
  <2>2. WatchTypeOK
    BY <2>1 DEF WatchInv, WatchTyped, WatchTypeOK, ListRow, RunRow, RunPc
  <2>3. RankedAsSeen
    BY <2>1 DEF WatchInv, WatchSees, RunSees, RankedAsSeen, RunRow
  <2>4. AnnouncedOnce
    BY DEF WatchInv, WatchTells, AnnouncedOnce
  <2> QED
    BY <2>2, <2>3, <2>4
<1> QED
  BY <1>1, <1>2, <1>3, PTL DEF WatchSpec, WatchHolds, DecisionsStick

------------------------------------------------------------------------------
(***************************************************************************)
(* The scheduled sweep.                                                    *)
(***************************************************************************)

(* Induction over the numbers, with a set in place of a predicate. *)
LEMMA InductionOnNat ==
    ASSUME NEW S, 0 \in S, \A n \in Nat : n \in S => n + 1 \in S
    PROVE  Nat \subseteq S
<1> SUFFICES ASSUME NEW T \in SUBSET Nat, T = Nat \ S, T # {} PROVE FALSE
  OBVIOUS
<1>1. PICK x \in T : \A y \in T : x <= y
  BY LeastFacts
<1>2. x \in Nat /\ x # 0 /\ x \notin S
  OBVIOUS
<1>3. x - 1 \in Nat /\ ~ (x <= x - 1) /\ (x - 1) + 1 = x
  BY ONLY <1>2
<1> QED
  BY <1>1, <1>2, <1>3

(* The targets of a tick are auctions, and no more than its share. *)
IsPicked(f) ==
    f = [n \in 0..Len(ClosingOrder) |->
           IF n = 0 THEN <<>>
           ELSE IF ToSweep(ClosingOrder[n]) /\ Len(f[n - 1]) < MaxAuctionsPerSweep
                THEN Append(f[n - 1], ClosingOrder[n]) ELSE f[n - 1]]
PickedUpTo == CHOOSE f : IsPicked(f)

LEMMA AuctionsToSweepIsLast == AuctionsToSweep = PickedUpTo[Len(ClosingOrder)]
  BY DEF AuctionsToSweep, PickedUpTo, IsPicked

LEMMA PickedExist == \E f : IsPicked(f)
<1> DEFINE Next(n, k) == IF ToSweep(ClosingOrder[n]) /\ Len(k) < MaxAuctionsPerSweep
                         THEN Append(k, ClosingOrder[n]) ELSE k
           Upto(n, f) == f = [i \in 0..n |-> IF i = 0 THEN <<>> ELSE Next(i, f[i - 1])]
           N == {n \in Nat : \E f : Upto(n, f)}
<1>1. 0 \in N
  <2>1. Upto(0, [i \in 0..0 |-> <<>>])
    OBVIOUS
  <2> QED
    BY <2>1
<1>2. ASSUME NEW n \in Nat, n \in N PROVE n + 1 \in N
  <2>1. PICK f : Upto(n, f)
    <3> HIDE DEF Upto
    <3> QED
      BY <1>2
  <2> DEFINE g == [i \in 0..(n + 1) |-> IF i = n + 1 THEN Next(n + 1, f[n]) ELSE f[i]]
  <2> HIDE DEF Next
  <2>2. ASSUME NEW i \in 0..(n + 1) PROVE g[i] = IF i = 0 THEN <<>> ELSE Next(i, g[i - 1])
    <3>1. CASE i = n + 1
      <4>1. i # 0 /\ i - 1 = n /\ n \in 0..(n + 1) /\ n # n + 1
        BY <3>1
      <4>2. g[n] = f[n]
        BY <4>1
      <4> QED
        BY <3>1, <4>1, <4>2
    <3>2. CASE i # n + 1
      <4>1. i \in 0..n /\ (i # 0 => i - 1 \in 0..n /\ i - 1 \in 0..(n + 1) /\ i - 1 # n + 1)
        BY <3>2
      <4>2. g[i] = f[i] /\ (i # 0 => g[i - 1] = f[i - 1])
        BY <3>2, <4>1
      <4>3. f[i] = IF i = 0 THEN <<>> ELSE Next(i, f[i - 1])
        BY <2>1, <4>1
      <4> QED
        BY <4>2, <4>3
    <3> QED
      BY <3>1, <3>2
  <2>3. Upto(n + 1, g)
    BY <2>2
  <2> HIDE DEF Upto, g
  <2> QED
    BY <2>3
<1>3. Len(ClosingOrder) \in N
  <2>1. Len(ClosingOrder) \in Nat
    BY SweepAssumption, LenProperties
  <2> HIDE DEF N
  <2> QED
    BY <1>1, <1>2, <2>1, InductionOnNat
<1>4. PICK f : Upto(Len(ClosingOrder), f)
  <2> HIDE DEF Upto
  <2> QED
    BY <1>3
<1> QED
  BY <1>4 DEF IsPicked

LEMMA AuctionsToSweepFacts == AuctionsToSweep \in Seq(BidrlAuction) /\ Len(AuctionsToSweep) <= MaxAuctionsPerSweep
<1> DEFINE f == PickedUpTo
           N == {n \in Nat : n <= Len(ClosingOrder) => f[n] \in Seq(BidrlAuction) /\ Len(f[n]) <= MaxAuctionsPerSweep}
<1>0. /\ Len(ClosingOrder) \in Nat /\ MaxAuctionsPerSweep \in Nat
      /\ \A i \in 1..Len(ClosingOrder) : ClosingOrder[i] \in BidrlAuction
  BY SweepAssumption, LenProperties, ElementOfSeq
<1>1. \A n \in 0..Len(ClosingOrder) :
        f[n] = IF n = 0 THEN <<>>
               ELSE IF ToSweep(ClosingOrder[n]) /\ Len(f[n - 1]) < MaxAuctionsPerSweep
                    THEN Append(f[n - 1], ClosingOrder[n]) ELSE f[n - 1]
  <2>1. IsPicked(f)
    BY PickedExist DEF PickedUpTo
  <2> HIDE DEF f
  <2> QED
    BY <2>1 DEF IsPicked
<1> HIDE DEF f
<1>2. 0 \in N
  <2>1. f[0] = <<>>
    <3>1. 0 \in 0..Len(ClosingOrder)
      BY <1>0
    <3> QED
      BY <1>1, <3>1
  <2>2. f[0] \in Seq(BidrlAuction) /\ Len(f[0]) = 0
    BY <2>1, EmptySeq
  <2>3. Len(f[0]) <= MaxAuctionsPerSweep
    BY <1>0, <2>2
  <2> QED
    BY <2>2, <2>3
<1>3. ASSUME NEW n \in Nat, n \in N PROVE n + 1 \in N
  <2> SUFFICES ASSUME n + 1 <= Len(ClosingOrder)
               PROVE  f[n + 1] \in Seq(BidrlAuction) /\ Len(f[n + 1]) <= MaxAuctionsPerSweep
    OBVIOUS
  <2>1. f[n] \in Seq(BidrlAuction) /\ Len(f[n]) <= MaxAuctionsPerSweep /\ Len(f[n]) \in Nat
    BY <1>0, <1>3, LenProperties
  <2>2. n + 1 \in 0..Len(ClosingOrder) /\ n + 1 # 0 /\ (n + 1) - 1 = n /\ ClosingOrder[n + 1] \in BidrlAuction
    BY <1>0
  <2>3. f[n + 1] = IF ToSweep(ClosingOrder[n + 1]) /\ Len(f[n]) < MaxAuctionsPerSweep
                   THEN Append(f[n], ClosingOrder[n + 1]) ELSE f[n]
    BY <1>1, <2>2
  <2>4. CASE ToSweep(ClosingOrder[n + 1]) /\ Len(f[n]) < MaxAuctionsPerSweep
    <3>1. f[n + 1] \in Seq(BidrlAuction) /\ Len(f[n + 1]) = Len(f[n]) + 1
      BY <2>1, <2>2, <2>3, <2>4, AppendProperties
    <3> QED
      BY <1>0, <2>1, <2>4, <3>1
  <2>5. CASE ~ (ToSweep(ClosingOrder[n + 1]) /\ Len(f[n]) < MaxAuctionsPerSweep)
    BY <2>1, <2>3, <2>5
  <2> QED
    BY <2>4, <2>5
<1>4. Len(ClosingOrder) \in N
  <2> HIDE DEF N
  <2> QED
    BY <1>0, <1>2, <1>3, InductionOnNat
<1>5. AuctionsToSweep = f[Len(ClosingOrder)]
  BY AuctionsToSweepIsLast DEF f
<1> QED
  BY <1>0, <1>4, <1>5

(* Where discovery looks, and what it finds. *)
LEMMA WantedFacts == \A allow : Wanted(allow) \subseteq allow
  BY DEF Wanted

LEMMA FirstSeenFacts ==
    ASSUME NEW a, NEW visited
    PROVE  /\ FirstSeen(a, visited) \in (Location \cap visited) \cup {NoLocation}
<1> DEFINE at == {i \in DOMAIN SiteMenu : SiteMenu[i] \in visited /\ a \in SitePage[SiteMenu[i]]}
<1>1. Len(SiteMenu) \in Nat /\ DOMAIN SiteMenu = 1..Len(SiteMenu) /\ \A i \in 1..Len(SiteMenu) : SiteMenu[i] \in Location
  BY SweepAssumption, LenProperties, ElementOfSeq
<1>2. CASE at = {}
  BY <1>2 DEF FirstSeen
<1>3. CASE at # {}
  <2>1. at \in SUBSET Nat
    BY <1>1
  <2>2. Min(at) \in at
    <3> HIDE DEF at
    <3> QED
      BY <1>3, <2>1, LeastFacts
  <2>3. FirstSeen(a, visited) = SiteMenu[Min(at)]
    BY <1>3 DEF FirstSeen
  <2> QED
    BY <1>1, <2>2, <2>3
<1> QED
  BY <1>2, <1>3

(* The inductive invariant. *)
TickRecords ==
    [pc : {"idle", "discover", "targets", "next", "enumerate", "item", "store"}, targets : Seq(BidrlAuction),
     cur : BidrlAuction \cup {NoAuction}, left : 0 .. MaxLotsPerAuction, got : 0 .. MaxLotsPerAuction,
     lots : Nat, consecutive : Nat, refused : BOOLEAN, n : 0 .. MaxTicks]

(* What a tick is at: it collects an auction, before the cap, and the lots  *)
(* it has and those it still reads are no more than an auction's.           *)
TickOk(k) ==
    /\ k \in TickRecords /\ Len(k.targets) <= MaxAuctionsPerSweep
    /\ k.pc # "idle" => Chosen # {}
    /\ k.pc \in {"enumerate", "item", "store"} => k.cur \in BidrlAuction /\ k.lots < MaxNewLotsPerSweep
    /\ k.pc \in {"item", "store"} => k.got + k.left <= MaxLotsPerAuction
    /\ k.pc = "item" => k.left > 0
    /\ k.pc = "enumerate" => k.got = 0
    /\ k.lots < MaxNewLotsPerSweep + MaxLotsPerAuction

RowsOk ==
    /\ automationOn \in BOOLEAN
    /\ listing \in [BidrlAuction -> Location \cup {NoLocation}]
    /\ status \in [BidrlAuction -> {"none", "collecting", "ready", "failed"}]
    /\ place \in [BidrlAuction -> Location \cup {NoLocation}]
    /\ latch \in 0 .. MaxSweepClock + ThrottleHold
    /\ sweepClock \in 0 .. MaxSweepClock

SweepInv == RowsOk /\ TickOk(tick)

LEMMA SweepNumbers ==
    /\ MaxAuctionsPerSweep \in Nat \ {0} /\ MaxNewLotsPerSweep \in Nat \ {0} /\ MaxLotsPerAuction \in Nat \ {0}
    /\ RateLimitMax \in Nat \ {0} /\ ThrottleHold \in Nat \ {0} /\ MaxAffiliates \in Nat \ {0}
    /\ MaxSweepClock \in Nat /\ MaxTicks \in Nat
  BY SweepAssumption

LEMMA SweepMeans == SweepInv => SweepTypeOK /\ TickBounded
  BY DEF SweepInv, RowsOk, TickOk, TickRecords, SweepTypeOK, TickBounded

(* A tick that rests, whatever it remembers. *)
LEMMA RestingTick ==
    ASSUME NEW k \in TickRecords, k.pc \in {"idle", "discover"}, k.targets = <<>>, k.lots = 0,
           k.pc = "discover" => Chosen # {}
    PROVE  TickOk(k)
<1>1. Len(k.targets) = 0
  BY EmptySeq
<1>2. Len(k.targets) <= MaxAuctionsPerSweep /\ k.lots < MaxNewLotsPerSweep + MaxLotsPerAuction
  BY <1>1, SweepNumbers
<1> QED
  BY <1>2 DEF TickOk

LEMMA IdleIsTick == IdleTick \in TickRecords /\ IdleTick.pc = "idle" /\ IdleTick.targets = <<>> /\ IdleTick.lots = 0
<1>1. <<>> \in Seq(BidrlAuction)
  BY EmptySeq
<1> QED
  BY <1>1, SweepNumbers DEF IdleTick, TickRecords

LEMMA TickOverOk == TickOk(tick) => TickOk(TickOver)
<1> SUFFICES ASSUME TickOk(tick) PROVE TickOk(TickOver)
  OBVIOUS
<1>1. tick.n \in 0 .. MaxTicks /\ tick.refused \in BOOLEAN
  BY DEF TickOk, TickRecords
<1>2. /\ TickOver \in TickRecords /\ TickOver.pc = "idle" /\ TickOver.targets = <<>> /\ TickOver.lots = 0
  BY <1>1, IdleIsTick DEF TickOver, TickRecords
<1> QED
  BY <1>2, RestingTick

LEMMA SweepStartsRight == SweepInit => SweepInv
<1> SUFFICES ASSUME SweepInit PROVE SweepInv
  OBVIOUS
<1>1. RowsOk
  BY SweepNumbers DEF SweepInit, RowsOk
<1>2. TickOk(tick)
  BY IdleIsTick, RestingTick DEF SweepInit
<1> QED
  BY <1>1, <1>2 DEF SweepInv

(* Discovery stores locations, and forgets none. *)
LEMMA ListingFacts ==
    ASSUME RowsOk, NEW only, NEW visited, ReplaceListing(only, visited)
    PROVE  /\ listing' \in [BidrlAuction -> Location \cup {NoLocation}]
           /\ place' \in [BidrlAuction -> Location \cup {NoLocation}]
           /\ \A a \in BidrlAuction : place[a] # NoLocation => place'[a] # NoLocation
           /\ \A a \in BidrlAuction :
                a \notin Cleared(only) /\ FirstSeen(a, visited) = NoLocation => listing'[a] = listing[a]
<1> DEFINE rows == [a \in BidrlAuction |->
                      IF FirstSeen(a, visited) # NoLocation THEN FirstSeen(a, visited)
                      ELSE IF a \in Cleared(only) THEN NoLocation ELSE listing[a]]
<1>1. /\ listing' = rows
      /\ place' = [a \in BidrlAuction |-> IF FirstSeen(a, visited) # NoLocation THEN Stamped(a, rows) ELSE place[a]]
  BY DEF ReplaceListing
<1>2. \A a \in BidrlAuction : FirstSeen(a, visited) \in Location \cup {NoLocation}
  BY FirstSeenFacts
<1>3. rows \in [BidrlAuction -> Location \cup {NoLocation}]
  BY <1>2 DEF RowsOk
<1>4. \A a \in BidrlAuction : a \notin Cleared(only) /\ FirstSeen(a, visited) = NoLocation => rows[a] = listing[a]
  OBVIOUS
<1> HIDE DEF rows
<1>5. \A a \in BidrlAuction : /\ Stamped(a, rows) \in Location \cup {NoLocation}
                              /\ place[a] # NoLocation => Stamped(a, rows) # NoLocation
  BY <1>3 DEF Stamped, RowsOk
<1> QED
  BY <1>1, <1>3, <1>4, <1>5 DEF RowsOk

LEMMA DiscoversKeeps ==
    ASSUME RowsOk, NEW only, NEW allow, Discovers(only, allow)
    PROVE  /\ listing' \in [BidrlAuction -> Location \cup {NoLocation}]
           /\ place' \in [BidrlAuction -> Location \cup {NoLocation}]
           /\ \A a \in BidrlAuction : place[a] # NoLocation => place'[a] # NoLocation
           /\ only # {} => \A a \in BidrlAuction : listing[a] \notin only \cup {NoLocation} => listing'[a] = listing[a]
<1>1. PICK failed \in SUBSET Wanted(allow) :
         IF Wanted(allow) = {} THEN UNCHANGED <<listing, place>>
         ELSE /\ ~Conflicts(only, Wanted(allow) \ failed)
              /\ ReplaceListing(only, Wanted(allow) \ failed)
  BY DEF Discovers
<1>2. CASE Wanted(allow) = {}
  BY <1>1, <1>2 DEF RowsOk
<1>3. CASE Wanted(allow) # {}
  <2> DEFINE visited == Wanted(allow) \ failed
  <2>1. ~Conflicts(only, visited) /\ ReplaceListing(only, visited)
    BY <1>1, <1>3
  <2> HIDE DEF visited
  <2>2. ASSUME only # {}, NEW a \in BidrlAuction, listing[a] \notin only \cup {NoLocation} PROVE listing'[a] = listing[a]
    <3>1. a \notin Cleared(only)
      BY <2>2 DEF Cleared
    <3>2. FirstSeen(a, visited) = NoLocation
      BY <2>1, <2>2, <3>1 DEF Conflicts
    <3> QED
      BY <2>1, <3>1, <3>2, ListingFacts
  <2>3. /\ listing' \in [BidrlAuction -> Location \cup {NoLocation}]
        /\ place' \in [BidrlAuction -> Location \cup {NoLocation}]
        /\ \A a \in BidrlAuction : place[a] # NoLocation => place'[a] # NoLocation
    BY <2>1, ListingFacts
  <2> QED
    BY <2>2, <2>3
<1> QED
  BY <1>2, <1>3

LEMMA FewestOf == \A a, b \in Nat : Min({a, b}) \in Nat /\ Min({a, b}) <= a /\ Min({a, b}) <= b
<1> SUFFICES ASSUME NEW a \in Nat, NEW b \in Nat PROVE Min({a, b}) \in Nat /\ Min({a, b}) <= a /\ Min({a, b}) <= b
  OBVIOUS
<1>1. {a, b} \in SUBSET Nat /\ {a, b} # {}
  OBVIOUS
<1>2. Min({a, b}) \in {a, b} /\ \A y \in {a, b} : Min({a, b}) <= y
  BY <1>1, LeastFacts
<1> QED
  BY <1>2

(* The rows while discovery leaves them alone. *)
LEMMA RowsKept ==
    ASSUME RowsOk, UNCHANGED <<automationOn, listing, place>>,
           status' \in [BidrlAuction -> {"none", "collecting", "ready", "failed"}],
           latch' \in 0 .. MaxSweepClock + ThrottleHold, sweepClock' \in 0 .. MaxSweepClock
    PROVE  RowsOk'
  BY DEF RowsOk

LEMMA CollectFailsOk ==
    ASSUME SweepInv, tick.pc \in {"enumerate", "item", "store"}, NEW err, CollectFails(err),
           UNCHANGED <<automationOn, listing, place, sweepClock>>
    PROVE  SweepInv'
<1>0. RowsOk /\ TickOk(tick)
  BY DEF SweepInv
<1>1. tick.cur \in BidrlAuction /\ tick \in TickRecords
  BY <1>0 DEF TickOk
<1>2. status' \in [BidrlAuction -> {"none", "collecting", "ready", "failed"}]
  BY <1>0 DEF CollectFails, RowsOk
<1>3. latch' \in 0 .. MaxSweepClock + ThrottleHold
  <2>1. latch' = latch \/ latch' = sweepClock + ThrottleHold
    BY DEF CollectFails
  <2>2. latch \in 0 .. MaxSweepClock + ThrottleHold /\ sweepClock \in 0 .. MaxSweepClock
    BY <1>0 DEF RowsOk
  <2> QED
    BY ONLY <2>1, <2>2, SweepNumbers
<1>4. RowsOk'
  BY <1>0, <1>2, <1>3, RowsKept DEF RowsOk
<1>5. TickOk(tick')
  <2>1. CASE tick' = TickOver
    BY <1>0, <2>1, TickOverOk
  <2>2. CASE tick' = [tick EXCEPT !.pc = "next", !.cur = NoAuction, !.left = 0, !.got = 0]
    <3>0. 0 \in 0 .. MaxLotsPerAuction
      BY ONLY SweepNumbers
    <3>1. tick' \in TickRecords
      BY ONLY <1>1, <2>2, <3>0 DEF TickRecords
    <3>2. tick'.pc = "next" /\ tick'.targets = tick.targets /\ tick'.lots = tick.lots
      BY <1>1, <2>2 DEF TickRecords
    <3>3. Len(tick.targets) <= MaxAuctionsPerSweep /\ tick.lots < MaxNewLotsPerSweep + MaxLotsPerAuction /\ Chosen # {}
      BY <1>0 DEF TickOk
    <3> QED
      BY <3>1, <3>2, <3>3 DEF TickOk
  <2> QED
    BY <2>1, <2>2 DEF CollectFails
<1> QED
  BY <1>4, <1>5 DEF SweepInv, TickOk, TickRecords

LEMMA SweepSteps == SweepInv /\ [SweepNext]_sweepVars => SweepInv'
<1> SUFFICES ASSUME SweepInv, [SweepNext]_sweepVars PROVE SweepInv'
  OBVIOUS
<1>0. RowsOk /\ TickOk(tick) /\ tick \in TickRecords
  BY DEF SweepInv, TickOk
<1>a. ASSUME RowsOk', TickOk(tick') PROVE SweepInv'
  BY <1>a DEF SweepInv, TickOk, TickRecords
<1>b. ASSUME UNCHANGED <<automationOn, listing, status, place, latch, sweepClock>> PROVE RowsOk'
  BY <1>0, <1>b DEF RowsOk
<1>1. CASE DiscoverJob
  <2>1. RowsOk'
    BY <1>0, <1>1, DiscoversKeeps DEF DiscoverJob, RowsOk
  <2>2. tick' = tick
    BY <1>1 DEF DiscoverJob
  <2> QED
    BY <1>0, <1>a, <2>1, <2>2
<1>2. CASE SweepStarts
  <2>1. tick.n \in 0 .. MaxTicks /\ tick.n < MaxTicks /\ tick.refused \in BOOLEAN
    BY <1>0, <1>2 DEF SweepStarts, TickRecords
  <2>2. tick.n + 1 \in 0 .. MaxTicks
    BY <2>1, SweepNumbers
  <2> DEFINE pc == IF automationOn /\ Chosen # {} /\ ~ThrottleHeld THEN "discover" ELSE "idle"
  <2>3. tick' = [IdleTick EXCEPT !.n = tick.n + 1, !.refused = tick.refused, !.pc = pc]
    BY <1>2 DEF SweepStarts
  <2>4. pc \in {"idle", "discover"} /\ (pc = "discover" => Chosen # {})
    OBVIOUS
  <2> HIDE DEF pc
  <2>5. tick' \in TickRecords /\ tick'.pc = pc /\ tick'.targets = <<>> /\ tick'.lots = 0
    BY <2>1, <2>2, <2>3, <2>4, IdleIsTick DEF TickRecords
  <2>6. TickOk(tick')
    BY <2>4, <2>5, RestingTick
  <2> QED
    BY <1>2, <1>a, <1>b, <2>6 DEF SweepStarts
<1>3. CASE SweepDiscovers
  <2>1. RowsOk'
    BY <1>0, <1>3, DiscoversKeeps DEF SweepDiscovers, RowsOk
  <2>2. tick.pc = "discover" /\ tick' = [tick EXCEPT !.pc = "targets"]
    BY <1>3 DEF SweepDiscovers
  <2>3. tick' \in TickRecords /\ tick'.pc = "targets" /\ tick'.targets = tick.targets /\ tick'.lots = tick.lots
    BY <1>0, <2>2 DEF TickRecords
  <2>4. TickOk(tick')
    BY <1>0, <2>2, <2>3 DEF TickOk
  <2> QED
    BY <1>a, <2>1, <2>4
<1>4. CASE SweepDiscoverFails \/ SweepCancelled
  BY <1>0, <1>4, <1>a, <1>b, TickOverOk DEF SweepDiscoverFails, SweepCancelled
<1>5. CASE SweepTargets
  <2>1. CASE tick' = TickOver
    BY <1>0, <1>5, <1>a, <1>b, <2>1, TickOverOk DEF SweepTargets
  <2>2. CASE tick' = [tick EXCEPT !.pc = "next", !.targets = AuctionsToSweep]
    <3>1. tick.pc = "targets"
      BY <1>5 DEF SweepTargets
    <3>2. tick' \in TickRecords /\ tick'.pc = "next" /\ tick'.targets = AuctionsToSweep /\ tick'.lots = tick.lots
      BY <1>0, <2>2, AuctionsToSweepFacts DEF TickRecords
    <3>3. TickOk(tick')
      BY <1>0, <3>1, <3>2, AuctionsToSweepFacts DEF TickOk
    <3> QED
      BY <1>5, <1>a, <1>b, <3>3 DEF SweepTargets
  <2> QED
    BY <1>5, <2>1, <2>2 DEF SweepTargets
<1>6. CASE NextAuction
  <2>1. CASE tick.targets = <<>> \/ AtCap
    <3>1. tick' = TickOver /\ UNCHANGED <<automationOn, listing, status, place, latch, sweepClock>>
      BY <1>6, <2>1 DEF NextAuction
    <3> QED
      BY <1>0, <1>a, <1>b, <3>1, TickOverOk
  <2>2. CASE tick.targets # <<>> /\ ~AtCap
    <3> DEFINE a == Head(tick.targets)
    <3>1. /\ tick.pc = "next" /\ status' = [status EXCEPT ![a] = "collecting"]
          /\ tick' = [tick EXCEPT !.pc = "enumerate", !.cur = a, !.got = 0,
                                  !.targets = Tail(tick.targets), !.consecutive = 0]
          /\ UNCHANGED <<automationOn, listing, place, latch, sweepClock>>
      BY <1>6, <2>2 DEF NextAuction
    <3>2. tick.targets \in Seq(BidrlAuction) /\ Len(tick.targets) <= MaxAuctionsPerSweep
      BY <1>0 DEF TickOk, TickRecords
    <3>3. a \in BidrlAuction /\ Tail(tick.targets) \in Seq(BidrlAuction) /\ Len(Tail(tick.targets)) = Len(tick.targets) - 1
      BY <2>2, <3>2, HeadTailProperties
    <3>4. Len(Tail(tick.targets)) <= MaxAuctionsPerSweep
      <4>1. Len(tick.targets) \in Nat
        BY <3>2, LenProperties
      <4> QED
        BY <3>2, <3>3, <4>1, SweepNumbers
    <3> HIDE DEF a
    <3>z. 0 \in 0 .. MaxLotsPerAuction /\ 0 \in Nat
      BY ONLY SweepNumbers
    <3> DEFINE rest == Tail(tick.targets)
    <3>r. rest \in Seq(BidrlAuction) /\ tick' = [tick EXCEPT !.pc = "enumerate", !.cur = a, !.got = 0,
                                                             !.targets = rest, !.consecutive = 0]
      BY <3>1, <3>3
    <3> HIDE DEF rest
    <3>s. /\ tick' \in TickRecords /\ tick'.pc = "enumerate" /\ tick'.targets = rest
          /\ tick'.lots = tick.lots /\ tick'.cur = a /\ tick'.got = 0
      BY ONLY <1>0, <3>3, <3>r, <3>z DEF TickRecords
    <3>5. /\ tick' \in TickRecords /\ tick'.pc = "enumerate" /\ tick'.targets = Tail(tick.targets)
          /\ tick'.lots = tick.lots /\ tick'.cur = a /\ tick'.got = 0
      BY <3>s DEF rest
    <3>6. tick.lots < MaxNewLotsPerSweep /\ tick.lots < MaxNewLotsPerSweep + MaxLotsPerAuction /\ Chosen # {}
      <4>1. tick.lots \in Nat /\ Chosen # {}
        BY <1>0, <3>1 DEF TickOk, TickRecords
      <4> QED
        BY <2>2, <4>1, SweepNumbers DEF AtCap
    <3>7. TickOk(tick')
      BY <3>3, <3>4, <3>5, <3>6 DEF TickOk
    <3>8. RowsOk'
      BY <1>0, <3>1, <3>3 DEF RowsOk
    <3> QED
      BY <1>a, <3>7, <3>8
  <2> QED
    BY <2>1, <2>2
<1>7. CASE Enumerate
  <2> DEFINE listed == Min({GalleryLots[tick.cur], MaxLotsPerAuction})
  <2>1. tick.pc = "enumerate" /\ UNCHANGED <<automationOn, listing, place, sweepClock>>
    BY <1>7 DEF Enumerate
  <2>2. tick.cur \in BidrlAuction /\ tick.lots < MaxNewLotsPerSweep /\ tick.got = 0
    BY <1>0, <2>1 DEF TickOk
  <2>3. listed \in 0 .. MaxLotsPerAuction
    <3>1. GalleryLots[tick.cur] \in Nat
      BY <2>2, SweepAssumption
    <3> QED
      BY <3>1, FewestOf, SweepNumbers
  <2>4. CASE listed = 0
    <3>1. CollectFails("no lots")
      BY <1>7, <2>4 DEF Enumerate
    <3> QED
      BY <2>1, <3>1, CollectFailsOk
  <2>5. CASE listed # 0
    <3>1. tick' = [tick EXCEPT !.pc = "item", !.left = listed] /\ UNCHANGED <<status, latch>>
      BY <1>7, <2>5 DEF Enumerate
    <3> HIDE DEF listed
    <3>2. /\ tick' \in TickRecords /\ tick'.pc = "item" /\ tick'.targets = tick.targets /\ tick'.lots = tick.lots
          /\ tick'.cur = tick.cur /\ tick'.got = tick.got /\ tick'.left = listed
      BY <1>0, <2>3, <3>1 DEF TickRecords
    <3>3. 0 + listed <= MaxLotsPerAuction /\ listed > 0
      BY <2>3, <2>5, SweepNumbers
    <3>4. TickOk(tick')
      BY <1>0, <2>1, <2>2, <3>2, <3>3 DEF TickOk
    <3> QED
      BY <1>a, <1>b, <2>1, <3>1, <3>4
  <2> QED
    BY <2>4, <2>5
<1>8. CASE HarvestFails
  BY <1>8, CollectFailsOk DEF HarvestFails
<1>9. ASSUME NEW reply \in {"ok", "bad", "refused", "disabled"}, ReadItem(reply) PROVE SweepInv'
  <2>1. tick.pc = "item" /\ UNCHANGED <<automationOn, listing, place, sweepClock>>
    BY <1>9 DEF ReadItem
  <2>2. CASE StopCollect(ItemError(reply))
    <3>1. CollectFails(ItemError(reply))
      BY <1>9, <2>2 DEF ReadItem
    <3> QED
      BY <2>1, <3>1, CollectFailsOk
  <2>3. CASE ~StopCollect(ItemError(reply))
    <3> DEFINE left == tick.left - 1
               got == IF reply = "ok" THEN tick.got + 1 ELSE tick.got
               consecutive == Observed(reply)
               refused == tick.refused \/ ItemError(reply) = "throttled"
               pc == IF tick.left = 1 THEN "store" ELSE "item"
    <3>1. /\ tick' = [tick EXCEPT !.left = left, !.got = got, !.consecutive = consecutive, !.refused = refused, !.pc = pc]
          /\ UNCHANGED <<status, latch>>
      BY <1>9, <2>3 DEF ReadItem
    <3>2. /\ tick.left \in 0 .. MaxLotsPerAuction /\ tick.left > 0 /\ tick.got \in 0 .. MaxLotsPerAuction
          /\ tick.got + tick.left <= MaxLotsPerAuction
      BY <1>0, <2>1 DEF TickOk, TickRecords
    <3>3. left \in 0 .. MaxLotsPerAuction /\ got \in 0 .. MaxLotsPerAuction /\ got + left <= MaxLotsPerAuction
      BY <3>2, SweepNumbers
    <3>4. consecutive \in Nat
      BY <1>0 DEF Observed, TickRecords
    <3>5. refused \in BOOLEAN
      OBVIOUS
    <3>6. pc \in {"store", "item"} /\ (pc = "item" => left > 0)
      BY <3>2, SweepNumbers
    <3> HIDE DEF left, got, consecutive, refused, pc
    <3>7. /\ tick' \in TickRecords /\ tick'.pc = pc /\ tick'.targets = tick.targets /\ tick'.lots = tick.lots
          /\ tick'.cur = tick.cur /\ tick'.got = got /\ tick'.left = left
      BY <1>0, <3>1, <3>3, <3>4, <3>5, <3>6 DEF TickRecords
    <3>8. TickOk(tick')
      BY <1>0, <2>1, <3>3, <3>6, <3>7 DEF TickOk
    <3> QED
      BY <1>a, <1>b, <2>1, <3>1, <3>8
  <2> QED
    BY <2>2, <2>3
<1>10. CASE StoreCollected
  <2>1. /\ tick.pc = "store" /\ status' = [status EXCEPT ![tick.cur] = "ready"]
        /\ place' = [place EXCEPT ![tick.cur] = Stamped(tick.cur, listing)]
        /\ tick' = [tick EXCEPT !.pc = "next", !.lots = tick.lots + tick.got, !.cur = NoAuction, !.got = 0]
        /\ UNCHANGED <<automationOn, listing, latch, sweepClock>>
    BY <1>10 DEF StoreCollected
  <2>2. /\ tick.cur \in BidrlAuction /\ tick.lots < MaxNewLotsPerSweep /\ tick.got + tick.left <= MaxLotsPerAuction
        /\ Chosen # {}
    BY <1>0, <2>1 DEF TickOk
  <2>3. Stamped(tick.cur, listing) \in Location \cup {NoLocation}
    BY <1>0, <2>2 DEF Stamped, RowsOk
  <2>4. RowsOk'
    BY <1>0, <2>1, <2>2, <2>3 DEF RowsOk
  <2>5. tick.lots \in Nat /\ tick.got \in Nat /\ tick.left \in Nat
    BY <1>0, SweepNumbers DEF TickRecords
  <2>6. tick.lots + tick.got \in Nat /\ tick.lots + tick.got < MaxNewLotsPerSweep + MaxLotsPerAuction
    BY ONLY <2>2, <2>5, SweepNumbers
  <2>7. /\ tick' \in TickRecords /\ tick'.pc = "next" /\ tick'.targets = tick.targets
        /\ tick'.lots = tick.lots + tick.got
    <3>1. 0 \in 0 .. MaxLotsPerAuction
      BY ONLY SweepNumbers
    <3> DEFINE total == tick.lots + tick.got
    <3>2. total \in Nat /\ tick' = [tick EXCEPT !.pc = "next", !.lots = total, !.cur = NoAuction, !.got = 0]
      BY <2>1, <2>6
    <3> HIDE DEF total
    <3>3. tick' \in TickRecords /\ tick'.pc = "next" /\ tick'.targets = tick.targets /\ tick'.lots = total
      BY ONLY <1>0, <3>1, <3>2 DEF TickRecords
    <3> QED
      BY <3>3 DEF total
  <2>8. TickOk(tick')
    BY <1>0, <2>2, <2>6, <2>7 DEF TickOk
  <2> QED
    BY <1>a, <2>4, <2>8
<1>11. CASE ConfigureAutomation
  BY <1>0, <1>11, <1>a DEF ConfigureAutomation, RowsOk
<1>12. CASE ResumeAutomation
  <2>1. latch' = 0 /\ tick' = [tick EXCEPT !.refused = FALSE] /\ UNCHANGED <<automationOn, listing, status, place, sweepClock>>
    BY <1>12 DEF ResumeAutomation
  <2>2. RowsOk'
    BY <1>0, <2>1, SweepNumbers DEF RowsOk
  <2>3. /\ tick' \in TickRecords /\ tick'.pc = tick.pc /\ tick'.targets = tick.targets /\ tick'.lots = tick.lots
        /\ tick'.cur = tick.cur /\ tick'.got = tick.got /\ tick'.left = tick.left
    BY <1>0, <2>1 DEF TickRecords
  <2>4. TickOk(tick')
    BY <1>0, <2>3 DEF TickOk
  <2> QED
    BY <1>a, <2>2, <2>4
<1>13. CASE SweepClock
  <2>1. sweepClock' \in 0 .. MaxSweepClock
    BY <1>0, <1>13, SweepNumbers DEF SweepClock, RowsOk
  <2>2. RowsOk' /\ tick' = tick
    BY <1>0, <1>13, <2>1 DEF SweepClock, RowsOk
  <2> QED
    BY <1>0, <1>a, <2>2
<1>14. ASSUME NEW a \in BidrlAuction, CleanupSites(a) \/ DeleteStored(a) PROVE SweepInv'
  <2>1. RowsOk' /\ tick' = tick
    BY <1>0, <1>14 DEF CleanupSites, DeleteStored, RowsOk
  <2> QED
    BY <1>0, <1>a, <2>1
<1>15. CASE UNCHANGED sweepVars
  <2>1. RowsOk' /\ tick' = tick
    BY <1>0, <1>15 DEF sweepVars, RowsOk
  <2> QED
    BY <1>0, <1>a, <2>1
<1> QED
  BY <1>1, <1>2, <1>3, <1>4, <1>5, <1>6, <1>7, <1>8, <1>9, <1>10, <1>11, <1>12, <1>13, <1>14, <1>15 DEF SweepNext

(* What no step of the sweep does. *)
LEMMA SweepLoses ==
    ASSUME SweepInv, [SweepNext]_sweepVars
    PROVE  /\ tick.pc = "discover" /\ tick'.pc = "targets" =>
                \A a \in BidrlAuction : listing[a] \notin Chosen \cup {NoLocation} => listing'[a] = listing[a]
           /\ \A a \in BidrlAuction : place[a] # NoLocation /\ status'[a] # "none" => place'[a] # NoLocation
<1>0. RowsOk /\ TickOk(tick) /\ tick \in TickRecords
  BY DEF SweepInv, TickOk
<1>1. CASE DiscoverJob
  <2>1. /\ tick' = tick
        /\ \A a \in BidrlAuction : place[a] # NoLocation => place'[a] # NoLocation
    BY <1>0, <1>1, DiscoversKeeps DEF DiscoverJob
  <2> QED
    BY <2>1
<1>2. CASE SweepDiscovers
  <2>1. Chosen # {}
    BY <1>0, <1>2 DEF SweepDiscovers, TickOk
  <2> QED
    BY <1>0, <1>2, <2>1, DiscoversKeeps DEF SweepDiscovers
<1>3. CASE StoreCollected
  <2>1. tick.pc = "store" /\ place' = [place EXCEPT ![tick.cur] = Stamped(tick.cur, listing)]
    BY <1>3 DEF StoreCollected
  <2>2. place[tick.cur] # NoLocation => Stamped(tick.cur, listing) # NoLocation
    BY DEF Stamped
  <2>3. \A a \in BidrlAuction : place[a] # NoLocation => place'[a] # NoLocation
    BY <1>0, <2>1, <2>2 DEF RowsOk
  <2> QED
    BY <2>1, <2>3
<1>4. ASSUME NEW a \in BidrlAuction, DeleteStored(a)
      PROVE  /\ tick' = tick
             /\ \A b \in BidrlAuction : place[b] # NoLocation /\ status'[b] # "none" => place'[b] # NoLocation
  BY <1>0, <1>4 DEF DeleteStored, RowsOk
<1>5. CASE \/ SweepStarts \/ SweepDiscoverFails \/ SweepTargets \/ NextAuction \/ Enumerate \/ HarvestFails \/ SweepCancelled
           \/ \E reply \in {"ok", "bad", "refused", "disabled"} : ReadItem(reply)
           \/ ConfigureAutomation \/ ResumeAutomation \/ SweepClock \/ (\E a \in BidrlAuction : CleanupSites(a))
           \/ UNCHANGED sweepVars
  <2>1. place' = place
    BY <1>5 DEF SweepStarts, SweepDiscoverFails, SweepTargets, NextAuction, Enumerate, HarvestFails, SweepCancelled,
                ReadItem, ConfigureAutomation, ResumeAutomation, SweepClock, CleanupSites, sweepVars
  <2>2. tick.pc = "discover" => tick'.pc # "targets"
    <3>1. TickOver.pc = "idle"
      BY DEF TickOver, IdleTick
    <3>2. tick.pc = "discover" => \/ tick' = tick \/ tick' = TickOver
                                  \/ tick' = [tick EXCEPT !.refused = FALSE]
      BY <1>5 DEF SweepStarts, SweepDiscoverFails, SweepTargets, NextAuction, Enumerate, HarvestFails, SweepCancelled,
                  ReadItem, ConfigureAutomation, ResumeAutomation, SweepClock, CleanupSites, sweepVars
    <3> QED
      BY <1>0, <3>1, <3>2 DEF TickRecords
  <2> QED
    BY <2>1, <2>2
<1>6. tick.pc = "discover" /\ tick' = tick => tick'.pc # "targets"
  OBVIOUS
<1> QED
  BY <1>1, <1>2, <1>3, <1>4, <1>5, <1>6 DEF SweepNext

(* A tick reads no more than its share and one auction, a sweep takes        *)
(* listings only from the locations it chose, and a stored auction never     *)
(* forgets where it is, however pages fail, listings expire and people       *)
(* start discoveries of their own (bidrl: automation.go, discover.go).       *)
THEOREM SweepsHold == SweepSpec => SweepHolds
<1>1. SweepSpec => []SweepInv
  BY SweepStartsRight, SweepSteps, PTL DEF SweepSpec
<1>2. SweepInv /\ [SweepNext]_sweepVars =>
        [/\ tick.pc = "discover" /\ tick'.pc = "targets" =>
              \A a \in BidrlAuction : listing[a] \notin Chosen \cup {NoLocation} => listing'[a] = listing[a]
         /\ \A a \in BidrlAuction : place[a] # NoLocation /\ status'[a] # "none" => place'[a] # NoLocation]_sweepVars
  BY SweepLoses
<1>3. SweepSpec => SweepKeeps
  BY <1>1, <1>2, PTL DEF SweepSpec, SweepKeeps
<1> QED
  BY <1>1, <1>3, SweepMeans, PTL DEF SweepHolds

(***************************************************************************)
(* The household's readings: the sync job of the utility plugin.           *)
(***************************************************************************)

(* What a recursion over a sequence makes of a value stays in the set its   *)
(* steps stay in.                                                           *)
Repeats(f, S, base, N, step) ==
    f \in [0..N -> S] /\ \A n \in 0..N : f[n] = IF n = 0 THEN base ELSE step[n][f[n - 1]]

LEMMA StepsExist ==
    ASSUME NEW S, NEW base \in S, NEW N \in Nat, NEW step \in [1..N -> [S -> S]]
    PROVE  \E f : Repeats(f, S, base, N, step)
<1> DEFINE Upto(n, f) == f \in [0..n -> S] /\ \A i \in 0..n : f[i] = IF i = 0 THEN base ELSE step[i][f[i - 1]]
           M == {n \in Nat : n <= N => \E f : Upto(n, f)}
<1>1. 0 \in M
  <2>1. Upto(0, [i \in 0..0 |-> base])
    OBVIOUS
  <2> HIDE DEF Upto
  <2> QED
    BY <2>1
<1>2. ASSUME NEW n \in Nat, n \in M PROVE n + 1 \in M
  <2> SUFFICES ASSUME n + 1 <= N PROVE \E f : Upto(n + 1, f)
    OBVIOUS
  <2>0. n <= N /\ n + 1 \in 1..N
    OBVIOUS
  <2>1. PICK f : Upto(n, f)
    <3> HIDE DEF Upto
    <3> QED
      BY <1>2, <2>0
  <2> DEFINE v == step[n + 1][f[n]]
             g == [i \in 0..(n + 1) |-> IF i = n + 1 THEN v ELSE f[i]]
  <2>2. v \in S /\ f \in [0..n -> S]
    <3>1. f \in [0..n -> S] /\ n \in 0..n
      BY <2>1
    <3>2. step[n + 1] \in [S -> S] /\ f[n] \in S
      BY <2>0, <3>1
    <3> QED
      BY <3>1, <3>2
  <2>v. v = step[n + 1][f[n]]
    OBVIOUS
  <2> HIDE DEF v
  <2>3. g \in [0..(n + 1) -> S]
    <3>1. ASSUME NEW i \in 0..(n + 1) PROVE (IF i = n + 1 THEN v ELSE f[i]) \in S
      <4>1. i # n + 1 => i \in 0..n
        OBVIOUS
      <4> QED
        BY <2>2, <4>1
    <3> QED
      BY <3>1
  <2>4. ASSUME NEW i \in 0..(n + 1) PROVE g[i] = IF i = 0 THEN base ELSE step[i][g[i - 1]]
    <3>1. CASE i = n + 1
      <4>1. i # 0 /\ i - 1 = n /\ n \in 0..(n + 1) /\ n # n + 1
        BY <3>1
      <4>2. g[n] = f[n] /\ g[i] = v
        BY <3>1, <4>1
      <4> QED
        BY <2>v, <3>1, <4>1, <4>2
    <3>2. CASE i # n + 1
      <4>1. i \in 0..n /\ (i # 0 => i - 1 \in 0..n /\ i - 1 \in 0..(n + 1) /\ i - 1 # n + 1)
        BY <3>2
      <4>2. g[i] = f[i] /\ (i # 0 => g[i - 1] = f[i - 1])
        BY <3>2, <4>1
      <4>3. f[i] = IF i = 0 THEN base ELSE step[i][f[i - 1]]
        BY <2>1, <4>1
      <4> QED
        BY <4>2, <4>3
    <3> QED
      BY <3>1, <3>2
  <2> HIDE DEF g
  <2>5. Upto(n + 1, g)
    BY <2>3, <2>4
  <2> HIDE DEF Upto
  <2> QED
    BY <2>5
<1>3. N \in M
  <2> HIDE DEF M
  <2> QED
    BY <1>1, <1>2, InductionOnNat
<1>4. PICK f : Upto(N, f)
  <2> HIDE DEF Upto
  <2> QED
    BY <1>3
<1>5. Repeats(f, S, base, N, step)
  BY <1>4 DEF Repeats
<1> QED
  BY <1>5

LEMMA StepsStay ==
    ASSUME NEW S, NEW N \in Nat, NEW f, f[0] \in S, \A n \in 1..N : f[n - 1] \in S => f[n] \in S
    PROVE  f[N] \in S
<1> DEFINE M == {n \in Nat : n <= N => f[n] \in S}
<1>1. 0 \in M
  OBVIOUS
<1>2. ASSUME NEW n \in Nat, n \in M PROVE n + 1 \in M
  <2>1. n + 1 <= N => n + 1 \in 1..N /\ (n + 1) - 1 = n /\ n <= N
    OBVIOUS
  <2> QED
    BY <1>2, <2>1
<1>3. N \in M
  <2> HIDE DEF M
  <2> QED
    BY <1>1, <1>2, InductionOnNat
<1> QED
  BY <1>3

(* The calendar has finitely many days. *)
IsDaysUpTo(f) == f = [m \in 0..Len(MonthLength) |-> IF m = 0 THEN 0 ELSE f[m - 1] + MonthLength[m]]

LEMMA TotalIsNat == Total \in Nat
<1>0. MonthLength \in Seq(Nat \ {0}) /\ Len(MonthLength) \in Nat /\ \A m \in 1..Len(MonthLength) : MonthLength[m] \in Nat
  BY TidConstants, LenProperties, ElementOfSeq
<1>n. PICK N \in Nat : N = Len(MonthLength)
  BY <1>0
<1>p. \A m \in 1..N : MonthLength[m] \in Nat
  BY <1>0, <1>n
<1> DEFINE step == [m \in 1..N |-> [k \in Nat |-> k + MonthLength[m]]]
<1>1. step \in [1..N -> [Nat -> Nat]]
  BY <1>p
<1>s. \A m \in 1..N : \A k \in Nat : step[m][k] = k + MonthLength[m]
  OBVIOUS
<1> HIDE DEF step
<1>2. PICK f \in [0..N -> Nat] : \A n \in 0..N : f[n] = IF n = 0 THEN 0 ELSE step[n][f[n - 1]]
  <2>1. 0 \in Nat
    OBVIOUS
  <2>2. \E f : Repeats(f, Nat, 0, N, step)
    BY <1>1, <2>1, StepsExist
  <2> QED
    BY <2>2 DEF Repeats
<1>3. ASSUME NEW m \in 0..N PROVE f[m] = IF m = 0 THEN 0 ELSE f[m - 1] + MonthLength[m]
  <2>1. m # 0 => m \in 1..N /\ m - 1 \in 0..N
    OBVIOUS
  <2>2. m # 0 => step[m][f[m - 1]] = f[m - 1] + MonthLength[m]
    BY <1>2, <1>s, <2>1
  <2> QED
    BY <1>2, <2>2
<1>4. IsDaysUpTo(f)
  BY <1>n, <1>2, <1>3 DEF IsDaysUpTo
<1>5. PICK g : IsDaysUpTo(g) /\ g = DaysUpTo
  BY <1>4 DEF IsDaysUpTo, DaysUpTo
<1>6. g[0] = 0 /\ \A m \in 1..N : g[m] = g[m - 1] + MonthLength[m]
  <2>1. 0 \in 0..N /\ \A m \in 1..N : m \in 0..N /\ m # 0
    OBVIOUS
  <2> QED
    BY <1>n, <1>5, <2>1 DEF IsDaysUpTo
<1>7. g[N] \in Nat
  <2>1. ASSUME NEW m \in 1..N, g[m - 1] \in Nat PROVE g[m] \in Nat
    <3>1. g[m] = g[m - 1] + MonthLength[m] /\ MonthLength[m] \in Nat
      BY <1>p, <1>6
    <3> QED
      BY <2>1, <3>1
  <2>2. g[0] \in Nat
    BY <1>6
  <2> QED
    BY <2>1, <2>2, StepsStay
<1> QED
  BY <1>n, <1>5, <1>7 DEF Total

(* A table of daily readings: what merging items into it leaves it. *)
TidTable == [TidDay -> TidReading]

LEMMA AddReadingType ==
    ASSUME NEW r \in TidReading, NEW i \in UsageItem
    PROVE  AddReading(r, i) \in TidReading
<1>1. /\ r.kwh \in Nat \cup {Absent} /\ r.cost \in Int /\ r.temp \in Int
      /\ i.kwh \in Nat \cup {Absent} /\ i.cost \in Int /\ i.temp \in Int
  BY DEF TidReading, UsageItem
<1>2. Absent \in Int
  BY DEF Absent
<1>3. \A a, b \in Nat \cup {Absent} : Added(a, b) \in Nat \cup {Absent}
  BY DEF Added, Absent
<1>4. \A a, b \in Int : Added(a, b) \in Int /\ KeptFirst(a, b) \in Int
  BY DEF Added, KeptFirst, Absent
<1>5. Added(r.kwh, i.kwh) \in Nat \cup {Absent} /\ Added(r.cost, i.cost) \in Int /\ KeptFirst(r.temp, i.temp) \in Int
  BY <1>1, <1>3, <1>4
<1> QED
  BY <1>5 DEF AddReading, TidReading

IsMergedItems(f, table, items) ==
    f = [n \in 0..Len(items) |->
            IF n = 0 THEN table
            ELSE IF IsReading(items[n]) THEN [f[n - 1] EXCEPT ![items[n].day] = AddReading(@, items[n])]
            ELSE f[n - 1]]

LEMMA MergeItemsType ==
    ASSUME NEW table \in TidTable, NEW items \in Seq(UsageItem)
    PROVE  MergeItems(table, items) \in TidTable
<1>n. PICK N \in Nat : N = Len(items)
  BY LenProperties
<1>i. \A n \in 1..N : items[n] \in UsageItem
  BY <1>n, ElementOfSeq
<1> DEFINE Add(n, t) == IF IsReading(items[n]) THEN [t EXCEPT ![items[n].day] = AddReading(@, items[n])] ELSE t
           step == [n \in 1..N |-> [t \in TidTable |-> Add(n, t)]]
<1>t. ASSUME NEW n \in 1..N, NEW t \in TidTable PROVE Add(n, t) \in TidTable
  <2>1. ASSUME NEW d \in TidDay PROVE t[d] \in TidReading /\ AddReading(t[d], items[n]) \in TidReading
    BY <1>i, AddReadingType DEF TidTable
  <2> QED
    BY <2>1 DEF TidTable
<1>e. \A n \in 1..N, t \in TidTable :
        Add(n, t) = IF IsReading(items[n]) THEN [t EXCEPT ![items[n].day] = AddReading(@, items[n])] ELSE t
  OBVIOUS
<1> HIDE DEF Add
<1>1. step \in [1..N -> [TidTable -> TidTable]]
  BY <1>t
<1>s. \A n \in 1..N : \A t \in TidTable : step[n][t] = Add(n, t)
  OBVIOUS
<1> HIDE DEF step
<1>2. PICK f : Repeats(f, TidTable, table, N, step)
  BY <1>1, StepsExist
<1>3. ASSUME NEW n \in 0..N PROVE f[n] = IF n = 0 THEN table ELSE Add(n, f[n - 1])
  <2>1. n # 0 => n \in 1..N /\ n - 1 \in 0..N
    OBVIOUS
  <2>2. n # 0 => step[n][f[n - 1]] = Add(n, f[n - 1])
    BY <1>2, <1>s, <2>1 DEF Repeats
  <2> QED
    BY <1>2, <2>2 DEF Repeats
<1>4. IsMergedItems(f, table, items)
  <2>1. ASSUME NEW n \in 0..N, n # 0 PROVE n \in 1..N /\ f[n - 1] \in TidTable
    <3>1. n \in 1..N /\ n - 1 \in 0..N
      BY <2>1
    <3> QED
      BY <1>2, <3>1 DEF Repeats
  <2>2. f = [n \in 0..N |-> f[n]]
    BY <1>2 DEF Repeats
  <2>3. ASSUME NEW n \in 0..N
        PROVE  f[n] = IF n = 0 THEN table
                      ELSE IF IsReading(items[n]) THEN [f[n - 1] EXCEPT ![items[n].day] = AddReading(@, items[n])]
                      ELSE f[n - 1]
    BY <1>3, <1>e, <2>1
  <2> QED
    BY <1>n, <2>2, <2>3 DEF IsMergedItems
<1>5. PICK g : IsMergedItems(g, table, items) /\ MergeItems(table, items) = g[N]
  BY <1>4, <1>n DEF IsMergedItems, MergeItems
<1>6. g[0] = table /\ \A n \in 1..N : g[n] = Add(n, g[n - 1]) \/ g[n - 1] \notin TidTable
  <2>1. 0 \in 0..N /\ \A n \in 1..N : n \in 0..N /\ n # 0
    OBVIOUS
  <2> QED
    BY <1>n, <1>5, <1>e, <2>1 DEF IsMergedItems
<1>7. g[N] \in TidTable
  BY <1>6, <1>t, StepsStay
<1> QED
  BY <1>5, <1>7

IsMergedBills(f, table, bills, wanted) ==
    f = [p \in 0..Len(bills) |->
            IF p = 0 THEN table
            ELSE IF p \in wanted THEN MergeItems(f[p - 1], bills[p].items) ELSE f[p - 1]]

LEMMA MergeBillsType ==
    ASSUME NEW table \in TidTable, NEW bills \in Seq(TidBill), NEW wanted
    PROVE  MergeBills(table, bills, wanted) \in TidTable
<1>n. PICK N \in Nat : N = Len(bills)
  BY LenProperties
<1>i. \A p \in 1..N : bills[p].items \in Seq(UsageItem)
  <2>1. \A p \in 1..N : bills[p] \in TidBill
    BY <1>n, ElementOfSeq
  <2> QED
    BY <2>1 DEF TidBill
<1> DEFINE Add(p, t) == IF p \in wanted THEN MergeItems(t, bills[p].items) ELSE t
           step == [p \in 1..N |-> [t \in TidTable |-> Add(p, t)]]
<1>t. ASSUME NEW p \in 1..N, NEW t \in TidTable PROVE Add(p, t) \in TidTable
  BY <1>i, MergeItemsType
<1>e. \A p \in 1..N, t \in TidTable : Add(p, t) = IF p \in wanted THEN MergeItems(t, bills[p].items) ELSE t
  OBVIOUS
<1> HIDE DEF Add
<1>1. step \in [1..N -> [TidTable -> TidTable]]
  BY <1>t
<1>s. \A p \in 1..N : \A t \in TidTable : step[p][t] = Add(p, t)
  OBVIOUS
<1> HIDE DEF step
<1>2. PICK f : Repeats(f, TidTable, table, N, step)
  BY <1>1, StepsExist
<1>3. ASSUME NEW p \in 0..N PROVE f[p] = IF p = 0 THEN table ELSE Add(p, f[p - 1])
  <2>1. p # 0 => p \in 1..N /\ p - 1 \in 0..N
    OBVIOUS
  <2>2. p # 0 => step[p][f[p - 1]] = Add(p, f[p - 1])
    BY <1>2, <1>s, <2>1 DEF Repeats
  <2> QED
    BY <1>2, <2>2 DEF Repeats
<1>4. IsMergedBills(f, table, bills, wanted)
  <2>1. ASSUME NEW p \in 0..N, p # 0 PROVE p \in 1..N /\ f[p - 1] \in TidTable
    <3>1. p \in 1..N /\ p - 1 \in 0..N
      BY <2>1
    <3> QED
      BY <1>2, <3>1 DEF Repeats
  <2>2. f = [p \in 0..N |-> f[p]]
    BY <1>2 DEF Repeats
  <2>3. ASSUME NEW p \in 0..N
        PROVE  f[p] = IF p = 0 THEN table
                      ELSE IF p \in wanted THEN MergeItems(f[p - 1], bills[p].items) ELSE f[p - 1]
    BY <1>3, <1>e, <2>1
  <2> QED
    BY <1>n, <2>2, <2>3 DEF IsMergedBills
<1>5. PICK g : IsMergedBills(g, table, bills, wanted) /\ MergeBills(table, bills, wanted) = g[N]
  BY <1>4, <1>n DEF IsMergedBills, MergeBills
<1>6. g[0] = table /\ \A p \in 1..N : g[p] = Add(p, g[p - 1]) \/ g[p - 1] \notin TidTable
  <2>1. 0 \in 0..N /\ \A p \in 1..N : p \in 0..N /\ p # 0
    OBVIOUS
  <2> QED
    BY <1>n, <1>5, <1>e, <2>1 DEF IsMergedBills
<1>7. g[N] \in TidTable
  BY <1>6, <1>t, StepsStay
<1> QED
  BY <1>5, <1>7

PortalReplies == Seq([electric : BOOLEAN, dg : BOOLEAN, bills : Seq(TidBill)])

WantedBills(reply, usages, a) == {p \in DOMAIN reply[a].bills : <<a, p>> \in usages}

IsMergedDays(f, reply, usages) ==
    f = [a \in 0..Len(reply) |->
            IF a = 0 THEN [d \in TidDay |-> NoReading]
            ELSE MergeBills(f[a - 1], reply[a].bills, WantedBills(reply, usages, a))]

LEMMA NoReadingsType == [d \in TidDay |-> NoReading] \in TidTable
  BY DEF NoReading, TidReading, TidTable, Absent

LEMMA MergeDaysType ==
    ASSUME NEW reply \in PortalReplies, NEW usages
    PROVE  MergeDays(reply, usages) \in TidTable
<1>n. PICK N \in Nat : N = Len(reply)
  BY LenProperties DEF PortalReplies
<1>i. \A a \in 1..N : reply[a].bills \in Seq(TidBill)
  <2>1. \A a \in 1..N : reply[a] \in [electric : BOOLEAN, dg : BOOLEAN, bills : Seq(TidBill)]
    BY <1>n, ElementOfSeq DEF PortalReplies
  <2> QED
    BY <2>1
<1> DEFINE none == [d \in TidDay |-> NoReading]
           Add(a, t) == MergeBills(t, reply[a].bills, WantedBills(reply, usages, a))
           step == [a \in 1..N |-> [t \in TidTable |-> Add(a, t)]]
<1>t. ASSUME NEW a \in 1..N, NEW t \in TidTable PROVE Add(a, t) \in TidTable
  BY <1>i, MergeBillsType
<1>e. \A a \in 1..N, t \in TidTable : Add(a, t) = MergeBills(t, reply[a].bills, WantedBills(reply, usages, a))
  OBVIOUS
<1>z. none \in TidTable
  BY NoReadingsType
<1> HIDE DEF Add
<1>1. step \in [1..N -> [TidTable -> TidTable]]
  BY <1>t
<1>s. \A a \in 1..N : \A t \in TidTable : step[a][t] = Add(a, t)
  OBVIOUS
<1>d. none = [d \in TidDay |-> NoReading]
  OBVIOUS
<1> HIDE DEF step, none
<1>2. PICK f : Repeats(f, TidTable, none, N, step)
  BY <1>1, <1>z, StepsExist
<1>3. ASSUME NEW a \in 0..N PROVE f[a] = IF a = 0 THEN none ELSE Add(a, f[a - 1])
  <2>1. a # 0 => a \in 1..N /\ a - 1 \in 0..N
    OBVIOUS
  <2>2. a # 0 => step[a][f[a - 1]] = Add(a, f[a - 1])
    BY <1>2, <1>s, <2>1 DEF Repeats
  <2> QED
    BY <1>2, <2>2 DEF Repeats
<1>4. IsMergedDays(f, reply, usages)
  <2>1. ASSUME NEW a \in 0..N, a # 0 PROVE a \in 1..N /\ f[a - 1] \in TidTable
    <3>1. a \in 1..N /\ a - 1 \in 0..N
      BY <2>1
    <3> QED
      BY <1>2, <3>1 DEF Repeats
  <2>2. f = [a \in 0..N |-> f[a]]
    BY <1>2 DEF Repeats
  <2>3. ASSUME NEW a \in 0..N
        PROVE  f[a] = IF a = 0 THEN none ELSE MergeBills(f[a - 1], reply[a].bills, WantedBills(reply, usages, a))
    BY <1>3, <1>e, <2>1
  <2> QED
    BY <1>n, <1>d, <2>2, <2>3 DEF IsMergedDays
<1>5. PICK g : IsMergedDays(g, reply, usages) /\ MergeDays(reply, usages) = g[N]
  BY <1>4, <1>n DEF IsMergedDays, MergeDays, WantedBills
<1>6. g[0] = none /\ \A a \in 1..N : g[a] = Add(a, g[a - 1]) \/ g[a - 1] \notin TidTable
  <2>1. 0 \in 0..N /\ \A a \in 1..N : a \in 0..N /\ a # 0
    OBVIOUS
  <2> QED
    BY <1>n, <1>d, <1>5, <1>e, <2>1 DEF IsMergedDays
<1>7. g[N] \in TidTable
  BY <1>6, <1>t, <1>z, StepsStay
<1> QED
  BY <1>5, <1>7

(* A collection that succeeds has a table of readings, and one per range. *)
Collections ==
    [error : {"none"}, readings : TidTable,
     periods : UNION {[R -> [days : TidTable, peak : {Largest(K) : K \in SUBSET Int}]] : R \in SUBSET (Nat \X Nat)}]

LEMMA CollectType ==
    ASSUME NEW reply \in PortalReply, NEW history \in BOOLEAN, Collect(reply, history).error = "none"
    PROVE  Collect(reply, history) \in Collections
<1> DEFINE uses == Usages(reply, history)
           R == {BillAt(reply, u).range : u \in uses}
           Period == [days : TidTable, peak : {Largest(K) : K \in SUBSET Int}]
           per == [r \in R |-> CollectedPeriod(reply, UsagesOf(reply, history, r))]
           all == MergeDays(reply, uses)
<1>0. reply \in PortalReplies
  BY TidConstants DEF PortalReplies
<1>1. Collect(reply, history) = [error |-> "none", readings |-> all, periods |-> per]
  BY DEF Collect
<1>2. all \in TidTable
  BY <1>0, MergeDaysType
<1>3. ASSUME NEW u \in uses PROVE BillAt(reply, u) \in TidBill
  <2>1. PICK a \in Agreements(reply) : u \in {a} \X BillPeriods(reply[a].bills, history)
    BY DEF Usages
  <2>2. a \in DOMAIN reply
    BY <2>1 DEF Agreements
  <2>3. u[1] = a /\ u[2] \in DOMAIN reply[a].bills
    BY <2>1 DEF BillPeriods
  <2>4. reply[a] \in [electric : BOOLEAN, dg : BOOLEAN, bills : Seq(TidBill)]
    <3>1. a \in 1..Len(reply)
      BY <1>0, <2>2, LenProperties DEF PortalReplies
    <3> QED
      BY <1>0, <3>1, ElementOfSeq DEF PortalReplies
  <2>5. reply[a].bills \in Seq(TidBill)
    BY <2>4
  <2>6. reply[a].bills[u[2]] \in TidBill
    BY <2>3, <2>5
  <2> QED
    BY <2>3, <2>6 DEF BillAt
<1>4. R \in SUBSET (Nat \X Nat)
  BY <1>3 DEF TidBill
<1>5. ASSUME NEW r \in R PROVE CollectedPeriod(reply, UsagesOf(reply, history, r)) \in Period
  <2> DEFINE us == UsagesOf(reply, history, r)
             K == {BillAt(reply, u).peak : u \in us}
  <2>1. MergeDays(reply, us) \in TidTable
    BY <1>0, MergeDaysType
  <2>2. K \in SUBSET Int
    <3>1. \A u \in us : u \in uses
      BY DEF UsagesOf
    <3>2. \A u \in us : BillAt(reply, u).peak \in Int
      BY <1>3, <3>1 DEF TidBill
    <3> QED
      BY <3>2
  <2>3. Largest(K) \in {Largest(L) : L \in SUBSET Int}
    BY <2>2
  <2>4. CollectedPeriod(reply, us) = [days |-> MergeDays(reply, us), peak |-> Largest(K)]
    BY DEF CollectedPeriod
  <2> HIDE DEF us, K
  <2>5. CollectedPeriod(reply, us) \in Period
    BY <2>1, <2>3, <2>4
  <2> QED
    BY <2>5 DEF us
<1>6. per \in [R -> Period]
  BY <1>5
<1>7. per \in UNION {[Q -> Period] : Q \in SUBSET (Nat \X Nat)}
  BY <1>4, <1>6
<1> HIDE DEF per, all, R, Period, uses
<1>8. Collect(reply, history) \in [error : {"none"}, readings : TidTable, periods : UNION {[Q -> Period] : Q \in SUBSET (Nat \X Nat)}]
  BY <1>1, <1>2, <1>7
<1> QED
  BY <1>8 DEF Collections, Period

(* Storing forgets nothing, and storing a collection again changes nothing. *)
LEMMA UpsertDayFacts ==
    ASSUME NEW old \in TidReading, NEW new \in TidReading
    PROVE  /\ UpsertDay(old, new) \in TidReading
           /\ old.cost # Absent => UpsertDay(old, new).cost # Absent
           /\ old.temp # Absent => UpsertDay(old, new).temp # Absent
           /\ UpsertDay(UpsertDay(old, new), new) = UpsertDay(old, new)
           /\ UpsertDay(old, new).kwh # Absent <=> old.kwh # Absent \/ new.kwh # Absent
<1>1. /\ new.kwh \in Nat \cup {Absent} /\ new.cost \in Int /\ new.temp \in Int
      /\ old.kwh \in Nat \cup {Absent} /\ old.cost \in Int /\ old.temp \in Int
  BY DEF TidReading
<1>2. CASE new.kwh = Absent
  BY <1>2 DEF UpsertDay
<1>3. CASE new.kwh # Absent
  <2> DEFINE c == Coalesced(new.cost, old.cost)
             t == Coalesced(new.temp, old.temp)
  <2>1. UpsertDay(old, new) = [kwh |-> new.kwh, cost |-> c, temp |-> t]
    BY <1>3 DEF UpsertDay, Usage
  <2>2. c \in Int /\ t \in Int /\ (old.cost # Absent => c # Absent) /\ (old.temp # Absent => t # Absent)
    BY <1>1 DEF Coalesced
  <2>3. Coalesced(new.cost, c) = c /\ Coalesced(new.temp, t) = t
    BY DEF Coalesced
  <2> HIDE DEF c, t
  <2>4. UpsertDay(UpsertDay(old, new), new) = [kwh |-> new.kwh, cost |-> Coalesced(new.cost, c), temp |-> Coalesced(new.temp, t)]
    BY <1>3, <2>1 DEF UpsertDay, Usage
  <2> QED
    BY <1>1, <1>3, <2>1, <2>2, <2>3, <2>4 DEF TidReading
<1> QED
  BY <1>2, <1>3

LEMMA UpsertPeriodDayTwice ==
    ASSUME NEW old, NEW new \in TidReading
    PROVE  UpsertPeriodDay(UpsertPeriodDay(old, new), new) = UpsertPeriodDay(old, new)
<1>1. CASE new.kwh = Absent
  BY <1>1 DEF UpsertPeriodDay
<1>2. CASE new.kwh # Absent
  <2> DEFINE t == Coalesced(new.temp, old.temp)
  <2>1. UpsertPeriodDay(old, new) = [new EXCEPT !.temp = t]
    BY <1>2 DEF UpsertPeriodDay
  <2>2. Coalesced(new.temp, t) = t
    BY DEF Coalesced
  <2> HIDE DEF t
  <2>3. UpsertPeriodDay(old, new).temp = t
    BY <2>1 DEF TidReading
  <2>4. UpsertPeriodDay(UpsertPeriodDay(old, new), new) = [new EXCEPT !.temp = Coalesced(new.temp, t)]
    BY <1>2, <2>3 DEF UpsertPeriodDay
  <2> QED
    BY <2>1, <2>2, <2>4
<1> QED
  BY <1>1, <1>2

OldPeriod(b, r) == IF r \in DOMAIN b THEN b[r] ELSE NoPeriod
NewPeriod(old, c) ==
    [days |-> [d \in TidDay |-> UpsertPeriodDay(old.days[d], c.days[d])], peak |-> Coalesced(c.peak, old.peak)]
Upserted(b, c) ==
    [r \in DOMAIN b \cup DOMAIN c |-> IF r \notin DOMAIN c THEN OldPeriod(b, r) ELSE NewPeriod(OldPeriod(b, r), c[r])]

LEMMA UpsertPeriodsIs == \A c : UpsertPeriods(c) = Upserted(billing, c)
  BY DEF UpsertPeriods, Upserted, OldPeriod, NewPeriod

LEMMA NewPeriodTwice ==
    ASSUME NEW old, NEW c, c.days \in TidTable
    PROVE  NewPeriod(NewPeriod(old, c), c) = NewPeriod(old, c)
<1> DEFINE k == NewPeriod(old, c)
<1>1. /\ k = [days |-> [d \in TidDay |-> UpsertPeriodDay(old.days[d], c.days[d])], peak |-> Coalesced(c.peak, old.peak)]
  BY DEF NewPeriod
<1>2. \A d \in TidDay : k.days[d] = UpsertPeriodDay(old.days[d], c.days[d])
  BY <1>1
<1>3. \A d \in TidDay : UpsertPeriodDay(k.days[d], c.days[d]) = UpsertPeriodDay(old.days[d], c.days[d])
  BY <1>2, UpsertPeriodDayTwice DEF TidTable
<1>4. Coalesced(c.peak, k.peak) = Coalesced(c.peak, old.peak)
  BY <1>1 DEF Coalesced
<1> HIDE DEF k
<1>5. NewPeriod(k, c) = [days |-> [d \in TidDay |-> UpsertPeriodDay(old.days[d], c.days[d])], peak |-> Coalesced(c.peak, old.peak)]
  BY <1>3, <1>4 DEF NewPeriod
<1> QED
  BY <1>1, <1>5 DEF k

LEMMA UpsertedTwice ==
    ASSUME NEW b, NEW c, \A r \in DOMAIN c : c[r].days \in TidTable
    PROVE  Upserted(Upserted(b, c), c) = Upserted(b, c)
<1> DEFINE k == Upserted(b, c)
           D == DOMAIN b \cup DOMAIN c
<1>1. DOMAIN k = D /\ DOMAIN k \cup DOMAIN c = D
  BY DEF Upserted
<1>2. \A r \in D : k[r] = IF r \notin DOMAIN c THEN OldPeriod(b, r) ELSE NewPeriod(OldPeriod(b, r), c[r])
  BY DEF Upserted
<1> HIDE DEF k
<1>3. ASSUME NEW r \in D
      PROVE  (IF r \notin DOMAIN c THEN OldPeriod(k, r) ELSE NewPeriod(OldPeriod(k, r), c[r])) = k[r]
  <2>1. OldPeriod(k, r) = k[r]
    BY <1>1 DEF OldPeriod
  <2>2. r \in DOMAIN c => NewPeriod(k[r], c[r]) = k[r]
    BY <1>2, NewPeriodTwice
  <2> QED
    BY <2>1, <2>2
<1>4. Upserted(k, c) = [r \in D |-> k[r]]
  <2>1. Upserted(k, c) = [r \in D |-> IF r \notin DOMAIN c THEN OldPeriod(k, r) ELSE NewPeriod(OldPeriod(k, r), c[r])]
    BY <1>1 DEF Upserted
  <2> HIDE DEF D
  <2> QED
    BY <1>3, <2>1
<1>5. k = [r \in D |-> k[r]]
  BY DEF k, Upserted
<1> QED
  BY <1>4, <1>5 DEF k

(* The inductive invariant: the alerts so far, with the one that the job      *)
(* still owes, count no more days than are stored; what was stored last       *)
(* would change nothing if it were stored again.                              *)
NoCollection == [error |-> "none"]
SyncRecords ==
    [at : {"idle", "collect", "store", "record", "synced", "alert", "insight", "tell"}, history : BOOLEAN,
     attempt : 0..TidAttempts, coll : Collections \cup {NoCollection}, fresh : Nat]

(* Rows the job has inserted and not yet announced. *)
Owed == IF sync.at \in {"record", "synced", "alert"} THEN sync.fresh ELSE 0

Settled(table, periods, c) ==
    /\ \A d \in TidDay : UpsertDay(table[d], c.readings[d]) = table[d]
    /\ Upserted(periods, c.periods) = periods

(* The job and the table of readings. *)
TidRows ==
    /\ today \in TidDay /\ synced \in 0..MaxSyncs
    /\ sync \in SyncRecords /\ (sync.at = "store" => sync.coll \in Collections)
    /\ readings \in TidTable

(* The log, and the subscribers' cursors within it. *)
NewsInOrder ==
    /\ \E S : news \in Seq(S)
    /\ stamped \in [syncs : 0..Len(news), insights : 0..Len(news)]

(* What the alerts announced and what is owed is stored. *)
Counted == IsFiniteSet(Announced) /\ Cardinality(Announced) + Owed <= Cardinality(DaysOf(readings))

(* The collection stored last is settled. *)
Stored ==
    /\ committed \in Collections \cup {NoCollection}
    /\ committed \in Collections => Settled(readings, billing, committed)

TidInv == TidRows /\ NewsInOrder /\ Counted /\ Stored

LEMMA NoCollectionIsNone == NoCollection \notin Collections
<1>1. \A c \in Collections : "readings" \in DOMAIN c
  BY DEF Collections
<1>2. "readings" \notin DOMAIN NoCollection
  BY DEF NoCollection
<1> QED
  BY <1>1, <1>2

LEMMA DaysFinite ==
    ASSUME NEW t \in TidTable
    PROVE  IsFiniteSet(DaysOf(t)) /\ Cardinality(DaysOf(t)) \in Nat /\ DaysOf(t) = {d \in TidDay : t[d].kwh # Absent}
<1>1. IsFiniteSet(1..Total)
  BY TotalIsNat, FS_Interval
<1>2. DaysOf(t) = {d \in TidDay : t[d].kwh # Absent}
  BY DEF DaysOf, TidTable
<1>3. DaysOf(t) \in SUBSET (1..Total)
  BY <1>2 DEF TidDay
<1>4. IsFiniteSet(DaysOf(t))
  BY <1>1, <1>3, FS_Subset
<1> QED
  BY <1>2, <1>4, FS_CardinalityType

LEMMA StoringCounts ==
    ASSUME NEW old \in TidTable, NEW new \in TidTable
    PROVE  LET t == [d \in TidDay |-> UpsertDay(old[d], new[d])]
           IN  /\ t \in TidTable
               /\ Cardinality(DaysOf(t)) = Cardinality(DaysOf(old)) + Cardinality(DaysOf(new) \ DaysOf(old))
               /\ Cardinality(DaysOf(new) \ DaysOf(old)) \in Nat
<1> DEFINE t == [d \in TidDay |-> UpsertDay(old[d], new[d])]
           extra == DaysOf(new) \ DaysOf(old)
<1>1. \A d \in TidDay : old[d] \in TidReading /\ new[d] \in TidReading
  BY DEF TidTable
<1>2. t \in TidTable
  BY <1>1, UpsertDayFacts DEF TidTable
<1>3. \A d \in TidDay : t[d].kwh # Absent <=> old[d].kwh # Absent \/ new[d].kwh # Absent
  BY <1>1, UpsertDayFacts
<1> HIDE DEF t
<1>4. DaysOf(t) = DaysOf(old) \cup extra
  BY <1>2, <1>3, DaysFinite
<1>5. IsFiniteSet(extra) /\ DaysOf(old) \cap extra = {}
  BY DaysFinite, FS_Subset
<1> HIDE DEF extra
<1>6. Cardinality(DaysOf(t)) = Cardinality(DaysOf(old)) + Cardinality(extra) - Cardinality({})
  BY <1>4, <1>5, DaysFinite, FS_Union
<1>7. Cardinality(extra) \in Nat /\ Cardinality({}) = 0 /\ Cardinality(DaysOf(old)) \in Nat
  BY <1>5, DaysFinite, FS_CardinalityType, FS_EmptySet
<1>8. Cardinality(DaysOf(t)) = Cardinality(DaysOf(old)) + Cardinality(extra)
  BY <1>6, <1>7
<1> QED
  BY <1>2, <1>7, <1>8 DEF t, extra

(* One more event on the log. *)
LEMMA NewsGrows ==
    ASSUME NEW e, NewsInOrder, news' = Append(news, e)
    PROVE  /\ \E S : news' \in Seq(S)
           /\ Len(news) \in Nat /\ Len(news') = Len(news) + 1
           /\ DOMAIN news = 1..Len(news) /\ DOMAIN news' = 1..(Len(news) + 1)
           /\ \A i \in 1..Len(news) : news'[i] = news[i]
           /\ news'[Len(news) + 1] = e
<1>1. PICK S : news \in Seq(S)
  BY DEF NewsInOrder
<1>2. PICK T : T = S \cup {e}
  OBVIOUS
<1>3. Len(news) \in Nat /\ DOMAIN news = 1..Len(news) /\ \A i \in 1..Len(news) : news[i] \in T
  BY <1>1, <1>2, LenProperties, ElementOfSeq
<1>4. news \in Seq(T)
  BY <1>1, <1>3, SeqDef
<1>5. e \in T
  BY <1>2
<1>6. news' \in Seq(T) /\ Len(news') = Len(news) + 1 /\ (\A i \in 1..Len(news) : news'[i] = news[i]) /\ news'[Len(news) + 1] = e
  BY <1>4, <1>5, AppendProperties
<1>7. DOMAIN news' = 1..(Len(news) + 1)
  BY <1>6, LenProperties
<1> QED
  BY <1>3, <1>6, <1>7

LEMMA CursorsStay ==
    ASSUME NewsInOrder, \E S : news' \in Seq(S), Len(news) \in Nat, Len(news') \in Nat, Len(news) <= Len(news'), UNCHANGED stamped
    PROVE  NewsInOrder'
<1>1. stamped \in [syncs : 0..Len(news), insights : 0..Len(news)]
  BY DEF NewsInOrder
<1>2. \A n \in 0..Len(news) : n \in 0..Len(news')
  OBVIOUS
<1>3. stamped' \in [syncs : 0..Len(news'), insights : 0..Len(news')]
  BY <1>1, <1>2
<1> QED
  BY <1>3 DEF NewsInOrder

(* Events that are no alerts announce nothing. *)
LEMMA OtherNews ==
    ASSUME NEW e, e.name # "alert", NewsInOrder, news' = Append(news, e), UNCHANGED stamped
    PROVE  NewsInOrder' /\ Announced' = Announced
<1>1. /\ \E S : news' \in Seq(S)
      /\ Len(news) \in Nat /\ Len(news') = Len(news) + 1
      /\ DOMAIN news = 1..Len(news) /\ DOMAIN news' = 1..(Len(news) + 1)
      /\ \A i \in 1..Len(news) : news'[i] = news[i]
      /\ news'[Len(news) + 1] = e
  BY NewsGrows
<1>2. NewsInOrder'
  BY <1>1, CursorsStay
<1>3. {j \in DOMAIN news' : news'[j].name = "alert"} = {j \in DOMAIN news : news[j].name = "alert"}
  <2>1. ASSUME NEW j \in DOMAIN news' PROVE j \in DOMAIN news \/ j = Len(news) + 1
    BY <1>1
  <2>2. \A j \in DOMAIN news : j \in DOMAIN news'
    BY <1>1
  <2> QED
    BY <1>1, <2>1, <2>2
<1>4. \A j \in DOMAIN news : news'[j] = news[j]
  BY <1>1
<1>5. Announced' = Announced
  <2>1. Announced' = UNION {{i} \X (1..news'[i].rows) : i \in {j \in DOMAIN news : news[j].name = "alert"}}
    BY <1>3 DEF Announced
  <2> QED
    BY <1>4, <2>1 DEF Announced
<1> QED
  BY <1>2, <1>5

LEMMA AlertNews ==
    ASSUME NEW e, e.name = "alert", e.rows \in Nat, NewsInOrder, IsFiniteSet(Announced), news' = Append(news, e), UNCHANGED stamped
    PROVE  /\ NewsInOrder' /\ IsFiniteSet(Announced')
           /\ Cardinality(Announced) \in Nat /\ Cardinality(Announced') = Cardinality(Announced) + e.rows
<1>1. /\ \E S : news' \in Seq(S)
      /\ Len(news) \in Nat /\ Len(news') = Len(news) + 1
      /\ DOMAIN news = 1..Len(news) /\ DOMAIN news' = 1..(Len(news) + 1)
      /\ \A i \in 1..Len(news) : news'[i] = news[i]
      /\ news'[Len(news) + 1] = e
  BY NewsGrows
<1>2. NewsInOrder'
  BY <1>1, CursorsStay
<1> DEFINE n == Len(news) + 1
           K == {j \in DOMAIN news : news[j].name = "alert"}
           own == {n} \X (1..e.rows)
<1>3. {j \in DOMAIN news' : news'[j].name = "alert"} = K \cup {n}
  <2>1. ASSUME NEW j \in DOMAIN news' PROVE j \in DOMAIN news \/ j = n
    BY <1>1
  <2>2. n \in DOMAIN news' /\ \A j \in DOMAIN news : j \in DOMAIN news'
    BY <1>1
  <2> QED
    BY <1>1, <2>1, <2>2
<1>4. \A j \in K : news'[j] = news[j] /\ j # n
  BY <1>1
<1>5. news'[n] = e
  BY <1>1
<1> HIDE DEF n, K
<1>6. Announced' = Announced \cup own
  <2>1. Announced' = UNION {{i} \X (1..news'[i].rows) : i \in K \cup {n}}
    BY <1>3 DEF Announced
  <2>2. Announced = UNION {{i} \X (1..news[i].rows) : i \in K}
    BY DEF Announced, K
  <2>3. Announced = UNION {{i} \X (1..news'[i].rows) : i \in K}
    BY <1>4, <2>2
  <2> DEFINE Of(i) == {i} \X (1..news'[i].rows)
  <2>4. own = Of(n)
    BY <1>5
  <2>5. Announced' = UNION {Of(i) : i \in K \cup {n}} /\ Announced = UNION {Of(i) : i \in K}
    BY <2>1, <2>3
  <2> HIDE DEF Of, own
  <2> QED
    BY <2>4, <2>5
<1>7. Announced \cap own = {}
  <2>1. \A x \in Announced : x[1] \in K
    BY DEF Announced, K
  <2>2. \A x \in own : x[1] = n
    OBVIOUS
  <2> QED
    BY <1>4, <2>1, <2>2
<1>8. IsFiniteSet(own) /\ Cardinality(own) = e.rows
  <2>1. IsFiniteSet({n}) /\ Cardinality({n}) = 1
    BY FS_Singleton
  <2>2. IsFiniteSet(1..e.rows) /\ Cardinality(1..e.rows) = e.rows
    <3>1. 1 \in Int /\ e.rows \in Int
      OBVIOUS
    <3>2. IsFiniteSet(1..e.rows) /\ Cardinality(1..e.rows) = IF 1 > e.rows THEN 0 ELSE e.rows - 1 + 1
      BY <3>1, FS_Interval
    <3> QED
      BY <3>2
  <2>3. IsFiniteSet({n} \X (1..e.rows)) /\ Cardinality({n} \X (1..e.rows)) = 1 * e.rows
    BY <2>1, <2>2, FS_Product
  <2> QED
    BY <2>3
<1> HIDE DEF own
<1>9. IsFiniteSet(Announced') /\ Cardinality(Announced') = Cardinality(Announced) + Cardinality(own) - Cardinality({})
  BY <1>6, <1>7, <1>8, FS_Union
<1>10. Cardinality(Announced) \in Nat /\ Cardinality({}) = 0
  BY FS_CardinalityType, FS_EmptySet
<1>11. Cardinality(Announced') = Cardinality(Announced) + e.rows
  BY <1>8, <1>9, <1>10
<1> QED
  BY <1>2, <1>9, <1>10, <1>11

LEMMA TidNumbers ==
    /\ TidAttempts \in Nat \ {0} /\ MaxSyncs \in Nat
  BY TidConstants

LEMMA OwedIsNat == ASSUME sync \in SyncRecords PROVE Owed \in Nat
  BY DEF SyncRecords, Owed

LEMMA TidMeans == TidInv => TidTypeOK /\ DaysAlertedOnce
<1> SUFFICES ASSUME TidInv PROVE TidTypeOK /\ DaysAlertedOnce
  OBVIOUS
<1>0. TidRows /\ NewsInOrder /\ Counted
  BY DEF TidInv
<1>1. /\ sync.at \in {"idle", "collect", "store", "record", "synced", "alert", "insight", "tell"}
      /\ sync.attempt \in 0..TidAttempts
  BY <1>0 DEF TidRows, SyncRecords
<1>2. \A d \in TidDay : /\ readings[d].kwh \in Nat \cup {Absent}
                        /\ readings[d].cost \in Int /\ readings[d].temp \in Int
  BY <1>0 DEF TidRows, TidTable, TidReading
<1>3. Len(news) \in Nat
  BY <1>0, LenProperties DEF NewsInOrder
<1>4. stamped.syncs <= Len(news) /\ stamped.insights <= Len(news)
  BY <1>0, <1>3 DEF NewsInOrder
<1>5. TidTypeOK
  BY <1>0, <1>1, <1>2, <1>4 DEF TidTypeOK, TidRows
<1>6. Owed \in Nat /\ Cardinality(Announced) \in Nat /\ Cardinality(DaysOf(readings)) \in Nat
  BY <1>0, OwedIsNat, DaysFinite, FS_CardinalityType DEF TidRows, Counted
<1>7. DaysAlertedOnce
  BY <1>0, <1>6 DEF Counted, DaysAlertedOnce
<1> QED
  BY <1>5, <1>7

LEMMA NothingIsRecord == Nothing \in SyncRecords /\ Nothing.at = "idle" /\ Nothing.attempt = 0
<1>1. 0 \in 0..TidAttempts
  BY TidNumbers
<1> QED
  BY <1>1 DEF Nothing, SyncRecords, NoCollection

LEMMA FailedIsRecord ==
    ASSUME sync \in SyncRecords, NEW p
    PROVE  Failed(p) \in SyncRecords /\ Failed(p).at \in {"idle", "collect"}
<1>1. CASE p \/ sync.attempt >= TidAttempts
  BY <1>1, NothingIsRecord DEF Failed
<1>2. CASE ~ (p \/ sync.attempt >= TidAttempts)
  <2>1. sync.attempt + 1 \in 0..TidAttempts
    <3>1. sync.attempt \in 0..TidAttempts
      BY DEF SyncRecords
    <3> QED
      BY <1>2, <3>1, TidNumbers
  <2>2. Failed(p) = [sync EXCEPT !.at = "collect", !.attempt = sync.attempt + 1, !.coll = NoCollection, !.fresh = 0]
    BY <1>2 DEF Failed, NoCollection
  <2>3. PICK k \in 0..TidAttempts : k = sync.attempt + 1
    BY <2>1
  <2>4. 0 \in Nat
    OBVIOUS
  <2>5. Failed(p) = [sync EXCEPT !.at = "collect", !.attempt = k, !.coll = NoCollection, !.fresh = 0]
    BY <2>2, <2>3
  <2> QED
    BY <2>4, <2>5 DEF SyncRecords
<1> QED
  BY <1>1, <1>2

LEMMA TidStartsRight == TidInit => TidInv
<1> SUFFICES ASSUME TidInit PROVE TidInv
  OBVIOUS
<1>1. TidRows
  <2>1. readings \in TidTable
    BY NoReadingsType DEF TidInit
  <2>2. 0 \in 0..MaxSyncs
    BY TidNumbers
  <2> QED
    BY <2>1, <2>2, NothingIsRecord DEF TidInit, TidRows
<1>2. news = <<>> /\ DOMAIN news = {} /\ Len(news) = 0
  BY DEF TidInit
<1>3. NewsInOrder
  <2>1. news \in Seq({})
    BY <1>2, EmptySeq
  <2>2. 0 \in 0..Len(news)
    BY <1>2
  <2> QED
    BY <2>1, <2>2 DEF TidInit, NewsInOrder
<1>4. Counted
  <2>1. Announced = {}
    BY <1>2 DEF Announced
  <2>2. Owed = 0
    BY NothingIsRecord DEF TidInit, Owed
  <2>3. Cardinality(DaysOf(readings)) \in Nat
    BY <1>1, DaysFinite DEF TidRows
  <2>4. IsFiniteSet(Announced) /\ Cardinality(Announced) = 0
    BY <2>1, FS_EmptySet
  <2> QED
    BY <2>2, <2>3, <2>4 DEF Counted
<1>5. Stored
  <2>1. committed = NoCollection
    BY DEF TidInit, NoCollection
  <2> QED
    BY <2>1, NoCollectionIsNone DEF Stored
<1> QED
  BY <1>1, <1>3, <1>4, <1>5 DEF TidInv

(* A step of the job after which it owes no more than before. *)
LEMMA JobMoves ==
    ASSUME TidInv, UNCHANGED <<today, synced, readings, billing, committed>>,
           NewsInOrder', Announced' = Announced,
           sync' \in SyncRecords, sync'.at = "store" => sync'.coll \in Collections,
           sync'.at \in {"record", "synced", "alert"} =>
              sync.at \in {"record", "synced", "alert"} /\ sync'.fresh = sync.fresh
    PROVE  TidInv'
<1>0. TidRows /\ Counted /\ Stored
  BY DEF TidInv
<1>1. TidRows'
  BY <1>0 DEF TidRows
<1>2. Stored'
  BY <1>0 DEF Stored
<1>3. Owed' = Owed \/ Owed' = 0
  BY DEF Owed
<1>4. Owed \in Nat /\ Cardinality(Announced) \in Nat /\ Cardinality(DaysOf(readings)) \in Nat
  BY <1>0, OwedIsNat, DaysFinite, FS_CardinalityType DEF TidRows, Counted
<1>5. DaysOf(readings)' = DaysOf(readings)
  BY DEF DaysOf
<1>6. Cardinality(Announced) + Owed' <= Cardinality(DaysOf(readings))
  BY <1>0, <1>3, <1>4 DEF Counted
<1>7. Counted'
  BY <1>0, <1>5, <1>6 DEF Counted
<1> QED
  BY <1>1, <1>2, <1>7 DEF TidInv

LEMMA NewsStays == ASSUME NewsInOrder, UNCHANGED <<news, stamped>> PROVE NewsInOrder' /\ Announced' = Announced
  BY DEF NewsInOrder, Announced

LEMMA CursorMoves ==
    ASSUME NewsInOrder, NEW name, NEW after, NextNews(name, after) # 0
    PROVE  NextNews(name, after) \in 0..Len(news)
<1>1. PICK S : news \in Seq(S)
  BY DEF NewsInOrder
<1>2. DOMAIN news = 1..Len(news) /\ Len(news) \in Nat
  BY <1>1, LenProperties
<1> DEFINE due == {i \in DOMAIN news : i > after /\ news[i].name = name}
<1>3. due # {} /\ NextNews(name, after) = Min(due)
  BY DEF NextNews
<1>4. due \in SUBSET Nat /\ due \subseteq 1..Len(news)
  BY <1>2
<1> HIDE DEF due
<1>5. Min(due) \in due
  BY <1>3, <1>4, LeastFacts
<1>6. Min(due) \in 1..Len(news)
  BY <1>4, <1>5
<1> QED
  BY <1>2, <1>3, <1>6

LEMMA UpsertKeeps ==
    ASSUME TidInv, UpsertReadings
    PROVE  TidInv' /\ sync.coll \in Collections
<1>0. TidRows /\ NewsInOrder /\ Counted /\ Stored
  BY DEF TidInv
<1> DEFINE c == sync.coll
           t == [d \in TidDay |-> UpsertDay(readings[d], c.readings[d])]
           n == Inserted(DaysOf(c.readings))
<1>1. /\ sync.at = "store" /\ readings' = t /\ billing' = Upserted(billing, c.periods)
      /\ sync' = [sync EXCEPT !.at = "record", !.fresh = n]
      /\ committed' = c /\ UNCHANGED <<today, synced, news, stamped>>
  BY UpsertPeriodsIs DEF UpsertReadings
<1>2. c \in Collections /\ readings \in TidTable /\ sync \in SyncRecords
  BY <1>0, <1>1 DEF TidRows
<1>3. c.readings \in TidTable /\ \A r \in DOMAIN c.periods : c.periods[r].days \in TidTable
  <2>1. PICK R \in SUBSET (Nat \X Nat) : c.periods \in [R -> [days : TidTable, peak : {Largest(K) : K \in SUBSET Int}]]
    BY <1>2 DEF Collections
  <2>2. \A r \in DOMAIN c.periods : c.periods[r] \in [days : TidTable, peak : {Largest(K) : K \in SUBSET Int}]
    BY <2>1
  <2>3. \A r \in DOMAIN c.periods : c.periods[r].days \in TidTable
    BY <2>2
  <2>4. c.readings \in TidTable
    BY <1>2 DEF Collections
  <2> QED
    BY <2>3, <2>4
<1> HIDE DEF c
<1>4. t \in TidTable /\ Cardinality(DaysOf(t)) = Cardinality(DaysOf(readings)) + n /\ n \in Nat
  BY <1>2, <1>3, StoringCounts DEF Inserted
<1>t. \A d \in TidDay : t[d] = UpsertDay(readings[d], c.readings[d])
  OBVIOUS
<1> HIDE DEF t, n
<1>5. sync' \in SyncRecords /\ sync'.at = "record" /\ sync'.fresh = n
  BY <1>1, <1>2, <1>4 DEF SyncRecords
<1>6. TidRows'
  BY <1>0, <1>1, <1>4, <1>5 DEF TidRows
<1>7. NewsInOrder' /\ Announced' = Announced
  BY <1>0, <1>1, NewsStays
<1>8. Counted'
  <2>1. Owed = 0 /\ Owed' = n
    BY <1>1, <1>5 DEF Owed
  <2>2. Cardinality(Announced) \in Nat /\ Cardinality(DaysOf(readings)) \in Nat
    BY <1>0, <1>2, DaysFinite, FS_CardinalityType DEF Counted
  <2>3. Cardinality(Announced) <= Cardinality(DaysOf(readings))
    BY <1>0, <2>1, <2>2 DEF Counted
  <2>4. Cardinality(Announced) + n <= Cardinality(DaysOf(t))
    BY <1>4, <2>2, <2>3
  <2> QED
    BY <1>0, <1>1, <1>7, <2>1, <2>4 DEF Counted
<1>9. Stored'
  <2>1. \A d \in TidDay : UpsertDay(t[d], c.readings[d]) = t[d]
    <3>1. \A d \in TidDay : readings[d] \in TidReading /\ c.readings[d] \in TidReading
      BY <1>2, <1>3 DEF TidTable
    <3> QED
      BY <1>t, <3>1, UpsertDayFacts
  <2>2. Upserted(billing', c.periods) = billing'
    BY <1>1, <1>3, UpsertedTwice
  <2>3. Settled(readings', billing', committed')
    BY <1>1, <2>1, <2>2 DEF Settled
  <2> QED
    BY <1>1, <1>2, <2>3 DEF Stored, c
<1> QED
  BY <1>2, <1>6, <1>7, <1>8, <1>9 DEF TidInv, c

LEMMA TidSteps == TidInv /\ [TidNext]_tidVars => TidInv'
<1> SUFFICES ASSUME TidInv, [TidNext]_tidVars PROVE TidInv'
  OBVIOUS
<1>0. TidRows /\ NewsInOrder /\ Counted /\ Stored /\ sync \in SyncRecords
  BY DEF TidInv, TidRows
<1>1. ASSUME NEW h \in BOOLEAN, EnqueueSync(h) PROVE TidInv'
  <2>1. /\ sync.at = "idle" /\ synced < MaxSyncs /\ synced' = synced + 1
        /\ sync' = [Nothing EXCEPT !.at = "collect", !.history = h, !.attempt = 1]
        /\ UNCHANGED <<today, readings, billing, news, stamped, committed>>
    BY <1>1 DEF EnqueueSync
  <2>2. synced' \in 0..MaxSyncs
    BY <1>0, <2>1, TidNumbers DEF TidRows
  <2>3. 1 \in 0..TidAttempts
    BY TidNumbers
  <2>4. sync' \in SyncRecords /\ sync'.at = "collect"
    BY <2>1, <2>3, NothingIsRecord DEF SyncRecords
  <2>5. TidRows'
    BY <1>0, <2>1, <2>2, <2>4 DEF TidRows
  <2>6. NewsInOrder' /\ Announced' = Announced
    BY <1>0, <2>1, NewsStays
  <2>7. Counted'
    <3>1. Owed = 0 /\ Owed' = 0
      BY <2>1, <2>4 DEF Owed
    <3>2. DaysOf(readings)' = DaysOf(readings)
      BY <2>1
    <3> QED
      BY <1>0, <2>6, <3>1, <3>2 DEF Counted
  <2>8. Stored'
    BY <1>0, <2>1 DEF Stored
  <2> QED
    BY <2>5, <2>6, <2>7, <2>8 DEF TidInv
<1>2. ASSUME NEW p, sync' = Failed(p),
             UNCHANGED <<today, synced, readings, billing, news, stamped, committed>>
      PROVE TidInv'
  <2>1. sync' \in SyncRecords /\ sync'.at \in {"idle", "collect"}
    BY <1>0, <1>2, FailedIsRecord
  <2>2. NewsInOrder' /\ Announced' = Announced
    BY <1>0, <1>2, NewsStays
  <2> QED
    BY <1>2, <2>1, <2>2, JobMoves
<1>3. ASSUME NEW p \in BOOLEAN, TidCollectFails(p) PROVE TidInv'
  BY <1>2, <1>3 DEF TidCollectFails, RecordFailed
<1>4. ASSUME NEW r \in PortalReply, CollectAnswers(r) PROVE TidInv'
  <2> DEFINE c == Collect(r, sync.history)
  <2>1. /\ sync' = IF c.error = "none" THEN [sync EXCEPT !.at = "store", !.coll = c] ELSE Failed(c.error = "permanent")
        /\ UNCHANGED <<today, synced, readings, billing, news, stamped, committed>>
    BY <1>4 DEF CollectAnswers, RecordFailed
  <2>2. CASE c.error = "none"
    <3>1. c \in Collections
      <4>1. sync.history \in BOOLEAN
        BY <1>0 DEF SyncRecords
      <4> QED
        BY <2>2, <4>1, CollectType
    <3>2. sync' = [sync EXCEPT !.at = "store", !.coll = c]
      BY <2>1, <2>2
    <3> HIDE DEF c
    <3>3. sync' \in SyncRecords /\ sync'.at = "store" /\ sync'.coll = c
      BY <1>0, <3>1, <3>2 DEF SyncRecords
    <3>4. NewsInOrder' /\ Announced' = Announced
      BY <1>0, <2>1, NewsStays
    <3> QED
      BY <2>1, <3>1, <3>3, <3>4, JobMoves
  <2>3. CASE c.error # "none"
    <3>1. sync' = Failed(c.error = "permanent")
      BY <2>1, <2>3
    <3> HIDE DEF c
    <3> QED
      BY <1>2, <2>1, <3>1
  <2> QED
    BY <2>2, <2>3
<1>5. CASE UpsertReadings
  BY <1>5, UpsertKeeps
<1>6. CASE UpsertFails
  BY <1>2, <1>6 DEF UpsertFails, RecordFailed
<1>7. CASE RecordSync
  <2>1. /\ sync.at = "record" /\ sync' = [sync EXCEPT !.at = "synced"]
        /\ UNCHANGED <<today, synced, readings, billing, news, stamped, committed>>
    BY <1>7 DEF RecordSync
  <2>2. sync' \in SyncRecords /\ sync'.at = "synced" /\ sync'.fresh = sync.fresh
    BY <1>0, <2>1 DEF SyncRecords
  <2>3. NewsInOrder' /\ Announced' = Announced
    BY <1>0, <2>1, NewsStays
  <2> QED
    BY <2>1, <2>2, <2>3, JobMoves
<1>8. CASE PublishSynced
  <2> DEFINE e == [name |-> "synced", days |-> Payload(sync.coll.readings), rows |-> Cardinality(DaysOf(sync.coll.readings))]
             to == IF sync.fresh > 0 THEN "alert" ELSE "insight"
  <2>1. /\ sync.at = "synced" /\ news' = Append(news, e) /\ sync' = [sync EXCEPT !.at = to]
        /\ UNCHANGED <<today, synced, readings, billing, stamped, committed>>
    BY <1>8 DEF PublishSynced
  <2>2. e.name # "alert" /\ to \in {"alert", "insight"}
    OBVIOUS
  <2> HIDE DEF e, to
  <2>3. sync' \in SyncRecords /\ sync'.at \in {"alert", "insight"} /\ sync'.fresh = sync.fresh
    BY <1>0, <2>1, <2>2 DEF SyncRecords
  <2>4. NewsInOrder' /\ Announced' = Announced
    BY <1>0, <2>1, <2>2, OtherNews
  <2> QED
    BY <2>1, <2>3, <2>4, JobMoves
<1>9. CASE PublishAlert
  <2> DEFINE e == [name |-> "alert", days |-> Payload(sync.coll.readings), rows |-> sync.fresh]
  <2>1. /\ sync.at = "alert" /\ news' = Append(news, e) /\ sync' = [sync EXCEPT !.at = "insight"]
        /\ UNCHANGED <<today, synced, readings, billing, stamped, committed>>
    BY <1>9 DEF PublishAlert
  <2>2. e.name = "alert" /\ e.rows = sync.fresh
    OBVIOUS
  <2> HIDE DEF e
  <2>3. sync' \in SyncRecords /\ sync'.at = "insight" /\ sync.fresh \in Nat
    BY <1>0, <2>1 DEF SyncRecords
  <2>4. /\ NewsInOrder' /\ IsFiniteSet(Announced')
        /\ Cardinality(Announced) \in Nat /\ Cardinality(Announced') = Cardinality(Announced) + sync.fresh
    BY <1>0, <2>1, <2>2, <2>3, AlertNews DEF Counted
  <2>5. TidRows'
    BY <1>0, <2>1, <2>3 DEF TidRows
  <2>6. Counted'
    <3>1. Owed = sync.fresh /\ Owed' = 0
      BY <2>1, <2>3 DEF Owed
    <3>2. DaysOf(readings)' = DaysOf(readings)
      BY <2>1
    <3>3. Cardinality(DaysOf(readings)) \in Nat
      BY <1>0, DaysFinite DEF TidRows
    <3>4. Cardinality(Announced') + 0 <= Cardinality(DaysOf(readings))
      BY <1>0, <2>3, <2>4, <3>1, <3>3 DEF Counted
    <3> QED
      BY <2>4, <3>1, <3>2, <3>4 DEF Counted
  <2>7. Stored'
    BY <1>0, <2>1 DEF Stored
  <2> QED
    BY <2>4, <2>5, <2>6, <2>7 DEF TidInv
<1>10. CASE AttemptFails
  BY <1>2, <1>10 DEF AttemptFails
<1>11. CASE WriteInsight
  <2>1. /\ sync' = Nothing \/ sync' = [sync EXCEPT !.at = "tell"]
        /\ UNCHANGED <<today, synced, readings, billing, news, stamped, committed>>
    BY <1>11 DEF WriteInsight
  <2>2. sync' \in SyncRecords /\ sync'.at \in {"idle", "tell"}
    BY <1>0, <2>1, NothingIsRecord DEF SyncRecords
  <2>3. NewsInOrder' /\ Announced' = Announced
    BY <1>0, <2>1, NewsStays
  <2> QED
    BY <2>1, <2>2, <2>3, JobMoves
<1>12. CASE PublishInsight
  <2> DEFINE e == [name |-> "insight", days |-> <<>>, rows |-> 0]
  <2>1. /\ news' = Append(news, e) \/ news' = news
        /\ sync' = Nothing
        /\ UNCHANGED <<today, synced, readings, billing, stamped, committed>>
    BY <1>12 DEF PublishInsight
  <2>2. e.name # "alert"
    OBVIOUS
  <2> HIDE DEF e
  <2>3. NewsInOrder' /\ Announced' = Announced
    <3>1. CASE news' = Append(news, e)
      BY <1>0, <2>1, <2>2, <3>1, OtherNews
    <3>2. CASE news' = news
      BY <1>0, <2>1, <3>2, NewsStays
    <3> QED
      BY <2>1, <3>1, <3>2
  <2> QED
    BY <2>1, <2>3, NothingIsRecord, JobMoves
<1>13. ASSUME UNCHANGED <<sync, readings, billing, committed, synced, news>>, today' \in TidDay, NewsInOrder' PROVE TidInv'
  <2>1. TidRows'
    BY <1>0, <1>13 DEF TidRows
  <2>2. Counted'
    <3>1. Owed' = Owed /\ Announced' = Announced /\ DaysOf(readings)' = DaysOf(readings)
      BY <1>13 DEF Owed, Announced
    <3> QED
      BY <1>0, <3>1 DEF Counted
  <2>3. Stored'
    BY <1>0, <1>13 DEF Stored
  <2> QED
    BY <1>13, <2>1, <2>2, <2>3 DEF TidInv
<1>14. CASE OnSynced
  <2> DEFINE e == NextNews("synced", stamped.syncs)
  <2>1. /\ e # 0 /\ stamped' = [stamped EXCEPT !.syncs = e]
        /\ UNCHANGED <<today, sync, synced, readings, billing, news, committed>>
    BY <1>14 DEF OnSynced
  <2>2. e \in 0..Len(news)
    BY <1>0, <2>1, CursorMoves
  <2> HIDE DEF e
  <2>3. NewsInOrder'
    BY <1>0, <2>1, <2>2 DEF NewsInOrder
  <2> QED
    BY <1>0, <1>13, <2>1, <2>3 DEF TidRows
<1>15. CASE OnInsight
  <2> DEFINE e == NextNews("insight", stamped.insights)
  <2>1. /\ e # 0 /\ stamped' = [stamped EXCEPT !.insights = e]
        /\ UNCHANGED <<today, sync, synced, readings, billing, news, committed>>
    BY <1>15 DEF OnInsight
  <2>2. e \in 0..Len(news)
    BY <1>0, <2>1, CursorMoves
  <2> HIDE DEF e
  <2>3. NewsInOrder'
    BY <1>0, <2>1, <2>2 DEF NewsInOrder
  <2> QED
    BY <1>0, <1>13, <2>1, <2>3 DEF TidRows
<1>16. CASE SummaryReads \/ SummaryEnds \/ UNCHANGED tidVars
  <2>1. UNCHANGED <<today, sync, synced, readings, billing, news, stamped, committed>>
    BY <1>16 DEF SummaryReads, SummaryEnds, tidVars
  <2>2. NewsInOrder'
    BY <1>0, <2>1, NewsStays
  <2> QED
    BY <1>0, <1>13, <2>1, <2>2 DEF TidRows
<1>17. CASE DayPasses
  <2>1. today < Total /\ today' = today + 1 /\ UNCHANGED <<sync, synced, readings, billing, news, stamped, committed>>
    BY <1>17 DEF DayPasses
  <2>2. today' \in TidDay
    BY <1>0, <2>1, TotalIsNat DEF TidRows, TidDay
  <2>3. NewsInOrder'
    BY <1>0, <2>1, NewsStays
  <2> QED
    BY <1>13, <2>1, <2>2, <2>3
<1> QED
  BY <1>1, <1>3, <1>4, <1>5, <1>6, <1>7, <1>8, <1>9, <1>10, <1>11, <1>12, <1>14, <1>15, <1>16, <1>17 DEF TidNext, SyncSteps

LEMMA SyncKeeps ==
    ASSUME TidInv, [TidNext]_tidVars
    PROVE  /\ \A d \in TidDay: /\ readings[d].cost # Absent => readings'[d].cost # Absent
                               /\ readings[d].temp # Absent => readings'[d].temp # Absent
           /\ (sync.at = "store" /\ sync'.at = "record" /\ committed' = committed)
                => (readings' = readings /\ billing' = billing)
<1>0. TidRows /\ Stored /\ sync \in SyncRecords
  BY DEF TidInv, TidRows
<1>1. CASE UpsertReadings
  <2> DEFINE c == sync.coll
             t == [d \in TidDay |-> UpsertDay(readings[d], c.readings[d])]
  <2>1. readings' = t /\ billing' = Upserted(billing, c.periods) /\ committed' = c /\ c \in Collections
    BY <1>1, UpsertPeriodsIs, UpsertKeeps DEF UpsertReadings
  <2> HIDE DEF c
  <2>2. c.readings \in TidTable /\ readings \in TidTable
    BY <1>0, <2>1 DEF Collections, TidRows
  <2>3. \A d \in TidDay : readings[d] \in TidReading /\ c.readings[d] \in TidReading /\ t[d] = UpsertDay(readings[d], c.readings[d])
    BY <2>2 DEF TidTable
  <2>4. ASSUME committed' = committed PROVE readings' = readings /\ billing' = billing
    <3>1. Settled(readings, billing, c)
      BY <1>0, <2>1, <2>4 DEF Stored
    <3>2. billing' = billing
      BY <2>1, <3>1 DEF Settled
    <3>3. t = [d \in TidDay |-> readings[d]]
      BY <3>1 DEF Settled
    <3>4. readings = [d \in TidDay |-> readings[d]]
      BY <2>2 DEF TidTable
    <3> QED
      BY <2>1, <3>2, <3>3, <3>4
  <2> HIDE DEF t
  <2>5. \A d \in TidDay: /\ readings[d].cost # Absent => readings'[d].cost # Absent
                         /\ readings[d].temp # Absent => readings'[d].temp # Absent
    BY <2>1, <2>3, UpsertDayFacts
  <2> QED
    BY <2>4, <2>5
<1>2. CASE ~ UpsertReadings
  <2>1. readings' = readings
    BY <1>2 DEF TidNext, SyncSteps, EnqueueSync, TidCollectFails, RecordFailed, CollectAnswers, UpsertFails, RecordSync,
                PublishSynced, PublishAlert, AttemptFails, WriteInsight, PublishInsight, OnSynced, OnInsight, SummaryReads,
                SummaryEnds, DayPasses, tidVars
  <2>2. sync.at = "store" => sync'.at # "record"
    <3>1. sync.at = "store" => sync' = sync \/ \E p : sync' = Failed(p)
      BY <1>2 DEF TidNext, SyncSteps, EnqueueSync, TidCollectFails, CollectAnswers, UpsertFails, RecordSync,
                  PublishSynced, PublishAlert, AttemptFails, WriteInsight, PublishInsight, OnSynced, OnInsight, SummaryReads,
                  SummaryEnds, DayPasses, tidVars
    <3> QED
      BY <1>0, <3>1, FailedIsRecord
  <2> QED
    BY <2>1, <2>2
<1> QED
  BY <1>1, <1>2

(* However often a sync is retried, on whatever calendar and whatever the      *)
(* portal answers, its alerts count no day twice, no cost and no temperature   *)
(* once known is forgotten, and storing the collection that was stored last    *)
(* changes no table (tid: upsertReadings and the steps around it).             *)
THEOREM SyncsHold == TidSpec => TidHolds
<1>1. TidSpec => []TidInv
  BY TidStartsRight, TidSteps, PTL DEF TidSpec
<1>2. TidInv /\ [TidNext]_tidVars =>
        [/\ \A d \in TidDay: /\ readings[d].cost # Absent => readings'[d].cost # Absent
                             /\ readings[d].temp # Absent => readings'[d].temp # Absent
         /\ (sync.at = "store" /\ sync'.at = "record" /\ committed' = committed)
              => (readings' = readings /\ billing' = billing)]_tidVars
  BY SyncKeeps
<1>3. TidSpec => SyncKeepsReadings
  BY <1>1, <1>2, PTL DEF TidSpec, SyncKeepsReadings
<1> QED
  BY <1>1, <1>3, TidMeans, PTL DEF TidHolds
=============================================================================
