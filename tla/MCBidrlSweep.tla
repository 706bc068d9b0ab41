---------------------------- MODULE MCBidrlSweep ----------------------------
(* BidrlSweep for TLC: three auctions, one of them listed at two places and *)
(* two of them with a gallery longer than the budget of a tick.             *)
EXTENDS BidrlSweep

MCSiteMenu == <<"l1", "l2">>
MCSitePage == [l \in Location |-> IF l = "l1" THEN {"a1", "a2"} ELSE {"a2", "a3"}]
MCGalleryLots == [a \in BidrlAuction |-> IF a = "a3" THEN 0 ELSE 3]
MCClosingOrder == <<"a1", "a2", "a3">>
=============================================================================
