------------------------------ MODULE MCAICall ------------------------------
(***************************************************************************)
(* Instances of AICall for TLC.                                            *)
(***************************************************************************)
EXTENDS AICall, TLC

MCLimit(n) == [hour |-> 0, day |-> n, month |-> 0]

(* No limit, and a daily limit that one call fits into and two do not. *)
MCBudgets == {[limit |-> MCLimit(3), onExceed |-> "disable"]}

(* A metered attempt that spills over into a cheaper one, and a subscription *)
(* that spills over into a metered one.                                      *)
MCPlans == {<<2, 1>>, <<0, 2>>}

MCSymmetry == Permutations(CallIds) \cup Permutations(ReservationIds)
=============================================================================
