------------------------------ MODULE MCAdmin ------------------------------
(***************************************************************************)
(* An instance for TLC of what an administrator relies on: the limits on   *)
(* what plugins spend, and the sessions that may change them.  They share  *)
(* no state; a behaviour exercises one of them, chosen initially, while    *)
(* the other rests in one initial state.                                   *)
(***************************************************************************)
EXTENDS Policy, WebAuth, TLC

VARIABLE focus

(* Budgets: none at all, one that disables and one that rejects, one that    *)
(* limits every window.                                                      *)
MCBudgets ==
    { [limit |-> [w \in AllWindows |-> 0], onExceed |-> "reject"],
      [limit |-> [w \in AllWindows |-> IF w = "day" THEN 3 ELSE 0],
       onExceed |-> "disable"],
      [limit |-> [w \in AllWindows |-> IF w = "hour" THEN 2 ELSE IF w = "day" THEN 3 ELSE 0],
       onExceed |-> "reject"],
      [limit |-> [w \in AllWindows |-> IF w = "month" THEN 2 ELSE 4],
       onExceed |-> "disable"] }

Symmetry == Permutations(ReservationIds)

AdminInit ==
    /\ focus \in {"policy", "auth"} /\ Init /\ AuthInit
    /\ IF focus = "auth" THEN TRUE ELSE password = 0

(* Bound: whoever comes from afar signs in, on the first password. *)
FarSignsIn ==
    \A r \in AuthReq : \/ areq'[r].at = "new" \/ areq'[r].peer \in LocalPeer
                       \/ areq'[r].kind = "login" /\ password' = 1

AdminNext ==
    \/ focus = "policy" /\ Next /\ UNCHANGED <<authVars, focus>>
    \/ focus = "auth" /\ AuthNext /\ FarSignsIn /\ UNCHANGED <<vars, focus>>

AdminSpec == AdminInit /\ [][AdminNext]_<<vars, authVars, focus>>
=============================================================================
