----------------------------- MODULE MCOutside -----------------------------
(***************************************************************************)
(* An instance for TLC of the ways in which a plugin reaches the outside   *)
(* through the host: paid calls, with the spend gate they are composed     *)
(* with, the pages of a browser and searches.  They share no state here; a *)
(* behaviour exercises one of them, chosen initially, while the others     *)
(* rest in their initial state.                                            *)
(***************************************************************************)
EXTENDS MCAICall, BrowserPage, Search

VARIABLE focus

(* A page may go to the listed host, which has public addresses or, under   *)
(* its other url, a private one among them; the other host is not listed.   *)
Url(host, port, addrs) ==
    [scheme |-> "https", userinfo |-> FALSE, host |-> host, port |-> port, addrs |-> addrs]
MCPageUrl == { Url("listed", "", {"public"}), Url("listed", "443", {"public", "private"}),
               Url("other", "", {"public"}) }

(* Results of a search engine: of a preferred and of another domain, public *)
(* and not.                                                                 *)
Hit(public, domain) == [public |-> public, domain |-> domain]
MCSearchReply == { <<Hit(TRUE, "a"), Hit(TRUE, "b")>>, <<Hit(FALSE, "a"), Hit(TRUE, "b"), Hit(TRUE, "a")>> }

-----------------------------------------------------------------------------

OutsideInit == focus \in {"ai", "page", "search"} /\ AIInit /\ PageInit /\ SearchInit

Alone(f) ==
    /\ focus = f /\ UNCHANGED focus
    /\ f # "ai" => UNCHANGED allVars
    /\ f # "page" => UNCHANGED pageVars
    /\ f # "search" => UNCHANGED searchVars

(* Bound: a page that holds back a subresource serves one call. *)
BlockedOrShared == blockedReq' = {} \/ \E o \in PageOp : ops'[o].at = "new"

OutsideNext ==
    \/ Alone("ai") /\ AINext
    \/ Alone("page") /\ PageNext /\ BlockedOrShared
    \/ Alone("search") /\ SearchNext

OutsideSpec == OutsideInit /\ [][OutsideNext]_<<allVars, pageVars, searchVars, focus>>

=============================================================================
