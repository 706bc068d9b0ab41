---------------------------- MODULE BrowserPage ----------------------------
(***************************************************************************)
(* One page of a browser session (browser/session.go, playwright.go,       *)
(* allowlist.go, ssrf.go): the operations a plugin runs on it, which share *)
(* the page's check, its pending denial and its list of blocked requests   *)
(* with the requests the page itself fires at any time, and what of all    *)
(* this leaves the host.  A url is a record of the parts the checks look   *)
(* at: scheme, userinfo, host, port, and the addresses the host has.       *)
(***************************************************************************)
EXTENDS Naturals, FiniteSets

CONSTANTS
    PageUrl,        \* urls asked for by the plugin, the page or a redirect
    AllowedHost,    \* the session's allowlist
    PageOp,         \* calls of the plugin
    MaxRedirects,   \* hops a Get or a Post follows
    MaxBlocked,     \* blocked requests remembered between operations
    MaxAudits,      \* bound on the audits counted for one url
    NoUrl

ASSUME PageConstants ==
    /\ NoUrl \notin PageUrl /\ "ip" \notin AllowedHost
    /\ MaxRedirects \in Nat /\ MaxBlocked \in Nat /\ MaxAudits \in Nat \ {0}

VARIABLES
    hasCheck,   \* an operation has installed its check; it is never taken off
    pending,    \* the first denied navigation nobody has taken, and whether it was reported
    blockedReq, \* subresources aborted since the last operation
    captured,   \* answers of scripts kept for Responses
    pageShut,   \* the page, or its session, was closed
    ops,        \* per call: its kind, where it stands, its url, hops and denial
    left,       \* urls whose request left the host
    posts,      \* bodies a call has sent
    audits      \* per url: events published for its denial

pageVars == <<hasCheck, pending, blockedReq, captured, pageShut, ops, left, posts, audits>>

\* checkURLScheme with https: userinfo, literal addresses, foreign ports and hosts are refused.
CheckURL(u) ==
    u.scheme = "https" /\ ~u.userinfo /\ u.host # "ip" /\ u.port \in {"", "443"} /\ u.host \in AllowedHost

\* checkHost: a name with addresses, none of which is loopback, private or link-local.
CheckHost(u) == u.host # "ip" /\ u.addrs # {} /\ \A ip \in u.addrs: ip = "public"

NoDenial == [url |-> NoUrl, reported |-> TRUE]
Fetch == {"get", "post"}
Navigate == {"goto", "click"}
Ended == {"ok", "denied", "failed", "closed"}

\* The type of the state.
PageTypeOK ==
    /\ hasCheck \in BOOLEAN /\ pageShut \in BOOLEAN
    /\ pending \in [url: PageUrl \cup {NoUrl}, reported: BOOLEAN]
    /\ blockedReq \subseteq PageUrl /\ captured \subseteq PageUrl /\ left \subseteq PageUrl
    /\ ops \in [PageOp -> [kind: Fetch \cup Navigate \cup {"read", "none"}, at: {"new", "engine", "run"} \cup Ended,
                          url: PageUrl \cup {NoUrl}, hops: 0..(MaxRedirects + 1), why: PageUrl \cup {NoUrl}]]
    /\ posts \in [PageOp -> 0..(MaxRedirects + 1)] /\ audits \in [PageUrl -> 0..MaxAudits]

PageInit ==
    /\ hasCheck = FALSE /\ pending = NoDenial /\ blockedReq = {} /\ captured = {} /\ pageShut = FALSE
    /\ ops = [o \in PageOp |-> [kind |-> "none", at |-> "new", url |-> NoUrl, hops |-> 0, why |-> NoUrl]]
    /\ left = {} /\ posts = [o \in PageOp |-> 0] /\ audits = [u \in PageUrl |-> 0]

\* page.denied and Service.deny: one event for each url of us.
Audited(us) == [u \in PageUrl |-> IF u \in us /\ audits[u] < MaxAudits THEN audits[u] + 1 ELSE audits[u]]

Ends(o, how) == [ops EXCEPT ![o].at = how]
DeniedFor(o, u) == [ops EXCEPT ![o].at = "denied", ![o].why = u]
------------------------------------------------------------------------------
(* Operations.                                                             *)

\* admit, and check of the url the plugin gave.
StartOp(o, k, u) ==
    /\ ops[o].at = "new"
    /\ LET asked == [ops[o] EXCEPT !.kind = k, !.url = IF k \in {"click", "read"} THEN NoUrl ELSE u] IN
       IF pageShut THEN ops' = [ops EXCEPT ![o] = [asked EXCEPT !.at = "closed"]] /\ UNCHANGED audits
       ELSE IF asked.url # NoUrl /\ ~CheckURL(u)
       THEN /\ ops' = [ops EXCEPT ![o] = [asked EXCEPT !.at = "denied", !.why = u]]
            /\ audits' = Audited({u})
       ELSE ops' = [ops EXCEPT ![o] = [asked EXCEPT !.at = "engine"]] /\ UNCHANGED audits
    /\ UNCHANGED <<hasCheck, pending, blockedReq, captured, pageShut, left, posts>>

\* The engine takes the operation's check; Goto and Click forget an earlier denial.
EnterEngine(o) ==
    /\ ops[o].at = "engine" /\ ops[o].kind # "read"
    /\ IF pageShut THEN ops' = Ends(o, "closed") /\ UNCHANGED <<hasCheck, pending>>
       ELSE /\ ops' = Ends(o, "run") /\ hasCheck' = TRUE
            /\ pending' = IF ops[o].kind \in Navigate THEN NoDenial ELSE pending
    /\ UNCHANGED <<blockedReq, captured, pageShut, left, posts, audits>>

\* Content, WaitFor, Fill and Responses look at what is there.
ReadPage(o) ==
    /\ ops[o].at = "engine" /\ ops[o].kind = "read"
    /\ \E how \in {"ok", "failed"}: ops' = Ends(o, IF pageShut THEN "closed" ELSE how)
    /\ UNCHANGED <<hasCheck, pending, blockedReq, captured, pageShut, left, posts, audits>>

\* mutant: only the url the plugin gave is checked, not the hops after it
HopAllowedFirst(o) == ops[o].hops > 0 \/ CheckURL(ops[o].url)
\* mutant: the flag that the form was sent is set after the answer, not before
SendsBodyAlways(o) == ops[o].kind = "post"

HopAllowed(o) == CheckURL(ops[o].url)
SendsBody(o) == ops[o].kind = "post" /\ ops[o].hops = 0

\* One turn of the loop of Get and Post: gate, address, request, and a redirect to follow.
Hop(o) ==
    /\ ops[o].at = "run" /\ ops[o].kind \in Fetch
    /\ \/ ~HopAllowed(o)
          /\ ops' = DeniedFor(o, ops[o].url) /\ audits' = Audited({ops[o].url}) /\ UNCHANGED <<pending, left, posts>>
       \/ HopAllowed(o) /\ ~CheckHost(ops[o].url)
          /\ ops' = DeniedFor(o, ops[o].url) /\ UNCHANGED <<pending, left, posts, audits>>
       \/ /\ HopAllowed(o) /\ CheckHost(ops[o].url)
          /\ left' = left \cup {ops[o].url} /\ UNCHANGED audits
          /\ posts' = [posts EXCEPT ![o] = IF SendsBody(o) THEN @ + 1 ELSE @]
          /\ \/ ops' = Ends(o, "ok") /\ UNCHANGED pending
             \/ /\ pending' = NoDenial                \* a failed request takes whatever denial is there
                /\ ops' = IF pending = NoDenial THEN Ends(o, "failed") ELSE DeniedFor(o, pending.url)
             \/ \E v \in PageUrl:
                  /\ ops' = [ops EXCEPT ![o].url = v, ![o].hops = @ + 1,
                                        ![o].at = IF ops[o].hops < MaxRedirects THEN @ ELSE "failed"]
                  /\ UNCHANGED pending
    /\ UNCHANGED <<hasCheck, blockedReq, captured, pageShut>>

\* The navigation of a Goto or a Click is over: a denial is taken first, then blocked
\* requests are reported, and a denial nobody reported yet is.  A Click checks where it ended.
NavigationEnds(o) ==
    /\ ops[o].at = "run" /\ ops[o].kind \in Navigate
    /\ pending' = NoDenial /\ blockedReq' = {}
    /\ IF pageShut THEN ops' = Ends(o, "closed") /\ audits' = Audited(blockedReq)
       ELSE IF pending # NoDenial
       THEN /\ ops' = DeniedFor(o, pending.url)
            /\ audits' = Audited(blockedReq \cup (IF pending.reported THEN {} ELSE {pending.url}))
       ELSE \/ ops' = Ends(o, "failed") /\ audits' = Audited(blockedReq)
            \/ \E final \in left:
                 /\ ops[o].kind = "goto" => ops[o].url \in left
                 /\ IF CheckURL(final) \/ ops[o].kind = "goto"
                    THEN ops' = Ends(o, "ok") /\ audits' = Audited(blockedReq)
                    ELSE ops' = DeniedFor(o, final) /\ audits' = Audited(blockedReq \cup {final})
    /\ UNCHANGED <<hasCheck, captured, pageShut, left, posts>>
------------------------------------------------------------------------------
(* The page's own requests, which the driver hands over one at a time.     *)

\* mutant: a request without a check is waved through
AdmittedUnchecked(u) == (hasCheck => CheckURL(u)) /\ CheckHost(u)

\* onRoute: the operation's check, then the addresses; without a check nothing passes.
RouteAdmits(u) == hasCheck /\ CheckURL(u) /\ CheckHost(u)

\* mutant: every denial counts as reported
Reported(u) == TRUE

\* gateURL has logged and published the denials of the allowlist, and no other.
GateReported(u) == hasCheck /\ ~CheckURL(u)

\* block: a denied navigation waits for its caller, a denied subresource is remembered.
OnRoute(u, nav) ==
    /\ ~pageShut
    /\ IF RouteAdmits(u) THEN left' = left \cup {u} /\ UNCHANGED <<pending, blockedReq>>
       ELSE /\ UNCHANGED left
            /\ IF nav THEN /\ pending' = IF pending = NoDenial THEN [url |-> u, reported |-> GateReported(u)] ELSE pending
                           /\ UNCHANGED blockedReq
               ELSE /\ blockedReq' = IF Cardinality(blockedReq) < MaxBlocked THEN blockedReq \cup {u} ELSE blockedReq
                    /\ UNCHANGED pending
    /\ audits' = IF hasCheck /\ ~CheckURL(u) THEN Audited({u}) ELSE audits
    /\ UNCHANGED <<hasCheck, captured, pageShut, ops, posts>>

\* onResponse keeps the answer of a script's request.
OnResponse(u) ==
    /\ u \in left /\ ~pageShut /\ hasCheck /\ CheckURL(u)
    /\ captured' = captured \cup {u}
    /\ UNCHANGED <<hasCheck, pending, blockedReq, pageShut, ops, left, posts, audits>>

\* Close of the page or of its session, which also cancels the operations under way.
ShutPage ==
    /\ ~pageShut /\ pageShut' = TRUE
    /\ UNCHANGED <<hasCheck, pending, blockedReq, captured, ops, left, posts, audits>>

PageNext ==
    \/ \E o \in PageOp, k \in Fetch \cup Navigate \cup {"read"}, u \in PageUrl: StartOp(o, k, u)
    \/ \E o \in PageOp: EnterEngine(o) \/ ReadPage(o) \/ Hop(o) \/ NavigationEnds(o)
    \/ \E u \in PageUrl, nav \in BOOLEAN: OnRoute(u, nav)
    \/ \E u \in PageUrl: OnResponse(u)
    \/ ShutPage

PageSpec == PageInit /\ [][PageNext]_pageVars
------------------------------------------------------------------------------
\* What leaves the host has passed the session's allowlist and the address check, at every
\* hop of a redirect and for every request of the page, also the ones fired before the first
\* operation or after the last; a form is sent once however often the answer redirects; and
\* a navigation that is refused is published, whichever of the check, the address and the
\* operation refused it (playwright.go, onRoute, Get, Post; session.go, Goto, Click).
PageSafe ==
    /\ PageTypeOK
    /\ \A u \in left: CheckURL(u) /\ CheckHost(u)
    /\ \A o \in PageOp: posts[o] <= 1 /\ (posts[o] > 0 => ops[o].kind = "post")
    /\ \A o \in PageOp: ops[o].at = "denied" /\ ops[o].kind \in Navigate => audits[ops[o].why] > 0
==============================================================================
