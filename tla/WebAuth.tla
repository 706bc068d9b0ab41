------------------------------ MODULE WebAuth ------------------------------
(***************************************************************************)
(* The administrator's sessions (web/auth.go, handlers_auth.go, the        *)
(* authenticated wrappers of server.go): first-run bootstrap, login,       *)
(* reauthentication, password change and logout as requests that interleave*)
(* at every statement of the database, the semaphore around the password   *)
(* hash, a long-lived stream that touches its session, expiry, and the     *)
(* attempt limiter in front of it all.  A password is a number: the one in *)
(* force is the number of times it was set; 0 is no administrator.         *)
(***************************************************************************)
EXTENDS Naturals, FiniteSets

CONSTANTS
    AuthReq,        \* requests
    Cookie,         \* sessions that may be issued
    NoCookie,
    Peer, LocalPeer,    \* addresses, and the loopback ones
    PerPeer, PerEndpoint,   \* the limiter's two ceilings
    IdleLimit, AbsoluteLimit, ReauthWindow, LimitWindow,    \* in ticks
    MaxClock, MaxPassword   \* bounds

ASSUME AuthConstants ==
    /\ LocalPeer \subseteq Peer /\ Peer # {} /\ NoCookie \notin Cookie
    /\ PerPeer \in Nat \ {0} /\ PerEndpoint \in Nat \ {0} /\ MaxClock \in Nat /\ MaxPassword \in Nat \ {0}
    /\ IdleLimit \in Nat /\ AbsoluteLimit \in Nat /\ ReauthWindow \in Nat /\ LimitWindow \in Nat

VARIABLES
    clock, password,
    token,      \* the bootstrap token: "none", "issued", "used"
    sessionRow,        \* per cookie: the session's row
    areq,       \* per request: what it is and where it stands
    verifier,   \* request that holds the semaphore
    tries,      \* per peer: its entry in the limiter
    total,      \* the endpoint's entry
    refused,    \* what the limiter last refused: the peer, and its count before
    wielded     \* requests that went through with a session whose row was gone when it was checked

authVars == <<clock, password, token, sessionRow, areq, verifier, tries, total, refused, wielded>>

ReqKind == {"bootstrap", "login", "reauth", "password", "logout", "mutate", "stream"}
NoEntry == [count |-> 0, reset |-> 0, known |-> FALSE]
NoSession == [live |-> FALSE, issued |-> FALSE, expires |-> 0, seen |-> 0, reauth |-> 0, by |-> 0]
NobodyRefused == [peer |-> "", count |-> 0, known |-> FALSE]

\* The type of the state.
AuthTypeOK ==
    /\ clock \in 1..(MaxClock + 1) /\ password \in 0..MaxPassword /\ token \in {"none", "issued", "used"}
    /\ \A c \in Cookie: sessionRow[c].live \in BOOLEAN /\ sessionRow[c].seen \in 0..clock
    /\ \A r \in AuthReq: areq[r].kind \in ReqKind /\ areq[r].cookie \in Cookie \cup {NoCookie}
    /\ verifier \subseteq AuthReq /\ wielded \subseteq AuthReq
    /\ \A p \in Peer: tries[p].count \in Nat

\* New: with no administrator a token is issued; otherwise the password is set already, and
\* sessions may have outlived the last process.
AuthInit ==
    /\ clock = 1
    /\ \/ password = 0 /\ token = "issued" /\ sessionRow = [c \in Cookie |-> NoSession]
       \/ password = 1 /\ token = "none"
          /\ sessionRow \in [Cookie -> {NoSession, [live |-> TRUE, issued |-> TRUE, expires |-> 1 + AbsoluteLimit, seen |-> 1, reauth |-> 0, by |-> 1]}]
    /\ areq = [r \in AuthReq |-> [kind |-> "login", at |-> "new", peer |-> CHOOSE p \in Peer: TRUE, cookie |-> NoCookie, guess |-> 0, hash |-> 0]]
    /\ verifier = {} /\ tries = [p \in Peer |-> NoEntry] /\ total = NoEntry
    /\ refused = NobodyRefused /\ wielded = {}

LimiterStays == UNCHANGED <<tries, total, refused>>
Goes(r, where) == [areq EXCEPT ![r].at = where]
------------------------------------------------------------------------------
(* The limiter and the wrappers.                                           *)

\* mutant: every attempt is charged to the endpoint, not only those of peers it did not know
KnownNever(p) == FALSE

\* A peer with an open window is charged to its own counter and to nothing else.
Known(p) == tries[p].known /\ clock <= tries[p].reset

Charged == IF total.known /\ clock <= total.reset THEN [total EXCEPT !.count = @ + 1]
           ELSE [count |-> 1, reset |-> clock + LimitWindow, known |-> TRUE]

\* allow: the peer's own ceiling, or for a peer that is new the endpoint's, loopback exempt.
Allow(r, p, next) ==
    IF Known(p)
    THEN /\ tries' = [tries EXCEPT ![p].count = @ + 1] /\ UNCHANGED total
         /\ IF tries[p].count < PerPeer THEN next /\ UNCHANGED refused
            ELSE /\ areq' = Goes(r, "refused")
                 /\ refused' = [peer |-> p, count |-> tries[p].count, known |-> TRUE]
    ELSE IF p \in LocalPeer \/ Charged.count <= PerEndpoint
    THEN /\ tries' = [tries EXCEPT ![p] = [count |-> 1, reset |-> clock + LimitWindow, known |-> TRUE]]
         /\ total' = (IF p \in LocalPeer THEN total ELSE Charged)
         /\ next /\ UNCHANGED refused
    ELSE /\ total' = Charged /\ UNCHANGED tries /\ areq' = Goes(r, "refused")
         /\ refused' = [peer |-> p, count |-> tries[p].count, known |-> tries[p].known /\ clock <= tries[p].reset]

\* reset, after the peer has shown it is the administrator.
Forgiven(p) == [tries EXCEPT ![p].count = 0]

\* mutant: the row is written whole
TouchedWhole(c) == [sessionRow EXCEPT ![c].seen = clock, ![c].live = TRUE]

\* UPDATE ... SET last_seen_at: a row that is gone stays gone.
Touched(c) == IF sessionRow[c].live THEN [sessionRow EXCEPT ![c].seen = clock] ELSE sessionRow

Expired(c) == clock > sessionRow[c].expires \/ clock - sessionRow[c].seen > IdleLimit

\* A request of any kind comes in.  handleLogin and handleBootstrapAdmin ask only the limiter.
Arrive(r, k, p, c, g) ==
    /\ areq[r].at = "new"
    /\ k = "bootstrap" => p \in LocalPeer
    /\ areq' = [areq EXCEPT ![r] = [kind |-> k, at |-> IF k \in {"login", "bootstrap"} THEN "limit" ELSE "session",
                                   peer |-> p, cookie |-> c, guess |-> g, hash |-> 0]]
    /\ UNCHANGED <<clock, password, token, sessionRow, verifier, wielded>> /\ LimiterStays

\* authenticated: lookup reads the row; an expired one is deleted.
LookupRead(r) ==
    LET c == areq[r].cookie IN
    /\ areq[r].at = "session"
    /\ IF c = NoCookie \/ ~sessionRow[c].live THEN areq' = Goes(r, "refused") /\ UNCHANGED sessionRow
       ELSE IF Expired(c) THEN areq' = Goes(r, "refused") /\ sessionRow' = [sessionRow EXCEPT ![c].live = FALSE]
       ELSE areq' = Goes(r, "seen") /\ UNCHANGED sessionRow
    /\ UNCHANGED <<clock, password, token, verifier, wielded>> /\ LimiterStays

\* lookup's UPDATE touches a row that may be gone by now; the request goes on either way.  A
\* mutation then has to show the token derived from the row, which is read for that.
LookupTouch(r) ==
    LET c == areq[r].cookie
        next == CASE areq[r].kind \in {"reauth", "password"} -> "limit"
                  [] areq[r].kind = "stream" -> "streaming" [] OTHER -> "act" IN
    /\ areq[r].at = "seen"
    /\ sessionRow' = Touched(c)
    /\ areq' = Goes(r, IF areq[r].kind = "stream" \/ sessionRow[c].live THEN next ELSE "refused")
    /\ UNCHANGED <<clock, password, token, verifier, wielded>> /\ LimiterStays

\* allow, in front of every endpoint that hashes a password.
AskLimiter(r) ==
    /\ areq[r].at = "limit"
    /\ Allow(r, areq[r].peer, areq' = Goes(r, IF areq[r].kind = "bootstrap" THEN "claim" ELSE "hash"))
    /\ UNCHANGED <<clock, password, token, sessionRow, verifier, wielded>>
------------------------------------------------------------------------------
(* Passwords.                                                              *)

\* bootstrap, in one transaction: no administrator, and the token is right and unused.
ClaimBootstrap(r) ==
    /\ areq[r].at = "claim"
    /\ IF password = 0 /\ token = "issued" /\ areq[r].guess = 1
       THEN /\ password' = 1 /\ token' = "used" /\ areq' = Goes(r, "issue") /\ tries' = Forgiven(areq[r].peer)
       ELSE areq' = Goes(r, "refused") /\ UNCHANGED <<password, token, tries>>
    /\ UNCHANGED <<clock, sessionRow, verifier, total, refused, wielded>>

\* checkPassword reads the hash before it queues for the semaphore.
ReadHash(r) ==
    /\ areq[r].at = "hash"
    /\ areq' = [areq EXCEPT ![r].hash = password, ![r].at = IF password = 0 THEN "refused" ELSE "queue"]
    /\ UNCHANGED <<clock, password, token, sessionRow, verifier, wielded>> /\ LimiterStays

\* mutant: nothing is waited for
FreeAlways == TRUE

VerifierFree == verifier = {}

\* The semaphore, or the client is gone and the request leaves the queue.
EnterVerify(r) ==
    /\ areq[r].at = "queue"
    /\ \/ VerifierFree /\ verifier' = verifier \cup {r} /\ areq' = Goes(r, "verify")
       \/ areq' = Goes(r, "gone") /\ UNCHANGED verifier
    /\ UNCHANGED <<clock, password, token, sessionRow, wielded>> /\ LimiterStays

\* The comparison is over and the semaphore given back.
Verified(r) ==
    /\ areq[r].at = "verify" /\ verifier' = verifier \ {r}
    /\ areq' = Goes(r, IF areq[r].guess # areq[r].hash THEN "refused"
                       ELSE IF areq[r].kind = "login" THEN "rotate" ELSE "act")
    /\ UNCHANGED <<clock, password, token, sessionRow, wielded>> /\ LimiterStays

\* A login discards the session its client presented, and resets the limiter.
RotateSession(r) ==
    LET c == areq[r].cookie IN
    /\ areq[r].at = "rotate"
    /\ sessionRow' = IF c # NoCookie THEN [sessionRow EXCEPT ![c].live = FALSE] ELSE sessionRow
    /\ areq' = Goes(r, "issue") /\ tries' = Forgiven(areq[r].peer)
    /\ UNCHANGED <<clock, password, token, verifier, total, refused, wielded>>

\* startSession: a fresh row with its absolute lifetime.
IssueSession(r, c) ==
    /\ areq[r].at = "issue" /\ ~sessionRow[c].issued
    /\ sessionRow' = [sessionRow EXCEPT ![c] = [live |-> TRUE, issued |-> TRUE, expires |-> clock + AbsoluteLimit, seen |-> clock,
                                 reauth |-> 0, by |-> IF areq[r].kind = "bootstrap" THEN 1 ELSE areq[r].hash]]
    /\ areq' = Goes(r, "done")
    /\ UNCHANGED <<clock, password, token, verifier, wielded>> /\ LimiterStays
------------------------------------------------------------------------------
(* What authenticated requests do.                                         *)

ReauthFresh(c) == sessionRow[c].reauth > 0 /\ clock - sessionRow[c].reauth <= ReauthWindow

\* markReauth updates the row, if there still is one.
Reauth(r) ==
    LET c == areq[r].cookie IN
    /\ areq[r].at = "act" /\ areq[r].kind = "reauth"
    /\ sessionRow' = IF sessionRow[c].live THEN [sessionRow EXCEPT ![c].reauth = clock] ELSE sessionRow
    /\ areq' = Goes(r, "done") /\ tries' = Forgiven(areq[r].peer)
    /\ UNCHANGED <<clock, password, token, verifier, total, refused, wielded>>

\* handleChangePassword replaces the hash, and then signs out every other session.
SetPassword(r) ==
    /\ areq[r].at = "act" /\ areq[r].kind = "password" /\ password < MaxPassword
    /\ password' = password + 1
    /\ areq' = Goes(r, "revoke") /\ tries' = Forgiven(areq[r].peer)
    /\ UNCHANGED <<clock, token, sessionRow, verifier, total, refused, wielded>>

DeleteOthers(r) ==
    /\ areq[r].at = "revoke"
    /\ sessionRow' = [c \in Cookie |-> IF c = areq[r].cookie THEN sessionRow[c] ELSE [sessionRow[c] EXCEPT !.live = FALSE]]
    /\ areq' = Goes(r, "done")
    /\ UNCHANGED <<clock, password, token, verifier, wielded>> /\ LimiterStays

\* The connection ends between the two, which the code does not undo.
ChangeFails(r) ==
    /\ areq[r].at = "revoke" /\ areq' = Goes(r, "gone")
    /\ UNCHANGED <<clock, password, token, sessionRow, verifier, wielded>> /\ LimiterStays

Logout(r) ==
    /\ areq[r].at = "act" /\ areq[r].kind = "logout"
    /\ sessionRow' = [sessionRow EXCEPT ![areq[r].cookie].live = FALSE]
    /\ areq' = Goes(r, "done")
    /\ UNCHANGED <<clock, password, token, verifier, wielded>> /\ LimiterStays

\* A credential or a harness session is changed, behind freshReauth.
Mutate(r) ==
    /\ areq[r].at = "act" /\ areq[r].kind = "mutate"
    /\ areq' = Goes(r, IF ReauthFresh(areq[r].cookie) THEN "done" ELSE "refused")
    /\ UNCHANGED <<clock, password, token, sessionRow, verifier, wielded>> /\ LimiterStays

\* mutant: the update's count of rows is not looked at
RowGoneUnseen(c) == FALSE

\* touch: logout or a password change won the race after the read.
RowGone(c) == ~sessionRow[c].live

\* touch of a stream reads the row and checks it, and then updates it.
StreamRead(r) ==
    LET c == areq[r].cookie IN
    /\ areq[r].at = "streaming"
    /\ IF ~sessionRow[c].live THEN areq' = Goes(r, "refused") /\ UNCHANGED sessionRow
       ELSE IF Expired(c) THEN areq' = Goes(r, "refused") /\ sessionRow' = [sessionRow EXCEPT ![c].live = FALSE]
       ELSE areq' = Goes(r, "touch") /\ UNCHANGED sessionRow
    /\ UNCHANGED <<clock, password, token, verifier, wielded>> /\ LimiterStays

StreamTouch(r) ==
    LET c == areq[r].cookie IN
    /\ areq[r].at = "touch"
    /\ sessionRow' = Touched(c)
    /\ areq' = Goes(r, IF RowGone(c) THEN "refused" ELSE "streaming")
    /\ wielded' = IF ~sessionRow[c].live /\ ~RowGone(c) THEN wielded \cup {r} ELSE wielded
    /\ UNCHANGED <<clock, password, token, verifier>> /\ LimiterStays

\* New of a later process: purgeExpired; an unused token is replaced, requests are gone.
RestartWeb ==
    /\ sessionRow' = [c \in Cookie |-> IF sessionRow[c].expires < clock THEN [sessionRow[c] EXCEPT !.live = FALSE] ELSE sessionRow[c]]
    /\ token' = IF password = 0 THEN "issued" ELSE token
    /\ areq' = [r \in AuthReq |-> IF areq[r].at \in {"new", "done", "refused", "gone"} THEN areq[r] ELSE [areq[r] EXCEPT !.at = "gone"]]
    /\ verifier' = {} /\ tries' = [p \in Peer |-> NoEntry] /\ total' = NoEntry /\ refused' = NobodyRefused
    /\ UNCHANGED <<clock, password, wielded>>

AuthTick == clock <= MaxClock /\ clock' = clock + 1 /\ UNCHANGED <<password, token, sessionRow, areq, verifier, wielded>> /\ LimiterStays

AuthNext ==
    \/ \E r \in AuthReq:
         \/ \E k \in ReqKind, p \in Peer, c \in Cookie \cup {NoCookie}, g \in 1..MaxPassword: Arrive(r, k, p, c, g)
         \/ LookupRead(r) \/ LookupTouch(r) \/ AskLimiter(r) \/ ClaimBootstrap(r)
         \/ ReadHash(r) \/ EnterVerify(r) \/ Verified(r) \/ RotateSession(r)
         \/ \E c \in Cookie: IssueSession(r, c)
         \/ Reauth(r) \/ SetPassword(r) \/ DeleteOthers(r) \/ ChangeFails(r) \/ Logout(r) \/ Mutate(r)
         \/ StreamRead(r) \/ StreamTouch(r)
    \/ RestartWeb \/ AuthTick

AuthSpec == AuthInit /\ [][AuthNext]_authVars
------------------------------------------------------------------------------
\* The hash is computed by one request at a time, whoever leaves the queue and when; a
\* stream goes on only with a session that was there when it was touched; and the
\* administrator exists once the token was used, and not before (auth.go, checkPassword,
\* touch, bootstrap).
AuthSafe ==
    /\ Cardinality({r \in AuthReq: areq[r].at = "verify"}) <= 1
    /\ wielded = {}
    /\ token = "used" => password > 0
    /\ \A c \in Cookie: sessionRow[c].live => sessionRow[c].issued /\ sessionRow[c].by \in 1..password

\* Strangers cannot shut anybody out: a refused peer has used its own attempts up, unless it
\* was unknown and not on this machine (handlers_auth.go, attemptLimiter).
NobodyElseLocksOut ==
    refused # NobodyRefused =>
      \/ refused.known /\ refused.count >= PerPeer
      \/ ~refused.known /\ refused.peer \notin LocalPeer

\* A session that was revoked never comes back, and no use of it extends its absolute
\* lifetime, whatever lookup or touch was under way (auth.go, lookup, touch, deleteOthers).
RevokedStaysRevoked ==
    [][\A c \in Cookie: sessionRow[c].issued => (sessionRow'[c].live => sessionRow[c].live) /\ sessionRow'[c].expires = sessionRow[c].expires]_sessionRow

\* Sessions, the limiter and the one password verification at a time, together.
AuthHolds == [](AuthTypeOK /\ AuthSafe /\ NobodyElseLocksOut) /\ RevokedStaysRevoked
==============================================================================
