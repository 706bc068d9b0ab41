---------------------------- MODULE ServerProofs ----------------------------
(***************************************************************************)
(* Proofs about the rest of the server: the administrator's sessions       *)
(* (WebAuth), the plugins' browser (Browser), the schedules (Cron) and the *)
(* notifications (Notifications), for every number of requests, cookies,   *)
(* peers, sessions, pages, feeds, events and channels.                     *)
(***************************************************************************)
EXTENDS WebAuth, Browser, Cron, Notifications, FiniteSetTheorems, SequenceTheorems, TLAPS

-----------------------------------------------------------------------------
(***************************************************************************)
(* The administrator's sessions.                                           *)
(***************************************************************************)

AuthSteps == {"new", "session", "seen", "limit", "claim", "hash", "queue", "verify", "rotate", "issue",
              "act", "revoke", "streaming", "touch", "done", "refused", "gone"}
SessionRows == [live : BOOLEAN, issued : BOOLEAN, expires : Nat, seen : Nat, reauth : Nat, by : Nat]
Entries == [count : Nat, reset : Nat, known : BOOLEAN]
AuthReqs == [kind : ReqKind, at : AuthSteps, peer : Peer, cookie : Cookie \cup {NoCookie},
             guess : Nat, hash : Nat]

AuthTyped ==
    /\ clock \in 1..(MaxClock + 1) /\ password \in 0..MaxPassword /\ token \in {"none", "issued", "used"}
    /\ sessionRow \in [Cookie -> SessionRows] /\ areq \in [AuthReq -> AuthReqs]
    /\ verifier \subseteq AuthReq /\ tries \in [Peer -> Entries] /\ total \in Entries

SeenPast == \A c \in Cookie : sessionRow[c].seen <= clock

(* The semaphore is held by the request that computes, and by one only. *)
VerifyAlone ==
    /\ \A r \in AuthReq : areq[r].at = "verify" => r \in verifier
    /\ \A q, r \in verifier : q = r

(* A request past the hash has read the hash of a password that was set, and *)
(* only a bootstrap gets a session without.                                  *)
HashBehind ==
    \A r \in AuthReq :
        /\ areq[r].at \in {"queue", "verify", "rotate"} => areq[r].hash \in 1..password
        /\ areq[r].at = "issue" => password > 0 /\ (areq[r].kind # "bootstrap" => areq[r].hash \in 1..password)
        /\ areq[r].at = "claim" => areq[r].kind = "bootstrap"

RowsIssued ==
    \A c \in Cookie : sessionRow[c].live => sessionRow[c].issued /\ sessionRow[c].by \in 1..password

AuthInv ==
    /\ AuthTyped /\ SeenPast /\ VerifyAlone /\ HashBehind /\ RowsIssued
    /\ wielded = {} /\ (token = "used" => password > 0) /\ NobodyElseLocksOut

LEMMA AuthNumbers ==
    /\ MaxClock \in Nat /\ MaxPassword \in Nat /\ MaxPassword >= 1 /\ PerPeer \in Nat
    /\ IdleLimit \in Nat /\ AbsoluteLimit \in Nat /\ ReauthWindow \in Nat /\ LimitWindow \in Nat
    /\ LocalPeer \subseteq Peer /\ \E p \in Peer : TRUE
  BY AuthConstants

LEMMA AuthFields ==
    ASSUME AuthTyped
    PROVE  /\ clock \in Nat /\ clock >= 1 /\ password \in Nat /\ password <= MaxPassword
           /\ \A r \in AuthReq : areq[r] \in AuthReqs /\ areq[r].at \in AuthSteps /\ areq[r].kind \in ReqKind
                                 /\ areq[r].peer \in Peer /\ areq[r].hash \in Nat /\ areq[r].guess \in Nat
                                 /\ areq[r].cookie \in Cookie \cup {NoCookie}
           /\ \A c \in Cookie : sessionRow[c] \in SessionRows /\ sessionRow[c].seen \in Nat
                                /\ sessionRow[c].by \in Nat /\ sessionRow[c].expires \in Nat
                                /\ sessionRow[c].live \in BOOLEAN /\ sessionRow[c].issued \in BOOLEAN
           /\ \A p \in Peer : tries[p] \in Entries /\ tries[p].count \in Nat /\ tries[p].known \in BOOLEAN
<1>1. clock \in Nat /\ clock >= 1 /\ password \in Nat /\ password <= MaxPassword
  BY AuthNumbers DEF AuthTyped
<1>2. \A r \in AuthReq : areq[r] \in AuthReqs
  BY DEF AuthTyped
<1>3. \A x \in AuthReqs : /\ x.at \in AuthSteps /\ x.kind \in ReqKind /\ x.peer \in Peer /\ x.hash \in Nat
                          /\ x.guess \in Nat /\ x.cookie \in Cookie \cup {NoCookie}
  BY DEF AuthReqs
<1>4. \A c \in Cookie : sessionRow[c] \in SessionRows
  BY DEF AuthTyped
<1>5. \A x \in SessionRows : /\ x.seen \in Nat /\ x.by \in Nat /\ x.expires \in Nat /\ x.live \in BOOLEAN
                             /\ x.issued \in BOOLEAN
  BY DEF SessionRows
<1>6. \A p \in Peer : tries[p] \in Entries
  BY DEF AuthTyped
<1>7. \A x \in Entries : x.count \in Nat /\ x.known \in BOOLEAN
  BY DEF Entries
<1> QED
  BY <1>1, <1>2, <1>3, <1>4, <1>5, <1>6, <1>7

LEMMA AuthInvInit == AuthInit => AuthInv
<1> SUFFICES ASSUME AuthInit PROVE AuthInv
  OBVIOUS
<1> DEFINE p0 == CHOOSE p \in Peer : TRUE
           q0 == [kind |-> "login", at |-> "new", peer |-> p0, cookie |-> NoCookie, guess |-> 0, hash |-> 0]
           s0 == [live |-> TRUE, issued |-> TRUE, expires |-> 1 + AbsoluteLimit, seen |-> 1, reauth |-> 0, by |-> 1]
<1>1. /\ clock = 1 /\ areq = [r \in AuthReq |-> q0] /\ verifier = {} /\ tries = [p \in Peer |-> NoEntry]
      /\ total = NoEntry /\ refused = NobodyRefused /\ wielded = {}
      /\ \/ password = 0 /\ token = "issued" /\ sessionRow = [c \in Cookie |-> NoSession]
         \/ password = 1 /\ token = "none" /\ sessionRow \in [Cookie -> {NoSession, s0}]
  BY DEF AuthInit
<1>2. p0 \in Peer
  BY AuthNumbers
<1>3. q0 \in AuthReqs /\ q0.at = "new"
  <2> HIDE DEF p0
  <2> QED
    BY <1>2 DEF AuthReqs, AuthSteps, ReqKind
<1>4. 1 + AbsoluteLimit \in Nat
  BY AuthNumbers
<1>5. s0 \in SessionRows /\ s0.seen = 1 /\ s0.issued /\ s0.by = 1
  BY <1>4 DEF SessionRows
<1>6. NoSession \in SessionRows /\ NoSession.seen = 0 /\ NoSession.live = FALSE
  BY DEF SessionRows, NoSession
<1>7. NoEntry \in Entries
  BY DEF Entries, NoEntry
<1> HIDE DEF q0, s0, p0
<1>8. password \in 0..MaxPassword /\ clock \in 1..(MaxClock + 1)
  BY <1>1, AuthNumbers
<1>9. /\ sessionRow \in [Cookie -> SessionRows]
      /\ \A c \in Cookie : sessionRow[c] = NoSession \/ (sessionRow[c] = s0 /\ password = 1)
  BY <1>1, <1>5, <1>6
<1>10. AuthTyped
  BY <1>1, <1>3, <1>7, <1>8, <1>9 DEF AuthTyped
<1>11. SeenPast
  <2>1. 0 <= 1 /\ 1 <= 1
    OBVIOUS
  <2> QED
    BY <1>1, <1>5, <1>6, <1>9, <2>1 DEF SeenPast
<1>12. VerifyAlone /\ HashBehind
  BY <1>1, <1>3 DEF VerifyAlone, HashBehind
<1>13. RowsIssued
  <2>1. 1 \in 1..1
    OBVIOUS
  <2> QED
    BY <1>5, <1>6, <1>9, <2>1 DEF RowsIssued
<1>14. NobodyElseLocksOut /\ (token = "used" => password > 0)
  BY <1>1 DEF NobodyElseLocksOut
<1> QED
  BY <1>1, <1>10, <1>11, <1>12, <1>13, <1>14 DEF AuthInv

(* What a step may do to the rows ... *)
RowStep ==
    /\ sessionRow' \in [Cookie -> SessionRows]
    /\ \A c \in Cookie :
        /\ sessionRow'[c].seen <= clock'
        /\ sessionRow[c].issued => (sessionRow'[c].live => sessionRow[c].live) /\ sessionRow'[c].expires = sessionRow[c].expires
        /\ sessionRow'[c].live => sessionRow'[c].issued /\ sessionRow'[c].by \in 1..password'

(* ... to the requests ... *)
ReqStep ==
    areq' \in [AuthReq -> AuthReqs] /\ verifier' \subseteq AuthReq /\ VerifyAlone' /\ HashBehind'

(* ... to the limiter ... *)
LimitStep == tries' \in [Peer -> Entries] /\ total' \in Entries /\ NobodyElseLocksOut'

(* ... and to the rest. *)
RestStep ==
    /\ clock' \in 1..(MaxClock + 1) /\ clock' >= clock /\ password' \in 0..MaxPassword /\ password' >= password
    /\ token' \in {"none", "issued", "used"} /\ (token' = "used" => password' > 0) /\ wielded' = {}

AuthStep == RowStep /\ ReqStep /\ LimitStep /\ RestStep

LEMMA StepMeans ==
    ASSUME AuthStep
    PROVE  AuthInv'
  BY DEF AuthStep, RowStep, ReqStep, LimitStep, RestStep, AuthInv, AuthTyped, SeenPast, RowsIssued

LEMMA RestStays ==
    ASSUME AuthInv, UNCHANGED <<clock, password, token, wielded>> PROVE RestStep
<1>1. clock \in 1..(MaxClock + 1) /\ password \in 0..MaxPassword /\ token \in {"none", "issued", "used"}
      /\ wielded = {} /\ (token = "used" => password > 0)
  BY DEF AuthInv, AuthTyped
<1>2. clock >= clock /\ password >= password
  BY <1>1
<1> QED
  BY <1>1, <1>2 DEF RestStep

LEMMA LimiterRests == ASSUME AuthInv, LimiterStays PROVE LimitStep
  BY DEF AuthInv, AuthTyped, LimiterStays, LimitStep, NobodyElseLocksOut

LEMMA RequestsRest ==
    ASSUME AuthInv, UNCHANGED <<areq, verifier>>, RestStep PROVE ReqStep
<1>1. \A n \in 1..password : n \in 1..password'
  BY AuthFields DEF AuthInv, RestStep
<1>2. password > 0 => password' > 0
  BY AuthFields DEF AuthInv, RestStep
<1>3. areq' \in [AuthReq -> AuthReqs] /\ verifier' \subseteq AuthReq /\ VerifyAlone'
  BY DEF AuthInv, AuthTyped, VerifyAlone
<1>4. HashBehind'
  BY <1>1, <1>2 DEF AuthInv, HashBehind
<1> QED
  BY <1>3, <1>4 DEF ReqStep

(* A row is left, or loses its life or keeps it, seen no later than now. *)
LEMMA RowsPatched ==
    ASSUME AuthInv, RestStep, sessionRow' \in [Cookie -> SessionRows],
           \A c \in Cookie :
               /\ sessionRow'[c].seen \in {sessionRow[c].seen, clock}
               /\ sessionRow'[c].live => sessionRow[c].live
               /\ sessionRow'[c].expires = sessionRow[c].expires
               /\ sessionRow'[c].issued = sessionRow[c].issued /\ sessionRow'[c].by = sessionRow[c].by
    PROVE  RowStep
<1>0. AuthTyped
  BY DEF AuthInv
<1>1. \A n \in 1..password : n \in 1..password'
  BY <1>0, AuthFields DEF RestStep
<1>2. \A c \in Cookie : sessionRow'[c].seen <= clock'
  <2> SUFFICES ASSUME NEW c \in Cookie PROVE sessionRow'[c].seen <= clock'
    OBVIOUS
  <2>1. sessionRow[c].seen <= clock /\ sessionRow[c].seen \in Nat /\ clock \in Nat
    BY <1>0, AuthFields DEF AuthInv, SeenPast
  <2>2. clock' >= clock /\ clock' \in 1..(MaxClock + 1) /\ MaxClock \in Nat
    BY AuthNumbers DEF RestStep
  <2>3. sessionRow'[c].seen = sessionRow[c].seen \/ sessionRow'[c].seen = clock
    OBVIOUS
  <2> QED
    BY ONLY <2>1, <2>2, <2>3
<1> QED
  BY <1>1, <1>2 DEF RowStep, AuthInv, RowsIssued

LEMMA RowsRest == ASSUME AuthInv, RestStep, UNCHANGED sessionRow PROVE RowStep
<1>1. sessionRow' \in [Cookie -> SessionRows]
  BY DEF AuthInv, AuthTyped
<1> QED
  BY <1>1, RowsPatched

LEMMA RowEnds ==
    ASSUME AuthInv, RestStep, NEW c, sessionRow' = [sessionRow EXCEPT ![c].live = FALSE]
    PROVE  RowStep
<1>1. \A x \in SessionRows : LET y == [x EXCEPT !.live = FALSE] IN
        y \in SessionRows /\ y.live = FALSE /\ y.seen = x.seen /\ y.expires = x.expires /\ y.issued = x.issued /\ y.by = x.by
  BY DEF SessionRows
<1>2. sessionRow \in [Cookie -> SessionRows]
  BY DEF AuthInv, AuthTyped
<1>3. \A d \in Cookie : sessionRow'[d] = IF d = c THEN [sessionRow[d] EXCEPT !.live = FALSE] ELSE sessionRow[d]
  BY <1>2
<1>4. sessionRow' \in [Cookie -> SessionRows]
  BY <1>1, <1>2, <1>3
<1> QED
  BY <1>1, <1>2, <1>3, <1>4, RowsPatched

LEMMA RowTouched ==
    ASSUME AuthInv, RestStep, NEW c, sessionRow' = Touched(c)
    PROVE  RowStep
<1>1. CASE UNCHANGED sessionRow
  BY <1>1, RowsRest
<1>2. CASE sessionRow' = [sessionRow EXCEPT ![c].seen = clock]
  <2>0. clock \in Nat
    BY AuthFields DEF AuthInv
  <2>1. \A x \in SessionRows : LET y == [x EXCEPT !.seen = clock] IN
          y \in SessionRows /\ y.live = x.live /\ y.seen = clock /\ y.expires = x.expires /\ y.issued = x.issued /\ y.by = x.by
    BY <2>0 DEF SessionRows
  <2>2. sessionRow \in [Cookie -> SessionRows]
    BY DEF AuthInv, AuthTyped
  <2>3. \A d \in Cookie : sessionRow'[d] = IF d = c THEN [sessionRow[d] EXCEPT !.seen = clock] ELSE sessionRow[d]
    BY <1>2, <2>2
  <2>4. sessionRow' \in [Cookie -> SessionRows]
    BY <1>2, <2>1, <2>2, <2>3
  <2>5. \A d \in Cookie :
          /\ sessionRow'[d].seen \in {sessionRow[d].seen, clock}
          /\ sessionRow'[d].live => sessionRow[d].live
          /\ sessionRow'[d].expires = sessionRow[d].expires
          /\ sessionRow'[d].issued = sessionRow[d].issued /\ sessionRow'[d].by = sessionRow[d].by
    <3> SUFFICES ASSUME NEW d \in Cookie
                 PROVE  /\ sessionRow'[d].seen \in {sessionRow[d].seen, clock}
                        /\ sessionRow'[d].live => sessionRow[d].live
                        /\ sessionRow'[d].expires = sessionRow[d].expires
                        /\ sessionRow'[d].issued = sessionRow[d].issued /\ sessionRow'[d].by = sessionRow[d].by
      OBVIOUS
    <3> DEFINE y == [sessionRow[d] EXCEPT !.seen = clock]
    <3>1. /\ y.live = sessionRow[d].live /\ y.seen = clock /\ y.expires = sessionRow[d].expires
          /\ y.issued = sessionRow[d].issued /\ y.by = sessionRow[d].by
      BY <2>1, <2>2
    <3>2. sessionRow'[d] = y \/ sessionRow'[d] = sessionRow[d]
      BY <2>3
    <3> HIDE DEF y
    <3> QED
      BY <3>1, <3>2
  <2> QED
    BY <2>4, <2>5, RowsPatched
<1> QED
  BY <1>1, <1>2 DEF Touched

(* One request moves. *)
LEMMA RequestMoves ==
    ASSUME AuthInv, RestStep, NEW r \in AuthReq, NEW x \in AuthReqs, areq' = [areq EXCEPT ![r] = x],
           verifier' \in {verifier, verifier \ {r}} \/ (verifier = {} /\ verifier' = {r}),
           x.at = "verify" => r \in verifier',
           x.at \in {"queue", "verify", "rotate"} => x.hash \in 1..password',
           x.at = "issue" => password' > 0 /\ (x.kind # "bootstrap" => x.hash \in 1..password'),
           x.at = "claim" => x.kind = "bootstrap"
    PROVE  ReqStep
<1>0. AuthTyped /\ areq \in [AuthReq -> AuthReqs] /\ verifier \subseteq AuthReq
  BY DEF AuthInv, AuthTyped
<1>1. \A n \in 1..password : n \in 1..password'
  BY <1>0, AuthFields DEF RestStep
<1>2. password > 0 => password' > 0
  BY <1>0, AuthFields DEF RestStep
<1>3. /\ areq' \in [AuthReq -> AuthReqs]
      /\ \A q \in AuthReq : areq'[q] = IF q = r THEN x ELSE areq[q]
  BY <1>0
<1>4. VerifyAlone'
  <2>1. \A q \in AuthReq : areq'[q].at = "verify" => q \in verifier'
    BY <1>3 DEF AuthInv, VerifyAlone
  <2>2. \A p, q \in verifier' : p = q
    BY DEF AuthInv, VerifyAlone
  <2> QED
    BY <2>1, <2>2 DEF VerifyAlone
<1>5. HashBehind'
  BY <1>1, <1>2, <1>3 DEF AuthInv, HashBehind
<1> QED
  BY <1>0, <1>3, <1>4, <1>5 DEF ReqStep

LEMMA RequestGoes ==
    ASSUME AuthInv, RestStep, NEW r \in AuthReq, NEW w \in AuthSteps, areq' = Goes(r, w),
           verifier' \in {verifier, verifier \ {r}} \/ (verifier = {} /\ verifier' = {r}),
           w = "verify" => r \in verifier',
           w \in {"queue", "verify", "rotate"} => areq[r].hash \in 1..password',
           w = "issue" => password' > 0 /\ (areq[r].kind # "bootstrap" => areq[r].hash \in 1..password'),
           w = "claim" => areq[r].kind = "bootstrap"
    PROVE  ReqStep
<1> DEFINE x == [areq[r] EXCEPT !.at = w]
<1>1. areq[r] \in AuthReqs
  BY AuthFields DEF AuthInv
<1>2. x \in AuthReqs /\ x.at = w /\ x.hash = areq[r].hash /\ x.kind = areq[r].kind
  BY <1>1 DEF AuthReqs
<1>3. areq' = [areq EXCEPT ![r] = x]
  BY DEF Goes
<1> HIDE DEF x
<1> QED
  BY <1>2, <1>3, RequestMoves

LEMMA LimiterAnswers ==
    ASSUME AuthInv, RestStep, NEW r \in AuthReq, NEW w \in AuthSteps, w \notin {"queue", "verify", "rotate", "issue"},
           w = "claim" => areq[r].kind = "bootstrap", UNCHANGED <<clock, verifier>>,
           Allow(r, areq[r].peer, areq' = Goes(r, w))
    PROVE  ReqStep /\ LimitStep
<1> DEFINE p == areq[r].peer
<1>0. AuthTyped /\ tries \in [Peer -> Entries] /\ total \in Entries /\ p \in Peer /\ clock \in Nat
  BY AuthFields DEF AuthInv, AuthTyped
<1> HIDE DEF p
<1>1. areq' = Goes(r, w) \/ areq' = Goes(r, "refused")
  BY DEF Allow, p
<1>2. ReqStep
  <2>1. "refused" \in AuthSteps
    BY DEF AuthSteps
  <2> QED
    BY <1>1, <2>1, RequestGoes
<1>3. Charged \in Entries
  <2>1. total.count \in Nat /\ total.reset \in Nat
    BY <1>0 DEF Entries
  <2>2. total.count + 1 \in Nat /\ clock + LimitWindow \in Nat
    BY <1>0, <2>1, AuthNumbers
  <2>3. [total EXCEPT !.count = @ + 1] \in Entries
    BY <1>0, <2>2 DEF Entries
  <2>4. [count |-> 1, reset |-> clock + LimitWindow, known |-> TRUE] \in Entries
    BY <2>2 DEF Entries
  <2> QED
    BY <2>3, <2>4 DEF Charged
<1>4. tries' \in [Peer -> Entries] /\ total' \in Entries
  <2>1. clock + LimitWindow \in Nat
    BY <1>0, AuthNumbers
  <2>2. [count |-> 1, reset |-> clock + LimitWindow, known |-> TRUE] \in Entries
    BY <2>1 DEF Entries
  <2>3. tries[p] \in Entries /\ tries[p].count + 1 \in Nat
    BY <1>0 DEF Entries
  <2>4. [tries[p] EXCEPT !.count = @ + 1] \in Entries
    BY <2>3 DEF Entries
  <2>5. \/ tries' = [tries EXCEPT ![p].count = @ + 1] \/ UNCHANGED tries
        \/ tries' = [tries EXCEPT ![p] = [count |-> 1, reset |-> clock + LimitWindow, known |-> TRUE]]
    BY DEF Allow, p
  <2>6. total' = total \/ total' = Charged
    BY DEF Allow
  <2>7. tries' \in [Peer -> Entries]
    BY <1>0, <2>2, <2>4, <2>5
  <2> QED
    BY <1>0, <1>3, <2>6, <2>7
<1>5. NobodyElseLocksOut'
  <2>1. CASE UNCHANGED refused
    BY <2>1 DEF AuthInv, NobodyElseLocksOut
  <2>2. CASE Known(p) /\ ~ (tries[p].count < PerPeer)
    <3>1. refused' = [peer |-> p, count |-> tries[p].count, known |-> TRUE]
      BY <2>2 DEF Allow, p
    <3>2. tries[p].count >= PerPeer
      BY <1>0, <2>2, AuthFields, AuthNumbers
    <3> QED
      BY <3>1, <3>2 DEF NobodyElseLocksOut
  <2>3. CASE ~ Known(p) /\ p \notin LocalPeer /\ ~ (Charged.count <= PerEndpoint)
    <3>1. refused' = [peer |-> p, count |-> tries[p].count, known |-> tries[p].known /\ clock <= tries[p].reset]
      BY <2>3 DEF Allow, p
    <3>2. ~ (tries[p].known /\ clock <= tries[p].reset)
      BY <2>3 DEF Known
    <3>3. ~ refused'.known /\ refused'.peer = p
      BY <3>1, <3>2
    <3> QED
      BY <2>3, <3>3 DEF NobodyElseLocksOut
  <2>4. UNCHANGED refused \/ (Known(p) /\ ~ (tries[p].count < PerPeer))
        \/ (~ Known(p) /\ p \notin LocalPeer /\ ~ (Charged.count <= PerEndpoint))
    BY DEF Allow, p
  <2> QED
    BY <2>1, <2>2, <2>3, <2>4
<1> QED
  BY <1>2, <1>4, <1>5 DEF LimitStep

(* reset, after the peer has shown it is the administrator. *)
LEMMA ForgivenLimits ==
    ASSUME AuthInv, NEW p \in Peer, tries' = Forgiven(p), UNCHANGED <<total, refused>> PROVE LimitStep
<1>1. tries \in [Peer -> Entries] /\ total \in Entries
  BY DEF AuthInv, AuthTyped
<1>2. [tries[p] EXCEPT !.count = 0] \in Entries
  BY <1>1 DEF Entries
<1>3. tries' \in [Peer -> Entries]
  BY <1>1, <1>2 DEF Forgiven
<1> QED
  BY <1>1, <1>3 DEF LimitStep, AuthInv, NobodyElseLocksOut

LEMMA LooksUp ==
    ASSUME AuthInv, NEW r \in AuthReq, LookupRead(r) \/ LookupTouch(r) \/ StreamRead(r) \/ StreamTouch(r)
    PROVE  AuthStep
<1> DEFINE c == areq[r].cookie
<1>0. UNCHANGED <<clock, password, token, verifier>> /\ LimiterStays
  BY DEF LookupRead, LookupTouch, StreamRead, StreamTouch
<1>1. wielded' = {}
  BY DEF LookupRead, LookupTouch, StreamRead, StreamTouch, RowGone, AuthInv
<1>2. RestStep
  <2>1. wielded = {}
    BY DEF AuthInv
  <2> QED
    BY <1>0, <1>1, <2>1, RestStays
<1>3. PICK w \in {"refused", "seen", "limit", "streaming", "act", "touch"} : areq' = Goes(r, w)
  BY DEF LookupRead, LookupTouch, StreamRead, StreamTouch
<1>4. ReqStep
  <2>1. w \in AuthSteps
    BY DEF AuthSteps
  <2> QED
    BY <1>0, <1>2, <1>3, <2>1, RequestGoes
<1>5. UNCHANGED sessionRow \/ sessionRow' = [sessionRow EXCEPT ![c].live = FALSE] \/ sessionRow' = Touched(c)
  BY DEF LookupRead, LookupTouch, StreamRead, StreamTouch
<1>6. RowStep
  BY <1>2, <1>5, RowsRest, RowEnds, RowTouched
<1> QED
  BY <1>0, <1>2, <1>4, <1>6, LimiterRests DEF AuthStep

(* Requests that come in, queue, verify, fail or leave: no row changes. *)
LEMMA Waits ==
    ASSUME AuthInv, NEW r \in AuthReq,
           \/ \E k \in ReqKind, p \in Peer, c \in Cookie \cup {NoCookie}, g \in 1..MaxPassword : Arrive(r, k, p, c, g)
           \/ ReadHash(r) \/ EnterVerify(r) \/ Verified(r) \/ ChangeFails(r) \/ Mutate(r)
    PROVE  AuthStep
<1>0. UNCHANGED <<clock, password, token, sessionRow, wielded>> /\ LimiterStays
  BY DEF Arrive, ReadHash, EnterVerify, Verified, ChangeFails, Mutate
<1>1. RestStep /\ RowStep
  BY <1>0, RestStays, RowsRest
<1>2. AuthTyped /\ areq[r] \in AuthReqs /\ verifier \subseteq AuthReq
  BY AuthFields DEF AuthInv, AuthTyped
<1>3. {"limit", "session", "refused", "queue", "verify", "gone", "rotate", "act", "done"} \subseteq AuthSteps
  BY DEF AuthSteps
<1>4. ASSUME NEW k \in ReqKind, NEW p \in Peer, NEW c \in Cookie \cup {NoCookie}, NEW g \in 1..MaxPassword,
             Arrive(r, k, p, c, g)
      PROVE  ReqStep
  <2> DEFINE x == [kind |-> k, at |-> IF k \in {"login", "bootstrap"} THEN "limit" ELSE "session",
                   peer |-> p, cookie |-> c, guess |-> g, hash |-> 0]
  <2>1. g \in Nat
    BY AuthNumbers
  <2>2. x \in AuthReqs /\ x.at \in {"limit", "session"}
    BY <1>3, <2>1 DEF AuthReqs
  <2>3. areq' = [areq EXCEPT ![r] = x] /\ UNCHANGED verifier
    BY <1>4 DEF Arrive
  <2> HIDE DEF x
  <2> QED
    BY <1>1, <2>2, <2>3, RequestMoves
<1>5. ASSUME ReadHash(r) PROVE ReqStep
  <2> DEFINE w == IF password = 0 THEN "refused" ELSE "queue"
             x == [areq[r] EXCEPT !.hash = password, !.at = w]
  <2>1. password \in Nat /\ (password # 0 => password \in 1..password)
    BY <1>2, AuthFields
  <2>2. x \in AuthReqs /\ x.at = w /\ x.hash = password
    BY <1>2, <1>3, <2>1 DEF AuthReqs
  <2>3. areq' = [areq EXCEPT ![r] = x] /\ UNCHANGED verifier
    BY <1>5 DEF ReadHash
  <2>4. x.at \in {"queue", "verify", "rotate"} => x.hash \in 1..password'
    BY <1>0, <2>1, <2>2
  <2>5. x.at \in {"refused", "queue"}
    BY <2>2
  <2> HIDE DEF x, w
  <2> QED
    BY <1>1, <2>2, <2>3, <2>4, <2>5, RequestMoves
<1>6. ASSUME EnterVerify(r) PROVE ReqStep
  <2>1. \/ verifier = {} /\ verifier' = {r} /\ areq' = Goes(r, "verify")
        \/ UNCHANGED verifier /\ areq' = Goes(r, "gone")
    BY <1>6 DEF EnterVerify, VerifierFree
  <2>2. areq[r].hash \in 1..password'
    BY <1>0, <1>6 DEF EnterVerify, AuthInv, HashBehind
  <2> QED
    BY <1>1, <1>3, <2>1, <2>2, RequestGoes
<1>7. ASSUME Verified(r) PROVE ReqStep
  <2>1. PICK w \in {"refused", "rotate", "act"} : areq' = Goes(r, w)
    BY <1>7 DEF Verified
  <2>2. areq[r].hash \in 1..password' /\ verifier' = verifier \ {r}
    BY <1>0, <1>7 DEF Verified, AuthInv, HashBehind
  <2> QED
    BY <1>1, <1>3, <2>1, <2>2, RequestGoes
<1>8. ASSUME ChangeFails(r) \/ Mutate(r) PROVE ReqStep
  <2>1. UNCHANGED verifier /\ \E w \in {"gone", "done", "refused"} : areq' = Goes(r, w)
    BY <1>8 DEF ChangeFails, Mutate
  <2> QED
    BY <1>1, <1>3, <2>1, RequestGoes
<1>9. ReqStep
  BY <1>4, <1>5, <1>6, <1>7, <1>8
<1> QED
  BY <1>0, <1>1, <1>9, LimiterRests DEF AuthStep

LEMMA AsksLimiter == ASSUME AuthInv, NEW r \in AuthReq, AskLimiter(r) PROVE AuthStep
<1> DEFINE w == IF areq[r].kind = "bootstrap" THEN "claim" ELSE "hash"
<1>1. UNCHANGED <<clock, password, token, sessionRow, verifier, wielded>> /\ Allow(r, areq[r].peer, areq' = Goes(r, w))
  BY DEF AskLimiter
<1>2. RestStep /\ RowStep
  BY <1>1, RestStays, RowsRest
<1>3. w \in AuthSteps /\ w \in {"claim", "hash"} /\ (w = "claim" => areq[r].kind = "bootstrap")
  BY DEF AuthSteps
<1> HIDE DEF w
<1>4. ReqStep /\ LimitStep
  BY <1>1, <1>2, <1>3, LimiterAnswers
<1> QED
  BY <1>2, <1>4 DEF AuthStep

LEMMA Claims == ASSUME AuthInv, NEW r \in AuthReq, ClaimBootstrap(r) PROVE AuthStep
<1>0. AuthTyped /\ areq[r].peer \in Peer /\ UNCHANGED <<clock, sessionRow, verifier, total, refused, wielded>>
  BY AuthFields DEF AuthInv, ClaimBootstrap
<1>1. areq[r].kind = "bootstrap"
  BY DEF ClaimBootstrap, AuthInv, HashBehind
<1>2. {"issue", "refused"} \subseteq AuthSteps
  BY DEF AuthSteps
<1>3. CASE password = 0 /\ token = "issued" /\ areq[r].guess = 1
  <2>1. password' = 1 /\ token' = "used" /\ areq' = Goes(r, "issue") /\ tries' = Forgiven(areq[r].peer)
    BY <1>3 DEF ClaimBootstrap
  <2>2. RestStep
    <3>1. clock' >= clock /\ password' >= password /\ password' \in 0..MaxPassword /\ password' > 0
      BY <1>0, <1>3, <2>1, AuthNumbers, AuthFields
    <3> QED
      BY <1>0, <2>1, <3>1 DEF RestStep, AuthInv, AuthTyped
  <2>3. ReqStep
    <3>1. password' > 0
      BY <2>1
    <3> QED
      BY <1>0, <1>1, <1>2, <2>1, <2>2, <3>1, RequestGoes
  <2> QED
    BY <1>0, <2>1, <2>2, <2>3, RowsRest, ForgivenLimits DEF AuthStep
<1>4. CASE ~ (password = 0 /\ token = "issued" /\ areq[r].guess = 1)
  <2>1. areq' = Goes(r, "refused") /\ UNCHANGED <<password, token, tries>>
    BY <1>4 DEF ClaimBootstrap
  <2>2. RestStep
    BY <1>0, <2>1, RestStays
  <2>3. ReqStep
    BY <1>0, <1>2, <2>1, <2>2, RequestGoes
  <2>4. LimiterStays
    BY <1>0, <2>1 DEF LimiterStays
  <2> QED
    BY <1>0, <2>2, <2>3, <2>4, RowsRest, LimiterRests DEF AuthStep
<1> QED
  BY <1>3, <1>4

LEMMA Rotates == ASSUME AuthInv, NEW r \in AuthReq, RotateSession(r) PROVE AuthStep
<1>0. AuthTyped /\ areq[r].peer \in Peer /\ UNCHANGED <<clock, password, token, verifier, total, refused, wielded>>
  BY AuthFields DEF AuthInv, RotateSession
<1>1. RestStep
  BY <1>0, RestStays
<1>2. "issue" \in AuthSteps /\ areq' = Goes(r, "issue") /\ tries' = Forgiven(areq[r].peer)
  BY DEF AuthSteps, RotateSession
<1>3. areq[r].hash \in 1..password' /\ password' > 0
  <2>1. areq[r].hash \in 1..password
    BY DEF RotateSession, AuthInv, HashBehind
  <2>2. password > 0
    BY <1>0, <2>1, AuthFields
  <2> QED
    BY <1>0, <2>1, <2>2
<1>4. ReqStep
  BY <1>0, <1>1, <1>2, <1>3, RequestGoes
<1>5. UNCHANGED sessionRow \/ sessionRow' = [sessionRow EXCEPT ![areq[r].cookie].live = FALSE]
  BY DEF RotateSession
<1> QED
  BY <1>0, <1>1, <1>2, <1>4, <1>5, RowsRest, RowEnds, ForgivenLimits DEF AuthStep

LEMMA Issues == ASSUME AuthInv, NEW r \in AuthReq, NEW c \in Cookie, IssueSession(r, c) PROVE AuthStep
<1> DEFINE b == IF areq[r].kind = "bootstrap" THEN 1 ELSE areq[r].hash
           x == [live |-> TRUE, issued |-> TRUE, expires |-> clock + AbsoluteLimit, seen |-> clock, reauth |-> 0, by |-> b]
<1>0. AuthTyped /\ sessionRow \in [Cookie -> SessionRows] /\ UNCHANGED <<clock, password, token, verifier, wielded>> /\ LimiterStays
  BY DEF AuthInv, AuthTyped, IssueSession
<1>1. RestStep
  BY <1>0, RestStays
<1>2. ReqStep
  <2>1. "done" \in AuthSteps /\ areq' = Goes(r, "done")
    BY DEF AuthSteps, IssueSession
  <2> QED
    BY <1>0, <1>1, <2>1, RequestGoes
<1>3. b \in 1..password
  <2>1. password > 0 /\ (areq[r].kind # "bootstrap" => areq[r].hash \in 1..password)
    BY DEF IssueSession, AuthInv, HashBehind
  <2>2. 1 \in 1..password
    BY <1>0, <2>1, AuthFields
  <2> QED
    BY <2>1, <2>2
<1> HIDE DEF b
<1>4. clock \in Nat /\ clock + AbsoluteLimit \in Nat /\ b \in Nat /\ clock <= clock
  BY <1>0, <1>3, AuthFields, AuthNumbers
<1>5. x \in SessionRows /\ x.issued = TRUE /\ x.seen = clock /\ x.by = b
  BY <1>4 DEF SessionRows
<1>6. sessionRow' = [sessionRow EXCEPT ![c] = x] /\ ~ sessionRow[c].issued
  BY DEF IssueSession, b
<1> HIDE DEF x
<1>7. /\ sessionRow' \in [Cookie -> SessionRows]
      /\ \A d \in Cookie : sessionRow'[d] = IF d = c THEN x ELSE sessionRow[d]
  BY <1>0, <1>5, <1>6
<1>8. RowStep
  <2> SUFFICES ASSUME NEW d \in Cookie
               PROVE  /\ sessionRow'[d].seen <= clock
                      /\ sessionRow[d].issued => (sessionRow'[d].live => sessionRow[d].live)
                                                 /\ sessionRow'[d].expires = sessionRow[d].expires
                      /\ sessionRow'[d].live => sessionRow'[d].issued /\ sessionRow'[d].by \in 1..password
    BY <1>0, <1>7 DEF RowStep
  <2>1. CASE d = c
    BY <1>3, <1>4, <1>5, <1>6, <1>7, <2>1
  <2>2. CASE d # c
    BY <1>7, <2>2 DEF AuthInv, SeenPast, RowsIssued
  <2> QED
    BY <2>1, <2>2
<1> QED
  BY <1>0, <1>1, <1>2, <1>8, LimiterRests DEF AuthStep

LEMMA Reauths == ASSUME AuthInv, NEW r \in AuthReq, Reauth(r) PROVE AuthStep
<1> DEFINE c == areq[r].cookie
<1>0. /\ AuthTyped /\ areq[r].peer \in Peer /\ UNCHANGED <<clock, password, token, verifier, total, refused, wielded>>
      /\ sessionRow \in [Cookie -> SessionRows] /\ clock \in Nat
  BY AuthFields DEF AuthInv, AuthTyped, Reauth
<1>1. RestStep
  BY <1>0, RestStays
<1>2. "done" \in AuthSteps /\ areq' = Goes(r, "done") /\ tries' = Forgiven(areq[r].peer)
  BY DEF AuthSteps, Reauth
<1>3. ReqStep
  BY <1>0, <1>1, <1>2, RequestGoes
<1>4. UNCHANGED sessionRow \/ sessionRow' = [sessionRow EXCEPT ![c].reauth = clock]
  BY DEF Reauth
<1>5. CASE sessionRow' = [sessionRow EXCEPT ![c].reauth = clock]
  <2>1. \A x \in SessionRows : LET y == [x EXCEPT !.reauth = clock] IN
          y \in SessionRows /\ y.live = x.live /\ y.seen = x.seen /\ y.expires = x.expires /\ y.issued = x.issued /\ y.by = x.by
    BY <1>0 DEF SessionRows
  <2>2. \A d \in Cookie : sessionRow'[d] = IF d = c THEN [sessionRow[d] EXCEPT !.reauth = clock] ELSE sessionRow[d]
    BY <1>0, <1>5
  <2>3. sessionRow' \in [Cookie -> SessionRows]
    BY <1>0, <1>5, <2>1, <2>2
  <2>4. \A d \in Cookie :
          /\ sessionRow'[d].seen \in {sessionRow[d].seen, clock}
          /\ sessionRow'[d].live => sessionRow[d].live
          /\ sessionRow'[d].expires = sessionRow[d].expires
          /\ sessionRow'[d].issued = sessionRow[d].issued /\ sessionRow'[d].by = sessionRow[d].by
    BY <1>0, <2>1, <2>2
  <2>5. RowStep
    BY <1>1, <2>3, <2>4, RowsPatched
  <2> QED
    BY <1>0, <1>1, <1>2, <1>3, <2>5, ForgivenLimits DEF AuthStep
<1>6. CASE UNCHANGED sessionRow
  BY <1>0, <1>1, <1>2, <1>3, <1>6, RowsRest, ForgivenLimits DEF AuthStep
<1> QED
  BY <1>4, <1>5, <1>6

LEMMA SetsPassword == ASSUME AuthInv, NEW r \in AuthReq, SetPassword(r) PROVE AuthStep
<1>0. AuthTyped /\ areq[r].peer \in Peer /\ UNCHANGED <<clock, token, sessionRow, verifier, total, refused, wielded>>
  BY AuthFields DEF AuthInv, SetPassword
<1>1. RestStep
  <2>1. password' = password + 1 /\ password < MaxPassword
    BY DEF SetPassword
  <2>2. password' \in 0..MaxPassword /\ password' >= password /\ password' > 0 /\ clock' >= clock
    BY <1>0, <2>1, AuthFields, AuthNumbers
  <2> QED
    BY <1>0, <2>2 DEF RestStep, AuthInv, AuthTyped
<1>2. "revoke" \in AuthSteps /\ areq' = Goes(r, "revoke") /\ tries' = Forgiven(areq[r].peer)
  BY DEF AuthSteps, SetPassword
<1>3. ReqStep
  BY <1>0, <1>1, <1>2, RequestGoes
<1> QED
  BY <1>0, <1>1, <1>2, <1>3, RowsRest, ForgivenLimits DEF AuthStep

(* Rows that end: the other sessions, one's own, or those past their time. *)
LEMMA ManyEnd ==
    ASSUME AuthInv, RestStep, NEW E \in SUBSET Cookie,
           sessionRow' = [c \in Cookie |-> IF c \in E THEN [sessionRow[c] EXCEPT !.live = FALSE] ELSE sessionRow[c]]
    PROVE  RowStep
<1>1. \A x \in SessionRows : LET y == [x EXCEPT !.live = FALSE] IN
        y \in SessionRows /\ y.live = FALSE /\ y.seen = x.seen /\ y.expires = x.expires /\ y.issued = x.issued /\ y.by = x.by
  BY DEF SessionRows
<1>2. \A c \in Cookie : sessionRow[c] \in SessionRows
  BY DEF AuthInv, AuthTyped
<1>3. sessionRow' \in [Cookie -> SessionRows]
  BY <1>1, <1>2
<1>4. \A d \in Cookie :
        /\ sessionRow'[d].seen \in {sessionRow[d].seen, clock}
        /\ sessionRow'[d].live => sessionRow[d].live
        /\ sessionRow'[d].expires = sessionRow[d].expires
        /\ sessionRow'[d].issued = sessionRow[d].issued /\ sessionRow'[d].by = sessionRow[d].by
  BY <1>1, <1>2
<1> QED
  BY <1>3, <1>4, RowsPatched

LEMMA SignsOut == ASSUME AuthInv, NEW r \in AuthReq, DeleteOthers(r) \/ Logout(r) PROVE AuthStep
<1>0. UNCHANGED <<clock, password, token, verifier, wielded>> /\ LimiterStays
  BY DEF DeleteOthers, Logout
<1>1. RestStep
  BY <1>0, RestStays
<1>2. "done" \in AuthSteps /\ areq' = Goes(r, "done")
  BY DEF AuthSteps, DeleteOthers, Logout
<1>3. ReqStep
  BY <1>0, <1>1, <1>2, RequestGoes
<1>4. CASE DeleteOthers(r)
  <2> DEFINE E == Cookie \ {areq[r].cookie}
  <2>1. sessionRow' = [c \in Cookie |-> IF c \in E THEN [sessionRow[c] EXCEPT !.live = FALSE] ELSE sessionRow[c]]
    BY <1>4 DEF DeleteOthers
  <2> HIDE DEF E
  <2>2. E \in SUBSET Cookie
    BY DEF E
  <2> QED
    BY <1>0, <1>1, <1>3, <2>1, <2>2, ManyEnd, LimiterRests DEF AuthStep
<1>5. CASE Logout(r)
  <2>1. sessionRow' = [sessionRow EXCEPT ![areq[r].cookie].live = FALSE]
    BY <1>5 DEF Logout
  <2> QED
    BY <1>0, <1>1, <1>3, <2>1, RowEnds, LimiterRests DEF AuthStep
<1> QED
  BY <1>4, <1>5

LEMMA Restarts == ASSUME AuthInv, RestartWeb PROVE AuthStep
<1> DEFINE E == {c \in Cookie : sessionRow[c].expires < clock}
           Kept == {"new", "done", "refused", "gone"}
<1>0. AuthTyped /\ areq \in [AuthReq -> AuthReqs] /\ UNCHANGED <<clock, password, wielded>>
  BY DEF AuthInv, AuthTyped, RestartWeb
<1>1. RestStep
  <2>1. clock' >= clock /\ password' >= password
    BY <1>0, AuthFields
  <2>2. token' \in {"none", "issued", "used"} /\ (token' = "used" => password > 0)
    BY <1>0 DEF RestartWeb, AuthInv, AuthTyped
  <2> QED
    BY <1>0, <2>1, <2>2 DEF RestStep, AuthInv, AuthTyped
<1>2. RowStep
  <2>1. sessionRow' = [c \in Cookie |-> IF c \in E THEN [sessionRow[c] EXCEPT !.live = FALSE] ELSE sessionRow[c]]
    BY DEF RestartWeb
  <2>2. E \in SUBSET Cookie
    OBVIOUS
  <2> HIDE DEF E
  <2> QED
    BY <1>1, <2>1, <2>2, ManyEnd
<1>3. ReqStep
  <2>1. areq' = [r \in AuthReq |-> IF areq[r].at \in Kept THEN areq[r] ELSE [areq[r] EXCEPT !.at = "gone"]] /\ verifier' = {}
    BY DEF RestartWeb
  <2>2. \A x \in AuthReqs : [x EXCEPT !.at = "gone"] \in AuthReqs /\ [x EXCEPT !.at = "gone"].at = "gone"
    BY DEF AuthReqs, AuthSteps
  <2>3. areq' \in [AuthReq -> AuthReqs] /\ \A r \in AuthReq : areq'[r].at \in Kept
    BY <1>0, <2>1, <2>2
  <2> QED
    BY <2>1, <2>3 DEF ReqStep, VerifyAlone, HashBehind
<1>4. LimitStep
  <2>1. NoEntry \in Entries
    BY DEF Entries, NoEntry
  <2> QED
    BY <2>1 DEF RestartWeb, LimitStep, NobodyElseLocksOut
<1> QED
  BY <1>1, <1>2, <1>3, <1>4 DEF AuthStep

LEMMA Ticks == ASSUME AuthInv, AuthTick \/ UNCHANGED authVars PROVE AuthStep
<1>0. UNCHANGED <<password, token, sessionRow, areq, verifier, wielded>> /\ LimiterStays
  BY DEF AuthTick, authVars, LimiterStays
<1>1. RestStep
  <2>1. clock' = clock \/ (clock <= MaxClock /\ clock' = clock + 1)
    BY DEF AuthTick, authVars
  <2>2. clock' \in 1..(MaxClock + 1) /\ clock' >= clock /\ password' >= password
    <3>1. clock \in 1..(MaxClock + 1) /\ password \in Nat /\ MaxClock \in Nat
      BY AuthFields, AuthNumbers DEF AuthInv, AuthTyped
    <3> QED
      BY <1>0, <2>1, <3>1
  <2> QED
    BY <1>0, <2>2 DEF RestStep, AuthInv, AuthTyped
<1> QED
  BY <1>0, <1>1, RowsRest, RequestsRest, LimiterRests DEF AuthStep

LEMMA AuthMoves == ASSUME AuthInv, [AuthNext]_authVars PROVE AuthStep
<1>1. CASE \E r \in AuthReq : LookupRead(r) \/ LookupTouch(r) \/ StreamRead(r) \/ StreamTouch(r)
  BY <1>1, LooksUp
<1>2. CASE \E r \in AuthReq :
             \/ \E k \in ReqKind, p \in Peer, c \in Cookie \cup {NoCookie}, g \in 1..MaxPassword : Arrive(r, k, p, c, g)
             \/ ReadHash(r) \/ EnterVerify(r) \/ Verified(r) \/ ChangeFails(r) \/ Mutate(r)
  BY <1>2, Waits
<1>3. CASE \E r \in AuthReq : AskLimiter(r) \/ ClaimBootstrap(r) \/ RotateSession(r) \/ Reauth(r) \/ SetPassword(r)
  BY <1>3, AsksLimiter, Claims, Rotates, Reauths, SetsPassword
<1>4. CASE \E r \in AuthReq : DeleteOthers(r) \/ Logout(r) \/ \E c \in Cookie : IssueSession(r, c)
  BY <1>4, SignsOut, Issues
<1>5. CASE RestartWeb \/ AuthTick \/ UNCHANGED authVars
  BY <1>5, Restarts, Ticks
<1> QED
  BY <1>1, <1>2, <1>3, <1>4, <1>5 DEF AuthNext

LEMMA AuthInvMeans == AuthInv => AuthTypeOK /\ AuthSafe /\ NobodyElseLocksOut
<1> SUFFICES ASSUME AuthInv PROVE AuthTypeOK /\ AuthSafe /\ NobodyElseLocksOut
  OBVIOUS
<1>0. AuthTyped
  BY DEF AuthInv
<1>1. AuthTypeOK
  <2>1. \A c \in Cookie : sessionRow[c].seen \in 0..clock
    BY <1>0, AuthFields DEF AuthInv, SeenPast
  <2>2. wielded \subseteq AuthReq /\ verifier \subseteq AuthReq
    BY DEF AuthInv, AuthTyped
  <2> QED
    BY <1>0, <2>1, <2>2, AuthFields DEF AuthTypeOK, AuthTyped
<1>2. Cardinality({r \in AuthReq : areq[r].at = "verify"}) <= 1
  <2> DEFINE V == {r \in AuthReq : areq[r].at = "verify"}
  <2>1. CASE V = {}
    <3>1. Cardinality(V) = 0
      BY ONLY <2>1, FS_EmptySet
    <3> QED
      BY <3>1
  <2>2. CASE V # {}
    <3>1. PICK r : r \in V
      BY <2>2
    <3>2. V = {r}
      BY <3>1 DEF AuthInv, VerifyAlone
    <3>3. Cardinality(V) = 1
      BY ONLY <3>2, FS_Singleton
    <3> QED
      BY <3>3
  <2> QED
    BY <2>1, <2>2
<1> QED
  BY <1>1, <1>2 DEF AuthInv, AuthSafe, RowsIssued

(* checkPassword, lookup, touch, deleteOthers and the attempt limiter: for   *)
(* any number of requests, cookies and peers, interleaved at every statement *)
(* of the database and across restarts, one password is hashed at a time, no *)
(* revoked session comes back or lives longer, and no peer is locked out by  *)
(* another one's attempts.                                                   *)
THEOREM SessionsStayRevoked == AuthSpec => AuthHolds
<1>1. AuthInv /\ [AuthNext]_authVars => AuthInv'
  BY AuthMoves, StepMeans
<1>2. AuthSpec => []AuthInv
  BY AuthInvInit, <1>1, PTL DEF AuthSpec
<1>3. AuthInv /\ [AuthNext]_authVars =>
        [\A c \in Cookie : sessionRow[c].issued =>
            (sessionRow'[c].live => sessionRow[c].live) /\ sessionRow'[c].expires = sessionRow[c].expires]_sessionRow
  BY AuthMoves DEF AuthStep, RowStep
<1>4. AuthSpec => RevokedStaysRevoked
  BY <1>2, <1>3, PTL DEF AuthSpec, RevokedStaysRevoked
<1> QED
  BY <1>2, <1>4, AuthInvMeans, PTL DEF AuthHolds

-----------------------------------------------------------------------------
(***************************************************************************)
(* The plugin's browser.                                                   *)
(***************************************************************************)

SessRows == [at : OpenStep, close : {"no", "marked", "done"}, engine : BOOLEAN]
PageRows == [at : PartStep, of : BSession \cup {NoParent}, engine : BOOLEAN]
FeedRows == [at : PartStep, of : BSession \cup {NoParent}]

(* Calls of Open that hold a placeholder, or held one until the plugin was   *)
(* disabled.                                                                 *)
Holding == {s \in BSession : sess[s].at \in {"reserved", "engine"}}

(* There are no more placeholders than such calls, and the list is not full. *)
SlotsHeld ==
    /\ reserved \in Nat /\ reserved <= Cardinality(Holding)
    /\ Cardinality(listed) + reserved <= MaxSessions

(* Where a context of the engine can be found. *)
SessShape ==
    \A s \in BSession :
        /\ sess[s].engine => sess[s].at \in {"engine", "open"}
        /\ s \in listed \cup doomed => sess[s].at = "open"
        /\ sess[s].close # "no" => sess[s].at = "open"
        /\ sess[s].engine => s \in listed \cup doomed \/ sess[s].at = "engine" \/ sess[s].close = "marked"

SessInv ==
    /\ browserOn \in BOOLEAN /\ listed \subseteq BSession /\ doomed \subseteq BSession
    /\ sess \in [BSession -> SessRows] /\ SlotsHeld /\ SessShape

PageInv ==
    /\ page \in [BPage -> PageRows]
    /\ \A p \in BPage :
        /\ page[p].at # "new" => page[p].of \in BSession
        /\ page[p].at = "listed" => sess[page[p].of].close # "done"
        /\ page[p].engine => page[p].at \in {"engine", "listed"}

FeedInv ==
    /\ feed \in [Feed -> FeedRows] /\ panicked \in BOOLEAN
    /\ reader \in [Feed -> {"none", "reading", "got", "ended"}]
    /\ finish \in [Feed -> {"no", "flagged", "closed"}]
    /\ queued \in [Feed -> 0..FrameBuffer] /\ pumped \in [Feed -> BOOLEAN]
    /\ \A f \in Feed :
        /\ feed[f].at # "new" => feed[f].of \in BSession
        /\ feed[f].at = "listed" /\ sess[feed[f].of].close = "done" => finish[f] = "closed"

BrowserInv == SessInv /\ PageInv /\ FeedInv

LEMMA BrowserNumbers ==
    /\ MaxSessions \in Nat /\ MaxSessions >= 1 /\ FrameBuffer \in Nat /\ FrameBuffer >= 1
    /\ NoParent \notin BSession /\ IsFiniteSet(BSession)
  BY BrowserConstants

LEMMA SessionsCounted ==
    ASSUME NEW S \in SUBSET BSession
    PROVE  IsFiniteSet(S) /\ Cardinality(S) \in Nat /\ Cardinality(S) <= Cardinality(BSession)
<1>1. IsFiniteSet(S) /\ Cardinality(S) <= Cardinality(BSession)
  BY BrowserNumbers, FS_Subset
<1> QED
  BY <1>1, FS_CardinalityType

LEMMA BrowserInvInit == BrowserInit => BrowserInv
<1> SUFFICES ASSUME BrowserInit PROVE BrowserInv
  OBVIOUS
<1> DEFINE s0 == [at |-> "new", close |-> "no", engine |-> FALSE]
           p0 == [at |-> "new", of |-> NoParent, engine |-> FALSE]
           f0 == [at |-> "new", of |-> NoParent]
<1>1. /\ browserOn = TRUE /\ panicked = FALSE /\ reserved = 0 /\ listed = {} /\ doomed = {}
      /\ sess = [s \in BSession |-> s0] /\ page = [p \in BPage |-> p0] /\ feed = [f \in Feed |-> f0]
      /\ reader = [f \in Feed |-> "none"] /\ finish = [f \in Feed |-> "no"]
      /\ queued = [f \in Feed |-> 0] /\ pumped = [f \in Feed |-> FALSE]
  BY DEF BrowserInit
<1>2. s0 \in SessRows /\ s0.at = "new" /\ s0.close = "no" /\ s0.engine = FALSE
  BY DEF SessRows, OpenStep
<1>3. p0 \in PageRows /\ p0.at = "new" /\ p0.engine = FALSE
  BY DEF PageRows, PartStep
<1>4. f0 \in FeedRows /\ f0.at = "new"
  BY DEF FeedRows, PartStep
<1> HIDE DEF s0, p0, f0
<1>5. SlotsHeld
  <2>1. Cardinality(Holding) \in Nat
    BY SessionsCounted DEF Holding
  <2>2. Cardinality(listed) = 0
    BY <1>1, FS_EmptySet
  <2> QED
    BY <1>1, <2>1, <2>2, BrowserNumbers DEF SlotsHeld
<1>6. SessInv
  BY <1>1, <1>2, <1>5 DEF SessInv, SessShape
<1>7. PageInv
  BY <1>1, <1>3 DEF PageInv
<1>8. FeedInv
  <2>1. 0 \in 0..FrameBuffer
    BY BrowserNumbers
  <2> QED
    BY <1>1, <1>4, <2>1 DEF FeedInv
<1> QED
  BY <1>6, <1>7, <1>8 DEF BrowserInv

(* A close that returns has closed the parts on the session's lists. *)
LEMMA PartsKeep ==
    ASSUME BrowserInv, UNCHANGED <<page, feed, reader, finish, queued, pumped, panicked>>,
           \A s \in BSession : sess'[s].close = "done" =>
               sess[s].close = "done" \/ (PagesOf(s) = {} /\ \A f \in FeedsOf(s) : finish[f] = "closed")
    PROVE  PageInv' /\ FeedInv'
<1>1. PageInv'
  <2>1. \A p \in BPage : page[p].at = "listed" => page[p].of \in BSession /\ p \in PagesOf(page[p].of)
    BY DEF BrowserInv, PageInv, PagesOf
  <2> QED
    BY <2>1 DEF BrowserInv, PageInv
<1>2. FeedInv'
  <2>1. \A f \in Feed : feed[f].at = "listed" => feed[f].of \in BSession /\ f \in FeedsOf(feed[f].of)
    BY DEF BrowserInv, FeedInv, FeedsOf
  <2> QED
    BY <2>1 DEF BrowserInv, FeedInv
<1> QED
  BY <1>1, <1>2

(* One session changes. *)
LEMMA SessionChanges ==
    ASSUME BrowserInv, NEW s \in BSession, NEW x \in SessRows, sess' = [sess EXCEPT ![s] = x],
           UNCHANGED <<browserOn, page, feed, reader, finish, queued, pumped, panicked>>,
           listed' \subseteq BSession, doomed' \subseteq BSession,
           \A t \in BSession \ {s} : t \in listed' \cup doomed' <=> t \in listed \cup doomed,
           x.engine => x.at \in {"engine", "open"},
           s \in listed' \cup doomed' => x.at = "open",
           x.close # "no" => x.at = "open",
           x.engine => s \in listed' \cup doomed' \/ x.at = "engine" \/ x.close = "marked",
           x.close = "done" =>
               sess[s].close = "done" \/ (PagesOf(s) = {} /\ \A f \in FeedsOf(s) : finish[f] = "closed"),
           SlotsHeld'
    PROVE  BrowserInv'
<1>1. /\ sess' \in [BSession -> SessRows]
      /\ \A t \in BSession : sess'[t] = IF t = s THEN x ELSE sess[t]
  BY DEF BrowserInv, SessInv
<1>2. SessShape'
  BY <1>1 DEF BrowserInv, SessInv, SessShape
<1>3. SessInv'
  BY <1>1, <1>2 DEF BrowserInv, SessInv
<1>4. PageInv' /\ FeedInv'
  BY <1>1, PartsKeep
<1> QED
  BY <1>3, <1>4 DEF BrowserInv

LEMMA HoldingChanges ==
    ASSUME BrowserInv, NEW s \in BSession, NEW x \in SessRows, sess' = [sess EXCEPT ![s] = x]
    PROVE  /\ (x.at \in {"reserved", "engine"} <=> sess[s].at \in {"reserved", "engine"}) => Holding' = Holding
           /\ x.at \in {"reserved", "engine"} /\ sess[s].at \notin {"reserved", "engine"} =>
                 Cardinality(Holding') = Cardinality(Holding) + 1
           /\ x.at \notin {"reserved", "engine"} /\ sess[s].at \in {"reserved", "engine"} =>
                 Cardinality(Holding') = Cardinality(Holding) - 1
           /\ Cardinality(Holding) \in Nat /\ Cardinality(listed) \in Nat
<1>1. \A t \in BSession : sess'[t] = IF t = s THEN x ELSE sess[t]
  BY DEF BrowserInv, SessInv
<1>2. IsFiniteSet(Holding) /\ Cardinality(Holding) \in Nat /\ Cardinality(listed) \in Nat
  BY SessionsCounted DEF Holding, BrowserInv, SessInv
<1>3. (x.at \in {"reserved", "engine"} <=> sess[s].at \in {"reserved", "engine"}) => Holding' = Holding
  BY <1>1 DEF Holding
<1>4. ASSUME x.at \in {"reserved", "engine"}, sess[s].at \notin {"reserved", "engine"}
      PROVE  Cardinality(Holding') = Cardinality(Holding) + 1
  <2>1. Holding' = Holding \cup {s} /\ s \notin Holding
    BY <1>1, <1>4 DEF Holding
  <2>2. Cardinality(Holding \cup {s}) = Cardinality(Holding) + 1
    BY <1>2, <2>1, FS_AddElement
  <2> QED
    BY ONLY <2>1, <2>2
<1>5. ASSUME x.at \notin {"reserved", "engine"}, sess[s].at \in {"reserved", "engine"}
      PROVE  Cardinality(Holding') = Cardinality(Holding) - 1
  <2>1. Holding' = Holding \ {s} /\ s \in Holding
    BY <1>1, <1>5 DEF Holding
  <2>2. Cardinality(Holding \ {s}) = Cardinality(Holding) - 1
    BY <1>2, <2>1, FS_RemoveElement
  <2> QED
    BY ONLY <2>1, <2>2
<1> QED
  BY <1>2, <1>3, <1>4, <1>5

LEMMA SlotFacts ==
    ASSUME BrowserInv
    PROVE  reserved \in Nat /\ reserved <= Cardinality(Holding) /\ Cardinality(listed) + reserved <= MaxSessions
  BY DEF BrowserInv, SessInv, SlotsHeld

LEMMA OpensSession == ASSUME BrowserInv, NEW s \in BSession, OpenSession(s) PROVE BrowserInv'
<1> DEFINE x == [sess[s] EXCEPT !.at = IF browserOn THEN "admitted" ELSE "refused"]
<1>0. sess[s] \in SessRows /\ sess[s].at = "new"
  BY DEF BrowserInv, SessInv, OpenSession
<1>1. x \in SessRows /\ x.at \in {"admitted", "refused"} /\ x.close = sess[s].close /\ x.engine = sess[s].engine
  BY <1>0 DEF SessRows, OpenStep
<1>2. sess' = [sess EXCEPT ![s] = x] /\ UNCHANGED <<browserOn, reserved, listed, doomed, page, feed, reader, finish, queued, pumped, panicked>>
  BY DEF OpenSession, ListStays, PagesStay, FeedsStay
<1> HIDE DEF x
<1>3. SlotsHeld'
  <2>1. Holding' = Holding
    BY <1>0, <1>1, <1>2, HoldingChanges
  <2> QED
    BY <1>2, <2>1 DEF BrowserInv, SessInv, SlotsHeld
<1>4. sess[s].engine = FALSE /\ sess[s].close = "no" /\ s \notin listed \cup doomed
  BY <1>0 DEF BrowserInv, SessInv, SessShape, SessRows
<1> QED
  BY <1>1, <1>2, <1>3, <1>4, SessionChanges DEF BrowserInv, SessInv

LEMMA Reserves == ASSUME BrowserInv, NEW s \in BSession, ReserveSlot(s) PROVE BrowserInv'
<1>0. sess[s] \in SessRows /\ sess[s].at = "admitted"
  BY DEF BrowserInv, SessInv, ReserveSlot
<1>1. UNCHANGED <<browserOn, listed, doomed, page, feed, reader, finish, queued, pumped, panicked>>
  BY DEF ReserveSlot, PagesStay, FeedsStay
<1>2. sess[s].engine = FALSE /\ sess[s].close = "no" /\ s \notin listed \cup doomed
  BY <1>0 DEF BrowserInv, SessInv, SessShape, SessRows
<1>3. CASE SlotFree /\ reserved' = reserved + 1 /\ sess' = [sess EXCEPT ![s].at = "reserved"]
  <2> DEFINE x == [sess[s] EXCEPT !.at = "reserved"]
  <2>1. x \in SessRows /\ x.at = "reserved" /\ x.close = sess[s].close /\ x.engine = sess[s].engine
    BY <1>0 DEF SessRows, OpenStep
  <2>2. sess' = [sess EXCEPT ![s] = x]
    BY <1>3
  <2> HIDE DEF x
  <2>3. Cardinality(Holding') = Cardinality(Holding) + 1 /\ Cardinality(Holding) \in Nat /\ Cardinality(listed) \in Nat
    BY <1>0, <2>1, <2>2, HoldingChanges
  <2>4. SlotsHeld'
    <3>1. Cardinality(listed) + reserved < MaxSessions /\ reserved' = reserved + 1 /\ listed' = listed
      BY <1>1, <1>3 DEF SlotFree
    <3> QED
      BY <2>3, <3>1, SlotFacts, BrowserNumbers DEF SlotsHeld
  <2> QED
    BY <1>1, <1>2, <2>1, <2>2, <2>4, SessionChanges DEF BrowserInv, SessInv
<1>4. CASE UNCHANGED reserved /\ sess' = [sess EXCEPT ![s].at = "refused"]
  <2> DEFINE x == [sess[s] EXCEPT !.at = "refused"]
  <2>1. x \in SessRows /\ x.at = "refused" /\ x.close = sess[s].close /\ x.engine = sess[s].engine
    BY <1>0 DEF SessRows, OpenStep
  <2>2. sess' = [sess EXCEPT ![s] = x]
    BY <1>4
  <2> HIDE DEF x
  <2>3. Holding' = Holding
    BY <1>0, <2>1, <2>2, HoldingChanges
  <2>4. SlotsHeld'
    BY <1>1, <1>4, <2>3 DEF BrowserInv, SessInv, SlotsHeld
  <2> QED
    BY <1>1, <1>2, <2>1, <2>2, <2>4, SessionChanges DEF BrowserInv, SessInv
<1> QED
  BY <1>3, <1>4 DEF ReserveSlot

LEMMA MakesContext == ASSUME BrowserInv, NEW s \in BSession, NewEngineSession(s) PROVE BrowserInv'
<1>0. sess[s] \in SessRows /\ sess[s].at = "reserved"
  BY DEF BrowserInv, SessInv, NewEngineSession
<1>1. UNCHANGED <<browserOn, listed, doomed, page, feed, reader, finish, queued, pumped, panicked>>
  BY DEF NewEngineSession, PagesStay, FeedsStay
<1>2. sess[s].engine = FALSE /\ sess[s].close = "no" /\ s \notin listed \cup doomed
  BY <1>0 DEF BrowserInv, SessInv, SessShape, SessRows
<1>3. CASE sess' = [sess EXCEPT ![s].at = "engine", ![s].engine = TRUE] /\ UNCHANGED reserved
  <2> DEFINE x == [sess[s] EXCEPT !.at = "engine", !.engine = TRUE]
  <2>1. x \in SessRows /\ x.at = "engine" /\ x.close = sess[s].close /\ x.engine = TRUE
    BY <1>0 DEF SessRows, OpenStep
  <2>2. sess' = [sess EXCEPT ![s] = x]
    BY <1>3 DEF BrowserInv, SessInv
  <2> HIDE DEF x
  <2>3. Holding' = Holding
    BY <1>0, <2>1, <2>2, HoldingChanges
  <2>4. SlotsHeld'
    BY <1>1, <1>3, <2>3 DEF BrowserInv, SessInv, SlotsHeld
  <2> QED
    BY <1>1, <1>2, <2>1, <2>2, <2>4, SessionChanges DEF BrowserInv, SessInv
<1>4. CASE /\ sess' = [sess EXCEPT ![s].at = "refused"]
           /\ reserved' = IF reserved > 0 THEN reserved - 1 ELSE 0
  <2> DEFINE x == [sess[s] EXCEPT !.at = "refused"]
  <2>1. x \in SessRows /\ x.at = "refused" /\ x.close = sess[s].close /\ x.engine = sess[s].engine
    BY <1>0 DEF SessRows, OpenStep
  <2>2. sess' = [sess EXCEPT ![s] = x]
    BY <1>4
  <2> HIDE DEF x
  <2>3. Cardinality(Holding') = Cardinality(Holding) - 1 /\ Cardinality(Holding) \in Nat /\ Cardinality(listed) \in Nat
    BY <1>0, <2>1, <2>2, HoldingChanges
  <2>4. SlotsHeld'
    <3>1. Cardinality(Holding') \in Nat
      BY SessionsCounted DEF Holding
    <3>2. reserved' = (IF reserved > 0 THEN reserved - 1 ELSE 0) /\ listed' = listed
      BY <1>1, <1>4
    <3> QED
      BY <2>3, <3>1, <3>2, SlotFacts, BrowserNumbers DEF SlotsHeld
  <2> QED
    BY <1>1, <1>2, <2>1, <2>2, <2>4, SessionChanges DEF BrowserInv, SessInv
<1> QED
  BY <1>3, <1>4 DEF NewEngineSession

LEMMA Commits == ASSUME BrowserInv, NEW s \in BSession, CommitSession(s) PROVE BrowserInv'
<1>0. sess[s] \in SessRows /\ sess[s].at = "engine"
  BY DEF BrowserInv, SessInv, CommitSession
<1>1. UNCHANGED <<browserOn, doomed, page, feed, reader, finish, queued, pumped, panicked>>
  BY DEF CommitSession, PagesStay, FeedsStay
<1>2. sess[s].close = "no" /\ s \notin listed \cup doomed /\ listed \subseteq BSession
  BY <1>0 DEF BrowserInv, SessInv, SessShape, SessRows
<1>3. CASE reserved > 0
  <2> DEFINE x == [sess[s] EXCEPT !.at = "open"]
  <2>0. reserved' = reserved - 1 /\ listed' = listed \cup {s} /\ sess' = [sess EXCEPT ![s].at = "open"]
    BY <1>3 DEF CommitSession
  <2>1. x \in SessRows /\ x.at = "open" /\ x.close = sess[s].close /\ x.engine = sess[s].engine
    BY <1>0 DEF SessRows, OpenStep
  <2>2. sess' = [sess EXCEPT ![s] = x]
    BY <2>0
  <2> HIDE DEF x
  <2>3. Cardinality(Holding') = Cardinality(Holding) - 1 /\ Cardinality(Holding) \in Nat /\ Cardinality(listed) \in Nat
    BY <1>0, <2>1, <2>2, HoldingChanges
  <2>4. Cardinality(listed') = Cardinality(listed) + 1
    <3>1. IsFiniteSet(listed)
      BY <1>2, SessionsCounted
    <3>2. Cardinality(listed \cup {s}) = Cardinality(listed) + 1
      BY <1>2, <3>1, FS_AddElement
    <3> QED
      BY ONLY <2>0, <3>2
  <2>5. SlotsHeld'
    BY <1>3, <2>0, <2>3, <2>4, SlotFacts, BrowserNumbers DEF SlotsHeld
  <2> QED
    BY <1>1, <1>2, <2>0, <2>1, <2>2, <2>5, SessionChanges DEF BrowserInv, SessInv
<1>4. CASE ~ (reserved > 0)
  <2> DEFINE x == [sess[s] EXCEPT !.at = "refused", !.engine = FALSE]
  <2>0. UNCHANGED <<reserved, listed>> /\ sess' = [sess EXCEPT ![s].at = "refused", ![s].engine = FALSE]
    BY <1>4 DEF CommitSession
  <2>1. x \in SessRows /\ x.at = "refused" /\ x.close = sess[s].close /\ x.engine = FALSE
    BY <1>0 DEF SessRows, OpenStep
  <2>2. sess' = [sess EXCEPT ![s] = x]
    BY <2>0 DEF BrowserInv, SessInv
  <2> HIDE DEF x
  <2>3. Cardinality(Holding') \in Nat
    BY SessionsCounted DEF Holding
  <2>4. SlotsHeld'
    BY <1>4, <2>0, <2>3, SlotFacts, BrowserNumbers DEF SlotsHeld
  <2>5. /\ listed' \subseteq BSession /\ doomed' \subseteq BSession /\ s \notin listed' \cup doomed'
        /\ \A t \in BSession \ {s} : t \in listed' \cup doomed' <=> t \in listed \cup doomed
    BY <1>1, <1>2, <2>0 DEF BrowserInv, SessInv
  <2> QED
    BY <1>1, <1>2, <2>1, <2>2, <2>4, <2>5, SessionChanges
<1> QED
  BY <1>3, <1>4

LEMMA MarksClosed == ASSUME BrowserInv, NEW s \in BSession, MarkClosed(s) PROVE BrowserInv'
<1> DEFINE x == [sess[s] EXCEPT !.close = "marked"]
<1>0. sess[s] \in SessRows /\ sess[s].at = "open" /\ doomed' = doomed \ {s}
  BY DEF BrowserInv, SessInv, MarkClosed
<1>1. x \in SessRows /\ x.at = "open" /\ x.close = "marked" /\ x.engine = sess[s].engine
  BY <1>0 DEF SessRows
<1>2. sess' = [sess EXCEPT ![s] = x] /\ UNCHANGED <<browserOn, reserved, listed, page, feed, reader, finish, queued, pumped, panicked>>
  BY DEF MarkClosed, PagesStay, FeedsStay
<1> HIDE DEF x
<1>3. SlotsHeld'
  <2>1. Holding' = Holding
    BY <1>0, <1>1, <1>2, HoldingChanges
  <2> QED
    BY <1>2, <2>1 DEF BrowserInv, SessInv, SlotsHeld
<1> QED
  BY <1>0, <1>1, <1>2, <1>3, SessionChanges DEF BrowserInv, SessInv

LEMMA ClosesEngine == ASSUME BrowserInv, NEW s \in BSession, CloseEngine(s) PROVE BrowserInv'
<1> DEFINE x == [sess[s] EXCEPT !.close = "done", !.engine = FALSE]
<1>0. sess[s] \in SessRows /\ sess[s].at = "open" /\ listed' = listed \ {s}
  BY DEF BrowserInv, SessInv, SessShape, CloseEngine
<1>1. x \in SessRows /\ x.at = "open" /\ x.close = "done" /\ x.engine = FALSE
  BY <1>0 DEF SessRows
<1>2. sess' = [sess EXCEPT ![s] = x] /\ UNCHANGED <<browserOn, reserved, doomed, page, feed, reader, finish, queued, pumped, panicked>>
  BY DEF CloseEngine, PagesStay, FeedsStay, BrowserInv, SessInv
<1>3. PagesOf(s) = {} /\ \A f \in FeedsOf(s) : finish[f] = "closed"
  BY DEF CloseEngine
<1> HIDE DEF x
<1>4. SlotsHeld'
  <2>1. Holding' = Holding
    BY <1>0, <1>1, <1>2, HoldingChanges
  <2>2. listed \subseteq BSession
    BY DEF BrowserInv, SessInv
  <2>3. IsFiniteSet(listed) /\ listed' \in SUBSET listed
    BY <1>0, <2>2, SessionsCounted
  <2>4. Cardinality(listed') <= Cardinality(listed) /\ Cardinality(listed') \in Nat /\ Cardinality(listed) \in Nat
    BY <2>2, <2>3, FS_Subset, SessionsCounted
  <2>5. reserved' = reserved /\ Cardinality(Holding') = Cardinality(Holding)
    BY <1>2, <2>1
  <2> QED
    BY <2>4, <2>5, SlotFacts, BrowserNumbers DEF SlotsHeld
<1> QED
  BY <1>0, <1>1, <1>2, <1>3, <1>4, SessionChanges DEF BrowserInv, SessInv

LEMMA Switches == ASSUME BrowserInv, SwitchPlugin PROVE BrowserInv'
<1>0. UNCHANGED <<sess, page, feed, reader, finish, queued, pumped, panicked>>
  BY DEF SwitchPlugin, PagesStay, FeedsStay
<1>1. Holding' = Holding
  BY <1>0 DEF Holding
<1>2. SlotsHeld'
  <2>1. CASE browserOn
    <3>1. listed' = {} /\ reserved' = 0
      BY <2>1 DEF SwitchPlugin
    <3>2. Cardinality(listed') = 0
      BY <3>1, FS_EmptySet
    <3>3. Cardinality(Holding') \in Nat
      BY SessionsCounted DEF Holding
    <3> QED
      BY <3>1, <3>2, <3>3, BrowserNumbers DEF SlotsHeld
  <2>2. CASE ~ browserOn
    BY <1>1, <2>2 DEF SwitchPlugin, BrowserInv, SessInv, SlotsHeld
  <2> QED
    BY <2>1, <2>2
<1>3. listed' \cup doomed' = listed \cup doomed /\ browserOn' \in BOOLEAN
  BY DEF SwitchPlugin
<1>4. SessShape'
  BY <1>0, <1>3 DEF BrowserInv, SessInv, SessShape
<1>5. SessInv'
  BY <1>0, <1>2, <1>3, <1>4 DEF BrowserInv, SessInv
<1>6. PageInv' /\ FeedInv'
  BY <1>0, PartsKeep
<1> QED
  BY <1>5, <1>6 DEF BrowserInv

(* One page changes, and nothing else. *)
LEMMA PageChanges ==
    ASSUME BrowserInv, NEW p \in BPage, NEW x \in PageRows, page' = [page EXCEPT ![p] = x],
           ListStays, UNCHANGED sess, FeedsStay,
           x.at # "new" => x.of \in BSession,
           x.at = "listed" => sess[x.of].close # "done",
           x.engine => x.at \in {"engine", "listed"}
    PROVE  BrowserInv'
<1>1. /\ page' \in [BPage -> PageRows]
      /\ \A q \in BPage : page'[q] = IF q = p THEN x ELSE page[q]
  BY DEF BrowserInv, PageInv
<1>2. PageInv'
  BY <1>1 DEF BrowserInv, PageInv
<1>3. SessInv'
  BY DEF BrowserInv, SessInv, SlotsHeld, SessShape, Holding, ListStays
<1>4. FeedInv'
  BY DEF BrowserInv, FeedInv, FeedsStay
<1> QED
  BY <1>2, <1>3, <1>4 DEF BrowserInv

LEMMA PagesMove ==
    ASSUME BrowserInv, NEW p \in BPage,
           PageSteps(p) \/ ClosePage(p) \/ \E s \in BSession : NewPage(p, s)
    PROVE  BrowserInv'
<1>0. page[p] \in PageRows /\ page \in [BPage -> PageRows]
  BY DEF BrowserInv, PageInv
<1>1. ListStays /\ UNCHANGED sess /\ FeedsStay
  BY DEF PageSteps, ClosePage, NewPage, CountPages, NewEnginePage, ListPage
<1>2. /\ page[p].at # "new" => page[p].of \in BSession
      /\ page[p].engine => page[p].at \in {"engine", "listed"}
  BY DEF BrowserInv, PageInv
<1>3. ASSUME NEW s \in BSession, NewPage(p, s) PROVE BrowserInv'
  <2> DEFINE x == [page[p] EXCEPT !.at = "admitted", !.of = s]
  <2>1. x \in PageRows /\ x.at = "admitted" /\ x.of = s /\ x.engine = page[p].engine
    BY <1>0 DEF PageRows, PartStep
  <2>2. page' = [page EXCEPT ![p] = x] /\ page[p].at = "new"
    BY <1>0, <1>3 DEF NewPage
  <2> HIDE DEF x
  <2> QED
    BY <1>1, <1>2, <2>1, <2>2, PageChanges
<1>4. CASE CountPages(p)
  <2> DEFINE w == IF Cardinality(PagesOf(page[p].of)) < MaxPages THEN "counted" ELSE "refused"
             x == [page[p] EXCEPT !.at = w]
  <2>1. x \in PageRows /\ x.at \in {"counted", "refused"} /\ x.of = page[p].of /\ x.engine = page[p].engine
    BY <1>0 DEF PageRows, PartStep
  <2>2. page' = [page EXCEPT ![p] = x] /\ page[p].at = "admitted"
    BY <1>4 DEF CountPages
  <2> HIDE DEF x
  <2> QED
    BY <1>1, <1>2, <2>1, <2>2, PageChanges
<1>5. CASE NewEnginePage(p)
  <2>1. \A w \in {"engine", "refused"} : [page[p] EXCEPT !.at = w] \in PageRows
    BY <1>0 DEF PageRows, PartStep
  <2> DEFINE x == [page[p] EXCEPT !.at = "engine", !.engine = TRUE]
             y == [page[p] EXCEPT !.at = "refused"]
  <2>2. x \in PageRows /\ x.at = "engine" /\ x.of = page[p].of /\ x.engine = TRUE
    BY <1>0 DEF PageRows, PartStep
  <2>3. y \in PageRows /\ y.at = "refused" /\ y.of = page[p].of /\ y.engine = page[p].engine
    BY <1>0 DEF PageRows, PartStep
  <2>4. (page' = [page EXCEPT ![p] = x] \/ page' = [page EXCEPT ![p] = y]) /\ page[p].at = "counted"
    BY <1>0, <1>5 DEF NewEnginePage
  <2> HIDE DEF x, y
  <2> QED
    BY <1>1, <1>2, <2>2, <2>3, <2>4, PageChanges
<1>6. CASE ListPage(p)
  <2> DEFINE x == [page[p] EXCEPT !.at = "listed"]
             y == [page[p] EXCEPT !.at = "closed", !.engine = FALSE]
  <2>2. x \in PageRows /\ x.at = "listed" /\ x.of = page[p].of /\ x.engine = page[p].engine
    BY <1>0 DEF PageRows, PartStep
  <2>3. y \in PageRows /\ y.at = "closed" /\ y.of = page[p].of /\ y.engine = FALSE
    BY <1>0 DEF PageRows, PartStep
  <2>4. /\ page[p].at = "engine"
        /\ (sess[page[p].of].close = "no" /\ page' = [page EXCEPT ![p] = x]) \/ page' = [page EXCEPT ![p] = y]
    BY <1>0, <1>6 DEF ListPage, StillOpen
  <2> HIDE DEF x, y
  <2> QED
    BY <1>1, <1>2, <2>2, <2>3, <2>4, PageChanges
<1>7. CASE ClosePage(p)
  <2> DEFINE y == [page[p] EXCEPT !.at = "closed", !.engine = FALSE]
  <2>1. y \in PageRows /\ y.at = "closed" /\ y.of = page[p].of /\ y.engine = FALSE
    BY <1>0 DEF PageRows, PartStep
  <2>2. page[p].at = "listed" /\ page' = [page EXCEPT ![p] = y]
    BY <1>0, <1>7 DEF ClosePage
  <2> HIDE DEF y
  <2> QED
    BY <1>1, <1>2, <2>1, <2>2, PageChanges
<1> HIDE DEF BrowserInv
<1> QED
  BY <1>3, <1>4, <1>5, <1>6, <1>7 DEF PageSteps

(* A feed's row changes, with its reader. *)
LEMMA FeedChanges ==
    ASSUME BrowserInv, NEW f \in Feed, NEW x \in FeedRows, feed' = [feed EXCEPT ![f] = x],
           ListStays, UNCHANGED <<sess, finish, queued, pumped, panicked>>, PagesStay,
           reader' \in [Feed -> {"none", "reading", "got", "ended"}],
           x.at # "new" => x.of \in BSession,
           x.at = "listed" => sess[x.of].close # "done"
    PROVE  BrowserInv'
<1>1. /\ feed' \in [Feed -> FeedRows]
      /\ \A g \in Feed : feed'[g] = IF g = f THEN x ELSE feed[g]
  BY DEF BrowserInv, FeedInv
<1>2. FeedInv'
  BY <1>1 DEF BrowserInv, FeedInv
<1>3. SessInv'
  BY DEF BrowserInv, SessInv, SlotsHeld, SessShape, Holding, ListStays
<1>4. PageInv'
  BY DEF BrowserInv, PageInv, PagesStay
<1> QED
  BY <1>2, <1>3, <1>4 DEF BrowserInv

LEMMA FeedsOpen ==
    ASSUME BrowserInv, NEW f \in Feed, Dial(f) \/ ListFeed(f) \/ \E s \in BSession : Subscribe(f, s)
    PROVE  BrowserInv'
<1>0. /\ feed[f] \in FeedRows /\ feed \in [Feed -> FeedRows]
      /\ reader \in [Feed -> {"none", "reading", "got", "ended"}]
  BY DEF BrowserInv, FeedInv
<1>1. ListStays /\ UNCHANGED <<sess, finish, queued, pumped, panicked>> /\ PagesStay
  BY DEF Dial, ListFeed, Subscribe
<1>2. feed[f].at # "new" => feed[f].of \in BSession
  BY DEF BrowserInv, FeedInv
<1>3. reader' \in [Feed -> {"none", "reading", "got", "ended"}]
  BY <1>0 DEF Dial, ListFeed, Subscribe
<1>4. ASSUME NEW s \in BSession, Subscribe(f, s) PROVE BrowserInv'
  <2> DEFINE x == [feed[f] EXCEPT !.at = "admitted", !.of = s]
  <2>1. x \in FeedRows /\ x.at = "admitted" /\ x.of = s
    BY <1>0 DEF FeedRows, PartStep
  <2>2. feed' = [feed EXCEPT ![f] = x]
    BY <1>0, <1>4 DEF Subscribe
  <2> HIDE DEF x
  <2> QED
    BY <1>1, <1>3, <2>1, <2>2, FeedChanges
<1>5. CASE Dial(f)
  <2>1. PICK ok \in BOOLEAN : feed' = [feed EXCEPT ![f].at = IF ok THEN "engine" ELSE "refused"]
    BY <1>5 DEF Dial
  <2> DEFINE w == IF ok THEN "engine" ELSE "refused"
             x == [feed[f] EXCEPT !.at = w]
  <2>2. x \in FeedRows /\ x.at \in {"engine", "refused"} /\ x.of = feed[f].of
    BY <1>0 DEF FeedRows, PartStep
  <2>3. feed' = [feed EXCEPT ![f] = x] /\ feed[f].at = "admitted"
    BY <1>5, <2>1 DEF Dial
  <2> HIDE DEF x
  <2> QED
    BY <1>1, <1>2, <1>3, <2>2, <2>3, FeedChanges
<1>6. CASE ListFeed(f)
  <2> DEFINE x == [feed[f] EXCEPT !.at = "listed"]
             y == [feed[f] EXCEPT !.at = "closed"]
  <2>1. x \in FeedRows /\ x.at = "listed" /\ x.of = feed[f].of
    BY <1>0 DEF FeedRows, PartStep
  <2>2. y \in FeedRows /\ y.at = "closed" /\ y.of = feed[f].of
    BY <1>0 DEF FeedRows, PartStep
  <2>3. /\ feed[f].at = "engine"
        /\ (sess[feed[f].of].close = "no" /\ feed' = [feed EXCEPT ![f] = x]) \/ feed' = [feed EXCEPT ![f] = y]
    BY <1>6 DEF ListFeed, StillOpen
  <2> HIDE DEF x, y
  <2> QED
    BY <1>1, <1>2, <1>3, <2>1, <2>2, <2>3, FeedChanges
<1> HIDE DEF BrowserInv
<1> QED
  BY <1>4, <1>5, <1>6

LEMMA FeedsRun ==
    ASSUME BrowserInv, NEW f \in Feed,
           FinishClose(f) \/ SendFrame(f) \/ Pump(f) \/ FinishFlag(f) \/ ReadFrame(f) \/ ReadFails(f)
    PROVE  BrowserInv'
<1>0. /\ reader \in [Feed -> {"none", "reading", "got", "ended"}]
      /\ finish \in [Feed -> {"no", "flagged", "closed"}]
      /\ queued \in [Feed -> 0..FrameBuffer] /\ pumped \in [Feed -> BOOLEAN] /\ panicked \in BOOLEAN
  BY DEF BrowserInv, FeedInv
<1>1. ListStays /\ UNCHANGED <<sess, feed>> /\ PagesStay
  BY DEF FinishClose, SendFrame, Pump, FinishFlag, ReadFrame, ReadFails
<1>2. SessInv' /\ PageInv'
  BY <1>1 DEF BrowserInv, SessInv, SlotsHeld, SessShape, Holding, ListStays, PageInv, PagesStay
<1>3. reader' \in [Feed -> {"none", "reading", "got", "ended"}]
  BY <1>0 DEF FinishClose, SendFrame, Pump, FinishFlag, ReadFrame, ReadFails
<1>4. /\ finish' \in [Feed -> {"no", "flagged", "closed"}]
      /\ \A g \in Feed : finish[g] = "closed" => finish'[g] = "closed"
  BY <1>0 DEF FinishClose, SendFrame, Pump, FinishFlag, ReadFrame, ReadFails
<1>5. pumped' \in [Feed -> BOOLEAN] /\ panicked' \in BOOLEAN
  BY <1>0 DEF FinishClose, SendFrame, Pump, FinishFlag, ReadFrame, ReadFails
<1>6. queued' \in [Feed -> 0..FrameBuffer]
  <2>1. \/ UNCHANGED queued
        \/ queued[f] > 0 /\ queued' = [queued EXCEPT ![f] = @ - 1]
        \/ queued[f] < FrameBuffer /\ queued' = [queued EXCEPT ![f] = @ + 1]
    <3>1. CASE SendFrame(f)
      <4> DEFINE q == IF queued[f] < FrameBuffer /\ finish[f] # "closed" THEN queued[f] + 1 ELSE queued[f]
      <4>1. queued' = [queued EXCEPT ![f] = q]
        BY <3>1 DEF SendFrame
      <4>2. CASE queued[f] < FrameBuffer /\ finish[f] # "closed"
        BY <4>1, <4>2
      <4>3. CASE ~ (queued[f] < FrameBuffer /\ finish[f] # "closed")
        BY <1>0, <4>1, <4>3
      <4> QED
        BY <4>2, <4>3
    <3>2. CASE Pump(f)
      BY <3>2 DEF Pump
    <3> QED
      BY <3>1, <3>2 DEF FinishClose, FinishFlag, ReadFrame, ReadFails
  <2>2. queued[f] \in 0..FrameBuffer
    BY <1>0
  <2>3. /\ queued[f] > 0 => queued[f] - 1 \in 0..FrameBuffer
        /\ queued[f] < FrameBuffer => queued[f] + 1 \in 0..FrameBuffer
    BY <2>2, BrowserNumbers
  <2> QED
    BY <1>0, <2>1, <2>3
<1>7. FeedInv'
  BY <1>1, <1>3, <1>4, <1>5, <1>6 DEF BrowserInv, FeedInv
<1> QED
  BY <1>2, <1>7 DEF BrowserInv

LEMMA BrowserInvStep == BrowserInv /\ [BrowserNext]_browserVars => BrowserInv'
<1> SUFFICES ASSUME BrowserInv, [BrowserNext]_browserVars PROVE BrowserInv'
  OBVIOUS
<1>1. CASE UNCHANGED browserVars
  BY <1>1 DEF browserVars, BrowserInv, SessInv, SlotsHeld, SessShape, Holding, PageInv, FeedInv
<1>2. CASE SwitchPlugin
  BY <1>2, Switches
<1>3. CASE \E s \in BSession : OpenSession(s) \/ OpenSteps(s) \/ MarkClosed(s) \/ CloseEngine(s)
  BY <1>3, OpensSession, Reserves, MakesContext, Commits, MarksClosed, ClosesEngine DEF OpenSteps
<1>4. CASE \E p \in BPage : PageSteps(p) \/ ClosePage(p) \/ \E s \in BSession : NewPage(p, s)
  BY <1>4, PagesMove
<1>5. CASE \E f \in Feed : FeedSteps(f) \/ FinishFlag(f) \/ ReadFrame(f) \/ ReadFails(f)
                           \/ \E s \in BSession : Subscribe(f, s)
  BY <1>5, FeedsOpen, FeedsRun DEF FeedSteps
<1>6. ASSUME NEW s \in BSession, CloseSteps(s) PROVE BrowserInv'
  <2>1. \A p \in PagesOf(s) : p \in BPage
    BY DEF PagesOf
  <2>2. \A f \in FeedsOf(s) : f \in Feed
    BY DEF FeedsOf
  <2> QED
    BY <1>6, <2>1, <2>2, MarksClosed, ClosesEngine, PagesMove, FeedsRun DEF CloseSteps
<1> HIDE DEF BrowserInv
<1> QED
  BY <1>1, <1>2, <1>3, <1>4, <1>5, <1>6 DEF BrowserNext

LEMMA BrowserInvMeans == BrowserInv => NothingLeaks
<1> SUFFICES ASSUME BrowserInv PROVE NothingLeaks
  OBVIOUS
<1>1. reserved \in 0..Cardinality(BSession)
  <2>1. Cardinality(Holding) \in Nat /\ Cardinality(Holding) <= Cardinality(BSession)
    BY SessionsCounted DEF Holding
  <2>2. Cardinality(BSession) \in Nat
    BY SessionsCounted
  <2> QED
    BY <2>1, <2>2, SlotFacts
<1>2. BrowserTypeOK
  <2>1. \A p \in BPage : page[p].at \in PartStep /\ page[p].engine \in BOOLEAN
    BY DEF BrowserInv, PageInv, PageRows
  <2>2. \A f \in Feed : feed[f].at \in PartStep
    BY DEF BrowserInv, FeedInv, FeedRows
  <2> QED
    BY <1>1, <2>1, <2>2 DEF BrowserTypeOK, BrowserInv, SessInv, SessRows, FeedInv
<1> QED
  BY <1>2, SlotFacts DEF BrowserInv, SessInv, SessShape, PageInv, FeedInv, NothingLeaks

(* reserveSlot, commitSession, NewPage, Subscribe and closeLocked: for any   *)
(* number of calls of Open, NewPage and Subscribe under way while sessions   *)
(* close and the plugin is switched, no context, page or socket is forgotten *)
(* and the plugin never holds more sessions than it may.                     *)
THEOREM BrowserForgetsNothing == BrowserSpec => []NothingLeaks
<1>1. BrowserSpec => []BrowserInv
  BY BrowserInvInit, BrowserInvStep, PTL DEF BrowserSpec
<1> QED
  BY <1>1, BrowserInvMeans, PTL

-----------------------------------------------------------------------------
(***************************************************************************)
(* The schedule.                                                           *)
(***************************************************************************)

FiredJob == [slot : Nat, at : Nat, since : Int]

CronTyped ==
    /\ now \in Nat /\ since \in Int /\ row \in Nat \cup {NoCronRow} /\ straddled \in BOOLEAN
    /\ pass \in [pc : {"rest", "consider"}, at : Nat]
    /\ fired \in Seq(FiredJob)

(* The minute in which the jobs were mounted is considered already. *)
MountedAt == since <= now /\ (since = now => row = ScheduleSlot(now))

(* So is the minute of the last job, and a schedule that fired has a row. *)
FiredAt ==
    \A i \in DOMAIN fired :
        /\ row # NoCronRow
        /\ fired[i].at <= now
        /\ fired[i].at = now => row = ScheduleSlot(now)

(* A pass under way is later than both, or finds its slot in the row. *)
PassAt ==
    pass.pc = "consider" =>
        /\ pass.at <= now /\ since <= pass.at
        /\ since = pass.at => row = ScheduleSlot(pass.at)
        /\ \A i \in DOMAIN fired :
              /\ fired[i].at <= pass.at
              /\ fired[i].at = pass.at => row = ScheduleSlot(pass.at)

CronInv == CronTyped /\ (straddled = FALSE => MountedAt /\ FiredAt /\ PassAt) /\ CronSafe

LEMMA SlotIsMinute == \A t \in Nat : ScheduleSlot(t) \in Nat
  BY CronAssumption DEF ScheduleSlot

(* A job is appended to the history. *)
LEMMA FiredMore ==
  ASSUME NEW s \in Seq(FiredJob), NEW f \in FiredJob
  PROVE  /\ Append(s, f) \in Seq(FiredJob)
         /\ \A i \in DOMAIN Append(s, f) :
              \/ i \in DOMAIN s /\ Append(s, f)[i] = s[i]
              \/ i = Len(s) + 1 /\ Append(s, f)[i] = f
  <1>1. /\ Append(s, f) \in Seq(FiredJob) /\ Len(Append(s, f)) = Len(s) + 1
        /\ \A i \in 1..Len(s) : Append(s, f)[i] = s[i]
        /\ Append(s, f)[Len(s) + 1] = f
    BY AppendProperties
  <1>2. DOMAIN s = 1..Len(s) /\ Len(s) \in Nat
    BY LenProperties
  <1>3. DOMAIN Append(s, f) = 1..Len(Append(s, f))
    BY <1>1, LenProperties
  <1>4. \A i \in 1..(Len(s) + 1) : i \in 1..Len(s) \/ i = Len(s) + 1
    BY <1>2
  <1> SUFFICES ASSUME NEW i \in DOMAIN Append(s, f)
               PROVE  \/ i \in DOMAIN s /\ Append(s, f)[i] = s[i]
                      \/ i = Len(s) + 1 /\ Append(s, f)[i] = f
    BY <1>1
  <1>5. i \in 1..Len(s) \/ i = Len(s) + 1
    BY <1>1, <1>3, <1>4, Zenon
  <1> QED
    BY <1>1, <1>2, <1>5, Zenon

LEMMA FiredAre == \A s \in Seq(FiredJob) : \A i \in DOMAIN s : s[i].at \in Nat /\ s[i].since \in Int
  <1>1. \A s \in Seq(FiredJob) : \A i \in DOMAIN s : s[i] \in FiredJob
    BY ElementOfSeq, LenProperties
  <1> QED
    BY <1>1 DEF FiredJob

LEMMA CronStart == CronInit => CronInv
  <1> SUFFICES ASSUME CronInit PROVE CronInv
    OBVIOUS
  <1>1. DOMAIN fired = {}
    BY DEF CronInit
  <1>2. CronTyped
    <2>1. <<>> \in Seq(FiredJob)
      BY EmptySeq
    <2>2. fired \in Seq(FiredJob)
      BY <2>1, Zenon DEF CronInit
    <2>3. -1 \in Int /\ -1 \in Nat \cup {NoCronRow}
      BY DEF NoCronRow
    <2>4. CronAtRest \in [pc : {"rest", "consider"}, at : Nat]
      BY DEF CronAtRest
    <2> QED
      BY <2>2, <2>3, <2>4, Zenon DEF CronInit, CronTyped, NoCronRow
  <1> QED
    BY <1>1, <1>2 DEF CronInit, CronInv, MountedAt, FiredAt, PassAt, CronSafe, OncePerMinute,
       NothingCaughtUp, CronAtRest

(* Each step keeps it. *)
LEMMA CronKeeps == CronInv /\ [CronNext]_cronVars => CronInv'
  <1> SUFFICES ASSUME CronInv, [CronNext]_cronVars PROVE CronInv'
    OBVIOUS
  <1>t. CronTyped
    BY DEF CronInv
  <1>s. CronSafe
    BY DEF CronInv
  <1>i. straddled = FALSE => MountedAt /\ FiredAt /\ PassAt
    BY DEF CronInv
  <1> USE <1>t
  <1>0. ASSUME UNCHANGED <<since, row, fired, straddled, now>>,
               pass' = pass \/ pass' = CronAtRest
        PROVE  CronInv'
    <2>1. CronTyped'
      BY <1>0 DEF CronTyped, CronAtRest
    <2>2. CronSafe'
      BY <1>0, <1>s DEF CronSafe, OncePerMinute, NothingCaughtUp
    <2>3. MountedAt' <=> MountedAt
      BY <1>0 DEF MountedAt, ScheduleSlot
    <2>4. FiredAt' <=> FiredAt
      BY <1>0 DEF FiredAt, ScheduleSlot
    <2>5. PassAt => PassAt'
      BY <1>0 DEF PassAt, ScheduleSlot, CronAtRest
    <2> QED
      BY <2>1, <2>2, <2>3, <2>4, <2>5, <1>i, <1>0 DEF CronInv
  <1>1. CASE ClockRuns
    <2>0. now' = now + 1 /\ UNCHANGED <<since, row, pass, fired, straddled>>
      BY <1>1 DEF ClockRuns
    <2>1. CronTyped'
      BY <2>0 DEF CronTyped
    <2>2. CronSafe'
      BY <2>0, <1>s DEF CronSafe, OncePerMinute, NothingCaughtUp
    <2>3. MountedAt => MountedAt'
      BY <2>0 DEF MountedAt, CronTyped
    <2>4. \A i \in DOMAIN fired : fired[i].at \in Nat
      BY FiredAre DEF CronTyped
    <2>5. FiredAt => FiredAt'
      BY <2>0, <2>4 DEF FiredAt, CronTyped
    <2>6. PassAt => PassAt'
      BY <2>0, <2>4 DEF PassAt, CronTyped, ScheduleSlot
    <2> QED
      BY <2>0, <2>1, <2>2, <2>3, <2>5, <2>6, <1>i DEF CronInv
  <1>2. CASE CatchUpSchedules
    <2>0. /\ row' = IF row = NoCronRow THEN NoCronRow ELSE ScheduleSlot(now)
          /\ since' = IF row = NoCronRow THEN now - 1 ELSE now
          /\ straddled' = (straddled \/ pass.pc = "consider")
          /\ UNCHANGED <<now, pass, fired>>
      BY <1>2 DEF CatchUpSchedules, CaughtUp
    <2>1. CronTyped'
      BY <2>0, SlotIsMinute DEF CronTyped
    <2>2. straddled' = FALSE => straddled = FALSE /\ pass.pc # "consider"
      BY <2>0 DEF CronTyped
    <2>3. CronSafe'
      BY <2>0, <2>2, <1>s DEF CronSafe, OncePerMinute, NothingCaughtUp, CronTyped
    <2>4. MountedAt'
      BY <2>0 DEF MountedAt, CronTyped, ScheduleSlot
    <2>5. ScheduleSlot(now) \in Nat /\ ScheduleSlot(now)' = ScheduleSlot(now)
      BY <2>0, SlotIsMinute DEF CronTyped, ScheduleSlot
    <2>6. FiredAt => FiredAt'
      BY <2>0, <2>5 DEF FiredAt, NoCronRow
    <2>7. straddled' = FALSE => PassAt'
      BY <2>0, <2>2 DEF PassAt
    <2> QED
      BY <2>1, <2>2, <2>3, <2>4, <2>6, <2>7, <1>i DEF CronInv
  <1>3. CASE TickCron
    <2>0. pass' = [pc |-> "consider", at |-> now] /\ UNCHANGED <<now, since, row, fired, straddled>>
      BY <1>3 DEF TickCron
    <2>1. CronTyped'
      BY <2>0 DEF CronTyped
    <2>2. CronSafe'
      BY <2>0, <1>s DEF CronSafe, OncePerMinute, NothingCaughtUp
    <2>3. pass'.pc = "consider" /\ pass'.at = now
      BY <2>0
    <2>4. MountedAt /\ FiredAt => MountedAt' /\ FiredAt' /\ PassAt'
      BY <2>0, <2>3 DEF MountedAt, FiredAt, PassAt, CronTyped, ScheduleSlot
    <2> QED
      BY <2>0, <2>1, <2>2, <2>4, <1>i DEF CronInv
  <1>4. CASE ConsiderSlot
    <2> DEFINE slot == ScheduleSlot(pass.at)
               runs == Due(slot) /\ enabled /\ slot \notin cronOpen
               job == [slot |-> slot, at |-> pass.at, since |-> since]
    <2>0. /\ pass.pc = "consider" /\ pass' = CronAtRest
          /\ row' = IF Due(slot) THEN slot ELSE row
          /\ fired' = IF runs THEN Append(fired, job) ELSE fired
          /\ UNCHANGED <<now, since, straddled>>
      BY <1>4 DEF ConsiderSlot
    <2>1. slot \in Nat /\ pass.at \in Nat
      BY SlotIsMinute DEF CronTyped
    <2>2. job \in FiredJob /\ job.at = pass.at /\ job.since = since
      BY <2>1 DEF FiredJob, CronTyped
    <2>3. Due(slot) => row # slot
      BY DEF Due
    <2> HIDE DEF slot, job
    <2>4. fired \in Seq(FiredJob)
      BY DEF CronTyped
    <2>5. /\ fired' \in Seq(FiredJob)
          /\ \A i \in DOMAIN fired' :
                \/ i \in DOMAIN fired /\ fired'[i] = fired[i]
                \/ i = Len(fired) + 1 /\ fired'[i] = job /\ row # slot /\ row' = slot
      <3>1. CASE runs
        <4>1. fired' = Append(fired, job) /\ row # slot /\ row' = slot
          BY <3>1, <2>0, <2>3
        <4> HIDE DEF runs
        <4> QED
          BY <4>1, <2>2, <2>4, FiredMore
      <3>2. CASE ~ runs
        <4>1. fired' = fired
          BY <3>2, <2>0
        <4> HIDE DEF runs
        <4> QED
          BY <4>1, <2>4, Zenon
      <3> QED
        BY <3>1, <3>2
    <2>6. row' \in Nat \cup {NoCronRow} /\ (row' = slot \/ row' = row)
      BY <2>0, <2>1 DEF CronTyped
    <2> HIDE DEF runs
    <2>7. CronTyped'
      BY <2>0, <2>5, <2>6 DEF CronTyped, CronAtRest
    <2>8. ASSUME straddled = FALSE
          PROVE  (MountedAt /\ FiredAt /\ PassAt)' /\ CronSafe'
      <3>1. /\ pass.at <= now /\ since <= pass.at /\ since <= now
            /\ since = pass.at => row = slot
            /\ \A i \in DOMAIN fired :
                  /\ fired[i].at <= pass.at
                  /\ fired[i].at = pass.at => row = slot
            /\ \A i \in DOMAIN fired : row # NoCronRow
        BY <2>8, <1>i, <2>0 DEF PassAt, MountedAt, FiredAt, slot
      <3>2. pass.at = now => slot = ScheduleSlot(now)
        BY DEF slot
      <3>3. ScheduleSlot(now)' = ScheduleSlot(now)
        BY <2>0 DEF ScheduleSlot
      <3>4. MountedAt'
        <4>1. ASSUME since = now PROVE row' = ScheduleSlot(now)
          <5>1. pass.at = now /\ row = slot
            BY <4>1, <3>1, <2>1 DEF CronTyped
          <5> QED
            BY <5>1, <3>2, <2>6
        <4> QED
          BY <4>1, <3>1, <3>3, <2>0 DEF MountedAt
      <3>5. \A i \in DOMAIN fired : fired[i].at \in Nat /\ fired[i].since \in Int
        BY <2>4, FiredAre
      <3>6. FiredAt'
        <4> SUFFICES ASSUME NEW i \in DOMAIN fired'
                     PROVE  /\ row' # NoCronRow /\ fired'[i].at <= now
                            /\ fired'[i].at = now => row' = ScheduleSlot(now)
          BY <2>0, <3>3 DEF FiredAt
        <4>1. CASE i \in DOMAIN fired /\ fired'[i] = fired[i]
          <5>1. fired[i].at <= now
            BY <4>1, <3>1, <3>5, <2>1 DEF CronTyped
          <5>2. row' # NoCronRow
            BY <4>1, <3>1, <2>6, <2>1 DEF NoCronRow
          <5>3. ASSUME fired[i].at = now PROVE row' = ScheduleSlot(now)
            <6>1. pass.at = now
              BY <5>3, <4>1, <3>1, <3>5, <2>1 DEF CronTyped
            <6>2. row = slot
              BY <6>1, <5>3, <4>1, <3>1
            <6> QED
              BY <6>1, <6>2, <3>2, <2>6
          <5> QED
            BY <5>1, <5>2, <5>3, <4>1
        <4>2. CASE fired'[i] = job /\ row' = slot
          BY <4>2, <2>1, <2>2, <3>1, <3>2 DEF NoCronRow
        <4> QED
          BY <4>1, <4>2, <2>5
      <3>7. PassAt'
        BY <2>0 DEF PassAt, CronAtRest
      <3>8. OncePerMinute'
        <4> SUFFICES ASSUME NEW i \in DOMAIN fired', NEW j \in DOMAIN fired', fired'[i].at = fired'[j].at
                     PROVE  i = j
          BY DEF OncePerMinute
        <4>1. \A k \in DOMAIN fired : row # slot => fired[k].at # pass.at
          BY <3>1
        <4>2. CASE i \in DOMAIN fired /\ fired'[i] = fired[i] /\ j \in DOMAIN fired /\ fired'[j] = fired[j]
          BY <4>2, <1>s, <2>8 DEF CronSafe, OncePerMinute
        <4>3. CASE i \in DOMAIN fired /\ fired'[i] = fired[i] /\ fired'[j] = job /\ row # slot
          BY <4>3, <4>1, <2>2
        <4>4. CASE j \in DOMAIN fired /\ fired'[j] = fired[j] /\ fired'[i] = job /\ row # slot
          BY <4>4, <4>1, <2>2
        <4>5. CASE i = Len(fired) + 1 /\ j = Len(fired) + 1
          BY <4>5
        <4> QED
          BY <4>2, <4>3, <4>4, <4>5, <2>5
      <3>9. NothingCaughtUp'
        <4> SUFFICES ASSUME NEW i \in DOMAIN fired' PROVE fired'[i].at > fired'[i].since
          BY DEF NothingCaughtUp
        <4>1. CASE i \in DOMAIN fired /\ fired'[i] = fired[i]
          BY <4>1, <1>s, <2>8 DEF CronSafe, NothingCaughtUp
        <4>2. CASE fired'[i] = job /\ row # slot
          BY <4>2, <3>1, <2>1, <2>2 DEF CronTyped
        <4> QED
          BY <4>1, <4>2, <2>5
      <3> QED
        BY <3>4, <3>6, <3>7, <3>8, <3>9 DEF CronSafe
    <2>9. ASSUME straddled # FALSE PROVE CronSafe'
      BY <2>9, <2>0 DEF CronSafe, OncePerMinute, NothingCaughtUp, CronTyped
    <2> QED
      BY <2>0, <2>7, <2>8, <2>9 DEF CronInv
  <1>5. CASE Register \/ UnregisterAll \/ Enable \/ Disable
    BY <1>5, <1>0 DEF Register, UnregisterAll, Enable, Disable
  <1>6. CASE ConsiderFails \/ CronCrash \/ \E slot \in cronOpen : JobEnds(slot)
    BY <1>6, <1>0 DEF ConsiderFails, CronCrash, JobEnds
  <1>7. CASE UNCHANGED cronVars
    BY <1>7, <1>0 DEF cronVars
  <1> HIDE DEF CronInv
  <1> QED
    BY <1>1, <1>2, <1>3, <1>4, <1>5, <1>6, <1>7 DEF CronNext

(* However often the loop polls, whatever crashes or is disabled, and over  *)
(* any change of the clocks, a minute fires once, and none that passed      *)
(* before the jobs were mounted fires at all, but for a pass that straddles *)
(* a mount (jobs/cron.go, tickCron, considerSlot, CatchUpSchedules).        *)
THEOREM MinutesFireOnce == CronSpec => []CronSafe
  <1>1. CronInv => CronSafe
    BY DEF CronInv
  <1> QED
    BY <1>1, CronStart, CronKeeps, PTL DEF CronSpec

-----------------------------------------------------------------------------
(***************************************************************************)
(* Notifications.                                                          *)
(***************************************************************************)

CourierRow == [at : {"claimed", "accepted", "refused", "rejected"}, send : SendId]

NotifyTyped == NotifyTypeOK /\ courier \in {Idle} \cup CourierRow

(* What a row of core_notifications says: its sources are events handled,  *)
(* its own first among them, and counted; one that is ready has sources.   *)
NoteSays(n, x) ==
    /\ x.sources \subseteq 1..handled
    /\ x.sources # {} => n[2] \in x.sources /\ x.collapsed = Cardinality(x.sources) - 1
    /\ x.collapsed <= handled
    /\ x.ready = TRUE => x.sources # {}
    /\ x.window = "open" => x.ready = FALSE

NotesSay == \A n \in NoteId : NoteSays(n, notes[n])

(* No event is a source of two notifications of a rule, ... *)
SourcesApart ==
    \A n, m \in NoteId : \A e \in NotifyEvent :
        n[1] = m[1] /\ e \in notes[n].sources /\ e \in notes[m].sources => n = m

(* ... and each that matched is a source of one. *)
MatchedTold == \A x \in matched : \E n \in NoteId : n[1] = x[1] /\ x[2] \in notes[n].sources

Accepted(s) == courier.at = "accepted" /\ courier.send = s

(* What a row of core_notification_sends says of the far side. *)
SendSays(s) ==
    /\ delivered[s] > 0 => notes[s[1]].ready = TRUE
    /\ sends[s].state = "sent" \/ Accepted(s) =>
          delivered[s] > 0 /\ delivered[s] <= unsure[s] + 1
    /\ sends[s].state # "sent" /\ ~ Accepted(s) => delivered[s] <= unsure[s]
    /\ sends[s].state \notin {"sent", "failed"} => sends[s].attempts < NotifyAttempts
    /\ sends[s].attempts <= NotifyAttempts

SendsSay == \A s \in SendId : SendSays(s)

(* The send the loop has claimed is under its lease, and was released. *)
CourierSays ==
    courier # Idle => sends[courier.send].state = "sending" /\ notes[courier.send[1]].ready = TRUE

NotifyInv == NotifyTyped /\ NotesSay /\ SourcesApart /\ MatchedTold /\ SendsSay /\ CourierSays

LEMMA SendOfNote == \A s \in SendId : s[1] \in NoteId /\ s[2] \in NotifyChannel
  BY DEF SendId

LEMMA CourierIs ==
  ASSUME NotifyTyped
  PROVE  /\ courier = Idle <=> courier.at = "idle"
         /\ courier # Idle => courier \in CourierRow /\ courier.send \in SendId
  BY DEF NotifyTyped, CourierRow, Idle

(* What NotifySafe says. *)
LEMMA NotifyMeans == NotifyInv => NotifySafe
  <1> SUFFICES ASSUME NotifyInv PROVE NotifySafe
    OBVIOUS
  <1>0. NotifyTypeOK
    BY DEF NotifyInv, NotifyTyped
  <1>1. \A x \in matched : Cardinality({n \in NoteId : n[1] = x[1] /\ x[2] \in notes[n].sources}) = 1
    <2> SUFFICES ASSUME NEW x \in matched
                 PROVE  Cardinality({n \in NoteId : n[1] = x[1] /\ x[2] \in notes[n].sources}) = 1
      OBVIOUS
    <2>1. PICK k \in NoteId : k[1] = x[1] /\ x[2] \in notes[k].sources
      BY DEF NotifyInv, MatchedTold
    <2>2. x[2] \in NotifyEvent
      BY <1>0 DEF NotifyTypeOK, NoteId
    <2>3. {n \in NoteId : n[1] = x[1] /\ x[2] \in notes[n].sources} = {k}
      BY <2>1, <2>2 DEF NotifyInv, SourcesApart
    <2> QED
      BY <2>3, FS_Singleton
  <1>2. ASSUME NEW n \in NoteId
        PROVE  /\ Exists(n) => notes[n].collapsed = Cardinality(notes[n].sources) - 1
               /\ notes[n].window = "open" => ~ notes[n].ready
    BY DEF NotifyInv, NotesSay, NoteSays, Exists
  <1>3. ASSUME NEW s \in SendId
        PROVE  /\ delivered[s] > 0 => notes[s[1]].ready
               /\ delivered[s] <= 1 + unsure[s]
               /\ sends[s].state = "sent" => delivered[s] > 0
               /\ sends[s].state = "failed" /\ unsure[s] = 0 => delivered[s] = 0
    <2>1. SendSays(s)
      BY DEF NotifyInv, SendsSay
    <2>2. delivered[s] \in Nat /\ unsure[s] \in Nat
      BY <1>0 DEF NotifyTypeOK
    <2>3. Accepted(s) => sends[s].state = "sending"
      BY DEF NotifyInv, CourierSays, Accepted, Idle
    <2> QED
      BY <2>1, <2>2, <2>3 DEF SendSays
  <1> QED
    BY <1>0, <1>1, <1>2, <1>3 DEF NotifySafe, EventsAccounted, DeliveryHonest

LEMMA NotifyStart == NotifyInit => NotifyInv
  <1> SUFFICES ASSUME NotifyInit PROVE NotifyInv
    OBVIOUS
  <1>1. NoNote \in NoteRow /\ NoNote.sources = {} /\ NoNote.collapsed = 0 /\ NoNote.ready = FALSE
        /\ NoNote.window = "closed"
    BY NotifyConstants DEF NoNote, NoteRow
  <1>2. NoSend \in SendRow /\ NoSend.attempts = 0 /\ NoSend.state = "none"
    BY NotifyConstants DEF NoSend, SendRow
  <1>3. rules \in [NotifyRule -> RuleRow]
    <2>1. NoRule \in RuleRow
      BY DEF NoRule, RuleRow
    <2>2. PICK rs \in [NotifyRule -> {NoRule} \cup {r \in RuleRow : r.exists
                          /\ \A c \in r.channels \cap NotifyChannel : chans[c] # "absent"}] :
             rules = Seeded(rs)
      BY Zenon DEF NotifyInit
    <2>3. rs \in [NotifyRule -> RuleRow]
      BY <2>1
    <2>4. [on |-> TRUE, channels |-> {InboxChannel}, throttle |-> FALSE, exists |-> TRUE] \in RuleRow
      BY DEF RuleRow
    <2> QED
      BY <2>2, <2>3, <2>4, NotifyConstants DEF Seeded
  <1>4. notes \in [NoteId -> NoteRow] /\ \A n \in NoteId : notes[n] = NoNote
    BY <1>1 DEF NotifyInit
  <1>5. sends \in [SendId -> SendRow] /\ \A s \in SendId : sends[s] = NoSend
    BY <1>2 DEF NotifyInit
  <1>6. /\ delivered \in [SendId -> Nat] /\ \A s \in SendId : delivered[s] = 0
        /\ unsure \in [SendId -> Nat] /\ \A s \in SendId : unsure[s] = 0
    BY DEF NotifyInit
  <1>7. /\ chans \in [NotifyChannel -> {"absent", "off", "on"}] /\ putRule = {} /\ matched = {}
        /\ handled = 0 /\ edits = 0 /\ courier = Idle
    BY DEF NotifyInit
  <1>8. NotifyTyped
    BY <1>3, <1>4, <1>5, <1>6, <1>7, NotifyConstants DEF NotifyTyped, NotifyTypeOK
  <1>9. NotesSay
    BY <1>1, <1>4, <1>7 DEF NotesSay, NoteSays
  <1>10. SourcesApart /\ MatchedTold
    BY <1>1, <1>4, <1>7 DEF SourcesApart, MatchedTold
  <1>11. SendsSay
    <2>1. \A s \in SendId : ~ Accepted(s)
      BY <1>7 DEF Accepted, Idle
    <2> QED
      BY <2>1, <1>2, <1>5, <1>6, NotifyConstants DEF SendsSay, SendSays
  <1>12. CourierSays
    BY <1>7 DEF CourierSays
  <1> QED
    BY <1>8, <1>9, <1>10, <1>11, <1>12 DEF NotifyInv

(* A step of the UI that leaves the notifications alone. *)
LEMMA NotifyRest ==
  ASSUME NotifyInv, UNCHANGED <<handled, notes, sends, courier, matched, delivered, unsure>>,
         rules' \in [NotifyRule -> RuleRow], chans' \in [NotifyChannel -> {"absent", "off", "on"}],
         putRule' = {} \/ \E r \in NotifyRule, x \in RuleRow : putRule' = {<<r, x>>},
         edits' \in 0..MaxEdits
  PROVE  NotifyInv'
  <1>1. NotifyTyped'
    BY DEF NotifyInv, NotifyTyped, NotifyTypeOK
  <1>2. (NotesSay /\ SourcesApart /\ MatchedTold)'
    BY DEF NotifyInv, NotesSay, NoteSays, SourcesApart, MatchedTold
  <1>3. (SendsSay /\ CourierSays)'
    BY DEF NotifyInv, SendsSay, SendSays, Accepted, CourierSays
  <1> QED
    BY <1>1, <1>2, <1>3 DEF NotifyInv

(* A row of core_notifications changes, its sources apart. *)
LEMMA NoteTouched ==
  ASSUME NotifyInv, NEW n \in NoteId, NEW x \in NoteRow, notes' = [notes EXCEPT ![n] = x],
         x.sources = notes[n].sources, x.collapsed = notes[n].collapsed,
         x.ready = TRUE => notes[n].sources # {}, x.window = "open" => x.ready = FALSE,
         notes[n].ready = TRUE => x.ready = TRUE,
         UNCHANGED <<rules, chans, putRule, handled, sends, courier, matched, delivered, unsure>>,
         edits' \in 0..MaxEdits
  PROVE  NotifyInv'
  <1>0. notes \in [NoteId -> NoteRow]
    BY DEF NotifyInv, NotifyTyped, NotifyTypeOK
  <1>1. notes' \in [NoteId -> NoteRow] /\ \A m \in NoteId : notes'[m] = IF m = n THEN x ELSE notes[m]
    BY <1>0
  <1>2. \A m \in NoteId : /\ notes'[m].sources = notes[m].sources
                          /\ notes[m].ready = TRUE => notes'[m].ready = TRUE
    BY <1>1
  <1>3. NotifyTyped'
    BY <1>1 DEF NotifyInv, NotifyTyped, NotifyTypeOK
  <1>4. NotesSay'
    <2>1. \A m \in NoteId : NoteSays(m, notes[m])
      BY DEF NotifyInv, NotesSay
    <2>2. NoteSays(n, x)
      BY <2>1 DEF NoteSays
    <2>3. \A m \in NoteId : NoteSays(m, notes'[m])
      BY <2>1, <2>2, <1>1
    <2> QED
      BY <2>3 DEF NotesSay, NoteSays
  <1>5. (SourcesApart /\ MatchedTold)'
    BY <1>2 DEF NotifyInv, SourcesApart, MatchedTold
  <1>6. SendsSay'
    <2> SUFFICES ASSUME NEW s \in SendId PROVE SendSays(s)'
      BY DEF SendsSay
    <2>1. SendSays(s) /\ s[1] \in NoteId
      BY SendOfNote DEF NotifyInv, SendsSay
    <2> QED
      BY <2>1, <1>2 DEF SendSays, Accepted
  <1>7. CourierSays'
    BY <1>2, CourierIs, SendOfNote DEF NotifyInv, CourierSays
  <1> QED
    BY <1>3, <1>4, <1>5, <1>6, <1>7 DEF NotifyInv

(* One send changes, or what is known of it. *)
LEMMA SendTouched ==
  ASSUME NotifyInv, NEW s \in SendId,
         NEW x \in SendRow, sends' = [sends EXCEPT ![s] = x],
         NEW d \in Nat, delivered' = [delivered EXCEPT ![s] = d],
         NEW u \in Nat, unsure' = [unsure EXCEPT ![s] = u],
         courier' \in {Idle} \cup CourierRow,
         \A t \in SendId \ {s} : Accepted(t)' <=> Accepted(t),
         SendSays(s)', CourierSays',
         rules' \in [NotifyRule -> RuleRow], putRule' = putRule \/ putRule' = {},
         UNCHANGED <<edits, chans, handled, notes, matched>>
  PROVE  NotifyInv'
  <1>0. /\ sends \in [SendId -> SendRow] /\ delivered \in [SendId -> Nat] /\ unsure \in [SendId -> Nat]
        /\ putRule = {} \/ \E r \in NotifyRule, y \in RuleRow : putRule = {<<r, y>>}
    BY DEF NotifyInv, NotifyTyped, NotifyTypeOK
  <1>1. /\ sends' \in [SendId -> SendRow] /\ delivered' \in [SendId -> Nat] /\ unsure' \in [SendId -> Nat]
        /\ \A t \in SendId \ {s} :
              sends'[t] = sends[t] /\ delivered'[t] = delivered[t] /\ unsure'[t] = unsure[t]
    BY <1>0
  <1>2. putRule' = {} \/ \E r \in NotifyRule, y \in RuleRow : putRule' = {<<r, y>>}
    BY <1>0, Zenon
  <1>3. courier' = Idle
        \/ (courier'.at \in {"claimed", "accepted", "refused", "rejected"} /\ courier'.send \in SendId)
    BY DEF CourierRow
  <1>4. NotifyTyped'
    BY <1>1, <1>2, <1>3 DEF NotifyInv, NotifyTyped, NotifyTypeOK
  <1>5. (NotesSay /\ SourcesApart /\ MatchedTold)'
    BY DEF NotifyInv, NotesSay, NoteSays, SourcesApart, MatchedTold
  <1>6. SendsSay'
    <2> SUFFICES ASSUME NEW t \in SendId \ {s} PROVE SendSays(t)'
      BY DEF SendsSay
    <2>1. SendSays(t)
      BY DEF NotifyInv, SendsSay
    <2> QED
      BY <2>1, <1>1 DEF SendSays
  <1> QED
    BY <1>4, <1>5, <1>6 DEF NotifyInv

(* What the loop and the clock do with a send. *)
LEMMA SendStepKeeps ==
  ASSUME NotifyInv,
         \/ \E s \in SendId : ClaimOne(s)
         \/ \E result \in SendResults : Send(result)
         \/ CompleteSend \/ FailSend \/ ResultLost
         \/ \E s \in SendId : WaitEnds(s)
  PROVE  NotifyInv'
  <1>t. /\ sends \in [SendId -> SendRow] /\ delivered \in [SendId -> Nat] /\ unsure \in [SendId -> Nat]
        /\ courier \in {Idle} \cup CourierRow /\ rules \in [NotifyRule -> RuleRow]
        /\ NotifyTyped
    BY DEF NotifyInv, NotifyTyped, NotifyTypeOK
  <1>c. /\ courier = Idle <=> courier.at = "idle"
        /\ courier # Idle => courier \in CourierRow /\ courier.send \in SendId
    BY <1>t, CourierIs
  <1>i. Idle.at = "idle"
    BY DEF Idle
  <1>s. \A s \in SendId : SendSays(s)
    BY DEF NotifyInv, SendsSay
  <1>k. CourierSays
    BY DEF NotifyInv
  <1>f. \A s \in SendId : /\ sends[s] \in SendRow /\ sends[s].attempts \in Nat
                          /\ delivered[s] \in Nat /\ unsure[s] \in Nat
    BY <1>t DEF SendRow
  <1>m. NotifyAttempts \in Nat \ {0}
    BY NotifyConstants
  <1>1. ASSUME NEW s \in SendId, ClaimOne(s) PROVE NotifyInv'
    <2> DEFINE x == [sends[s] EXCEPT !.state = "sending", !.wait = TRUE]
    <2>1. /\ courier = Idle /\ notes[s[1]].ready /\ sends[s].state \notin {"sent", "failed"}
          /\ courier' = [at |-> "claimed", send |-> s]
          /\ UNCHANGED <<edits, rules, chans, putRule, handled, notes, matched, delivered, unsure>>
      BY <1>1 DEF ClaimOne, Claimable
    <2>2. x \in SendRow /\ x.state = "sending" /\ x.attempts = sends[s].attempts
      BY <1>f DEF SendRow
    <2>3. sends' = [sends EXCEPT ![s] = x]
      BY <1>1 DEF ClaimOne
    <2> HIDE DEF x
    <2>4. sends'[s] = x
      BY <2>3, <1>t
    <2>5. courier' \in CourierRow /\ courier'.at = "claimed" /\ courier'.send = s
      BY <2>1 DEF CourierRow
    <2>6. \A t \in SendId : ~ Accepted(t) /\ ~ Accepted(t)'
      BY <2>1, <2>5, <1>i DEF Accepted
    <2>7. SendSays(s)'
      BY <2>1, <2>2, <2>4, <2>6, <1>s DEF SendSays
    <2>8. notes[s[1]].ready = TRUE
      <3>1. notes[s[1]].ready \in BOOLEAN
        BY <1>t, SendOfNote DEF NotifyTyped, NotifyTypeOK, NoteRow
      <3> QED
        BY <3>1, <2>1
    <2>9. CourierSays'
      BY <2>1, <2>2, <2>4, <2>5, <2>8 DEF CourierSays
    <2>10. delivered' = [delivered EXCEPT ![s] = delivered[s]] /\ unsure' = [unsure EXCEPT ![s] = unsure[s]]
      BY <2>1, <1>t
    <2>11. rules' \in [NotifyRule -> RuleRow] /\ (putRule' = putRule \/ putRule' = {})
      BY <2>1, <1>t
    <2> QED
      BY <2>1, <2>2, <2>3, <2>5, <2>6, <2>7, <2>9, <2>10, <2>11, <1>f, SendTouched
  <1>2. ASSUME NEW result \in SendResults, Send(result) PROVE NotifyInv'
    <2>1. PICK s \in SendId : courier.at = "claimed" /\ courier # Idle /\ s = courier.send
      BY <1>2, <1>c DEF Send
    <2>2. UNCHANGED <<edits, rules, chans, putRule, handled, notes, sends, matched>>
      BY <1>2 DEF Send
    <2>3. sends[s].state = "sending" /\ notes[s[1]].ready = TRUE
      BY <2>1, <1>k DEF CourierSays
    <2>4. result \in {"accepted", "lost", "rejected", "refused"}
      <3>1. \A a : NtfySend(a) \in {"accepted", "lost", "rejected", "refused"}
        BY DEF NtfySend
      <3>2. \A a : WebPushSend(a) \in {"accepted", "lost", "rejected", "refused"}
        BY <3>1 DEF WebPushSend
      <3>3. \A a : CloudflareSend(a) \in {"accepted", "lost", "rejected", "refused"}
        BY DEF CloudflareSend
      <3>4. \A a : EmailSend(a) \in {"accepted", "lost", "rejected", "refused"}
        BY DEF EmailSend
      <3>5. QED
        <4>1. CASE \E a \in HttpAnswer : result \in {NtfySend(a), WebPushSend(a), CloudflareSend(a)}
          BY <4>1, <3>1, <3>2, <3>3
        <4>2. CASE \E a \in SmtpStep : result = EmailSend(a)
          BY <4>2, <3>4
        <4> DEFINE kinds(a) == {NtfySend(a), WebPushSend(a), CloudflareSend(a)}
        <4>3. result \in UNION {kinds(a) : a \in HttpAnswer} \/ result \in {EmailSend(a) : a \in SmtpStep}
          <5> DEFINE U == UNION {kinds(a) : a \in HttpAnswer}
                     E == {EmailSend(a) : a \in SmtpStep}
          <5>1. SendResults = U \cup E
            BY Zenon DEF SendResults
          <5> HIDE DEF U, E
          <5>2. result \in U \/ result \in E
            BY <5>1
          <5> QED
            BY <5>2, Zenon DEF U, E
        <4>4. ASSUME result \in UNION {kinds(a) : a \in HttpAnswer}
              PROVE  \E a \in HttpAnswer : result \in kinds(a)
          <5> HIDE DEF kinds
          <5> QED
            BY <4>4
        <4>5. ASSUME result \in {EmailSend(a) : a \in SmtpStep}
              PROVE  \E a \in SmtpStep : result = EmailSend(a)
          BY <4>5
        <4> QED
          BY <4>1, <4>2, <4>3, <4>4, <4>5
    <2>5. PICK d \in Nat, u \in Nat, a \in {"accepted", "refused", "rejected"} :
             /\ courier' = [courier EXCEPT !.at = a]
             /\ delivered' = [delivered EXCEPT ![s] = d] /\ unsure' = [unsure EXCEPT ![s] = u]
             /\ \/ a = "accepted" /\ d = delivered[s] + 1 /\ u = unsure[s]
                \/ a # "accepted" /\ d = delivered[s] + 1 /\ u = unsure[s] + 1
                \/ a # "accepted" /\ d = delivered[s] /\ u = unsure[s]
      <3>0. /\ delivered = [delivered EXCEPT ![s] = delivered[s]] /\ unsure = [unsure EXCEPT ![s] = unsure[s]]
            /\ delivered[s] \in Nat /\ unsure[s] \in Nat /\ delivered[s] + 1 \in Nat /\ unsure[s] + 1 \in Nat
        BY <1>t, <2>1
      <3>1. CASE ~ ChannelFor(s[2])
        <4>1. courier' = [courier EXCEPT !.at = "rejected"] /\ UNCHANGED <<delivered, unsure>>
          BY <3>1, <1>2, <2>1 DEF Send
        <4> QED
          BY <4>1, <3>0
      <3>2. CASE ChannelFor(s[2])
        <4>1. /\ courier' = [courier EXCEPT !.at = IF result = "lost" THEN "refused" ELSE result]
              /\ delivered' = IF result \in {"accepted", "lost"}
                                THEN [delivered EXCEPT ![s] = delivered[s] + 1] ELSE delivered
              /\ unsure' = IF result = "lost" THEN [unsure EXCEPT ![s] = unsure[s] + 1] ELSE unsure
          BY <3>2, <1>2, <2>1 DEF Send
        <4>2. CASE result = "lost"
          BY <4>1, <4>2, <3>0
        <4>3. CASE result = "accepted"
          BY <4>1, <4>3, <3>0
        <4>4. CASE result \in {"rejected", "refused"}
          BY <4>1, <4>4, <3>0
        <4> QED
          BY <4>2, <4>3, <4>4, <2>4
      <3> QED
        BY <3>1, <3>2
    <2>6. courier' \in CourierRow /\ courier'.at = a /\ courier'.send = s
      BY <2>1, <2>5, <1>c DEF CourierRow
    <2>7. \A t \in SendId \ {s} : ~ Accepted(t) /\ ~ Accepted(t)'
      BY <2>1, <2>6 DEF Accepted
    <2>8. ~ Accepted(s) /\ (Accepted(s)' <=> a = "accepted")
      BY <2>1, <2>6 DEF Accepted
    <2>9. delivered'[s] = d /\ unsure'[s] = u
      BY <2>5, <2>1, <1>t
    <2>10. delivered[s] <= unsure[s] /\ sends[s].attempts < NotifyAttempts /\ sends[s].attempts <= NotifyAttempts
      BY <2>1, <2>3, <2>8, <1>s DEF SendSays
    <2>11. SendSays(s)'
      BY <2>2, <2>3, <2>5, <2>8, <2>9, <2>10, <1>f, <2>1 DEF SendSays
    <2>12. CourierSays'
      BY <2>2, <2>3, <2>6 DEF CourierSays
    <2>13. sends' = [sends EXCEPT ![s] = sends[s]] /\ rules' \in [NotifyRule -> RuleRow]
           /\ (putRule' = putRule \/ putRule' = {})
      BY <2>2, <1>t
    <2> QED
      BY <2>1, <2>2, <2>5, <2>6, <2>7, <2>11, <2>12, <2>13, <1>f, SendTouched
  <1>3. ASSUME CompleteSend \/ FailSend PROVE NotifyInv'
    <2>0. CompleteSend => courier.at = "accepted"
      BY DEF CompleteSend
    <2>00. FailSend => courier.at \in {"refused", "rejected"}
      BY DEF FailSend
    <2>1. PICK s \in SendId : courier # Idle /\ s = courier.send
      BY <1>3, <1>c, <2>0, <2>00
    <2>2. UNCHANGED <<edits, rules, chans, putRule, handled, notes, matched, delivered, unsure>> /\ courier' = Idle
      BY <1>3 DEF CompleteSend, FailSend
    <2>3. sends[s].state = "sending"
      BY <2>1, <1>k DEF CourierSays
    <2>4. sends[s].attempts < NotifyAttempts
      BY <2>1, <2>3, <1>s DEF SendSays
    <2>5. PICK st \in {"sent", "failed", "retry_wait"}, w \in BOOLEAN :
             /\ sends' = [sends EXCEPT ![s] = [state |-> st, attempts |-> sends[s].attempts + 1, wait |-> w]]
             /\ st = "sent" <=> courier.at = "accepted"
             /\ st = "retry_wait" => sends[s].attempts + 1 < NotifyAttempts
      <3>1. CASE CompleteSend
        <4>1. sends' = [sends EXCEPT ![s] = [state |-> "sent", attempts |-> sends[s].attempts + 1, wait |-> FALSE]]
          BY <3>1, <2>1 DEF CompleteSend
        <4> QED
          BY <4>1, <3>1, <2>0
      <3>2. CASE FailSend
        <4> DEFINE final == courier.at = "rejected" \/ sends[s].attempts + 1 >= NotifyAttempts
        <4>1. sends' = [sends EXCEPT ![s] = [state |-> IF final THEN "failed" ELSE "retry_wait",
                                             attempts |-> sends[s].attempts + 1, wait |-> ~ final]]
          BY <3>2, <2>1 DEF FailSend
        <4>2. courier.at # "accepted"
          BY <3>2, <2>00
        <4>3. ~ final => sends[s].attempts + 1 < NotifyAttempts
          BY <1>f, <2>1, <1>m
        <4>4. final \in BOOLEAN /\ (~ final) \in BOOLEAN
          OBVIOUS
        <4> HIDE DEF final
        <4>5. CASE final
          <5>1. (~ final) = FALSE
            BY <4>5
          <5>2. sends' = [sends EXCEPT ![s] = [state |-> "failed", attempts |-> sends[s].attempts + 1, wait |-> FALSE]]
            BY <4>1, <4>5, <5>1
          <5> QED
            BY <5>2, <4>2
        <4>6. CASE ~ final
          <5>1. (~ final) = TRUE
            BY <4>6
          <5>2. sends' = [sends EXCEPT ![s] = [state |-> "retry_wait", attempts |-> sends[s].attempts + 1, wait |-> TRUE]]
            BY <4>1, <4>6, <5>1
          <5> QED
            BY <5>2, <4>2, <4>3, <4>6
        <4> QED
          BY <4>5, <4>6
      <3> QED
        BY <3>1, <3>2, <1>3
    <2> DEFINE x == [state |-> st, attempts |-> sends[s].attempts + 1, wait |-> w]
    <2>6. sends[s].attempts + 1 \in 0..NotifyAttempts /\ sends[s].attempts + 1 \in 0..(NotifyAttempts + 1)
      BY <2>1, <2>4, <1>f, <1>m
    <2>7. x \in SendRow /\ x.state = st /\ x.attempts = sends[s].attempts + 1
      BY <2>6 DEF SendRow
    <2>8. Accepted(s) <=> st = "sent"
      BY <2>1, <2>5 DEF Accepted
    <2>9. \A t \in SendId : ~ Accepted(t)'
      BY <2>2, <1>i DEF Accepted
    <2>10. \A t \in SendId \ {s} : ~ Accepted(t)
      BY <2>1 DEF Accepted
    <2>11. sends' = [sends EXCEPT ![s] = x]
      BY <2>5
    <2> HIDE DEF x
    <2>12. sends'[s] = x
      BY <2>11, <2>1, <1>t
    <2>13. SendSays(s)'
      <3>1. SendSays(s)
        BY <2>1, <1>s
      <3> QED
        BY <3>1, <2>1, <2>2, <2>3, <2>5, <2>6, <2>7, <2>8, <2>9, <2>12, <1>f DEF SendSays
    <2>14. CourierSays'
      BY <2>2 DEF CourierSays
    <2>15. /\ delivered' = [delivered EXCEPT ![s] = delivered[s]] /\ unsure' = [unsure EXCEPT ![s] = unsure[s]]
           /\ rules' \in [NotifyRule -> RuleRow] /\ (putRule' = putRule \/ putRule' = {})
           /\ courier' \in {Idle} \cup CourierRow
      BY <2>2, <1>t
    <2> QED
      BY <2>1, <2>2, <2>7, <2>9, <2>10, <2>11, <2>13, <2>14, <2>15, <1>f, SendTouched
  <1>4. ASSUME ResultLost PROVE NotifyInv'
    <2>1. PICK s \in SendId : courier # Idle /\ s = courier.send
      BY <1>4, <1>c DEF ResultLost
    <2>2. /\ UNCHANGED <<edits, chans, handled, notes, sends, matched, delivered>>
          /\ courier' = Idle /\ putRule' = {} /\ rules' = Seeded(rules)
          /\ unsure' = [unsure EXCEPT ![s] = unsure[s] + 1]
      BY <1>4, <2>1 DEF ResultLost
    <2>3. sends[s].state = "sending"
      BY <2>1, <1>k DEF CourierSays
    <2>4. rules' \in [NotifyRule -> RuleRow]
      <3>1. [on |-> TRUE, channels |-> {InboxChannel}, throttle |-> FALSE, exists |-> TRUE] \in RuleRow
        BY DEF RuleRow
      <3> QED
        BY <3>1, <2>2, <1>t, NotifyConstants DEF Seeded
    <2>5. \A t \in SendId : ~ Accepted(t)'
      BY <2>2, <1>i DEF Accepted
    <2>6. \A t \in SendId \ {s} : ~ Accepted(t)
      BY <2>1 DEF Accepted
    <2>7. unsure'[s] = unsure[s] + 1 /\ unsure[s] + 1 \in Nat
      BY <2>1, <2>2, <1>t
    <2>8. delivered[s] <= unsure[s] + 1
      BY <2>1, <1>s, <1>f DEF SendSays
    <2>9. SendSays(s)'
      BY <2>1, <2>2, <2>3, <2>5, <2>7, <2>8, <1>s DEF SendSays
    <2>10. CourierSays'
      BY <2>2 DEF CourierSays
    <2>11. /\ delivered' = [delivered EXCEPT ![s] = delivered[s]] /\ sends' = [sends EXCEPT ![s] = sends[s]]
           /\ courier' \in {Idle} \cup CourierRow
      BY <2>2, <1>t
    <2> QED
      BY <2>1, <2>2, <2>4, <2>5, <2>6, <2>7, <2>9, <2>10, <2>11, <1>f, SendTouched
  <1>5. ASSUME NEW s \in SendId, WaitEnds(s) PROVE NotifyInv'
    <2> DEFINE x == [sends[s] EXCEPT !.wait = FALSE]
    <2>1. UNCHANGED <<edits, rules, chans, putRule, handled, notes, courier, matched, delivered, unsure>>
      BY <1>5 DEF WaitEnds
    <2>2. x \in SendRow /\ x.state = sends[s].state /\ x.attempts = sends[s].attempts
      BY <1>f DEF SendRow
    <2>3. sends' = [sends EXCEPT ![s] = x]
      BY <1>5 DEF WaitEnds
    <2> HIDE DEF x
    <2>4. sends'[s] = x /\ \A t \in SendId : sends'[t].state = sends[t].state
      BY <2>2, <2>3, <1>t
    <2>5. \A t \in SendId : Accepted(t)' <=> Accepted(t)
      BY <2>1 DEF Accepted
    <2>6. SendSays(s)'
      BY <2>1, <2>2, <2>4, <2>5, <1>s DEF SendSays
    <2>7. CourierSays'
      BY <2>1, <2>4, <1>k, <1>c DEF CourierSays
    <2>8. /\ delivered' = [delivered EXCEPT ![s] = delivered[s]] /\ unsure' = [unsure EXCEPT ![s] = unsure[s]]
          /\ rules' \in [NotifyRule -> RuleRow] /\ (putRule' = putRule \/ putRule' = {})
          /\ courier' \in {Idle} \cup CourierRow
      BY <2>1, <1>t
    <2> QED
      BY <2>1, <2>2, <2>3, <2>5, <2>6, <2>7, <2>8, <1>f, SendTouched
  <1> QED
    BY <1>1, <1>2, <1>3, <1>4, <1>5

(* What an event makes of the notifications: at most one row of a rule     *)
(* gains it, one that exists or one that did not.                          *)
LEMMA EventTold ==
  ASSUME NotifyInv, NEW M \in SUBSET EnabledRules, NEW B \in SUBSET M, NEW atEnd \in BOOLEAN,
         HandleEvent(M, B, atEnd)
  PROVE  \E grown \in SUBSET NoteId :
           /\ \A n \in grown :
                /\ notes'[n] \in NoteRow /\ notes'[n].sources = notes[n].sources \cup {handled + 1}
                /\ \/ /\ notes[n].sources # {} /\ notes'[n].collapsed = notes[n].collapsed + 1
                      /\ notes'[n].ready = notes[n].ready /\ notes'[n].window = notes[n].window
                   \/ /\ notes[n].sources = {} /\ notes'[n].collapsed = 0 /\ n[2] = handled + 1
                      /\ notes'[n].window = "open" => notes'[n].ready = FALSE
           /\ \A n \in NoteId \ grown : notes'[n] = notes[n]
           /\ \A n, m \in grown : n[1] = m[1] => n = m
           /\ \A x \in matched' \ matched : x[2] = handled + 1 /\ \E n \in grown : n[1] = x[1]
           /\ matched' \subseteq NoteId
           /\ \A s \in SendId :
                \/ sends'[s] = sends[s]
                \/ /\ notes[s[1]].sources = {} /\ sends'[s] \in SendRow
                   /\ sends'[s].state = "pending" /\ sends'[s].attempts = 0
           /\ DOMAIN notes' = NoteId /\ DOMAIN sends' = SendId
  <1> DEFINE e == handled + 1
             joins == {n \in NoteId : n[1] \in M /\ n \in WindowOf(n[1], rules[n[1]].throttle /\ atEnd)
                                      /\ rules[n[1]].throttle}
             joined == {n[1] : n \in joins}
             opens == {<<r, e>> : r \in M \ (B \cup joined)}
  <1>1. /\ handled < MaxEvents
        /\ notes' = [n \in NoteId |-> IF n \in joins THEN Attached(n, e)
                                      ELSE IF n \in opens THEN Fresh(n[1], e) ELSE notes[n]]
        /\ sends' = [s \in SendId |-> IF s[1] \in opens /\ s[2] \in InsertSends(s[1][1])
                                      THEN [NoSend EXCEPT !.state = "pending"] ELSE sends[s]]
        /\ matched' = matched \cup {<<r, e>> : r \in M \ (B \ joined)}
    BY Zenon DEF HandleEvent
  <1>2. /\ handled \in Nat /\ e \in NotifyEvent /\ e \in Nat /\ MaxEvents \in Nat
        /\ notes \in [NoteId -> NoteRow] /\ matched \subseteq NoteId /\ rules \in [NotifyRule -> RuleRow]
    BY <1>1, NotifyConstants DEF NotifyInv, NotifyTyped, NotifyTypeOK, NotifyEvent
  <1>3. M \subseteq NotifyRule
    BY DEF EnabledRules
  <1>4. \A n \in NoteId : NoteSays(n, notes[n])
    BY DEF NotifyInv, NotesSay
  <1>5. joins \subseteq NoteId /\ \A n \in joins : notes[n].sources # {} /\ n[1] \in joined
    <2>1. \A n \in joins : n \in WindowOf(n[1], rules[n[1]].throttle /\ atEnd) /\ n[1] \in joined
      OBVIOUS
    <2>2. \A n, r, b : n \in WindowOf(r, b) => notes[n].sources # {}
      BY DEF WindowOf, WindowFound, Exists
    <2> QED
      BY <2>1, <2>2
  <1>6. \A n, m \in joins : n[1] = m[1] => n = m
    <2> SUFFICES ASSUME NEW n \in joins, NEW m \in joins, n[1] = m[1] PROVE n = m
      OBVIOUS
    <2>1. n \in NoteId /\ m \in NoteId /\ n[2] \in Nat /\ m[2] \in Nat
      BY DEF NoteId, NotifyEvent
    <2> DEFINE b == rules[n[1]].throttle /\ atEnd
    <2>2. n \in WindowOf(n[1], b) /\ m \in WindowOf(n[1], b)
      OBVIOUS
    <2> HIDE DEF b, joins
    <2>3. n[2] <= m[2] /\ m[2] <= n[2]
      BY <2>2 DEF WindowOf
    <2>4. n[2] = m[2]
      BY <2>1, <2>3
    <2> QED
      BY <2>1, <2>4 DEF NoteId
  <1>7. /\ opens \subseteq NoteId
        /\ \A n \in opens : n[2] = e /\ n[1] \notin joined /\ n \notin joins
        /\ \A n, m \in opens : n[1] = m[1] => n = m
    <2>1. opens \subseteq NoteId
      BY <1>2, <1>3 DEF NoteId
    <2>2. \A n \in opens : n = <<n[1], e>> /\ n[2] = e /\ n[1] \in M \ (B \cup joined)
      <3> HIDE DEF e, joins, joined
      <3> QED
        OBVIOUS
    <2>3. \A n \in joins : n[1] \in joined
      BY <1>5
    <2> HIDE DEF opens, joins, joined
    <2> QED
      BY <2>1, <2>2, <2>3
  <1>8. \A n \in opens : notes[n].sources = {}
    <2> SUFFICES ASSUME NEW n \in opens, notes[n].sources # {} PROVE FALSE
      OBVIOUS
    <2>1. n[2] \in 1..handled
      BY <1>4, <1>7 DEF NoteSays
    <2>2. n[2] = handled + 1
      BY <1>7
    <2> HIDE DEF opens
    <2> QED
      BY <2>1, <2>2, <1>2
  <1>9. \A x \in {<<r, e>> : r \in M \ (B \ joined)} :
           x \in NoteId /\ x[2] = e /\ \E n \in joins \cup opens : n[1] = x[1]
    <2> SUFFICES ASSUME NEW r \in M \ (B \ joined)
                 PROVE  <<r, e>> \in NoteId /\ \E n \in joins \cup opens : n[1] = r
      OBVIOUS
    <2>1. <<r, e>> \in NoteId
      BY <1>2, <1>3 DEF NoteId
    <2>2. CASE r \in joined
      <3>1. PICK n \in joins : n[1] = r
        BY <2>2, Zenon
      <3> HIDE DEF joins, joined, opens
      <3> QED
        BY <3>1, <2>1
    <2>3. CASE r \notin joined
      <3>1. <<r, e>> \in opens
        BY <2>3
      <3> HIDE DEF opens, joins, joined
      <3>2. <<r, e>>[1] = r
        OBVIOUS
      <3>3. <<r, e>> \in joins \cup opens
        BY <3>1
      <3> QED
        BY <3>2, <3>3, <2>1, Zenon
    <2> QED
      BY <2>1, <2>2, <2>3
  <1>10. \A n \in NoteId : /\ notes[n] \in NoteRow /\ notes[n].sources \subseteq NotifyEvent
                           /\ notes[n].collapsed \in Nat /\ notes[n].collapsed <= handled
    BY <1>2, <1>4 DEF NoteRow, NoteSays
  <1>j. ASSUME NEW n \in joins
        PROVE  /\ notes'[n] \in NoteRow /\ notes'[n].sources = notes[n].sources \cup {e}
               /\ notes'[n].collapsed = notes[n].collapsed + 1
               /\ notes'[n].ready = notes[n].ready /\ notes'[n].window = notes[n].window
    <2>1. n \in NoteId /\ notes'[n] = Attached(n, e)
      BY <1>1, <1>5
    <2> HIDE DEF joins, opens, joined
    <2>2. notes[n].collapsed + 1 \in 0..MaxEvents
      BY <2>1, <1>1, <1>2, <1>10
    <2>3. notes[n].sources \cup {e} \in SUBSET NotifyEvent
      BY <2>1, <1>2, <1>10
    <2> HIDE DEF e
    <2>4. notes[n] \in NoteRow
      BY <2>1, <1>10
    <2> QED
      BY <2>1, <2>2, <2>3, <2>4 DEF Attached, NoteRow
  <1>o. ASSUME NEW n \in opens
        PROVE  /\ notes'[n] \in NoteRow /\ notes'[n].sources = {e} /\ notes'[n].collapsed = 0
               /\ notes'[n].window = "open" => notes'[n].ready = FALSE
    <2>1. n \in NoteId /\ n \notin joins
      BY <1>7
    <2>2. notes'[n] = Fresh(n[1], e)
      BY <1>1, <2>1
    <2> DEFINE box == InboxChannel \in rules[n[1]].channels
               im == [sources |-> {e}, collapsed |-> 0, window |-> "closed", ready |-> TRUE,
                      inbox |-> box, read |-> FALSE]
    <2>3. Immediate(n[1], e) = im
      BY DEF Immediate
    <2>4. box \in BOOLEAN
      OBVIOUS
    <2>5. {e} \in SUBSET NotifyEvent /\ 0 \in 0..MaxEvents
      BY <1>2
    <2> HIDE DEF box, joins, opens, joined, e
    <2>7. im \in NoteRow /\ im.sources = {e} /\ im.collapsed = 0 /\ im.window = "closed"
      BY <2>4, <2>5 DEF NoteRow
    <2>6. notes'[n] = im \/ notes'[n] = [im EXCEPT !.window = "open", !.ready = FALSE]
      BY <2>2, <2>3 DEF Fresh, OpenWindow
    <2> HIDE DEF im
    <2> QED
      BY <2>6, <2>7 DEF NoteRow
  <1>k. \A n \in NoteId \ (joins \cup opens) : notes'[n] = notes[n]
    BY <1>1
  <1>s. \A s \in SendId : \/ sends'[s] = sends[s]
                          \/ /\ s[1] \in opens /\ sends'[s] \in SendRow
                             /\ sends'[s].state = "pending" /\ sends'[s].attempts = 0
    <2> DEFINE new == [NoSend EXCEPT !.state = "pending"]
    <2>0. 0 \in 0..(NotifyAttempts + 1)
      BY NotifyConstants
    <2>1. new \in SendRow /\ new.state = "pending" /\ new.attempts = 0
      BY <2>0 DEF NoSend, SendRow
    <2>2. \A s \in SendId : sends'[s] = sends[s] \/ (s[1] \in opens /\ sends'[s] = new)
      <3> HIDE DEF opens
      <3> QED
        BY <1>1
    <2> HIDE DEF opens, new
    <2> QED
      BY <2>1, <2>2
  <1>d. DOMAIN notes' = NoteId /\ DOMAIN sends' = SendId
    BY <1>1
  <1> HIDE DEF joins, opens, joined
  <1>11. \A n, m \in joins \cup opens : n[1] = m[1] => n = m
    BY <1>5, <1>6, <1>7
  <1>12. \A n \in joins \cup opens :
                /\ notes'[n] \in NoteRow /\ notes'[n].sources = notes[n].sources \cup {e}
                /\ \/ /\ notes[n].sources # {} /\ notes'[n].collapsed = notes[n].collapsed + 1
                      /\ notes'[n].ready = notes[n].ready /\ notes'[n].window = notes[n].window
                   \/ /\ notes[n].sources = {} /\ notes'[n].collapsed = 0 /\ n[2] = e
                      /\ notes'[n].window = "open" => notes'[n].ready = FALSE
    <2>1. ASSUME NEW n \in opens PROVE notes'[n].sources = notes[n].sources \cup {e}
      BY <1>o, <1>8
    <2> QED
      BY <2>1, <1>5, <1>7, <1>8, <1>j, <1>o
  <1>13. matched' \subseteq NoteId /\ \A x \in matched' \ matched : x[2] = e /\ \E n \in joins \cup opens : n[1] = x[1]
    <2> DEFINE new == {<<r, e>> : r \in M \ (B \ joined)}
    <2>1. matched' = matched \cup new
      BY <1>1
    <2>2. \A x \in new : x \in NoteId /\ x[2] = e /\ \E n \in joins \cup opens : n[1] = x[1]
      BY <1>9
    <2> HIDE DEF new, e
    <2> QED
      BY <2>1, <2>2, <1>2
  <1>14. \A s \in SendId : \/ sends'[s] = sends[s]
                           \/ /\ notes[s[1]].sources = {} /\ sends'[s] \in SendRow
                              /\ sends'[s].state = "pending" /\ sends'[s].attempts = 0
    BY <1>s, <1>8
  <1>15. joins \cup opens \in SUBSET NoteId
    BY <1>5, <1>7
  <1>16. WITNESS joins \cup opens \in SUBSET NoteId
  <1> QED
    BY <1>11, <1>12, <1>13, <1>14, <1>k, <1>d

LEMMA EventKeeps ==
  ASSUME NotifyInv, NEW M \in SUBSET EnabledRules, NEW B \in SUBSET M, NEW atEnd \in BOOLEAN,
         HandleEvent(M, B, atEnd)
  PROVE  NotifyInv'
  <1> DEFINE e == handled + 1
  <1>1. PICK grown \in SUBSET NoteId :
           /\ \A n \in grown :
                /\ notes'[n] \in NoteRow /\ notes'[n].sources = notes[n].sources \cup {e}
                /\ \/ /\ notes[n].sources # {} /\ notes'[n].collapsed = notes[n].collapsed + 1
                      /\ notes'[n].ready = notes[n].ready /\ notes'[n].window = notes[n].window
                   \/ /\ notes[n].sources = {} /\ notes'[n].collapsed = 0 /\ n[2] = e
                      /\ notes'[n].window = "open" => notes'[n].ready = FALSE
           /\ \A n \in NoteId \ grown : notes'[n] = notes[n]
           /\ \A n, m \in grown : n[1] = m[1] => n = m
           /\ \A x \in matched' \ matched : x[2] = e /\ \E n \in grown : n[1] = x[1]
           /\ matched' \subseteq NoteId
           /\ \A s \in SendId :
                \/ sends'[s] = sends[s]
                \/ /\ notes[s[1]].sources = {} /\ sends'[s] \in SendRow
                   /\ sends'[s].state = "pending" /\ sends'[s].attempts = 0
           /\ DOMAIN notes' = NoteId /\ DOMAIN sends' = SendId
    BY EventTold
  <1>2. handled < MaxEvents /\ handled' = e /\ UNCHANGED <<edits, rules, chans, putRule, courier, delivered, unsure>>
    BY DEF HandleEvent
  <1>f. /\ notes' = [n \in NoteId |-> notes'[n]] /\ sends' = [s \in SendId |-> sends'[s]]
    BY Zenon DEF HandleEvent
  <1>t. NotifyTyped
    BY DEF NotifyInv
  <1>3. /\ handled \in Nat /\ e \in Nat /\ e \in 0..MaxEvents /\ NotifyEvent = 1..MaxEvents /\ MaxEvents \in Nat
        /\ notes \in [NoteId -> NoteRow] /\ sends \in [SendId -> SendRow]
    BY <1>t, <1>2, NotifyConstants DEF NotifyTyped, NotifyTypeOK, NotifyEvent
  <1>4. \A n \in NoteId : NoteSays(n, notes[n]) /\ notes[n] \in NoteRow /\ notes[n].collapsed \in Nat
    BY <1>3 DEF NotifyInv, NotesSay, NoteRow
  <1>5. \A n \in NoteId : /\ e \notin notes[n].sources /\ notes[n].sources \subseteq 1..e
                          /\ notes[n].sources \subseteq 1..handled
    <2>1. 1..handled \subseteq 1..e /\ e \notin 1..handled
      BY <1>3
    <2> HIDE DEF e
    <2> QED
      BY <2>1, <1>4 DEF NoteSays
  <1>6. e \in 1..e
    BY <1>3
  <1>7. NotifyTyped'
    <2>1. notes' \in [NoteId -> NoteRow]
      <3>1. \A n \in NoteId : notes'[n] \in NoteRow
        BY <1>1, <1>4
      <3> QED
        BY <3>1, <1>f
    <2>2. sends' \in [SendId -> SendRow]
      <3>1. \A s \in SendId : sends'[s] \in SendRow
        BY <1>1, <1>3
      <3> QED
        BY <3>1, <1>f
    <2> HIDE DEF e
    <2> QED
      BY <2>1, <2>2, <1>1, <1>2, <1>3, <1>t DEF NotifyTyped, NotifyTypeOK
  <1> HIDE DEF e
  <1>8. NotesSay'
    <2> SUFFICES ASSUME NEW n \in NoteId PROVE NoteSays(n, notes[n])'
      BY DEF NotesSay
    <2>1. CASE n \notin grown
      <3>1. notes'[n] = notes[n]
        BY <2>1, <1>1
      <3>2. notes[n].collapsed <= handled => notes[n].collapsed <= handled'
        BY <1>2, <1>3, <1>4 DEF e
      <3> QED
        BY <3>1, <3>2, <1>2, <1>4, <1>5 DEF NoteSays
    <2>2. CASE n \in grown
      <3>1. notes'[n].sources = notes[n].sources \cup {e}
        BY <2>2, <1>1
      <3>2. notes'[n].sources \subseteq 1..e /\ notes'[n].sources # {}
        BY <3>1, <1>5, <1>6
      <3>3. IsFiniteSet(notes[n].sources) /\ Cardinality(notes[n].sources) \in Nat
        <4>1. IsFiniteSet(1..handled)
          BY <1>3, FS_Interval
        <4>2. IsFiniteSet(notes[n].sources)
          BY <4>1, <1>5, FS_Subset
        <4> QED
          BY <4>2, FS_CardinalityType
      <3>4. Cardinality(notes'[n].sources) = Cardinality(notes[n].sources) + 1
        BY <3>1, <3>3, <1>5, FS_AddElement
      <3>5. CASE /\ notes[n].sources # {} /\ notes'[n].collapsed = notes[n].collapsed + 1
                 /\ notes'[n].ready = notes[n].ready /\ notes'[n].window = notes[n].window
        <4>1. /\ n[2] \in notes[n].sources /\ notes[n].collapsed = Cardinality(notes[n].sources) - 1
              /\ notes[n].collapsed <= handled
              /\ notes[n].window = "open" => notes[n].ready = FALSE
          BY <3>5, <1>4 DEF NoteSays
        <4>2. notes'[n].collapsed = Cardinality(notes'[n].sources) - 1 /\ notes'[n].collapsed <= handled'
          BY <4>1, <3>3, <3>4, <3>5, <1>2, <1>3, <1>4 DEF e
        <4>3. n[2] \in notes'[n].sources
          BY <4>1, <3>1
        <4> QED
          BY <4>1, <4>2, <4>3, <3>2, <3>5, <1>2 DEF NoteSays
      <3>6. CASE /\ notes[n].sources = {} /\ notes'[n].collapsed = 0 /\ n[2] = e
                 /\ notes'[n].window = "open" => notes'[n].ready = FALSE
        <4>1. Cardinality(notes[n].sources) = 0
          BY <3>6, FS_EmptySet
        <4>2. notes'[n].collapsed = Cardinality(notes'[n].sources) - 1 /\ notes'[n].collapsed <= handled'
          BY <4>1, <3>4, <3>6, <1>2, <1>3
        <4>3. n[2] \in notes'[n].sources
          BY <3>1, <3>6
        <4> QED
          BY <4>2, <4>3, <3>2, <3>6, <1>2 DEF NoteSays
      <3> QED
        BY <3>5, <3>6, <2>2, <1>1
    <2> QED
      BY <2>1, <2>2
  <1>9. \A n \in NoteId : /\ notes[n].sources \subseteq notes'[n].sources
                          /\ e \in notes'[n].sources => n \in grown
                          /\ \A x \in notes'[n].sources : x = e \/ x \in notes[n].sources
    BY <1>1, <1>5
  <1>10. SourcesApart'
    <2> SUFFICES ASSUME NEW n \in NoteId, NEW m \in NoteId, NEW x \in NotifyEvent,
                        n[1] = m[1], x \in notes'[n].sources, x \in notes'[m].sources
                 PROVE  n = m
      BY DEF SourcesApart
    <2>1. CASE x = e
      BY <2>1, <1>1, <1>9
    <2>2. CASE x # e
      BY <2>2, <1>9 DEF NotifyInv, SourcesApart
    <2> QED
      BY <2>1, <2>2
  <1>11. MatchedTold'
    <2> SUFFICES ASSUME NEW x \in matched' PROVE \E n \in NoteId : n[1] = x[1] /\ x[2] \in notes'[n].sources
      BY DEF MatchedTold
    <2>1. CASE x \in matched
      BY <2>1, <1>9 DEF NotifyInv, MatchedTold
    <2>2. CASE x \notin matched
      <3>1. PICK n \in grown : n[1] = x[1] /\ x[2] = e
        BY <2>2, <1>1
      <3>2. n \in NoteId /\ e \in notes'[n].sources
        BY <3>1, <1>1
      <3> QED
        BY <3>1, <3>2
    <2> QED
      BY <2>1, <2>2
  <1>12. \A n \in NoteId : notes[n].ready = TRUE => notes[n].sources # {} /\ notes'[n].ready = TRUE
    BY <1>1, <1>4 DEF NoteSays
  <1>13. SendsSay'
    <2> SUFFICES ASSUME NEW s \in SendId PROVE SendSays(s)'
      BY DEF SendsSay
    <2>1. SendSays(s) /\ s[1] \in NoteId
      BY SendOfNote DEF NotifyInv, SendsSay
    <2>2. Accepted(s)' <=> Accepted(s)
      BY <1>2 DEF Accepted
    <2>3. CASE sends'[s] = sends[s]
      BY <2>1, <2>2, <2>3, <1>2, <1>12 DEF SendSays
    <2>4. CASE notes[s[1]].sources = {} /\ sends'[s].state = "pending" /\ sends'[s].attempts = 0
      <3>1. delivered[s] \in Nat /\ unsure[s] \in Nat
        BY <1>t DEF NotifyTyped, NotifyTypeOK
      <3>2. notes[s[1]].ready # TRUE
        BY <2>4, <2>1, <1>12
      <3>3. delivered[s] = 0 /\ ~ Accepted(s)
        <4>1. ~ (delivered[s] > 0)
          BY <3>2, <2>1 DEF SendSays
        <4>2. ~ Accepted(s)
          BY <4>1, <2>1 DEF SendSays
        <4> QED
          BY <4>1, <4>2, <3>1
      <3>4. NotifyAttempts \in Nat \ {0}
        BY NotifyConstants
      <3> QED
        BY <3>1, <3>3, <3>4, <2>2, <2>4, <1>2 DEF SendSays
    <2> QED
      BY <2>3, <2>4, <1>1
  <1>14. CourierSays'
    <2> SUFFICES ASSUME courier # Idle
                 PROVE  sends'[courier.send].state = "sending" /\ notes'[courier.send[1]].ready = TRUE
      BY <1>2 DEF CourierSays
    <2>1. courier.send \in SendId /\ courier.send[1] \in NoteId
      BY <1>t, CourierIs, SendOfNote
    <2>2. sends[courier.send].state = "sending" /\ notes[courier.send[1]].ready = TRUE
      BY DEF NotifyInv, CourierSays
    <2>3. sends'[courier.send] = sends[courier.send]
      BY <2>1, <2>2, <1>1, <1>12
    <2> QED
      BY <2>1, <2>2, <2>3, <1>12
  <1> QED
    BY <1>7, <1>8, <1>10, <1>11, <1>13, <1>14 DEF NotifyInv

LEMMA NotifyKeeps == NotifyInv /\ [NotifyNext]_notifyVars => NotifyInv'
  <1> SUFFICES ASSUME NotifyInv, [NotifyNext]_notifyVars PROVE NotifyInv'
    OBVIOUS
  <1>t. NotifyTypeOK
    BY DEF NotifyInv, NotifyTyped
  <1>e. edits \in 0..MaxEdits /\ MaxEdits \in Nat /\ (edits < MaxEdits => edits + 1 \in 0..MaxEdits)
    BY <1>t, NotifyConstants DEF NotifyTypeOK
  <1>n. \A n \in NoteId : /\ notes[n] \in NoteRow /\ notes[n].ready \in BOOLEAN
                          /\ notes[n].ready = TRUE => notes[n].sources # {}
                          /\ notes[n].window = "open" => notes[n].ready = FALSE
    BY <1>t DEF NotifyTypeOK, NoteRow, NotifyInv, NotesSay, NoteSays
  <1>r. /\ rules \in [NotifyRule -> RuleRow] /\ chans \in [NotifyChannel -> {"absent", "off", "on"}]
        /\ putRule = {} \/ \E r \in NotifyRule, x \in RuleRow : putRule = {<<r, x>>}
    BY <1>t DEF NotifyTypeOK
  <1>1. ASSUME NEW n \in NoteId, NEW read \in BOOLEAN, MarkRead(n, read) PROVE NotifyInv'
    <2> DEFINE x == [notes[n] EXCEPT !.read = read]
    <2>1. x \in NoteRow /\ x.sources = notes[n].sources /\ x.collapsed = notes[n].collapsed
          /\ x.ready = notes[n].ready /\ x.window = notes[n].window
      BY <1>n DEF NoteRow
    <2>2. notes' = [notes EXCEPT ![n] = x] /\ edits < MaxEdits /\ edits' = edits + 1
          /\ UNCHANGED <<rules, chans, putRule, handled, sends, courier, matched, delivered, unsure>>
      BY <1>1 DEF MarkRead
    <2> HIDE DEF x
    <2>3. edits' \in 0..MaxEdits
      BY <2>2, <1>e
    <2> QED
      BY <2>1, <2>2, <2>3, <1>n, NoteTouched
  <1>2. ASSUME NEW n \in NoteId, WindowEnds(n) PROVE NotifyInv'
    <2> DEFINE w == IF notes[n].window = "open" THEN "ending" ELSE "closed"
               x == [notes[n] EXCEPT !.window = w]
    <2>1. x \in NoteRow /\ x.sources = notes[n].sources /\ x.collapsed = notes[n].collapsed
          /\ x.ready = notes[n].ready /\ x.window # "open"
      BY <1>n DEF NoteRow
    <2>2. notes' = [notes EXCEPT ![n] = x]
          /\ UNCHANGED <<edits, rules, chans, putRule, handled, sends, courier, matched, delivered, unsure>>
      BY <1>2 DEF WindowEnds
    <2> HIDE DEF x
    <2>3. edits' \in 0..MaxEdits
      BY <2>2, <1>e
    <2> QED
      BY <2>1, <2>2, <2>3, <1>n, NoteTouched
  <1>3. ASSUME NEW n \in NoteId, ReleaseOneWindow(n) PROVE NotifyInv'
    <2> DEFINE x == [notes[n] EXCEPT !.ready = TRUE]
    <2>1. x \in NoteRow /\ x.sources = notes[n].sources /\ x.collapsed = notes[n].collapsed
          /\ x.ready = TRUE /\ x.window = notes[n].window
      BY <1>n DEF NoteRow
    <2>2. notes' = [notes EXCEPT ![n] = x] /\ notes[n].sources # {} /\ notes[n].window # "open"
          /\ UNCHANGED <<edits, rules, chans, putRule, handled, sends, courier, matched, delivered, unsure>>
      BY <1>3 DEF ReleaseOneWindow, Exists, Available
    <2> HIDE DEF x
    <2>3. edits' \in 0..MaxEdits
      BY <2>2, <1>e
    <2> QED
      BY <2>1, <2>2, <2>3, <1>n, NoteTouched
  <1>4. ASSUME NEW r \in NotifyRule, DeleteRule(r) PROVE NotifyInv'
    <2>1. NoRule \in RuleRow
      BY DEF NoRule, RuleRow
    <2>2. rules' = [rules EXCEPT ![r] = NoRule] /\ edits < MaxEdits /\ edits' = edits + 1
          /\ UNCHANGED <<chans, putRule, handled, notes, sends, courier, matched, delivered, unsure>>
      BY <1>4 DEF DeleteRule
    <2>3. rules' \in [NotifyRule -> RuleRow] /\ edits' \in 0..MaxEdits
      BY <2>1, <2>2, <1>r, <1>e
    <2> QED
      BY <2>2, <2>3, <1>r, NotifyRest
  <1>5. ASSUME NEW r \in NotifyRule, NEW x \in RuleRow, NormalizeRule(r, x) PROVE NotifyInv'
    <2>2. putRule' = {<<r, x>>} /\ edits < MaxEdits /\ edits' = edits + 1
          /\ UNCHANGED <<rules, chans, handled, notes, sends, courier, matched, delivered, unsure>>
      BY <1>5 DEF NormalizeRule
    <2>3. edits' \in 0..MaxEdits
      BY <2>2, <1>e
    <2> QED
      BY <2>2, <2>3, <1>r, NotifyRest
  <1>6. ASSUME PutRule PROVE NotifyInv'
    <2>1. PICK p \in putRule : rules' = [rules EXCEPT ![p[1]] = p[2]]
      BY <1>6 DEF PutRule
    <2>2. p[2] \in RuleRow
      BY <2>1, <1>r
    <2>3. putRule' = {} /\ UNCHANGED <<edits, chans, handled, notes, sends, courier, matched, delivered, unsure>>
      BY <1>6 DEF PutRule
    <2>4. rules' \in [NotifyRule -> RuleRow]
      BY <2>1, <2>2, <1>r
    <2> QED
      BY <2>3, <2>4, <1>r, <1>e, NotifyRest
  <1>7. ASSUME NEW c \in NotifyChannel, DeleteChannel(c) PROVE NotifyInv'
    <2>1. chans' = [chans EXCEPT ![c] = "absent"] /\ rules' = DetachChannel(c)
          /\ edits < MaxEdits /\ edits' = edits + 1
          /\ UNCHANGED <<putRule, handled, notes, sends, courier, matched, delivered, unsure>>
      BY <1>7 DEF DeleteChannel
    <2>2. ASSUME NEW r \in NotifyRule PROVE [rules[r] EXCEPT !.channels = @ \ {c}] \in RuleRow
      <3>1. rules[r] \in RuleRow
        BY <1>r
      <3> QED
        BY <3>1 DEF RuleRow
    <2>3. rules' \in [NotifyRule -> RuleRow]
      BY <2>1, <2>2 DEF DetachChannel
    <2>4. chans' \in [NotifyChannel -> {"absent", "off", "on"}] /\ edits' \in 0..MaxEdits
      BY <2>1, <1>r, <1>e
    <2> QED
      BY <2>1, <2>3, <2>4, <1>r, NotifyRest
  <1>8. ASSUME NEW c \in NotifyChannel, NEW on \in BOOLEAN, PutChannel(c, on) PROVE NotifyInv'
    <2>1. /\ chans' = [chans EXCEPT ![c] = IF on THEN "on" ELSE "off"]
          /\ rules' = rules \/ rules' = AttachToPluginAlert(c)
          /\ edits < MaxEdits /\ edits' = edits + 1
          /\ UNCHANGED <<putRule, handled, notes, sends, courier, matched, delivered, unsure>>
      BY <1>8 DEF PutChannel
    <2>2. rules[AlertRule] \in RuleRow /\ AlertRule \in NotifyRule
      BY <1>r, NotifyConstants
    <2> DEFINE x == [rules[AlertRule] EXCEPT !.channels = @ \cup {c}]
    <2>3. x \in RuleRow
      BY <2>2 DEF RuleRow
    <2>4. AttachToPluginAlert(c) = rules \/ AttachToPluginAlert(c) = [rules EXCEPT ![AlertRule] = x]
      BY DEF AttachToPluginAlert
    <2> HIDE DEF x
    <2>5. rules' \in [NotifyRule -> RuleRow]
      BY <2>1, <2>2, <2>3, <2>4, <1>r
    <2>6. chans' \in [NotifyChannel -> {"absent", "off", "on"}] /\ edits' \in 0..MaxEdits
      BY <2>1, <1>r, <1>e
    <2> QED
      BY <2>1, <2>5, <2>6, <1>r, NotifyRest
  <1>9. CASE UNCHANGED notifyVars
    BY <1>9, <1>r, <1>e, NotifyRest DEF notifyVars
  <1> HIDE DEF NotifyInv
  <1>10. CASE NotifyNext
    <2>1. CASE NotifyWork
      BY <2>1, <1>3, SendStepKeeps DEF NotifyWork
    <2>2. CASE NotifyTime
      BY <2>2, <1>2, SendStepKeeps DEF NotifyTime
    <2>3. CASE NotifyAdmin
      BY <2>3, <1>1, <1>4, <1>5, <1>6, <1>7, <1>8 DEF NotifyAdmin
    <2>4. CASE ResultLost
      BY <2>4, SendStepKeeps
    <2>5. CASE \E M \in SUBSET EnabledRules : \E B \in SUBSET M, atEnd \in BOOLEAN : HandleEvent(M, B, atEnd)
      BY <2>5, EventKeeps
    <2> QED
      BY <1>10, <2>1, <2>2, <2>3, <2>4, <2>5 DEF NotifyNext
  <1> QED
    BY <1>9, <1>10

(* Every event a rule matched is told by exactly one notification of that  *)
(* rule, counted once; what reaches the far side was released, reaches it  *)
(* once and once more per lost result, and is recorded as it was, for any  *)
(* rules, channels, events and attempts (notifications/handler.go,         *)
(* applyRule, attachThrottle; deliver.go, claimOne, completeSend,          *)
(* failSend).                                                              *)
THEOREM EventsAreToldOnce == NotifySpec => []NotifySafe
  BY NotifyStart, NotifyKeeps, NotifyMeans, PTL DEF NotifySpec
=============================================================================
