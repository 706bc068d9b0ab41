----------------------------- MODULE JobsProofs -----------------------------
(***************************************************************************)
(* Proofs about Jobs, for every number of jobs, definitions, attempts,     *)
(* processes and disables.                                                 *)
(*                                                                         *)
(* The argument has two halves.  RowStep reduces the some thirty actions   *)
(* to the seven ways RowChange in which they may change one row of         *)
(* core_jobs; everything said of rows follows from RowChange alone.        *)
(* AttStep does the same for the goroutines.  The inductive invariant is   *)
(* JobInv: rows hold a lease exactly while active, count attempts with     *)
(* their fence, and have one left while waiting; goroutines have distinct  *)
(* fences that never run ahead of their row.                               *)
(***************************************************************************)
EXTENDS Jobs, FiniteSetTheorems, TLAPS

(* A waiting row has an attempt left: ClaimDead is only about lost leases. *)
WaitingHasAttempts ==
    \A j \in JobIds :
        /\ row[j].state \in Waiting => row[j].attempt < MaxAttemptsOf(j)
        /\ row[j].state = "none" => row[j].attempt = 0

(* Goroutines never run ahead of their row, and no two share a fence. *)
FencesOrdered ==
    /\ \A a \in att : a.fence <= row[a.job].fence /\ a.attempt = a.fence
    /\ \A a, b \in att : a.job = b.job /\ a.fence = b.fence => a = b

(* The process may start again only within the bound. *)
DownCanStart == mode = "down" => epoch < MaxEpochs

RowInv == LeaseHeld /\ AttemptsBounded /\ WaitingHasAttempts

JobInv == TypeOK /\ RowInv /\ FencesOrdered /\ DownCanStart

-----------------------------------------------------------------------------
(* How a row may change. *)

Inserted(j, r) ==
    /\ row[j].state = "none" /\ r.state = "pending"
    /\ r.attempt = 0 /\ r.fence = 0 /\ r.owner = 0 /\ r.lease = "none"
    /\ row[j].attempt = 0
    /\ r.key # NoKey => Holders(r.def, r.key) = {}

Begun(j, r) ==
    /\ row[j].state \in Waiting \cup {"running"} /\ r.state = "running"
    /\ r.def = row[j].def /\ r.key = row[j].key
    /\ row[j].attempt < MaxAttemptsOf(j)
    /\ Cardinality(Occupied(j)) < Concurrency[row[j].def]
    /\ r.attempt = row[j].attempt + 1 /\ r.fence = row[j].fence + 1
    /\ r.owner # 0 /\ r.lease = "live"

Same(j, r) ==
    /\ r.def = row[j].def /\ r.key = row[j].key
    /\ r.attempt = row[j].attempt /\ r.fence = row[j].fence

KeepsLease(j, r) == r.owner = row[j].owner /\ (r.lease = "none" <=> row[j].lease = "none")

DropsLease(r) == r.owner = 0 /\ r.lease = "none"

Touched(j, r) == Same(j, r) /\ r.state = row[j].state /\ KeepsLease(j, r)

Requested(j, r) ==
    Same(j, r) /\ row[j].state \in Active /\ r.state = "cancel_requested" /\ KeepsLease(j, r)

Retried(j, r) ==
    /\ Same(j, r) /\ row[j].state \in Active /\ r.state = "retry_wait" /\ DropsLease(r)
    /\ row[j].attempt < MaxAttemptsOf(j)

Ended(j, r) ==
    /\ Same(j, r) /\ DropsLease(r)
    /\ \/ row[j].state \in Waiting /\ r.state = "cancelled"
       \/ row[j].state \in Active /\ r.state \in Terminal

Removed(j, r) ==
    Same(j, r) /\ row[j].state \in Terminal /\ r.state = "swept" /\ KeepsLease(j, r)

RowChange(j, r) ==
    /\ r \in Row
    /\ \/ Inserted(j, r) \/ Begun(j, r) \/ Touched(j, r) \/ Requested(j, r)
       \/ Retried(j, r) \/ Ended(j, r) \/ Removed(j, r)

RowChanges ==
    \/ row' = row
    \/ \E j \in JobIds : \E r \in Row : row' = [row EXCEPT ![j] = r] /\ RowChange(j, r)

-----------------------------------------------------------------------------
(* Typing facts used throughout. *)

LEMMA RowOfJob ==
    ASSUME TypeOK, NEW j \in JobIds
    PROVE  /\ row[j] \in Row /\ row[j].state \in States /\ row[j].def \in Defs
           /\ row[j].attempt \in Nat /\ row[j].fence \in Nat
           /\ MaxAttemptsOf(j) \in Nat \ {0} /\ Concurrency[row[j].def] \in Nat \ {0}
BY DefAssumption DEF TypeOK, Row, MaxAttemptsOf

LEMMA FinishedType ==
    ASSUME TypeOK, NEW j \in JobIds, NEW s \in States
    PROVE  /\ Finished(j, s) \in Row
           /\ Same(j, Finished(j, s)) /\ DropsLease(Finished(j, s))
           /\ Finished(j, s).state = s
<1>1. row[j] \in Row
  BY RowOfJob
<1>2. 0 \in 0..MaxEpochs
  BY JobBoundAssumption
<1>3. QED
  BY <1>1, <1>2 DEF Row, Finished, Same, DropsLease

LEMMA AttemptOfAtt ==
    ASSUME TypeOK, NEW a \in att
    PROVE  /\ a \in Attempt /\ a.job \in JobIds /\ a.fence \in Nat /\ a.attempt \in Nat
           /\ a.pc \in Pcs
BY DEF TypeOK, Attempt

LEMMA StateFacts ==
    /\ Waiting \subseteq States /\ Active \subseteq States /\ Terminal \subseteq States
    /\ Waiting \cap Active = {} /\ Waiting \cap Terminal = {} /\ Active \cap Terminal = {}
    /\ "none" \notin Waiting \cup Active \cup Terminal
    /\ "swept" \notin Waiting \cup Active \cup Terminal
BY DEF States, Waiting, Active, Terminal

-----------------------------------------------------------------------------
(* The actions that change a row, one lemma each. *)

LEMMA Witnessed ==
    ASSUME NEW j \in JobIds, NEW r, RowChange(j, r), row' = [row EXCEPT ![j] = r]
    PROVE  RowChanges
BY DEF RowChanges, RowChange

LEMMA NoRowType == NoRow \in Row
<1>1. (CHOOSE d \in Defs : TRUE) \in Defs
  BY DefAssumption
<1>2. (CHOOSE p \in Priorities : TRUE) \in Priorities
  BY JobBoundAssumption
<1>3. 0 \in 0..MaxEpochs
  BY JobBoundAssumption
<1>4. QED
  BY <1>1, <1>2, <1>3 DEF NoRow, Row, States

LEMMA EnqueueRow ==
    ASSUME JobInv, NEW j \in JobIds, NEW d \in Defs, NEW k \in Keys \cup {NoKey},
           NEW prio \in Priorities, NEW due \in BOOLEAN, Enqueue(j, d, k, prio, due)
    PROVE  RowChanges
<1> DEFINE r == [NoRow EXCEPT !.state = "pending", !.def = d, !.key = k,
                              !.prio = prio, !.due = due]
<1>1. r \in Row /\ r.state = "pending" /\ r.attempt = 0 /\ r.fence = 0 /\ r.owner = 0
      /\ r.lease = "none" /\ r.def = d /\ r.key = k
  <2>1. "pending" \in States
    BY DEF States, Waiting
  <2>2. NoRow.attempt = 0 /\ NoRow.fence = 0 /\ NoRow.owner = 0 /\ NoRow.lease = "none"
    BY DEF NoRow
  <2>3. QED
    BY <2>1, <2>2, NoRowType DEF Row
<1>2. row[j].state = "none" /\ row[j].attempt = 0
  BY DEF Enqueue, JobInv, RowInv, WaitingHasAttempts
<1>3. k # NoKey => Holders(d, k) = {}
  BY DEF Enqueue
<1>4. row' = [row EXCEPT ![j] = r]
  BY DEF Enqueue
<1> HIDE DEF r
<1>5. RowChange(j, r)
  BY <1>1, <1>2, <1>3 DEF RowChange, Inserted
<1>6. QED
  BY <1>4, <1>5, Witnessed

LEMMA CancelRow ==
    ASSUME JobInv, NEW j \in JobIds, Cancellable(j), CancelTx(j)
    PROVE  RowChanges
<1> DEFINE s == IF row[j].state \in Waiting THEN "cancelled" ELSE "cancel_requested"
           r == [row[j] EXCEPT !.state = s]
<1>1. row[j] \in Row
  BY RowOfJob DEF JobInv
<1>2. s \in States
  BY DEF States, Active, Terminal
<1>3. r \in Row /\ r.state = s /\ Same(j, r) /\ KeepsLease(j, r)
  BY <1>1, <1>2 DEF Row, Same, KeepsLease
<1>4. row' = [row EXCEPT ![j] = r]
  BY DEF CancelTx
<1>5. CASE row[j].state \in Waiting
  <2>1. row[j].state \notin Active
    BY <1>5, StateFacts
  <2>2. row[j].owner = 0 /\ row[j].lease = "none"
    BY <2>1 DEF JobInv, RowInv, LeaseHeld
  <2>3. DropsLease(r) /\ r.state = "cancelled"
    BY <1>3, <1>5, <2>2 DEF DropsLease, KeepsLease
  <2> HIDE DEF r
  <2>4. QED
    BY <1>3, <1>4, <1>5, <2>3, Witnessed DEF RowChange, Ended
<1>6. CASE row[j].state \in Active
  <2>1. r.state = "cancel_requested"
    BY <1>3, <1>6, StateFacts
  <2> HIDE DEF r
  <2>2. QED
    BY <1>3, <1>4, <1>6, <2>1, Witnessed DEF RowChange, Requested
<1>7. QED
  BY <1>5, <1>6 DEF Cancellable

(* Closing a row that may be closed. *)
LEMMA FinishedRow ==
    ASSUME TypeOK, NEW j \in JobIds, NEW s \in Terminal, NEW r \in Row,
           r.state = s, Same(j, r), DropsLease(r), row' = [row EXCEPT ![j] = r],
           row[j].state \in Active \/ (row[j].state \in Waiting /\ s = "cancelled")
    PROVE  RowChanges
<1>1. RowChange(j, r)
  BY DEF RowChange, Ended
<1>2. QED
  BY <1>1, Witnessed

LEMMA ClaimCancelsRow ==
    ASSUME JobInv, NEW j \in JobIds, ClaimCancels(j)
    PROVE  RowChanges
<1>1. TypeOK /\ "cancelled" \in Terminal
  BY DEF JobInv, Terminal
<1>2. /\ Finished(j, "cancelled") \in Row
      /\ Same(j, Finished(j, "cancelled")) /\ DropsLease(Finished(j, "cancelled"))
      /\ Finished(j, "cancelled").state = "cancelled"
  BY <1>1, FinishedType, StateFacts
<1>3. row' = [row EXCEPT ![j] = Finished(j, "cancelled")]
  BY DEF ClaimCancels
<1>4. row[j].state \in Active \/ row[j].state \in Waiting
  BY DEF ClaimCancels, MayClaim, Eligible
<1>5. QED
  BY <1>1, <1>2, <1>3, <1>4, FinishedRow

(* Only a lost attempt is found exhausted: a waiting row has one left. *)
LEMMA ClaimDeadRow ==
    ASSUME JobInv, NEW j \in JobIds, ClaimDead(j)
    PROVE  RowChanges
<1> DEFINE r == [Finished(j, "dead") EXCEPT !.error = "lease"]
<1>1. TypeOK /\ "dead" \in Terminal
  BY DEF JobInv, Terminal
<1>2. /\ Finished(j, "dead") \in Row
      /\ Same(j, Finished(j, "dead")) /\ DropsLease(Finished(j, "dead"))
      /\ Finished(j, "dead").state = "dead"
  BY <1>1, FinishedType, StateFacts
<1>3. r \in Row /\ Same(j, r) /\ DropsLease(r) /\ r.state = "dead"
  BY <1>2 DEF Row, Same, DropsLease
<1>4. row' = [row EXCEPT ![j] = r]
  BY DEF ClaimDead
<1>5. row[j].state \in Active
  <2>1. row[j].state \in Active \/ row[j].state \in Waiting
    BY DEF ClaimDead, Admissible, MayClaim, Eligible
  <2>2. row[j].attempt \in Nat /\ MaxAttemptsOf(j) \in Nat
    BY <1>1, RowOfJob
  <2>3. ~ (row[j].attempt < MaxAttemptsOf(j))
    BY <2>2 DEF ClaimDead, Exhausted
  <2>4. row[j].state \notin Waiting
    BY <2>3 DEF JobInv, RowInv, WaitingHasAttempts
  <2>5. QED
    BY <2>1, <2>4
<1> HIDE DEF r
<1>6. QED
  BY <1>1, <1>3, <1>4, <1>5, FinishedRow

LEMMA ClaimRunRow ==
    ASSUME JobInv, NEW j \in JobIds, ClaimRun(j)
    PROVE  RowChanges
<1> DEFINE r == Claimed(j)
<1>1. row[j] \in Row /\ row[j].attempt \in Nat /\ row[j].fence \in Nat
      /\ MaxAttemptsOf(j) \in Nat
  BY RowOfJob DEF JobInv
<1>2. epoch \in 0..MaxEpochs /\ epoch # 0 /\ "running" \in States
  BY JobBoundAssumption DEF JobInv, TypeOK, States, Active
<1>3. /\ r \in Row /\ r.state = "running" /\ r.def = row[j].def /\ r.key = row[j].key
      /\ r.attempt = row[j].attempt + 1 /\ r.fence = row[j].fence + 1
      /\ r.owner # 0 /\ r.lease = "live"
  <2>1. row[j].attempt + 1 \in Nat /\ row[j].fence + 1 \in Nat
    BY <1>1
  <2>2. r \in Row
    BY <1>1, <1>2, <2>1 DEF Row, Claimed
  <2>3. QED
    BY <1>1, <1>2, <2>2 DEF Row, Claimed
<1>4. row' = [row EXCEPT ![j] = r]
  BY DEF ClaimRun
<1>5. row[j].attempt < MaxAttemptsOf(j)
  BY <1>1 DEF ClaimRun, Exhausted
<1>6. Cardinality(Occupied(j)) < Concurrency[row[j].def]
  BY DEF ClaimRun, Admissible, MayClaim, Eligible
<1>7. row[j].state \in Waiting \cup {"running"}
  BY DEF ClaimRun, Admissible, MayClaim, Eligible, Active
<1> HIDE DEF r
<1>8. RowChange(j, r)
  BY <1>3, <1>5, <1>6, <1>7 DEF RowChange, Begun
<1>9. QED
  BY <1>4, <1>8, Witnessed

LEMMA FailAttemptRow ==
    ASSUME JobInv, NEW a \in att, NEW result,
           NEW error \in {"handler", "nohandler"}, FailAttempt(a, result, error)
    PROVE  RowChanges
<1> DEFINE j     == a.job
           retry == result # "permanent" /\ a.attempt < MaxAttemptsOf(j)
           final == IF result \in {"permanent", "deferred"} THEN "failed" ELSE "dead"
           s     == IF retry THEN "retry_wait" ELSE final
           r     == [Finished(j, s) EXCEPT !.due = IF retry THEN FALSE ELSE @, !.error = error]
<1>1. TypeOK /\ j \in JobIds /\ s \in States /\ final \in Terminal
  BY AttemptOfAtt DEF JobInv, States, Waiting, Terminal
<1>2. CASE ~ Owns(a)
  BY <1>2 DEF FailAttempt, RowChanges
<1>3. CASE Owns(a)
  <2>1. row' = [row EXCEPT ![j] = r]
    BY <1>3 DEF FailAttempt
  <2>2. /\ Finished(j, s) \in Row /\ Same(j, Finished(j, s)) /\ DropsLease(Finished(j, s))
        /\ Finished(j, s).state = s
    <3> HIDE DEF s
    <3> QED BY <1>1, FinishedType
  <2>3. r \in Row /\ Same(j, r) /\ DropsLease(r) /\ r.state = s
    <3> HIDE DEF s
    <3> QED BY <2>2 DEF Row, Same, DropsLease
  <2>4. row[j].state \in Active
    BY <1>3 DEF Owns
  <2>5. a.attempt = row[j].attempt
    BY <1>1, <1>3 DEF Owns, JobInv, RowInv, AttemptsBounded, FencesOrdered
  <2>6. CASE retry
    <3>1. r.state = "retry_wait" /\ row[j].attempt < MaxAttemptsOf(j)
      BY <2>3, <2>5, <2>6
    <3> HIDE DEF r
    <3>2. RowChange(j, r)
      BY <2>3, <2>4, <3>1 DEF RowChange, Retried
    <3>3. QED
      BY <1>1, <2>1, <3>2, Witnessed
  <2>7. CASE ~ retry
    <3>1. r.state \in Terminal
      BY <1>1, <2>3, <2>7
    <3> HIDE DEF r
    <3>2. QED
      BY <1>1, <2>1, <2>3, <2>4, <3>1, FinishedRow
  <2>8. QED
    BY <2>6, <2>7
<1>4. QED
  BY <1>2, <1>3

LEMMA CloseOwnedRow ==
    ASSUME JobInv, NEW a \in att, FenceCancelOwned(a) \/ FinishSucceeded(a)
    PROVE  RowChanges
<1>1. TypeOK /\ a.job \in JobIds /\ "cancelled" \in Terminal /\ "succeeded" \in Terminal
  BY AttemptOfAtt DEF JobInv, Terminal
<1>2. CASE ~ Owns(a)
  BY <1>2 DEF FenceCancelOwned, FinishSucceeded, RowChanges
<1>3. CASE Owns(a)
  <2>1. PICK s \in Terminal : row' = [row EXCEPT ![a.job] = Finished(a.job, s)]
    BY <1>1, <1>3 DEF FenceCancelOwned, FinishSucceeded
  <2>2. /\ Finished(a.job, s) \in Row /\ Same(a.job, Finished(a.job, s))
        /\ DropsLease(Finished(a.job, s)) /\ Finished(a.job, s).state = s
    BY <1>1, FinishedType, StateFacts
  <2>3. row[a.job].state \in Active
    BY <1>3 DEF Owns
  <2>4. QED
    BY <1>1, <2>1, <2>2, <2>3, FinishedRow
<1>4. QED
  BY <1>2, <1>3

(* Renewing, expiring, falling due and sweeping. *)
LEMMA SmallRow ==
    ASSUME JobInv, NEW j \in JobIds,
           \/ (\E a \in att : a.job = j /\ Owns(a) /\ row' = [row EXCEPT ![j].lease = "live"])
           \/ LeaseExpires(j)
           \/ BecomesDue(j)
           \/ RunRetention(j)
    PROVE  RowChanges
<1>1. row[j] \in Row
  BY RowOfJob DEF JobInv
<1>2. CASE \E a \in att : a.job = j /\ Owns(a) /\ row' = [row EXCEPT ![j].lease = "live"]
  <2> DEFINE r == [row[j] EXCEPT !.lease = "live"]
  <2>1. row[j].lease # "none"
    BY <1>2 DEF Owns, JobInv, RowInv, LeaseHeld
  <2>2. RowChange(j, r)
    BY <1>1, <2>1 DEF RowChange, Touched, Same, KeepsLease, Row
  <2>3. row' = [row EXCEPT ![j] = r]
    BY <1>2
  <2> HIDE DEF r
  <2>4. QED
    BY <2>2, <2>3, Witnessed
<1>3. CASE LeaseExpires(j)
  <2> DEFINE r == [row[j] EXCEPT !.lease = "expired"]
  <2>1. RowChange(j, r)
    BY <1>1, <1>3 DEF LeaseExpires, RowChange, Touched, Same, KeepsLease, Row
  <2>2. row' = [row EXCEPT ![j] = r]
    BY <1>3 DEF LeaseExpires
  <2> HIDE DEF r
  <2>3. QED
    BY <2>1, <2>2, Witnessed
<1>4. CASE BecomesDue(j)
  <2> DEFINE r == [row[j] EXCEPT !.due = TRUE]
  <2>1. RowChange(j, r)
    BY <1>1 DEF RowChange, Touched, Same, KeepsLease, Row
  <2>2. row' = [row EXCEPT ![j] = r]
    BY <1>4 DEF BecomesDue
  <2> HIDE DEF r
  <2>3. QED
    BY <2>1, <2>2, Witnessed
<1>5. CASE RunRetention(j)
  <2> DEFINE r == [row[j] EXCEPT !.state = "swept"]
  <2>1. RowChange(j, r)
    BY <1>1, <1>5 DEF RunRetention, RowChange, Removed, Same, KeepsLease, Row, States
  <2>2. row' = [row EXCEPT ![j] = r]
    BY <1>5 DEF RunRetention
  <2> HIDE DEF r
  <2>3. QED
    BY <2>1, <2>2, Witnessed
<1>6. QED
  BY <1>2, <1>3, <1>4, <1>5

(* Every step changes at most one row, in one of the seven ways. *)
LEMMA RowStep == JobInv /\ [Next]_vars => RowChanges
<1> SUFFICES ASSUME JobInv, [Next]_vars PROVE RowChanges
  OBVIOUS
<1> USE DEF RowChanges
<1>1. CASE UNCHANGED vars
  BY <1>1 DEF vars
<1>2. ASSUME NEW j \in JobIds, NEW d \in Defs, NEW k \in Keys \cup {NoKey},
             NEW prio \in Priorities, NEW due \in BOOLEAN, Enqueue(j, d, k, prio, due)
      PROVE  RowChanges
  BY <1>2, EnqueueRow
<1>3. ASSUME NEW j \in JobIds, Cancel(j) \/ CancelPluginJob(j) PROVE RowChanges
  BY <1>3, CancelRow DEF Cancel, CancelPluginJob
<1>4. ASSUME NEW j \in JobIds, Claim(j) PROVE RowChanges
  BY <1>4, ClaimCancelsRow, ClaimDeadRow, ClaimRunRow DEF Claim
<1>5. ASSUME NEW j \in JobIds, BecomesDue(j) \/ LeaseExpires(j) \/ RunRetention(j)
      PROVE  RowChanges
  BY <1>5, SmallRow
<1>6. ASSUME NEW a \in att, AttemptStep(a) PROVE RowChanges
  <2>1. CASE FailUnhandled(a)
    BY <2>1, FailAttemptRow DEF FailUnhandled
  <2>2. CASE FinishWrite(a)
    BY <2>2, FailAttemptRow, CloseOwnedRow DEF FinishWrite
  <2>3. CASE LookupDef(a) \/ RegisterAttempt(a) \/ CheckCancel(a) \/ FinishRead(a)
             \/ FinishRecheck(a) \/ ExitAttempt(a)
    BY <2>3 DEF LookupDef, RegisterAttempt, CheckCancel, FinishRead, FinishRecheck, ExitAttempt
  <2>4. QED
    BY <1>6, <2>1, <2>2, <2>3 DEF AttemptStep
<1>7. ASSUME NEW a \in att, Heartbeat(a) PROVE RowChanges
  <2>1. a.job \in JobIds
    BY AttemptOfAtt DEF JobInv
  <2>2. CASE Owns(a)
    BY <1>7, <2>1, <2>2, SmallRow DEF Heartbeat
  <2>3. CASE ~ Owns(a)
    BY <1>7, <2>3 DEF Heartbeat
  <2>4. QED
    BY <2>2, <2>3
<1>8. ASSUME NEW a \in att, Progress(a) \/ FlushLogs(a) \/ HandlerStep(a) \/ StorageError(a)
      PROVE  RowChanges
  BY <1>8 DEF Progress, FlushLogs, HandlerStep, HandlerReturns, StorageError
<1>9. ASSUME NEW j \in JobIds, CancelAttempt(j) PROVE RowChanges
  BY <1>9 DEF CancelAttempt
<1>10. ASSUME NEW p \in Plugins,
              Disable(p) \/ Enable(p) \/ NotifyDisabled(p) \/ UnregisterAll(p)
       PROVE  RowChanges
  BY <1>10 DEF Disable, Enable, NotifyDisabled, UnregisterAll
<1>11. ASSUME NEW d \in Defs, RegisterDef(d) PROVE RowChanges
  BY <1>11 DEF RegisterDef
<1>12. CASE Stop \/ Crash \/ Start
  BY <1>12 DEF Stop, Crash, Start
<1> HIDE DEF RowChanges
<1>13. QED
  BY <1>1, <1>2, <1>3, <1>4, <1>5, <1>6, <1>7, <1>8, <1>9, <1>10, <1>11, <1>12 DEF Next

-----------------------------------------------------------------------------
(* What follows from RowChanges alone. *)

LEMMA RowTypeStep ==
    ASSUME TypeOK, RowChanges
    PROVE  row' \in [JobIds -> Row]
BY DEF TypeOK, RowChanges

(* The other rows are untouched. *)
LEMMA OnlyRow ==
    ASSUME TypeOK, NEW j \in JobIds, NEW r \in Row, row' = [row EXCEPT ![j] = r],
           NEW i \in JobIds
    PROVE  row'[i] = IF i = j THEN r ELSE row[i]
BY DEF TypeOK

LEMMA RowInvStep ==
    ASSUME TypeOK, RowInv, RowChanges
    PROVE  RowInv'
<1>1. CASE row' = row
  BY <1>1 DEF RowInv, LeaseHeld, AttemptsBounded, WaitingHasAttempts, MaxAttemptsOf
<1>2. ASSUME NEW j \in JobIds, NEW r \in Row, row' = [row EXCEPT ![j] = r], RowChange(j, r)
      PROVE  RowInv'
  <2>1. ASSUME NEW i \in JobIds PROVE row'[i] = IF i = j THEN r ELSE row[i]
    BY <1>2, OnlyRow
  <2>2. /\ row[j].attempt \in Nat /\ row[j].fence \in Nat
        /\ MaxAttemptsOf(j) \in Nat \ {0}
    BY RowOfJob
  <2>3. r.def \in Defs /\ MaxAttempts[r.def] \in Nat \ {0}
    BY DefAssumption DEF Row
  <2>4. /\ (r.state \in Active) <=> (r.lease # "none")
        /\ (r.state \in Active) <=> (r.owner # 0)
    <3>1. /\ (row[j].state \in Active) <=> (row[j].lease # "none")
          /\ (row[j].state \in Active) <=> (row[j].owner # 0)
      BY DEF RowInv, LeaseHeld
    <3>2. QED
      BY <1>2, <3>1, StateFacts DEF RowChange, Inserted, Begun, Touched, Requested, Retried,
         Ended, Removed, Same, KeepsLease, DropsLease, Active, Waiting, Terminal
  <2>5. /\ r.attempt <= MaxAttempts[r.def] /\ r.fence = r.attempt
        /\ r.state \in Waiting => r.attempt < MaxAttempts[r.def]
        /\ r.state = "none" => r.attempt = 0
    <3>1. /\ row[j].attempt <= MaxAttemptsOf(j) /\ row[j].fence = row[j].attempt
          /\ row[j].state \in Waiting => row[j].attempt < MaxAttemptsOf(j)
          /\ row[j].state = "none" => row[j].attempt = 0
      BY DEF RowInv, AttemptsBounded, WaitingHasAttempts
    <3>2. CASE Inserted(j, r)
      BY <2>3, <3>2 DEF Inserted
    <3>3. CASE Begun(j, r)
      BY <2>2, <3>1, <3>3 DEF Begun, Waiting, MaxAttemptsOf
    <3>4. CASE Touched(j, r) \/ Requested(j, r) \/ Retried(j, r) \/ Ended(j, r) \/ Removed(j, r)
      BY <3>1, <3>4 DEF Touched, Requested, Retried, Ended, Removed, Same, Waiting, Terminal,
         MaxAttemptsOf
    <3>5. QED
      BY <1>2, <3>2, <3>3, <3>4 DEF RowChange
  <2>6. LeaseHeld'
    BY <2>1, <2>4 DEF RowInv, LeaseHeld
  <2>7. AttemptsBounded'
    BY <2>1, <2>5 DEF RowInv, AttemptsBounded, MaxAttemptsOf
  <2>8. WaitingHasAttempts'
    BY <2>1, <2>5 DEF RowInv, WaitingHasAttempts, MaxAttemptsOf
  <2>9. QED
    BY <2>6, <2>7, <2>8 DEF RowInv
<1>3. QED
  BY <1>1, <1>2 DEF RowChanges

LEMMA TerminalStep ==
    ASSUME TypeOK, RowChanges
    PROVE  \A j \in JobIds : row[j].state \in Terminal => row'[j].state \in {row[j].state, "swept"}
<1>1. CASE row' = row
  BY <1>1
<1>2. ASSUME NEW j \in JobIds, NEW r \in Row, row' = [row EXCEPT ![j] = r], RowChange(j, r)
      PROVE  \A i \in JobIds : row[i].state \in Terminal => row'[i].state \in {row[i].state, "swept"}
  <2>1. ASSUME NEW i \in JobIds PROVE row'[i] = IF i = j THEN r ELSE row[i]
    BY <1>2, OnlyRow
  <2>2. row[j].state \in Terminal => r.state \in {row[j].state, "swept"}
    BY <1>2, StateFacts DEF RowChange, Inserted, Begun, Touched, Requested, Retried, Ended,
       Removed, Active, Waiting, Terminal
  <2>3. QED
    BY <2>1, <2>2
<1>3. QED
  BY <1>1, <1>2 DEF RowChanges

LEMMA KeyStep ==
    ASSUME TypeOK, KeysUnique, RowChanges
    PROVE  KeysUnique'
<1>1. CASE row' = row
  BY <1>1 DEF KeysUnique
<1>2. ASSUME NEW j \in JobIds, NEW r \in Row, row' = [row EXCEPT ![j] = r], RowChange(j, r)
      PROVE  KeysUnique'
  <2>1. ASSUME NEW i \in JobIds PROVE row'[i] = IF i = j THEN r ELSE row[i]
    BY <1>2, OnlyRow
  <2>2. ASSUME NEW i \in JobIds, i # j, row[i].state \in Waiting \cup Active,
               r.state \in Waiting \cup Active, row[i].def = r.def, r.key # NoKey
        PROVE  row[i].key # r.key
    <3>1. CASE Inserted(j, r)
      BY <2>2, <3>1 DEF Inserted, Holders
    <3>2. CASE ~ Inserted(j, r)
      <4>1. r.def = row[j].def /\ r.key = row[j].key
        BY <1>2, <3>2 DEF RowChange, Begun, Touched, Requested, Retried, Ended, Removed, Same
      <4>2. row[j].state \in Waiting \cup Active
        BY <1>2, <2>2, <3>2, StateFacts DEF RowChange, Begun, Touched, Requested, Retried,
           Ended, Removed, Waiting, Active, Terminal
      <4>3. QED
        BY <2>2, <4>1, <4>2 DEF KeysUnique
    <3>3. QED
      BY <3>1, <3>2
  <2>3. QED
    BY <2>1, <2>2 DEF KeysUnique
<1>3. QED
  BY <1>1, <1>2 DEF RowChanges

(* The rows that occupy a slot of definition d. *)
Busy(d) == {j \in JobIds : row[j].state \in Active /\ row[j].def = d}

LEMMA JobsFinite == ASSUME NEW S \in SUBSET JobIds PROVE IsFiniteSet(S)
<1>1. IsFiniteSet(JobIds)
  BY JobBoundAssumption, FS_Interval DEF JobIds
<1>2. QED
  BY <1>1, FS_Subset

LEMMA ConcurrencyStep ==
    ASSUME TypeOK, ConcurrencyRespected, RowChanges
    PROVE  ConcurrencyRespected'
<1>1. CASE row' = row
  BY <1>1 DEF ConcurrencyRespected
<1>2. ASSUME NEW j \in JobIds, NEW r \in Row, row' = [row EXCEPT ![j] = r], RowChange(j, r),
             NEW d \in Defs
      PROVE  Cardinality(Busy(d)') <= Concurrency[d]
  <2>1. ASSUME NEW i \in JobIds PROVE row'[i] = IF i = j THEN r ELSE row[i]
    BY <1>2, OnlyRow
  <2>2. /\ Busy(d) \in SUBSET JobIds /\ Busy(d)' \in SUBSET JobIds
        /\ Occupied(j) \in SUBSET JobIds
    BY DEF Busy, Occupied
  <2>3. /\ IsFiniteSet(Busy(d)) /\ IsFiniteSet(Busy(d)') /\ IsFiniteSet(Occupied(j))
        /\ Cardinality(Busy(d)) \in Nat /\ Cardinality(Busy(d)') \in Nat
        /\ Cardinality(Occupied(j)) \in Nat
    BY <2>2, JobsFinite, FS_CardinalityType
  <2>4. Cardinality(Busy(d)) <= Concurrency[d] /\ Concurrency[d] \in Nat
    BY DefAssumption DEF ConcurrencyRespected, Busy
  <2>5. CASE Begun(j, r) /\ d = row[j].def
    <3>1. Busy(d)' \subseteq Occupied(j) \cup {j}
      BY <2>1, <2>5 DEF Busy, Occupied
    <3>2. j \notin Occupied(j)
      BY DEF Occupied
    <3>3. /\ IsFiniteSet(Occupied(j) \cup {j})
          /\ Cardinality(Occupied(j) \cup {j}) = Cardinality(Occupied(j)) + 1
      BY <2>3, <3>2, FS_AddElement
    <3>4. Cardinality(Busy(d)') <= Cardinality(Occupied(j) \cup {j})
      BY <3>1, <3>3, FS_Subset
    <3>5. Cardinality(Occupied(j)) < Concurrency[d]
      BY <2>5 DEF Begun
    <3>6. QED
      BY <2>3, <2>4, <3>3, <3>4, <3>5
  <2>6. CASE ~ (Begun(j, r) /\ d = row[j].def)
    <3>1. r.state \in Active /\ r.def = d => row[j].state \in Active /\ row[j].def = d
      BY <1>2, <2>6, StateFacts DEF RowChange, Inserted, Begun, Touched, Requested, Retried,
         Ended, Removed, Same, Active, Waiting, Terminal
    <3>2. Busy(d)' \subseteq Busy(d)
      BY <2>1, <3>1 DEF Busy
    <3>3. Cardinality(Busy(d)') <= Cardinality(Busy(d))
      BY <2>3, <3>2, FS_Subset
    <3>4. QED
      BY <2>3, <2>4, <3>3
  <2>7. QED
    BY <2>5, <2>6
<1>3. CASE row' # row
  <2>1. \A d \in Defs : Cardinality(Busy(d)') <= Concurrency[d]
    BY <1>2, <1>3 DEF RowChanges
  <2>2. QED
    BY <2>1 DEF Busy, ConcurrencyRespected
<1>4. QED
  BY <1>1, <1>3

-----------------------------------------------------------------------------
(* The refinement: every RowChange is a step of the lifecycle. *)

LEMMA LifeInit == Init => Life!Init
<1> SUFFICES ASSUME Init PROVE Life!Init
  OBVIOUS
<1>1. NoRow \in Row
  BY NoRowType
<1>2. \A j \in JobIds : row[j] = NoRow
  BY DEF Init
<1>3. NoRow.state = "none" /\ NoRow.attempt = 0 /\ NoRow.def \in Defs
  BY <1>1 DEF NoRow, Row
<1>4. QED
  BY <1>2, <1>3 DEF Life!Init

LEMMA SameCardinality == \A S : Life!Cardinality(S) = Cardinality(S)
BY DEF Life!Cardinality, Cardinality

LEMMA LifeStep ==
    ASSUME TypeOK, RowInv, RowChanges
    PROVE  [Life!Next]_(Life!vars)
<1> DEFINE state == [i \in JobIds |-> row[i].state]
           attempt == [i \in JobIds |-> row[i].attempt]
           def == [i \in JobIds |-> row[i].def]
<1>1. CASE row' = row
  BY <1>1 DEF Life!vars
<1>2. ASSUME NEW j \in JobIds, NEW r \in Row, row' = [row EXCEPT ![j] = r], RowChange(j, r)
      PROVE  [Life!Next]_(Life!vars)
  <2>1. ASSUME NEW i \in JobIds PROVE row'[i] = IF i = j THEN r ELSE row[i]
    BY <1>2, OnlyRow
  <2>2. /\ state' = [state EXCEPT ![j] = r.state]
        /\ attempt' = [attempt EXCEPT ![j] = r.attempt]
        /\ def' = [def EXCEPT ![j] = r.def]
    BY <2>1
  <2>3. /\ state[j] = row[j].state /\ attempt[j] = row[j].attempt /\ def[j] = row[j].def
    OBVIOUS
  <2>4. r.def \in Defs
    BY DEF Row
  <2>5. /\ r.def = row[j].def => def' = def
        /\ r.attempt = row[j].attempt => attempt' = attempt
        /\ r.state = row[j].state => state' = state
    BY <2>2
  <2>6. CASE Inserted(j, r)
    <3>1. Life!Enqueue(j)
      BY <2>2, <2>3, <2>4, <2>5, <2>6 DEF Inserted, Life!Enqueue, Life!Become
    <3>2. QED
      BY <3>1 DEF Life!Next
  <2>7. CASE Begun(j, r)
    <3>1. {i \in JobIds \ {j} : state[i] \in Active /\ def[i] = def[j]} = Occupied(j)
      BY DEF Occupied
    <3>2. Life!Begin(j)
      BY <2>2, <2>3, <2>5, <2>7, <3>1, SameCardinality DEF Begun, Life!Begin, Life!Become, MaxAttemptsOf,
         Life!Active, Active, Life!Waiting, Waiting
    <3>3. QED
      BY <3>2 DEF Life!Next
  <2>8. CASE Touched(j, r)
    BY <2>5, <2>8 DEF Touched, Same, Life!vars
  <2>9. CASE Requested(j, r)
    <3>1. Life!RequestCancel(j)
      BY <2>2, <2>3, <2>5, <2>9 DEF Requested, Same, Life!RequestCancel, Life!Become,
         Life!Active, Active
    <3>2. QED
      BY <3>1 DEF Life!Next
  <2>10. CASE Retried(j, r)
    <3>1. Life!Retry(j)
      BY <2>2, <2>3, <2>5, <2>10 DEF Retried, Same, Life!Retry, Life!Become, MaxAttemptsOf,
         Life!Active, Active
    <3>2. QED
      BY <3>1 DEF Life!Next
  <2>11. CASE Ended(j, r)
    <3>1. Life!End(j)
      BY <2>2, <2>3, <2>5, <2>11 DEF Ended, Same, Life!End, Life!Become, Life!Active, Active,
         Life!Waiting, Waiting, Life!Terminal, Terminal
    <3>2. QED
      BY <3>1 DEF Life!Next
  <2>12. CASE Removed(j, r)
    <3>1. Life!Sweep(j)
      BY <2>2, <2>3, <2>5, <2>12 DEF Removed, Same, Life!Sweep, Life!Become,
         Life!Terminal, Terminal
    <3>2. QED
      BY <3>1 DEF Life!Next
  <2>13. QED
    BY <1>2, <2>6, <2>7, <2>8, <2>9, <2>10, <2>11, <2>12 DEF RowChange
<1>3. QED
  BY <1>1, <1>2 DEF RowChanges

-----------------------------------------------------------------------------
(* How the set of goroutines may change. *)

SameAttempt(a, b) == a.job = b.job /\ a.fence = b.fence /\ a.attempt = b.attempt

Moved == \E a \in att : \E b \in Attempt : SameAttempt(a, b) /\ Move(a, b)

Spawned ==
    \E j \in JobIds : \E b \in Attempt :
        /\ b.job = j /\ b.fence = row[j].fence + 1 /\ b.attempt = row[j].attempt + 1
        /\ row'[j].fence = row[j].fence + 1
        /\ att' = att \cup {b}

AttChanges ==
    \/ att' \subseteq att
    \/ Moved
    \/ \E J \in SUBSET JobIds : att' = CancelContexts(J)
    \/ Spawned

LEMMA AttemptFields ==
    ASSUME TypeOK, NEW a \in att
    PROVE  /\ \A pc \in Pcs : At(a, pc) \in Attempt /\ SameAttempt(a, At(a, pc))
           /\ Done(a) \in Attempt /\ SameAttempt(a, Done(a))
           /\ GiveUp(a) \in Attempt /\ SameAttempt(a, GiveUp(a))
<1>1. a \in Attempt
  BY AttemptOfAtt
<1>2. "exit" \in Pcs
  BY DEF Pcs
<1>3. \A pc \in Pcs : At(a, pc) \in Attempt /\ SameAttempt(a, At(a, pc))
  BY <1>1 DEF Attempt, SameAttempt, At
<1>4. Done(a) \in Attempt /\ SameAttempt(a, Done(a))
  BY <1>1, <1>2 DEF Attempt, SameAttempt, Done
<1>5. GiveUp(a) \in Attempt /\ SameAttempt(a, GiveUp(a))
  <2>1. (a.pc = "handler") \in BOOLEAN
    OBVIOUS
  <2>2. QED
    BY <1>1, <2>1 DEF Attempt, SameAttempt, GiveUp
<1>6. QED
  BY <1>3, <1>4, <1>5

LEMMA MovedStep ==
    ASSUME NEW a \in att, NEW b \in Attempt, SameAttempt(a, b), Move(a, b)
    PROVE  AttChanges
BY DEF AttChanges, Moved

(* Every fate FinishRead and its neighbours give a goroutine keeps its identity. *)
LEMMA PlanFields ==
    ASSUME TypeOK, NEW a \in att
    PROVE  /\ LET b == [a EXCEPT !.pc = "write", !.plan = "cancel"]
              IN  b \in Attempt /\ SameAttempt(a, b)
           /\ LET b == [a EXCEPT !.pc = "write", !.plan = "error"]
              IN  b \in Attempt /\ SameAttempt(a, b)
           /\ LET b == [a EXCEPT !.pc = "early", !.plan = "cancel", !.cancelled = FALSE]
              IN  b \in Attempt /\ SameAttempt(a, b)
           /\ LET b == [a EXCEPT !.pc = "handler", !.beats = TRUE]
              IN  b \in Attempt /\ SameAttempt(a, b)
           /\ \A result \in Results :
                 LET b == [a EXCEPT !.pc = "returned", !.plan = result, !.cancelled = FALSE]
                 IN  b \in Attempt /\ SameAttempt(a, b)
<1>1. a \in Attempt
  BY AttemptOfAtt
<1>2. {"write", "early", "handler", "returned"} \subseteq Pcs /\ "error" \in Results
  BY DEF Pcs, Results
<1>3. QED
  BY <1>1, <1>2 DEF Attempt, SameAttempt

LEMMA ClaimRunAtt ==
    ASSUME JobInv, NEW j \in JobIds, ClaimRun(j)
    PROVE  AttChanges
<1> DEFINE b == [job |-> j, fence |-> row[j].fence + 1, attempt |-> row[j].attempt + 1,
                 pc |-> "claimed", cancelled |-> FALSE, beats |-> FALSE, plan |-> "none"]
<1>1. TypeOK /\ row[j] \in Row /\ row[j].attempt \in Nat /\ row[j].fence \in Nat
  BY RowOfJob DEF JobInv
<1>2. b \in Attempt
  BY <1>1 DEF Attempt, Pcs
<1>3. att' = att \cup {b}
  BY DEF ClaimRun
<1>4. row' = [row EXCEPT ![j] = Claimed(j)] /\ row \in [JobIds -> Row]
  BY <1>1 DEF ClaimRun, TypeOK
<1>5. Claimed(j).fence = row[j].fence + 1
  BY <1>1 DEF Claimed, Row
<1>6. row'[j].fence = row[j].fence + 1
  BY <1>4, <1>5
<1>7. b.job = j /\ b.fence = row[j].fence + 1 /\ b.attempt = row[j].attempt + 1
  OBVIOUS
<1> HIDE DEF b
<1>8. QED
  BY <1>2, <1>3, <1>6, <1>7 DEF AttChanges, Spawned

LEMMA AttemptStepAtt ==
    ASSUME JobInv, NEW a \in att, AttemptStep(a) \/ Heartbeat(a) \/ StorageError(a)
    PROVE  AttChanges
<1>1. TypeOK
  BY DEF JobInv
<1>2. CASE LookupDef(a) \/ RegisterAttempt(a)
  <2>1. PICK pc \in Pcs : Move(a, At(a, pc))
    BY <1>2 DEF LookupDef, RegisterAttempt, Pcs
  <2>2. QED
    BY <1>1, <2>1, AttemptFields, MovedStep
<1>3. CASE FailUnhandled(a) \/ ExitAttempt(a)
  BY <1>3 DEF FailUnhandled, ExitAttempt, AttChanges
<1>4. CASE CheckCancel(a)
  BY <1>1, <1>4, PlanFields, MovedStep DEF CheckCancel
<1>5. ASSUME Move(a, NotCancelled(a)) PROVE AttChanges
  BY <1>1, <1>5, AttemptFields, PlanFields, MovedStep DEF NotCancelled
<1>6. CASE FinishRecheck(a)
  BY <1>1, <1>5, <1>6, PlanFields, MovedStep DEF FinishRecheck
<1>7. CASE FinishRead(a)
  <2>1. \/ Move(a, Done(a)) \/ Move(a, At(a, "recheck")) \/ Move(a, At(a, "write"))
        \/ Move(a, [a EXCEPT !.pc = "write", !.plan = "cancel"])
    BY <1>7 DEF FinishRead
  <2>2. "recheck" \in Pcs /\ "write" \in Pcs
    BY DEF Pcs
  <2>3. QED
    BY <1>1, <2>1, <2>2, AttemptFields, PlanFields, MovedStep
<1>8. CASE FinishWrite(a)
  BY <1>1, <1>8, AttemptFields, MovedStep DEF FinishWrite
<1>9. CASE Heartbeat(a)
  <2>1. att' = att \/ Move(a, GiveUp(a))
    BY <1>9 DEF Heartbeat
  <2>2. CASE att' = att
    BY <2>2 DEF AttChanges
  <2>3. CASE Move(a, GiveUp(a))
    BY <1>1, <2>3, AttemptFields, MovedStep
  <2>4. QED
    BY <2>1, <2>2, <2>3
<1>10. CASE StorageError(a)
  <2>1. \/ Move(a, Done(a)) \/ att' = att \ {a} \/ Move(a, NotCancelled(a)) \/ Move(a, GiveUp(a))
        \/ Move(a, [a EXCEPT !.pc = "handler", !.beats = TRUE])
    BY <1>10 DEF StorageError
  <2>2. CASE att' = att \ {a}
    BY <2>2 DEF AttChanges
  <2>3. CASE Move(a, Done(a)) \/ Move(a, GiveUp(a))
    BY <1>1, <2>3, AttemptFields, MovedStep
  <2>4. CASE Move(a, [a EXCEPT !.pc = "handler", !.beats = TRUE])
    BY <1>1, <2>4, PlanFields, MovedStep
  <2>5. QED
    BY <1>5, <2>1, <2>2, <2>3, <2>4
<1>11. QED
  BY <1>2, <1>3, <1>4, <1>6, <1>7, <1>8, <1>9, <1>10 DEF AttemptStep

LEMMA AttStep == JobInv /\ [Next]_vars => AttChanges
<1> SUFFICES ASSUME JobInv, [Next]_vars PROVE AttChanges
  OBVIOUS
<1>1. CASE UNCHANGED vars
  BY <1>1 DEF vars, procVars, AttChanges
<1>2. ASSUME NEW j \in JobIds, NEW d \in Defs, NEW k \in Keys \cup {NoKey},
             NEW prio \in Priorities, NEW due \in BOOLEAN, Enqueue(j, d, k, prio, due)
      PROVE  AttChanges
  BY <1>2 DEF Enqueue, procVars, AttChanges
<1>3. ASSUME NEW j \in JobIds,
             \/ Cancel(j) \/ CancelPluginJob(j) \/ BecomesDue(j) \/ LeaseExpires(j)
             \/ RunRetention(j) \/ ClaimCancels(j) \/ ClaimDead(j)
      PROVE  AttChanges
  BY <1>3 DEF Cancel, CancelPluginJob, BecomesDue, LeaseExpires, RunRetention,
     ClaimCancels, ClaimDead, procVars, AttChanges
<1>4. ASSUME NEW j \in JobIds, CancelAttempt(j) PROVE AttChanges
  BY <1>4 DEF CancelAttempt, AttChanges
<1>5. ASSUME NEW j \in JobIds, Claim(j) PROVE AttChanges
  BY <1>3, <1>5, ClaimRunAtt DEF Claim
<1>6. ASSUME NEW a \in att, AttemptStep(a) \/ Heartbeat(a) \/ StorageError(a)
      PROVE  AttChanges
  BY <1>6, AttemptStepAtt
<1>7. ASSUME NEW a \in att, Progress(a) \/ FlushLogs(a) PROVE AttChanges
  BY <1>7 DEF Progress, FlushLogs, AttChanges
<1>8. ASSUME NEW a \in att, HandlerStep(a) PROVE AttChanges
  <2>1. PICK result \in Results :
           Move(a, [a EXCEPT !.pc = "returned", !.plan = result, !.cancelled = FALSE])
    BY <1>8, ResultAssumption DEF HandlerStep, HandlerReturns
  <2>2. TypeOK
    BY DEF JobInv
  <2>3. QED
    BY <2>1, <2>2, PlanFields, MovedStep
<1>9. ASSUME NEW p \in Plugins,
             Disable(p) \/ Enable(p) \/ NotifyDisabled(p) \/ UnregisterAll(p)
      PROVE  AttChanges
  BY <1>9 DEF Disable, Enable, NotifyDisabled, UnregisterAll, procVars, AttChanges
<1>10. ASSUME NEW d \in Defs, RegisterDef(d) PROVE AttChanges
  BY <1>10 DEF RegisterDef, AttChanges
<1>11. CASE Stop
  BY <1>11 DEF Stop, AttChanges
<1>12. CASE Crash \/ Start
  BY <1>12 DEF Crash, Start, procVars, AttChanges
<1>13. QED
  BY <1>1, <1>2, <1>3, <1>4, <1>5, <1>6, <1>7, <1>8, <1>9, <1>10, <1>11, <1>12 DEF Next

(* A row's fence never goes back. *)
LEMMA FenceGrows ==
    ASSUME TypeOK, RowInv, RowChanges, NEW i \in JobIds
    PROVE  row'[i].fence \in Nat /\ row[i].fence <= row'[i].fence
<1>1. row[i].fence \in Nat
  BY RowOfJob
<1>2. CASE row' = row
  BY <1>1, <1>2
<1>3. ASSUME NEW j \in JobIds, NEW r \in Row, row' = [row EXCEPT ![j] = r], RowChange(j, r)
      PROVE  row'[i].fence \in Nat /\ row[i].fence <= row'[i].fence
  <2>1. row'[i] = IF i = j THEN r ELSE row[i]
    BY <1>3, OnlyRow
  <2>2. r.fence \in Nat /\ row[j].fence \in Nat
    BY RowOfJob DEF Row
  <2>3. row[j].fence = row[j].attempt
    BY DEF RowInv, AttemptsBounded
  <2>4. row[j].fence <= r.fence
    BY <1>3, <2>2, <2>3 DEF RowChange, Inserted, Begun, Touched, Requested, Retried, Ended,
       Removed, Same
  <2>5. QED
    BY <1>1, <2>1, <2>2, <2>4
<1>4. QED
  BY <1>2, <1>3 DEF RowChanges

LEMMA FencesStep ==
    ASSUME JobInv, RowChanges, AttChanges
    PROVE  att' \subseteq Attempt /\ FencesOrdered'
<1>1. TypeOK /\ RowInv /\ FencesOrdered /\ att \subseteq Attempt
  BY DEF JobInv, TypeOK
<1>2. \A i \in JobIds : row[i].fence \in Nat /\ row'[i].fence \in Nat
                        /\ row[i].fence <= row'[i].fence
  BY <1>1, FenceGrows, RowOfJob
<1>3. \A a \in att : a.job \in JobIds /\ a.fence \in Nat
  BY <1>1 DEF Attempt
<1>4. \A a \in att : a.fence <= row'[a.job].fence /\ a.attempt = a.fence
  BY <1>1, <1>2, <1>3 DEF FencesOrdered
<1>5. CASE att' \subseteq att
  BY <1>1, <1>4, <1>5 DEF FencesOrdered
<1>6. ASSUME NEW a \in att, NEW b \in Attempt, SameAttempt(a, b), Move(a, b)
      PROVE  att' \subseteq Attempt /\ FencesOrdered'
  <2>1. att' = (att \ {a}) \cup {b}
    BY <1>6 DEF Move
  <2>2. b.fence <= row'[b.job].fence /\ b.attempt = b.fence
    BY <1>4, <1>6 DEF SameAttempt
  <2>3. \A c \in att \ {a} : ~ (c.job = b.job /\ c.fence = b.fence)
    BY <1>1, <1>6 DEF SameAttempt, FencesOrdered
  <2>4. QED
    BY <1>1, <1>4, <1>6, <2>1, <2>2, <2>3 DEF FencesOrdered
<1>7. ASSUME NEW J \in SUBSET JobIds, att' = CancelContexts(J)
      PROVE  att' \subseteq Attempt /\ FencesOrdered'
  <2> DEFINE image(a) == IF a.job \in J /\ Registered(a) /\ a.pc \in {"registered", "handler"}
                           THEN [a EXCEPT !.cancelled = TRUE] ELSE a
  <2>1. att' = {image(a) : a \in att}
    BY <1>7 DEF CancelContexts
  <2>2. ASSUME NEW a \in att PROVE image(a) \in Attempt /\ SameAttempt(a, image(a))
    <3>1. a \in Attempt
      BY <1>1
    <3>2. QED
      BY <3>1 DEF Attempt, SameAttempt
  <2> HIDE DEF image
  <2>3. ASSUME NEW a \in att, NEW c \in att,
               image(a).job = image(c).job, image(a).fence = image(c).fence
        PROVE  image(a) = image(c)
    BY <1>1, <2>2, <2>3 DEF SameAttempt, FencesOrdered
  <2>4. QED
    BY <1>4, <2>1, <2>2, <2>3 DEF SameAttempt, FencesOrdered
<1>8. CASE Spawned
  <2>1. PICK j \in JobIds, b \in Attempt :
          /\ b.job = j /\ b.fence = row[j].fence + 1 /\ b.attempt = row[j].attempt + 1
          /\ row'[j].fence = row[j].fence + 1
          /\ att' = att \cup {b}
    BY <1>8 DEF Spawned
  <2>2. b.attempt = b.fence
    BY <1>1, <2>1 DEF RowInv, AttemptsBounded
  <2>3. \A c \in att : c.job = b.job => c.fence # b.fence
    BY <1>1, <1>2, <1>3, <2>1 DEF FencesOrdered
  <2>4. b.fence <= row'[b.job].fence
    BY <1>2, <2>1
  <2>5. QED
    BY <1>1, <1>4, <2>1, <2>2, <2>3, <2>4 DEF FencesOrdered
<1>9. QED
  BY <1>5, <1>6, <1>7, <1>8 DEF AttChanges, Moved

-----------------------------------------------------------------------------
(* The rest of the state. *)

Counts == [started : Nat, failed : Nat, ended : Nat]

OtherTypes ==
    /\ enabled \subseteq Plugins /\ defs \subseteq Defs /\ attempts \in [JobIds -> Nat]
    /\ ctxCancels \subseteq JobIds /\ notices \subseteq Plugins /\ cancelling \subseteq JobIds
    /\ epoch \in 1..MaxEpochs /\ mode \in {"up", "stopping", "down"}
    /\ disables \in 0..MaxDisables /\ published \in [JobIds -> Counts]
    /\ DownCanStart

LEMMA PublishType ==
    ASSUME published \in [JobIds -> Counts], NEW j \in JobIds, NEW K
    PROVE  Publish(j, K) \in [JobIds -> Counts]
<1>1. published[j].started \in Nat /\ published[j].failed \in Nat /\ published[j].ended \in Nat
  BY DEF Counts
<1>2. QED
  BY <1>1 DEF Publish, Counts

LEMMA CancelTxType ==
    ASSUME OtherTypes, NEW j \in JobIds, CancelTx(j)
    PROVE  published' \in [JobIds -> Counts]
BY PublishType DEF CancelTx, OtherTypes

LEMMA FailAttemptType ==
    ASSUME OtherTypes, NEW a, a.job \in JobIds, NEW result, NEW error,
           FailAttempt(a, result, error)
    PROVE  published' \in [JobIds -> Counts]
<1>1. CASE Owns(a)
  <2>1. PICK K : published' = Publish(a.job, K)
    BY <1>1 DEF FailAttempt
  <2>2. QED
    BY <2>1, PublishType DEF OtherTypes
<1>2. CASE ~ Owns(a)
  BY <1>2 DEF FailAttempt, OtherTypes
<1>3. QED
  BY <1>1, <1>2

LEMMA CloseOwnedType ==
    ASSUME OtherTypes, NEW a, a.job \in JobIds, FenceCancelOwned(a) \/ FinishSucceeded(a)
    PROVE  published' \in [JobIds -> Counts]
BY PublishType DEF FenceCancelOwned, FinishSucceeded, OtherTypes

LEMMA OthersStep == JobInv /\ OtherTypes /\ [Next]_vars => OtherTypes'
<1> SUFFICES ASSUME JobInv, OtherTypes, [Next]_vars PROVE OtherTypes'
  OBVIOUS
<1> USE DEF OtherTypes, DownCanStart
<1>1. CASE UNCHANGED vars
  BY <1>1 DEF vars, procVars
<1>2. ASSUME NEW j \in JobIds, NEW d \in Defs, NEW k \in Keys \cup {NoKey},
             NEW prio \in Priorities, NEW due \in BOOLEAN, Enqueue(j, d, k, prio, due)
      PROVE  OtherTypes'
  BY <1>2 DEF Enqueue, procVars
<1>3. ASSUME NEW j \in JobIds, BecomesDue(j) \/ LeaseExpires(j) \/ RunRetention(j)
      PROVE  OtherTypes'
  BY <1>3 DEF BecomesDue, LeaseExpires, RunRetention, procVars
<1>4. ASSUME NEW j \in JobIds, Cancel(j) \/ CancelPluginJob(j) PROVE OtherTypes'
  <2>1. published' \in [JobIds -> Counts]
    BY <1>4, CancelTxType DEF Cancel, CancelPluginJob
  <2>2. CASE Cancel(j)
    BY <2>1, <2>2 DEF Cancel
  <2>3. CASE CancelPluginJob(j)
    BY <2>1, <2>3 DEF CancelPluginJob
  <2>4. QED
    BY <1>4, <2>2, <2>3
<1>5. ASSUME NEW j \in JobIds, CancelAttempt(j) PROVE OtherTypes'
  BY <1>5 DEF CancelAttempt
<1>6. ASSUME NEW j \in JobIds, Claim(j) PROVE OtherTypes'
  <2>1. published' \in [JobIds -> Counts]
    BY <1>6, PublishType DEF Claim, ClaimCancels, ClaimDead, ClaimRun
  <2>2. UNCHANGED <<enabled, defs, attempts, ctxCancels, notices, cancelling, epoch, mode,
                    disables>>
    BY <1>6 DEF Claim, ClaimCancels, ClaimDead, ClaimRun, procVars
  <2>3. QED
    BY <2>1, <2>2
<1>7. ASSUME NEW a \in att, AttemptStep(a) PROVE OtherTypes'
  <2>1. a.job \in JobIds /\ a.fence \in Nat
    BY AttemptOfAtt DEF JobInv
  <2>2. published' \in [JobIds -> Counts]
    <3>1. CASE FailUnhandled(a)
      BY <2>1, <3>1, FailAttemptType DEF FailUnhandled
    <3>2. CASE FinishWrite(a)
      BY <2>1, <3>2, FailAttemptType, CloseOwnedType DEF FinishWrite
    <3>3. CASE LookupDef(a) \/ RegisterAttempt(a) \/ CheckCancel(a) \/ FinishRead(a)
               \/ FinishRecheck(a) \/ ExitAttempt(a)
      BY <3>3 DEF LookupDef, RegisterAttempt, CheckCancel, FinishRead, FinishRecheck, ExitAttempt
    <3>4. QED
      BY <1>7, <3>1, <3>2, <3>3 DEF AttemptStep
  <2>3. attempts' \in [JobIds -> Nat]
    BY <1>7, <2>1 DEF AttemptStep, LookupDef, FailUnhandled, RegisterAttempt, CheckCancel,
       FinishRead, FinishRecheck, FinishWrite, ExitAttempt
  <2>4. UNCHANGED Unrelated
    BY <1>7 DEF AttemptStep, LookupDef, FailUnhandled, RegisterAttempt, CheckCancel,
       FinishRead, FinishRecheck, FinishWrite, ExitAttempt, Unrelated
  <2>5. QED
    BY <2>2, <2>3, <2>4 DEF Unrelated
<1>8. ASSUME NEW a \in att,
             Heartbeat(a) \/ Progress(a) \/ FlushLogs(a) \/ HandlerStep(a) \/ StorageError(a)
      PROVE  OtherTypes'
  <2>1. UNCHANGED <<attempts, published, Unrelated>>
    BY <1>8 DEF Heartbeat, Progress, FlushLogs, HandlerStep, HandlerReturns, StorageError
  <2>2. QED
    BY <2>1 DEF Unrelated
<1>9. ASSUME NEW p \in Plugins, Disable(p) \/ Enable(p) \/ NotifyDisabled(p) \/ UnregisterAll(p)
      PROVE  OtherTypes'
  <2>1. CASE Disable(p)
    BY <2>1, JobBoundAssumption DEF Disable
  <2>2. CASE Enable(p)
    BY <2>2 DEF Enable, procVars
  <2>3. CASE NotifyDisabled(p)
    BY <2>3 DEF NotifyDisabled
  <2>4. CASE UnregisterAll(p)
    BY <2>4 DEF UnregisterAll
  <2>5. QED
    BY <1>9, <2>1, <2>2, <2>3, <2>4
<1>10. ASSUME NEW d \in Defs, RegisterDef(d) PROVE OtherTypes'
  BY <1>10 DEF RegisterDef
<1>11. CASE Stop
  BY <1>11 DEF Stop
<1>12. CASE Crash
  BY <1>12 DEF Crash
<1>13. CASE Start
  BY <1>13, JobBoundAssumption DEF Start, procVars
<1>14. QED
  BY <1>1, <1>2, <1>3, <1>4, <1>5, <1>6, <1>7, <1>8, <1>9, <1>10, <1>11, <1>12, <1>13 DEF Next

(* An accepted write comes from the newest attempt, by the fence. *)
LEMMA StaleStep == ~ stale /\ [Next]_vars => ~ stale'
<1> SUFFICES ASSUME ~ stale, [Next]_vars PROVE ~ stale'
  OBVIOUS
<1>1. ASSUME NEW a \in att, Progress(a) \/ FlushLogs(a) PROVE ~ stale'
  BY <1>1 DEF Progress, FlushLogs, Owns, Newest
<1>2. ASSUME NEW a \in att,
             AttemptStep(a) \/ Heartbeat(a) \/ HandlerStep(a) \/ StorageError(a)
      PROVE  ~ stale'
  BY <1>2 DEF AttemptStep, LookupDef, FailUnhandled, RegisterAttempt, CheckCancel,
     FinishRead, FinishRecheck, FinishWrite, ExitAttempt, Heartbeat, HandlerStep,
     HandlerReturns, StorageError
<1>3. CASE UNCHANGED vars
  BY <1>3 DEF vars
<1>4. ASSUME NEW j \in JobIds, NEW d \in Defs, NEW k \in Keys \cup {NoKey},
             NEW prio \in Priorities, NEW due \in BOOLEAN, Enqueue(j, d, k, prio, due)
      PROVE  ~ stale'
  BY <1>4 DEF Enqueue
<1>5. ASSUME NEW j \in JobIds,
             \/ Cancel(j) \/ CancelAttempt(j) \/ CancelPluginJob(j) \/ Claim(j)
             \/ BecomesDue(j) \/ LeaseExpires(j) \/ RunRetention(j)
      PROVE  ~ stale'
  BY <1>5 DEF Cancel, CancelAttempt, CancelPluginJob, Claim, ClaimCancels, ClaimDead,
     ClaimRun, BecomesDue, LeaseExpires, RunRetention
<1>6. ASSUME NEW p \in Plugins, Disable(p) \/ Enable(p) \/ NotifyDisabled(p) \/ UnregisterAll(p)
      PROVE  ~ stale'
  BY <1>6 DEF Disable, Enable, NotifyDisabled, UnregisterAll
<1>7. ASSUME NEW d \in Defs, RegisterDef(d) PROVE ~ stale'
  BY <1>7 DEF RegisterDef
<1>8. CASE Stop \/ Crash \/ Start
  BY <1>8 DEF Stop, Crash, Start
<1>9. QED
  BY <1>1, <1>2, <1>3, <1>4, <1>5, <1>6, <1>7, <1>8 DEF Next

-----------------------------------------------------------------------------
(* The inductive invariant. *)

FullInv == JobInv /\ ~ stale

LEMMA JobInvInit == Init => FullInv /\ KeysUnique /\ ConcurrencyRespected
<1> SUFFICES ASSUME Init PROVE FullInv /\ KeysUnique /\ ConcurrencyRespected
  OBVIOUS
<1>1. \A j \in JobIds : row[j] = NoRow
  BY DEF Init
<1>2. NoRow.state = "none" /\ NoRow.attempt = 0 /\ NoRow.fence = 0 /\ NoRow.owner = 0
      /\ NoRow.lease = "none"
  BY DEF NoRow
<1>3. NoRow \in Row /\ NoRow.def \in Defs
  BY NoRowType DEF Row
<1>4. TypeOK
  <2>1. row \in [JobIds -> Row]
    BY <1>3 DEF Init
  <2>2. epoch \in 1..MaxEpochs /\ disables \in 0..MaxDisables
    BY JobBoundAssumption DEF Init
  <2>3. published \in [JobIds -> [started : Nat, failed : Nat, ended : Nat]]
    BY DEF Init
  <2>4. stale \in BOOLEAN
    BY DEF Init
  <2>5. QED
    BY <2>1, <2>2, <2>3, <2>4 DEF Init, TypeOK
<1>5. RowInv
  <2>1. LeaseHeld
    BY <1>1, <1>2, StateFacts DEF LeaseHeld
  <2>2. MaxAttempts[NoRow.def] \in Nat \ {0}
    BY <1>3, DefAssumption
  <2>3. AttemptsBounded
    BY <1>1, <1>2, <2>2 DEF AttemptsBounded, MaxAttemptsOf
  <2>4. WaitingHasAttempts
    BY <1>1, <1>2, StateFacts DEF WaitingHasAttempts
  <2>5. QED
    BY <2>1, <2>3, <2>4 DEF RowInv
<1>6. FencesOrdered /\ DownCanStart /\ ~ stale
  BY DEF Init, FencesOrdered, DownCanStart
<1>7. KeysUnique
  BY <1>1, <1>2, StateFacts DEF KeysUnique
<1>8. ConcurrencyRespected
  <2> SUFFICES ASSUME NEW d \in Defs
               PROVE  Cardinality({j \in JobIds : row[j].state \in Active /\ row[j].def = d})
                        <= Concurrency[d]
    BY DEF ConcurrencyRespected
  <2>1. {j \in JobIds : row[j].state \in Active /\ row[j].def = d} = {}
    BY <1>1, <1>2, StateFacts
  <2>2. Cardinality({}) = 0
    BY FS_EmptySet
  <2>3. QED
    BY <2>1, <2>2, DefAssumption
<1>9. QED
  BY <1>4, <1>5, <1>6, <1>7, <1>8 DEF FullInv, JobInv

LEMMA JobInvStep == FullInv /\ [Next]_vars => FullInv'
<1> SUFFICES ASSUME FullInv, [Next]_vars PROVE FullInv'
  OBVIOUS
<1>1. JobInv /\ TypeOK /\ RowInv
  BY DEF FullInv, JobInv
<1>2. RowChanges /\ AttChanges
  BY <1>1, RowStep, AttStep
<1>3. ~ stale'
  BY StaleStep DEF FullInv
<1>4. OtherTypes
  BY <1>1 DEF JobInv, TypeOK, OtherTypes, Counts
<1>5. OtherTypes'
  BY <1>1, <1>4, OthersStep
<1>6. row' \in [JobIds -> Row]
  BY <1>1, <1>2, RowTypeStep
<1>7. att' \subseteq Attempt /\ FencesOrdered'
  BY <1>1, <1>2, FencesStep
<1>8. stale' \in BOOLEAN
  <2>1. stale' = FALSE
    BY <1>3
  <2>2. QED
    BY <2>1
<1>9. TypeOK'
  BY <1>5, <1>6, <1>7, <1>8 DEF TypeOK, OtherTypes, Counts
<1>10. RowInv'
  BY <1>1, <1>2, RowInvStep
<1>11. QED
  BY <1>3, <1>5, <1>7, <1>9, <1>10 DEF FullInv, JobInv, OtherTypes

LEMMA InvAlways == Spec => []FullInv
<1>1. Init => FullInv
  BY JobInvInit
<1>2. FullInv /\ [Next]_vars => FullInv'
  BY JobInvStep
<1>3. QED
  BY <1>1, <1>2, PTL DEF Spec

LEMMA RowsAlways == Spec => [][RowChanges]_vars
<1>1. FullInv /\ [Next]_vars => [RowChanges]_vars
  BY RowStep DEF FullInv
<1>2. QED
  BY <1>1, InvAlways, PTL DEF Spec

-----------------------------------------------------------------------------
(* The theorems. *)

(* The variables of the queue keep their types: enqueue, claim, every step  *)
(* of runAttempt and finish, cancellation, disable, crash and restart.      *)
THEOREM JobsTypeCorrect == Spec => []TypeOK
<1>1. FullInv => TypeOK
  BY DEF FullInv, JobInv
<1>2. QED
  BY <1>1, InvAlways, PTL

(* A row holds a lease and an owner exactly while it occupies a slot: every *)
(* transition of core_jobs that leaves running or cancel_requested clears   *)
(* them, and only the claim sets them.                                      *)
THEOREM LeaseAlwaysHeld == Spec => []LeaseHeld
<1>1. FullInv => LeaseHeld
  BY DEF FullInv, JobInv, RowInv
<1>2. QED
  BY <1>1, InvAlways, PTL

(* No job is attempted more often than its definition allows, whatever      *)
(* crashes and expires between the claims.                                  *)
THEOREM AttemptsStayBounded == Spec => []AttemptsBounded
<1>1. FullInv => AttemptsBounded
  BY DEF FullInv, JobInv, RowInv
<1>2. QED
  BY <1>1, InvAlways, PTL

(* At most one goroutine passes the fence of a job's row, so at most one    *)
(* can renew its lease, report progress or finish it.                       *)
THEOREM SingleWriter == Spec => []OneWriter
<1>1. FullInv => OneWriter
  BY DEF FullInv, JobInv, FencesOrdered, OneWriter, Owns
<1>2. QED
  BY <1>1, InvAlways, PTL

(* Progress and log writes are accepted from the newest attempt only.       *)
THEOREM LateWritesRefused == Spec => []WritesAreFenced
<1>1. FullInv => WritesAreFenced
  BY DEF FullInv, WritesAreFenced
<1>2. QED
  BY <1>1, InvAlways, PTL

(* Enqueue never admits two live jobs of a definition under one key.        *)
THEOREM KeysStayUnique == Spec => []KeysUnique
<1>1. Init => KeysUnique
  BY JobInvInit
<1>2. FullInv /\ KeysUnique /\ [RowChanges]_vars => KeysUnique'
  <2> SUFFICES ASSUME FullInv, KeysUnique, [RowChanges]_vars PROVE KeysUnique'
    OBVIOUS
  <2>1. TypeOK
    BY DEF FullInv, JobInv
  <2>2. RowChanges
    BY DEF RowChanges, vars
  <2>3. QED
    BY <2>1, <2>2, KeyStep
<1>3. QED
  BY <1>1, <1>2, InvAlways, RowsAlways, PTL DEF Spec

(* The claim loop never exceeds a definition's concurrency, counting the    *)
(* attempts whose cancel is not acknowledged and those whose lease lapsed.  *)
THEOREM SlotsStayBounded == Spec => []ConcurrencyRespected
<1>1. Init => ConcurrencyRespected
  BY JobInvInit
<1>2. FullInv /\ ConcurrencyRespected /\ [RowChanges]_vars => ConcurrencyRespected'
  <2> SUFFICES ASSUME FullInv, ConcurrencyRespected, [RowChanges]_vars
               PROVE  ConcurrencyRespected'
    OBVIOUS
  <2>1. TypeOK
    BY DEF FullInv, JobInv
  <2>2. RowChanges
    BY DEF RowChanges, vars
  <2>3. QED
    BY <2>1, <2>2, ConcurrencyStep
<1>3. QED
  BY <1>1, <1>2, InvAlways, RowsAlways, PTL DEF Spec

(* A succeeded, failed, dead or cancelled job is never reopened: only       *)
(* retention touches it.                                                    *)
THEOREM FinishedStaysFinished == Spec => TerminalIsFinal
<1>1. FullInv /\ [RowChanges]_vars
        => [\A j \in JobIds : row[j].state \in Terminal =>
              row'[j].state \in {row[j].state, "swept"}]_vars
  BY TerminalStep DEF FullInv, JobInv
<1>2. QED
  BY <1>1, InvAlways, RowsAlways, PTL DEF TerminalIsFinal

(* The queue implements the lifecycle of JobLifecycle, for every number of  *)
(* jobs, attempts, processes and interleavings.                             *)
THEOREM QueueImplementsLifecycle == Spec => ImplementsLifecycle
<1>1. Init => Life!Init
  BY LifeInit
<1>2. FullInv /\ [RowChanges]_vars => [Life!Next]_(Life!vars)
  <2> SUFFICES ASSUME FullInv, [RowChanges]_vars PROVE [Life!Next]_(Life!vars)
    OBVIOUS
  <2>1. TypeOK /\ RowInv
    BY DEF FullInv, JobInv
  <2>2. RowChanges
    BY DEF RowChanges, vars
  <2>3. QED
    BY <2>1, <2>2, LifeStep
<1>3. QED
  BY <1>1, <1>2, InvAlways, RowsAlways, PTL DEF Spec, ImplementsLifecycle, Life!Spec

(* Two jobs never share a key or a slot, for any number of jobs and any     *)
(* concurrency limit of a definition.                                       *)
THEOREM JobsStayExclusive == Spec => []JobsExclusive
<1>1. KeysUnique /\ ConcurrencyRespected => JobsExclusive
  BY DEF JobsExclusive
<1>2. QED
  BY <1>1, KeysStayUnique, SlotsStayBounded, PTL

-----------------------------------------------------------------------------
(* What the events tell of a row. *)

Quiet(j, r, p) ==
    /\ p = published[j] /\ r.attempt = row[j].attempt
    /\ \/ r.state = row[j].state
       \/ row[j].state \in Active /\ r.state = "cancel_requested"
       \/ row[j].state \in Terminal /\ r.state = "swept"
       \/ row[j].state = "none" /\ r.state = "pending"

TellsStart(j, r, p) ==
    /\ row[j].state \in Waiting \cup Active /\ r.state = "running" /\ r.attempt = row[j].attempt + 1
    /\ p.started = published[j].started + 1
    /\ p.failed = published[j].failed /\ p.ended = published[j].ended

TellsFailure(j, r, p) ==
    /\ row[j].state \in Active /\ r.state \in {"retry_wait", "failed"} /\ r.attempt = row[j].attempt
    /\ p.started = published[j].started
    /\ p.failed = published[j].failed + 1 /\ p.ended = published[j].ended

TellsEnd(j, r, p) ==
    /\ r.attempt = row[j].attempt
    /\ p.started = published[j].started /\ p.ended = published[j].ended + 1
    /\ \/ /\ row[j].state \in Waiting \cup Active /\ r.state \in {"succeeded", "cancelled"}
          /\ p.failed = published[j].failed
       \/ row[j].state \in Active /\ r.state = "dead" /\ p.failed = published[j].failed + 1

Tells(j, r, p) == Quiet(j, r, p) \/ TellsStart(j, r, p) \/ TellsFailure(j, r, p) \/ TellsEnd(j, r, p)

EventChanges ==
    \/ row' = row /\ published' = published
    \/ \E j \in JobIds : \E r \in Row : \E p \in Counts :
          row' = [row EXCEPT ![j] = r] /\ published' = [published EXCEPT ![j] = p] /\ Tells(j, r, p)

(* An attempt under way has not failed yet. *)
EventInv == EventsMatchRow /\ \A j \in JobIds : row[j].state \in Active => published[j].failed < row[j].attempt

LEMMA TellWitness ==
    ASSUME NEW j \in JobIds, NEW r \in Row, NEW p \in Counts, Tells(j, r, p),
           row' = [row EXCEPT ![j] = r], published' = [published EXCEPT ![j] = p]
    PROVE  EventChanges
BY DEF EventChanges

LEMMA QuietWitness ==
    ASSUME TypeOK, NEW j \in JobIds, NEW r \in Row, row' = [row EXCEPT ![j] = r], published' = published,
           Quiet(j, r, published[j])
    PROVE  EventChanges
<1>1. published \in [JobIds -> Counts]
  BY DEF TypeOK, Counts
<1>2. published[j] \in Counts /\ published' = [published EXCEPT ![j] = published[j]]
  BY <1>1
<1>3. QED
  BY <1>2, TellWitness DEF Tells

LEMMA PublishIs ==
    ASSUME TypeOK, NEW j \in JobIds, NEW K
    PROVE  \E p \in Counts :
             /\ Publish(j, K) = [published EXCEPT ![j] = p]
             /\ p.started = published[j].started + (IF "started" \in K THEN 1 ELSE 0)
             /\ p.failed = published[j].failed + (IF "failed" \in K THEN 1 ELSE 0)
             /\ p.ended = published[j].ended + (IF "ended" \in K THEN 1 ELSE 0)
<1> DEFINE s == published[j].started + (IF "started" \in K THEN 1 ELSE 0)
           f == published[j].failed + (IF "failed" \in K THEN 1 ELSE 0)
           e == published[j].ended + (IF "ended" \in K THEN 1 ELSE 0)
           p == [started |-> s, failed |-> f, ended |-> e]
<1>1. published[j].started \in Nat /\ published[j].failed \in Nat /\ published[j].ended \in Nat
  BY DEF TypeOK
<1>2. s \in Nat /\ f \in Nat /\ e \in Nat
  BY <1>1
<1>3. Publish(j, K) = [published EXCEPT ![j] = p]
  BY DEF Publish
<1> HIDE DEF s, f, e
<1>4. p \in Counts /\ p.started = s /\ p.failed = f /\ p.ended = e
  BY <1>2 DEF Counts
<1> HIDE DEF p
<1>5. QED
  BY <1>3, <1>4 DEF s, f, e

(* A row that is closed, with the event that says so. *)
LEMMA CloseTells ==
    ASSUME TypeOK, NEW j \in JobIds, NEW s \in {"succeeded", "cancelled"},
           row[j].state \in Waiting \cup Active,
           NEW r \in Row, r.state = s, r.attempt = row[j].attempt, row' = [row EXCEPT ![j] = r],
           published' = Publish(j, {"ended"})
    PROVE  EventChanges
<1>1. PICK p \in Counts : /\ Publish(j, {"ended"}) = [published EXCEPT ![j] = p]
                          /\ p.started = published[j].started + (IF "started" \in {"ended"} THEN 1 ELSE 0)
                          /\ p.failed = published[j].failed + (IF "failed" \in {"ended"} THEN 1 ELSE 0)
                          /\ p.ended = published[j].ended + (IF "ended" \in {"ended"} THEN 1 ELSE 0)
  BY PublishIs
<1>2. published[j].started \in Nat /\ published[j].failed \in Nat
  BY DEF TypeOK
<1>3. Tells(j, r, p)
  BY <1>1, <1>2 DEF Tells, TellsEnd
<1>4. QED
  BY <1>1, <1>3, TellWitness

LEMMA FailTells ==
    ASSUME JobInv, NEW a \in att, NEW result, NEW error \in {"handler", "nohandler"},
           FailAttempt(a, result, error)
    PROVE  EventChanges
<1> DEFINE j     == a.job
           retry == result # "permanent" /\ a.attempt < MaxAttemptsOf(j)
           final == IF result \in {"permanent", "deferred"} THEN "failed" ELSE "dead"
           s     == IF retry THEN "retry_wait" ELSE final
           r     == [Finished(j, s) EXCEPT !.due = IF retry THEN FALSE ELSE @, !.error = error]
           K     == IF ~ retry /\ final = "dead" THEN {"failed", "ended"} ELSE {"failed"}
<1>1. TypeOK /\ j \in JobIds /\ s \in States
  BY AttemptOfAtt DEF JobInv, States, Waiting, Terminal
<1>2. CASE ~ Owns(a)
  BY <1>2 DEF FailAttempt, EventChanges
<1>3. CASE Owns(a)
  <2>1. row' = [row EXCEPT ![j] = r] /\ published' = Publish(j, K)
    BY <1>3 DEF FailAttempt
  <2>2. Finished(j, s) \in Row /\ Finished(j, s).state = s /\ Finished(j, s).attempt = row[j].attempt
    <3> HIDE DEF s
    <3> QED BY <1>1, FinishedType DEF Same
  <2>3. r \in Row /\ r.state = s /\ r.attempt = row[j].attempt
    <3> HIDE DEF s
    <3> QED BY <2>2 DEF Row
  <2>4. row[j].state \in Active
    BY <1>3 DEF Owns
  <2>5. \/ K = {"failed"} /\ s \in {"retry_wait", "failed"}
        \/ K = {"failed", "ended"} /\ s = "dead"
    OBVIOUS
  <2> HIDE DEF r, s, K, j
  <2>6. PICK p \in Counts : /\ Publish(j, K) = [published EXCEPT ![j] = p]
                            /\ p.started = published[j].started + (IF "started" \in K THEN 1 ELSE 0)
                            /\ p.failed = published[j].failed + (IF "failed" \in K THEN 1 ELSE 0)
                            /\ p.ended = published[j].ended + (IF "ended" \in K THEN 1 ELSE 0)
    BY <1>1, PublishIs
  <2>7. published[j].started \in Nat /\ published[j].failed \in Nat /\ published[j].ended \in Nat
    BY <1>1 DEF TypeOK
  <2>8. p.started = published[j].started /\ p.failed = published[j].failed + 1
    BY <2>5, <2>6, <2>7
  <2>9. \/ s \in {"retry_wait", "failed"} /\ p.ended = published[j].ended
        \/ s = "dead" /\ p.ended = published[j].ended + 1
    BY <2>5, <2>6, <2>7
  <2>10. Tells(j, r, p)
    BY <2>3, <2>4, <2>8, <2>9 DEF Tells, TellsFailure, TellsEnd
  <2>11. QED
    BY <1>1, <2>1, <2>3, <2>6, <2>10, TellWitness
<1>4. QED
  BY <1>2, <1>3

LEMMA CloseOwnedTells ==
    ASSUME JobInv, NEW a \in att, FenceCancelOwned(a) \/ FinishSucceeded(a)
    PROVE  EventChanges
<1>1. TypeOK /\ a.job \in JobIds
  BY AttemptOfAtt DEF JobInv
<1>2. CASE ~ Owns(a)
  BY <1>2 DEF FenceCancelOwned, FinishSucceeded, EventChanges
<1>3. CASE Owns(a)
  <2>1. PICK s \in {"succeeded", "cancelled"} : /\ row' = [row EXCEPT ![a.job] = Finished(a.job, s)]
                                                /\ published' = Publish(a.job, {"ended"})
    BY <1>3 DEF FenceCancelOwned, FinishSucceeded
  <2>2. /\ Finished(a.job, s) \in Row /\ Finished(a.job, s).attempt = row[a.job].attempt
        /\ Finished(a.job, s).state = s
    BY <1>1, FinishedType, StateFacts DEF Same, Terminal
  <2>3. row[a.job].state \in Active
    BY <1>3 DEF Owns
  <2>4. QED
    BY <1>1, <2>1, <2>2, <2>3, CloseTells
<1>4. QED
  BY <1>2, <1>3

LEMMA CancelTells ==
    ASSUME JobInv, NEW j \in JobIds, Cancellable(j), CancelTx(j)
    PROVE  EventChanges
<1> DEFINE s == IF row[j].state \in Waiting THEN "cancelled" ELSE "cancel_requested"
           r == [row[j] EXCEPT !.state = s]
<1>1. TypeOK /\ row[j] \in Row
  BY RowOfJob DEF JobInv
<1>2. s \in States
  BY DEF States, Active, Terminal
<1>3. r \in Row /\ r.state = s /\ r.attempt = row[j].attempt
  BY <1>1, <1>2 DEF Row
<1>4. row' = [row EXCEPT ![j] = r]
  BY DEF CancelTx
<1>5. CASE row[j].state \in Waiting
  <2>1. published' = Publish(j, {"ended"}) /\ r.state = "cancelled"
    BY <1>3, <1>5 DEF CancelTx
  <2> HIDE DEF r
  <2>2. QED
    BY <1>1, <1>3, <1>4, <1>5, <2>1, CloseTells
<1>6. CASE row[j].state \in Active
  <2>0. row[j].state \notin Waiting
    BY <1>6, StateFacts
  <2>1. published' = published /\ r.state = "cancel_requested"
    BY <1>3, <2>0 DEF CancelTx
  <2> HIDE DEF r
  <2>2. QED
    BY <1>1, <1>3, <1>4, <1>6, <2>1, QuietWitness DEF Quiet
<1>7. QED
  BY <1>5, <1>6 DEF Cancellable

LEMMA ClaimTells ==
    ASSUME JobInv, NEW j \in JobIds, Claim(j)
    PROVE  EventChanges
<1>1. TypeOK /\ row[j] \in Row /\ row[j].attempt \in Nat
  BY RowOfJob DEF JobInv
<1>2. published[j].started \in Nat /\ published[j].failed \in Nat /\ published[j].ended \in Nat
  BY <1>1 DEF TypeOK
<1>3. CASE ClaimCancels(j)
  <2>1. /\ Finished(j, "cancelled") \in Row /\ Finished(j, "cancelled").attempt = row[j].attempt
        /\ Finished(j, "cancelled").state = "cancelled"
    BY <1>1, FinishedType, StateFacts DEF Same, Terminal
  <2>2. row' = [row EXCEPT ![j] = Finished(j, "cancelled")] /\ published' = Publish(j, {"ended"})
    BY <1>3 DEF ClaimCancels
  <2>3. row[j].state \in Waiting \cup Active
    BY <1>3 DEF ClaimCancels, MayClaim, Eligible
  <2>4. QED
    BY <1>1, <2>1, <2>2, <2>3, CloseTells
<1>4. CASE ClaimDead(j)
  <2> DEFINE r == [Finished(j, "dead") EXCEPT !.error = "lease"]
             K == {"failed", "ended"}
  <2>1. /\ Finished(j, "dead") \in Row /\ Finished(j, "dead").attempt = row[j].attempt
        /\ Finished(j, "dead").state = "dead"
    BY <1>1, FinishedType, StateFacts DEF Same, Terminal
  <2>2. r \in Row /\ r.attempt = row[j].attempt /\ r.state = "dead"
    BY <2>1 DEF Row
  <2>3. row' = [row EXCEPT ![j] = r] /\ published' = Publish(j, K)
    BY <1>4 DEF ClaimDead
  <2>4. row[j].state \in Active
    <3>1. row[j].state \in Active \/ row[j].state \in Waiting
      BY <1>4 DEF ClaimDead, Admissible, MayClaim, Eligible
    <3>2. MaxAttemptsOf(j) \in Nat
      BY <1>1, RowOfJob
    <3>3. ~ (row[j].attempt < MaxAttemptsOf(j))
      BY <1>1, <1>4, <3>2 DEF ClaimDead, Exhausted
    <3>4. QED
      BY <3>1, <3>3 DEF JobInv, RowInv, WaitingHasAttempts
  <2>5. PICK p \in Counts : /\ Publish(j, K) = [published EXCEPT ![j] = p]
                            /\ p.started = published[j].started + (IF "started" \in K THEN 1 ELSE 0)
                            /\ p.failed = published[j].failed + (IF "failed" \in K THEN 1 ELSE 0)
                            /\ p.ended = published[j].ended + (IF "ended" \in K THEN 1 ELSE 0)
    BY <1>1, PublishIs
  <2> HIDE DEF r
  <2>6. Tells(j, r, p)
    BY <1>2, <2>2, <2>4, <2>5 DEF Tells, TellsEnd
  <2>7. QED
    BY <2>2, <2>3, <2>5, <2>6, TellWitness
<1>5. CASE ClaimRun(j)
  <2> DEFINE r == Claimed(j)
             K == {"started"}
  <2>1. epoch \in 0..MaxEpochs /\ "running" \in States /\ row[j].attempt + 1 \in Nat /\ row[j].fence + 1 \in Nat
    BY <1>1, JobBoundAssumption, RowOfJob DEF TypeOK, States, Active
  <2>2. r \in Row /\ r.attempt = row[j].attempt + 1 /\ r.state = "running"
    BY <1>1, <2>1 DEF Row, Claimed
  <2>3. row' = [row EXCEPT ![j] = r] /\ published' = Publish(j, K)
    BY <1>5 DEF ClaimRun
  <2>4. row[j].state \in Waiting \cup Active
    BY <1>5 DEF ClaimRun, Admissible, MayClaim, Eligible
  <2>5. PICK p \in Counts : /\ Publish(j, K) = [published EXCEPT ![j] = p]
                            /\ p.started = published[j].started + (IF "started" \in K THEN 1 ELSE 0)
                            /\ p.failed = published[j].failed + (IF "failed" \in K THEN 1 ELSE 0)
                            /\ p.ended = published[j].ended + (IF "ended" \in K THEN 1 ELSE 0)
    BY <1>1, PublishIs
  <2> HIDE DEF r
  <2>6. Tells(j, r, p)
    BY <1>2, <2>2, <2>4, <2>5 DEF Tells, TellsStart
  <2>7. QED
    BY <2>2, <2>3, <2>5, <2>6, TellWitness
<1>6. QED
  BY <1>3, <1>4, <1>5 DEF Claim

(* What changes a row without an event. *)
LEMMA SmallTells ==
    ASSUME JobInv, NEW j \in JobIds, published' = published,
           \/ row' = [row EXCEPT ![j].lease = "live"]
           \/ LeaseExpires(j)
           \/ BecomesDue(j)
           \/ RunRetention(j)
    PROVE  EventChanges
<1>1. TypeOK /\ row[j] \in Row
  BY RowOfJob DEF JobInv
<1>2. PICK r : /\ row' = [row EXCEPT ![j] = r]
               /\ \/ r = [row[j] EXCEPT !.lease = "live"]
                  \/ r = [row[j] EXCEPT !.lease = "expired"]
                  \/ r = [row[j] EXCEPT !.due = TRUE]
                  \/ r = [row[j] EXCEPT !.state = "swept"] /\ row[j].state \in Terminal
  BY DEF LeaseExpires, BecomesDue, RunRetention
<1>3. /\ r \in Row /\ r.attempt = row[j].attempt
      /\ r.state = row[j].state \/ (r.state = "swept" /\ row[j].state \in Terminal)
  BY <1>1, <1>2, ZenonT(40) DEF Row, States
<1>4. QED
  BY <1>1, <1>2, <1>3, QuietWitness DEF Quiet

LEMMA EnqueueTells ==
    ASSUME JobInv, NEW j \in JobIds, NEW d \in Defs, NEW k \in Keys \cup {NoKey},
           NEW prio \in Priorities, NEW due \in BOOLEAN, Enqueue(j, d, k, prio, due)
    PROVE  EventChanges
<1> DEFINE r == [NoRow EXCEPT !.state = "pending", !.def = d, !.key = k, !.prio = prio, !.due = due]
<1>1. TypeOK /\ row[j].state = "none" /\ published' = published /\ row' = [row EXCEPT ![j] = r]
  BY DEF JobInv, Enqueue
<1>2. row[j].attempt = 0
  BY <1>1 DEF JobInv, RowInv, WaitingHasAttempts
<1>3. NoRow.attempt = 0 /\ NoRow \in Row
  BY NoRowType DEF NoRow
<1> HIDE DEF NoRow
<1>4. r \in Row /\ r.state = "pending" /\ r.attempt = 0
  BY <1>3 DEF Row, States, Waiting
<1> HIDE DEF r
<1>5. QED
  BY <1>1, <1>2, <1>4, QuietWitness DEF Quiet

LEMMA TellStep == JobInv /\ [Next]_vars => EventChanges
<1> SUFFICES ASSUME JobInv, [Next]_vars PROVE EventChanges
  OBVIOUS
<1>0. row' = row /\ published' = published => EventChanges
  BY DEF EventChanges
<1>1. CASE UNCHANGED vars
  BY <1>0, <1>1 DEF vars
<1>2. ASSUME NEW j \in JobIds, NEW d \in Defs, NEW k \in Keys \cup {NoKey},
             NEW prio \in Priorities, NEW due \in BOOLEAN, Enqueue(j, d, k, prio, due)
      PROVE  EventChanges
  BY <1>2, EnqueueTells
<1>3. ASSUME NEW j \in JobIds, Cancel(j) \/ CancelPluginJob(j) PROVE EventChanges
  <2>1. CASE Cancellable(j) /\ CancelTx(j)
    BY <2>1, CancelTells
  <2>2. QED
    BY <1>0, <1>3, <2>1 DEF Cancel, CancelPluginJob
<1>4. ASSUME NEW j \in JobIds, Claim(j) PROVE EventChanges
  BY <1>4, ClaimTells
<1>5. ASSUME NEW j \in JobIds, BecomesDue(j) \/ LeaseExpires(j) \/ RunRetention(j)
      PROVE  EventChanges
  <2>1. published' = published
    BY <1>5 DEF BecomesDue, LeaseExpires, RunRetention
  <2>2. QED
    BY <1>5, <2>1, SmallTells
<1>6. ASSUME NEW a \in att, AttemptStep(a) PROVE EventChanges
  <2>1. CASE FailUnhandled(a)
    BY <2>1, FailTells DEF FailUnhandled
  <2>2. CASE FinishWrite(a)
    BY <2>2, FailTells, CloseOwnedTells DEF FinishWrite
  <2>3. CASE LookupDef(a) \/ RegisterAttempt(a) \/ CheckCancel(a) \/ FinishRead(a)
             \/ FinishRecheck(a) \/ ExitAttempt(a)
    BY <1>0, <2>3 DEF LookupDef, RegisterAttempt, CheckCancel, FinishRead, FinishRecheck, ExitAttempt
  <2>4. QED
    BY <1>6, <2>1, <2>2, <2>3 DEF AttemptStep
<1>7. ASSUME NEW a \in att, Heartbeat(a) PROVE EventChanges
  <2>1. a.job \in JobIds /\ published' = published
    BY <1>7, AttemptOfAtt DEF JobInv, Heartbeat
  <2>2. CASE Owns(a)
    BY <1>7, <2>1, <2>2, SmallTells DEF Heartbeat
  <2>3. CASE ~ Owns(a)
    BY <1>0, <1>7, <2>1, <2>3 DEF Heartbeat
  <2>4. QED
    BY <2>2, <2>3
<1>8. ASSUME NEW a \in att, Progress(a) \/ FlushLogs(a) \/ HandlerStep(a) \/ StorageError(a)
      PROVE  EventChanges
  BY <1>0, <1>8 DEF Progress, FlushLogs, HandlerStep, HandlerReturns, StorageError
<1>9. ASSUME NEW j \in JobIds, CancelAttempt(j) PROVE EventChanges
  BY <1>0, <1>9 DEF CancelAttempt
<1>10. ASSUME NEW p \in Plugins,
              Disable(p) \/ Enable(p) \/ NotifyDisabled(p) \/ UnregisterAll(p)
       PROVE  EventChanges
  BY <1>0, <1>10 DEF Disable, Enable, NotifyDisabled, UnregisterAll
<1>11. ASSUME NEW d \in Defs, RegisterDef(d) PROVE EventChanges
  BY <1>0, <1>11 DEF RegisterDef
<1>12. CASE Stop \/ Crash \/ Start
  BY <1>0, <1>12 DEF Stop, Crash, Start
<1> HIDE DEF EventChanges
<1>13. QED
  BY <1>1, <1>2, <1>3, <1>4, <1>5, <1>6, <1>7, <1>8, <1>9, <1>10, <1>11, <1>12 DEF Next

LEMMA EventStep ==
    ASSUME JobInv, EventInv, EventChanges
    PROVE  EventInv'
<1> DEFINE Fits(x, p) ==
             /\ p.started = x.attempt /\ p.failed <= x.attempt /\ p.ended <= 1
             /\ x.state # "swept" => (p.ended = 1 <=> x.state \in Terminal \ {"failed"})
             /\ x.state \in Active => p.failed < x.attempt
<1>1. \A j \in JobIds : Fits(row[j], published[j])
  BY DEF EventInv, EventsMatchRow
<1>2. SUFFICES \A j \in JobIds : Fits(row'[j], published'[j])
  BY DEF EventInv, EventsMatchRow
<1>3. CASE row' = row /\ published' = published
  BY <1>1, <1>3
<1>4. ASSUME NEW j \in JobIds, NEW r \in Row, NEW p \in Counts, Tells(j, r, p),
             row' = [row EXCEPT ![j] = r], published' = [published EXCEPT ![j] = p]
      PROVE  \A i \in JobIds : Fits(row'[i], published'[i])
  <2>1. /\ row \in [JobIds -> Row] /\ published \in [JobIds -> Counts]
        /\ row[j].attempt \in Nat /\ published[j].failed \in Nat /\ published[j].ended \in Nat
        /\ p.failed \in Nat /\ p.ended \in Nat
    BY DEF JobInv, TypeOK, Counts, Row
  <2>2. \A i \in JobIds : /\ row'[i] = IF i = j THEN r ELSE row[i]
                          /\ published'[i] = IF i = j THEN p ELSE published[i]
    BY <1>4, <2>1
  <2>3. Fits(row[j], published[j])
    BY <1>1
  <2>4. Fits(r, p)
    <3>1. CASE Quiet(j, r, p)
      BY <2>1, <2>3, <3>1 DEF Quiet, Active, Terminal
    <3>2. CASE TellsStart(j, r, p)
      BY <2>1, <2>3, <3>2 DEF TellsStart, Active, Waiting, Terminal
    <3>3. CASE TellsFailure(j, r, p)
      BY <2>1, <2>3, <3>3 DEF TellsFailure, Active, Terminal
    <3>4. CASE TellsEnd(j, r, p)
      BY <2>1, <2>3, <3>4 DEF TellsEnd, Active, Waiting, Terminal
    <3>5. QED
      BY <1>4, <3>1, <3>2, <3>3, <3>4 DEF Tells
  <2> HIDE DEF Fits
  <2>5. QED
    BY <1>1, <2>2, <2>4
<1>5. QED
  BY <1>3, <1>4 DEF EventChanges

(* The bus tells exactly what happened to a row: one started event per      *)
(* attempt, at most one failure per attempt, and one final event, when and  *)
(* only when the job succeeds, dies or is cancelled, through crashes and    *)
(* lost leases (jobs/store.go and worker.go publish in the transaction that *)
(* moves the row).                                                          *)
THEOREM EventsTellTheRow == Spec => []EventsMatchRow
<1>1. Init => EventInv
  <2>1. SUFFICES ASSUME Init PROVE EventInv
    OBVIOUS
  <2>2. \A j \in JobIds : /\ row[j].state = "none" /\ row[j].attempt = 0
                          /\ published[j].started = 0 /\ published[j].failed = 0 /\ published[j].ended = 0
    BY <2>1 DEF Init, NoRow
  <2>3. QED
    BY <2>2 DEF EventInv, EventsMatchRow, Active, Terminal
<1>2. FullInv /\ EventInv /\ [Next]_vars => EventInv'
  BY TellStep, EventStep DEF FullInv
<1>3. EventInv => EventsMatchRow
  BY DEF EventInv
<1>4. QED
  BY <1>1, <1>2, <1>3, InvAlways, PTL DEF Spec

(* All that one job relies on, in one statement: leases, the fence, the     *)
(* events, the bound on attempts and the finality of a finished row.        *)
THEOREM QueueHolds == Spec => JobsHold
  BY JobsTypeCorrect, LeaseAlwaysHeld, SingleWriter, EventsTellTheRow, AttemptsStayBounded,
     LateWritesRefused, FinishedStaysFinished, PTL DEF JobsHold
=============================================================================
