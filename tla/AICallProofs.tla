---------------------------- MODULE AICallProofs ----------------------------
(* Theorems about paid calls, for any number of calls, plans and prices.    *)
EXTENDS AICall, PolicyProofs

(* A thread between admission and its last answer has a plan and has cost   *)
(* nothing yet: an attempt that spills over never carries a cost, so what a *)
(* call settles at is the cost of one answer or the maximum of its plan.    *)
AIInv ==
    /\ AITypeOK
    /\ \A c \in CallIds : thread[c].pc # "off" => thread[c].plan \in Plans
    /\ \A c \in CallIds : thread[c].pc \in {"check", "mark", "dispatch", "invoke"} =>
          thread[c].cost = 0

(* An empty database and no goroutine satisfy the invariant. *)
LEMMA AIInvInit == AIInit => AIInv
<1> SUFFICES ASSUME AIInit PROVE AIInv
  OBVIOUS
<1>1. 0 \in Amounts
  BY RouteAssumption
<1>2. Off \in Thread /\ NoCall \in Calls
  BY <1>1 DEF Off, Thread, Pcs, NoCall, Calls
<1>3. <<>> \in Seq({"dispatching", "succeeded", "failed"})
  OBVIOUS
<1>4. AITypeOK
  BY <1>2, <1>3 DEF AIInit, AITypeOK
<1>5. \A c \in CallIds : thread[c].pc = "off"
  BY DEF AIInit, Off
<1> QED
  BY <1>4, <1>5 DEF AIInv

(* The row a step leaves behind, and the thread, are all that matters: a    *)
(* step that moves one thread to a well-formed one keeps the invariant.     *)
LEMMA ThreadMoves ==
    ASSUME AIInv, NEW c \in CallIds, NEW t \in Thread,
           t.pc # "off" => t.plan \in Plans,
           t.pc \in {"check", "mark", "dispatch", "invoke"} => t.cost = 0,
           Continue(c, t)
    PROVE  /\ thread' \in [CallIds -> Thread]
           /\ \A d \in CallIds : thread'[d].pc # "off" => thread'[d].plan \in Plans
           /\ \A d \in CallIds : thread'[d].pc \in {"check", "mark", "dispatch", "invoke"} =>
                 thread'[d].cost = 0
<1>1. thread \in [CallIds -> Thread]
  BY DEF AIInv, AITypeOK
<1>2. thread' \in [CallIds -> Thread]
  BY <1>1 DEF Continue
<1>3. \A d \in CallIds : thread'[d] = IF d = c THEN t ELSE thread[d]
  BY <1>1 DEF Continue
<1> QED
  BY <1>2, <1>3 DEF AIInv

(* The updates a step makes to its thread keep it well formed. *)
LEMMA ThreadUpdates ==
    ASSUME NEW u \in Thread, NEW pc \in Pcs, NEW n \in Nat, NEW cost \in Amounts,
           NEW b \in BOOLEAN, NEW f \in BOOLEAN, NEW bill \in Amounts
    PROVE  /\ [u EXCEPT !.pc = pc] \in Thread
           /\ [u EXCEPT !.pc = pc, !.bill = bill] \in Thread
           /\ [u EXCEPT !.pc = pc, !.next = n, !.failed = f] \in Thread
           /\ [u EXCEPT !.pc = pc, !.unknown = b, !.failed = f] \in Thread
           /\ [u EXCEPT !.pc = pc, !.next = n, !.cost = cost, !.billed = b,
                        !.failed = f, !.bill = bill] \in Thread
BY DEF Thread

(* Closing the attempts of a call keeps them a sequence of attempts. *)
LEMMA ClosedType ==
    ASSUME AITypeOK, NEW c \in CallIds, NEW failed \in BOOLEAN
    PROVE  ClosedAttempts(c, failed) \in Seq({"dispatching", "succeeded", "failed"})
<1> DEFINE S == {"dispatching", "succeeded", "failed"}
<1>1. attempt[c] \in Seq(S)
  BY DEF AITypeOK
<1>2. DOMAIN attempt[c] = 1..Len(attempt[c]) /\ Len(attempt[c]) \in Nat
  BY <1>1
<1>3. \A i \in DOMAIN attempt[c] : attempt[c][i] \in S
  BY <1>1
<1>4. ClosedAttempts(c, failed) \in [1..Len(attempt[c]) -> S]
  BY <1>2, <1>3 DEF ClosedAttempts
<1> QED
  BY <1>2, <1>4

(* What a settling thread is charged is an amount. *)
LEMMA SettledType ==
    ASSUME AIInv, NEW c \in CallIds, thread[c].pc = "settle"
    PROVE  SettledAmount(thread[c]) \in Amounts
<1>1. thread[c] \in Thread /\ thread[c].plan \in Plans
  BY DEF AIInv, AITypeOK
<1>2. Estimate(thread[c].plan) \in Amounts /\ thread[c].cost \in Amounts
  BY <1>1, RouteAssumption DEF Thread
<1> QED
  BY <1>2 DEF SettledAmount

(* Every answer an adapter gives leaves a well-formed thread; only one that *)
(* ends the loop carries a cost, and one with a cost counts as billed.      *)
LEMMA AnswerType ==
    ASSUME AIInv, NEW c \in CallIds, thread[c].pc = "invoke",
           NEW a \in Answers(Current(c), thread[c].bill)
    PROVE  /\ a.cost \in Amounts /\ a.billed \in BOOLEAN
           /\ Spillover(ClassOf(a, Estimate(thread[c].plan))) => a.cost = 0
           /\ a.cost # 0 => a.billed = TRUE
<1>1. thread[c].bill \in Amounts
  BY DEF AIInv, AITypeOK, Thread
<1>2. 0 \in Amounts
  BY RouteAssumption
<1>3. a \in OpenAIAnswers(thread[c].bill) \cup CodexAnswers
  BY DEF Answers
<1>4. CASE a \in CodexAnswers
  <2>1. PICK k : a = [class |-> k, billed |-> FALSE, cost |-> 0]
    BY <1>4, Zenon DEF CodexAnswers
  <2>2. a.cost = 0 /\ a.billed = FALSE
    BY <2>1
  <2> QED
    BY <1>2, <2>2
<1>5. CASE a \in OpenAIAnswers(thread[c].bill)
  <2>1. /\ a.cost \in Amounts /\ a.billed \in BOOLEAN
        /\ a.class # "" => a.cost = 0
        /\ a.cost # 0 => a.billed = TRUE
    <3>1. CASE \E k : a = [class |-> k, billed |-> FALSE, cost |-> 0]
      <4>1. PICK k : a = [class |-> k, billed |-> FALSE, cost |-> 0]
        BY <3>1, Zenon
      <4>2. a.cost = 0 /\ a.billed = FALSE
        BY <4>1
      <4> QED
        BY <1>2, <4>2
    <3>2. CASE \E k : a = [class |-> k, billed |-> TRUE, cost |-> 0]
      <4>1. PICK k : a = [class |-> k, billed |-> TRUE, cost |-> 0]
        BY <3>2, Zenon
      <4>2. a.cost = 0 /\ a.billed = TRUE
        BY <4>1
      <4> QED
        BY <1>2, <4>2
    <3>3. CASE a = [class |-> "", billed |-> TRUE, cost |-> thread[c].bill]
      <4>1. a.class = "" /\ a.cost = thread[c].bill /\ a.billed = TRUE
        BY <3>3
      <4> QED
        BY <1>1, <4>1
    <3> QED
      BY <1>5, <3>1, <3>2, <3>3, Zenon DEF OpenAIAnswers
  <2>2. ~ Spillover("") /\ ~ Spillover("accounting_invariant")
    BY DEF Spillover
  <2> QED
    BY <2>1, <2>2 DEF ClassOf
<1> QED
  BY <1>3, <1>4, <1>5

(* Every step keeps the invariant. *)
LEMMA AIInvStep == AIInv /\ [AINext]_allVars => AIInv'
<1> SUFFICES ASSUME AIInv, [AINext]_allVars PROVE AIInv'
  OBVIOUS
<1> DEFINE S == {"dispatching", "succeeded", "failed"}
<1>t. AITypeOK
  BY DEF AIInv
<1>z. 0 \in Amounts /\ Off \in Thread /\ Off.pc = "off" /\ Off.plan = <<>> /\ Off.cost = 0
  BY RouteAssumption DEF Off, Thread, Pcs
<1>b. Bills \subseteq Amounts /\ Amounts \subseteq Nat
  BY RouteAssumption, AmountAssumption
<1>s. \A c \in CallIds : thread[c] \in Thread
  BY <1>t DEF AITypeOK
<1>1. ASSUME NEW c \in CallIds, NEW p \in Plugins, NEW plan \in Plans, Admit(c, p, plan)
      PROVE  AIInv'
  <2>1. Estimate(plan) \in Amounts
    BY RouteAssumption
  <2>2. \A r \in reservations' \ reservations : r.id \in ReservationIds
    BY <1>1 DEF Admit, ReserveAdmitted
  <2>3. call' \in [CallIds -> Calls]
    BY <1>1, <1>t, <1>z, <2>1, <2>2 DEF Admit, AITypeOK, Calls
  <2> DEFINE t == [Off EXCEPT !.pc = "check", !.plan = plan, !.next = 1]
  <2>4. t \in Thread /\ t.pc = "check" /\ t.plan = plan /\ t.cost = 0
    BY <1>z DEF Off, Thread, Pcs
  <2>5. Continue(c, t)
    BY <1>1 DEF Admit
  <2> HIDE DEF t
  <2> QED
    BY <1>1, <1>t, <2>3, <2>4, <2>5, ThreadMoves DEF Admit, AIInv, AITypeOK
<1>2. ASSUME NEW c \in CallIds, CancelContext(c)
      PROVE  AIInv'
  BY <1>2 DEF CancelContext, AIInv, AITypeOK
<1>3. ASSUME NEW c \in CallIds, CheckContext(c)
      PROVE  AIInv'
  <2>1. thread[c].plan \in Plans /\ thread[c].cost = 0 /\ thread[c].billed \in BOOLEAN
    BY <1>3, <1>s DEF CheckContext, AIInv, Thread
  <2>2. \/ Continue(c, [thread[c] EXCEPT !.pc = "settle"])
        \/ Continue(c, [thread[c] EXCEPT !.pc = "settle", !.unknown = thread[c].billed,
                                        !.failed = TRUE])
        \/ Continue(c, [thread[c] EXCEPT !.pc = "mark"])
    BY <1>3 DEF CheckContext
  <2>3. \E t \in Thread : Continue(c, t) /\ t.plan \in Plans /\ t.cost = 0
    <3> DEFINE t1 == [thread[c] EXCEPT !.pc = "settle"]
               t2 == [thread[c] EXCEPT !.pc = "settle", !.unknown = thread[c].billed,
                                       !.failed = TRUE]
               t3 == [thread[c] EXCEPT !.pc = "mark"]
    <3>1. t1 \in Thread /\ t1.plan \in Plans /\ t1.cost = 0
      BY <1>s, <2>1 DEF Thread, Pcs
    <3>2. t2 \in Thread /\ t2.plan \in Plans /\ t2.cost = 0
      BY <1>s, <2>1 DEF Thread, Pcs
    <3>3. t3 \in Thread /\ t3.plan \in Plans /\ t3.cost = 0
      BY <1>s, <2>1 DEF Thread, Pcs
    <3> HIDE DEF t1, t2, t3
    <3>4. Continue(c, t1) \/ Continue(c, t2) \/ Continue(c, t3)
      BY <2>2 DEF t1, t2, t3
    <3> QED
      BY <3>1, <3>2, <3>3, <3>4
  <2> QED
    BY <1>3, <1>t, <2>3, ThreadMoves DEF CheckContext, AIInv, AITypeOK
<1>4. ASSUME NEW c \in CallIds, MarkDispatching(c)
      PROVE  AIInv'
  <2> DEFINE t == [thread[c] EXCEPT !.pc = "dispatch"]
  <2>1. thread[c].plan \in Plans /\ thread[c].cost = 0
    BY <1>4 DEF MarkDispatching, AIInv
  <2>2. t \in Thread /\ t.plan \in Plans /\ t.cost = 0
    BY <1>s, <2>1 DEF Thread, Pcs
  <2>3. Continue(c, t)
    BY <1>4 DEF MarkDispatching
  <2>4. attempt' \in [CallIds -> Seq(S)]
    BY <1>4, <1>t DEF MarkDispatching, AITypeOK
  <2> HIDE DEF t
  <2> QED
    BY <1>4, <1>t, <2>2, <2>3, <2>4, ThreadMoves DEF MarkDispatching, AIInv, AITypeOK
<1>5. ASSUME NEW c \in CallIds, MarkFails(c) \/ FinalizeFails(c)
      PROVE  AIInv'
  BY <1>5, <1>t, <1>z, ThreadMoves DEF MarkFails, FinalizeFails, AIInv, AITypeOK
<1>6. ASSUME NEW c \in CallIds, NoDispatch(c)
      PROVE  AIInv'
  <2> DEFINE n == thread[c].next + 1
             t == [thread[c] EXCEPT !.pc = "check", !.next = n, !.failed = TRUE]
  <2>1. thread[c].plan \in Plans /\ thread[c].cost = 0 /\ n \in Nat
    BY <1>6, <1>s DEF NoDispatch, AIInv, Thread
  <2>2. Continue(c, t)
    BY <1>6 DEF NoDispatch
  <2>3. t \in Thread /\ t.plan \in Plans /\ t.cost = 0
    <3> HIDE DEF n
    <3> QED
      BY <1>s, <2>1 DEF Thread, Pcs
  <2> HIDE DEF t
  <2> QED
    BY <1>6, <1>t, <2>2, <2>3, ThreadMoves DEF NoDispatch, AIInv, AITypeOK
<1>7. ASSUME NEW c \in CallIds, NEW bill \in Bills, Invoke(c, bill)
      PROVE  AIInv'
  <2> DEFINE t == [thread[c] EXCEPT !.pc = "invoke", !.bill = bill]
  <2>1. thread[c].plan \in Plans /\ thread[c].cost = 0 /\ bill \in Amounts
    BY <1>7, <1>b DEF Invoke, AIInv
  <2>2. t \in Thread /\ t.plan \in Plans /\ t.cost = 0
    BY <1>s, <2>1 DEF Thread, Pcs
  <2>3. Continue(c, t)
    BY <1>7 DEF Invoke
  <2>4. charged' \in [CallIds -> Nat]
    BY <1>7, <1>t, <1>b DEF Invoke, AITypeOK
  <2> HIDE DEF t
  <2> QED
    BY <1>7, <1>t, <2>2, <2>3, <2>4, ThreadMoves DEF Invoke, AIInv, AITypeOK
<1>8. ASSUME NEW c \in CallIds, Answer(c)
      PROVE  AIInv'
  <2>1. PICK a \in Answers(Current(c), thread[c].bill) : Receive(c, a)
    BY <1>8 DEF Answer
  <2> DEFINE class == ClassOf(a, Estimate(thread[c].plan))
             n == thread[c].next + 1
             cost == thread[c].cost + a.cost
             b == thread[c].billed \/ a.billed
             f == class # ""
             pc == IF Spillover(class) THEN "check" ELSE "settle"
             t == [thread[c] EXCEPT !.pc = pc, !.next = n, !.cost = cost, !.billed = b,
                                    !.failed = f, !.bill = 0]
  <2>2. a.cost \in Amounts /\ (Spillover(class) => a.cost = 0)
    BY <1>8, AnswerType DEF Answer
  <2>3. thread[c].cost = 0 /\ thread[c].plan \in Plans
    BY <1>8 DEF Answer, AIInv
  <2>4. Continue(c, t) /\ answered' = [answered EXCEPT ![c] = @ + a.cost]
    BY <2>1 DEF Receive
  <2>5. cost = a.cost /\ n \in Nat /\ pc \in Pcs /\ pc # "off"
    <3>1. a.cost \in Nat /\ thread[c].next \in Nat
      BY <1>b, <1>s, <2>2 DEF Thread
    <3> QED
      BY <2>3, <3>1 DEF Pcs
  <2>6. b \in BOOLEAN /\ f \in BOOLEAN
    OBVIOUS
  <2>7. pc \in {"check", "mark", "dispatch", "invoke"} => cost = 0
    BY <2>2, <2>5
  <2>8. answered' \in [CallIds -> Nat]
    BY <1>t, <1>b, <2>2, <2>4 DEF AITypeOK
  <2> HIDE DEF n, cost, b, f, pc
  <2>9. t \in Thread /\ t.plan = thread[c].plan /\ t.pc = pc /\ t.cost = cost
    <3>1. thread[c] \in Thread /\ cost \in Amounts /\ n \in Nat /\ pc \in Pcs /\ 0 \in Amounts
      BY <1>s, <1>z, <2>2, <2>5
    <3>2. t \in Thread
      BY <2>6, <3>1, ThreadUpdates, ZenonT(40)
    <3> QED
      BY <3>1, <3>2 DEF Thread
  <2> HIDE DEF t
  <2> QED
    BY <1>8, <1>t, <2>3, <2>4, <2>7, <2>8, <2>9, ThreadMoves DEF Answer, AIInv, AITypeOK
<1>9. ASSUME NEW c \in CallIds, Finalize(c)
      PROVE  AIInv'
  <2>1. SettledAmount(thread[c]) \in Amounts
    BY <1>9, SettledType DEF Finalize
  <2>2. call' \in [CallIds -> Calls]
    <3> DEFINE paid == IF Releases(thread[c]) THEN 0 ELSE SettledAmount(thread[c])
               st == IF thread[c].failed THEN "failed" ELSE "succeeded"
    <3>1. call' = [call EXCEPT ![c].status = st, ![c].settled = paid]
      BY <1>9 DEF Finalize
    <3>2. paid \in Amounts /\ st \in {"succeeded", "failed"}
      BY <1>z, <2>1
    <3> HIDE DEF paid, st
    <3> QED
      BY <1>t, <3>1, <3>2, ZenonT(40) DEF AITypeOK, Calls
  <2>3. thread[c].failed \in BOOLEAN
    BY <1>s DEF Thread
  <2>4. attempt' \in [CallIds -> Seq(S)]
    BY <1>9, <1>t, <2>3, ClosedType DEF Finalize, AITypeOK
  <2>5. usage' \in [CallIds -> Nat]
    BY <1>9, <1>t DEF Finalize, AITypeOK
  <2>6. Continue(c, Off)
    BY <1>9 DEF Finalize
  <2> QED
    BY <1>9, <1>t, <1>z, <2>2, <2>4, <2>5, <2>6, ThreadMoves DEF Finalize, AIInv, AITypeOK
<1>10. ASSUME NEW c \in CallIds, RecoverCall(c)
       PROVE  AIInv'
  <2>1. call' \in [CallIds -> Calls]
    BY <1>10, <1>t, ZenonT(40) DEF RecoverCall, RecoveredAmount, AITypeOK, Calls
  <2>2. attempt' \in [CallIds -> Seq(S)]
    BY <1>10, <1>t, ClosedType DEF RecoverCall, AITypeOK
  <2> QED
    BY <1>10, <1>t, <2>1, <2>2 DEF RecoverCall, AIInv, AITypeOK
<1>11. CASE CrashAll
  BY <1>11, <1>t, <1>z DEF CrashAll, AIInv, AITypeOK
<1>12. CASE StartAI
  BY <1>12 DEF StartAI, callVars, AIInv, AITypeOK
<1>13. ASSUME UNCHANGED aiVars
       PROVE  AIInv'
  BY <1>13 DEF aiVars, callVars, AIInv, AITypeOK
<1>14. CASE \E c \in CallIds : CallStep(c)
  BY <1>14, <1>1, <1>2, <1>3, <1>4, <1>5, <1>6, <1>7, <1>8, <1>9, <1>10 DEF CallStep
<1> QED
  BY <1>11, <1>12, <1>13, <1>14 DEF AINext, Reject, PolicyStep, allVars

(* The rows, attempts and threads of paid calls stay well formed; in        *)
(* particular no call is ever settled at something that is not an amount.   *)
THEOREM CallsTypeCorrect == AISpec => []AITypeOK
<1>1. AISpec => []AIInv
  BY AIInvInit, AIInvStep, PTL DEF AISpec
<1>2. AIInv => AITypeOK
  BY DEF AIInv
<1> QED
  BY <1>1, <1>2, PTL

-----------------------------------------------------------------------------
(* The composition and the gate. *)

(* A step of a call is an operation of the gate with an amount it knows, or *)
(* leaves the gate alone.                                                   *)
LEMMA CallStepIsPolicyStep ==
    ASSUME AIInv, [AINext]_allVars
    PROVE  [Next]_vars
<1>1. ASSUME NEW p \in Plugins, NEW plan \in Plans,
             ReserveAdmitted(p, Estimate(plan)) \/ ReserveRejected(p, Estimate(plan))
      PROVE  Next
  <2>1. Estimate(plan) \in Amounts
    BY RouteAssumption
  <2> QED
    BY <1>1, <2>1 DEF Next, ReserveSpendTx
<1>2. ASSUME NEW c \in CallIds, Finalize(c)
      PROVE  Next
  <2>1. SettledAmount(thread[c]) \in Amounts
    BY <1>2, SettledType DEF Finalize
  <2>2. PICK r \in reservations :
           ReleaseSpendTx(r) \/ Settle(r, IF Releases(thread[c]) THEN 0
                                          ELSE SettledAmount(thread[c]))
    BY <1>2 DEF Finalize
  <2>3. 0 \in Amounts
    BY RouteAssumption
  <2> QED
    BY <2>1, <2>2, <2>3 DEF Next
<1>3. ASSUME NEW c \in CallIds, RecoverCall(c)
      PROVE  Next \/ UNCHANGED vars
  <2>1. call[c].max \in Amounts
    BY DEF AIInv, AITypeOK, Calls
  <2>2. SettleIfThere(c)
    BY <1>3 DEF RecoverCall
  <2> QED
    BY <2>1, <2>2 DEF SettleIfThere, RecoveredAmount, Next
<1>4. ASSUME NEW c \in CallIds, CallStep(c)
      PROVE  Next \/ UNCHANGED vars
  <2>1. CASE \E p \in Plugins, plan \in Plans : Admit(c, p, plan)
    BY <1>1, <2>1 DEF Admit
  <2>2. CASE \/ CancelContext(c) \/ CheckContext(c) \/ MarkDispatching(c) \/ MarkFails(c)
             \/ NoDispatch(c) \/ (\E bill \in Bills : Invoke(c, bill)) \/ Answer(c)
             \/ FinalizeFails(c)
    BY <2>2 DEF CancelContext, CheckContext, MarkDispatching, MarkFails, NoDispatch,
                Invoke, Answer, FinalizeFails
  <2> QED
    BY <1>2, <1>3, <1>4, <2>1, <2>2 DEF CallStep
<1>5. ASSUME NEW p \in Plugins, NEW plan \in Plans, Reject(p, plan)
      PROVE  Next
  BY <1>1, <1>5 DEF Reject
<1>6. CASE CrashAll
  BY <1>6 DEF CrashAll, Next
<1>7. CASE StartAI
  BY <1>7 DEF StartAI
<1>8. CASE PolicyStep
  BY <1>8 DEF PolicyStep, Next
<1>9. CASE UNCHANGED allVars
  BY <1>9 DEF allVars
<1> QED
  BY <1>4, <1>5, <1>6, <1>7, <1>8, <1>9 DEF AINext

(* The calls are a client the gate was written for: admission, settlement,  *)
(* release, crash, orphan settlement and recovery of any number of calls    *)
(* are steps of Policy, so that all its theorems hold of the composition.   *)
THEOREM CallsImplementPolicy == AISpec => ImplementsPolicy
<1>1. AISpec => []AIInv
  BY AIInvInit, AIInvStep, PTL DEF AISpec
<1>2. AIInit => Init
  BY DEF AIInit
<1>3. AIInv /\ [AINext]_allVars => [Next]_vars
  BY CallStepIsPolicyStep
<1> QED
  BY <1>1, <1>2, <1>3, PTL DEF AISpec, Spec, ImplementsPolicy

(* Paid calls keep every plugin within its budget, up to what a provider    *)
(* billed above the maximum of its route, whatever fails or crashes.        *)
THEOREM CallsStayWithinBudget == AISpec => []WithinBudget
<1>1. AISpec => Spec
  BY CallsImplementPolicy DEF ImplementsPolicy
<1> QED
  BY <1>1, SpendStaysWithinBudget, PTL

(* Paid calls keep the gate's books: every bill is charged once, in the     *)
(* period of its admission, the events tell the state, and what a crash     *)
(* orphaned is charged at its maximum.                                      *)
THEOREM CallsKeepTheBooks == AISpec => PolicyHolds
<1>1. AISpec => Spec
  BY CallsImplementPolicy DEF ImplementsPolicy
<1> QED
  BY <1>1, PolicyKeepsItsBooks, PTL

-----------------------------------------------------------------------------
(* Rows and the ledger. *)

Admitted(c) == call[c].status # "none"

Holds(c, r) == r.id = call[c].res /\ r.maximum = call[c].max

Gone(c) == \A r \in reservations : r.id # call[c].res

(* A reservation is outstanding once and unbilled, and belongs to one call. *)
ReservationsInv ==
    /\ \A r, q \in reservations : r.id = q.id => r = q
    /\ \A r \in reservations : r.id \in DOMAIN ledger /\ ledger[r.id].bill = 0
    /\ \A c \in CallIds : Admitted(c) => call[c].res \in DOMAIN ledger
    /\ \A c, d \in CallIds :
          Admitted(c) /\ Admitted(d) /\ call[c].res = call[d].res => c = d

(* A finalized call has no reservation left and is billed as its row says;  *)
(* a pending one holds its maximum, or was billed at it.                    *)
RowsInv ==
    /\ \A c \in CallIds : Finalized(c) => Gone(c) /\ ledger[call[c].res].bill = call[c].settled
    /\ \A c \in CallIds : Pending(c) =>
          \/ \E r \in reservations : Holds(c, r)
          \/ Gone(c) /\ ledger[call[c].res].bill = call[c].max

LedgerInv == ReservationsInv /\ RowsInv

(* What settling and releasing have in common: r goes, and its bill is b. *)
Removes(r, b) ==
    /\ reservations' = reservations \ {r}
    /\ DOMAIN ledger' = DOMAIN ledger
    /\ \A i \in DOMAIN ledger : ledger'[i].bill = IF i = r.id THEN b ELSE ledger[i].bill

(* Settling takes one reservation and bills it. *)
LEMMA SettleRemoves ==
    ASSUME TypeOK, ReservationsInv, NEW r \in reservations, NEW b, SettleSpendTx(r, b)
    PROVE  Removes(r, b)
<1>1. reservations' = reservations \ {r} /\ ledger' = [ledger EXCEPT ![r.id].bill = b]
  BY DEF SettleSpendTx, SettleWithin, SettleOverrun, Charge
<1>2. ledger \in [DOMAIN ledger -> LedgerEntry]
  BY DEF TypeOK
<1>3. \A i \in DOMAIN ledger : ledger'[i] = IF i = r.id THEN [ledger[i] EXCEPT !.bill = b]
                                            ELSE ledger[i]
  BY <1>1, <1>2
<1>4. \A i \in DOMAIN ledger : [ledger[i] EXCEPT !.bill = b].bill = b
  BY <1>2 DEF LedgerEntry
<1> QED
  BY <1>1, <1>2, <1>3, <1>4 DEF Removes

(* Releasing takes one reservation, and it stays unbilled. *)
LEMMA ReleaseRemoves ==
    ASSUME ReservationsInv, NEW r \in reservations, ReleaseSpendTx(r)
    PROVE  Removes(r, 0)
BY DEF ReleaseSpendTx, historyVars, ReservationsInv, Removes

(* The calls and the gate agree after the orphan settlement of a            *)
(* reservation: it bills the maximum the row of its call will say.          *)
LEMMA OrphanKeeps ==
    ASSUME LedgerInv, NEW r \in reservations, Removes(r, r.maximum), call' = call
    PROVE  LedgerInv'
<1> USE DEF LedgerInv, ReservationsInv, Removes, Admitted
<1>1. ReservationsInv'
  OBVIOUS
<1>2. ASSUME NEW c \in CallIds, Finalized(c)
      PROVE  Gone(c)' /\ ledger'[call[c].res].bill = call[c].settled
  BY <1>2 DEF RowsInv, Gone, Finalized
<1>3. ASSUME NEW c \in CallIds, Pending(c)
      PROVE  \/ \E q \in reservations' : Holds(c, q)
             \/ Gone(c)' /\ ledger'[call[c].res].bill = call[c].max
  BY <1>3 DEF RowsInv, Gone, Pending, Holds
<1> QED
  BY <1>1, <1>2, <1>3 DEF RowsInv, Finalized, Pending, Holds, Gone

(* The row of a call that ends, with the bill it is given. *)
Ends(c, b) ==
    /\ call' \in [CallIds -> Calls]
    /\ call'[c].status \in {"succeeded", "failed"}
    /\ call'[c].settled = b /\ call'[c].res = call[c].res /\ call'[c].max = call[c].max
    /\ \A d \in CallIds \ {c} : call'[d] = call[d]

(* A call that ends together with its reservation is billed as it says.     *)
LEMMA EndKeeps ==
    ASSUME LedgerInv, NEW c \in CallIds, Admitted(c), NEW b, Ends(c, b),
           NEW r \in reservations, r.id = call[c].res, Removes(r, b)
    PROVE  LedgerInv'
<1> USE DEF LedgerInv
<1>1. \A d \in CallIds : /\ call'[d].res = call[d].res /\ call'[d].max = call[d].max
                         /\ Admitted(d)' <=> Admitted(d)
  BY DEF Ends, Admitted
<1>2. ReservationsInv'
  BY <1>1 DEF ReservationsInv, Removes
<1>3. Gone(c)' /\ ledger'[call[c].res].bill = b
  BY <1>1 DEF ReservationsInv, Removes, Gone
<1>4. ASSUME NEW d \in CallIds \ {c}, Admitted(d)
      PROVE  /\ call'[d] = call[d] /\ call[d].res # r.id
             /\ ledger'[call[d].res].bill = ledger[call[d].res].bill
             /\ Gone(d) => Gone(d)'
             /\ \A q \in reservations : Holds(d, q) => q \in reservations'
  BY <1>4 DEF Ends, ReservationsInv, Removes, Gone, Holds
<1>5. \A d \in CallIds : Finalized(d) \/ Pending(d) => Admitted(d)
  BY DEF Finalized, Pending, Admitted
<1>6. ASSUME NEW d \in CallIds, Finalized(d)'
      PROVE  Gone(d)' /\ ledger'[call'[d].res].bill = call'[d].settled
  <2>1. CASE d = c
    BY <1>1, <1>3, <2>1 DEF Ends
  <2>2. CASE d # c
    <3>1. Finalized(d)
      BY <1>6, <2>2 DEF Ends, Finalized
    <3> QED
      BY <1>4, <1>5, <2>2, <3>1 DEF RowsInv
  <2> QED
    BY <2>1, <2>2
<1>7. ASSUME NEW d \in CallIds, Pending(d)'
      PROVE  \/ \E q \in reservations' : Holds(d, q)'
             \/ Gone(d)' /\ ledger'[call'[d].res].bill = call'[d].max
  <2>1. d # c
    BY <1>7 DEF Ends, Pending
  <2>2. Pending(d)
    BY <1>7, <2>1 DEF Ends, Pending
  <2> QED
    BY <1>4, <1>5, <2>1, <2>2 DEF RowsInv, Holds
<1>8. RowsInv'
  BY <1>6, <1>7 DEF RowsInv
<1> QED
  BY <1>2, <1>8

(* A recovered call whose reservation went before is billed as it says.     *)
LEMMA LateEndKeeps ==
    ASSUME LedgerInv, NEW c \in CallIds, Pending(c), Gone(c), Ends(c, call[c].max),
           UNCHANGED vars
    PROVE  LedgerInv'
<1> USE DEF LedgerInv
<1>1. reservations' = reservations /\ ledger' = ledger
  BY DEF vars, historyVars
<1>2. \A d \in CallIds : /\ call'[d].res = call[d].res /\ call'[d].max = call[d].max
                         /\ Admitted(d)' <=> Admitted(d)
  BY DEF Ends, Admitted, Pending
<1>3. ReservationsInv'
  BY <1>1, <1>2 DEF ReservationsInv
<1>4. ledger[call[c].res].bill = call[c].max
  BY DEF RowsInv, Gone, Holds
<1>5. RowsInv'
  BY <1>1, <1>2, <1>4 DEF RowsInv, Ends, Gone, Holds, Finalized, Pending
<1> QED
  BY <1>3, <1>5

(* While the service is up nothing of an earlier run is left, and a         *)
(* goroutine works on a call that is not final.                             *)
LiveInv ==
    /\ ready => phase = "serving"
    /\ ready => \A c \in CallIds : Pending(c) => \E r \in reservations : Holds(c, r)
    /\ \A c \in CallIds : thread[c].pc # "off" => ready /\ Pending(c)

CallInv == AIInv /\ TypeOK /\ LedgerInv /\ LiveInv /\ AuditIsClosed

(* A step that touches neither reservations, bills nor rows keeps LedgerInv.*)
LEMMA QuietKeeps ==
    ASSUME LedgerInv, UNCHANGED <<reservations, ledger, call>>
    PROVE  LedgerInv'
BY DEF LedgerInv, ReservationsInv, RowsInv, Admitted, Holds, Gone, Finalized, Pending

(* An admission gives the call a reservation under an id nobody has had.    *)
LEMMA AdmitKeeps ==
    ASSUME LedgerInv, AIInv, NEW c \in CallIds, NEW p \in Plugins, NEW plan \in Plans,
           Admit(c, p, plan)
    PROVE  LedgerInv' /\ \E r \in reservations' : Holds(c, r)'
<1> USE DEF LedgerInv
<1>1. PICK id \in ReservationIds \ DOMAIN ledger :
         /\ reservations' = reservations \cup
               {[id |-> id, plugin |-> p, maximum |-> Estimate(plan), start |-> period]}
         /\ ledger' = [i \in DOMAIN ledger \cup {id} |->
               IF i = id THEN [plugin |-> p, start |-> period, bill |-> 0] ELSE ledger[i]]
  BY DEF Admit, ReserveAdmitted
<1> DEFINE r == [id |-> id, plugin |-> p, maximum |-> Estimate(plan), start |-> period]
<1>2. r.id = id /\ r.maximum = Estimate(plan)
  OBVIOUS
<1>3. reservations' = reservations \cup {r}
  BY <1>1
<1>4. /\ DOMAIN ledger' = DOMAIN ledger \cup {id} /\ ledger'[id].bill = 0
      /\ \A i \in DOMAIN ledger : ledger'[i] = ledger[i]
  BY <1>1
<1> HIDE DEF r
<1>5. PICK q \in reservations' \ reservations :
         call' = [call EXCEPT ![c] = [status |-> "pending", res |-> q.id,
                                      max |-> Estimate(plan), settled |-> 0]]
  BY DEF Admit
<1>6. q = r
  BY <1>3, <1>5
<1>7. /\ call'[c].status = "pending" /\ call'[c].res = id /\ call'[c].max = Estimate(plan)
      /\ \A d \in CallIds \ {c} : call'[d] = call[d]
  BY <1>2, <1>5, <1>6 DEF AIInv, AITypeOK
<1>8. call[c].status = "none"
  BY DEF Admit
<1>9. ReservationsInv'
  BY <1>2, <1>3, <1>4, <1>7 DEF ReservationsInv, Admitted
<1>10. \E s \in reservations' : Holds(c, s)'
  BY <1>2, <1>3, <1>7 DEF Holds
<1>11. ASSUME NEW d \in CallIds \ {c}, Admitted(d)
       PROVE  call[d].res \in DOMAIN ledger /\ call[d].res # id
  BY <1>11 DEF ReservationsInv
<1>12. RowsInv'
  BY <1>2, <1>3, <1>4, <1>7, <1>10, <1>11
     DEF RowsInv, Gone, Holds, Finalized, Pending, Admitted
<1> QED
  BY <1>9, <1>10, <1>12

(* Finalizing a call takes its own reservation and bills what its row says. *)
LEMMA FinalizeEnds ==
    ASSUME CallInv, NEW c \in CallIds, Finalize(c)
    PROVE  /\ Pending(c)
           /\ \E r \in reservations, b \in Amounts : /\ r.id = call[c].res
                                                    /\ Removes(r, b) /\ Ends(c, b)
<1> USE DEF CallInv
<1> DEFINE t == thread[c]
           paid == IF Releases(t) THEN 0 ELSE SettledAmount(t)
           st == IF t.failed THEN "failed" ELSE "succeeded"
<1>1. PICK r \in reservations :
         /\ r.id = call[c].res
         /\ (Releases(t) /\ ReleaseSpendTx(r)) \/ (~ Releases(t) /\ Settle(r, paid))
  BY DEF Finalize
<1>2. Removes(r, paid)
  BY <1>1, SettleRemoves, ReleaseRemoves DEF LedgerInv, Settle
<1>3. call \in [CallIds -> Calls]
  BY DEF AIInv, AITypeOK
<1>4. call' = [call EXCEPT ![c].status = st, ![c].settled = paid]
  BY DEF Finalize
<1>5. paid \in Amounts /\ st \in {"succeeded", "failed"}
  BY SettledType, RouteAssumption DEF Finalize
<1> HIDE DEF paid, st
<1>6. Ends(c, paid)
  BY <1>3, <1>4, <1>5 DEF Ends, Calls
<1>7. Pending(c)
  BY DEF Finalize, LiveInv
<1> QED
  BY <1>1, <1>2, <1>5, <1>6, <1>7

(* Recovering a call bills its maximum, now or in the settlement before.    *)
LEMMA RecoverEnds ==
    ASSUME CallInv, NEW c \in CallIds, RecoverCall(c)
    PROVE  /\ Pending(c) /\ ~ ready /\ Ends(c, call[c].max)
           /\ \/ Gone(c) /\ UNCHANGED vars
              \/ \E r \in reservations : r.id = call[c].res /\ Removes(r, call[c].max)
<1> USE DEF CallInv
<1>1. Pending(c) /\ ~ ready
  BY DEF RecoverCall, Unfinished
<1>2. Ends(c, call[c].max)
  <2>1. call \in [CallIds -> Calls]
    BY DEF AIInv, AITypeOK
  <2>2. call' = [call EXCEPT ![c].status = "failed", ![c].settled = call[c].max]
    BY DEF RecoverCall, RecoveredAmount
  <2> QED
    BY <2>1, <2>2 DEF Ends, Calls
<1>3. SettleIfThere(c)
  BY DEF RecoverCall
<1>4. CASE {r \in reservations : r.id = call[c].res} = {}
  BY <1>1, <1>2, <1>3, <1>4 DEF SettleIfThere, Gone
<1>5. CASE {r \in reservations : r.id = call[c].res} # {}
  <2>1. PICK r \in reservations : r.id = call[c].res /\ Settle(r, call[c].max)
    BY <1>3, <1>5 DEF SettleIfThere, RecoveredAmount
  <2>2. Removes(r, call[c].max)
    BY <2>1, SettleRemoves DEF LedgerInv, Settle
  <2> QED
    BY <1>1, <1>2, <2>1, <2>2
<1> QED
  BY <1>4, <1>5

(* The steps of a call that leave its row and the gate alone. *)
Inner(c) ==
    \/ CancelContext(c) \/ CheckContext(c) \/ MarkDispatching(c) \/ MarkFails(c)
    \/ NoDispatch(c) \/ (\E bill \in Bills : Invoke(c, bill)) \/ Answer(c)
    \/ FinalizeFails(c)

(* They touch nothing but attempts, histories and their own thread, which   *)
(* they do not start.                                                       *)
LEMMA InnerFrame ==
    ASSUME CallInv, NEW c \in CallIds, Inner(c)
    PROVE  /\ UNCHANGED <<vars, ready, call, usage>>
           /\ \A d \in CallIds : thread'[d].pc # "off" => thread[d].pc # "off"
           /\ attempt' = attempt \/ (thread[c].pc = "mark" /\ MarkDispatching(c))
<1>1. UNCHANGED <<vars, ready, call, usage>>
  BY DEF Inner, CancelContext, CheckContext, MarkDispatching, MarkFails, NoDispatch,
         Invoke, Answer, FinalizeFails
<1>2. attempt' = attempt \/ (thread[c].pc = "mark" /\ MarkDispatching(c))
  BY DEF Inner, CancelContext, CheckContext, MarkDispatching, MarkFails, NoDispatch,
         Invoke, Answer, FinalizeFails
<1>3. thread[c].pc # "off"
  BY DEF Inner, CancelContext, CheckContext, MarkDispatching, MarkFails, NoDispatch,
         Invoke, Answer, FinalizeFails
<1>4. \A d \in CallIds \ {c} : thread'[d] = thread[d]
  <2>1. thread' = thread \/ \E t : Continue(c, t)
    BY DEF Inner, CancelContext, CheckContext, MarkDispatching, MarkFails, NoDispatch,
           Invoke, Answer, Receive, FinalizeFails
  <2> QED
    BY <2>1 DEF Continue, CallInv, AIInv, AITypeOK
<1> QED
  BY <1>1, <1>2, <1>3, <1>4

(* What the gate does of its own accord: nothing to a reservation or a bill,*)
(* or the settlement of an orphan before the service is up.                 *)
LEMMA PolicyStepFrame ==
    ASSUME CallInv, PolicyStep
    PROVE  /\ UNCHANGED aiVars
           /\ \/ UNCHANGED <<reservations, ledger>> /\ (phase = "serving" => phase' = "serving")
              \/ /\ phase = "boot"
                 /\ \E r \in reservations : Removes(r, r.maximum)
<1> USE DEF CallInv
<1>1. UNCHANGED aiVars
  BY DEF PolicyStep
<1>2. ASSUME NEW r \in reservations, SettleOrphan(r)
      PROVE  phase = "boot" /\ Removes(r, r.maximum)
  BY <1>2, SettleRemoves DEF SettleOrphan, LedgerInv
<1>3. ASSUME NEW p \in Plugins,
             \/ \E auto \in BOOLEAN : Register(p, auto)
             \/ Enable(p)
             \/ Disable(p)
             \/ \E b \in Budgets : SetBudget(p, b)
      PROVE  UNCHANGED <<reservations, ledger, phase>>
  BY <1>3 DEF Register, Enable, Disable, SetBudget, historyVars
<1>4. Serve \/ Tick => UNCHANGED <<reservations, ledger>> /\ (phase = "serving" => phase' = "serving")
  BY DEF Serve, Tick, historyVars
<1> QED
  BY <1>1, <1>2, <1>3, <1>4 DEF PolicyStep

(* Every step keeps rows and ledger in agreement. *)
LEMMA LedgerStep ==
    ASSUME CallInv, [AINext]_allVars
    PROVE  LedgerInv'
<1> USE DEF CallInv
<1>1. ASSUME NEW c \in CallIds, CallStep(c)
      PROVE  LedgerInv'
  <2>1. CASE \E p \in Plugins, plan \in Plans : Admit(c, p, plan)
    BY <2>1, AdmitKeeps
  <2>2. CASE Inner(c)
    BY <2>2, InnerFrame, QuietKeeps DEF vars, historyVars
  <2>3. CASE Finalize(c)
    <3>1. Pending(c) /\ \E r \in reservations, b \in Amounts :
             r.id = call[c].res /\ Removes(r, b) /\ Ends(c, b)
      BY <2>3, FinalizeEnds
    <3> QED
      BY <3>1, EndKeeps DEF Pending, Admitted
  <2>4. CASE RecoverCall(c)
    <3>1. /\ Pending(c) /\ Ends(c, call[c].max)
          /\ \/ Gone(c) /\ UNCHANGED vars
             \/ \E r \in reservations : r.id = call[c].res /\ Removes(r, call[c].max)
      BY <2>4, RecoverEnds
    <3> QED
      BY <3>1, EndKeeps, LateEndKeeps DEF Pending, Admitted
  <2> QED
    BY <1>1, <2>1, <2>2, <2>3, <2>4 DEF CallStep, Inner
<1>2. CASE \E p \in Plugins, plan \in Plans : Reject(p, plan)
  BY <1>2, QuietKeeps DEF Reject, ReserveRejected, historyVars, aiVars, callVars
<1>3. CASE CrashAll
  BY <1>3, QuietKeeps DEF CrashAll, Crash, historyVars
<1>4. CASE StartAI
  BY <1>4, QuietKeeps DEF StartAI, vars, historyVars, callVars
<1>5. CASE PolicyStep
  <2>1. call' = call
    BY <1>5, PolicyStepFrame DEF aiVars, callVars
  <2> QED
    BY <1>5, <2>1, PolicyStepFrame, OrphanKeeps, QuietKeeps
<1>6. CASE UNCHANGED allVars
  BY <1>6, QuietKeeps DEF allVars, vars, historyVars, aiVars, callVars
<1> QED
  BY <1>1, <1>2, <1>3, <1>4, <1>5, <1>6 DEF AINext

(* A call that ends takes no other call's reservation with it. *)
LEMMA OthersKeepTheirs ==
    ASSUME CallInv, NEW c \in CallIds, Pending(c), NEW b, Ends(c, b),
           NEW r \in reservations, r.id = call[c].res, Removes(r, b),
           NEW d \in CallIds, Pending(d)', NEW q \in reservations, Holds(d, q)
    PROVE  q \in reservations' /\ Holds(d, q)'
<1>1. d # c
  BY DEF Ends, Pending
<1>2. call'[d] = call[d] /\ Pending(d)
  BY <1>1 DEF Ends, Pending
<1>3. call[d].res # call[c].res
  BY <1>1, <1>2 DEF CallInv, LedgerInv, ReservationsInv, Admitted, Pending
<1> QED
  BY <1>2, <1>3 DEF Removes, Holds

(* Every step keeps what holds while the service is up. *)
LEMMA LiveStep ==
    ASSUME CallInv, [AINext]_allVars
    PROVE  LiveInv'
<1> USE DEF CallInv
<1>t. thread \in [CallIds -> Thread] /\ call \in [CallIds -> Calls]
  BY DEF AIInv, AITypeOK
<1>o. Off.pc = "off"
  BY DEF Off
<1>1. ASSUME NEW c \in CallIds, NEW p \in Plugins, NEW plan \in Plans, Admit(c, p, plan)
      PROVE  LiveInv'
  <2>1. ready /\ ready' /\ phase' = "serving"
    BY <1>1 DEF Admit, ReserveAdmitted
  <2>2. \E r \in reservations' : Holds(c, r)'
    BY <1>1, AdmitKeeps
  <2>3. reservations \subseteq reservations'
    BY <1>1 DEF Admit, ReserveAdmitted
  <2>4. call'[c].status = "pending" /\ \A d \in CallIds \ {c} : call'[d] = call[d]
    BY <1>1, <1>t DEF Admit
  <2>5. \A d \in CallIds \ {c} : thread'[d] = thread[d]
    BY <1>1, <1>t DEF Admit, Continue
  <2> QED
    BY <2>1, <2>2, <2>3, <2>4, <2>5 DEF LiveInv, Pending, Holds
<1>2. ASSUME NEW c \in CallIds, Inner(c)
      PROVE  LiveInv'
  <2>1. /\ UNCHANGED <<reservations, phase, ready, call>>
        /\ \A d \in CallIds : thread'[d].pc # "off" => thread[d].pc # "off"
    BY <1>2, InnerFrame DEF vars
  <2> QED
    BY <2>1 DEF LiveInv, Pending, Holds
<1>3. ASSUME NEW c \in CallIds, Finalize(c)
      PROVE  LiveInv'
  <2>1. PICK r \in reservations, b \in Amounts :
           r.id = call[c].res /\ Removes(r, b) /\ Ends(c, b)
    BY <1>3, FinalizeEnds
  <2>2. Pending(c)
    BY <1>3, FinalizeEnds
  <2>3. UNCHANGED <<ready, phase>>
    BY <1>3 DEF Finalize, ReleaseSpendTx, Settle, SettleSpendTx
  <2>4. thread'[c] = Off /\ \A d \in CallIds \ {c} : thread'[d] = thread[d]
    BY <1>3, <1>t DEF Finalize, Continue
  <2>5. \A d \in CallIds \ {c} : call'[d] = call[d]
    BY <2>1 DEF Ends
  <2>6. ASSUME ready, NEW d \in CallIds, Pending(d)'
        PROVE  \E q \in reservations' : Holds(d, q)'
    <3>1. d # c
      BY <2>1, <2>6 DEF Ends, Pending
    <3>2. Pending(d)
      BY <2>5, <2>6, <3>1 DEF Pending
    <3>3. PICK q \in reservations : Holds(d, q)
      BY <2>6, <3>2 DEF LiveInv
    <3> QED
      BY <2>1, <2>2, <2>6, <3>3, OthersKeepTheirs
  <2>7. \A d \in CallIds : thread'[d].pc # "off" => ready' /\ Pending(d)'
    BY <1>o, <2>3, <2>4, <2>5 DEF LiveInv, Pending
  <2> QED
    BY <2>3, <2>6, <2>7 DEF LiveInv
<1>4. ASSUME NEW c \in CallIds, RecoverCall(c)
      PROVE  LiveInv'
  <2>1. ~ ready /\ ~ ready' /\ thread' = thread
    BY <1>4 DEF RecoverCall
  <2> QED
    BY <2>1 DEF LiveInv
<1>5. ASSUME NEW c \in CallIds, CallStep(c)
      PROVE  LiveInv'
  BY <1>1, <1>2, <1>3, <1>4, <1>5 DEF CallStep, Inner
<1>6. CASE \E p \in Plugins, plan \in Plans : Reject(p, plan)
  BY <1>6 DEF Reject, ReserveRejected, aiVars, callVars, LiveInv, Pending, Holds
<1>7. CASE CrashAll
  <2>1. ~ ready' /\ \A c \in CallIds : thread'[c].pc = "off"
    BY <1>7, <1>o DEF CrashAll
  <2> QED
    BY <2>1 DEF LiveInv
<1>8. CASE StartAI
  <2>1. \A c \in CallIds : ~ Pending(c) /\ thread[c].pc = "off"
    BY <1>8 DEF StartAI, Recovered, Unfinished, LiveInv
  <2> QED
    BY <1>8, <2>1 DEF StartAI, callVars, vars, LiveInv, Pending
<1>9. CASE PolicyStep
  <2>1. UNCHANGED <<ready, call, thread>>
    BY <1>9, PolicyStepFrame DEF aiVars, callVars
  <2> QED
    BY <1>9, <2>1, PolicyStepFrame DEF LiveInv, Pending, Holds
<1>10. CASE UNCHANGED allVars
  BY <1>10 DEF allVars, vars, aiVars, callVars, LiveInv, Pending, Holds
<1> QED
  BY <1>5, <1>6, <1>7, <1>8, <1>9, <1>10 DEF AINext

(* No attempt of a closed call is under way. *)
LEMMA ClosedIsClosed ==
    ASSUME NEW c \in CallIds, NEW failed \in BOOLEAN
    PROVE  \A i \in DOMAIN ClosedAttempts(c, failed) :
              ClosedAttempts(c, failed)[i] # "dispatching"
BY DEF ClosedAttempts

(* Every step leaves the audit of finalized calls closed. *)
LEMMA AuditStep ==
    ASSUME CallInv, [AINext]_allVars
    PROVE  AuditIsClosed'
<1> USE DEF CallInv
<1>t. /\ thread \in [CallIds -> Thread] /\ call \in [CallIds -> Calls]
      /\ attempt \in [CallIds -> Seq({"dispatching", "succeeded", "failed"})]
  BY DEF AIInv, AITypeOK
<1>1. ASSUME NEW c \in CallIds, NEW p \in Plugins, NEW plan \in Plans, Admit(c, p, plan)
      PROVE  AuditIsClosed'
  <2>1. call'[c].status = "pending" /\ \A d \in CallIds \ {c} : call'[d] = call[d]
    BY <1>1, <1>t DEF Admit
  <2>2. attempt' = attempt
    BY <1>1 DEF Admit
  <2> QED
    BY <2>1, <2>2 DEF AuditIsClosed, Finalized
<1>2. ASSUME NEW c \in CallIds, Inner(c)
      PROVE  AuditIsClosed'
  <2>1. CASE attempt' = attempt
    BY <1>2, <2>1, InnerFrame DEF AuditIsClosed, Finalized
  <2>2. CASE thread[c].pc = "mark" /\ MarkDispatching(c)
    <3>1. Pending(c)
      BY <2>2 DEF LiveInv
    <3>2. \A d \in CallIds \ {c} : attempt'[d] = attempt[d]
      BY <1>t, <2>2 DEF MarkDispatching
    <3> QED
      BY <1>2, <3>1, <3>2, InnerFrame DEF AuditIsClosed, Finalized, Pending
  <2> QED
    BY <1>2, <2>1, <2>2, InnerFrame
<1>3. ASSUME NEW c \in CallIds, NEW f \in BOOLEAN,
             attempt' = [attempt EXCEPT ![c] = ClosedAttempts(c, f)],
             \A d \in CallIds \ {c} : call'[d] = call[d]
      PROVE  AuditIsClosed'
  BY <1>3, <1>t, ClosedIsClosed DEF AuditIsClosed, Finalized
<1>4. ASSUME NEW c \in CallIds, Finalize(c)
      PROVE  AuditIsClosed'
  <2>1. thread[c].failed \in BOOLEAN
    BY <1>t DEF Thread
  <2>2. attempt' = [attempt EXCEPT ![c] = ClosedAttempts(c, thread[c].failed)]
    BY <1>4 DEF Finalize
  <2>3. \A d \in CallIds \ {c} : call'[d] = call[d]
    BY <1>4, FinalizeEnds DEF Ends
  <2> QED
    BY <1>3, <2>1, <2>2, <2>3
<1>5. ASSUME NEW c \in CallIds, RecoverCall(c)
      PROVE  AuditIsClosed'
  <2>1. attempt' = [attempt EXCEPT ![c] = ClosedAttempts(c, TRUE)]
    BY <1>5 DEF RecoverCall
  <2>2. \A d \in CallIds \ {c} : call'[d] = call[d]
    BY <1>5, RecoverEnds DEF Ends
  <2> QED
    BY <1>3, <2>1, <2>2
<1>6. ASSUME UNCHANGED <<call, attempt>>
      PROVE  AuditIsClosed'
  BY <1>6 DEF AuditIsClosed, Finalized
<1>7. CASE \E c \in CallIds : CallStep(c)
  BY <1>7, <1>1, <1>2, <1>4, <1>5 DEF CallStep, Inner
<1> QED
  BY <1>6, <1>7 DEF AINext, Reject, CrashAll, StartAI, PolicyStep, allVars, aiVars, callVars

-----------------------------------------------------------------------------
(* The theorems about rows. *)

(* A fresh database satisfies the invariant. *)
LEMMA CallInvInit == AIInit => CallInv
<1> SUFFICES ASSUME AIInit PROVE CallInv
  OBVIOUS
<1>1. AIInv /\ TypeOK
  BY AIInvInit, TypeInit DEF AIInit
<1>2. reservations = {} /\ ~ ready
  BY DEF AIInit, Init
<1>3. \A c \in CallIds : call[c].status = "none" /\ thread[c].pc = "off"
  BY DEF AIInit, NoCall, Off
<1>4. LedgerInv /\ LiveInv /\ AuditIsClosed
  BY <1>2, <1>3 DEF LedgerInv, ReservationsInv, RowsInv, LiveInv, AuditIsClosed,
                    Admitted, Finalized, Pending
<1> QED
  BY <1>1, <1>4 DEF CallInv

(* Every step keeps the invariant; the gate's part is its own type theorem. *)
LEMMA CallInvStep == CallInv /\ [AINext]_allVars => CallInv'
<1> SUFFICES ASSUME CallInv, [AINext]_allVars PROVE CallInv'
  OBVIOUS
<1>1. AIInv' /\ [Next]_vars
  BY AIInvStep, CallStepIsPolicyStep DEF CallInv
<1>2. TypeOK'
  BY <1>1, TypeStep DEF CallInv
<1> QED
  BY <1>1, <1>2, LedgerStep, LiveStep, AuditStep DEF CallInv

(* Along every behaviour of any number of calls. *)
LEMMA CallInvAlways == AISpec => []CallInv
BY CallInvInit, CallInvStep, PTL DEF AISpec

(* The row of every finalized call says what the gate charged for it,       *)
(* whichever of settlement, release, orphan settlement and recovery ended   *)
(* it, and whatever crashed in between.                                     *)
THEOREM CallsMatchLedger == AISpec => []CallMatchesLedger
<1>1. CallInv => CallMatchesLedger
  BY DEF CallInv, LedgerInv, RowsInv, CallMatchesLedger
<1> QED
  BY <1>1, CallInvAlways, PTL

(* While the service is up every unfinished call holds the maximum of its   *)
(* route in the gate: none is called without, and none was left over.       *)
THEOREM PendingStaysReserved == AISpec => []PendingIsReserved
<1>1. CallInv => PendingIsReserved
  BY DEF CallInv, LiveInv, Holds, PendingIsReserved
<1> QED
  BY <1>1, CallInvAlways, PTL

(* The attempts of a finalized call are all closed, recovered ones too.     *)
THEOREM AuditStaysClosed == AISpec => []AuditIsClosed
<1>1. CallInv => AuditIsClosed
  BY DEF CallInv
<1> QED
  BY <1>1, CallInvAlways, PTL

(* Nothing touches the row or the usage event of a call that was finalized. *)
THEOREM CallsFinalizedOnce == AISpec => FinalizedOnce
<1> DEFINE Once == \A c \in CallIds : Finalized(c) => call'[c] = call[c] /\ usage'[c] = usage[c]
<1>1. ASSUME CallInv, [AINext]_allVars
      PROVE  Once
  <2>t. /\ call \in [CallIds -> Calls] /\ usage \in [CallIds -> Nat]
    BY <1>1 DEF CallInv, AIInv, AITypeOK
  <2>1. ASSUME NEW c \in CallIds, ~ Finalized(c),
               \A d \in CallIds \ {c} : call'[d] = call[d] /\ usage'[d] = usage[d]
        PROVE  Once
    BY <2>1
  <2>2. ASSUME NEW c \in CallIds, NEW p \in Plugins, NEW plan \in Plans, Admit(c, p, plan)
        PROVE  Once
    BY <2>1, <2>2, <2>t DEF Admit, Finalized
  <2>3. ASSUME NEW c \in CallIds, Finalize(c)
        PROVE  Once
    <3>1. Pending(c) /\ \A d \in CallIds \ {c} : call'[d] = call[d]
      BY <1>1, <2>3, FinalizeEnds DEF Ends
    <3>2. \A d \in CallIds \ {c} : usage'[d] = usage[d]
      BY <2>3, <2>t DEF Finalize
    <3> QED
      BY <2>1, <3>1, <3>2 DEF Pending, Finalized
  <2>4. ASSUME NEW c \in CallIds, RecoverCall(c)
        PROVE  Once
    <3>1. Pending(c) /\ \A d \in CallIds \ {c} : call'[d] = call[d]
      BY <1>1, <2>4, RecoverEnds DEF Ends
    <3>2. usage' = usage
      BY <2>4 DEF RecoverCall
    <3> QED
      BY <2>1, <3>1, <3>2 DEF Pending, Finalized
  <2>5. ASSUME NEW c \in CallIds, Inner(c)
        PROVE  Once
    BY <1>1, <2>5, InnerFrame
  <2>6. CASE \E c \in CallIds : CallStep(c)
    BY <2>2, <2>3, <2>4, <2>5, <2>6 DEF CallStep, Inner
  <2>7. UNCHANGED <<call, usage>> => Once
    OBVIOUS
  <2> HIDE DEF Once
  <2> QED
    BY <1>1, <2>6, <2>7 DEF AINext, Reject, CrashAll, StartAI, PolicyStep, allVars, aiVars,
                            callVars
<1>2. CallInv /\ [AINext]_allVars => [Once]_allVars
  BY <1>1
<1> QED
  BY <1>2, CallInvAlways, PTL DEF AISpec, FinalizedOnce

-----------------------------------------------------------------------------
(* Every answer is paid for. *)

(* A thread that works for a call has received exactly what it will settle; *)
(* a cost is billed, and nothing is known to be missing while one is known. *)
ThreadPays(t, received) ==
    /\ t.pc # "off" => received = t.cost
    /\ t.pc \in {"check", "mark", "dispatch", "invoke"} => t.unknown = FALSE
    /\ t.unknown = TRUE => t.cost = 0
    /\ t.cost # 0 => t.billed = TRUE

(* A row that is not finalized has reported no usage, and one that is not   *)
(* there has received no answer.                                            *)
RowPays(r, used, received) ==
    /\ r.status \in {"none", "pending"} => used = 0
    /\ r.status = "none" => received = 0
    /\ r.status \in {"succeeded", "failed"} =>
          \/ used = 1 /\ r.settled >= received
          \/ used = 0 /\ r.settled = r.max

CallPays(c) ==
    /\ ThreadPays(thread[c], answered[c])
    /\ RowPays(call[c], usage[c], answered[c])

PaidInv == \A c \in CallIds : CallPays(c)

(* A step that leaves the other calls alone has to keep its own in order.   *)
LEMMA OtherCallsPay ==
    ASSUME PaidInv, NEW c \in CallIds, CallPays(c)',
           \A d \in CallIds \ {c} : /\ thread'[d] = thread[d] /\ call'[d] = call[d]
                                    /\ usage'[d] = usage[d] /\ answered'[d] = answered[d]
    PROVE  PaidInv'
<1> SUFFICES ASSUME NEW d \in CallIds PROVE CallPays(d)'
  BY DEF PaidInv
<1>1. CASE d = c
  BY <1>1
<1>2. CASE d # c
  BY <1>2 DEF PaidInv, CallPays
<1> QED
  BY <1>1, <1>2

(* A thread that stops owes nothing. *)
LEMMA OffPays == \A n : ThreadPays(Off, n)
BY DEF Off, ThreadPays

(* The row of a call whose thread is at work is pending, so an answer to it *)
(* disturbs no account that is closed.                                      *)
LEMMA WorkingPays ==
    ASSUME CallInv, PaidInv, NEW c \in CallIds, thread[c].pc # "off",
           NEW t, NEW n, ThreadPays(t, n), Continue(c, t),
           answered' = [answered EXCEPT ![c] = n], UNCHANGED <<call, usage>>
    PROVE  PaidInv'
<1>t. thread \in [CallIds -> Thread] /\ answered \in [CallIds -> Nat]
  BY DEF CallInv, AIInv, AITypeOK
<1>1. thread'[c] = t /\ answered'[c] = n
  BY <1>t DEF Continue
<1>2. \A d \in CallIds \ {c} : thread'[d] = thread[d] /\ answered'[d] = answered[d]
  BY <1>t DEF Continue
<1>3. call[c].status = "pending"
  BY DEF CallInv, LiveInv, Pending
<1>4. usage[c] = 0
  BY <1>3 DEF PaidInv, CallPays, RowPays
<1>5. RowPays(call'[c], usage'[c], answered'[c])
  BY <1>3, <1>4 DEF RowPays
<1>6. CallPays(c)'
  BY <1>1, <1>5 DEF CallPays
<1> QED
  BY <1>2, <1>6, OtherCallsPay

(* The same when the thread received nothing. *)
LEMMA SilentPays ==
    ASSUME CallInv, PaidInv, NEW c \in CallIds, thread[c].pc # "off",
           NEW t, ThreadPays(t, answered[c]), Continue(c, t),
           UNCHANGED <<call, usage, answered>>
    PROVE  PaidInv'
<1>1. answered \in [CallIds -> Nat]
  BY DEF CallInv, AIInv, AITypeOK
<1>2. answered' = [answered EXCEPT ![c] = answered[c]]
  BY <1>1
<1> QED
  BY <1>2, WorkingPays

(* The loop over the attempts: an answer is received with its cost.         *)
LEMMA InnerPays ==
    ASSUME CallInv, PaidInv, NEW c \in CallIds, Inner(c)
    PROVE  PaidInv'
<1> USE DEF CallInv
<1>t. /\ thread[c] \in Thread /\ answered[c] \in Nat
      /\ answered \in [CallIds -> Nat]
  BY DEF AIInv, AITypeOK
<1>p. ThreadPays(thread[c], answered[c])
  BY DEF PaidInv, CallPays
<1>k. thread[c].pc \in {"check", "mark", "dispatch", "invoke"} => thread[c].cost = 0
  BY DEF AIInv
<1>f. UNCHANGED <<call, usage>>
  BY InnerFrame
<1>b. Bills \subseteq Amounts /\ Amounts \subseteq Nat /\ 0 \in Amounts
  BY RouteAssumption, AmountAssumption
<1> DEFINE u == thread[c]
<1>1. CASE CancelContext(c)
  BY <1>1 DEF CancelContext, PaidInv, CallPays
<1>2. CASE CheckContext(c)
  <2> DEFINE t1 == [u EXCEPT !.pc = "settle"]
             t2 == [u EXCEPT !.pc = "settle", !.unknown = u.billed, !.failed = TRUE]
             t3 == [u EXCEPT !.pc = "mark"]
  <2>1. u.pc = "check" /\ u.cost = 0 /\ u.billed \in BOOLEAN /\ answered' = answered
    BY <1>2, <1>k, <1>t DEF CheckContext, Thread
  <2>2. Continue(c, t1) \/ Continue(c, t2) \/ Continue(c, t3)
    BY <1>2 DEF CheckContext
  <2>3. ThreadPays(t1, answered[c])
    BY <1>p, <1>t, <2>1 DEF ThreadPays, Thread
  <2>4. ThreadPays(t2, answered[c])
    BY <1>p, <1>t, <2>1 DEF ThreadPays, Thread
  <2>5. ThreadPays(t3, answered[c])
    BY <1>p, <1>t, <2>1 DEF ThreadPays, Thread
  <2> HIDE DEF t1, t2, t3
  <2> QED
    BY <1>f, <2>1, <2>2, <2>3, <2>4, <2>5, SilentPays
<1>3. CASE MarkDispatching(c)
  <2> DEFINE t == [u EXCEPT !.pc = "dispatch"]
  <2>1. u.pc = "mark" /\ Continue(c, t) /\ answered' = answered
    BY <1>3 DEF MarkDispatching
  <2>2. ThreadPays(t, answered[c])
    BY <1>p, <1>t, <2>1 DEF ThreadPays, Thread
  <2> HIDE DEF t
  <2> QED
    BY <1>f, <2>1, <2>2, SilentPays
<1>4. CASE MarkFails(c) \/ FinalizeFails(c)
  <2>1. u.pc # "off" /\ Continue(c, Off) /\ answered' = answered
    BY <1>4 DEF MarkFails, FinalizeFails
  <2> QED
    BY <1>f, <2>1, OffPays, SilentPays
<1>5. CASE NoDispatch(c)
  <2> DEFINE n == u.next + 1
             t == [u EXCEPT !.pc = "check", !.next = n, !.failed = TRUE]
  <2>1. u.pc = "dispatch" /\ Continue(c, t) /\ answered' = answered
    BY <1>5 DEF NoDispatch
  <2>2. ThreadPays(t, answered[c])
    <3> HIDE DEF n
    <3> QED
      BY <1>p, <1>t, <2>1 DEF ThreadPays, Thread
  <2> HIDE DEF t
  <2> QED
    BY <1>f, <2>1, <2>2, SilentPays
<1>6. CASE \E bill \in Bills : Invoke(c, bill)
  <2>1. PICK bill \in Bills : Invoke(c, bill)
    BY <1>6
  <2> DEFINE t == [u EXCEPT !.pc = "invoke", !.bill = bill]
  <2>2. u.pc = "dispatch" /\ Continue(c, t) /\ answered' = answered
    BY <2>1 DEF Invoke
  <2>3. ThreadPays(t, answered[c])
    BY <1>p, <1>t, <2>2 DEF ThreadPays, Thread
  <2> HIDE DEF t
  <2> QED
    BY <1>f, <2>2, <2>3, SilentPays
<1>7. CASE Answer(c)
  <2>1. PICK a \in Answers(Current(c), u.bill) : Receive(c, a)
    BY <1>7 DEF Answer
  <2> DEFINE class == ClassOf(a, Estimate(u.plan))
             n == u.next + 1
             cost == u.cost + a.cost
             b == u.billed \/ a.billed
             f == class # ""
             pc == IF Spillover(class) THEN "check" ELSE "settle"
             t == [u EXCEPT !.pc = pc, !.next = n, !.cost = cost, !.billed = b,
                            !.failed = f, !.bill = 0]
             got == answered[c] + a.cost
  <2>2. u.pc = "invoke" /\ u.cost = 0 /\ u.unknown = FALSE /\ answered[c] = 0
    BY <1>7, <1>k, <1>p DEF Answer, ThreadPays
  <2>3. a.cost \in Nat /\ (a.cost # 0 => a.billed = TRUE)
    BY <1>b, <2>2, AnswerType
  <2>4. Continue(c, t) /\ answered' = [answered EXCEPT ![c] = got]
    BY <2>1 DEF Receive
  <2>5. cost = got /\ (cost # 0 => b = TRUE)
    BY <2>2, <2>3
  <2>6. pc # "off"
    OBVIOUS
  <2> HIDE DEF n, cost, b, f, pc, got
  <2>7. t.pc = pc /\ t.cost = cost /\ t.billed = b /\ t.unknown = FALSE
    BY <1>t, <2>2 DEF Thread
  <2> HIDE DEF t
  <2>8. ThreadPays(t, got)
    BY <2>5, <2>6, <2>7 DEF ThreadPays
  <2> QED
    BY <1>f, <2>2, <2>4, <2>8, WorkingPays
<1> QED
  BY <1>1, <1>2, <1>3, <1>4, <1>5, <1>6, <1>7 DEF Inner

(* Settling a call charges what its thread received, or the maximum of its  *)
(* plan when its bill is not known; a call is free when nothing was billed. *)
LEMMA FinalizePays ==
    ASSUME CallInv, PaidInv, NEW c \in CallIds, Finalize(c)
    PROVE  PaidInv'
<1> USE DEF CallInv
<1> DEFINE u == thread[c]
           paid == IF Releases(u) THEN 0 ELSE SettledAmount(u)
           st == IF u.failed THEN "failed" ELSE "succeeded"
<1>t. /\ thread \in [CallIds -> Thread] /\ call \in [CallIds -> Calls]
      /\ usage \in [CallIds -> Nat] /\ answered \in [CallIds -> Nat]
  BY DEF AIInv, AITypeOK
<1>1. call[c].status = "pending"
  BY FinalizeEnds DEF Pending
<1>2. usage[c] = 0 /\ ThreadPays(u, answered[c])
  BY <1>1 DEF PaidInv, CallPays, RowPays
<1>3. answered[c] = u.cost /\ u.cost \in Nat
  BY <1>2, <1>t, RouteAssumption, AmountAssumption DEF Finalize, ThreadPays, Thread
<1>4. Estimate(u.plan) \in Nat
  BY RouteAssumption, AmountAssumption DEF Finalize, AIInv
<1>5. u.unknown \in BOOLEAN /\ u.billed \in BOOLEAN
  BY <1>t DEF Thread
<1>6. paid >= answered[c]
  BY <1>2, <1>3, <1>4, <1>5 DEF ThreadPays, Releases, SettledAmount
<1>7. /\ call' = [call EXCEPT ![c].status = st, ![c].settled = paid]
      /\ usage' = [usage EXCEPT ![c] = @ + 1] /\ Continue(c, Off) /\ answered' = answered
  BY DEF Finalize
<1>8. st \in {"succeeded", "failed"}
  OBVIOUS
<1> HIDE DEF paid, st
<1>9. /\ call'[c].status = st /\ call'[c].settled = paid
      /\ usage'[c] = 1 /\ thread'[c] = Off
  BY <1>2, <1>7, <1>t DEF Continue, Calls
<1>10. \A d \in CallIds \ {c} : /\ thread'[d] = thread[d] /\ call'[d] = call[d]
                                /\ usage'[d] = usage[d] /\ answered'[d] = answered[d]
  BY <1>7, <1>t DEF Continue
<1>11. RowPays(call'[c], usage'[c], answered'[c])
  BY <1>6, <1>7, <1>8, <1>9 DEF RowPays
<1>12. CallPays(c)'
  BY <1>9, <1>11, OffPays DEF CallPays
<1> QED
  BY <1>10, <1>12, OtherCallsPay

(* Recovery charges the maximum and reports no usage. *)
LEMMA RecoverPays ==
    ASSUME CallInv, PaidInv, NEW c \in CallIds, RecoverCall(c)
    PROVE  PaidInv'
<1> USE DEF CallInv
<1>t. call \in [CallIds -> Calls]
  BY DEF AIInv, AITypeOK
<1>1. call[c].status = "pending" /\ UNCHANGED <<thread, usage, answered>>
  BY DEF RecoverCall, Unfinished, Pending
<1>2. call' = [call EXCEPT ![c].status = "failed", ![c].settled = call[c].max]
  BY DEF RecoverCall, RecoveredAmount
<1>3. /\ call'[c].status = "failed" /\ call'[c].settled = call'[c].max
      /\ \A d \in CallIds \ {c} : call'[d] = call[d]
  BY <1>2, <1>t DEF Calls
<1>4. usage[c] = 0 /\ ThreadPays(thread[c], answered[c])
  BY <1>1 DEF PaidInv, CallPays, RowPays
<1>5. RowPays(call'[c], usage'[c], answered'[c])
  BY <1>1, <1>3, <1>4 DEF RowPays
<1>6. CallPays(c)'
  BY <1>1, <1>4, <1>5 DEF CallPays
<1> QED
  BY <1>1, <1>3, <1>6, OtherCallsPay

(* A new call has received nothing and reported nothing. *)
LEMMA AdmitPays ==
    ASSUME CallInv, PaidInv, NEW c \in CallIds, NEW p \in Plugins, NEW plan \in Plans,
           Admit(c, p, plan)
    PROVE  PaidInv'
<1> USE DEF CallInv
<1> DEFINE t == [Off EXCEPT !.pc = "check", !.plan = plan, !.next = 1]
<1>t. thread \in [CallIds -> Thread] /\ call \in [CallIds -> Calls]
  BY DEF AIInv, AITypeOK
<1>1. /\ call[c].status = "none" /\ Continue(c, t) /\ UNCHANGED <<usage, answered>>
  BY DEF Admit
<1>2. call'[c].status = "pending" /\ \A d \in CallIds \ {c} : call'[d] = call[d]
  BY <1>t DEF Admit
<1>3. usage[c] = 0 /\ answered[c] = 0
  BY <1>1 DEF PaidInv, CallPays, RowPays
<1>4. ThreadPays(t, 0)
  BY DEF Off, ThreadPays
<1> HIDE DEF t
<1>5. thread'[c] = t /\ \A d \in CallIds \ {c} : thread'[d] = thread[d]
  BY <1>1, <1>t DEF Continue
<1>6. RowPays(call'[c], usage'[c], answered'[c])
  BY <1>1, <1>2, <1>3 DEF RowPays
<1>7. CallPays(c)'
  BY <1>1, <1>3, <1>4, <1>5, <1>6 DEF CallPays
<1> QED
  BY <1>1, <1>2, <1>5, <1>7, OtherCallsPay

(* Every step keeps every account. *)
LEMMA PaidStep == CallInv /\ PaidInv /\ [AINext]_allVars => PaidInv'
<1> SUFFICES ASSUME CallInv, PaidInv, [AINext]_allVars PROVE PaidInv'
  OBVIOUS
<1>1. ASSUME NEW c \in CallIds, CallStep(c)
      PROVE  PaidInv'
  BY <1>1, AdmitPays, InnerPays, FinalizePays, RecoverPays DEF CallStep, Inner
<1>2. ASSUME UNCHANGED <<thread, call, usage, answered>>
      PROVE  PaidInv'
  BY <1>2 DEF PaidInv, CallPays
<1>3. CASE CrashAll
  <2>1. UNCHANGED <<call, usage, answered>> /\ \A c \in CallIds : thread'[c] = Off
    BY <1>3 DEF CrashAll
  <2> QED
    BY <2>1, OffPays DEF PaidInv, CallPays
<1> QED
  BY <1>1, <1>2, <1>3 DEF AINext, Reject, StartAI, PolicyStep, allVars, aiVars, callVars

(* No answer the service received goes unpaid, whatever is cancelled, fails *)
(* to be stored or crashes: a call settles at least the cost of its answers,*)
(* and one that is recovered its maximum.                                   *)
THEOREM AnswersStayPaid == AISpec => []AnswersArePaid
<1>1. AIInit => PaidInv
  <2> SUFFICES ASSUME AIInit PROVE PaidInv
    OBVIOUS
  <2>1. \A c \in CallIds : /\ thread[c] = Off /\ call[c].status = "none"
                           /\ usage[c] = 0 /\ answered[c] = 0
    BY DEF AIInit, NoCall
  <2> QED
    BY <2>1, OffPays DEF PaidInv, CallPays, RowPays
<1>2. PaidInv => AnswersArePaid
  BY DEF PaidInv, CallPays, RowPays, AnswersArePaid, Finalized
<1> QED
  BY <1>1, <1>2, PaidStep, CallInvAlways, PTL DEF AISpec

(* All that the audit trail of the paid calls promises, in one statement.   *)
THEOREM CallsStayTrue == AISpec => CallsHold
  BY CallsTypeCorrect, CallsMatchLedger, PendingStaysReserved, AnswersStayPaid,
     AuditStaysClosed, CallsFinalizedOnce, PTL DEF CallsHold
=============================================================================
