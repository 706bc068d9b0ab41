------------------------------- MODULE AICall -------------------------------
(***************************************************************************)
(* A paid AI call from admission to settlement: internal/core/ai           *)
(* (dispatch.go, service.go, the adapters), composed with the spend gate,  *)
(* whose operations run inside the transactions of the call.               *)
(*                                                                         *)
(* A call inserts its row and reserves the most its route can cost, tries  *)
(* the attempts of the route in order, and settles in a last transaction.  *)
(* Between the transactions its context may be cancelled, the provider may *)
(* charge without answering, and the process may die.                      *)
(***************************************************************************)
EXTENDS Policy, Sequences

CONSTANTS
    CallIds,       \* ids newID may return; none is returned twice
    Plans,         \* usable routes: the most each attempt can cost; 0: subscription
    Bills,         \* what a provider may charge for an attempt
    NoReservation, \* reservation_id of a row that is not there
    StorageFaults  \* whether a transaction of a call may fail

(* estimateChat, estimateEmbed: the most the whole plan could cost. *)
Estimate(plan) == Total(plan)

ASSUME RouteAssumption ==
    /\ Plans \subseteq Seq(0..MaxAmount) \ {<<>>}
    /\ \A plan \in Plans : Estimate(plan) \in Amounts
    /\ 0 \in Amounts /\ Bills \subseteq Amounts
    /\ NoReservation \notin ReservationIds
    /\ StorageFaults \in BOOLEAN

VARIABLES
    ready,      \* ai.New has returned
    call,       \* core_ai_calls
    attempt,    \* status of core_ai_attempts, by call and ordinal
    thread,     \* the goroutine of execute
    cancelled,  \* calls whose context is cancelled
    usage,      \* core.ai.usage events, by call
    answered,   \* history: cost of the answers the service received
    charged     \* history: what providers charged

callVars == <<call, attempt, thread, cancelled, usage, answered, charged>>
aiVars == <<ready, callVars>>
allVars == <<vars, aiVars>>

(* check: the context is looked at before attempt `next`; mark: its row is  *)
(* written; dispatch: its credential is resolved; invoke: the provider was  *)
(* called and has charged `bill`; settle: the loop is over.                 *)
Pcs == {"off", "check", "mark", "dispatch", "invoke", "settle"}

Thread == [pc : Pcs, plan : Plans \cup {<<>>}, next : Nat, cost : Amounts, billed : BOOLEAN, unknown : BOOLEAN,
           failed : BOOLEAN, bill : Amounts]

Calls == [status : {"none", "pending", "succeeded", "failed"},
          res : ReservationIds \cup {NoReservation}, max : Amounts, settled : Amounts]

AITypeOK ==
    /\ ready \in BOOLEAN
    /\ call \in [CallIds -> Calls]
    /\ attempt \in [CallIds -> Seq({"dispatching", "succeeded", "failed"})]
    /\ thread \in [CallIds -> Thread]
    /\ cancelled \subseteq CallIds
    /\ usage \in [CallIds -> Nat]
    /\ answered \in [CallIds -> Nat]
    /\ charged \in [CallIds -> Nat]

Off == [pc |-> "off", plan |-> <<>>, next |-> 0, cost |-> 0, billed |-> FALSE, unknown |-> FALSE,
        failed |-> FALSE, bill |-> 0]

NoCall == [status |-> "none", res |-> NoReservation, max |-> 0, settled |-> 0]

AIInit ==
    /\ Init
    /\ ready = FALSE
    /\ call = [c \in CallIds |-> NoCall]
    /\ attempt = [c \in CallIds |-> <<>>]
    /\ thread = [c \in CallIds |-> Off]
    /\ cancelled = {}
    /\ usage = [c \in CallIds |-> 0]
    /\ answered = [c \in CallIds |-> 0]
    /\ charged = [c \in CallIds |-> 0]

Finalized(c) == call[c].status \in {"succeeded", "failed"}

Pending(c) == call[c].status = "pending"

Continue(c, t) == thread' = [thread EXCEPT ![c] = t]

-----------------------------------------------------------------------------
(* Admission: the row and the reservation in one transaction. *)

Admit(c, p, plan) ==
    /\ ready
    /\ call[c].status = "none"
    /\ ReserveAdmitted(p, Estimate(plan))
    /\ \E r \in reservations' \ reservations :
          call' = [call EXCEPT ![c] = [status |-> "pending", res |-> r.id,
                                       max |-> Estimate(plan), settled |-> 0]]
    /\ Continue(c, [Off EXCEPT !.pc = "check", !.plan = plan, !.next = 1])
    /\ UNCHANGED <<ready, attempt, cancelled, usage, answered, charged>>

(* A domain rejection commits what policy wrote, without the row. *)
Reject(p, plan) ==
    /\ ready
    /\ ReserveRejected(p, Estimate(plan))
    /\ UNCHANGED aiVars

CancelContext(c) ==
    /\ thread[c].pc # "off"
    /\ c \notin cancelled
    /\ cancelled' = cancelled \cup {c}
    /\ UNCHANGED <<vars, ready, call, attempt, thread, usage, answered, charged>>

-----------------------------------------------------------------------------
(* The loop over the attempts. *)

CheckContext(c) ==
    LET t == thread[c]
    IN  /\ t.pc = "check"
        /\ \/ /\ t.next > Len(t.plan)
              /\ Continue(c, [t EXCEPT !.pc = "settle"])
           \/ /\ t.next <= Len(t.plan) /\ c \in cancelled
              /\ Continue(c, [t EXCEPT !.pc = "settle", !.unknown = t.billed, !.failed = TRUE])
           \/ /\ t.next <= Len(t.plan) /\ c \notin cancelled
              /\ Continue(c, [t EXCEPT !.pc = "mark"])
        /\ UNCHANGED <<vars, ready, call, attempt, cancelled, usage, answered, charged>>

MarkDispatching(c) ==
    /\ thread[c].pc = "mark"
    /\ c \notin cancelled
    /\ attempt' = [attempt EXCEPT ![c] = Append(@, "dispatching")]
    /\ Continue(c, [thread[c] EXCEPT !.pc = "dispatch"])
    /\ UNCHANGED <<vars, ready, call, cancelled, usage, answered, charged>>

(* The context is cancelled by now, or the transaction fails: execute       *)
(* returns, and neither settles nor releases.                               *)
MarkFails(c) ==
    /\ thread[c].pc = "mark"
    /\ c \in cancelled \/ StorageFaults
    /\ Continue(c, Off)
    /\ UNCHANGED <<vars, ready, call, attempt, cancelled, usage, answered, charged>>

(* dispatchFor finds no credential, or the kind has no adapter: the next    *)
(* attempt is tried, whatever the error.                                    *)
NoDispatch(c) ==
    /\ thread[c].pc = "dispatch"
    /\ Continue(c, [thread[c] EXCEPT !.pc = "check", !.next = @ + 1, !.failed = TRUE])
    /\ UNCHANGED <<vars, ready, call, attempt, cancelled, usage, answered, charged>>

Metered(price) == price # 0

Current(c) == thread[c].plan[thread[c].next]

(* The provider is called, and charges; a bill above the price of the       *)
(* attempt is its breach of the limits it was given.                        *)
Invoke(c, bill) ==
    /\ thread[c].pc = "dispatch"
    /\ ~ Metered(Current(c)) => bill = 0
    /\ charged' = [charged EXCEPT ![c] = @ + bill]
    /\ Continue(c, [thread[c] EXCEPT !.pc = "invoke", !.bill = bill])
    /\ UNCHANGED <<vars, ready, call, attempt, cancelled, usage, answered>>

(* The classes of errorClass that were free: the request was refused. *)
Refusals == {"rate_limit", "quota", "credential", "provider"}

(* What the OpenAI adapter returns.  A complete answer carries its cost.    *)
(* After a lost connection, a 5xx, a body it cannot read or usage it cannot *)
(* price it knows none; it calls the lost connection alone unbilled.        *)
OpenAIAnswers(bill) ==
    {[class |-> "", billed |-> TRUE, cost |-> bill],
     [class |-> "transport", billed |-> FALSE, cost |-> 0]}
    \cup {[class |-> k, billed |-> TRUE, cost |-> 0] :
             k \in {"provider_5xx", "provider", "accounting_invariant"}}
    \cup {[class |-> k, billed |-> FALSE, cost |-> 0] :
             k \in IF bill = 0 THEN Refusals ELSE {}}

(* The codex adapter: the plan was charged, never the request. *)
CodexAnswers ==
    {[class |-> k, billed |-> FALSE, cost |-> 0] :
        k \in Refusals \cup {"", "transport", "provider_5xx", "unsupported"}}

(* Codex is always a subscription; other adapters may be. *)
Answers(price, bill) ==
    OpenAIAnswers(bill) \cup IF Metered(price) THEN {} ELSE CodexAnswers

Spillover(class) == class \in {"rate_limit", "quota", "provider_5xx", "unsupported"}

(* A cost above the whole reservation breaks the bound it was admitted on. *)
ClassOf(a, max) == IF a.cost > max THEN "accounting_invariant" ELSE a.class

Receive(c, a) ==
    LET t     == thread[c]
        class == ClassOf(a, Estimate(t.plan))
    IN  /\ answered' = [answered EXCEPT ![c] = @ + a.cost]
        /\ Continue(c, [t EXCEPT !.pc = IF Spillover(class) THEN "check" ELSE "settle",
                                 !.next = @ + 1, !.cost = @ + a.cost, !.billed = @ \/ a.billed,
                                 !.failed = class # "", !.bill = 0])

Answer(c) ==
    /\ thread[c].pc = "invoke"
    /\ \E a \in Answers(Current(c), thread[c].bill) : Receive(c, a)
    /\ UNCHANGED <<vars, ready, call, attempt, cancelled, usage, charged>>

-----------------------------------------------------------------------------
(* Finalization: row, attempts, settlement and event in one transaction.    *)

ClosedLast(c, failed) ==  \* mutant: only the last attempt is updated
    [attempt[c] EXCEPT ![Len(attempt[c])] = IF failed THEN "failed" ELSE "succeeded"]

(* The attempts that were made: the last one as the call, the others failed.*)
ClosedAttempts(c, failed) ==
    [i \in DOMAIN attempt[c] |->
        IF attempt[c][i] # "dispatching" THEN attempt[c][i]
        ELSE IF ~ failed /\ i = thread[c].next - 1 THEN "succeeded" ELSE "failed"]

SettledTwice(t) == t.cost + Estimate(t.plan)  \* mutant: the maximum on top of the cost

SettledAmount(t) == IF t.unknown THEN Estimate(t.plan) ELSE t.cost

ReleasesFailed(t) == t.failed /\ ~ t.unknown  \* mutant: a failed call is free

Releases(t) == ~ t.billed /\ ~ t.unknown

Finalize(c) ==
    LET t    == thread[c]
        paid == IF Releases(t) THEN 0 ELSE SettledAmount(t)
    IN  /\ t.pc = "settle"
        /\ \E r \in reservations :
              /\ r.id = call[c].res
              /\ \/ Releases(t) /\ ReleaseSpendTx(r)
                 \/ ~ Releases(t) /\ Settle(r, paid)
        /\ call' = [call EXCEPT ![c].status = IF t.failed THEN "failed" ELSE "succeeded",
                                ![c].settled = paid]
        /\ attempt' = [attempt EXCEPT ![c] = ClosedAttempts(c, t.failed)]
        /\ usage' = [usage EXCEPT ![c] = @ + 1]
        /\ Continue(c, Off)
        /\ UNCHANGED <<ready, cancelled, answered, charged>>

FinalizeFails(c) ==
    /\ StorageFaults
    /\ thread[c].pc = "settle"
    /\ Continue(c, Off)
    /\ UNCHANGED <<vars, ready, call, attempt, cancelled, usage, answered, charged>>

-----------------------------------------------------------------------------
(* Crash and start.  Policy settles orphans before ai.New runs; ai.New      *)
(* finalizes the rows that are left before anybody can call.                *)

CrashAll ==
    /\ Crash
    /\ ready' = FALSE
    /\ thread' = [c \in CallIds |-> Off]
    /\ cancelled' = {}
    /\ UNCHANGED <<call, attempt, usage, answered, charged>>

UnfinishedAll(c) == call[c].status # "none"  \* mutant: finalized_at is not looked at

Unfinished(c) == Pending(c)

RecoveredFree(c) == 0  \* mutant: the row keeps its default

RecoveredAmount(c) == call[c].max

SettleAgain(c) ==  \* mutant: the charge does not depend on the reservation
    /\ committed' = [k \in Keys |-> IF k \in KeysOf(ledger[call[c].res])
          THEN committed[k] + RecoveredAmount(c) ELSE committed[k]]
    /\ UNCHANGED <<stateVars, period, reservations, budgetEvents, published, phase, historyVars>>

(* finalizeConservative: the reservation is usually gone by now. *)
SettleIfThere(c) ==
    LET open == {r \in reservations : r.id = call[c].res}
    IN  IF open = {} THEN UNCHANGED vars ELSE \E r \in open : Settle(r, RecoveredAmount(c))

RecoverCall(c) ==
    /\ phase = "serving"
    /\ ~ ready
    /\ Unfinished(c)
    /\ call' = [call EXCEPT ![c].status = "failed", ![c].settled = RecoveredAmount(c)]
    /\ attempt' = [attempt EXCEPT ![c] = ClosedAttempts(c, TRUE)]
    /\ SettleIfThere(c)
    /\ UNCHANGED <<ready, thread, cancelled, usage, answered, charged>>

RecoveredNothing == TRUE  \* mutant: the rows are not recovered

Recovered == \A c \in CallIds : ~ Unfinished(c)

StartAI ==
    /\ phase = "serving"
    /\ ~ ready
    /\ Recovered
    /\ ready' = TRUE
    /\ UNCHANGED <<vars, callVars>>

(* Everything else that happens to policy: the administrator and the host   *)
(* act once the service is up, the clock and the settlement of orphans do   *)
(* not wait for it.                                                         *)
PolicyStep ==
    /\ \/ /\ ready
          /\ \E p \in Plugins :
                \/ \E auto \in BOOLEAN : Register(p, auto)
                \/ Enable(p)
                \/ Disable(p)
                \/ \E b \in Budgets : SetBudget(p, b)
       \/ \E r \in reservations : SettleOrphan(r)
       \/ Serve
       \/ Tick
    /\ UNCHANGED aiVars

-----------------------------------------------------------------------------

CallStep(c) ==
    \/ \E p \in Plugins, plan \in Plans : Admit(c, p, plan)
    \/ CancelContext(c)
    \/ CheckContext(c)
    \/ MarkDispatching(c)
    \/ MarkFails(c)
    \/ NoDispatch(c)
    \/ \E bill \in Bills : Invoke(c, bill)
    \/ Answer(c)
    \/ Finalize(c)
    \/ FinalizeFails(c)
    \/ RecoverCall(c)

AINext ==
    \/ \E c \in CallIds : CallStep(c)
    \/ \E p \in Plugins, plan \in Plans : Reject(p, plan)
    \/ CrashAll
    \/ StartAI
    \/ PolicyStep

AISpec == AIInit /\ [][AINext]_allVars

-----------------------------------------------------------------------------
(* Properties. *)

(* The composition is a client the gate was written for: every step is one  *)
(* of Policy's or leaves policy alone, so what Policy guarantees holds here.*)
ImplementsPolicy == Spec

(* What a finalized call says it cost is what policy charged for it, in     *)
(* every order of settlement, crash, orphan settlement and recovery.        *)
CallMatchesLedger ==
    \A c \in CallIds : Finalized(c) => ledger[call[c].res].bill = call[c].settled

(* While the service is up, an unfinished call still holds its reservation: *)
(* none of an earlier run is left over, and no provider is called without.  *)
PendingIsReserved ==
    ready => \A c \in CallIds : Pending(c) =>
        \E r \in reservations : r.id = call[c].res /\ r.maximum = call[c].max

(* No answer the service received goes unpaid: a call that settled charges  *)
(* at least the cost of its answers, and one that was recovered its maximum.*)
AnswersArePaid ==
    \A c \in CallIds : Finalized(c) =>
        \/ usage[c] = 1 /\ call[c].settled >= answered[c]
        \/ usage[c] = 0 /\ call[c].settled = call[c].max

(* The audit of a finalized call is complete: none of its attempts is left  *)
(* as if it were under way.                                                 *)
AuditIsClosed ==
    \A c \in CallIds : Finalized(c) => \A i \in DOMAIN attempt[c] : attempt[c][i] # "dispatching"

(* A call is finalized once: nothing that comes later, a recovery included, *)
(* touches its row or publishes its usage again.                            *)
FinalizedOnce ==
    [][\A c \in CallIds : Finalized(c) =>
          call'[c] = call[c] /\ usage'[c] = usage[c]]_allVars

(* What the service keeps about its calls, in every order of settlement,     *)
(* crash and recovery (the parts are stated above).                          *)
CallsHold ==
    /\ [](AITypeOK /\ CallMatchesLedger /\ PendingIsReserved /\ AnswersArePaid /\ AuditIsClosed)
    /\ FinalizedOnce

-----------------------------------------------------------------------------
(* What the documentation says, and the code does not do.                   *)

(* docs/modules/ai.md: "If provider billing is ambiguous because of timeout,*)
(* cancellation, transport loss, or crash recovery, settlement permanently  *)
(* records the conservative amount."  A provider that kept to the prices of *)
(* the route has been paid for.                                             *)
AmbiguousIsCharged ==
    \A c \in CallIds : Finalized(c) =>
        charged[c] > call[c].max \/ call[c].settled >= charged[c]

(* docs/modules/ai.md: "an already-admitted paid request may finish and is  *)
(* always finalized or conservatively settled": while the service is up,    *)
(* somebody still works on every call that is not.                          *)
NoneAbandoned == ready => \A c \in CallIds : Pending(c) => thread[c].pc # "off"

(* docs/modules/ai.md: core.ai.usage is published "once for every finalized *)
(* call, successful or not".                                                *)
EveryCallReported == \A c \in CallIds : Finalized(c) => usage[c] = 1
=============================================================================
