------------------------------- MODULE Policy -------------------------------
(***************************************************************************)
(* The spend gate: internal/core/policy.  Which plugins are enabled, what  *)
(* each may spend per UTC hour, day and month, the reservations that hold  *)
(* capacity for paid calls in flight, and the ledger of what was charged.  *)
(*                                                                         *)
(* Every operation of the store runs in one storage transaction, and       *)
(* storage has a single writer, so each operation is one action.  Amounts  *)
(* are integer micro-USD.  A zero limit means unlimited.                   *)
(***************************************************************************)
EXTENDS Integers, FiniteSets

CONSTANTS
    Plugins,          \* plugin ids
    ReservationIds,   \* the random ids newID may return; none is returned twice
    MaxAmount,        \* no single amount is above this
    Amounts,          \* the maxima and the actual costs that paid calls have
    Budgets,          \* the budgets an administrator may set
    MaxPeriod,        \* bound: how many hours the clock may advance
    MaxEnables        \* bound: how often one plugin is enabled

AllWindows == {"hour", "day", "month"}

ExceedActions == {"reject", "disable"}

Budget == [limit : [AllWindows -> Nat], onExceed : ExceedActions]

NoBudget == [limit |-> [w \in AllWindows |-> 0], onExceed |-> "reject"]

ASSUME AmountAssumption == MaxAmount \in Nat /\ Amounts \subseteq 0..MaxAmount
ASSUME BudgetAssumption == Budgets \subseteq Budget
ASSUME BoundAssumption == MaxPeriod \in Nat /\ MaxEnables \in Nat

Periods == 0..MaxPeriod

VARIABLES
    registered,        \* plugins with a row in core_plugin_state
    automated,         \* ... whose automated column is set
    enabled,           \* ... whose enabled column is set
    accountingFailed,  \* ... whose accounting_failed_at is not null
    budget,            \* core_plugin_budget
    period,            \* the period of each window that contains "now"
    reservations,      \* rows of core_plugin_spend_reservations
    committed,         \* core_plugin_spend: plugin, window, period -> amount
    budgetEvents,      \* keys of core_plugin_budget_events
    published,         \* events written to the bus, counted by kind
    phase,             \* "boot": orphans are being settled; "serving"
    ledger,            \* history: every reservation ever admitted, and its bill
    overrun            \* history: charges above the reserved maximum

stateVars == <<registered, automated, enabled, accountingFailed, budget>>
historyVars == <<ledger, overrun>>
vars == <<stateVars, period, reservations, committed, budgetEvents, published,
          phase, historyVars>>

Keys == Plugins \X AllWindows \X Periods

Reservation == [id : ReservationIds, plugin : Plugins, maximum : 0..MaxAmount,
                start : [AllWindows -> Periods]]

LedgerEntry == [plugin : Plugins, start : [AllWindows -> Periods], bill : 0..MaxAmount]

Published == [enable : [Plugins -> Nat], disable : [Plugins -> Nat],
              exceeded : [Keys -> Nat]]

TypeOK ==
    /\ registered \subseteq Plugins
    /\ automated \subseteq registered
    /\ enabled \subseteq registered
    /\ accountingFailed \subseteq Plugins
    /\ budget \in [Plugins -> Budget]
    /\ period \in [AllWindows -> Periods]
    /\ reservations \subseteq Reservation
    /\ committed \in [Keys -> Nat]
    /\ budgetEvents \subseteq Keys
    /\ published \in Published
    /\ phase \in {"boot", "serving"}
    /\ DOMAIN ledger \subseteq ReservationIds
    /\ ledger \in [DOMAIN ledger -> LedgerEntry]
    /\ overrun \in [Keys -> Nat]

-----------------------------------------------------------------------------
(* Sums.  The total of a function with values in 0..MaxAmount is the        *)
(* number of its unit amounts; a cardinality is a sum the prover can reason *)
(* about without induction.                                                 *)

Units(f) == {u \in (DOMAIN f) \X (1..MaxAmount) : u[2] <= f[u[1]]}

Total(f) == Cardinality(Units(f))

(* The rows of table R that pin period s of window w for plugin p. *)
Pinned(R, p, w, s) == {r \in R : r.plugin = p /\ r.start[w] = s}

(* SELECT coalesce(sum(maximum_microusd), 0): the reserved half of usage. *)
Reserved(R, p, w, s) == Total([r \in Pinned(R, p, w, s) |-> r.maximum])

(* windowUsage: outstanding reservations plus committed spend. *)
WindowUsage(R, C, p, w, s) == Reserved(R, p, w, s) + C[<<p, w, s>>]

Usage(p, w) == WindowUsage(reservations, committed, p, w, period[w])

LimitFor(p, w) == budget[p].limit[w]

Finite(p) == {w \in AllWindows : LimitFor(p, w) # 0}

-----------------------------------------------------------------------------

Init ==
    /\ registered = {}
    /\ automated = {}
    /\ enabled = {}
    /\ accountingFailed = {}
    /\ budget = [p \in Plugins |-> NoBudget]
    /\ period = [w \in AllWindows |-> 0]
    /\ reservations = {}
    /\ committed = [k \in Keys |-> 0]
    /\ budgetEvents = {}
    /\ published = [enable |-> [p \in Plugins |-> 0],
                    disable |-> [p \in Plugins |-> 0],
                    exceeded |-> [k \in Keys |-> 0]]
    /\ phase = "boot"
    /\ ledger = [id \in {} |-> 0]
    /\ overrun = [k \in Keys |-> 0]

DisableLost(p) == enabled  \* mutant: the UPDATE is forgotten

(* What disableTx leaves in the enabled column. *)
EnabledAfterDisable(p) == enabled \ {p}

(* The event disableTx publishes: none when the plugin is already disabled. *)
PublishDisable(pub, p) ==
    IF p \in enabled THEN [pub EXCEPT !.disable[p] = @ + 1] ELSE pub

PublishExceededAlways(pub, K) ==  \* mutant: budgetEvents is not consulted
    [pub EXCEPT !.exceeded = [k \in Keys |->
        IF k \in K THEN pub.exceeded[k] + 1 ELSE pub.exceeded[k]]]

(* recordBudgetExceeded for the keys K: one event per key not yet reported. *)
PublishExceeded(pub, K) ==
    [pub EXCEPT !.exceeded = [k \in Keys |->
        IF k \in K \ budgetEvents THEN pub.exceeded[k] + 1 ELSE pub.exceeded[k]]]

-----------------------------------------------------------------------------
(* Administration. *)

(* A plugin the store has never seen is created disabled. *)
RegisterNew(p, auto) ==
    /\ p \notin registered
    /\ registered' = registered \cup {p}
    /\ automated' = IF auto THEN automated \cup {p} ELSE automated
    /\ UNCHANGED <<enabled, accountingFailed, budget, published>>

RegisterKeepsEnabled(p, auto) ==  \* mutant: an uncapped plugin stays enabled
    /\ p \in registered
    /\ auto # (p \in automated)
    /\ automated' = IF auto THEN automated \cup {p} ELSE automated \ {p}
    /\ UNCHANGED <<registered, enabled, accountingFailed, budget, published>>

(* Becoming automated without a daily limit closes an enabled plugin. *)
RegisterAgain(p, auto) ==
    /\ p \in registered
    /\ auto # (p \in automated)
    /\ automated' = IF auto THEN automated \cup {p} ELSE automated \ {p}
    /\ IF auto /\ p \in enabled /\ LimitFor(p, "day") = 0
         THEN /\ enabled' = EnabledAfterDisable(p)
              /\ published' = PublishDisable(published, p)
         ELSE UNCHANGED <<enabled, published>>
    /\ UNCHANGED <<registered, accountingFailed, budget>>

Register(p, auto) ==
    /\ phase = "serving"
    /\ RegisterNew(p, auto) \/ RegisterAgain(p, auto)
    /\ UNCHANGED <<period, reservations, committed, budgetEvents, phase, historyVars>>

Enable(p) ==
    /\ phase = "serving"
    /\ p \in registered \ enabled
    /\ ~ (p \in automated /\ LimitFor(p, "day") = 0)
    /\ published.enable[p] < MaxEnables
    /\ enabled' = enabled \cup {p}
    /\ accountingFailed' = accountingFailed \ {p}
    /\ published' = [published EXCEPT !.enable[p] = @ + 1]
    /\ UNCHANGED <<registered, automated, budget, period, reservations, committed,
                   budgetEvents, phase, historyVars>>

Disable(p) ==
    /\ phase = "serving"
    /\ p \in enabled
    /\ enabled' = EnabledAfterDisable(p)
    /\ published' = PublishDisable(published, p)
    /\ UNCHANGED <<registered, automated, accountingFailed, budget, period,
                   reservations, committed, budgetEvents, phase, historyVars>>

(* A limit below what the current period already holds is refused. *)
SetBudget(p, b) ==
    /\ phase = "serving"
    /\ p \in registered
    /\ ~ (p \in enabled \cap automated /\ b.limit["day"] = 0)
    /\ \A w \in AllWindows : b.limit[w] # 0 => Usage(p, w) <= b.limit[w]
    /\ budget' = [budget EXCEPT ![p] = b]
    /\ UNCHANGED <<registered, automated, enabled, accountingFailed, period,
                   reservations, committed, budgetEvents, published, phase, historyVars>>

-----------------------------------------------------------------------------
(* Admission. *)

CrossedAlready(p, m) ==  \* mutant: the call itself is not counted
    {w \in Finite(p) : Usage(p, w) > LimitFor(p, w)}

(* The finite windows a call of maximum m would cross. *)
Crossed(p, m) == {w \in Finite(p) : Usage(p, w) + m > LimitFor(p, w)}

(* takeReservation tries the windows shortest first. *)
FirstCrossed(p, m) ==
    IF "hour" \in Crossed(p, m) THEN "hour"
    ELSE IF "day" \in Crossed(p, m) THEN "day" ELSE "month"

ReserveAdmitted(p, m) ==
    /\ phase = "serving"
    /\ p \in enabled
    /\ Crossed(p, m) = {}
    /\ \E id \in ReservationIds \ DOMAIN ledger :
          /\ reservations' = reservations \cup
                {[id |-> id, plugin |-> p, maximum |-> m, start |-> period]}
          /\ ledger' = [i \in DOMAIN ledger \cup {id} |->
                IF i = id THEN [plugin |-> p, start |-> period, bill |-> 0]
                ELSE ledger[i]]
    /\ UNCHANGED <<stateVars, period, committed, budgetEvents, published, phase, overrun>>

(* A domain rejection commits its event, and the disable onExceed asks for. *)
ReserveRejected(p, m) ==
    /\ phase = "serving"
    /\ p \in enabled
    /\ Crossed(p, m) # {}
    /\ LET w   == FirstCrossed(p, m)
           key == <<p, w, period[w]>>
           pub == PublishExceeded(published, {key})
       IN  /\ budgetEvents' = budgetEvents \cup {key}
           /\ IF budget[p].onExceed = "disable"
                THEN /\ enabled' = EnabledAfterDisable(p)
                     /\ published' = PublishDisable(pub, p)
                ELSE /\ enabled' = enabled
                     /\ published' = pub
    /\ UNCHANGED <<registered, automated, accountingFailed, budget, period,
                   reservations, committed, phase, historyVars>>

ReserveSpendTx(p, m) == ReserveAdmitted(p, m) \/ ReserveRejected(p, m)

-----------------------------------------------------------------------------
(* Settlement. *)

KeysNow(r) == {<<r.plugin, w, period[w]>> : w \in AllWindows}  \* mutant

(* The rows of core_plugin_spend a reservation is charged to. *)
KeysOf(r) == {<<r.plugin, w, r.start[w]>> : w \in AllWindows}

(* The periods of r whose finite limit the truthful charge crossed. *)
CrossedBySettle(r) ==
    {<<r.plugin, w, r.start[w]>> : w \in
        {v \in Finite(r.plugin) :
            WindowUsage(reservations', committed', r.plugin, v, r.start[v])
               > LimitFor(r.plugin, v)}}

ChargeDifference(r, actual) ==  \* mutant: the reservation is deducted again
    /\ reservations' = reservations \ {r}
    /\ committed' = [k \in Keys |-> IF k \in KeysOf(r)
          THEN committed[k] + actual - r.maximum ELSE committed[k]]
    /\ ledger' = [ledger EXCEPT ![r.id].bill = actual]

(* The charge goes to the periods the reservation pinned, whatever "now" is. *)
Charge(r, actual) ==
    /\ reservations' = reservations \ {r}
    /\ committed' = [k \in Keys |->
          IF k \in KeysOf(r) THEN committed[k] + actual ELSE committed[k]]
    /\ ledger' = [ledger EXCEPT ![r.id].bill = actual]

SettleWithin(r, actual) ==
    /\ actual <= r.maximum
    /\ Charge(r, actual)
    /\ UNCHANGED <<stateVars, budgetEvents, published, overrun>>

(* A charge above the reserved maximum is recorded, and closes the plugin. *)
SettleOverrun(r, actual) ==
    /\ actual > r.maximum
    /\ Charge(r, actual)
    /\ accountingFailed' = accountingFailed \cup {r.plugin}
    /\ enabled' = EnabledAfterDisable(r.plugin)
    /\ budgetEvents' = budgetEvents \cup CrossedBySettle(r)
    /\ published' = PublishExceeded(PublishDisable(published, r.plugin),
                                    CrossedBySettle(r))
    /\ overrun' = [k \in Keys |->
          IF k \in KeysOf(r) THEN overrun[k] + (actual - r.maximum) ELSE overrun[k]]
    /\ UNCHANGED <<registered, automated, budget>>

SettleSpendTx(r, actual) ==
    /\ r \in reservations
    /\ SettleWithin(r, actual) \/ SettleOverrun(r, actual)
    /\ UNCHANGED <<period, phase>>

Settle(r, actual) == phase = "serving" /\ SettleSpendTx(r, actual)

ReleaseSpendTx(r) ==
    /\ phase = "serving"
    /\ r \in reservations
    /\ reservations' = reservations \ {r}
    /\ UNCHANGED <<stateVars, period, committed, budgetEvents, published, phase, historyVars>>

-----------------------------------------------------------------------------
(* A crash forgets the calls in flight, not their reservations; the next    *)
(* boot settles each one at its maximum before anything else may run.       *)

Crash ==
    /\ phase = "serving"
    /\ phase' = "boot"
    /\ UNCHANGED <<stateVars, period, reservations, committed, budgetEvents,
                   published, historyVars>>

ForgetOrphan(r) == phase = "boot" /\ SettleSpendTx(r, 0)  \* mutant

SettleOrphan(r) == phase = "boot" /\ SettleSpendTx(r, r.maximum)

Serve ==
    /\ phase = "boot"
    /\ reservations = {}
    /\ phase' = "serving"
    /\ UNCHANGED <<stateVars, period, reservations, committed, budgetEvents,
                   published, historyVars>>

(* The clock enters a new hour, which may begin a new day and a new month. *)
Tick ==
    /\ period["hour"] < MaxPeriod
    /\ \E W \in {{"hour"}, {"hour", "day"}, {"hour", "day", "month"}} :
          /\ \A w \in W : period[w] < MaxPeriod
          /\ period' = [w \in AllWindows |-> IF w \in W THEN period[w] + 1 ELSE period[w]]
    /\ UNCHANGED <<stateVars, reservations, committed, budgetEvents, published,
                   phase, historyVars>>

Next ==
    \/ \E p \in Plugins :
          \/ \E auto \in BOOLEAN : Register(p, auto)
          \/ Enable(p)
          \/ Disable(p)
          \/ \E b \in Budgets : SetBudget(p, b)
          \/ \E m \in Amounts : ReserveSpendTx(p, m)
    \/ \E r \in reservations :
          \/ \E actual \in Amounts : Settle(r, actual)
          \/ ReleaseSpendTx(r)
          \/ SettleOrphan(r)
    \/ Crash
    \/ Serve
    \/ Tick

Spec == Init /\ [][Next]_vars

-----------------------------------------------------------------------------
(* Properties. *)

(* No plugin ever holds or has spent more in the current period of a finite *)
(* window than its limit, except by the amounts the provider billed above a *)
(* reserved maximum: concurrent admissions, budget changes, period          *)
(* roll-over, late settlement and crashes included.                         *)
WithinBudget ==
    \A p \in Plugins, w \in AllWindows :
        LimitFor(p, w) # 0 =>
            Usage(p, w) <= LimitFor(p, w) + overrun[<<p, w, period[w]>>]

(* An enabled automated plugin always has a finite daily limit, whichever   *)
(* of Register, Enable and SetBudget came last.                             *)
AutomatedCapped ==
    \A p \in enabled \cap automated : LimitFor(p, "day") # 0

(* A plugin whose accounting failed stays disabled until an administrator   *)
(* enables it again.                                                        *)
AccountingFailureCloses == accountingFailed \cap enabled = {}

(* The bus tells what happened: transitions alternate, since a repeated     *)
(* enable or disable emits nothing and every path that disables a plugin    *)
(* emits one event; and budget_exceeded comes once per plugin, window and   *)
(* period, for rejections and overruns together.                            *)
EventsMatchState ==
    /\ \A p \in Plugins :
          published.enable[p] =
              published.disable[p] + (IF p \in enabled THEN 1 ELSE 0)
    /\ \A k \in Keys : published.exceeded[k] = (IF k \in budgetEvents THEN 1 ELSE 0)

(* What core_plugin_spend holds for a period is exactly the bills of the    *)
(* reservations admitted in that period: each bill is charged once in each  *)
(* window, in the period of admission even when it settles in a later one.  *)
LedgerExact ==
    \A k \in Keys :
        committed[k] =
            Total([id \in {i \in DOMAIN ledger :
                              ledger[i].plugin = k[1] /\ ledger[i].start[k[2]] = k[3]}
                     |-> ledger[id].bill])

(* At boot no reservation leaves the table without being charged at its     *)
(* maximum: a call whose outcome a crash made unknowable is not undercounted.*)
OrphansChargedAtMaximum ==
    [][\A r \in reservations : phase = "boot" /\ r \notin reservations' =>
          ledger'[r.id].bill = r.maximum]_vars

(* What policy keeps besides the limits: the tables have their types, an     *)
(* automated plugin that is enabled is capped, one whose accounting failed   *)
(* is closed, the bus tells exactly what happened, the ledger is exact, and  *)
(* a boot charges every orphan at its maximum.                               *)
PolicyHolds ==
    /\ [](TypeOK /\ AutomatedCapped /\ AccountingFailureCloses /\ EventsMatchState /\ LedgerExact)
    /\ OrphansChargedAtMaximum
=============================================================================
