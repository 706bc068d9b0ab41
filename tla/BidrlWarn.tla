------------------------------ MODULE BidrlWarn ------------------------------
(***************************************************************************)
(* The warnings before a saved lot closes (plugins/bidrl: warn.go).        *)
(*                                                                         *)
(* Every minute the warning job reads the saved lots with the stages       *)
(* recorded for them, picks for each the tightest lead time entered and    *)
(* not recorded, and fires it in a transaction of its own that records it  *)
(* and the wider ones.  A job whose lease ran out may still be running     *)
(* beside its successor; a late bid moves a close out; the operator may    *)
(* edit the lead times.                                                    *)
(***************************************************************************)
EXTENDS Naturals, Sequences, FiniteSetsExt

CONSTANTS
    WLot,           \* lots
    Warner,         \* warning jobs that may overlap
    LeadTimes,      \* the lead times that may be configured, in clock units
    MaxWarnClock    \* bound on the clock and the closes

ASSUME WarnAssumption == LeadTimes \subseteq Nat \ {0} /\ MaxWarnClock \in Nat

VARIABLES
    lotEnds,        \* bidrl_lots.ends_at, 0 when empty
    savedLots,      \* bidrl_favorites
    leads,          \* savedAlertLeadTimes
    marks,          \* bidrl_lot_alerts: marks[l], the stages recorded
    warner,         \* [pc, due, stages]
    warnClock,
    fired,          \* history: fired[l], the stages alerted, in order
    reconfigured    \* history: the lead times were changed

warnVars == <<lotEnds, savedLots, leads, marks, warner, warnClock, fired, reconfigured>>

IdleWarner == [pc |-> "idle", due |-> [l \in WLot |-> 0], stages |-> {}]

WarnTypeOK ==
    /\ lotEnds \in [WLot -> 0 .. MaxWarnClock] /\ savedLots \subseteq WLot
    /\ leads \subseteq LeadTimes /\ marks \in [WLot -> SUBSET LeadTimes]
    /\ warner \in [Warner -> [pc : {"idle", "fire"}, due : [WLot -> LeadTimes \cup {0}],
                              stages : SUBSET LeadTimes]]
    /\ warnClock \in 0 .. MaxWarnClock
    /\ \A l \in WLot : fired[l] \in Seq(LeadTimes)
    /\ reconfigured \in BOOLEAN

WarnInit ==
    /\ lotEnds \in [WLot -> 0 .. MaxWarnClock] /\ savedLots = {} /\ leads = LeadTimes
    /\ marks = [l \in WLot |-> {}] /\ warner = [w \in Warner |-> IdleWarner]
    /\ warnClock = 0 /\ fired = [l \in WLot |-> <<>>] /\ reconfigured = FALSE

EndingWithin(l, lead) ==
    lotEnds[l] # 0 /\ warnClock <= lotEnds[l] /\ lotEnds[l] <= warnClock + lead

\* dueStage: the tightest stage entered and not recorded, 0 for none.
DueStage(l) ==
    LET due == {s \in leads \ marks[l] : EndingWithin(l, s)} IN IF due = {} THEN 0 ELSE Min(due)

\* warnJob's query over the saved lots, and what it makes of them.
WarnReads(w) ==
    /\ warner[w].pc = "idle" /\ leads # {}
    /\ warner' = [warner EXCEPT ![w] =
            [pc |-> "fire", stages |-> leads,
             due |-> [l \in WLot |-> IF l \in savedLots THEN DueStage(l) ELSE 0]]]
    /\ UNCHANGED <<lotEnds, savedLots, leads, marks, warnClock, fired, reconfigured>>

\* mutant: the insert is not the guard
FirstAlways(l, stage) == TRUE

\* The insert of the selected stage took effect: nobody recorded it meanwhile.
First(l, stage) == stage \notin marks[l]

\* mutant: the wider stages are left to fire later
OvertakenNot(w, stage) == {stage}

\* The stage, and the wider ones it has overtaken.
Overtaken(w, stage) == {s \in warner[w].stages : s >= stage}

\* One lot's transaction: the marks and the alert, or nothing.
WarnFires(w, l) ==
    /\ warner[w].pc = "fire" /\ warner[w].due[l] # 0
    /\ LET stage == warner[w].due[l] IN
       IF First(l, stage)
       THEN /\ marks' = [marks EXCEPT ![l] = @ \cup Overtaken(w, stage)]
            /\ fired' = [fired EXCEPT ![l] = Append(@, stage)]
       ELSE UNCHANGED <<marks, fired>>
    /\ warner' = [warner EXCEPT ![w].due[l] = 0]
    /\ UNCHANGED <<lotEnds, savedLots, leads, warnClock, reconfigured>>

\* All done, or cut short: what was not fired waits for the next tick.
WarnEnds(w) ==
    /\ warner[w].pc = "fire" /\ warner' = [warner EXCEPT ![w] = IdleWarner]
    /\ UNCHANGED <<lotEnds, savedLots, leads, marks, warnClock, fired, reconfigured>>

\* handleFavorite and handleUnfavorite: the marks stay.
SaveLot(l) ==
    /\ savedLots' = IF l \in savedLots THEN savedLots \ {l} ELSE savedLots \cup {l}
    /\ UNCHANGED <<lotEnds, leads, marks, warner, warnClock, fired, reconfigured>>

\* The close is moved out by a bid, or learnt for the first time.
CloseMoves(l) ==
    /\ lotEnds[l] < MaxWarnClock /\ lotEnds' = [lotEnds EXCEPT ![l] = @ + 1]
    /\ UNCHANGED <<savedLots, leads, marks, warner, warnClock, fired, reconfigured>>

\* The operator edits savedAlertLeadTimes.
ConfigureLeads(ls) ==
    /\ ~reconfigured /\ ls # leads /\ leads' = ls /\ reconfigured' = TRUE
    /\ UNCHANGED <<lotEnds, savedLots, marks, warner, warnClock, fired>>

WarnTick ==
    /\ warnClock < MaxWarnClock /\ warnClock' = warnClock + 1
    /\ UNCHANGED <<lotEnds, savedLots, leads, marks, warner, fired, reconfigured>>

WarnNext ==
    \/ \E w \in Warner : WarnReads(w) \/ WarnEnds(w)
    \/ \E w \in Warner, l \in WLot : WarnFires(w, l)
    \/ \E l \in WLot : SaveLot(l) \/ CloseMoves(l)
    \/ \E ls \in SUBSET LeadTimes : ConfigureLeads(ls)
    \/ WarnTick

WarnSpec == WarnInit /\ [][WarnNext]_warnVars

-----------------------------------------------------------------------------
(* Properties.                                                             *)

\* A stage is alerted at most once for a lot; and while the lead times stay as they
\* are a wider one never follows a narrower one: closes that move, lots unsaved and
\* saved again, jobs cut short and jobs that overlap included (warnJob).
WarnedOnce ==
    WarnTypeOK /\ \A l \in WLot : \A i, j \in DOMAIN fired[l] :
        i < j => IF reconfigured THEN fired[l][i] # fired[l][j] ELSE fired[l][i] > fired[l][j]

\* A wider stage never follows a narrower one.  After an edit it may: a lead time that
\* was added is not among the marks a narrower one left.
NeverWider ==
    \A l \in WLot : \A i, j \in DOMAIN fired[l] : i < j => fired[l][i] > fired[l][j]
=============================================================================
