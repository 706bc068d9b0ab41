-------------------------------- MODULE Cron --------------------------------
(***************************************************************************)
(* The schedule of one job definition: internal/core/jobs/cron.go, and the *)
(* mounting of its plugin in internal/core/pluginhost/lifecycle.go.        *)
(*                                                                         *)
(* The unit of time is a minute.  The clocks go back at Fallback, so that  *)
(* the last Repeat minutes of wall time come again.  A pass of the cron    *)
(* loop copies the definitions and reads the clock, and considers the slot *)
(* in a transaction some time later.                                       *)
(***************************************************************************)
EXTENDS Integers, Sequences

CONSTANTS
    Schedule,    \* the wall minutes the expression matches
    Fallback,    \* the minute at which the clocks go back
    Repeat,      \* by how many minutes
    MaxTime,     \* bound: how long the clock runs
    MaxCronCrashes, \* bound: how often the process crashes
    MaxDisables  \* bound: how often the plugin is disabled

ASSUME CronAssumption ==
    /\ {Fallback, Repeat, MaxTime, MaxCronCrashes, MaxDisables} \subseteq Nat
    /\ Repeat <= Fallback
    /\ Schedule \subseteq Nat

NoCronRow == -1  \* core_job_schedules has no row

VARIABLES
    now,       \* the clock
    enabled,   \* policy
    mount,     \* the plugin's jobs: off, caught up, or registered in q.defs
    since,     \* the last minute not to be scheduled any more when the jobs were mounted
    row,       \* last_slot
    pass,      \* the cron loop: at rest, or about to consider the slot of a minute
    cronOpen,  \* slots whose job is unfinished, and so holds the idempotency key
    fired,     \* history: the jobs enqueued
    straddled, \* history: jobs were mounted while a pass was under way
    cronCount

cronVars == <<now, enabled, mount, since, row, pass, cronOpen, fired, straddled, cronCount>>

CronAtRest == [pc |-> "rest", at |-> 0]

CronInit ==
    /\ now = 0
    /\ enabled = TRUE
    /\ mount = "off"
    /\ since = -1
    /\ row = NoCronRow
    /\ pass = CronAtRest
    /\ cronOpen = {}
    /\ fired = <<>>
    /\ straddled = FALSE
    /\ cronCount = [crashes |-> 0, disables |-> 0]

(* The local wall fields of an instant. *)
ScheduleSlot(t) == IF t < Fallback THEN t ELSE t - Repeat

ClockRuns ==
    /\ now < MaxTime
    /\ now' = now + 1
    /\ UNCHANGED <<enabled, mount, since, row, pass, cronOpen, fired, straddled, cronCount>>

-----------------------------------------------------------------------------
(* The plugin. *)

CaughtUpNothing(r) == r  \* mutant: no row is touched

(* A stored schedule is marked considered up to the present minute. *)
CaughtUp(r) == IF r = NoCronRow THEN NoCronRow ELSE ScheduleSlot(now)

CatchUpSchedules ==
    /\ enabled
    /\ mount = "off"
    /\ mount' = "caught"
    /\ row' = CaughtUp(row)
    /\ since' = IF row = NoCronRow THEN now - 1 ELSE now
    /\ straddled' = (straddled \/ pass.pc = "consider")
    /\ UNCHANGED <<now, enabled, pass, cronOpen, fired, cronCount>>

Register ==
    /\ mount = "caught"
    /\ mount' = "on"
    /\ UNCHANGED <<now, enabled, since, row, pass, cronOpen, fired, straddled, cronCount>>

UnregisterAll ==
    /\ ~ enabled
    /\ mount # "off"
    /\ mount' = "off"
    /\ UNCHANGED <<now, enabled, since, row, pass, cronOpen, fired, straddled, cronCount>>

Enable ==
    /\ ~ enabled
    /\ enabled' = TRUE
    /\ UNCHANGED <<now, mount, since, row, pass, cronOpen, fired, straddled, cronCount>>

Disable ==
    /\ enabled
    /\ cronCount.disables < MaxDisables
    /\ enabled' = FALSE
    /\ cronCount' = [cronCount EXCEPT !.disables = @ + 1]
    /\ UNCHANGED <<now, mount, since, row, pass, cronOpen, fired, straddled>>

-----------------------------------------------------------------------------
(* The loop. *)

TickCron ==
    /\ pass.pc = "rest"
    /\ mount = "on"
    /\ pass' = [pc |-> "consider", at |-> now]
    /\ UNCHANGED <<now, enabled, mount, since, row, cronOpen, fired, straddled, cronCount>>

DueAlways(slot) == slot \in Schedule  \* mutant: the last slot is not looked at

Due(slot) == slot \in Schedule /\ row # slot

(* The slot is recorded whether or not policy admits the job; a job whose   *)
(* key is held is not enqueued again.                                       *)
ConsiderSlot ==
    LET slot == ScheduleSlot(pass.at)
        runs == Due(slot) /\ enabled /\ slot \notin cronOpen
    IN  /\ pass.pc = "consider"
        /\ pass' = CronAtRest
        /\ row' = IF Due(slot) THEN slot ELSE row
        /\ cronOpen' = IF runs THEN cronOpen \cup {slot} ELSE cronOpen
        /\ fired' = IF runs
                      THEN Append(fired, [slot |-> slot, at |-> pass.at, since |-> since]) ELSE fired
        /\ UNCHANGED <<now, enabled, mount, since, straddled, cronCount>>

(* The transaction fails; the next pass tries again, if the minute is not over. *)
ConsiderFails ==
    /\ pass.pc = "consider"
    /\ pass' = CronAtRest
    /\ UNCHANGED <<now, enabled, mount, since, row, cronOpen, fired, straddled, cronCount>>

JobEnds(slot) ==
    /\ slot \in cronOpen
    /\ cronOpen' = cronOpen \ {slot}
    /\ UNCHANGED <<now, enabled, mount, since, row, pass, fired, straddled, cronCount>>

CronCrash ==
    /\ cronCount.crashes < MaxCronCrashes
    /\ mount # "off"
    /\ mount' = "off"
    /\ pass' = CronAtRest
    /\ cronCount' = [cronCount EXCEPT !.crashes = @ + 1]
    /\ UNCHANGED <<now, enabled, since, row, cronOpen, fired, straddled>>

-----------------------------------------------------------------------------

CronNext ==
    \/ ClockRuns
    \/ CatchUpSchedules
    \/ Register
    \/ UnregisterAll
    \/ Enable
    \/ Disable
    \/ TickCron
    \/ ConsiderSlot
    \/ ConsiderFails
    \/ \E slot \in cronOpen : JobEnds(slot)
    \/ CronCrash

CronSpec == CronInit /\ [][CronNext]_cronVars

-----------------------------------------------------------------------------
(* Properties. *)

(* However often the loop polls within a minute, however fast the job ends  *)
(* and whatever crashes or is disabled in between, a minute fires once; the *)
(* one exception is a pass that jobs are mounted during.                    *)
OncePerMinute ==
    ~ straddled => \A i, j \in DOMAIN fired : fired[i].at = fired[j].at => i = j

(* No job for a minute up to the one in which the jobs were mounted: what   *)
(* passed while the process was down or the plugin disabled is not made up, *)
(* with the same exception.                                                 *)
NothingCaughtUp ==
    ~ straddled => \A i \in DOMAIN fired : fired[i].at > fired[i].since

(* A minute fires once or, when it passed before the jobs were mounted, never. *)
CronSafe == OncePerMinute /\ NothingCaughtUp

-----------------------------------------------------------------------------
(* What the documentation says, and the code does not do.                   *)

(* docs/modules/jobs.md: "a repeated local time during the autumn fallback  *)
(* runs once, identified by its local schedule fields and zone."            *)
RepeatedRunsOnce ==
    \A i, j \in DOMAIN fired : fired[i].slot = fired[j].slot => i = j

(* docs/modules/jobs.md: the scheduler "never catches up missed slots after *)
(* downtime or disable."                                                    *)
MissedStaysMissed == \A i \in DOMAIN fired : fired[i].at > fired[i].since
=============================================================================
