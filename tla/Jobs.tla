-------------------------------- MODULE Jobs --------------------------------
(***************************************************************************)
(* The durable job queue: internal/core/jobs.  Rows of core_jobs, the      *)
(* claim loop, the goroutine of every running attempt with its heartbeat,  *)
(* cancellation by the user and by a plugin disable, crash and restart.    *)
(*                                                                         *)
(* A storage transaction is one action.  An operation that reads the row   *)
(* and writes it in a later transaction is two actions, with anything in   *)
(* between.  Times are abstracted: a job is due or not, and a lease is     *)
(* live or expired; it may expire at any moment, since a stalled process   *)
(* misses its heartbeats.  The cancel reason is left out: it is only shown *)
(* to people (a running row never has one, since a claim clears it).       *)
(***************************************************************************)
EXTENDS Integers, FiniteSets

CONSTANTS
    Plugins,       \* plugin ids
    Defs,          \* job definitions, a (plugin, name) pair each
    PluginOf,      \* the plugin that declares a definition
    MaxAttempts,   \* max_attempts of a definition
    Concurrency,   \* concurrency of a definition
    MaxJobs,       \* bound: how many jobs are ever enqueued
    Keys,          \* idempotency keys
    NoKey,         \* the absent key
    Priorities,    \* priorities a caller may ask for
    HandlerResults,\* what the handlers of this instance may return
    MaxEpochs,     \* bound: how many times the process starts
    MaxDisables,   \* bound: how often plugins are disabled
    StorageFaults  \* whether a transaction of an attempt may fail

JobIds == 1..MaxJobs

(* The generations a job goes through: one per attempt. *)
Fences == UNION {1..MaxAttempts[d] : d \in Defs}

ASSUME DefAssumption ==
    /\ Defs # {}
    /\ PluginOf \in [Defs -> Plugins]
    /\ MaxAttempts \in [Defs -> Nat \ {0}]
    /\ Concurrency \in [Defs -> Nat \ {0}]
ASSUME KeyAssumption == NoKey \notin Keys
ASSUME JobBoundAssumption ==
    /\ MaxJobs \in Nat
    /\ MaxEpochs \in Nat \ {0}
    /\ MaxDisables \in Nat
    /\ Priorities \subseteq Nat /\ Priorities # {}
    /\ StorageFaults \in BOOLEAN

VARIABLES
    row,         \* core_jobs, by id; state "none" before the insert
    enabled,     \* policy: the enabled plugins
    defs,        \* q.defs: definitions with a registered handler
    att,         \* the goroutines of claimed attempts
    attempts,    \* q.attempts: job id -> fence of the registered attempt, 0 if none
    ctxCancels,  \* jobs whose cancel committed and whose context is cancelled next
    notices,     \* plugins whose disable committed and whose watcher runs next
    cancelling,  \* jobs cancelPlugin has still to cancel
    epoch,       \* the process incarnation; it is the lease owner
    mode,        \* "up", "stopping", "down"
    disables,    \* how many disables happened
    published,   \* events per job, counted by kind
    stale        \* history: a handler's write was accepted after its attempt was over

procVars == <<defs, att, attempts, ctxCancels, notices, cancelling>>
vars == <<row, enabled, procVars, epoch, mode, disables, published, stale>>

Active == {"running", "cancel_requested"}
Waiting == {"pending", "retry_wait"}
Terminal == {"succeeded", "failed", "dead", "cancelled"}
States == {"none", "swept"} \cup Waiting \cup Active \cup Terminal

(* What a handler may return: nil, an error, Permanent, RetryAfter around   *)
(* Permanent, context.Canceled, ErrLostLease.                               *)
Results == {"ok", "error", "permanent", "deferred", "canceled", "lost"}

Row == [state : States, def : Defs, key : Keys \cup {NoKey}, prio : Priorities,
        due : BOOLEAN, attempt : Nat, fence : Nat, owner : 0..MaxEpochs,
        lease : {"none", "live", "expired"},
        error : {"", "handler", "nohandler", "lease"}]

(* claimed: lookupDef is next; spawned: not yet in q.attempts; registered:  *)
(* the cancel check is next; early: cancelled before the handler ran;       *)
(* returned, recheck, write: the steps of finish; exit: the deferred        *)
(* clean-up; nohandler: the claim loop fails the attempt itself.            *)
(* cancelled: its context is; beats: its heartbeat has not given up.        *)
Pcs == {"claimed", "nohandler", "spawned", "registered", "early", "handler",
        "returned", "recheck", "write", "exit"}

Attempt == [job : JobIds, fence : Nat, attempt : Nat, pc : Pcs,
            cancelled : BOOLEAN, beats : BOOLEAN, plan : Results \cup {"none", "cancel"}]

TypeOK ==
    /\ row \in [JobIds -> Row]
    /\ enabled \subseteq Plugins
    /\ defs \subseteq Defs
    /\ att \subseteq Attempt
    /\ attempts \in [JobIds -> Nat]
    /\ ctxCancels \subseteq JobIds
    /\ notices \subseteq Plugins
    /\ cancelling \subseteq JobIds
    /\ epoch \in 1..MaxEpochs
    /\ mode \in {"up", "stopping", "down"}
    /\ disables \in 0..MaxDisables
    /\ published \in [JobIds -> [started : Nat, failed : Nat, ended : Nat]]
    /\ stale \in BOOLEAN

-----------------------------------------------------------------------------

ASSUME ResultAssumption == HandlerResults \subseteq Results

PluginOfJob(j) == PluginOf[row[j].def]

MaxAttemptsOf(j) == MaxAttempts[row[j].def]

OwnsByOwner(a) ==  \* mutant: the fence is not compared
    row[a.job].owner = epoch /\ row[a.job].state \in Active

(* The predicate of every write an attempt makes to its row. *)
Owns(a) ==
    /\ row[a.job].owner = epoch
    /\ row[a.job].fence = a.fence
    /\ row[a.job].state \in Active

(* The goroutine moves on; nothing else in it changes. *)
Move(a, b) == att' = (att \ {a}) \cup {b}

At(a, pc) == [a EXCEPT !.pc = pc]

(* A goroutine that only has its deferred clean-up left. *)
Done(a) == [a EXCEPT !.pc = "exit", !.plan = "none", !.cancelled = FALSE, !.beats = FALSE]

(* Events of job j, with one more of each kind in K; succeeded, cancelled   *)
(* and dead count as ended.                                                 *)
Publish(j, K) ==
    [published EXCEPT ![j] = [started |-> @.started + (IF "started" \in K THEN 1 ELSE 0),
                              failed  |-> @.failed  + (IF "failed" \in K THEN 1 ELSE 0),
                              ended   |-> @.ended   + (IF "ended" \in K THEN 1 ELSE 0)]]

FinishedRefunds(j, s) ==  \* mutant: the attempt is given back
    [row[j] EXCEPT !.state = s, !.owner = 0, !.lease = "none", !.attempt = @ - 1]

FinishedKeepsLease(j, s) == [row[j] EXCEPT !.state = s]  \* mutant

(* A row that reaches state s gives its lease back. *)
Finished(j, s) == [row[j] EXCEPT !.state = s, !.owner = 0, !.lease = "none"]

-----------------------------------------------------------------------------

NoRow == [state |-> "none", def |-> CHOOSE d \in Defs : TRUE, key |-> NoKey,
          prio |-> CHOOSE p \in Priorities : TRUE, due |-> FALSE, attempt |-> 0,
          fence |-> 0, owner |-> 0, lease |-> "none", error |-> ""]

Init ==
    /\ row = [j \in JobIds |-> NoRow]
    /\ enabled = Plugins
    /\ defs = {}
    /\ att = {}
    /\ attempts = [j \in JobIds |-> 0]
    /\ ctxCancels = {}
    /\ notices = {}
    /\ cancelling = {}
    /\ epoch = 1
    /\ mode = "up"
    /\ disables = 0
    /\ published = [j \in JobIds |-> [started |-> 0, failed |-> 0, ended |-> 0]]
    /\ stale = FALSE

-----------------------------------------------------------------------------
(* Enqueue and cancel. *)

HoldersPending(d, k) ==  \* mutant: only pending jobs are looked at
    {i \in JobIds : row[i].state = "pending" /\ row[i].def = d /\ row[i].key = k}

(* The nonterminal jobs of definition d that hold key k. *)
Holders(d, k) == {i \in JobIds : row[i].state \in Waiting \cup Active
                                 /\ row[i].def = d /\ row[i].key = k}

(* enqueueTx behind CheckWorkTx; a key some job still holds inserts nothing. *)
Enqueue(j, d, k, prio, due) ==
    /\ mode = "up"
    /\ d \in defs
    /\ PluginOf[d] \in enabled
    /\ row[j].state = "none"
    /\ \A i \in JobIds : i < j => row[i].state # "none"
    /\ k # NoKey => Holders(d, k) = {}
    /\ row' = [row EXCEPT ![j] = [NoRow EXCEPT !.state = "pending", !.def = d, !.key = k,
                                               !.prio = prio, !.due = due]]
    /\ UNCHANGED <<enabled, procVars, epoch, mode, disables, published, stale>>

(* The transaction of cancel; it refuses a finished job. *)
CancelTx(j) ==
    /\ row' = [row EXCEPT ![j].state = IF @ \in Waiting THEN "cancelled" ELSE "cancel_requested"]
    /\ published' = IF row[j].state \in Waiting THEN Publish(j, {"ended"}) ELSE published

Cancellable(j) == row[j].state \in Waiting \cup Active

Cancel(j) ==
    /\ mode = "up"
    /\ Cancellable(j)
    /\ CancelTx(j)
    /\ ctxCancels' = ctxCancels \cup {j}
    /\ UNCHANGED <<enabled, defs, att, attempts, notices, cancelling, epoch, mode,
                   disables, stale>>

(* The attempts whose contexts are cancelled are those in q.attempts now;   *)
(* a context is of no further use once its handler has returned.            *)
Registered(a) == attempts[a.job] = a.fence

CancelContexts(J) ==
    {IF a.job \in J /\ Registered(a) /\ a.pc \in {"registered", "handler"}
       THEN [a EXCEPT !.cancelled = TRUE] ELSE a : a \in att}

CancelAttempt(j) ==
    /\ j \in ctxCancels
    /\ ctxCancels' = ctxCancels \ {j}
    /\ att' = CancelContexts({j})
    /\ UNCHANGED <<row, enabled, defs, attempts, notices, cancelling, epoch, mode,
                   disables, published, stale>>

-----------------------------------------------------------------------------
(* Policy transitions, and the watcher that runs after a disable commits.   *)

Disable(p) ==
    /\ mode = "up"
    /\ p \in enabled
    /\ disables < MaxDisables
    /\ enabled' = enabled \ {p}
    /\ disables' = disables + 1
    /\ notices' = notices \cup {p}
    /\ UNCHANGED <<row, defs, att, attempts, ctxCancels, cancelling, epoch, mode,
                   published, stale>>

Enable(p) ==
    /\ mode = "up"
    /\ p \notin enabled
    /\ enabled' = enabled \cup {p}
    /\ UNCHANGED <<row, procVars, epoch, mode, disables, published, stale>>

(* cancelPlugin: the attempts registered now are cancelled one by one. *)
NotifyDisabled(p) ==
    /\ p \in notices
    /\ notices' = notices \ {p}
    /\ cancelling' = cancelling \cup {j \in JobIds : attempts[j] # 0 /\ PluginOfJob(j) = p}
    /\ UNCHANGED <<row, enabled, defs, att, attempts, ctxCancels, epoch, mode, disables,
                   published, stale>>

CancelPluginJob(j) ==
    /\ j \in cancelling
    /\ cancelling' = cancelling \ {j}
    /\ IF Cancellable(j)
         THEN CancelTx(j) /\ ctxCancels' = ctxCancels \cup {j}
         ELSE UNCHANGED <<row, published, ctxCancels>>
    /\ UNCHANGED <<enabled, defs, att, attempts, notices, epoch, mode, disables, stale>>

(* The plugin host mounts the handlers of an enabled plugin and unmounts    *)
(* those of a disabled one, each some time after the policy change.         *)
RegisterDef(d) ==
    /\ mode = "up"
    /\ PluginOf[d] \in enabled
    /\ d \notin defs
    /\ defs' = defs \cup {d}
    /\ UNCHANGED <<row, enabled, att, attempts, ctxCancels, notices, cancelling, epoch,
                   mode, disables, published, stale>>

UnregisterAll(p) ==
    /\ mode = "up"
    /\ p \notin enabled
    /\ \E d \in defs : PluginOf[d] = p
    /\ defs' = {d \in defs : PluginOf[d] # p}
    /\ UNCHANGED <<row, enabled, att, attempts, ctxCancels, notices, cancelling, epoch,
                   mode, disables, published, stale>>

-----------------------------------------------------------------------------
(* The claim loop. *)

OccupiedRunning(j) ==  \* mutant: a cancel request frees the slot
    {i \in JobIds \ {j} : row[i].state = "running" /\ row[i].def = row[j].def}

(* Jobs of j's definition that hold a concurrency slot, j itself excluded. *)
Occupied(j) == {i \in JobIds \ {j} : row[i].state \in Active /\ row[i].def = row[j].def}

EligibleRunning(j) ==  \* mutant: an unacknowledged cancel is not picked up
    /\ \/ row[j].state \in Waiting /\ row[j].due
       \/ row[j].state = "running" /\ row[j].lease = "expired"
    /\ Cardinality(Occupied(j)) < Concurrency[row[j].def]

Eligible(j) ==
    /\ \/ row[j].state \in Waiting /\ row[j].due
       \/ row[j].state \in Active /\ row[j].lease = "expired"
    /\ Cardinality(Occupied(j)) < Concurrency[row[j].def]

(* One transaction at a time, highest priority first.  Among equals the     *)
(* query takes the earliest due time, which the model leaves open.          *)
MayClaim(j) ==
    /\ mode = "up"
    /\ \A a \in att : a.pc \notin {"claimed", "nohandler"}
    /\ Eligible(j)
    /\ \A i \in JobIds : Eligible(i) => row[i].prio <= row[j].prio

(* A cancel nobody acknowledged, or a plugin disabled since: fenceCancel. *)
ClaimCancels(j) ==
    /\ MayClaim(j)
    /\ row[j].state = "cancel_requested" \/ PluginOfJob(j) \notin enabled
    /\ row' = [row EXCEPT ![j] = Finished(j, "cancelled")]
    /\ published' = Publish(j, {"ended"})
    /\ UNCHANGED <<enabled, procVars, epoch, mode, disables, stale>>

Admissible(j) ==
    /\ MayClaim(j)
    /\ row[j].state # "cancel_requested"
    /\ PluginOfJob(j) \in enabled

ExhaustedLate(j) == row[j].attempt > MaxAttemptsOf(j)  \* mutant: off by one

Exhausted(j) == row[j].attempt + 1 > MaxAttemptsOf(j)

(* The lease of the last attempt expired: fenceDead. *)
ClaimDead(j) ==
    /\ Admissible(j)
    /\ Exhausted(j)
    /\ row' = [row EXCEPT ![j] = [Finished(j, "dead") EXCEPT !.error = "lease"]]
    /\ published' = Publish(j, {"failed", "ended"})
    /\ UNCHANGED <<enabled, procVars, epoch, mode, disables, stale>>

(* The row of a new attempt: a new generation, leased by this process. *)
Claimed(j) ==
    [row[j] EXCEPT !.state = "running", !.attempt = row[j].attempt + 1,
                   !.fence = row[j].fence + 1, !.owner = epoch, !.lease = "live",
                   !.error = ""]

ClaimRun(j) ==
    /\ Admissible(j)
    /\ ~ Exhausted(j)
    /\ row' = [row EXCEPT ![j] = Claimed(j)]
    /\ att' = att \cup {[job |-> j, fence |-> row[j].fence + 1,
                         attempt |-> row[j].attempt + 1, pc |-> "claimed",
                         cancelled |-> FALSE, beats |-> FALSE, plan |-> "none"]}
    /\ published' = Publish(j, {"started"})
    /\ UNCHANGED <<enabled, defs, attempts, ctxCancels, notices, cancelling, epoch, mode,
                   disables, stale>>

(* After the commit the loop looks the handler up. *)
LookupDef(a) ==
    /\ a.pc = "claimed"
    /\ Move(a, At(a, IF row[a.job].def \in defs THEN "spawned" ELSE "nohandler"))
    /\ UNCHANGED <<row, enabled, defs, attempts, ctxCancels, notices, cancelling, epoch,
                   mode, disables, published, stale>>

(* failAttempt: fenced, like every write of an attempt. *)
FailAttempt(a, result, error) ==
    LET j     == a.job
        retry == result # "permanent" /\ a.attempt < MaxAttemptsOf(j)
        final == IF result \in {"permanent", "deferred"} THEN "failed" ELSE "dead"
    IN  IF Owns(a)
          THEN /\ row' = [row EXCEPT ![j] =
                     [Finished(j, IF retry THEN "retry_wait" ELSE final) EXCEPT
                         !.due = IF retry THEN FALSE ELSE @, !.error = error]]
               /\ published' = Publish(j, IF ~ retry /\ final = "dead"
                                              THEN {"failed", "ended"} ELSE {"failed"})
          ELSE UNCHANGED <<row, published>>

FailUnhandled(a) ==
    /\ a.pc = "nohandler"
    /\ FailAttempt(a, "permanent", "nohandler")
    /\ att' = att \ {a}
    /\ UNCHANGED <<enabled, defs, attempts, ctxCancels, notices, cancelling, epoch, mode,
                   disables, stale>>

-----------------------------------------------------------------------------
(* One attempt: runAttempt. *)

Unrelated == <<enabled, defs, ctxCancels, notices, cancelling, epoch, mode, disables>>

RegisterAttempt(a) ==
    /\ a.pc = "spawned"
    /\ attempts' = [attempts EXCEPT ![a.job] = a.fence]
    /\ Move(a, At(a, "registered"))
    /\ UNCHANGED <<row, published, stale, Unrelated>>

(* A cancel that raced with the claim is honoured before the handler runs. *)
CheckCancel(a) ==
    /\ a.pc = "registered"
    /\ Move(a, IF row[a.job].state = "cancel_requested"
                 THEN [a EXCEPT !.pc = "early", !.plan = "cancel", !.cancelled = FALSE]
               ELSE [a EXCEPT !.pc = "handler", !.beats = TRUE])
    /\ UNCHANGED <<row, attempts, published, stale, Unrelated>>

Beating(a) == a.beats /\ a.pc \in {"handler", "returned", "recheck", "write"}

(* The heartbeat gives up for good and cancels the context. *)
GiveUp(a) == [a EXCEPT !.beats = FALSE, !.cancelled = (a.pc = "handler")]

(* The heartbeat renews the lease, or learns the lease is lost and cancels. *)
Heartbeat(a) ==
    /\ Beating(a)
    /\ IF Owns(a)
         THEN /\ row' = [row EXCEPT ![a.job].lease = "live"]
              /\ att' = att
         ELSE /\ Move(a, GiveUp(a))
              /\ row' = row
    /\ UNCHANGED <<attempts, published, stale, Unrelated>>

(* a is the newest attempt of a job that is still under way. *)
Newest(a) == row[a.job].fence = a.fence /\ row[a.job].state \in Active

ProgressUnfenced(a) ==  \* mutant: the UPDATE names the job only
    /\ a.pc = "handler"
    /\ stale' = (stale \/ ~ Newest(a))
    /\ UNCHANGED <<row, att, attempts, published, Unrelated>>

(* Progress and flushLogs write only while the attempt owns the row. *)
Progress(a) ==
    /\ a.pc = "handler"
    /\ Owns(a)
    /\ stale' = (stale \/ ~ Newest(a))
    /\ UNCHANGED <<row, att, attempts, published, Unrelated>>

FlushLogs(a) ==
    /\ a.pc \in {"handler", "returned"}
    /\ Owns(a)
    /\ stale' = (stale \/ ~ Newest(a))
    /\ UNCHANGED <<row, att, attempts, published, Unrelated>>

(* The handler returns: cancellation is cooperative, so it may return       *)
(* anything; context.Canceled only when its context is cancelled, and       *)
(* ErrLostLease only after a write of its own was refused or the heartbeat  *)
(* gave up, whose cause it is.                                              *)
HandlerReturns(a, result) ==
    /\ a.pc = "handler"
    /\ result = "canceled" => a.cancelled
    /\ result = "lost" => ~ Owns(a) \/ ~ a.beats
    /\ Move(a, [a EXCEPT !.pc = "returned", !.plan = result, !.cancelled = FALSE])
    /\ UNCHANGED <<row, attempts, published, stale, Unrelated>>

(* finish reads the row and decides; the write is a later transaction. *)
FinishRead(a) ==
    /\ a.pc = "returned"
    /\ LET r == row[a.job]
       IN  Move(a,
             IF r.state = "swept" THEN Done(a)
             ELSE IF r.state = "cancel_requested" THEN [a EXCEPT !.pc = "write", !.plan = "cancel"]
             ELSE IF r.owner # epoch \/ r.fence # a.fence THEN Done(a)
             ELSE IF a.plan \in {"canceled", "lost"} THEN At(a, "recheck")
             ELSE At(a, "write"))
    /\ UNCHANGED <<row, attempts, published, stale, Unrelated>>

(* No cancel request: a lost lease leaves the row alone, the rest may retry. *)
NotCancelled(a) ==
    IF a.plan = "lost" THEN Done(a) ELSE [a EXCEPT !.pc = "write", !.plan = "error"]

(* A cancelled handler looks once more for the cancel request. *)
FinishRecheck(a) ==
    /\ a.pc = "recheck"
    /\ Move(a, IF row[a.job].state = "cancel_requested"
                 THEN [a EXCEPT !.pc = "write", !.plan = "cancel"] ELSE NotCancelled(a))
    /\ UNCHANGED <<row, attempts, published, stale, Unrelated>>

(* fenceCancelOwned. *)
FenceCancelOwned(a) ==
    IF Owns(a)
      THEN /\ row' = [row EXCEPT ![a.job] = Finished(a.job, "cancelled")]
           /\ published' = Publish(a.job, {"ended"})
      ELSE UNCHANGED <<row, published>>

SucceedUnfenced(a) ==  \* mutant: the UPDATE names the job only
    /\ row' = [row EXCEPT ![a.job] = Finished(a.job, "succeeded")]
    /\ published' = Publish(a.job, {"ended"})

FinishSucceeded(a) ==
    IF Owns(a)
      THEN /\ row' = [row EXCEPT ![a.job] = Finished(a.job, "succeeded")]
           /\ published' = Publish(a.job, {"ended"})
      ELSE UNCHANGED <<row, published>>

FinishWrite(a) ==
    /\ a.pc \in {"early", "write"}
    /\ \/ a.plan = "cancel" /\ FenceCancelOwned(a)
       \/ a.plan = "ok" /\ FinishSucceeded(a)
       \/ a.plan \notin {"cancel", "ok"} /\ FailAttempt(a, a.plan, "handler")
    /\ Move(a, Done(a))
    /\ UNCHANGED <<attempts, stale, Unrelated>>

(* A transaction fails: finish and finishCancelled give up and leave the    *)
(* row to its lease, as the claim loop does with an unhandled attempt; the  *)
(* cancel checks go on as if there were no request; a heartbeat gives up.   *)
StorageError(a) ==
    /\ StorageFaults
    /\ \/ a.pc \in {"returned", "early", "write"} /\ Move(a, Done(a))
       \/ a.pc = "nohandler" /\ att' = att \ {a}
       \/ a.pc = "registered" /\ Move(a, [a EXCEPT !.pc = "handler", !.beats = TRUE])
       \/ a.pc = "recheck" /\ Move(a, NotCancelled(a))
       \/ Beating(a) /\ Move(a, GiveUp(a))
    /\ UNCHANGED <<row, attempts, published, stale, Unrelated>>

(* The deferred clean-up deletes the map entry by job id. *)
ExitAttempt(a) ==
    /\ a.pc = "exit"
    /\ attempts' = [attempts EXCEPT ![a.job] = 0]
    /\ att' = att \ {a}
    /\ UNCHANGED <<row, published, stale, Unrelated>>

-----------------------------------------------------------------------------
(* Time, retention, and the life of the process. *)

BecomesDue(j) ==
    /\ row[j].state \in Waiting
    /\ ~ row[j].due
    /\ row' = [row EXCEPT ![j].due = TRUE]
    /\ UNCHANGED <<enabled, procVars, epoch, mode, disables, published, stale>>

LeaseExpires(j) ==
    /\ row[j].lease = "live"
    /\ row' = [row EXCEPT ![j].lease = "expired"]
    /\ UNCHANGED <<enabled, procVars, epoch, mode, disables, published, stale>>

RunRetention(j) ==
    /\ mode = "up"
    /\ row[j].state \in Terminal
    /\ row' = [row EXCEPT ![j].state = "swept"]
    /\ UNCHANGED <<enabled, procVars, epoch, mode, disables, published, stale>>

(* Stop: the watcher goes, admitted contexts are cancelled, claims end.     *)
(* Attempts keep running until the process exits.                           *)
Stop ==
    /\ mode = "up"
    /\ epoch < MaxEpochs
    /\ mode' = "stopping"
    /\ notices' = {}
    /\ att' = CancelContexts(JobIds)
    /\ UNCHANGED <<row, enabled, defs, attempts, ctxCancels, cancelling, epoch, disables,
                   published, stale>>

(* The process ends, orderly or not: everything in memory is gone. *)
Crash ==
    /\ mode # "down"
    /\ epoch < MaxEpochs
    /\ mode' = "down"
    /\ defs' = {}
    /\ att' = {}
    /\ attempts' = [j \in JobIds |-> 0]
    /\ ctxCancels' = {}
    /\ notices' = {}
    /\ cancelling' = {}
    /\ UNCHANGED <<row, enabled, epoch, disables, published, stale>>

(* Start runs the claim loop at once; handlers are registered later. *)
Start ==
    /\ mode = "down"
    /\ mode' = "up"
    /\ epoch' = epoch + 1
    /\ UNCHANGED <<row, enabled, procVars, disables, published, stale>>

-----------------------------------------------------------------------------

AttemptStep(a) ==
    \/ LookupDef(a)
    \/ FailUnhandled(a)
    \/ RegisterAttempt(a)
    \/ CheckCancel(a)
    \/ FinishRead(a)
    \/ FinishRecheck(a)
    \/ FinishWrite(a)
    \/ ExitAttempt(a)

HandlerStep(a) == \E result \in HandlerResults : HandlerReturns(a, result)

Claim(j) == ClaimCancels(j) \/ ClaimDead(j) \/ ClaimRun(j)

Next ==
    \/ \E j \in JobIds :
          \/ \E d \in Defs, k \in Keys \cup {NoKey}, prio \in Priorities, due \in BOOLEAN :
                Enqueue(j, d, k, prio, due)
          \/ Cancel(j)
          \/ CancelAttempt(j)
          \/ CancelPluginJob(j)
          \/ Claim(j)
          \/ BecomesDue(j)
          \/ LeaseExpires(j)
          \/ RunRetention(j)
    \/ \E p \in Plugins : Disable(p) \/ Enable(p) \/ NotifyDisabled(p) \/ UnregisterAll(p)
    \/ \E d \in Defs : RegisterDef(d)
    \/ \E a \in att : AttemptStep(a) \/ Heartbeat(a) \/ Progress(a) \/ FlushLogs(a)
                      \/ HandlerStep(a) \/ StorageError(a)
    \/ Stop
    \/ Crash
    \/ Start

Spec == Init /\ [][Next]_vars

-----------------------------------------------------------------------------
(* Properties. *)

(* Two jobs never hold the same idempotency key at the same time. *)
KeysUnique ==
    \A i, j \in JobIds :
        /\ i # j
        /\ {row[i].state, row[j].state} \subseteq Waiting \cup Active
        /\ row[i].def = row[j].def
        /\ row[i].key # NoKey
        => row[i].key # row[j].key

(* No definition occupies more slots than its concurrency limit, whatever   *)
(* leases expire and whoever is reclaimed: the claim counts the rows that   *)
(* are running or waiting for their cancel to be acknowledged.              *)
ConcurrencyRespected ==
    \A d \in Defs :
        Cardinality({j \in JobIds : row[j].state \in Active /\ row[j].def = d})
            <= Concurrency[d]

(* A row that occupies a slot always has a lease that can expire, and no    *)
(* other row has one: a row without it would never be claimed again and     *)
(* would hold its slot and its key for ever.                                *)
LeaseHeld ==
    \A j \in JobIds :
        /\ (row[j].state \in Active) <=> (row[j].lease # "none")
        /\ (row[j].state \in Active) <=> (row[j].owner # 0)

(* At most one goroutine may write a job: after any number of expiries,     *)
(* reclaims and restarts, a stale attempt is fenced out.                    *)
OneWriter ==
    \A a, b \in att : a.job = b.job /\ Owns(a) /\ Owns(b) => a = b

(* Every transition publishes exactly its events: one started per attempt,  *)
(* at most one failed per attempt, and one succeeded, cancelled or dead     *)
(* event per job, when it ends that way and not before.                     *)
EventsMatchRow ==
    \A j \in JobIds :
        /\ published[j].started = row[j].attempt
        /\ published[j].failed <= row[j].attempt
        /\ published[j].ended <= 1
        /\ row[j].state # "swept" =>
              (published[j].ended = 1 <=> row[j].state \in Terminal \ {"failed"})

(* Attempts are counted exactly, and never beyond the definition's limit,   *)
(* crashes and lost leases included.                                        *)
AttemptsBounded ==
    \A j \in JobIds : row[j].attempt <= MaxAttemptsOf(j) /\ row[j].fence = row[j].attempt

(* A finished job stays finished: no late handler, cancel, claim or         *)
(* heartbeat moves it; only retention removes it.                           *)
TerminalIsFinal ==
    [][\A j \in JobIds : row[j].state \in Terminal =>
          row'[j].state \in {row[j].state, "swept"}]_vars

(* Progress and log lines of an attempt are accepted only until its job     *)
(* ends or a newer attempt starts.                                          *)
WritesAreFenced == ~ stale

(* What the queue keeps for its rows and its attempts, crashes, lost leases  *)
(* and late handlers included (the parts are stated above).                  *)
JobsHold ==
    /\ [](TypeOK /\ LeaseHeld /\ OneWriter /\ EventsMatchRow /\ AttemptsBounded /\ WritesAreFenced)
    /\ TerminalIsFinal

(* Two jobs never share what only one of them may hold: an idempotency key   *)
(* or a slot of the definition.                                              *)
JobsExclusive == KeysUnique /\ ConcurrencyRespected

(* The queue is an implementation of the lifecycle it promises: no step of  *)
(* any attempt, cancel, claim, crash or sweep moves a row in a way that     *)
(* JobLifecycle does not allow.                                             *)
Life == INSTANCE JobLifecycle WITH
    Ids <- JobIds,
    state <- [j \in JobIds |-> row[j].state],
    attempt <- [j \in JobIds |-> row[j].attempt],
    def <- [j \in JobIds |-> row[j].def]

ImplementsLifecycle == Life!Spec

-----------------------------------------------------------------------------
(* Liveness.  Goroutines are scheduled, callbacks run, the loop polls, the   *)
(* process is restarted, and a lease nobody renews expires.  A handler       *)
(* returns only if its author wrote it so: that is a separate assumption.    *)

LapseUnrenewed(j) ==
    /\ ~ \E a \in att : a.job = j /\ Owns(a) /\ Beating(a)
    /\ LeaseExpires(j)

Exit == mode = "stopping" /\ Crash

AttemptOf(j, f, a) == a \in att /\ a.job = j /\ a.fence = f

HostFairness ==
    /\ \A j \in JobIds : /\ WF_vars(Claim(j))
                         /\ WF_vars(BecomesDue(j))
                         /\ WF_vars(CancelAttempt(j))
                         /\ WF_vars(CancelPluginJob(j))
                         /\ WF_vars(LapseUnrenewed(j))
    /\ \A j \in JobIds, f \in Fences :
          WF_vars(\E a \in att : AttemptOf(j, f, a) /\ AttemptStep(a))
    /\ \A p \in Plugins : WF_vars(NotifyDisabled(p))
    /\ WF_vars(Exit)
    /\ WF_vars(Start)

HandlerFairness ==
    \A j \in JobIds, f \in Fences :
        WF_vars(\E a \in att : AttemptOf(j, f, a) /\ HandlerStep(a))

HostSpec == Spec /\ HostFairness

FairSpec == Spec /\ HostFairness /\ HandlerFairness

(* Every enqueued job reaches a terminal state, when handlers return: no    *)
(* lost lease, crash, cancel or disable leaves a row that nobody finishes.  *)
EveryJobEnds ==
    \A j \in JobIds :
        row[j].state \in Waiting \cup Active ~> row[j].state \in Terminal \cup {"swept"}

-----------------------------------------------------------------------------
(* What the documentation and comments say, and the code does not do.       *)

(* docs/modules/jobs.md: "Context cancellation caused by user cancellation  *)
(* or plugin disable is `cancelled`, never retried."                        *)
CancelledNeverRetried ==
    [][\A j \in JobIds :
          row[j].state = "cancel_requested" => row'[j].state # "retry_wait"]_vars

(* docs/modules/jobs.md: "Disable stops new claims and cancels contexts for *)
(* admitted attempts."  Once the watcher is done, no handler of a disabled  *)
(* plugin runs on with a live context.                                      *)
DisableReachesAttempts ==
    notices \cup cancelling \cup ctxCancels = {} =>
        \A a \in att :
            a.pc = "handler" /\ Owns(a) /\ PluginOfJob(a.job) \notin enabled => a.cancelled

(* enqueue.go, Cancel: "A running job becomes cancel_requested, its context *)
(* is cancelled, and the worker fences the terminal write."                 *)
CancelReachesHandler ==
    \A a \in att :
        a.pc = "handler" /\ Owns(a) /\ row[a.job].state = "cancel_requested"
            /\ a.job \notin ctxCancels => a.cancelled

(* retention.go: "Jobs are durable so a crash cannot lose work".  A job     *)
(* fails for good only by its own handler's decision.                       *)
CrashLosesNoJob == \A j \in JobIds : row[j].state = "failed" => row[j].error # "nohandler"

(* docs/modules/jobs.md: "When the handler returns, or the grace period     *)
(* expires, the worker conditionally fences the lease and records           *)
(* `cancelled`".  A cancel is over in bounded time whatever the handler does.*)
CancelEndsWithoutHandler ==
    \A j \in JobIds :
        row[j].state = "cancel_requested" ~> row[j].state \in Terminal \cup {"swept"}
=============================================================================
