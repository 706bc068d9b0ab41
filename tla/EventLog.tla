------------------------------ MODULE EventLog ------------------------------
(***************************************************************************)
(* The persisted event log and its durable subscribers: internal/core/     *)
(* events (log.go, durable.go, retention.go).                              *)
(*                                                                         *)
(* A dispatch loop takes the lease, reads the cursor, reads a batch and    *)
(* acts on it, each in a transaction of its own, so anything may happen in *)
(* between: another process, an operator, retention, a crash.  A lease is  *)
(* live or expired and may expire at any moment, since nothing renews it   *)
(* while a handler runs.                                                   *)
(***************************************************************************)
EXTENDS Integers, FiniteSets, FiniteSetsExt

CONSTANTS
    Procs,         \* processes that share the database
    Subs,          \* durable subscriber names
    Transactional, \* those of SubscribeDurableTx
    Types,         \* event types
    Alert,         \* core.event.subscription_paused, one of them
    Matching,      \* the types each subscriber's pattern matches
    MaxTries,      \* Retry.MaxAttempts
    Batch,         \* the limit of one read
    MaxEvents,     \* bound: how many events are published, alerts not counted
    MaxCrashes,    \* bound: how often processes crash
    MaxClosings,   \* bound: how often subscriptions are closed
    MaxResets,     \* bound: how often cursors are reset or removed
    MaxResumes,    \* bound: how often a paused subscriber is resumed
    StorageFaults  \* whether a transaction of the loop may fail

NoProc == "none"   \* lease_owner ''
Gone == "gone"     \* the owner was a process that crashed

ASSUME EventAssumption ==
    /\ Procs \cap {NoProc, Gone} = {}
    /\ Transactional \subseteq Subs
    /\ Alert \in Types
    /\ Matching \in [Subs -> SUBSET Types]
    /\ MaxTries \in Nat \ {0} /\ Batch \in Nat \ {0}
    /\ {MaxEvents, MaxCrashes, MaxClosings, MaxResets, MaxResumes} \subseteq Nat
    /\ StorageFaults \in BOOLEAN

VARIABLES
    type,       \* the type of every event ever committed, by id
    tail,       \* the last id AUTOINCREMENT gave out
    retained,   \* the ids still in core_events
    oldest,     \* oldest_retained_id
    cur,        \* core_event_cursors
    disp,       \* the dispatch loop of each process and subscriber
    releasing,  \* subscriptions that are closed and have still to give the lease back
    count,      \* how often the bounded things happened
    owed,       \* history: events a subscriber must still see
    txApplied,  \* history: events whose TxHandler committed since the cursor was placed
    twice       \* history: subscribers for which one did so a second time

eventVars == <<type, tail, retained, oldest, cur, disp, releasing, count, owed, txApplied, twice>>
logVars == <<type, tail, retained, oldest>>
history == <<owed, txApplied, twice>>

(* idle: about to take the lease; leased: the cursor is read next; read:   *)
(* the batch is; skip, handle: what the batch asked for; handled: an       *)
(* ordinary handler returned and the cursor has still to advance; failed:  *)
(* recordFailure is next.                                                  *)
Pcs == {"off", "idle", "leased", "read", "skip", "handle", "handled", "failed"}
Acting == {"skip", "handle", "handled", "failed"}

Cursor == [state : {"absent", "active", "paused"}, pos : Nat, failed : Nat, tries : Nat,
           waiting : BOOLEAN, owner : Procs \cup {NoProc, Gone}, live : BOOLEAN]

Kinds == {"events", "crashes", "closings", "resets", "resumes"}

EventsTypeOK ==
    /\ tail \in Nat
    /\ type \in [1..tail -> Types]
    /\ retained \subseteq 1..tail
    /\ oldest \in Nat \ {0}
    /\ cur \in [Subs -> Cursor]
    /\ disp \in [Procs -> [Subs -> [pc : Pcs, to : Nat]]]
    /\ releasing \subseteq Procs \X Subs
    /\ count \in [Kinds -> Nat]
    /\ owed \in [Subs -> SUBSET (1..tail)]
    /\ txApplied \in [Subs -> SUBSET (1..tail)]
    /\ twice \subseteq Subs

-----------------------------------------------------------------------------

Off == [pc |-> "off", to |-> 0]

Absent == [state |-> "absent", pos |-> 0, failed |-> 0, tries |-> 0, waiting |-> FALSE,
           owner |-> NoProc, live |-> FALSE]

EventsInit ==
    /\ type = [e \in {} |-> Alert]
    /\ tail = 0
    /\ retained = {}
    /\ oldest = 1
    /\ cur = [s \in Subs |-> Absent]
    /\ disp = [p \in Procs |-> [s \in Subs |-> Off]]
    /\ releasing = {}
    /\ count = [k \in Kinds |-> 0]
    /\ owed = [s \in Subs |-> {}]
    /\ txApplied = [s \in Subs |-> {}]
    /\ twice = {}

Tick(k, bound) == count[k] < bound /\ count' = [count EXCEPT ![k] = @ + 1]

CursorExists(s) == cur[s].state # "absent"

MatchesEvent(s, e) == type[e] \in Matching[s]

(* max(id) over the table: zero when retention has emptied it. *)
MaxId == Max(retained \cup {0})

GoTo(p, s, pc, to) == disp' = [disp EXCEPT ![p][s] = [pc |-> pc, to |-> to]]

-----------------------------------------------------------------------------
(* Publishing and retention. *)

InsertReuses(t) ==  \* mutant: the id is max(id) + 1, not AUTOINCREMENT
    /\ tail' = MaxId + 1
    /\ type' = [e \in 1..(MaxId + 1) |-> IF e = MaxId + 1 THEN t ELSE type[e]]
    /\ retained' = retained \cup {MaxId + 1}
    /\ oldest' = oldest

(* PublishTx; the row becomes visible when its transaction commits. *)
Insert(t) ==
    /\ tail' = tail + 1
    /\ type' = [e \in 1..(tail + 1) |-> IF e = tail + 1 THEN t ELSE type[e]]
    /\ retained' = retained \cup {tail + 1}
    /\ oldest' = oldest

(* Everybody with a cursor and a matching pattern must see the event. *)
OweTo(t, o) == [s \in Subs |-> IF CursorExists(s) /\ t \in Matching[s]
                                 THEN o[s] \cup {tail + 1} ELSE o[s]]

Publish(t) ==
    /\ Tick("events", MaxEvents)
    /\ Insert(t)
    /\ owed' = OweTo(t, owed)
    /\ UNCHANGED <<cur, disp, releasing, txApplied, twice>>

(* The rows no cursor needs any more. *)
Unpinned == {e \in retained : \A s \in Subs : CursorExists(s) => e <= cur[s].pos}

BoundaryOff(D) == Max(D \cup {oldest})  \* mutant: off by one

(* One past the highest id that goes, and never backwards. *)
Boundary(D) == Max({oldest} \cup {e + 1 : e \in D})

(* Any set of rows may be past its age: the wall clock may have stepped. *)
RunRetention(aged) ==
    LET D == aged \cap Unpinned
    IN  /\ D # {}
        /\ retained' = retained \ D
        /\ oldest' = Boundary(D)
        /\ UNCHANGED <<type, tail, cur, disp, releasing, count, history>>

-----------------------------------------------------------------------------
(* Subscribing and closing. *)

(* What a cursor placed after `to` owes. *)
Beyond(s, to) == {e \in retained : e > to /\ MatchesEvent(s, e)}

Place(s, to) ==
    /\ owed' = [owed EXCEPT ![s] = Beyond(s, to)]
    /\ txApplied' = [txApplied EXCEPT ![s] = {}]
    /\ twice' = twice \ {s}

(* FromBeginning, AfterEvent and FromNow. *)
CursorStarts == {0, MaxId} \cup retained

(* ensureCursor, then the loop starts; an existing cursor ignores the start. *)
Subscribe(p, s, start) ==
    /\ disp[p][s].pc = "off"
    /\ IF CursorExists(s)
         THEN UNCHANGED <<cur, history>>
         ELSE /\ cur' = [cur EXCEPT ![s] = [Absent EXCEPT !.state = "active", !.pos = start]]
              /\ Place(s, start)
    /\ GoTo(p, s, "idle", 0)
    /\ UNCHANGED <<logVars, releasing, count>>

(* Close stops the loop wherever it is, and then releases the lease. *)
CloseSub(p, s) ==
    /\ disp[p][s].pc # "off"
    /\ Tick("closings", MaxClosings)
    /\ GoTo(p, s, "off", 0)
    /\ releasing' = releasing \cup {<<p, s>>}
    /\ UNCHANGED <<logVars, cur, history>>

ReleaseLease(p, s) ==
    /\ <<p, s>> \in releasing
    /\ releasing' = releasing \ {<<p, s>>}
    /\ cur' = [cur EXCEPT ![s] = IF @.owner = p THEN [@ EXCEPT !.owner = NoProc, !.live = FALSE]
                                 ELSE @]
    /\ UNCHANGED <<logVars, disp, count, history>>

(* The process dies; nobody ever renews or releases its leases. *)
Crash(p) ==
    /\ \E s \in Subs : disp[p][s] # Off
    /\ Tick("crashes", MaxCrashes)
    /\ disp' = [disp EXCEPT ![p] = [s \in Subs |-> Off]]
    /\ releasing' = {r \in releasing : r[1] # p}
    /\ cur' = [s \in Subs |-> IF cur[s].owner = p THEN [cur[s] EXCEPT !.owner = Gone] ELSE cur[s]]
    /\ UNCHANGED <<logVars, history>>

-----------------------------------------------------------------------------
(* One pass of the dispatch loop: step. *)

AvailableToOwner(p, s) == cur[s].owner \in {NoProc, p}  \* mutant: expiry is not looked at

Available(p, s) == cur[s].owner \in {NoProc, p} \/ ~ cur[s].live

AcquireLease(p, s) ==
    /\ disp[p][s].pc = "idle"
    /\ CursorExists(s)
    /\ Available(p, s)
    /\ cur' = [cur EXCEPT ![s].owner = p, ![s].live = TRUE]
    /\ GoTo(p, s, "leased", 0)
    /\ UNCHANGED <<logVars, releasing, count, history>>

ReadyPaused(s) == ~ cur[s].waiting  \* mutant: the pause is ignored

Ready(s) == cur[s].state = "active" /\ ~ cur[s].waiting

ReadCursor(p, s) ==
    /\ disp[p][s].pc = "leased"
    /\ IF Ready(s) THEN GoTo(p, s, "read", cur[s].pos) ELSE GoTo(p, s, "idle", 0)
    /\ UNCHANGED <<logVars, cur, releasing, count, history>>

(* The next rows above id, in order. *)
ReadAfter(id) ==
    LET above == {e \in retained : e > id}
    IN  {e \in above : Cardinality({f \in above : f < e}) < Batch}

SkippedAny(s, B) == {e \in B : ~ MatchesEvent(s, e)}  \* mutant: not just the leading run

(* The leading rows of a batch that do not match. *)
Skipped(s, B) == {e \in B : \A f \in B : f <= e => ~ MatchesEvent(s, f)}

ReadBatch(p, s) ==
    /\ disp[p][s].pc = "read"
    /\ LET B == ReadAfter(disp[p][s].to)
           S == Skipped(s, B)
       IN  \/ B = {} /\ GoTo(p, s, "idle", 0)
           \/ S # {} /\ GoTo(p, s, "skip", Max(S))
           \/ B # {} /\ S = {} /\ GoTo(p, s, "handle", Min(B))
    /\ UNCHANGED <<logVars, cur, releasing, count, history>>

(* advanceTx: it names the subscriber only, neither lease nor position. *)
Advanced(s, to) ==
    IF CursorExists(s)
      THEN [cur EXCEPT ![s].pos = to, ![s].tries = 0, ![s].waiting = FALSE]
      ELSE cur

SkipRun(p, s) ==
    /\ disp[p][s].pc = "skip"
    /\ cur' = Advanced(s, disp[p][s].to)
    /\ GoTo(p, s, "idle", 0)
    /\ UNCHANGED <<logVars, releasing, count, history>>

Seen(s, e) == owed' = [owed EXCEPT ![s] = @ \ {e}]

DispatchTxApart(p, s) ==  \* mutant: the cursor advances in a transaction of its own
    LET e == disp[p][s].to
    IN  /\ disp[p][s].pc = "handle"
        /\ s \in Transactional
        /\ Seen(s, e)
        /\ txApplied' = [txApplied EXCEPT ![s] = @ \cup {e}]
        /\ twice' = IF e \in txApplied[s] THEN twice \cup {s} ELSE twice
        /\ GoTo(p, s, "handled", e)
        /\ UNCHANGED <<logVars, cur, releasing, count>>

(* The TxHandler's writes and the cursor commit together. *)
DispatchTx(p, s) ==
    LET e == disp[p][s].to
    IN  /\ disp[p][s].pc = "handle"
        /\ s \in Transactional
        /\ cur' = Advanced(s, e)
        /\ Seen(s, e)
        /\ txApplied' = [txApplied EXCEPT ![s] = @ \cup {e}]
        /\ twice' = IF e \in txApplied[s] THEN twice \cup {s} ELSE twice
        /\ GoTo(p, s, "idle", 0)
        /\ UNCHANGED <<logVars, releasing, count>>

(* An ordinary handler returns nil; its effect is out before the cursor moves. *)
HandlerDone(p, s) ==
    /\ disp[p][s].pc = "handle"
    /\ s \notin Transactional
    /\ Seen(s, disp[p][s].to)
    /\ GoTo(p, s, "handled", disp[p][s].to)
    /\ UNCHANGED <<logVars, cur, releasing, count, txApplied, twice>>

Advance(p, s) ==
    /\ disp[p][s].pc = "handled"
    /\ cur' = Advanced(s, disp[p][s].to)
    /\ GoTo(p, s, "idle", 0)
    /\ UNCHANGED <<logVars, releasing, count, history>>

(* The handler returns an error, and with it its transaction is undone. *)
HandlerFails(p, s) ==
    /\ disp[p][s].pc = "handle"
    /\ GoTo(p, s, "failed", disp[p][s].to)
    /\ UNCHANGED <<logVars, cur, releasing, count, history>>

Poisoned(s) == cur[s].tries + 1 >= MaxTries

RecordFailure(p, s) ==
    /\ disp[p][s].pc = "failed"
    /\ \/ /\ ~ CursorExists(s)
          /\ UNCHANGED <<logVars, cur, owed>>
       \/ /\ CursorExists(s) /\ Poisoned(s)
          /\ cur' = [cur EXCEPT ![s].state = "paused", ![s].failed = disp[p][s].to,
                                ![s].tries = @ + 1, ![s].waiting = FALSE]
          /\ Insert(Alert)
          /\ owed' = OweTo(Alert, owed)
       \/ /\ CursorExists(s) /\ ~ Poisoned(s)
          /\ cur' = [cur EXCEPT ![s].tries = @ + 1, ![s].waiting = TRUE]
          /\ UNCHANGED <<logVars, owed>>
    /\ GoTo(p, s, "idle", 0)
    /\ UNCHANGED <<releasing, count, txApplied, twice>>

(* A read or a write of the loop fails: the pass ends and the next one      *)
(* starts over, except that a failed acknowledgement counts as a failure.   *)
StorageError(p, s) ==
    /\ StorageFaults
    /\ \/ disp[p][s].pc \in {"leased", "read", "skip", "failed"} /\ GoTo(p, s, "idle", 0)
       \/ disp[p][s].pc = "handled" /\ GoTo(p, s, "failed", disp[p][s].to)
    /\ UNCHANGED <<logVars, cur, releasing, count, history>>

-----------------------------------------------------------------------------
(* Time, and what an operator may do. *)

LeaseExpires(s) ==
    /\ cur[s].live
    /\ cur' = [cur EXCEPT ![s].live = FALSE]
    /\ UNCHANGED <<logVars, disp, releasing, count, history>>

RetryDue(s) ==
    /\ cur[s].waiting
    /\ cur' = [cur EXCEPT ![s].waiting = FALSE]
    /\ UNCHANGED <<logVars, disp, releasing, count, history>>

RetryPaused(s) ==
    /\ cur[s].state = "paused"
    /\ Tick("resumes", MaxResumes)
    /\ cur' = [cur EXCEPT ![s].state = "active", ![s].tries = 0, ![s].waiting = FALSE]
    /\ UNCHANGED <<logVars, disp, releasing, history>>

SkipPaused(s) ==
    /\ cur[s].state = "paused"
    /\ Tick("resumes", MaxResumes)
    /\ cur' = [cur EXCEPT ![s].state = "active", ![s].pos = cur[s].failed, ![s].failed = 0,
                          ![s].tries = 0, ![s].waiting = FALSE]
    /\ Seen(s, cur[s].failed)
    /\ UNCHANGED <<logVars, disp, releasing, txApplied, twice>>

ResetCursor(s, to) ==
    /\ CursorExists(s)
    /\ Tick("resets", MaxResets)
    /\ cur' = [cur EXCEPT ![s].state = "active", ![s].pos = to, ![s].failed = 0,
                          ![s].tries = 0, ![s].waiting = FALSE]
    /\ Place(s, to)
    /\ UNCHANGED <<logVars, disp, releasing>>

(* RemoveSubscriber closes the subscription of its own process first. *)
RemoveSubscriber(p, s) ==
    /\ CursorExists(s)
    /\ disp[p][s].pc = "off"
    /\ <<p, s>> \notin releasing
    /\ Tick("resets", MaxResets)
    /\ cur' = [cur EXCEPT ![s] = Absent]
    /\ owed' = [owed EXCEPT ![s] = {}]
    /\ txApplied' = [txApplied EXCEPT ![s] = {}]
    /\ UNCHANGED <<logVars, disp, releasing, twice>>

-----------------------------------------------------------------------------

Dispatch(p, s) ==
    \/ AcquireLease(p, s)
    \/ ReadCursor(p, s)
    \/ ReadBatch(p, s)
    \/ SkipRun(p, s)
    \/ DispatchTx(p, s)
    \/ HandlerDone(p, s)
    \/ Advance(p, s)
    \/ HandlerFails(p, s)
    \/ RecordFailure(p, s)

Operate(s) ==
    \/ RetryPaused(s)
    \/ SkipPaused(s)
    \/ \E to \in CursorStarts : ResetCursor(s, to)

EventsNext ==
    \/ \E t \in Types \ {Alert} : Publish(t)
    \/ \E aged \in SUBSET retained : RunRetention(aged)
    \/ \E p \in Procs, s \in Subs :
          \/ \E start \in CursorStarts : Subscribe(p, s, start)
          \/ CloseSub(p, s)
          \/ ReleaseLease(p, s)
          \/ Dispatch(p, s)
          \/ StorageError(p, s)
          \/ RemoveSubscriber(p, s)
    \/ \E p \in Procs : Crash(p)
    \/ \E s \in Subs : LeaseExpires(s) \/ RetryDue(s) \/ Operate(s)

EventsSpec == EventsInit /\ [][EventsNext]_eventVars

-----------------------------------------------------------------------------
(* Properties. *)

(* Every matching event is delivered: until a handler has succeeded on it   *)
(* or an operator skipped it, it stays in the log and above the cursor,     *)
(* whatever processes crash, overlap or fail.                               *)
NothingLost ==
    \A s \in Subs : \A e \in owed[s] : e \in retained /\ e > cur[s].pos

(* A client that resumes at the boundary replays without a gap. *)
BoundaryComplete == oldest..tail \subseteq retained

(* A TxHandler's effect is committed once per event and position, when one  *)
(* process runs the subscription, in spite of its crashes and retries.      *)
TxAppliedOnce == twice = {}

(* A paused subscriber is really at rest: nothing is in flight that could   *)
(* move its cursor past the poison event, which is the one it still owes.   *)
PausedAtRest ==
    \A s \in Subs : cur[s].state = "paused" =>
        /\ \A p \in Procs : disp[p][s].pc \notin Acting
        /\ cur[s].tries = MaxTries

(* What one process keeps of a subscription through crashes, retries, resets *)
(* and retention (the parts are stated above).                               *)
EventsSafe == EventsTypeOK /\ BoundaryComplete /\ TxAppliedOnce /\ PausedAtRest

-----------------------------------------------------------------------------
(* Liveness.  Loops are scheduled, leases lapse, retries fall due and       *)
(* subscriptions are made again after a crash or a disable.                 *)

Fairness ==
    /\ \A p \in Procs, s \in Subs :
          /\ WF_eventVars(Dispatch(p, s))
          /\ WF_eventVars(\E start \in CursorStarts : Subscribe(p, s, start))
    /\ \A s \in Subs : WF_eventVars(LeaseExpires(s)) /\ WF_eventVars(RetryDue(s))

EventsFairSpec == EventsSpec /\ Fairness

(* An event that is owed is seen, or its subscriber pauses and says so,     *)
(* whatever crashes or closes, as long as nobody rewinds the cursor: a      *)
(* rewind can be overwritten by the loop (ResetIsKept).                     *)
EventsArrive ==
    \A s \in Subs : \A e \in 1..MaxEvents :
        e \in owed[s] ~> (e \notin owed[s] \/ cur[s].state = "paused" \/ count.resets > 0)

-----------------------------------------------------------------------------
(* What the documentation and comments say, and the code does not do.       *)

(* durable.go: "Exactly one handler invocation runs at a time for each      *)
(* durable name, and a database-backed lease keeps that true across         *)
(* processes."                                                              *)
OneInvocation ==
    \A s \in Subs : Cardinality({p \in Procs : disp[p][s].pc = "handle"}) <= 1

(* durable.go: "ResetCursor moves a durable subscriber to a new position",  *)
(* and everything beyond that position is delivered again.                  *)
ResetIsKept ==
    \A s \in Subs : \A e \in owed[s] : e > cur[s].pos
=============================================================================
