------------------------------ MODULE Harness ------------------------------
(***************************************************************************)
(* Supervised coding-agent processes (harness/harness.go, store.go,        *)
(* runner.go).  Create reserves capacity, writes a row, starts a process   *)
(* and hands it to a waiter and an output publisher; Stop writes the row,  *)
(* interrupts, and kills after a timeout; Close stops everything and waits;*)
(* a restart marks what a crash left behind.                               *)
(***************************************************************************)
EXTENDS Naturals, Sequences, FiniteSets

CONSTANTS
    HSession,       \* calls of Create
    HarnessSlots,   \* MaxSessions
    OutputLimit,    \* MaxOutputBytes, in the unit of ChunkSize
    ChunkSize,      \* sizes of output chunks
    MaxChunks       \* bound on the chunks a process writes

ASSUME HarnessConstants ==
    /\ HarnessSlots \in Nat \ {0} /\ OutputLimit \in Nat \ {0} /\ MaxChunks \in Nat
    /\ ChunkSize \subseteq 1..OutputLimit

VARIABLES
    serving,    \* "up", "closing": Close was called, "down": the process ended
    hrow,       \* per session: its row's state, and the state its last event told
    create,     \* per session: where its Create stands
    proc,       \* per session: the operating system's process
    runs,       \* per session: entry of s.running and its flags
    output,     \* per session: sizes of the chunks kept, and of all written
    told        \* per session: dirty flag, publisher, and output already announced

harnessVars == <<serving, hrow, create, proc, runs, output, told>>

LiveState == {"starting", "running", "stopping"}
FinalState == {"exited", "failed", "stopped", "interrupted"}

\* The type of the state.
HarnessTypeOK ==
    /\ serving \in {"up", "closing", "down"}
    /\ hrow \in [HSession -> [state: LiveState \cup FinalState \cup {"none"}, event: LiveState \cup FinalState \cup {"none"}]]
    /\ create \in [HSession -> {"new", "slot", "row", "started", "marked", "done"}]
    /\ proc \in [HSession -> {"none", "alive", "dead"}]
    /\ runs \in [HSession -> [in: BOOLEAN, exited: BOOLEAN, reason: {"", "user", "shutdown"}, reaped: BOOLEAN,
                             doneClosed: BOOLEAN, killer: BOOLEAN, listed: BOOLEAN, refused: BOOLEAN]]
    /\ \A s \in HSession: output[s].kept \in Seq(ChunkSize) /\ output[s].written \in Seq(ChunkSize)
    /\ told \in [HSession -> [dirty: BOOLEAN, publisher: BOOLEAN, upTo: 0..MaxChunks, failed: BOOLEAN]]

NotRunning == [in |-> FALSE, exited |-> FALSE, reason |-> "", reaped |-> FALSE, doneClosed |-> FALSE, killer |-> FALSE, listed |-> FALSE, refused |-> FALSE]

HarnessInit ==
    /\ serving = "up"
    /\ hrow = [s \in HSession |-> [state |-> "none", event |-> "none"]]
    /\ create = [s \in HSession |-> "new"] /\ proc = [s \in HSession |-> "none"]
    /\ runs = [s \in HSession |-> NotRunning]
    /\ output = [s \in HSession |-> [kept |-> <<>>, written |-> <<>>]]
    /\ told = [s \in HSession |-> [dirty |-> FALSE, publisher |-> FALSE, upTo |-> 0, failed |-> FALSE]]

InFlight == {s \in HSession: create[s] \in {"slot", "row", "started", "marked"}}

\* publishTx in the transaction that writes the row.
RowIs(s, state) == [hrow EXCEPT ![s] = [state |-> state, event |-> state]]
------------------------------------------------------------------------------
(* Create.                                                                 *)

\* mutant: calls that are still starting do not count against the capacity
RoomOfRunning == Cardinality({s \in HSession: runs[s].in}) < HarnessSlots

Room == Cardinality({s \in HSession: runs[s].in}) + Cardinality(InFlight) < HarnessSlots

\* Profile, title, instruction and workspace are checked, then the slot under the lock.
CreateSession(s) ==
    /\ create[s] = "new" /\ serving = "up"
    /\ \/ Room /\ create' = [create EXCEPT ![s] = "slot"]
       \/ create' = [create EXCEPT ![s] = "done"]       \* invalid, ErrCapacity, ErrUnavailable
    /\ UNCHANGED <<serving, hrow, proc, runs, output, told>>

\* insertStarting.
InsertStarting(s) ==
    /\ create[s] = "slot"
    /\ \/ create' = [create EXCEPT ![s] = "row"] /\ hrow' = RowIs(s, "starting")
       \/ create' = [create EXCEPT ![s] = "done"] /\ UNCHANGED hrow
    /\ UNCHANGED <<serving, proc, runs, output, told>>

\* Runner.Start; a failure is written with the caller's context, which may be over.
StartProcess(s) ==
    /\ create[s] = "row"
    /\ \/ create' = [create EXCEPT ![s] = "started"] /\ proc' = [proc EXCEPT ![s] = "alive"] /\ UNCHANGED hrow
       \/ /\ create' = [create EXCEPT ![s] = "done"] /\ UNCHANGED proc
          /\ hrow' \in {hrow, RowIs(s, "failed")}
    /\ UNCHANGED <<serving, runs, output, told>>

\* markStarted; when that fails the process is killed and waited for.
MarkStarted(s) ==
    /\ create[s] = "started"
    /\ \/ create' = [create EXCEPT ![s] = "marked"] /\ hrow' = RowIs(s, "running") /\ UNCHANGED proc
       \/ create' = [create EXCEPT ![s] = "done"] /\ hrow' = RowIs(s, "failed") /\ proc' = [proc EXCEPT ![s] = "dead"]
    /\ UNCHANGED <<serving, runs, output, told>>

\* mutant: a Close in between is not noticed
OpenStill == TRUE

\* The closed flag, looked at again under the lock.
StillServing == serving = "up"

\* Under the lock the run is entered and its goroutines started, unless Close came first.
EnterRunning(s) ==
    /\ create[s] = "marked"
    /\ create' = [create EXCEPT ![s] = "done"]
    /\ IF StillServing
       THEN /\ runs' = [runs EXCEPT ![s].in = TRUE] /\ told' = [told EXCEPT ![s].publisher = TRUE]
            /\ UNCHANGED <<hrow, proc>>
       ELSE /\ hrow' = RowIs(s, "interrupted") /\ proc' = [proc EXCEPT ![s] = "dead"] /\ UNCHANGED <<runs, told>>
    /\ UNCHANGED <<serving, output>>
------------------------------------------------------------------------------
(* Output.                                                                 *)

Total(c) == LET sum[i \in 0..Len(c)] == IF i = 0 THEN 0 ELSE sum[i - 1] + c[i] IN sum[Len(c)]

\* mutant: chunks are dropped from the new end
TrimmedNewest(c) ==
    LET n == CHOOSE i \in 0..Len(c): /\ Total(SubSeq(c, 1, i)) <= OutputLimit
                                     /\ i < Len(c) => Total(SubSeq(c, 1, i + 1)) > OutputLimit IN SubSeq(c, 1, n)

\* appendOutput deletes every chunk that, with the ones after it, exceeds the limit.
Trimmed(c) ==
    LET n == CHOOSE i \in 1..(Len(c) + 1): /\ Total(SubSeq(c, i, Len(c))) <= OutputLimit
                                           /\ i > 1 => Total(SubSeq(c, i - 1, Len(c))) > OutputLimit
    IN SubSeq(c, n, Len(c))

\* outputWriter.Write and flush: complete runes are persisted and the run marked dirty, what
\* is incomplete at the end between Wait and finish; a chunk the database refuses is lost.
\* The writer is the server's: it ends with the server, whatever the process does.
WriteOutput(s, n) ==
    /\ \/ s \in InFlight /\ proc[s] = "alive"
       \/ runs[s].in /\ ~runs[s].doneClosed
    /\ Len(output[s].written) < MaxChunks
    /\ output' = [output EXCEPT ![s].written = Append(@, n), ![s].kept = Trimmed(Append(@, n))]
    /\ told' = [told EXCEPT ![s].dirty = TRUE]
    /\ UNCHANGED <<serving, hrow, create, proc, runs>>

\* mutant: when the run is over the publisher leaves without a last look
MustPublishOnTick(s) == told[s].dirty /\ ~runs[s].doneClosed

\* publishOutput swaps the flag before it publishes; a failed publication is only logged.
MustPublish(s) == told[s].dirty

PublishOutput(s) ==
    /\ told[s].publisher /\ MustPublish(s)
    /\ told' \in {[told EXCEPT ![s].dirty = FALSE, ![s].upTo = Len(output[s].written)],
                  [told EXCEPT ![s].dirty = FALSE, ![s].failed = TRUE]}
    /\ UNCHANGED <<serving, hrow, create, proc, runs, output>>

\* The publisher's last turn comes after run.done.
PublisherEnds(s) ==
    /\ told[s].publisher /\ runs[s].doneClosed /\ ~MustPublish(s)
    /\ told' = [told EXCEPT ![s].publisher = FALSE]
    /\ UNCHANGED <<serving, hrow, create, proc, runs, output>>
------------------------------------------------------------------------------
(* Stop, Close and the end of a process.                                   *)

\* stop: under the lock the reason is set and the row written, or nothing is; an interrupt
\* that cannot be sent becomes a kill, one that was sent is followed by a timer.
StopSession(s, reason) ==
    /\ runs[s].in /\ ~runs[s].exited /\ runs[s].reason = "" /\ serving # "down"
    /\ reason = "shutdown" => runs[s].listed
    /\ \/ /\ hrow[s].state = "running" /\ hrow' = RowIs(s, "stopping")
          /\ runs' = [runs EXCEPT ![s].reason = reason, ![s].killer = TRUE]
       \/ UNCHANGED hrow /\ runs' = [runs EXCEPT ![s].listed = FALSE, ![s].refused = TRUE]  \* markStopping failed
    /\ UNCHANGED <<serving, create, proc, output, told>>

\* The timer of a stop that is not over fires, or the interrupt failed: Kill.
KillAfterTimeout(s) ==
    /\ runs[s].killer /\ ~runs[s].doneClosed
    /\ proc' = [proc EXCEPT ![s] = IF @ = "alive" THEN "dead" ELSE @]
    /\ runs' = [runs EXCEPT ![s].killer = FALSE]
    /\ UNCHANGED <<serving, hrow, create, output, told>>

\* A process ends by itself, or because of the interrupt.
ProcessExits(s) ==
    /\ proc[s] = "alive" /\ proc' = [proc EXCEPT ![s] = "dead"]
    /\ UNCHANGED <<serving, hrow, create, runs, output, told>>

\* wait: Process.Wait returns, and under the lock the run is marked and its reason read.
WaitReturns(s) ==
    /\ runs[s].in /\ proc[s] = "dead" /\ ~runs[s].exited
    /\ runs' = [runs EXCEPT ![s].exited = TRUE]
    /\ UNCHANGED <<serving, hrow, create, proc, output, told>>

\* mutant: the row of a stopped run is left to Stop
FinalRowStopped(s, code) == IF runs[s].reason # "" THEN "stopping" ELSE IF code = 0 THEN "exited" ELSE "failed"

\* stopped when anybody asked for it, else by the exit code.
FinalRow(s, code) == IF runs[s].reason # "" THEN "stopped" ELSE IF code = 0 THEN "exited" ELSE "failed"

\* finish writes the last state, or is only logged; then run.done is closed.
FinishRun(s) ==
    /\ runs[s].in /\ runs[s].exited /\ ~runs[s].doneClosed
    /\ \E code \in {0, 1}, written \in BOOLEAN:
         /\ hrow' = IF written THEN RowIs(s, FinalRow(s, code)) ELSE hrow
         /\ runs' = [runs EXCEPT ![s].doneClosed = TRUE, ![s].reaped = written]
    /\ UNCHANGED <<serving, create, proc, output, told>>

\* The run leaves the map.
LeaveRunning(s) ==
    /\ runs[s].in /\ runs[s].doneClosed
    /\ runs' = [runs EXCEPT ![s].in = FALSE, ![s].killer = FALSE]
    /\ UNCHANGED <<serving, hrow, create, proc, output, told>>

\* Close refuses new sessions and lists the running ones, which it stops (StopSession,
\* "shutdown") before it waits for every goroutine.
CloseHarness ==
    /\ serving = "up" /\ serving' = "closing"
    /\ runs' = [s \in HSession |-> [runs[s] EXCEPT !.listed = runs[s].in]]
    /\ UNCHANGED <<hrow, create, proc, output, told>>

\* Close's wait is over, or its context is: the process ends.  A crash ends it at any time.
ServerEnds ==
    /\ serving # "down" /\ serving' = "down"
    /\ create' = [s \in HSession |-> IF s \in InFlight THEN "done" ELSE create[s]]
    /\ runs' = [s \in HSession |-> [runs[s] EXCEPT !.in = FALSE, !.killer = FALSE, !.listed = FALSE]]
    /\ told' = [s \in HSession |-> [told[s] EXCEPT !.publisher = FALSE, !.dirty = FALSE, !.failed = @ \/ told[s].publisher]]
    /\ UNCHANGED <<hrow, proc, output>>

\* New: recoverInterrupted marks every row that no process of this server owns.
RecoverInterrupted ==
    /\ serving = "down" /\ serving' = "up"
    /\ hrow' = [s \in HSession |-> IF hrow[s].state \in LiveState
                                   THEN [state |-> "interrupted", event |-> "interrupted"] ELSE hrow[s]]
    /\ UNCHANGED <<create, proc, runs, output, told>>
------------------------------------------------------------------------------
CreateSteps(s) == InsertStarting(s) \/ StartProcess(s) \/ MarkStarted(s) \/ EnterRunning(s)
WaitSteps(s) == WaitReturns(s) \/ FinishRun(s) \/ LeaveRunning(s)

HarnessNext ==
    \/ \E s \in HSession:
         \/ CreateSession(s) \/ CreateSteps(s) \/ WaitSteps(s)
         \/ PublishOutput(s) \/ PublisherEnds(s) \/ KillAfterTimeout(s) \/ ProcessExits(s)
         \/ \E n \in ChunkSize: WriteOutput(s, n)
         \/ \E reason \in {"user", "shutdown"}: StopSession(s, reason)
    \/ CloseHarness \/ ServerEnds \/ RecoverInterrupted

\* Goroutines of a live server run on, the timer fires; processes need not end by themselves.
HarnessFairness ==
    \A s \in HSession:
      /\ WF_harnessVars(CreateSteps(s)) /\ WF_harnessVars(WaitSteps(s))
      /\ WF_harnessVars(KillAfterTimeout(s)) /\ WF_harnessVars(StopSession(s, "shutdown"))
      /\ WF_harnessVars(PublishOutput(s)) /\ WF_harnessVars(PublisherEnds(s))

HarnessSpec == HarnessInit /\ [][HarnessNext]_harnessVars /\ HarnessFairness
------------------------------------------------------------------------------
\* The row tells the truth about the process: no more processes live than there are slots
\* and, while the server is up, every live process is one that Create is launching or a
\* waiter holds; a row in a final state has no live process; every change of the row is on
\* the log; and once a run is over its output has been announced up to the last chunk
\* (harness.go, Create, wait, outputEvents; store.go).
HarnessSafe ==
    /\ serving # "down" => Cardinality({s \in HSession: proc[s] = "alive" /\ (runs[s].in \/ s \in InFlight)}) <= HarnessSlots
    /\ \A s \in HSession:
         /\ hrow[s].state = hrow[s].event
         /\ hrow[s].state \in FinalState /\ runs[s].reaped => proc[s] = "dead"
         /\ runs[s].in /\ ~runs[s].exited => hrow[s].state \in {"running", "stopping"}
         /\ runs[s].doneClosed /\ ~told[s].publisher /\ ~told[s].failed => told[s].upTo = Len(output[s].written)

\* What is kept of the output is its newest part, within the limit (store.go, appendOutput).
NewestOutputKept ==
    \A s \in HSession:
      LET w == output[s].written  k == output[s].kept IN
      /\ Total(k) <= OutputLimit
      /\ k = SubSeq(w, Len(w) - Len(k) + 1, Len(w))
      /\ Len(w) > 0 => Len(k) > 0

\* A stop that was accepted ends the session whatever its process does, unless the server
\* ends first or the database refuses a row; and so does Close, for the sessions that run
\* and for the ones that are being launched (harness.go, stop, wait, Close).
StopEndsSession ==
    \A s \in HSession:
      LET over == serving = "down" \/ (runs[s].doneClosed /\ ~runs[s].reaped) IN
      /\ (hrow[s].state = "stopping") ~> (hrow[s].state \in FinalState \/ over)
      /\ (serving = "closing" /\ (runs[s].listed \/ s \in InFlight)) ~>
           (proc[s] # "alive" \/ serving = "down" \/ (runs[s].in /\ ~runs[s].listed /\ runs[s].refused))

\* Rows, processes and output agree.
SessionsSafe == HarnessTypeOK /\ HarnessSafe /\ NewestOutputKept
==============================================================================
