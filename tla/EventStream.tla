---------------------------- MODULE EventStream -----------------------------
(***************************************************************************)
(* The one event stream of the web client and a screen it keeps current:   *)
(* internal/core/web (stream.go, handlers_shell.go, the snapshot handlers) *)
(* and web/src (ui/stream.ts, ui/hooks.ts, shell/session.tsx).             *)
(*                                                                         *)
(* The client loads a bootstrap, opens the stream after its boundary, and  *)
(* loads screens while the stream runs.  A snapshot handler reads its data *)
(* and the tail of the log one after the other.  Every state change writes *)
(* its event in the same transaction, so the state a screen shows is the   *)
(* set of events it reflects.                                              *)
(***************************************************************************)
EXTENDS Integers, Sequences, FiniteSetsExt

CONSTANTS
    StreamBatch,   \* streamBatch: how many events one read sends
    WireBound,     \* bound: how many messages are under way before the server blocks
    MaxStreamEvents, \* bound: how many events are committed
    MaxRetentions, \* bound: how often retention deletes something
    MaxBreaks,     \* bound: how often the connection breaks
    MaxLoads       \* bound: how often the screen is opened by the user

ASSUME StreamAssumption ==
    /\ {StreamBatch, WireBound} \subseteq Nat \ {0}
    /\ {MaxStreamEvents, MaxRetentions, MaxBreaks, MaxLoads} \subseteq Nat

Reset == 0   \* the reset message; events are sent under their ids

VARIABLES
    newest,    \* the last id given out
    stored,    \* the ids in core_events
    boundary,  \* oldest_retained_id
    conn,      \* the handler of the connection: its step and its position
    wire,      \* messages written and not yet received
    session,   \* the shell: what it is doing and the boundary it loaded
    client,    \* the EventStream object: where it started, its high-water mark, paused
    received,  \* events delivered to listeners since the stream was started
    screen,    \* useSnapshot
    times

streamVars == <<newest, stored, boundary, conn, wire, session, client, received, screen, times>>
storedVars == <<newest, stored, boundary>>
clientVars == <<session, client, received, screen>>

(* asked: the request is sent; data: the handler has read its data;         *)
(* answered: and the tail; reload: a refetch is due.                        *)
Phases == {"closed", "asked", "data", "answered", "ready", "reload"}
Loading == {"asked", "data", "answered"}

Ids == 1..MaxStreamEvents

StreamTypeOK ==
    /\ newest \in 0..MaxStreamEvents
    /\ stored \subseteq 1..newest
    /\ boundary \in 1..(MaxStreamEvents + 1)
    /\ conn \in [pc : {"none", "opening", "loop"}, after : 0..MaxStreamEvents]
    /\ wire \in Seq(0..MaxStreamEvents)
    /\ session \in [phase : {"boot", "booted", "open"}, asOf : 0..MaxStreamEvents,
                    oldest : 1..(MaxStreamEvents + 1), resetting : BOOLEAN]
    /\ client \in [start : 0..MaxStreamEvents, lastId : 0..MaxStreamEvents, paused : BOOLEAN]
    /\ received \subseteq Ids
    /\ screen \in [phase : Phases, data : SUBSET Ids, asOf : 0..MaxStreamEvents, buf : SUBSET Ids]
    /\ times \in [{"retentions", "breaks", "loads"} -> Nat]

NoConn == [pc |-> "none", after |-> 0]

StreamInit ==
    /\ newest = 0
    /\ stored = {}
    /\ boundary = 1
    /\ conn = NoConn
    /\ wire = <<>>
    /\ session = [phase |-> "boot", asOf |-> 0, oldest |-> 1, resetting |-> FALSE]
    /\ client = [start |-> 0, lastId |-> 0, paused |-> FALSE]
    /\ received = {}
    /\ screen = [phase |-> "closed", data |-> {}, asOf |-> 0, buf |-> {}]
    /\ times = [k \in {"retentions", "breaks", "loads"} |-> 0]

Counted(k, bound) == times[k] < bound /\ times' = [times EXCEPT ![k] = @ + 1]

-----------------------------------------------------------------------------
(* The log, as EventLog describes it. *)

Commit ==
    /\ newest < MaxStreamEvents
    /\ newest' = newest + 1
    /\ stored' = stored \cup {newest + 1}
    /\ UNCHANGED <<boundary, conn, wire, clientVars, times>>

Retain(through) ==
    /\ Counted("retentions", MaxRetentions)
    /\ stored' = {e \in stored : e > through}
    /\ boundary' = through + 1
    /\ UNCHANGED <<newest, conn, wire, clientVars>>

(* coalesce(max(id), 0) *)
NewestId == Max(stored \cup {0})

-----------------------------------------------------------------------------
(* The shell. *)

(* handleShellBootstrap: the tail and the boundary in one transaction. *)
Bootstrap ==
    /\ session.phase = "boot"
    /\ session' = [session EXCEPT !.phase = "booted", !.asOf = NewestId, !.oldest = boundary]
    /\ UNCHANGED <<storedVars, conn, wire, client, received, screen, times>>

StartedPaused == [start |-> session.asOf, lastId |-> session.asOf, paused |-> client.paused]
                 \* mutant: a reset stays in force

Started == [start |-> session.asOf, lastId |-> session.asOf, paused |-> FALSE]

(* stream.start closes the old connection and opens one after the boundary; *)
(* after a reset every mounted snapshot reloads.                            *)
StartStream ==
    /\ session.phase = "booted"
    /\ session' = [session EXCEPT !.phase = "open", !.resetting = FALSE]
    /\ client' = Started
    /\ received' = {}
    /\ conn' = [pc |-> "opening", after |-> session.asOf]
    /\ wire' = <<>>
    /\ screen' = IF session.resetting /\ screen.phase # "closed"
                   THEN [screen EXCEPT !.phase = "reload"] ELSE screen
    /\ UNCHANGED <<storedVars, times>>

-----------------------------------------------------------------------------
(* The connection. *)

ResetPointOff == boundary  \* mutant: off by one

(* Where the connection goes on after a reset. *)
ResetPoint == boundary - 1

(* A resume point below the boundary gets a reset. *)
OpenStream ==
    /\ conn.pc = "opening"
    /\ IF conn.after + 1 < boundary
         THEN /\ wire' = Append(wire, Reset)
              /\ conn' = [pc |-> "loop", after |-> ResetPoint]
         ELSE /\ wire' = wire
              /\ conn' = [conn EXCEPT !.pc = "loop"]
    /\ UNCHANGED <<storedVars, clientVars, times>>

(* The rows above id. *)
Above(id) == {e \in stored : e > id}

(* So many of them, and no fewer unless there are no more. *)
Rows(id) == {b \in UNION {[1..n -> Above(id)] : n \in 1..StreamBatch} :
               Len(b) = StreamBatch \/ \A e \in Above(id) : \E i \in DOMAIN b : b[i] = e}

QueryUnordered(id) ==  \* mutant: no ORDER BY
    {b \in Rows(id) : \A i, j \in DOMAIN b : i # j => b[i] # b[j]}

(* The next events above id, in order: none before its last is left out. *)
Query(id) ==
    {b \in Rows(id) :
       /\ \A i, j \in DOMAIN b : i < j => b[i] < b[j]
       /\ \A e \in Above(id) : e <= b[Len(b)] => \E i \in DOMAIN b : b[i] = e}

SendBatch ==
    /\ conn.pc = "loop"
    /\ Len(wire) < WireBound
    /\ \E batch \in Query(conn.after) :
         /\ wire' = wire \o batch
         /\ conn' = [conn EXCEPT !.after = batch[Len(batch)]]
    /\ UNCHANGED <<storedVars, clientVars, times>>

(* A slow or lost connection is closed; what was under way is gone. *)
Break ==
    /\ conn.pc # "none"
    /\ Counted("breaks", MaxBreaks)
    /\ conn' = NoConn
    /\ wire' = <<>>
    /\ UNCHANGED <<storedVars, clientVars>>

ResumeAtBoundary == session.asOf  \* mutant: the URL's boundary

(* The browser resumes after the last event it received. *)
ResumePoint == client.lastId

Reconnect ==
    /\ session.phase = "open"
    /\ conn.pc = "none"
    /\ ~ client.paused
    /\ conn' = [pc |-> "opening", after |-> ResumePoint]
    /\ UNCHANGED <<storedVars, wire, clientVars, times>>

-----------------------------------------------------------------------------
(* The client. *)

(* What an event does to a mounted screen: it is buffered while a request   *)
(* is under way; otherwise the screen's reducer folds it in, and where      *)
(* there is none, or it cannot fold this event, the screen is refetched.    *)
Notified(e, folds) ==
    IF screen.phase \in Loading THEN [screen EXCEPT !.buf = @ \cup {e}]
    ELSE IF screen.phase = "ready" /\ e > screen.asOf
      THEN IF folds THEN [screen EXCEPT !.data = @ \cup {e}] ELSE [screen EXCEPT !.phase = "reload"]
    ELSE screen

Receive ==
    /\ wire # <<>>
    /\ wire' = Tail(wire)
    /\ LET m == Head(wire)
       IN  \/ /\ m = Reset
              /\ client' = [client EXCEPT !.paused = TRUE]
              /\ session' = [session EXCEPT !.phase = "boot", !.resetting = TRUE]
              /\ UNCHANGED <<received, screen>>
           \/ /\ m # Reset /\ ~ client.paused /\ m > client.lastId
              /\ client' = [client EXCEPT !.lastId = m]
              /\ received' = received \cup {m}
              /\ \E folds \in BOOLEAN : screen' = Notified(m, folds)
              /\ session' = session
           \/ /\ m # Reset /\ (client.paused \/ m <= client.lastId)
              /\ UNCHANGED clientVars
    /\ UNCHANGED <<storedVars, conn, times>>

(* The user opens the screen, or opens it anew with another filter. *)
Load ==
    /\ session.phase = "open"
    /\ Counted("loads", MaxLoads)
    /\ screen' = [screen EXCEPT !.phase = "reload"]
    /\ UNCHANGED <<storedVars, conn, wire, session, client, received>>

(* The buffer is opened before the request is sent. *)
Ask ==
    /\ screen.phase = "reload"
    /\ screen' = [screen EXCEPT !.phase = "asked", !.buf = {}]
    /\ UNCHANGED <<storedVars, conn, wire, session, client, received, times>>

(* The handler reads the state ... *)
ServeData ==
    /\ screen.phase = "asked"
    /\ screen' = [screen EXCEPT !.phase = "data", !.data = 1..newest]
    /\ UNCHANGED <<storedVars, conn, wire, session, client, received, times>>

(* ... and then, in a transaction of its own, the tail. *)
ServeTail ==
    /\ screen.phase = "data"
    /\ screen' = [screen EXCEPT !.phase = "answered", !.asOf = NewestId]
    /\ UNCHANGED <<storedVars, conn, wire, session, client, received, times>>

PendingNone == {}  \* mutant: what arrived meanwhile is dropped

(* Only what the snapshot does not reflect, by its boundary. *)
Pending == {e \in screen.buf : e > screen.asOf}

Install ==
    /\ screen.phase = "answered"
    /\ \/ screen' = [screen EXCEPT !.phase = "ready", !.data = @ \cup Pending, !.buf = {}]
       \/ Pending # {} /\ screen' = [screen EXCEPT !.phase = "reload"]
    /\ UNCHANGED <<storedVars, conn, wire, session, client, received, times>>

-----------------------------------------------------------------------------

StreamNext ==
    \/ Commit
    \/ \E e \in stored : Retain(e)
    \/ Bootstrap
    \/ StartStream
    \/ OpenStream
    \/ SendBatch
    \/ Break
    \/ Reconnect
    \/ Receive
    \/ Load
    \/ Ask
    \/ ServeData
    \/ ServeTail
    \/ Install

StreamSpec == StreamInit /\ [][StreamNext]_streamVars

(* The server and the browser keep running. *)
StreamFairSpec ==
    /\ StreamSpec
    /\ WF_streamVars(Bootstrap) /\ WF_streamVars(StartStream) /\ WF_streamVars(OpenStream)
    /\ WF_streamVars(SendBatch) /\ WF_streamVars(Reconnect) /\ WF_streamVars(Receive)
    /\ WF_streamVars(Ask) /\ WF_streamVars(ServeData) /\ WF_streamVars(ServeTail) /\ WF_streamVars(Install)

-----------------------------------------------------------------------------
(* Properties. *)

(* Breaks, batches and duplicates lose nothing: whatever lies between the   *)
(* boundary and the high-water mark was delivered, or retention removed it. *)
NothingSkipped ==
    \A e \in (client.start + 1)..client.lastId : e \in received \/ e \notin stored

(* An event above the boundary of the snapshot on the screen that reached   *)
(* the client is on the screen, however request and stream interleaved.     *)
ScreenCovers ==
    screen.phase = "ready" /\ session.phase = "open" =>
        \A e \in received : e > screen.asOf => e \in screen.data

(* The stream and the screen together lose nothing that was delivered.       *)
StreamSafe == StreamTypeOK /\ NothingSkipped /\ ScreenCovers

(* The client catches up with the log, through breaks and resets. *)
StreamCatchesUp ==
    \A e \in Ids : e \in stored ~> (client.lastId >= e \/ e \notin stored)

-----------------------------------------------------------------------------
(* What the documentation and comments say, and the code does not do.       *)

(* docs/modules/events.md: "a client behind that boundary receives a reset  *)
(* rather than a partial replay."                                           *)
ReplayIsWhole ==
    \A e \in (client.start + 1)..client.lastId : e \in received

(* api.go: "writeSnapshot emits {data, asOfEventId} with the event-log tail *)
(* read in the same transaction that produced data."  What the boundary     *)
(* covers is in the data.                                                   *)
SnapshotCoversBoundary ==
    screen.phase \in {"answered", "ready"} => 1..screen.asOf \subseteq screen.data

(* handlers_shell.go: "eventBoundary reads the log tail and the retention   *)
(* boundary in one transaction, so the snapshot and the stream position a   *)
(* client opens after it cannot disagree."                                  *)
BoundariesAgree == session.asOf + 1 >= session.oldest
=============================================================================
