--------------------------- MODULE EventLogProofs ---------------------------
(***************************************************************************)
(* Proofs about the event log and its durable subscribers (EventLog), the  *)
(* stream to the browser (EventStream) and the patterns both select events *)
(* by (EventPattern): what is proved holds for every number of processes,  *)
(* subscribers and events and for patterns and types of every length.      *)
(***************************************************************************)
EXTENDS EventLog, EventStream, EventPattern, FiniteSetTheorems, SequenceTheorems, WellFoundedInduction, TLAPS

(***************************************************************************)
(* The least and the greatest element of a set of ids.                     *)
(***************************************************************************)

(* A set of numbers that is not empty has a least element, the one Min chooses. *)
LEMMA MinFacts ==
    ASSUME NEW S \in SUBSET Nat, S # {}
    PROVE  Min(S) \in S /\ \A y \in S : Min(S) <= y
<1>1. PICK x \in S : \A y \in S : ~ (<<y, x>> \in OpToRel(<, Nat))
  BY NatLessThanWellFounded, WFMin
<1>2. \A y \in S : ~ (y < x)
  BY <1>1 DEF OpToRel
<1>3. \E z \in S : \A y \in S : z =< y
  BY <1>2
<1>4. QED
  BY <1>3 DEF Min

(* A bounded set of numbers that is not empty has a greatest element. *)
LEMMA MaxFacts ==
    ASSUME NEW S \in SUBSET Nat, S # {}, NEW n \in Nat, \A s \in S : s <= n
    PROVE  Max(S) \in S /\ \A y \in S : Max(S) >= y
<1> DEFINE T == {n - s : s \in S}
<1>1. T \in SUBSET Nat /\ T # {}
  OBVIOUS
<1>2. Min(T) \in T /\ \A y \in T : Min(T) <= y
  <2> HIDE DEF T
  <2> QED BY <1>1, MinFacts
<1>3. PICK x \in S : Min(T) = n - x
  BY <1>2
<1>4. \A y \in S : x >= y
  <2> SUFFICES ASSUME NEW y \in S PROVE x >= y
    OBVIOUS
  <2>1. n - y \in T
    OBVIOUS
  <2>2. n - x <= n - y
    BY <1>2, <1>3, <2>1
  <2> QED BY <2>2
<1>5. QED
  BY <1>4 DEF Max

-----------------------------------------------------------------------------
(***************************************************************************)
(* Types.                                                                  *)
(***************************************************************************)

(* A cursor is a record of the fields its type names. *)
LEMMA CursorFields ==
    ASSUME NEW c \in Cursor
    PROVE  /\ c.state \in {"absent", "active", "paused"}
           /\ c.pos \in Nat /\ c.failed \in Nat /\ c.tries \in Nat
           /\ c.waiting \in BOOLEAN /\ c.live \in BOOLEAN
           /\ c.owner \in Procs \cup {NoProc, Gone}
  BY DEF Cursor

LEMMA AbsentType == Absent \in Cursor /\ Absent.state = "absent" /\ Absent.pos = 0
  BY DEF Absent, Cursor

(* A dispatch loop is a record of the fields its type names. *)
LEMMA LoopFields ==
    ASSUME EventsTypeOK, NEW p \in Procs, NEW s \in Subs
    PROVE  /\ disp[p][s] \in [pc : Pcs, to : Nat]
           /\ disp[p][s].pc \in Pcs /\ disp[p][s].to \in Nat
  BY DEF EventsTypeOK

(* Only the loop of a process and a subscriber moves, and it moves there. *)
LEMMA GoToEffect ==
    ASSUME EventsTypeOK, NEW p \in Procs, NEW s \in Subs, NEW pc \in Pcs, NEW to \in Nat,
           GoTo(p, s, pc, to)
    PROVE  /\ disp' \in [Procs -> [Subs -> [pc : Pcs, to : Nat]]]
           /\ \A q \in Procs, r \in Subs :
                disp'[q][r] = IF q = p /\ r = s THEN [pc |-> pc, to |-> to] ELSE disp[q][r]
  BY DEF GoTo, EventsTypeOK

(* Ids are counted from one and none was given out above the tail. *)
LEMMA LogFields ==
    EventsTypeOK => /\ tail \in Nat /\ oldest \in Nat /\ oldest # 0
                    /\ \A e \in retained : e \in Nat /\ e # 0 /\ e <= tail
  BY DEF EventsTypeOK

(* The highest id in the table is one that was given out. *)
LEMMA MaxIdType == EventsTypeOK => MaxId \in 0..tail
<1> SUFFICES ASSUME EventsTypeOK PROVE MaxId \in 0..tail
  OBVIOUS
<1> DEFINE S == retained \cup {0}
<1>1. S \in SUBSET Nat /\ S # {} /\ \A x \in S : x <= tail
  BY LogFields
<1>2. tail \in Nat
  BY LogFields
<1>3. Max(S) \in S
  <2> HIDE DEF S
  <2> QED BY <1>1, <1>2, MaxFacts
<1>4. QED
  BY <1>1, <1>2, <1>3 DEF MaxId

(* A cursor is placed at the beginning, at the end or at a row. *)
LEMMA StartType == EventsTypeOK => CursorStarts \subseteq 0..tail
  BY MaxIdType, LogFields DEF CursorStarts

(* The boundary never goes back and ends above every row that goes. *)
LEMMA BoundaryFacts ==
    ASSUME EventsTypeOK, NEW D \in SUBSET retained
    PROVE  /\ Boundary(D) \in Nat \ {0}
           /\ Boundary(D) >= oldest
           /\ \A e \in D : Boundary(D) > e
<1> DEFINE S == {oldest} \cup {e + 1 : e \in D}
<1>1. /\ S \in SUBSET Nat /\ S # {} /\ oldest + tail + 1 \in Nat
      /\ \A x \in S : x <= oldest + tail + 1 /\ x # 0
  BY LogFields
<1>2. Max(S) \in S /\ \A y \in S : Max(S) >= y
  <2> HIDE DEF S
  <2> QED BY <1>1, MaxFacts
<1>3. oldest \in S /\ \A e \in D : e + 1 \in S /\ e \in Nat
  BY LogFields
<1>4. Boundary(D) = Max(S)
  BY DEF Boundary
<1>5. \A x \in S : x \in Nat /\ x # 0
  BY <1>1
<1> HIDE DEF S
<1>6. QED
  BY <1>2, <1>3, <1>4, <1>5

(* What a batch asks for lies above the position it was read from: the      *)
(* leading rows that do not match, or else the first row.                   *)
LEMMA BatchFacts ==
    ASSUME EventsTypeOK, NEW s \in Subs, NEW to \in Nat
    PROVE  LET B == ReadAfter(to)
               S == Skipped(s, B)
           IN  /\ B \subseteq retained /\ \A e \in B : e > to
               /\ S # {} => /\ Max(S) \in S /\ Max(S) \in B
                            /\ \A e \in S : Max(S) >= e
               /\ B # {} => Min(B) \in B /\ \A e \in B : Min(B) <= e
<1> DEFINE B == ReadAfter(to)
           S == Skipped(s, B)
<1>1. B \in SUBSET Nat /\ B \subseteq retained /\ \A e \in B : e > to /\ e <= tail
  BY LogFields DEF ReadAfter
<1>2. S \in SUBSET B
  BY DEF Skipped
<1>3. tail \in Nat
  BY LogFields
<1> HIDE DEF B, S
<1>4. S # {} => Max(S) \in S /\ \A e \in S : Max(S) >= e
  BY <1>1, <1>2, <1>3, MaxFacts
<1>5. B # {} => Min(B) \in B /\ \A e \in B : Min(B) <= e
  BY <1>1, MinFacts
<1>6. QED
  BY <1>1, <1>2, <1>4, <1>5 DEF B, S

(* Inserting a row gives out the next id; every other id stays what it was. *)
LEMMA InsertFacts ==
    ASSUME EventsTypeOK, NEW t \in Types, Insert(t)
    PROVE  /\ tail' = tail + 1 /\ tail' \in Nat
           /\ type' \in [1..tail' -> Types]
           /\ \A e \in 1..tail : type'[e] = type[e]
           /\ retained' = retained \cup {tail + 1} /\ retained' \subseteq 1..tail'
           /\ oldest' = oldest
<1>1. tail \in Nat /\ retained \subseteq 1..tail /\ type \in [1..tail -> Types]
  BY DEF EventsTypeOK
<1>2. \A e \in 1..(tail + 1) : e # tail + 1 => e \in 1..tail
  BY <1>1
<1>3. QED
  BY <1>1, <1>2 DEF Insert

(* What is owed after an insertion: the new row, to some, besides the old.  *)
LEMMA OweFacts ==
    ASSUME EventsTypeOK, NEW t \in Types, Insert(t), owed' = OweTo(t, owed)
    PROVE  /\ owed' \in [Subs -> SUBSET (1..tail')]
           /\ txApplied \in [Subs -> SUBSET (1..tail')]
           /\ \A s \in Subs : \/ owed'[s] = owed[s]
                              \/ /\ owed'[s] = owed[s] \cup {tail + 1}
                                 /\ CursorExists(s) /\ t \in Matching[s]
<1>1. tail \in Nat /\ owed \in [Subs -> SUBSET (1..tail)]
         /\ txApplied \in [Subs -> SUBSET (1..tail)] /\ tail' = tail + 1
  BY InsertFacts DEF EventsTypeOK
<1>2. 1..tail \subseteq 1..tail' /\ tail + 1 \in 1..tail'
  BY <1>1
<1>3. QED
  BY <1>1, <1>2 DEF OweTo

(* A placed cursor owes rows only. *)
LEMMA PlaceFacts ==
    ASSUME EventsTypeOK, NEW s \in Subs, NEW to, Place(s, to)
    PROVE  /\ owed' \in [Subs -> SUBSET (1..tail)]
           /\ txApplied' \in [Subs -> SUBSET (1..tail)]
           /\ twice' \subseteq Subs
  BY DEF Place, Beyond, EventsTypeOK

(* What a step may do to the cursors, and to the loops and counters: both    *)
(* keep their types.                                                         *)
LEMMA AdvancedType ==
    ASSUME EventsTypeOK, NEW s \in Subs, NEW to \in Nat
    PROVE  Advanced(s, to) \in [Subs -> Cursor]
<1>1. cur \in [Subs -> Cursor] /\ cur[s] \in Cursor
  BY DEF EventsTypeOK
<1>2. [cur[s] EXCEPT !.pos = to, !.tries = 0, !.waiting = FALSE] \in Cursor
  BY <1>1 DEF Cursor
<1>3. QED
  BY <1>1, <1>2 DEF Advanced

LEMMA TickType ==
    ASSUME EventsTypeOK, NEW k \in Kinds, NEW bound, Tick(k, bound)
    PROVE  count' \in [Kinds -> Nat]
  BY DEF Tick, EventsTypeOK

(* The values a loop and a counter may have, as members of their sets. *)
LEMMA Names ==
    /\ "off" \in Pcs /\ "idle" \in Pcs /\ "leased" \in Pcs /\ "read" \in Pcs /\ "skip" \in Pcs
    /\ "handle" \in Pcs /\ "handled" \in Pcs /\ "failed" \in Pcs
    /\ "events" \in Kinds /\ "crashes" \in Kinds /\ "closings" \in Kinds
    /\ "resets" \in Kinds /\ "resumes" \in Kinds
  BY DEF Pcs, Kinds

LEMMA EventsTypeInit == EventsInit => EventsTypeOK
<1> SUFFICES ASSUME EventsInit PROVE EventsTypeOK
  OBVIOUS
<1>1. cur \in [Subs -> Cursor]
  BY AbsentType DEF EventsInit
<1>2. disp \in [Procs -> [Subs -> [pc : Pcs, to : Nat]]]
  BY Names DEF EventsInit, Off
<1>3. type \in [1..tail -> Types]
  BY DEF EventsInit
<1>4. QED
  BY <1>1, <1>2, <1>3 DEF EventsInit, EventsTypeOK

(* A handler is called with a row that was committed. *)
AtRow == \A p \in Procs, s \in Subs : disp[p][s].pc = "handle" => disp[p][s].to \in 1..tail

(* Every step of the loop keeps the types. *)
LEMMA DispatchType ==
    ASSUME EventsTypeOK, AtRow, NEW p \in Procs, NEW s \in Subs, Dispatch(p, s) \/ StorageError(p, s)
    PROVE  EventsTypeOK'
<1> DEFINE to == disp[p][s].to
<1>0. to \in Nat /\ disp[p][s].pc \in Pcs
  BY LoopFields
<1>1. CASE AcquireLease(p, s)
  <2>1. disp' \in [Procs -> [Subs -> [pc : Pcs, to : Nat]]]
    BY <1>1, GoToEffect, Names DEF AcquireLease
  <2>2. cur' \in [Subs -> Cursor]
    <3>1. cur \in [Subs -> Cursor] /\ cur[s] \in Cursor
      BY DEF EventsTypeOK
    <3>2. [cur[s] EXCEPT !.owner = p, !.live = TRUE] \in Cursor
      BY <3>1 DEF Cursor
    <3>3. QED
      BY <1>1, <3>1, <3>2 DEF AcquireLease
  <2>3. QED
    BY <1>1, <2>1, <2>2 DEF AcquireLease, EventsTypeOK, logVars, history
<1>2. CASE ReadCursor(p, s)
  <2>1. cur[s].pos \in Nat
    BY CursorFields DEF EventsTypeOK
  <2>2. disp' \in [Procs -> [Subs -> [pc : Pcs, to : Nat]]]
    BY <1>2, <2>1, GoToEffect, Names DEF ReadCursor
  <2>3. QED
    BY <1>2, <2>2 DEF ReadCursor, EventsTypeOK, logVars, history
<1>3. CASE ReadBatch(p, s)
  <2> DEFINE B == ReadAfter(to)
             S == Skipped(s, B)
  <2>1. /\ S # {} => Max(S) \in Nat
        /\ B # {} => Min(B) \in Nat
    BY <1>0, BatchFacts, LogFields
  <2>2. \/ GoTo(p, s, "idle", 0)
        \/ S # {} /\ GoTo(p, s, "skip", Max(S))
        \/ B # {} /\ GoTo(p, s, "handle", Min(B))
    BY <1>3 DEF ReadBatch
  <2> HIDE DEF B, S
  <2>3. disp' \in [Procs -> [Subs -> [pc : Pcs, to : Nat]]]
    BY <2>1, <2>2, GoToEffect, Names
  <2>4. QED
    BY <1>3, <2>3 DEF ReadBatch, EventsTypeOK, logVars, history
<1>4. CASE SkipRun(p, s) \/ Advance(p, s)
  <2>1. cur' \in [Subs -> Cursor]
    BY <1>0, <1>4, AdvancedType DEF SkipRun, Advance
  <2>2. disp' \in [Procs -> [Subs -> [pc : Pcs, to : Nat]]]
    BY <1>4, GoToEffect, Names DEF SkipRun, Advance
  <2>3. QED
    BY <1>4, <2>1, <2>2 DEF SkipRun, Advance, EventsTypeOK, logVars, history
<1>5. CASE DispatchTx(p, s)
  <2>1. cur' \in [Subs -> Cursor]
    BY <1>0, <1>5, AdvancedType DEF DispatchTx
  <2>2. disp' \in [Procs -> [Subs -> [pc : Pcs, to : Nat]]]
    BY <1>5, GoToEffect, Names DEF DispatchTx
  <2>3. owed' \in [Subs -> SUBSET (1..tail)]
    BY <1>5 DEF DispatchTx, Seen, EventsTypeOK
  <2>4. to \in 1..tail
    BY <1>5 DEF DispatchTx, AtRow
  <2>5. txApplied' \in [Subs -> SUBSET (1..tail)] /\ twice' \subseteq Subs
    BY <1>5, <2>4 DEF DispatchTx, EventsTypeOK
  <2>6. QED
    BY <1>5, <2>1, <2>2, <2>3, <2>5 DEF DispatchTx, EventsTypeOK, logVars
<1>6. CASE HandlerDone(p, s)
  <2>1. disp' \in [Procs -> [Subs -> [pc : Pcs, to : Nat]]]
    BY <1>0, <1>6, GoToEffect, Names DEF HandlerDone
  <2>2. owed' \in [Subs -> SUBSET (1..tail)]
    BY <1>6 DEF HandlerDone, Seen, EventsTypeOK
  <2>3. QED
    BY <1>6, <2>1, <2>2 DEF HandlerDone, EventsTypeOK, logVars
<1>7. CASE HandlerFails(p, s) \/ StorageError(p, s)
  <2>1. disp' \in [Procs -> [Subs -> [pc : Pcs, to : Nat]]]
    BY <1>0, <1>7, GoToEffect, Names DEF HandlerFails, StorageError
  <2>2. QED
    BY <1>7, <2>1 DEF HandlerFails, StorageError, EventsTypeOK, logVars, history
<1>8. CASE RecordFailure(p, s)
  <2>1. disp' \in [Procs -> [Subs -> [pc : Pcs, to : Nat]]]
    BY <1>8, GoToEffect, Names DEF RecordFailure
  <2>2. cur \in [Subs -> Cursor] /\ cur[s] \in Cursor /\ cur[s].tries \in Nat
    BY CursorFields DEF EventsTypeOK
  <2>3. CASE UNCHANGED <<logVars, cur, owed>>
    BY <1>8, <2>1, <2>3 DEF RecordFailure, EventsTypeOK, logVars
  <2>4. CASE Insert(Alert)
    <3>1. Alert \in Types
      BY EventAssumption
    <3>2. cur' \in [Subs -> Cursor]
      <4>1. \/ cur' = [cur EXCEPT ![s].state = "paused", ![s].failed = to,
                                  ![s].tries = @ + 1, ![s].waiting = FALSE]
            \/ cur' = [cur EXCEPT ![s].tries = @ + 1, ![s].waiting = TRUE]
            \/ cur' = cur
        BY <1>8 DEF RecordFailure
      <4>2. QED
        BY <1>0, <2>2, <4>1 DEF Cursor
    <3>3. owed' = OweTo(Alert, owed)
      BY <1>8, <2>4, InsertFacts, <3>1, LogFields DEF RecordFailure, logVars
    <3>4. QED
      BY <1>8, <2>1, <2>4, <3>1, <3>2, <3>3, InsertFacts, OweFacts
      DEF RecordFailure, EventsTypeOK
  <2>5. CASE /\ cur' = [cur EXCEPT ![s].tries = @ + 1, ![s].waiting = TRUE]
             /\ UNCHANGED <<logVars, owed>>
    <3> DEFINE n == cur[s].tries + 1
    <3>1. /\ n \in Nat
          /\ [cur[s] EXCEPT !.tries = n, !.waiting = TRUE] \in Cursor
      <4>1. n \in Nat
        BY <2>2
      <4>2. QED
        BY <2>2, <4>1 DEF Cursor
    <3>2. cur' = [cur EXCEPT ![s] = [cur[s] EXCEPT !.tries = n, !.waiting = TRUE]]
      BY <2>2, <2>5
    <3>3. cur' \in [Subs -> Cursor]
      <4> HIDE DEF n
      <4> QED BY <2>2, <3>1, <3>2
    <3>4. QED
      BY <1>8, <2>1, <2>5, <3>3 DEF RecordFailure, EventsTypeOK, logVars
  <2>6. QED
    BY <1>8, <2>3, <2>4, <2>5 DEF RecordFailure
<1>9. QED
  BY <1>1, <1>2, <1>3, <1>4, <1>5, <1>6, <1>7, <1>8 DEF Dispatch

(* Placing, renewing, expiring and removing a cursor keep the types. *)
LEMMA CursorType ==
    ASSUME EventsTypeOK, NEW s \in Subs, NEW to \in Nat
    PROVE  LET c == cur[s]
           IN  /\ [Absent EXCEPT !.state = "active", !.pos = to] \in Cursor
               /\ [c EXCEPT !.owner = NoProc, !.live = FALSE] \in Cursor
               /\ [c EXCEPT !.owner = Gone] \in Cursor
               /\ [c EXCEPT !.live = FALSE] \in Cursor
               /\ [c EXCEPT !.waiting = FALSE] \in Cursor
               /\ [c EXCEPT !.state = "active", !.tries = 0, !.waiting = FALSE] \in Cursor
               /\ [c EXCEPT !.state = "active", !.pos = to, !.failed = 0,
                            !.tries = 0, !.waiting = FALSE] \in Cursor
<1>1. cur[s] \in Cursor
  BY DEF EventsTypeOK
<1>2. QED
  BY <1>1, AbsentType DEF Cursor

(* So do the other steps of the log. *)
LEMMA OtherType ==
    ASSUME EventsTypeOK, EventsNext,
           \A p \in Procs, s \in Subs : ~ Dispatch(p, s) /\ ~ StorageError(p, s)
    PROVE  EventsTypeOK'
<1>0. cur \in [Subs -> Cursor] /\ \A s \in Subs : cur[s].failed \in Nat
  BY CursorFields DEF EventsTypeOK
<1>1. ASSUME NEW t \in Types, Publish(t) PROVE EventsTypeOK'
  BY <1>1, InsertFacts, OweFacts, TickType, Names DEF Publish, EventsTypeOK
<1>2. ASSUME NEW aged, RunRetention(aged) PROVE EventsTypeOK'
  <2>1. aged \cap Unpinned \in SUBSET retained
    BY DEF Unpinned
  <2>2. oldest' \in Nat \ {0}
    BY <1>2, <2>1, BoundaryFacts DEF RunRetention
  <2>3. QED
    BY <1>2, <2>2 DEF RunRetention, EventsTypeOK, history
<1>3. ASSUME NEW p \in Procs, NEW s \in Subs, NEW start \in CursorStarts, Subscribe(p, s, start)
      PROVE  EventsTypeOK'
  <2>1. disp' \in [Procs -> [Subs -> [pc : Pcs, to : Nat]]]
    BY <1>3, GoToEffect, Names DEF Subscribe
  <2>2. start \in Nat
    BY StartType, LogFields
  <2>3. cur' \in [Subs -> Cursor]
    BY <1>0, <1>3, <2>2, CursorType DEF Subscribe
  <2>4. UNCHANGED history \/ Place(s, start)
    BY <1>3 DEF Subscribe
  <2>5. /\ owed' \in [Subs -> SUBSET (1..tail)] /\ txApplied' \in [Subs -> SUBSET (1..tail)]
        /\ twice' \subseteq Subs
    BY <2>4, PlaceFacts DEF history, EventsTypeOK
  <2>6. QED
    BY <1>3, <2>1, <2>3, <2>5 DEF Subscribe, EventsTypeOK, logVars
<1>4. ASSUME NEW p \in Procs, NEW s \in Subs, CloseSub(p, s) PROVE EventsTypeOK'
  <2>1. disp' \in [Procs -> [Subs -> [pc : Pcs, to : Nat]]]
    BY <1>4, GoToEffect, Names DEF CloseSub
  <2>2. count' \in [Kinds -> Nat]
    BY <1>4, TickType, Names DEF CloseSub
  <2>3. releasing' \subseteq Procs \X Subs
    BY <1>4 DEF CloseSub, EventsTypeOK
  <2>4. QED
    BY <1>4, <2>1, <2>2, <2>3 DEF CloseSub, EventsTypeOK, logVars, history
<1>5. ASSUME NEW p \in Procs, NEW s \in Subs, ReleaseLease(p, s) PROVE EventsTypeOK'
  <2>1. cur' \in [Subs -> Cursor]
    BY <1>0, <1>5, CursorType DEF ReleaseLease
  <2>2. QED
    BY <1>5, <2>1 DEF ReleaseLease, EventsTypeOK, logVars, history
<1>6. ASSUME NEW p \in Procs, NEW s \in Subs, RemoveSubscriber(p, s) PROVE EventsTypeOK'
  <2>1. cur' \in [Subs -> Cursor]
    BY <1>0, <1>6, AbsentType DEF RemoveSubscriber
  <2>2. /\ owed' \in [Subs -> SUBSET (1..tail)] /\ txApplied' \in [Subs -> SUBSET (1..tail)]
    BY <1>6 DEF RemoveSubscriber, EventsTypeOK
  <2>3. QED
    BY <1>6, <2>1, <2>2, TickType, Names DEF RemoveSubscriber, EventsTypeOK, logVars
<1>7. ASSUME NEW p \in Procs, Crash(p) PROVE EventsTypeOK'
  <2>1. cur' \in [Subs -> Cursor]
    BY <1>0, <1>7, CursorType DEF Crash
  <2>2. disp' \in [Procs -> [Subs -> [pc : Pcs, to : Nat]]]
    BY <1>7, Names DEF Crash, Off, EventsTypeOK
  <2>3. QED
    BY <1>7, <2>1, <2>2, TickType, Names DEF Crash, EventsTypeOK, logVars, history
<1>8. ASSUME NEW s \in Subs, LeaseExpires(s) \/ RetryDue(s) \/ RetryPaused(s) PROVE EventsTypeOK'
  <2>1. cur' \in [Subs -> Cursor]
    <3>1. \/ cur' = [cur EXCEPT ![s] = [cur[s] EXCEPT !.live = FALSE]]
          \/ cur' = [cur EXCEPT ![s] = [cur[s] EXCEPT !.waiting = FALSE]]
          \/ cur' = [cur EXCEPT ![s] = [cur[s] EXCEPT !.state = "active", !.tries = 0,
                                                      !.waiting = FALSE]]
      BY <1>8 DEF LeaseExpires, RetryDue, RetryPaused
    <3>2. QED
      BY <1>0, <3>1, CursorType
  <2>2. count' \in [Kinds -> Nat]
    BY <1>8, TickType, Names DEF LeaseExpires, RetryDue, RetryPaused, EventsTypeOK
  <2>3. QED
    BY <1>8, <2>1, <2>2 DEF LeaseExpires, RetryDue, RetryPaused, EventsTypeOK, logVars, history
<1>9. ASSUME NEW s \in Subs, SkipPaused(s) PROVE EventsTypeOK'
  <2>1. cur' = [cur EXCEPT ![s] = [cur[s] EXCEPT !.state = "active", !.pos = cur[s].failed,
                                                 !.failed = 0, !.tries = 0, !.waiting = FALSE]]
    BY <1>9 DEF SkipPaused
  <2>2. cur' \in [Subs -> Cursor]
    BY <1>0, <2>1, CursorType
  <2>3. owed' \in [Subs -> SUBSET (1..tail)]
    BY <1>9 DEF SkipPaused, Seen, EventsTypeOK
  <2>4. QED
    BY <1>9, <2>2, <2>3, TickType, Names DEF SkipPaused, EventsTypeOK, logVars
<1>10. ASSUME NEW s \in Subs, NEW to \in CursorStarts, ResetCursor(s, to) PROVE EventsTypeOK'
  <2>1. cur' = [cur EXCEPT ![s] = [cur[s] EXCEPT !.state = "active", !.pos = to, !.failed = 0,
                                                 !.tries = 0, !.waiting = FALSE]]
    BY <1>10 DEF ResetCursor
  <2>2. to \in Nat
    BY StartType, LogFields
  <2>3. cur' \in [Subs -> Cursor]
    BY <1>0, <2>1, <2>2, CursorType
  <2>4. QED
    BY <1>10, <2>3, PlaceFacts, TickType, Names DEF ResetCursor, EventsTypeOK, logVars
<1>11. QED
  BY <1>1, <1>2, <1>3, <1>4, <1>5, <1>6, <1>7, <1>8, <1>9, <1>10 DEF EventsNext, Operate

-----------------------------------------------------------------------------
(***************************************************************************)
(* Steps that concern the lease only.                                      *)
(***************************************************************************)

(* Lease and back-off can change without the place of the cursor. *)
SamePlace(c, d) == d.state = c.state /\ d.pos = c.pos /\ d.failed = c.failed /\ d.tries = c.tries

(* No position, no row and nothing that is owed changes; loops are stopped, *)
(* started over or given the lease of a cursor.                             *)
Quiet ==
    /\ UNCHANGED <<type, tail, retained, oldest, owed, txApplied, twice>>
    /\ \A s \in Subs : SamePlace(cur[s], cur'[s])
    /\ \A p \in Procs, s \in Subs :
          \/ disp'[p][s] = disp[p][s]
          \/ disp'[p][s] = Off
          \/ /\ disp'[p][s].to = 0 /\ disp[p][s].pc # "off"
             /\ \/ disp'[p][s].pc = "idle"
                \/ disp'[p][s].pc = "leased" /\ CursorExists(s)

LEMMA LeaseOnly ==
    ASSUME NEW c \in Cursor, NEW p
    PROVE  /\ SamePlace(c, c)
           /\ SamePlace(c, [c EXCEPT !.owner = p, !.live = TRUE])
           /\ SamePlace(c, [c EXCEPT !.owner = NoProc, !.live = FALSE])
           /\ SamePlace(c, [c EXCEPT !.owner = Gone])
           /\ SamePlace(c, [c EXCEPT !.live = FALSE])
           /\ SamePlace(c, [c EXCEPT !.waiting = FALSE])
  BY DEF Cursor, SamePlace

LEMMA QuietDispatch ==
    ASSUME EventsTypeOK, NEW p \in Procs, NEW s \in Subs,
           \/ AcquireLease(p, s)
           \/ /\ ReadCursor(p, s) \/ ReadBatch(p, s) \/ StorageError(p, s)
              /\ GoTo(p, s, "idle", 0)
    PROVE  Quiet
<1>1. /\ UNCHANGED <<type, tail, retained, oldest, owed, txApplied, twice>>
      /\ cur' = cur \/ cur' = [cur EXCEPT ![s] = [cur[s] EXCEPT !.owner = p, !.live = TRUE]]
  BY DEF AcquireLease, ReadCursor, ReadBatch, StorageError, logVars, history
<1>2. \A r \in Subs : SamePlace(cur[r], cur'[r])
  <2>1. cur \in [Subs -> Cursor]
    BY DEF EventsTypeOK
  <2> TAKE r \in Subs
  <2>2. cur'[r] = cur[r] \/ cur'[r] = [cur[r] EXCEPT !.owner = p, !.live = TRUE]
    BY <1>1, <2>1
  <2>3. cur[r] \in Cursor
    BY <2>1
  <2>4. /\ SamePlace(cur[r], cur[r])
        /\ SamePlace(cur[r], [cur[r] EXCEPT !.owner = p, !.live = TRUE])
    BY <2>3, LeaseOnly
  <2>5. QED
    BY <2>2, <2>4
<1>3. /\ disp[p][s].pc # "off"
      /\ \/ GoTo(p, s, "idle", 0)
         \/ GoTo(p, s, "leased", 0) /\ CursorExists(s)
  BY DEF AcquireLease, ReadCursor, ReadBatch, StorageError
<1>4. \A q \in Procs, r \in Subs :
          \/ disp'[q][r] = disp[q][r]
          \/ /\ disp'[q][r].to = 0 /\ disp[q][r].pc # "off"
             /\ \/ disp'[q][r].pc = "idle"
                \/ disp'[q][r].pc = "leased" /\ CursorExists(r)
  <2>1. CASE GoTo(p, s, "idle", 0)
    <3>1. \A q \in Procs, r \in Subs :
            disp'[q][r] = IF q = p /\ r = s THEN [pc |-> "idle", to |-> 0] ELSE disp[q][r]
      BY <2>1, GoToEffect, Names
    <3>2. QED
      BY <1>3, <3>1
  <2>2. CASE GoTo(p, s, "leased", 0) /\ CursorExists(s)
    <3>1. \A q \in Procs, r \in Subs :
            disp'[q][r] = IF q = p /\ r = s THEN [pc |-> "leased", to |-> 0] ELSE disp[q][r]
      BY <2>2, GoToEffect, Names
    <3>2. QED
      BY <1>3, <2>2, <3>1
  <2>3. QED
    BY <1>3, <2>1, <2>2
<1>5. QED
  BY <1>1, <1>2, <1>4 DEF Quiet

LEMMA QuietLease ==
    ASSUME EventsTypeOK, NEW p, NEW s,
           \/ p \in Procs /\ s \in Subs /\ (CloseSub(p, s) \/ ReleaseLease(p, s))
           \/ p \in Procs /\ Crash(p)
           \/ s \in Subs /\ (LeaseExpires(s) \/ RetryDue(s))
    PROVE  Quiet
<1>1. cur \in [Subs -> Cursor]
  BY DEF EventsTypeOK
<1>2. UNCHANGED <<type, tail, retained, oldest, owed, txApplied, twice>>
  BY DEF CloseSub, ReleaseLease, Crash, LeaseExpires, RetryDue, logVars, history
<1>3. \A r \in Subs : \/ cur'[r] = cur[r]
                      \/ cur'[r] = [cur[r] EXCEPT !.owner = NoProc, !.live = FALSE]
                      \/ cur'[r] = [cur[r] EXCEPT !.owner = Gone]
                      \/ cur'[r] = [cur[r] EXCEPT !.live = FALSE]
                      \/ cur'[r] = [cur[r] EXCEPT !.waiting = FALSE]
  BY <1>1 DEF CloseSub, ReleaseLease, Crash, LeaseExpires, RetryDue
<1>4. \A r \in Subs : SamePlace(cur[r], cur'[r])
  <2> TAKE r \in Subs
  <2>1. cur[r] \in Cursor
    BY <1>1
  <2>2. QED
    BY <1>3, <2>1, LeaseOnly
<1>5. \A q \in Procs, r \in Subs : disp'[q][r] = disp[q][r] \/ disp'[q][r] = Off
  <2>1. CASE p \in Procs /\ s \in Subs /\ CloseSub(p, s)
    BY <2>1, GoToEffect, Names DEF CloseSub, Off
  <2>2. CASE Crash(p)
    BY <2>2 DEF Crash, EventsTypeOK
  <2>3. CASE disp' = disp
    BY <2>3
  <2>4. QED
    BY <2>1, <2>2, <2>3 DEF ReleaseLease, LeaseExpires, RetryDue
<1>6. QED
  BY <1>2, <1>4, <1>5 DEF Quiet

-----------------------------------------------------------------------------
(***************************************************************************)
(* The invariants.                                                         *)
(***************************************************************************)

(* No cursor and no loop is beyond the last id that was given out. *)
Positions ==
    /\ \A s \in Subs : cur[s].pos <= tail /\ cur[s].failed <= tail
    /\ \A p \in Procs, s \in Subs :
          /\ disp[p][s].to <= tail
          /\ disp[p][s].pc = "handle" => disp[p][s].to # 0

LogInv == EventsTypeOK /\ Positions /\ BoundaryComplete

(* What is owed is still in the log, matches, and lies above the cursor, and *)
(* not below the event the subscriber was paused at.  A subscriber that was  *)
(* never placed is owed nothing and has no loop.                             *)
OwedAhead ==
    \A s \in Subs :
        /\ \A e \in owed[s] : /\ e \in retained /\ MatchesEvent(s, e)
                              /\ e > cur[s].pos
                              /\ cur[s].state = "paused" => e >= cur[s].failed
        /\ ~ CursorExists(s) => owed[s] = {} /\ \A p \in Procs : disp[p][s].pc = "off"

(* No loop of any process, however late, is about to take a cursor past an  *)
(* event that is owed.                                                      *)
LoopsBehind ==
    \A p \in Procs, s \in Subs : \A e \in owed[s] :
        /\ disp[p][s].pc \in {"read", "skip", "handled"} => e > disp[p][s].to
        /\ disp[p][s].pc \in {"handle", "failed"} => e >= disp[p][s].to

LostInv == LogInv /\ OwedAhead /\ LoopsBehind

(* One process: what its handlers applied lies behind the cursor and behind *)
(* its loop.                                                                *)
AppliedBehind ==
    \A s \in Subs : \A e \in txApplied[s] :
        /\ s \in Transactional
        /\ e <= cur[s].pos
        /\ cur[s].state = "paused" => e <= cur[s].failed
        /\ \A p \in Procs : /\ disp[p][s].pc \in {"read", "skip"} => e <= disp[p][s].to
                            /\ disp[p][s].pc \in {"handle", "failed"} => e < disp[p][s].to

(* One process: a cursor that is not active has nothing in flight. *)
AtRest ==
    \A s \in Subs :
        /\ cur[s].state # "active" => \A p \in Procs : disp[p][s].pc \notin Acting \cup {"read"}
        /\ cur[s].state = "absent" => /\ txApplied[s] = {} /\ cur[s].tries = 0
                                      /\ \A p \in Procs : disp[p][s].pc = "off"
        /\ cur[s].state = "paused" => cur[s].tries = MaxTries
        /\ cur[s].state # "paused" => cur[s].tries < MaxTries
        /\ \A p \in Procs : disp[p][s].pc = "handled" => s \notin Transactional

OneInv == LogInv /\ twice = {} /\ AppliedBehind /\ AtRest

-----------------------------------------------------------------------------
(***************************************************************************)
(* What the other steps do to the cursor and the loop of one subscriber.   *)
(***************************************************************************)

(* The cursor of s, and no other, is now at this place. *)
Moves(s, state, pos, failed, tries) ==
    \A r \in Subs : IF r = s THEN /\ cur'[r].state = state /\ cur'[r].pos = pos
                                  /\ cur'[r].failed = failed /\ cur'[r].tries = tries
                             ELSE cur'[r] = cur[r]

(* The loop of p and s, and no other, is now here. *)
Loops(p, s, pc, to) ==
    \A q \in Procs, r \in Subs :
        IF q = p /\ r = s THEN disp'[q][r].pc = pc /\ disp'[q][r].to = to
                          ELSE disp'[q][r] = disp[q][r]

LEMMA LoopsTo ==
    ASSUME EventsTypeOK, NEW p \in Procs, NEW s \in Subs, NEW pc \in Pcs, NEW to \in Nat,
           GoTo(p, s, pc, to)
    PROVE  Loops(p, s, pc, to)
<1>1. \A q \in Procs, r \in Subs :
         disp'[q][r] = IF q = p /\ r = s THEN [pc |-> pc, to |-> to] ELSE disp[q][r]
  BY GoToEffect
<1>2. QED
  BY <1>1 DEF Loops

(* An update of one cursor. *)
LEMMA MovesTo ==
    ASSUME EventsTypeOK, NEW s \in Subs, NEW c, cur' = [cur EXCEPT ![s] = c]
    PROVE  Moves(s, c.state, c.pos, c.failed, c.tries)
  BY DEF Moves, EventsTypeOK

LEMMA AdvancedMoves ==
    ASSUME EventsTypeOK, NEW s \in Subs, NEW to \in Nat, cur' = Advanced(s, to)
    PROVE  /\ CursorExists(s) => Moves(s, cur[s].state, to, cur[s].failed, 0)
           /\ ~ CursorExists(s) => cur' = cur
<1> DEFINE c == [cur[s] EXCEPT !.pos = to, !.tries = 0, !.waiting = FALSE]
<1>1. cur \in [Subs -> Cursor] /\ cur[s] \in Cursor
  BY DEF EventsTypeOK
<1>2. c.state = cur[s].state /\ c.pos = to /\ c.failed = cur[s].failed /\ c.tries = 0
  BY <1>1 DEF Cursor
<1>3. CursorExists(s) => cur' = [cur EXCEPT ![s] = c]
  BY DEF Advanced
<1> HIDE DEF c
<1>4. CursorExists(s) => Moves(s, c.state, c.pos, c.failed, c.tries)
  BY <1>3, MovesTo
<1>5. QED
  BY <1>2, <1>4 DEF Advanced

(* A failure is counted, or it is the last one and pauses the subscriber. *)
LEMMA FailureMoves ==
    ASSUME EventsTypeOK, NEW p \in Procs, NEW s \in Subs, RecordFailure(p, s)
    PROVE  \/ ~ CursorExists(s) /\ UNCHANGED <<logVars, cur, owed>>
           \/ /\ CursorExists(s) /\ cur[s].tries + 1 >= MaxTries
              /\ Moves(s, "paused", cur[s].pos, disp[p][s].to, cur[s].tries + 1)
              /\ Insert(Alert) /\ owed' = OweTo(Alert, owed)
           \/ /\ CursorExists(s) /\ cur[s].tries + 1 < MaxTries
              /\ Moves(s, cur[s].state, cur[s].pos, cur[s].failed, cur[s].tries + 1)
              /\ UNCHANGED <<logVars, owed>>
<1> DEFINE c == [cur[s] EXCEPT !.state = "paused", !.failed = disp[p][s].to,
                               !.tries = cur[s].tries + 1, !.waiting = FALSE]
           d == [cur[s] EXCEPT !.tries = cur[s].tries + 1, !.waiting = TRUE]
<1>1. cur \in [Subs -> Cursor] /\ cur[s] \in Cursor /\ cur[s].tries \in Nat /\ MaxTries \in Nat
  BY CursorFields, EventAssumption DEF EventsTypeOK
<1>2. /\ c.state = "paused" /\ c.pos = cur[s].pos /\ c.failed = disp[p][s].to
      /\ c.tries = cur[s].tries + 1
      /\ d.state = cur[s].state /\ d.pos = cur[s].pos /\ d.failed = cur[s].failed
      /\ d.tries = cur[s].tries + 1
  BY <1>1 DEF Cursor
<1>3. \/ ~ CursorExists(s) /\ UNCHANGED <<logVars, cur, owed>>
      \/ /\ CursorExists(s) /\ cur[s].tries + 1 >= MaxTries /\ cur' = [cur EXCEPT ![s] = c]
         /\ Insert(Alert) /\ owed' = OweTo(Alert, owed)
      \/ /\ CursorExists(s) /\ ~ (cur[s].tries + 1 >= MaxTries) /\ cur' = [cur EXCEPT ![s] = d]
         /\ UNCHANGED <<logVars, owed>>
  BY DEF RecordFailure, Poisoned
<1> HIDE DEF c, d
<1>4. cur' = [cur EXCEPT ![s] = c] => Moves(s, c.state, c.pos, c.failed, c.tries)
  BY MovesTo
<1>5. cur' = [cur EXCEPT ![s] = d] => Moves(s, d.state, d.pos, d.failed, d.tries)
  BY MovesTo
<1>6. QED
  BY <1>1, <1>2, <1>3, <1>4, <1>5

(* What an operator and a new subscription do. *)
LEMMA OperatorMoves ==
    ASSUME EventsTypeOK, NEW s \in Subs
    PROVE  /\ RetryPaused(s) => Moves(s, "active", cur[s].pos, cur[s].failed, 0)
           /\ SkipPaused(s) => Moves(s, "active", cur[s].failed, 0, 0)
           /\ \A to \in CursorStarts : ResetCursor(s, to) => Moves(s, "active", to, 0, 0)
           /\ \A p \in Procs : RemoveSubscriber(p, s) => Moves(s, "absent", 0, 0, 0)
           /\ \A p \in Procs, to \in CursorStarts :
                Subscribe(p, s, to) => \/ CursorExists(s) /\ UNCHANGED <<cur, history>>
                                       \/ /\ ~ CursorExists(s) /\ Place(s, to)
                                          /\ Moves(s, "active", to, 0, 0)
<1>0. cur \in [Subs -> Cursor] /\ cur[s] \in Cursor
  BY DEF EventsTypeOK
<1>1. ASSUME RetryPaused(s) PROVE Moves(s, "active", cur[s].pos, cur[s].failed, 0)
  <2> DEFINE c == [cur[s] EXCEPT !.state = "active", !.tries = 0, !.waiting = FALSE]
  <2>1. c.state = "active" /\ c.pos = cur[s].pos /\ c.failed = cur[s].failed /\ c.tries = 0
    BY <1>0 DEF Cursor
  <2>2. cur' = [cur EXCEPT ![s] = c]
    BY <1>1 DEF RetryPaused
  <2> HIDE DEF c
  <2>3. Moves(s, c.state, c.pos, c.failed, c.tries)
    BY <2>2, MovesTo
  <2>4. QED
    BY <2>1, <2>3
<1>2. ASSUME NEW to, \/ SkipPaused(s) /\ to = cur[s].failed
                     \/ to \in CursorStarts /\ ResetCursor(s, to)
      PROVE  Moves(s, "active", to, 0, 0)
  <2> DEFINE c == [cur[s] EXCEPT !.state = "active", !.pos = to, !.failed = 0, !.tries = 0,
                                 !.waiting = FALSE]
  <2>1. c.state = "active" /\ c.pos = to /\ c.failed = 0 /\ c.tries = 0
    BY <1>0 DEF Cursor
  <2>2. cur' = [cur EXCEPT ![s] = c]
    BY <1>2 DEF SkipPaused, ResetCursor
  <2> HIDE DEF c
  <2>3. Moves(s, c.state, c.pos, c.failed, c.tries)
    BY <2>2, MovesTo
  <2>4. QED
    BY <2>1, <2>3
<1>3. ASSUME NEW p \in Procs, RemoveSubscriber(p, s) PROVE Moves(s, "absent", 0, 0, 0)
  <2>1. cur' = [cur EXCEPT ![s] = Absent]
    BY <1>3 DEF RemoveSubscriber
  <2>2. Moves(s, Absent.state, Absent.pos, Absent.failed, Absent.tries)
    BY <2>1, MovesTo
  <2>3. QED
    BY <2>2 DEF Absent
<1>4. ASSUME NEW p \in Procs, NEW to \in CursorStarts, Subscribe(p, s, to)
      PROVE  \/ CursorExists(s) /\ UNCHANGED <<cur, history>>
             \/ ~ CursorExists(s) /\ Place(s, to) /\ Moves(s, "active", to, 0, 0)
  <2> DEFINE c == [Absent EXCEPT !.state = "active", !.pos = to]
  <2>1. c.state = "active" /\ c.pos = to /\ c.failed = 0 /\ c.tries = 0
    BY DEF Absent
  <2>2. \/ CursorExists(s) /\ UNCHANGED <<cur, history>>
        \/ ~ CursorExists(s) /\ Place(s, to) /\ cur' = [cur EXCEPT ![s] = c]
    BY <1>4 DEF Subscribe
  <2> HIDE DEF c
  <2>3. cur' = [cur EXCEPT ![s] = c] => Moves(s, c.state, c.pos, c.failed, c.tries)
    BY MovesTo
  <2>4. QED
    BY <2>1, <2>2, <2>3
<1>5. QED
  BY <1>1, <1>2, <1>3, <1>4

(* The steps of one loop that are not quiet. *)
LoopActs(p, s) ==
    \/ \E start \in CursorStarts : Subscribe(p, s, start)
    \/ ReadCursor(p, s) /\ Ready(s)
    \/ ReadBatch(p, s) /\ ~ GoTo(p, s, "idle", 0)
    \/ SkipRun(p, s) \/ Advance(p, s)
    \/ DispatchTx(p, s)
    \/ HandlerDone(p, s)
    \/ HandlerFails(p, s)
    \/ StorageError(p, s) /\ disp[p][s].pc = "handled"
    \/ RecordFailure(p, s)
    \/ RemoveSubscriber(p, s)

(* A step is quiet or one of these. *)
Loud ==
    \/ \E t \in Types : Publish(t)
    \/ \E aged \in SUBSET retained : RunRetention(aged)
    \/ \E p \in Procs, s \in Subs : LoopActs(p, s)
    \/ \E s \in Subs : RetryPaused(s) \/ SkipPaused(s)
    \/ \E s \in Subs : \E to \in CursorStarts : ResetCursor(s, to)

LEMMA StepKinds == ASSUME EventsTypeOK, EventsNext PROVE Quiet \/ Loud
<1>1. ASSUME NEW p \in Procs, NEW s \in Subs,
             ReadCursor(p, s) /\ ~ Ready(s)
      PROVE  Quiet
  BY <1>1, QuietDispatch DEF ReadCursor
<1>2. ASSUME NEW p \in Procs, NEW s \in Subs,
             ReadBatch(p, s) /\ GoTo(p, s, "idle", 0)
      PROVE  Quiet
  BY <1>2, QuietDispatch
<1>3. ASSUME NEW p \in Procs, NEW s \in Subs,
             StorageError(p, s) /\ disp[p][s].pc # "handled"
      PROVE  Quiet
  BY <1>3, QuietDispatch DEF StorageError
<1>4. ASSUME NEW p \in Procs, NEW s \in Subs,
             AcquireLease(p, s)
      PROVE  Quiet
  BY <1>4, QuietDispatch
<1>5. ASSUME NEW p \in Procs, NEW s \in Subs, CloseSub(p, s) \/ ReleaseLease(p, s)
      PROVE  Quiet
  BY <1>5, QuietLease
<1>6. ASSUME NEW p \in Procs, Crash(p) PROVE Quiet
  BY <1>6, QuietLease
<1>7. ASSUME NEW s \in Subs, LeaseExpires(s) \/ RetryDue(s) PROVE Quiet
  BY <1>7, QuietLease
<1>8. ASSUME NEW p \in Procs, NEW s \in Subs, Dispatch(p, s) \/ StorageError(p, s)
      PROVE  Quiet \/ LoopActs(p, s)
  BY <1>1, <1>2, <1>3, <1>4, <1>8 DEF Dispatch, LoopActs
<1>9. ASSUME NEW p \in Procs, NEW s \in Subs,
             \/ Dispatch(p, s) \/ StorageError(p, s) \/ RemoveSubscriber(p, s)
             \/ \E start \in CursorStarts : Subscribe(p, s, start)
      PROVE  Quiet \/ Loud
  BY <1>8, <1>9 DEF LoopActs, Loud
<1>10. ASSUME NEW s \in Subs, LeaseExpires(s) \/ RetryDue(s) \/ Operate(s) PROVE Quiet \/ Loud
  BY <1>7, <1>10 DEF Operate, Loud
<1>11. ASSUME \/ \E t \in Types : Publish(t)
              \/ \E aged \in SUBSET retained : RunRetention(aged)
       PROVE  Loud
  BY <1>11 DEF Loud
<1>12. QED
  BY <1>5, <1>6, <1>9, <1>10, <1>11 DEF EventsNext

(* What the steps of a loop do, in these terms. *)
Step(p, s, pc, next, to) ==
    /\ disp[p][s].pc = pc
    /\ next \in Pcs /\ to \in Nat
    /\ Loops(p, s, next, to)

LoopEffect(p, s) ==
    LET d == disp[p][s]
        B == ReadAfter(d.to)
        S == Skipped(s, B)
    IN  \/ /\ Step(p, s, "off", "idle", 0)
           /\ UNCHANGED <<logVars, owed, txApplied, twice>>
           /\ CursorExists(s) /\ cur' = cur
        \/ /\ Step(p, s, "off", "idle", 0)
           /\ UNCHANGED logVars
           /\ ~ CursorExists(s)
           /\ \E start \in CursorStarts : Place(s, start) /\ Moves(s, "active", start, 0, 0)
        \/ /\ Step(p, s, "leased", "read", cur[s].pos)
           /\ Ready(s)
           /\ UNCHANGED <<logVars, cur, owed, txApplied, twice>>
        \/ /\ \/ S # {} /\ Step(p, s, "read", "skip", Max(S))
              \/ B # {} /\ S = {} /\ Step(p, s, "read", "handle", Min(B))
           /\ UNCHANGED <<logVars, cur, owed, txApplied, twice>>
        \/ /\ Step(p, s, "skip", "idle", 0) \/ Step(p, s, "handled", "idle", 0)
           /\ \/ CursorExists(s) /\ Moves(s, cur[s].state, d.to, cur[s].failed, 0)
              \/ ~ CursorExists(s) /\ cur' = cur
           /\ UNCHANGED <<logVars, owed, txApplied, twice>>
        \/ /\ Step(p, s, "handle", "idle", 0)
           /\ \/ CursorExists(s) /\ Moves(s, cur[s].state, d.to, cur[s].failed, 0)
              \/ ~ CursorExists(s) /\ cur' = cur
           /\ s \in Transactional
           /\ Seen(s, d.to)
           /\ txApplied' = [txApplied EXCEPT ![s] = @ \cup {d.to}]
           /\ twice' = IF d.to \in txApplied[s] THEN twice \cup {s} ELSE twice
           /\ UNCHANGED logVars
        \/ /\ Step(p, s, "handle", "handled", d.to)
           /\ s \notin Transactional
           /\ Seen(s, d.to)
           /\ UNCHANGED <<logVars, cur, txApplied, twice>>
        \/ /\ Step(p, s, "handle", "failed", d.to) \/ Step(p, s, "handled", "failed", d.to)
           /\ UNCHANGED <<logVars, cur, owed, txApplied, twice>>
        \/ /\ Step(p, s, "failed", "idle", 0)
           /\ \/ ~ CursorExists(s) /\ UNCHANGED <<logVars, cur, owed>>
              \/ /\ CursorExists(s) /\ cur[s].tries + 1 >= MaxTries
                 /\ Moves(s, "paused", cur[s].pos, d.to, cur[s].tries + 1)
                 /\ Insert(Alert) /\ owed' = OweTo(Alert, owed)
              \/ /\ CursorExists(s) /\ cur[s].tries + 1 < MaxTries
                 /\ Moves(s, cur[s].state, cur[s].pos, cur[s].failed, cur[s].tries + 1)
                 /\ UNCHANGED <<logVars, owed>>
           /\ UNCHANGED <<txApplied, twice>>
        \/ /\ d.pc = "off" /\ disp' = disp
           /\ UNCHANGED logVars
           /\ count'.resets = count.resets + 1 /\ count.resets < MaxResets
           /\ Moves(s, "absent", 0, 0, 0)
           /\ owed' = [owed EXCEPT ![s] = {}] /\ txApplied' = [txApplied EXCEPT ![s] = {}]
           /\ twice' = twice

LEMMA LoopEffects ==
    ASSUME EventsTypeOK, NEW p \in Procs, NEW s \in Subs, LoopActs(p, s)
    PROVE  LoopEffect(p, s)
<1> DEFINE d == disp[p][s]
           B == ReadAfter(d.to)
           S == Skipped(s, B)
<1>0. d.to \in Nat /\ d.pc \in Pcs /\ cur[s] \in Cursor /\ cur[s].pos \in Nat
  BY LoopFields, CursorFields DEF EventsTypeOK
<1>1. ASSUME NEW start \in CursorStarts, Subscribe(p, s, start) PROVE LoopEffect(p, s)
  <2>1. d.pc = "off" /\ Loops(p, s, "idle", 0)
    BY <1>1, LoopsTo, Names DEF Subscribe
  <2>2. \/ UNCHANGED <<cur, history>> /\ CursorExists(s)
        \/ ~ CursorExists(s) /\ Place(s, start) /\ Moves(s, "active", start, 0, 0)
    BY <1>1, OperatorMoves
  <2>3. Step(p, s, "off", "idle", 0) /\ UNCHANGED logVars
    BY <1>1, <2>1, Names DEF Subscribe, Step
  <2>4. CASE UNCHANGED <<cur, history>> /\ CursorExists(s)
    BY <2>3, <2>4 DEF LoopEffect, history
  <2>5. CASE ~ CursorExists(s) /\ Place(s, start) /\ Moves(s, "active", start, 0, 0)
    BY <2>3, <2>5 DEF LoopEffect
  <2>6. QED
    BY <2>2, <2>4, <2>5
<1>2. CASE ReadCursor(p, s) /\ Ready(s)
  <2>1. d.pc = "leased" /\ Loops(p, s, "read", cur[s].pos)
    BY <1>0, <1>2, LoopsTo, Names DEF ReadCursor
  <2>2. QED
    BY <1>0, <1>2, <2>1, Names DEF ReadCursor, LoopEffect, Step, history
<1>3. CASE ReadBatch(p, s) /\ ~ GoTo(p, s, "idle", 0)
  <2>1. d.pc = "read"
    BY <1>3 DEF ReadBatch
  <2>2. /\ S # {} => Max(S) \in Nat
        /\ B # {} => Min(B) \in Nat
    BY <1>0, BatchFacts, LogFields
  <2>3. \/ S # {} /\ GoTo(p, s, "skip", Max(S))
        \/ B # {} /\ S = {} /\ GoTo(p, s, "handle", Min(B))
    BY <1>3 DEF ReadBatch
  <2>4. \/ S # {} /\ Step(p, s, "read", "skip", Max(S))
        \/ B # {} /\ S = {} /\ Step(p, s, "read", "handle", Min(B))
    <3> HIDE DEF B, S
    <3>1. CASE S # {} /\ GoTo(p, s, "skip", Max(S))
      BY <2>1, <2>2, <3>1, LoopsTo, Names DEF Step
    <3>2. CASE B # {} /\ S = {} /\ GoTo(p, s, "handle", Min(B))
      BY <2>1, <2>2, <3>2, LoopsTo, Names DEF Step
    <3>3. QED
      BY <2>3, <3>1, <3>2
  <2>5. UNCHANGED <<logVars, cur, owed, txApplied, twice>>
    BY <1>3 DEF ReadBatch, history
  <2>6. QED
    BY <2>4, <2>5 DEF LoopEffect
<1>4. CASE SkipRun(p, s) \/ Advance(p, s)
  <2>1. Step(p, s, "skip", "idle", 0) \/ Step(p, s, "handled", "idle", 0)
    BY <1>4, LoopsTo, Names DEF SkipRun, Advance, Step
  <2>2. \/ CursorExists(s) /\ Moves(s, cur[s].state, d.to, cur[s].failed, 0)
        \/ ~ CursorExists(s) /\ cur' = cur
    BY <1>0, <1>4, AdvancedMoves DEF SkipRun, Advance
  <2>3. UNCHANGED <<logVars, owed, txApplied, twice>>
    BY <1>4 DEF SkipRun, Advance, history
  <2>4. QED
    BY <2>1, <2>2, <2>3 DEF LoopEffect
<1>5. CASE DispatchTx(p, s)
  <2>1. Step(p, s, "handle", "idle", 0)
    BY <1>5, LoopsTo, Names DEF DispatchTx, Step
  <2>2. \/ CursorExists(s) /\ Moves(s, cur[s].state, d.to, cur[s].failed, 0)
        \/ ~ CursorExists(s) /\ cur' = cur
    BY <1>0, <1>5, AdvancedMoves DEF DispatchTx
  <2>3. QED
    BY <1>5, <2>1, <2>2 DEF LoopEffect, DispatchTx
<1>6. CASE HandlerDone(p, s)
  <2>1. Step(p, s, "handle", "handled", d.to)
    BY <1>0, <1>6, LoopsTo, Names DEF HandlerDone, Step
  <2>2. QED
    BY <1>6, <2>1 DEF LoopEffect, HandlerDone
<1>7. CASE HandlerFails(p, s) \/ (StorageError(p, s) /\ d.pc = "handled")
  <2>1. Step(p, s, "handle", "failed", d.to) \/ Step(p, s, "handled", "failed", d.to)
    BY <1>0, <1>7, LoopsTo, Names DEF HandlerFails, StorageError, Step
  <2>2. QED
    BY <1>7, <2>1 DEF LoopEffect, HandlerFails, StorageError, history
<1>8. CASE RecordFailure(p, s)
  <2>1. Step(p, s, "failed", "idle", 0)
    BY <1>8, LoopsTo, Names DEF RecordFailure, Step
  <2>2. UNCHANGED <<txApplied, twice>>
    BY <1>8 DEF RecordFailure
  <2>3. QED
    BY <1>8, <2>1, <2>2, FailureMoves DEF LoopEffect
<1>9. CASE RemoveSubscriber(p, s)
  <2>1. Moves(s, "absent", 0, 0, 0)
    BY <1>9, OperatorMoves
  <2>2. count'.resets = count.resets + 1 /\ count.resets < MaxResets
    BY <1>9, Names DEF RemoveSubscriber, Tick, EventsTypeOK
  <2>3. QED
    BY <1>9, <2>1, <2>2 DEF LoopEffect, RemoveSubscriber
<1>10. QED
  BY <1>1, <1>2, <1>3, <1>4, <1>5, <1>6, <1>7, <1>8, <1>9 DEF LoopActs

-----------------------------------------------------------------------------
(***************************************************************************)
(* Types, positions and the boundary.                                      *)
(***************************************************************************)

LEMMA RowsHandled == EventsTypeOK /\ Positions => AtRow
  BY LoopFields, LogFields DEF Positions, AtRow

LEMMA TypeStep == ASSUME LogInv, [EventsNext]_eventVars PROVE EventsTypeOK'
<1>1. EventsTypeOK /\ AtRow
  BY RowsHandled DEF LogInv
<1>2. ASSUME NEW p \in Procs, NEW s \in Subs, Dispatch(p, s) \/ StorageError(p, s)
      PROVE  EventsTypeOK'
  BY <1>1, <1>2, DispatchType
<1>3. CASE EventsNext /\ \A p \in Procs, s \in Subs : ~ Dispatch(p, s) /\ ~ StorageError(p, s)
  BY <1>1, <1>3, OtherType
<1>4. CASE UNCHANGED eventVars
  BY <1>1, <1>4 DEF EventsTypeOK, eventVars
<1>5. QED
  BY <1>2, <1>3, <1>4

(* No position and no loop gets beyond the tail. *)
LEMMA PositionsStep ==
    ASSUME LogInv, EventsNext, EventsTypeOK'
    PROVE  Positions'
<1>0. /\ EventsTypeOK /\ Positions
      /\ tail \in Nat /\ \A e \in retained : e \in Nat /\ e # 0 /\ e <= tail
      /\ CursorStarts \subseteq 0..tail
  BY LogFields, StartType DEF LogInv
<1>1. CASE Quiet
  <2>1. \A s \in Subs : cur'[s].pos <= tail' /\ cur'[s].failed <= tail'
    BY <1>0, <1>1 DEF Quiet, SamePlace, Positions
  <2>2. \A p \in Procs, s \in Subs : /\ disp'[p][s].to <= tail'
                                     /\ disp'[p][s].pc = "handle" => disp'[p][s].to # 0
    BY <1>0, <1>1 DEF Quiet, Off, Positions
  <2>3. QED
    BY <2>1, <2>2 DEF Positions
<1>2. ASSUME NEW t \in Types, Publish(t) PROVE Positions'
  <2>1. tail' = tail + 1 /\ cur' = cur /\ disp' = disp
    BY <1>0, <1>2, InsertFacts DEF Publish
  <2>2. QED
    BY <1>0, <2>1, LoopFields, CursorFields DEF Positions, EventsTypeOK
<1>3. ASSUME NEW aged, RunRetention(aged) PROVE Positions'
  BY <1>0, <1>3 DEF RunRetention, Positions
<1>4. ASSUME NEW s \in Subs, NEW to \in CursorStarts,
             RetryPaused(s) \/ SkipPaused(s) \/ ResetCursor(s, to)
      PROVE  Positions'
  <2>1. /\ tail' = tail /\ disp' = disp
        /\ \/ Moves(s, "active", cur[s].pos, cur[s].failed, 0)
           \/ Moves(s, "active", cur[s].failed, 0, 0)
           \/ Moves(s, "active", to, 0, 0)
    BY <1>0, <1>4, OperatorMoves DEF RetryPaused, SkipPaused, ResetCursor, logVars
  <2>2. to <= tail /\ 0 <= tail
    BY <1>0
  <2>3. QED
    BY <1>0, <2>1, <2>2 DEF Moves, Positions
<1>5. ASSUME NEW p \in Procs, NEW s \in Subs, LoopActs(p, s) PROVE Positions'
  <2> DEFINE d == disp[p][s]
             B == ReadAfter(d.to)
             S == Skipped(s, B)
  <2>1. LoopEffect(p, s)
    BY <1>0, <1>5, LoopEffects
  <2>2. tail' = tail \/ tail' = tail + 1
    BY <1>0, <2>1, InsertFacts, EventAssumption DEF LoopEffect, logVars
  <2>3. d.to \in Nat /\ d.to <= tail /\ cur[s].pos <= tail /\ cur[s].failed <= tail
        /\ cur[s].pos \in Nat /\ cur[s].failed \in Nat
    BY <1>0, LoopFields, CursorFields DEF Positions, EventsTypeOK
  <2>4. \A r \in Subs : cur'[r].pos <= tail /\ cur'[r].failed <= tail
    <3>1. \/ cur' = cur
          \/ \E st, n, f, t : /\ Moves(s, st, n, f, t)
                              /\ n \in CursorStarts \cup {cur[s].pos, cur[s].failed, d.to, 0}
                              /\ f \in {cur[s].failed, d.to, 0}
      BY <2>1 DEF LoopEffect
    <3>2. \A n \in CursorStarts : n <= tail
      BY <1>0
    <3>3. QED
      BY <1>0, <2>3, <3>1, <3>2 DEF Moves, Positions
  <2>5. /\ S # {} => Max(S) <= tail
        /\ B # {} => Min(B) <= tail /\ Min(B) # 0
    BY <1>0, <2>3, BatchFacts
  <2>6. \/ disp' = disp
        \/ \E next \in Pcs, to \in Nat :
              /\ Loops(p, s, next, to) /\ to <= tail
              /\ next = "handle" => to # 0
    <3>1. CASE \E next \in Pcs \ {"handle"} : \E to \in {0, d.to, cur[s].pos} : Loops(p, s, next, to)
      BY <1>0, <2>3, <3>1
    <3>2. CASE S # {} /\ Step(p, s, "read", "skip", Max(S))
      <4> HIDE DEF S, B
      <4> QED BY <2>5, <3>2 DEF Step
    <3>3. CASE B # {} /\ Step(p, s, "read", "handle", Min(B))
      <4> HIDE DEF S, B
      <4> QED BY <2>5, <3>3 DEF Step
    <3>4. CASE disp' = disp
      BY <3>4
    <3>5. QED
      <4> HIDE DEF S, B
      <4>1. \/ disp' = disp
            \/ S # {} /\ Step(p, s, "read", "skip", Max(S))
            \/ B # {} /\ Step(p, s, "read", "handle", Min(B))
            \/ \E pc : \/ Step(p, s, pc, "idle", 0) \/ Step(p, s, pc, "read", cur[s].pos)
                       \/ Step(p, s, pc, "handled", d.to) \/ Step(p, s, pc, "failed", d.to)
        BY <2>1 DEF LoopEffect, S, B
      <4>2. QED
        BY <3>1, <3>2, <3>3, <3>4, <4>1, Names DEF Step
  <2>7. \A q \in Procs, r \in Subs : /\ disp'[q][r].to \in Nat /\ disp'[q][r].to <= tail
                                     /\ disp'[q][r].pc = "handle" => disp'[q][r].to # 0
    BY <1>0, <2>6, LoopFields DEF Loops, Positions
  <2>8. \A r \in Subs : cur'[r].pos \in Nat /\ cur'[r].failed \in Nat
    <3>1. \A r \in Subs : cur'[r] \in Cursor
      BY DEF EventsTypeOK
    <3>2. QED
      BY <3>1, CursorFields
  <2>9. QED
    BY <1>0, <2>2, <2>4, <2>7, <2>8 DEF Positions
<1>6. QED
  <2>1. 0 \in CursorStarts
    BY DEF CursorStarts
  <2>2. Quiet \/ Loud
    BY <1>0, StepKinds
  <2>3. QED
    BY <1>1, <1>2, <1>3, <1>4, <1>5, <2>1, <2>2 DEF Loud

(* Retention moves the boundary above every row it removes. *)
LEMMA BoundaryStep ==
    ASSUME LogInv, EventsNext
    PROVE  BoundaryComplete'
<1>0. /\ EventsTypeOK /\ BoundaryComplete
      /\ tail \in Nat /\ oldest \in Nat
  BY LogFields DEF LogInv
<1>1. CASE UNCHANGED <<tail, retained, oldest>>
  BY <1>0, <1>1 DEF BoundaryComplete
<1>2. ASSUME NEW t \in Types, Insert(t) PROVE BoundaryComplete'
  <2>1. tail' = tail + 1 /\ oldest' = oldest /\ retained' = retained \cup {tail + 1}
    BY <1>0, <1>2, InsertFacts
  <2>2. ASSUME NEW e \in oldest..(tail + 1) PROVE e \in retained \cup {tail + 1}
    BY <1>0, <2>2 DEF BoundaryComplete
  <2>3. QED
    BY <2>1, <2>2 DEF BoundaryComplete
<1>3. ASSUME NEW aged, RunRetention(aged) PROVE BoundaryComplete'
  <2> DEFINE D == aged \cap Unpinned
  <2>1. D \in SUBSET retained
    BY DEF Unpinned
  <2>2. Boundary(D) \in Nat /\ Boundary(D) >= oldest /\ \A e \in D : Boundary(D) > e
    BY <1>0, <2>1, BoundaryFacts
  <2>3. tail' = tail /\ oldest' = Boundary(D) /\ retained' = retained \ D
    BY <1>3 DEF RunRetention
  <2> HIDE DEF D
  <2>4. ASSUME NEW e \in Boundary(D)..tail PROVE e \in retained \ D
    BY <1>0, <2>2, <2>4 DEF BoundaryComplete
  <2>5. QED
    BY <2>3, <2>4 DEF BoundaryComplete
<1>4. ASSUME NEW p \in Procs, NEW s \in Subs, LoopActs(p, s) PROVE BoundaryComplete'
  <2>1. UNCHANGED <<tail, retained, oldest>> \/ Insert(Alert)
    BY <1>0, <1>4, LoopEffects DEF LoopEffect, logVars
  <2>2. QED
    BY <1>1, <1>2, <2>1, EventAssumption
<1>5. QED
  <2>1. Quiet \/ Loud
    BY <1>0, StepKinds
  <2>2. ASSUME NEW s, NEW to, RetryPaused(s) \/ SkipPaused(s) \/ ResetCursor(s, to)
        PROVE  UNCHANGED <<tail, retained, oldest>>
    BY <2>2 DEF RetryPaused, SkipPaused, ResetCursor, logVars
  <2>3. QED
    BY <1>1, <1>2, <1>3, <1>4, <2>1, <2>2 DEF Loud, Quiet, Publish

LEMMA LogInvInit == EventsInit => LogInv
<1> SUFFICES ASSUME EventsInit PROVE LogInv
  OBVIOUS
<1>1. EventsTypeOK
  BY EventsTypeInit
<1>2. Positions
  <2>1. \A s \in Subs : cur[s].pos = 0 /\ cur[s].failed = 0
    BY DEF EventsInit, Absent
  <2>2. \A p \in Procs, s \in Subs : disp[p][s].to = 0 /\ disp[p][s].pc = "off"
    BY DEF EventsInit, Off
  <2>3. QED
    BY <2>1, <2>2 DEF EventsInit, Positions
<1>3. BoundaryComplete
  BY DEF EventsInit, BoundaryComplete
<1>4. QED
  BY <1>1, <1>2, <1>3 DEF LogInv

LEMMA LogInvStep == LogInv /\ [EventsNext]_eventVars => LogInv'
<1> SUFFICES ASSUME LogInv, [EventsNext]_eventVars PROVE LogInv'
  OBVIOUS
<1>1. EventsTypeOK'
  BY TypeStep
<1>2. CASE EventsNext
  BY <1>1, <1>2, PositionsStep, BoundaryStep DEF LogInv
<1>3. CASE UNCHANGED eventVars
  BY <1>1, <1>3 DEF LogInv, Positions, BoundaryComplete, eventVars
<1>4. QED
  BY <1>2, <1>3

(* EventLog keeps its types: a cursor, a loop and what is owed are always    *)
(* what log.go and durable.go store, and every handler gets a real row.      *)
THEOREM EventsTypeCorrect == EventsSpec => []EventsTypeOK
<1>1. LogInv => EventsTypeOK
  BY DEF LogInv
<1>2. QED
  BY LogInvInit, LogInvStep, <1>1, PTL DEF EventsSpec

(* retention.go: oldest_retained_id never points below a row that is gone,   *)
(* so a client that resumes at it, or above, replays without a gap.          *)
THEOREM BoundaryStaysComplete == EventsSpec => []BoundaryComplete
<1>1. LogInv => BoundaryComplete
  BY DEF LogInv
<1>2. QED
  BY LogInvInit, LogInvStep, <1>1, PTL DEF EventsSpec

-----------------------------------------------------------------------------
(***************************************************************************)
(* Nothing is lost as long as nobody resets or removes a cursor.           *)
(***************************************************************************)

(* An event that is owed is not in the run a loop skips, and not below the  *)
(* row it hands out: it would have been part of the batch itself.           *)
LEMMA OwedInBatch ==
    ASSUME EventsTypeOK, NEW s \in Subs, NEW to \in Nat, NEW e \in retained,
           MatchesEvent(s, e), e > to
    PROVE  LET B == ReadAfter(to)
               S == Skipped(s, B)
           IN  /\ S # {} => e > Max(S)
               /\ B # {} => e >= Min(B)
<1> DEFINE B == ReadAfter(to)
           S == Skipped(s, B)
           above == {f \in retained : f > to}
<1>0. /\ tail \in Nat /\ \A f \in retained : f \in Nat /\ f <= tail
      /\ Batch \in Nat
  BY LogFields, EventAssumption
<1>1. ASSUME NEW m \in B, e <= m PROVE e \in B
  <2>1. {f \in above : f < e} \subseteq {f \in above : f < m}
    BY <1>0, <1>1 DEF ReadAfter
  <2>2. IsFiniteSet({f \in above : f < m})
    <3>1. {f \in above : f < m} \in SUBSET Nat
      BY <1>0
    <3>2. \A f \in {f \in above : f < m} : f <= tail
      BY <1>0
    <3>3. QED
      BY <1>0, <3>1, <3>2, FS_BoundedSetOfNaturals
  <2>3. /\ IsFiniteSet({f \in above : f < e})
        /\ Cardinality({f \in above : f < e}) <= Cardinality({f \in above : f < m})
    BY <2>1, <2>2, FS_Subset
  <2>4. /\ Cardinality({f \in above : f < m}) \in Nat
        /\ Cardinality({f \in above : f < e}) \in Nat
    BY <2>2, <2>3, FS_CardinalityType
  <2>5. Cardinality({f \in above : f < m}) < Batch
    BY DEF ReadAfter
  <2>6. Cardinality({f \in above : f < e}) < Batch
    BY <1>0, <2>3, <2>4, <2>5
  <2>7. QED
    BY <2>6 DEF ReadAfter
<1>2. /\ S # {} => Max(S) \in S /\ Max(S) \in B
      /\ B # {} => Min(B) \in B /\ \A f \in B : Min(B) <= f
      /\ B \subseteq retained
  BY BatchFacts
<1>3. ASSUME S # {}, e <= Max(S) PROVE FALSE
  <2>1. e \in B
    BY <1>1, <1>2, <1>3
  <2>2. \A m \in S : \A f \in B : f <= m => ~ MatchesEvent(s, f)
    BY DEF Skipped
  <2>3. QED
    BY <1>2, <1>3, <2>1, <2>2
<1>4. ASSUME B # {}, e < Min(B) PROVE FALSE
  <2>1. e <= Min(B)
    BY <1>0, <1>2, <1>4
  <2>2. e \in B
    BY <1>1, <1>2, <1>4, <2>1
  <2>3. QED
    BY <1>0, <1>2, <1>4, <2>2
<1> HIDE DEF B, S
<1>5. S # {} => e > Max(S)
  <2>1. S # {} => Max(S) \in Nat
    BY <1>0, <1>2
  <2>2. QED
    BY <1>0, <1>3, <2>1
<1>6. B # {} => e >= Min(B)
  <2>1. B # {} => Min(B) \in Nat
    BY <1>0, <1>2
  <2>2. QED
    BY <1>0, <1>4, <2>1
<1>7. QED
  BY <1>5, <1>6 DEF B, S

(* What is true of the debts of one subscriber. *)
OwedTo(s) ==
    /\ \A e \in owed[s] : /\ e \in retained /\ MatchesEvent(s, e)
                          /\ e > cur[s].pos
                          /\ cur[s].state = "paused" => e >= cur[s].failed
                          /\ \A p \in Procs :
                                /\ disp[p][s].pc \in {"read", "skip", "handled"} => e > disp[p][s].to
                                /\ disp[p][s].pc \in {"handle", "failed"} => e >= disp[p][s].to
    /\ ~ CursorExists(s) => owed[s] = {} /\ \A p \in Procs : disp[p][s].pc = "off"

LEMMA OwedSplit == (OwedAhead /\ LoopsBehind) <=> \A s \in Subs : OwedTo(s)
  BY DEF OwedAhead, LoopsBehind, OwedTo

(* A debt may be settled, the rest of the subscriber left alone. *)
LEMMA OwedFrame ==
    ASSUME EventsTypeOK, NEW s \in Subs, OwedTo(s),
           retained' = retained, type' = type,
           owed'[s] \subseteq owed[s],
           cur'[s].state = cur[s].state, cur'[s].pos = cur[s].pos, cur'[s].failed = cur[s].failed,
           \A p \in Procs : disp'[p][s] = disp[p][s]
    PROVE  OwedTo(s)'
  BY DEF OwedTo, MatchesEvent, CursorExists

(* A new row is beyond every cursor and loop. *)
LEMMA OwedInsert ==
    ASSUME LogInv, NEW s \in Subs, OwedTo(s), NEW t \in Types, Insert(t),
           owed' = OweTo(t, owed)
    PROVE  /\ \A e \in owed'[s] : /\ e \in retained' /\ type'[e] \in Matching[s]
                                  /\ e \in owed[s] \/ (e = tail + 1 /\ CursorExists(s))
           /\ \A n \in Nat : n <= tail => tail + 1 > n
<1>0. EventsTypeOK /\ tail \in Nat
  BY LogFields DEF LogInv
<1>1. /\ type' \in [1..(tail + 1) -> Types] /\ \A e \in 1..tail : type'[e] = type[e]
      /\ retained' = retained \cup {tail + 1} /\ type'[tail + 1] = t
  BY <1>0, InsertFacts DEF Insert
<1>2. \/ owed'[s] = owed[s]
      \/ owed'[s] = owed[s] \cup {tail + 1} /\ CursorExists(s) /\ t \in Matching[s]
  BY <1>0, OweFacts
<1>3. \A e \in owed[s] : e \in retained /\ e \in 1..tail /\ type[e] \in Matching[s]
  BY <1>0 DEF OwedTo, MatchesEvent, EventsTypeOK
<1>4. QED
  BY <1>0, <1>1, <1>2, <1>3

(* A step of the loop of p and s, seen by s. *)
LEMMA OwedLoop ==
    ASSUME MaxResets = 0, LogInv, NEW p \in Procs, NEW s \in Subs, OwedTo(s), LoopEffect(p, s)
    PROVE  OwedTo(s)'
<1> DEFINE d == disp[p][s]
           B == ReadAfter(d.to)
           S == Skipped(s, B)
<1>0. /\ EventsTypeOK /\ Positions /\ tail \in Nat
      /\ d.to \in Nat /\ d.to <= tail
      /\ cur[s].pos \in Nat /\ cur[s].failed \in Nat /\ cur[s].pos <= tail /\ cur[s].failed <= tail
      /\ \A q \in Procs : disp[q][s].to \in Nat /\ disp[q][s].to <= tail
      /\ \A e \in owed[s] : e \in Nat
  BY LogFields, LoopFields, CursorFields, SMTT(30) DEF LogInv, Positions, EventsTypeOK
<1>1. CASE /\ Step(p, s, "off", "idle", 0)
           /\ UNCHANGED <<logVars, owed, txApplied, twice>>
           /\ CursorExists(s) /\ cur' = cur
  BY <1>1 DEF OwedTo, Step, Loops, logVars, MatchesEvent, CursorExists
<1>2. CASE /\ Step(p, s, "off", "idle", 0)
           /\ UNCHANGED logVars
           /\ ~ CursorExists(s)
           /\ \E start \in CursorStarts : Place(s, start) /\ Moves(s, "active", start, 0, 0)
  <2>1. PICK start \in CursorStarts : Place(s, start) /\ Moves(s, "active", start, 0, 0)
    BY <1>2
  <2>2. owed'[s] = {e \in retained : e > start /\ MatchesEvent(s, e)}
    BY <1>0, <2>1 DEF Place, Beyond, EventsTypeOK
  <2>3. cur'[s].pos = start /\ cur'[s].state = "active"
    BY <2>1 DEF Moves
  <2>4. \A q \in Procs : disp'[q][s].pc \in {"off", "idle"}
    BY <1>2 DEF OwedTo, Step, Loops
  <2>5. QED
    BY <1>2, <2>2, <2>3, <2>4 DEF OwedTo, logVars, MatchesEvent, CursorExists
<1>3. CASE /\ Step(p, s, "leased", "read", cur[s].pos)
           /\ Ready(s)
           /\ UNCHANGED <<logVars, cur, owed, txApplied, twice>>
  BY <1>3 DEF OwedTo, Step, Loops, logVars, MatchesEvent, CursorExists
<1>4. CASE /\ \/ S # {} /\ Step(p, s, "read", "skip", Max(S))
              \/ B # {} /\ S = {} /\ Step(p, s, "read", "handle", Min(B))
           /\ UNCHANGED <<logVars, cur, owed, txApplied, twice>>
  <2>1. \A e \in owed[s] : e \in retained /\ MatchesEvent(s, e) /\ e > d.to
    BY <1>4 DEF OwedTo, Step
  <2>2. \A e \in owed[s] : (S # {} => e > Max(S)) /\ (B # {} => e >= Min(B))
    BY <1>0, <2>1, OwedInBatch
  <2> HIDE DEF B, S
  <2>3. QED
    BY <1>4, <2>2 DEF OwedTo, Step, Loops, logVars, MatchesEvent, CursorExists
<1>5. CASE /\ Step(p, s, "skip", "idle", 0) \/ Step(p, s, "handled", "idle", 0)
           /\ \/ CursorExists(s) /\ Moves(s, cur[s].state, d.to, cur[s].failed, 0)
              \/ ~ CursorExists(s) /\ cur' = cur
           /\ UNCHANGED <<logVars, owed, txApplied, twice>>
  <2>1. CursorExists(s) /\ Moves(s, cur[s].state, d.to, cur[s].failed, 0)
    BY <1>5 DEF OwedTo, Step
  <2>2. \A e \in owed[s] : e > d.to
    BY <1>5 DEF OwedTo, Step
  <2>3. QED
    BY <1>5, <2>1, <2>2 DEF OwedTo, Step, Loops, Moves, logVars, MatchesEvent, CursorExists
<1>6. CASE /\ Step(p, s, "handle", "idle", 0)
           /\ \/ CursorExists(s) /\ Moves(s, cur[s].state, d.to, cur[s].failed, 0)
              \/ ~ CursorExists(s) /\ cur' = cur
           /\ s \in Transactional
           /\ Seen(s, d.to)
           /\ UNCHANGED logVars
  <2>1. CursorExists(s) /\ Moves(s, cur[s].state, d.to, cur[s].failed, 0)
    BY <1>6 DEF OwedTo, Step
  <2>2. owed'[s] = owed[s] \ {d.to}
    BY <1>0, <1>6 DEF Seen, EventsTypeOK
  <2>3. \A e \in owed'[s] : e > d.to
    BY <1>0, <1>6, <2>2 DEF OwedTo, Step
  <2>4. QED
    BY <1>6, <2>1, <2>2, <2>3 DEF OwedTo, Step, Loops, Moves, logVars, MatchesEvent, CursorExists
<1>7. CASE /\ Step(p, s, "handle", "handled", d.to)
           /\ Seen(s, d.to)
           /\ UNCHANGED <<logVars, cur, txApplied, twice>>
  <2>1. owed'[s] = owed[s] \ {d.to}
    BY <1>0, <1>7 DEF Seen, EventsTypeOK
  <2>2. \A e \in owed'[s] : e > d.to
    BY <1>0, <1>7, <2>1 DEF OwedTo, Step
  <2>3. QED
    BY <1>7, <2>1, <2>2 DEF OwedTo, Step, Loops, logVars, MatchesEvent, CursorExists
<1>8. CASE /\ Step(p, s, "handle", "failed", d.to) \/ Step(p, s, "handled", "failed", d.to)
           /\ UNCHANGED <<logVars, cur, owed, txApplied, twice>>
  <2>1. \A e \in owed[s] : e >= d.to
    BY <1>0, <1>8 DEF OwedTo, Step
  <2>2. QED
    BY <1>8, <2>1 DEF OwedTo, Step, Loops, logVars, MatchesEvent, CursorExists
<1>9. CASE /\ Step(p, s, "failed", "idle", 0)
           /\ \/ ~ CursorExists(s) /\ UNCHANGED <<logVars, cur, owed>>
              \/ /\ CursorExists(s) /\ cur[s].tries + 1 >= MaxTries
                 /\ Moves(s, "paused", cur[s].pos, d.to, cur[s].tries + 1)
                 /\ Insert(Alert) /\ owed' = OweTo(Alert, owed)
              \/ /\ CursorExists(s) /\ cur[s].tries + 1 < MaxTries
                 /\ Moves(s, cur[s].state, cur[s].pos, cur[s].failed, cur[s].tries + 1)
                 /\ UNCHANGED <<logVars, owed>>
  <2>1. \A e \in owed[s] : e >= d.to
    BY <1>9 DEF OwedTo, Step
  <2>2. CursorExists(s)
    BY <1>9 DEF OwedTo, Step
  <2>3. CASE /\ Moves(s, cur[s].state, cur[s].pos, cur[s].failed, cur[s].tries + 1)
             /\ UNCHANGED <<logVars, owed>>
    BY <1>9, <2>2, <2>3 DEF OwedTo, Step, Loops, Moves, logVars, MatchesEvent, CursorExists
  <2>4. CASE /\ Moves(s, "paused", cur[s].pos, d.to, cur[s].tries + 1)
             /\ Insert(Alert) /\ owed' = OweTo(Alert, owed)
    <3>1. \A e \in owed'[s] : /\ e \in retained' /\ type'[e] \in Matching[s]
                              /\ e \in owed[s] \/ e = tail + 1
      BY <2>4, OwedInsert, EventAssumption
    <3>2. cur'[s].state = "paused" /\ cur'[s].pos = cur[s].pos /\ cur'[s].failed = d.to
      BY <2>4 DEF Moves
    <3>3. \A q \in Procs : disp'[q][s] = disp[q][s] \/ disp'[q][s].pc = "idle"
      BY <1>9 DEF Step, Loops
    <3>4. QED
      BY <1>0, <2>1, <3>1, <3>2, <3>3 DEF OwedTo, MatchesEvent, CursorExists
  <2>5. QED
    BY <1>9, <2>2, <2>3, <2>4
<1>10. CASE count.resets < MaxResets
  BY <1>0, <1>10, Names DEF EventsTypeOK
<1>11. QED
  BY <1>1, <1>2, <1>3, <1>4, <1>5, <1>6, <1>7, <1>8, <1>9, <1>10 DEF LoopEffect

(* The same step, seen by another subscriber. *)
LEMMA OwedOther ==
    ASSUME LogInv, NEW p \in Procs, NEW s \in Subs, LoopEffect(p, s),
           NEW r \in Subs, r # s, OwedTo(r)
    PROVE  OwedTo(r)'
<1>0. /\ EventsTypeOK /\ Positions /\ tail \in Nat
      /\ cur[r].pos \in Nat /\ cur[r].failed \in Nat /\ cur[r].pos <= tail /\ cur[r].failed <= tail
      /\ \A q \in Procs : disp[q][r].to \in Nat /\ disp[q][r].to <= tail
  BY LogFields, LoopFields, CursorFields DEF LogInv, Positions, EventsTypeOK
<1>1. cur'[r] = cur[r] /\ \A q \in Procs : disp'[q][r] = disp[q][r]
  BY DEF LoopEffect, Step, Moves, Loops
<1>2. CASE UNCHANGED logVars /\ owed'[r] = owed[r]
  BY <1>0, <1>1, <1>2, OwedFrame DEF logVars
<1>3. CASE Insert(Alert) /\ owed' = OweTo(Alert, owed)
  <2>1. \A e \in owed'[r] : /\ e \in retained' /\ type'[e] \in Matching[r]
                            /\ e \in owed[r] \/ (e = tail + 1 /\ CursorExists(r))
    BY <1>3, OwedInsert, EventAssumption
  <2>2. QED
    BY <1>0, <1>1, <2>1 DEF OwedTo, MatchesEvent, CursorExists
<1>4. (UNCHANGED logVars /\ owed'[r] = owed[r]) \/ (Insert(Alert) /\ owed' = OweTo(Alert, owed))
  <2>1. owed \in [Subs -> SUBSET (1..tail)]
    BY <1>0 DEF EventsTypeOK
  <2>2. QED
    BY <2>1 DEF LoopEffect, Place, Seen, logVars
<1>5. QED
  BY <1>2, <1>3, <1>4

LEMMA OwedStep ==
    ASSUME MaxResets = 0, LogInv, \A s \in Subs : OwedTo(s), EventsNext
    PROVE  \A s \in Subs : OwedTo(s)'
<1>0. EventsTypeOK /\ Positions /\ tail \in Nat
  BY LogFields DEF LogInv
<1> SUFFICES ASSUME NEW s \in Subs PROVE OwedTo(s)'
  OBVIOUS
<1>1. /\ OwedTo(s)
      /\ cur[s].pos \in Nat /\ cur[s].failed \in Nat /\ cur[s].pos <= tail /\ cur[s].failed <= tail
      /\ \A q \in Procs : disp[q][s].to \in Nat /\ disp[q][s].to <= tail
  BY <1>0, LoopFields, CursorFields DEF Positions, EventsTypeOK
<1>2. CASE Quiet
  BY <1>1, <1>2 DEF Quiet, SamePlace, OwedTo, Off, MatchesEvent, CursorExists
<1>3. ASSUME NEW t \in Types, Publish(t) PROVE OwedTo(s)'
  <2>1. Insert(t) /\ owed' = OweTo(t, owed) /\ cur' = cur /\ disp' = disp
    BY <1>3 DEF Publish
  <2>2. \A e \in owed'[s] : /\ e \in retained' /\ type'[e] \in Matching[s]
                            /\ e \in owed[s] \/ (e = tail + 1 /\ CursorExists(s))
    BY <1>1, <2>1, OwedInsert
  <2>3. QED
    BY <1>0, <1>1, <2>1, <2>2 DEF OwedTo, MatchesEvent, CursorExists
<1>4. ASSUME NEW aged, RunRetention(aged) PROVE OwedTo(s)'
  <2>1. \A e \in owed[s] : e \in retained /\ ~ (e <= cur[s].pos) /\ CursorExists(s)
    <3>1. owed[s] \subseteq 1..tail
      BY <1>0 DEF EventsTypeOK
    <3>2. QED
      BY <1>0, <1>1, <3>1 DEF OwedTo
  <2>2. \A e \in owed[s] : e \notin Unpinned
    BY <2>1 DEF Unpinned
  <2>3. \A e \in owed[s] : e \in retained'
    BY <1>4, <2>1, <2>2 DEF RunRetention
  <2>4. UNCHANGED <<type, cur, disp, owed>>
    BY <1>4 DEF RunRetention, history
  <2>5. QED
    BY <1>1, <2>3, <2>4 DEF OwedTo, MatchesEvent, CursorExists
<1>5. ASSUME NEW p \in Procs, NEW r \in Subs, LoopActs(p, r) PROVE OwedTo(s)'
  <2>1. LoopEffect(p, r)
    BY <1>0, <1>5, LoopEffects
  <2>2. QED
    BY <1>1, <2>1, OwedLoop, OwedOther
<1>6. ASSUME NEW r \in Subs, RetryPaused(r) PROVE OwedTo(s)'
  <2>1. Moves(r, "active", cur[r].pos, cur[r].failed, 0)
    BY <1>0, <1>6, OperatorMoves
  <2>2. UNCHANGED <<type, retained, disp, owed>> /\ CursorExists(r)
    BY <1>6 DEF RetryPaused, logVars, history, CursorExists
  <2>3. QED
    BY <1>1, <2>1, <2>2 DEF Moves, OwedTo, MatchesEvent, CursorExists
<1>7. ASSUME NEW r \in Subs, SkipPaused(r) PROVE OwedTo(s)'
  <2>1. Moves(r, "active", cur[r].failed, 0, 0)
    BY <1>0, <1>7, OperatorMoves
  <2>2. UNCHANGED <<type, retained, disp>> /\ cur[r].state = "paused"
    BY <1>7 DEF SkipPaused, logVars
  <2>3. owed \in [Subs -> SUBSET (1..tail)]
    BY <1>0 DEF EventsTypeOK
  <2>4. owed'[s] = IF s = r THEN owed[s] \ {cur[s].failed} ELSE owed[s]
    BY <1>7, <2>3 DEF SkipPaused, Seen
  <2>5. s = r => \A e \in owed'[s] : e > cur[s].failed
    BY <1>0, <1>1, <2>2, <2>3, <2>4 DEF OwedTo
  <2>6. QED
    BY <1>1, <2>1, <2>2, <2>4, <2>5 DEF Moves, OwedTo, MatchesEvent, CursorExists
<1>8. ASSUME NEW r \in Subs, NEW to \in CursorStarts, ResetCursor(r, to) PROVE FALSE
  BY <1>0, <1>8, Names DEF ResetCursor, Tick, EventsTypeOK
<1>9. QED
  <2>1. Quiet \/ Loud
    BY <1>0, StepKinds
  <2>2. QED
    BY <1>2, <1>3, <1>4, <1>5, <1>6, <1>7, <1>8, <2>1 DEF Loud

LEMMA LostInvStep == MaxResets = 0 /\ LostInv /\ [EventsNext]_eventVars => LostInv'
<1> SUFFICES ASSUME MaxResets = 0, LostInv, [EventsNext]_eventVars PROVE LostInv'
  OBVIOUS
<1>1. LogInv /\ LogInv' /\ \A s \in Subs : OwedTo(s)
  BY LogInvStep, OwedSplit DEF LostInv
<1>2. CASE EventsNext
  <2>1. \A s \in Subs : OwedTo(s)'
    BY <1>1, <1>2, OwedStep
  <2>2. OwedAhead' /\ LoopsBehind'
    BY <2>1 DEF OwedAhead, LoopsBehind, OwedTo
  <2>3. QED
    BY <1>1, <2>2 DEF LostInv
<1>3. CASE UNCHANGED eventVars
  BY <1>1, <1>3 DEF LostInv, OwedAhead, LoopsBehind, MatchesEvent, CursorExists, eventVars
<1>4. QED
  BY <1>2, <1>3

LEMMA LostInvInit == EventsInit => LostInv
<1> SUFFICES ASSUME EventsInit PROVE LostInv
  OBVIOUS
<1>1. \A s \in Subs : owed[s] = {}
  BY DEF EventsInit
<1>2. \A p \in Procs, s \in Subs : disp[p][s].pc = "off"
  BY DEF EventsInit, Off
<1>3. QED
  BY LogInvInit, <1>1, <1>2 DEF LostInv, OwedAhead, LoopsBehind

(* durable.go and retention.go: as long as nobody resets or removes a cursor, *)
(* a matching event stays in the log and above the cursor until a handler     *)
(* succeeded on it or an operator skipped it, for any number of processes     *)
(* that share, lose and steal the lease, crash, fail and close.               *)
THEOREM NothingIsLost == ASSUME MaxResets = 0 PROVE EventsSpec => []NothingLost
<1>1. LostInv /\ [EventsNext]_eventVars => LostInv'
  BY LostInvStep
<1>2. LostInv => NothingLost
  BY DEF LostInv, OwedAhead, NothingLost
<1>3. QED
  BY LostInvInit, <1>1, <1>2, PTL DEF EventsSpec

-----------------------------------------------------------------------------
(***************************************************************************)
(* One process: effects are applied once, and a paused subscriber rests.   *)
(***************************************************************************)

(* What is true of one subscriber. *)
OneAt(s) ==
    /\ \A e \in txApplied[s] :
          /\ s \in Transactional
          /\ e <= cur[s].pos
          /\ cur[s].state = "paused" => e <= cur[s].failed
          /\ \A p \in Procs : /\ disp[p][s].pc \in {"read", "skip"} => e <= disp[p][s].to
                              /\ disp[p][s].pc \in {"handle", "failed"} => e < disp[p][s].to
    /\ cur[s].state # "active" => \A p \in Procs : disp[p][s].pc \notin Acting \cup {"read"}
    /\ cur[s].state = "absent" => /\ txApplied[s] = {} /\ cur[s].tries = 0
                                  /\ \A p \in Procs : disp[p][s].pc = "off"
    /\ cur[s].state = "paused" => cur[s].tries = MaxTries
    /\ cur[s].state # "paused" => cur[s].tries < MaxTries
    /\ \A p \in Procs : disp[p][s].pc = "handled" => s \notin Transactional

LEMMA OneSplit == (AppliedBehind /\ AtRest) <=> \A s \in Subs : OneAt(s)
  BY DEF AppliedBehind, AtRest, OneAt

(* A step of the one process's loop, seen by its subscriber. *)
LEMMA OneLoop ==
    ASSUME NEW p, Procs = {p}, LogInv, NEW s \in Subs, OneAt(s), LoopEffect(p, s)
    PROVE  /\ OneAt(s)'
           /\ twice' \subseteq twice
<1> DEFINE d == disp[p][s]
           B == ReadAfter(d.to)
           S == Skipped(s, B)
<1> USE DEF Acting
<1>0. /\ EventsTypeOK
      /\ d.to \in Nat /\ d.pc \in Pcs
      /\ cur[s].pos \in Nat /\ cur[s].failed \in Nat /\ cur[s].tries \in Nat
      /\ cur[s].state \in {"absent", "active", "paused"}
      /\ MaxTries \in Nat /\ MaxTries # 0
      /\ txApplied \in [Subs -> SUBSET (1..tail)]
      /\ \A e \in txApplied[s] : e \in Nat
      /\ p \in Procs /\ \A q \in Procs : q = p
  <2>1. p \in Procs /\ (\A q \in Procs : q = p) /\ EventsTypeOK
    BY DEF LogInv
  <2>2. d.to \in Nat /\ d.pc \in Pcs
    BY <2>1, LoopFields
  <2>3. /\ cur[s] \in Cursor
        /\ txApplied \in [Subs -> SUBSET (1..tail)]
        /\ \A e \in txApplied[s] : e \in Nat
    BY <2>1 DEF EventsTypeOK
  <2>4. QED
    BY <2>1, <2>2, <2>3, CursorFields, EventAssumption
<1>1. CASE /\ Step(p, s, "off", "idle", 0)
           /\ UNCHANGED <<logVars, owed, txApplied, twice>>
           /\ CursorExists(s) /\ cur' = cur
  BY <1>0, <1>1 DEF OneAt, Step, Loops, logVars, CursorExists
<1>2. CASE /\ Step(p, s, "off", "idle", 0)
           /\ UNCHANGED logVars
           /\ ~ CursorExists(s)
           /\ \E start \in CursorStarts : Place(s, start) /\ Moves(s, "active", start, 0, 0)
  <2>1. /\ txApplied'[s] = {} /\ twice' \subseteq twice
        /\ cur'[s].state = "active" /\ cur'[s].tries = 0
    BY <1>0, <1>2 DEF Place, Moves
  <2>2. \A q \in Procs : disp'[q][s].pc = "idle"
    BY <1>0, <1>2 DEF Step, Loops
  <2>3. QED
    BY <1>0, <2>1, <2>2 DEF OneAt
<1>3. CASE /\ Step(p, s, "leased", "read", cur[s].pos)
           /\ Ready(s)
           /\ UNCHANGED <<logVars, cur, owed, txApplied, twice>>
  BY <1>0, <1>3 DEF OneAt, Step, Loops, Ready
<1>4. CASE /\ \/ S # {} /\ Step(p, s, "read", "skip", Max(S))
              \/ B # {} /\ S = {} /\ Step(p, s, "read", "handle", Min(B))
           /\ UNCHANGED <<logVars, cur, owed, txApplied, twice>>
  <2>1. /\ S # {} => Max(S) > d.to /\ Max(S) \in Nat
        /\ B # {} => Min(B) > d.to /\ Min(B) \in Nat
    BY <1>0, BatchFacts, LogFields
  <2> HIDE DEF B, S
  <2>2. QED
    BY <1>0, <1>4, <2>1 DEF OneAt, Step, Loops
<1>5. CASE /\ Step(p, s, "skip", "idle", 0) \/ Step(p, s, "handled", "idle", 0)
           /\ \/ CursorExists(s) /\ Moves(s, cur[s].state, d.to, cur[s].failed, 0)
              \/ ~ CursorExists(s) /\ cur' = cur
           /\ UNCHANGED <<logVars, owed, txApplied, twice>>
  <2>1. cur[s].state = "active" /\ \A e \in txApplied[s] : e <= d.to
    BY <1>0, <1>5 DEF OneAt, Step
  <2>2. Moves(s, "active", d.to, cur[s].failed, 0)
    BY <1>5, <2>1 DEF CursorExists
  <2>3. QED
    BY <1>0, <1>5, <2>1, <2>2 DEF OneAt, Step, Loops, Moves
<1>6. CASE /\ Step(p, s, "handle", "idle", 0)
           /\ \/ CursorExists(s) /\ Moves(s, cur[s].state, d.to, cur[s].failed, 0)
              \/ ~ CursorExists(s) /\ cur' = cur
           /\ s \in Transactional
           /\ txApplied' = [txApplied EXCEPT ![s] = @ \cup {d.to}]
           /\ twice' = IF d.to \in txApplied[s] THEN twice \cup {s} ELSE twice
  <2>1. cur[s].state = "active" /\ \A e \in txApplied[s] : e < d.to
    BY <1>0, <1>6 DEF OneAt, Step
  <2>2. Moves(s, "active", d.to, cur[s].failed, 0)
    BY <1>6, <2>1 DEF CursorExists
  <2>3. \A e \in txApplied'[s] : e <= d.to
    BY <1>0, <1>6, <2>1
  <2>4. twice' = twice
    BY <1>0, <1>6, <2>1
  <2>5. QED
    BY <1>0, <1>6, <2>2, <2>3, <2>4 DEF OneAt, Step, Loops, Moves
<1>7. CASE /\ Step(p, s, "handle", "handled", d.to)
           /\ s \notin Transactional
           /\ UNCHANGED <<logVars, cur, txApplied, twice>>
  BY <1>0, <1>7 DEF OneAt, Step, Loops
<1>8. CASE /\ Step(p, s, "handle", "failed", d.to) \/ Step(p, s, "handled", "failed", d.to)
           /\ UNCHANGED <<logVars, cur, owed, txApplied, twice>>
  BY <1>0, <1>8 DEF OneAt, Step, Loops
<1>9. CASE /\ Step(p, s, "failed", "idle", 0)
           /\ \/ ~ CursorExists(s) /\ UNCHANGED <<logVars, cur, owed>>
              \/ /\ CursorExists(s) /\ cur[s].tries + 1 >= MaxTries
                 /\ Moves(s, "paused", cur[s].pos, d.to, cur[s].tries + 1)
                 /\ Insert(Alert) /\ owed' = OweTo(Alert, owed)
              \/ /\ CursorExists(s) /\ cur[s].tries + 1 < MaxTries
                 /\ Moves(s, cur[s].state, cur[s].pos, cur[s].failed, cur[s].tries + 1)
                 /\ UNCHANGED <<logVars, owed>>
           /\ UNCHANGED <<txApplied, twice>>
  <2>1. cur[s].state = "active" /\ cur[s].tries < MaxTries /\ \A e \in txApplied[s] : e < d.to
    BY <1>0, <1>9 DEF OneAt, Step
  <2>2. \/ /\ cur[s].tries + 1 = MaxTries
           /\ Moves(s, "paused", cur[s].pos, d.to, cur[s].tries + 1)
        \/ /\ cur[s].tries + 1 < MaxTries
           /\ Moves(s, "active", cur[s].pos, cur[s].failed, cur[s].tries + 1)
    BY <1>0, <1>9, <2>1 DEF CursorExists
  <2>3. QED
    BY <1>0, <1>9, <2>1, <2>2 DEF OneAt, Step, Loops, Moves
<1>10. CASE /\ d.pc = "off" /\ disp' = disp
            /\ Moves(s, "absent", 0, 0, 0)
            /\ txApplied' = [txApplied EXCEPT ![s] = {}]
            /\ twice' = twice
  BY <1>0, <1>10 DEF OneAt, Moves
<1>11. QED
  BY <1>1, <1>2, <1>3, <1>4, <1>5, <1>6, <1>7, <1>8, <1>9, <1>10 DEF LoopEffect

(* The same step, seen by another subscriber. *)
LEMMA OneOther ==
    ASSUME EventsTypeOK, NEW p \in Procs, NEW s \in Subs, LoopEffect(p, s),
           NEW r \in Subs, r # s, OneAt(r)
    PROVE  OneAt(r)'
<1>1. txApplied \in [Subs -> SUBSET (1..tail)]
  BY DEF EventsTypeOK
<1>2. cur'[r] = cur[r] /\ \A q \in Procs : disp'[q][r] = disp[q][r]
  BY DEF LoopEffect, Step, Moves, Loops
<1>3. txApplied'[r] = txApplied[r]
  BY <1>1 DEF LoopEffect, Place
<1>4. QED
  BY <1>2, <1>3 DEF OneAt

LEMMA OneStep ==
    ASSUME NEW p, Procs = {p}, LogInv, \A s \in Subs : OneAt(s), EventsNext
    PROVE  /\ \A s \in Subs : OneAt(s)'
           /\ twice' \subseteq twice
<1> USE DEF Acting
<1>0. /\ EventsTypeOK /\ p \in Procs
      /\ txApplied \in [Subs -> SUBSET (1..tail)]
      /\ MaxTries \in Nat /\ MaxTries # 0
  BY EventAssumption DEF LogInv, EventsTypeOK
<1>1. CASE Quiet
  <2>1. ASSUME NEW s \in Subs PROVE OneAt(s)'
    BY <1>0, <1>1, <2>1 DEF Quiet, SamePlace, OneAt, Off, CursorExists
  <2>2. QED
    BY <1>1, <2>1 DEF Quiet
<1>2. ASSUME UNCHANGED <<cur, disp, txApplied, twice>>
      PROVE  (\A s \in Subs : OneAt(s)') /\ twice' \subseteq twice
  BY <1>2 DEF OneAt
<1>3. ASSUME NEW q \in Procs, NEW r \in Subs, LoopActs(q, r)
      PROVE  (\A s \in Subs : OneAt(s)') /\ twice' \subseteq twice
  <2>1. q = p /\ LoopEffect(p, r)
    BY <1>0, <1>3, LoopEffects
  <2>2. OneAt(r)' /\ twice' \subseteq twice
    BY <2>1, OneLoop
  <2>3. \A s \in Subs : s # r => OneAt(s)'
    BY <1>0, <2>1, OneOther
  <2>4. QED
    BY <2>2, <2>3
<1>4. ASSUME NEW r \in Subs, RetryPaused(r) \/ SkipPaused(r)
      PROVE  (\A s \in Subs : OneAt(s)') /\ twice' \subseteq twice
  <2>1. Moves(r, "active", cur[r].pos, cur[r].failed, 0) \/ Moves(r, "active", cur[r].failed, 0, 0)
    BY <1>0, <1>4, OperatorMoves
  <2>2. UNCHANGED <<disp, txApplied, twice>> /\ cur[r].state = "paused"
    BY <1>4 DEF RetryPaused, SkipPaused, history
  <2>3. ASSUME NEW s \in Subs PROVE OneAt(s)'
    BY <1>0, <2>1, <2>2 DEF Moves, OneAt
  <2>4. QED
    BY <2>2, <2>3
<1>5. ASSUME NEW r \in Subs, NEW to \in CursorStarts, ResetCursor(r, to)
      PROVE  (\A s \in Subs : OneAt(s)') /\ twice' \subseteq twice
  <2>1. Moves(r, "active", to, 0, 0)
    BY <1>0, <1>5, OperatorMoves
  <2>2. /\ disp' = disp /\ twice' \subseteq twice
        /\ CursorExists(r)
        /\ \A s \in Subs : txApplied'[s] = IF s = r THEN {} ELSE txApplied[s]
    BY <1>0, <1>5 DEF ResetCursor, Place
  <2>3. ASSUME NEW s \in Subs PROVE OneAt(s)'
    BY <1>0, <2>1, <2>2 DEF Moves, OneAt, CursorExists
  <2>4. QED
    BY <2>2, <2>3
<1>6. QED
  <2>1. Quiet \/ Loud
    BY <1>0, StepKinds
  <2>2. ASSUME NEW t, NEW aged, Publish(t) \/ RunRetention(aged)
        PROVE  UNCHANGED <<cur, disp, txApplied, twice>>
    BY <2>2 DEF Publish, RunRetention, history
  <2>3. QED
    BY <1>1, <1>2, <1>3, <1>4, <1>5, <2>1, <2>2 DEF Loud

LEMMA OneInvInit == EventsInit => OneInv
<1> SUFFICES ASSUME EventsInit PROVE OneInv
  OBVIOUS
<1>1. \A s \in Subs : txApplied[s] = {} /\ cur[s].state = "absent" /\ cur[s].tries = 0
  BY DEF EventsInit, Absent
<1>2. \A p \in Procs, s \in Subs : disp[p][s].pc = "off"
  BY DEF EventsInit, Off
<1>3. MaxTries \in Nat /\ MaxTries # 0
  BY EventAssumption
<1>4. QED
  BY LogInvInit, <1>1, <1>2, <1>3 DEF EventsInit, OneInv, AppliedBehind, AtRest, Acting

LEMMA OneInvStep ==
    ASSUME NEW p, Procs = {p}
    PROVE  OneInv /\ [EventsNext]_eventVars => OneInv'
<1> SUFFICES ASSUME OneInv, [EventsNext]_eventVars PROVE OneInv'
  OBVIOUS
<1>1. LogInv /\ LogInv' /\ \A s \in Subs : OneAt(s)
  BY LogInvStep, OneSplit DEF OneInv
<1>2. CASE EventsNext
  <2>1. (\A s \in Subs : OneAt(s)') /\ twice' \subseteq twice
    BY <1>1, <1>2, OneStep
  <2>2. AppliedBehind' /\ AtRest'
    BY <2>1 DEF AppliedBehind, AtRest, OneAt
  <2>3. QED
    BY <1>1, <2>1, <2>2 DEF OneInv
<1>3. CASE UNCHANGED eventVars
  BY <1>1, <1>3 DEF OneInv, AppliedBehind, AtRest, Acting, eventVars
<1>4. QED
  BY <1>2, <1>3

(* durable.go, one process: types, the boundary, an effect that a TxHandler   *)
(* commits at most once per event and position in spite of crashes, retries, *)
(* resets and removals, and a paused subscriber with nothing in flight.       *)
THEOREM EventsStaySafe == ASSUME NEW p, Procs = {p} PROVE EventsSpec => []EventsSafe
<1>1. OneInv /\ [EventsNext]_eventVars => OneInv'
  BY OneInvStep
<1>2. OneInv => EventsSafe
  <2> SUFFICES ASSUME OneInv PROVE EventsSafe
    OBVIOUS
  <2>1. PausedAtRest
    BY DEF OneInv, AtRest, PausedAtRest
  <2>2. QED
    BY <2>1 DEF OneInv, LogInv, EventsSafe, TxAppliedOnce
<1>3. QED
  BY OneInvInit, <1>1, <1>2, PTL DEF EventsSpec

-----------------------------------------------------------------------------
(***************************************************************************)
(* The stream and the screen (EventStream).                                *)
(***************************************************************************)

(* The log of the stream is an interval: ids are given out one by one, and  *)
(* retention takes the oldest; nobody is ahead of it.                       *)
StreamBounds ==
    /\ stored = boundary..newest /\ boundary <= newest + 1
    /\ received \subseteq 1..newest
    /\ wire \in Seq(0..newest)
    /\ conn.after <= newest /\ session.asOf <= newest /\ client.lastId <= newest

(* What the connection has read beyond the client's high-water mark is      *)
(* under way, in order.                                                     *)
Following ==
    /\ client.lastId <= conn.after
    /\ \A i \in 1..Len(wire) : client.lastId < wire[i] /\ wire[i] <= conn.after
    /\ \A i, j \in 1..Len(wire) : i < j => wire[i] < wire[j]
    /\ \A e \in stored : client.lastId < e /\ e <= conn.after => \E i \in 1..Len(wire) : wire[i] = e

(* A client that must start anew is about to be told so, or was. *)
ToldToReset == Len(wire) > 0 /\ wire[1] = Reset

ConnFollows ==
    /\ conn.pc # "loop" => wire = <<>>
    /\ conn.pc = "opening" => conn.after = client.lastId
    /\ conn.pc = "loop" /\ ~ client.paused => ToldToReset \/ Following

(* While a request is under way, what its answer lacks is in the buffer. *)
ScreenJoins ==
    /\ screen.phase \in {"data", "answered"} => received \subseteq screen.data \cup screen.buf
    /\ screen.phase = "ready" => \A e \in received : e > screen.asOf => e \in screen.data

StreamInv == StreamTypeOK /\ StreamBounds /\ ConnFollows /\ ScreenJoins /\ NothingSkipped

SessionRecords == [phase : {"boot", "booted", "open"}, asOf : 0..MaxStreamEvents,
                   oldest : 1..(MaxStreamEvents + 1), resetting : BOOLEAN]
ClientRecords == [start : 0..MaxStreamEvents, lastId : 0..MaxStreamEvents, paused : BOOLEAN]
ConnRecords == [pc : {"none", "opening", "loop"}, after : 0..MaxStreamEvents]
ScreenRecords == [phase : Phases, data : SUBSET Ids, asOf : 0..MaxStreamEvents, buf : SUBSET Ids]

LEMMA StreamParts ==
    ASSUME StreamTypeOK
    PROVE  /\ newest \in 0..MaxStreamEvents /\ boundary \in 1..(MaxStreamEvents + 1) /\ MaxStreamEvents \in Nat
           /\ newest \in Nat /\ boundary \in Nat /\ stored \in SUBSET Nat
           /\ conn \in ConnRecords /\ session \in SessionRecords /\ client \in ClientRecords
           /\ screen \in ScreenRecords /\ times \in [{"retentions", "breaks", "loads"} -> Nat]
           /\ conn.pc \in {"none", "opening", "loop"} /\ conn.after \in Nat
           /\ session.asOf \in Nat /\ client.lastId \in Nat /\ client.start \in Nat
           /\ screen.asOf \in Nat /\ screen.data \subseteq Ids /\ screen.buf \subseteq Ids
<1>1. MaxStreamEvents \in Nat
  BY StreamAssumption
<1>2. conn \in ConnRecords /\ session \in SessionRecords /\ client \in ClientRecords /\ screen \in ScreenRecords
  BY DEF StreamTypeOK, ConnRecords, SessionRecords, ClientRecords, ScreenRecords
<1>3. /\ conn.pc \in {"none", "opening", "loop"} /\ conn.after \in Nat
      /\ session.asOf \in Nat /\ client.lastId \in Nat /\ client.start \in Nat
      /\ screen.asOf \in Nat /\ screen.data \subseteq Ids /\ screen.buf \subseteq Ids
  BY <1>1, <1>2 DEF ConnRecords, SessionRecords, ClientRecords, ScreenRecords
<1> QED
  BY <1>1, <1>2, <1>3 DEF StreamTypeOK

LEMMA NewestIdFacts ==
    ASSUME StreamTypeOK
    PROVE  NewestId \in 0..newest
<1>1. newest \in Nat /\ stored \subseteq 1..newest
  BY StreamParts DEF StreamTypeOK
<1>2. stored \cup {0} \in SUBSET Nat /\ stored \cup {0} # {} /\ \A e \in stored \cup {0} : e <= newest
  BY <1>1
<1>3. Max(stored \cup {0}) \in stored \cup {0}
  BY <1>1, <1>2, MaxFacts
<1>4. \A e \in stored \cup {0} : e \in 0..newest
  BY <1>1
<1> QED
  BY <1>3, <1>4 DEF NewestId

(* A batch is the next rows above the position, in order. *)
LEMMA QueryFacts ==
    ASSUME StreamTypeOK, NEW id \in Nat, NEW b \in Query(id)
    PROVE  /\ Len(b) \in Nat \ {0} /\ b \in Seq(stored) /\ b \in Seq(0..newest)
           /\ \A i \in 1..Len(b) : b[i] \in stored /\ b[i] > id
           /\ \A i, j \in 1..Len(b) : i < j => b[i] < b[j]
           /\ \A e \in stored : e > id /\ e <= b[Len(b)] => \E i \in 1..Len(b) : b[i] = e
<1>1. PICK n \in 1..StreamBatch : b \in [1..n -> Above(id)]
  BY DEF Query, Rows
<1>2. n \in Nat \ {0} /\ newest \in Nat /\ stored \subseteq 1..newest
  <2>1. StreamBatch \in Nat
    BY StreamAssumption
  <2> QED
    BY <2>1, StreamParts, SMTT(30) DEF StreamTypeOK
<1>3. b \in Seq(stored) /\ b \in Seq(0..newest) /\ Len(b) = n /\ DOMAIN b = 1..n
  <2>1. b \in [1..n -> stored] /\ b \in [1..n -> 0..newest]
    <3>1. Above(id) \subseteq stored /\ stored \subseteq 0..newest
      BY <1>2 DEF Above
    <3> QED
      BY <1>1, <3>1
  <2>2. b \in Seq(stored) /\ b \in Seq(0..newest)
    BY <1>2, <2>1, SeqDef
  <2>3. DOMAIN b = 1..Len(b) /\ Len(b) \in Nat /\ DOMAIN b = 1..n
    BY <2>1, <2>2, LenProperties
  <2>4. 1..Len(b) = 1..n
    BY <2>3
  <2>5. n \in 1..n /\ (Len(b) >= 1 => Len(b) \in 1..Len(b))
    BY <1>2, <2>3
  <2>6. n \in 1..Len(b) /\ (Len(b) >= 1 => Len(b) \in 1..n)
    BY <2>4, <2>5
  <2>7. Len(b) \in Nat /\ n >= 1 /\ n <= Len(b)
    BY ONLY <1>2, <2>3, <2>6
  <2>8. Len(b) <= n
    BY ONLY <1>2, <2>6, <2>7
  <2>9. Len(b) = n
    BY ONLY <1>2, <2>7, <2>8
  <2> QED
    BY <2>2, <2>3, <2>9
<1>4. /\ \A i, j \in DOMAIN b : i < j => b[i] < b[j]
      /\ \A e \in Above(id) : e <= b[Len(b)] => \E i \in DOMAIN b : b[i] = e
  BY DEF Query
<1> QED
  BY <1>1, <1>2, <1>3, <1>4 DEF Above

LEMMA StreamStarts == StreamInit => StreamInv
<1> SUFFICES ASSUME StreamInit PROVE StreamInv
  OBVIOUS
<1>1. MaxStreamEvents \in Nat /\ <<>> \in Seq(0..MaxStreamEvents) /\ <<>> \in Seq(0..0) /\ Len(<<>>) = 0
  BY StreamAssumption, EmptySeq
<1>2. StreamTypeOK
  BY <1>1 DEF StreamInit, StreamTypeOK, NoConn, Phases, Ids
<1>3. StreamBounds
  BY <1>1 DEF StreamInit, StreamBounds, NoConn
<1>4. ConnFollows /\ ScreenJoins /\ NothingSkipped
  BY <1>1 DEF StreamInit, ConnFollows, ScreenJoins, NothingSkipped, NoConn
<1> QED
  BY <1>2, <1>3, <1>4 DEF StreamInv

(* The log. *)
LEMMA CommitKeeps == ASSUME StreamInv, Commit PROVE StreamInv'
<1>1. StreamTypeOK /\ StreamBounds /\ ConnFollows /\ ScreenJoins /\ NothingSkipped
  BY DEF StreamInv
<1>2. /\ newest < MaxStreamEvents /\ newest' = newest + 1 /\ stored' = stored \cup {newest + 1}
      /\ boundary' = boundary /\ conn' = conn /\ wire' = wire /\ session' = session /\ client' = client
      /\ received' = received /\ screen' = screen /\ times' = times
  BY DEF Commit, clientVars
<1>3. newest \in Nat /\ boundary \in Nat /\ MaxStreamEvents \in Nat /\ stored = boundary..newest /\ boundary <= newest + 1
  BY <1>1, StreamParts DEF StreamBounds
<1>4. StreamTypeOK'
  BY <1>1, <1>2, <1>3 DEF StreamTypeOK
<1>5. StreamBounds'
  <2>1. wire \in Seq(0..(newest + 1))
    <3>1. 0..newest \subseteq 0..(newest + 1)
      BY <1>3
    <3> QED
      BY <1>1, <3>1, SeqMonotonic DEF StreamBounds
  <2>2. stored' = boundary..(newest + 1)
    BY <1>2, <1>3
  <2>3. conn.after \in Nat /\ session.asOf \in Nat /\ client.lastId \in Nat
    BY <1>1, StreamParts
  <2> QED
    BY <1>1, <1>2, <1>3, <2>1, <2>2, <2>3 DEF StreamBounds
<1>6. ConnFollows'
  <2>1. conn.after <= newest /\ conn.after \in Nat
    BY <1>1, StreamParts DEF StreamBounds
  <2>2. ~ (newest + 1 <= conn.after)
    BY <1>3, <2>1
  <2> QED
    BY <1>1, <1>2, <2>2 DEF ConnFollows, Following, ToldToReset
<1>7. ScreenJoins'
  BY <1>1, <1>2 DEF ScreenJoins
<1>8. NothingSkipped'
  <2>1. client.lastId <= newest /\ client.lastId \in Nat /\ client.start \in Nat
    BY <1>1, StreamParts DEF StreamBounds
  <2>2. newest + 1 \notin (client.start + 1)..client.lastId
    BY <1>3, <2>1
  <2> QED
    BY <1>1, <1>2, <2>2 DEF NothingSkipped
<1> QED
  BY <1>4, <1>5, <1>6, <1>7, <1>8 DEF StreamInv

LEMMA RetainKeeps == ASSUME StreamInv, NEW through \in stored, Retain(through) PROVE StreamInv'
<1>1. StreamTypeOK /\ StreamBounds /\ ConnFollows /\ ScreenJoins /\ NothingSkipped
  BY DEF StreamInv
<1>2. /\ newest' = newest /\ stored' = {e \in stored : e > through} /\ boundary' = through + 1
      /\ conn' = conn /\ wire' = wire /\ session' = session /\ client' = client
      /\ received' = received /\ screen' = screen
  BY DEF Retain, clientVars
<1>3. newest \in Nat /\ boundary \in Nat /\ MaxStreamEvents \in Nat /\ stored = boundary..newest
      /\ newest <= MaxStreamEvents /\ stored \subseteq 1..newest
  BY <1>1, StreamParts DEF StreamBounds, StreamTypeOK
<1>4. times' \in [{"retentions", "breaks", "loads"} -> Nat]
  BY <1>1, StreamParts DEF Retain, Counted
<1>5. StreamTypeOK'
  <2>1. stored' \subseteq 1..newest /\ boundary' \in 1..(MaxStreamEvents + 1)
    BY <1>2, <1>3
  <2> QED
    BY <1>1, <1>2, <1>4, <2>1 DEF StreamTypeOK
<1>6. StreamBounds'
  <2>1. through + 1 <= newest + 1 /\ stored' = (through + 1)..newest
    BY <1>2, <1>3
  <2> QED
    BY <1>1, <1>2, <2>1 DEF StreamBounds
<1>7. ConnFollows'
  BY <1>1, <1>2 DEF ConnFollows, Following, ToldToReset
<1>8. ScreenJoins' /\ NothingSkipped'
  BY <1>1, <1>2 DEF ScreenJoins, NothingSkipped
<1> QED
  BY <1>5, <1>6, <1>7, <1>8 DEF StreamInv

(* The shell. *)
LEMMA BootKeeps == ASSUME StreamInv, Bootstrap \/ StartStream PROVE StreamInv'
<1>1. StreamTypeOK /\ StreamBounds /\ ConnFollows /\ ScreenJoins /\ NothingSkipped
  BY DEF StreamInv
<1>2. /\ newest \in 0..MaxStreamEvents /\ boundary \in 1..(MaxStreamEvents + 1) /\ MaxStreamEvents \in Nat
      /\ session \in SessionRecords /\ screen \in ScreenRecords /\ session.asOf \in Nat /\ session.asOf <= newest
      /\ session.asOf \in 0..MaxStreamEvents
  BY <1>1, StreamParts DEF StreamBounds
<1>3. CASE Bootstrap
  <2>1. /\ session' = [session EXCEPT !.phase = "booted", !.asOf = NewestId, !.oldest = boundary]
        /\ UNCHANGED <<newest, stored, boundary, conn, wire, client, received, screen, times>>
    BY <1>3 DEF Bootstrap, storedVars
  <2>0. NewestId \in 0..newest /\ NewestId \in 0..MaxStreamEvents
    BY <1>1, <1>2, NewestIdFacts
  <2>2. session' \in SessionRecords /\ session'.asOf = NewestId /\ NewestId \in 0..newest
    BY <1>2, <2>0, <2>1 DEF SessionRecords
  <2>3. StreamTypeOK'
    BY <1>1, <2>1, <2>2 DEF StreamTypeOK, SessionRecords
  <2>4. StreamBounds'
    BY <1>1, <1>2, <2>1, <2>2 DEF StreamBounds
  <2>5. ConnFollows' /\ ScreenJoins' /\ NothingSkipped'
    BY <1>1, <2>1 DEF ConnFollows, Following, ToldToReset, ScreenJoins, NothingSkipped
  <2> QED
    BY <2>3, <2>4, <2>5 DEF StreamInv
<1>4. CASE StartStream
  <2>1. /\ session' = [session EXCEPT !.phase = "open", !.resetting = FALSE]
        /\ client' = [start |-> session.asOf, lastId |-> session.asOf, paused |-> FALSE]
        /\ received' = {} /\ conn' = [pc |-> "opening", after |-> session.asOf] /\ wire' = <<>>
        /\ screen' = screen \/ screen' = [screen EXCEPT !.phase = "reload"]
        /\ UNCHANGED <<newest, stored, boundary, times>>
    BY <1>4 DEF StartStream, Started, storedVars
  <2>2. /\ session' \in SessionRecords /\ session'.asOf = session.asOf
        /\ client'.lastId = session.asOf /\ client'.start = session.asOf
        /\ conn'.pc = "opening" /\ conn'.after = session.asOf
    BY <1>2, <2>1 DEF SessionRecords
  <2>3. /\ screen' \in ScreenRecords
    BY <1>2, <2>1 DEF ScreenRecords, Phases
  <2>4. client' \in ClientRecords /\ conn' \in ConnRecords
    BY <1>2, <2>1 DEF ClientRecords, ConnRecords
  <2>5. wire' \in Seq(0..MaxStreamEvents) /\ wire' \in Seq(0..newest)
    BY <2>1, EmptySeq
  <2>6. StreamTypeOK'
    BY <1>1, <2>1, <2>2, <2>3, <2>4, <2>5 DEF StreamTypeOK, SessionRecords, ClientRecords, ConnRecords, ScreenRecords
  <2>7. StreamBounds'
    BY <1>1, <1>2, <2>1, <2>2, <2>5 DEF StreamBounds
  <2>8. ConnFollows' /\ ScreenJoins'
    BY <2>1, <2>2 DEF ConnFollows, ScreenJoins
  <2>9. NothingSkipped'
    BY <1>2, <2>2 DEF NothingSkipped
  <2> QED
    BY <2>6, <2>7, <2>8, <2>9 DEF StreamInv
<1> QED
  BY <1>3, <1>4

(* The connection. *)
LEMMA OpenKeeps == ASSUME StreamInv, OpenStream PROVE StreamInv'
<1>1. StreamTypeOK /\ StreamBounds /\ ConnFollows /\ ScreenJoins /\ NothingSkipped
  BY DEF StreamInv
<1>2. /\ newest \in Nat /\ boundary \in Nat /\ boundary >= 1 /\ boundary <= newest + 1 /\ newest <= MaxStreamEvents
      /\ MaxStreamEvents \in Nat /\ conn \in ConnRecords /\ conn.after \in Nat /\ conn.after <= newest
  BY <1>1, StreamParts DEF StreamBounds
<1>3. /\ UNCHANGED <<newest, stored, boundary, session, client, received, screen, times>>
      /\ conn.pc = "opening" /\ wire = <<>> /\ conn.after = client.lastId
  BY <1>1 DEF OpenStream, storedVars, clientVars, ConnFollows
<1>4. CASE conn.after + 1 < boundary
  <2>1. wire' = Append(<<>>, Reset) /\ conn' = [pc |-> "loop", after |-> boundary - 1]
    BY <1>3, <1>4 DEF OpenStream, ResetPoint
  <2>2. /\ wire' \in Seq(0..newest) /\ Len(wire') = 1 /\ wire'[1] = Reset
    <3>1. <<>> \in Seq(0..newest) /\ Len(<<>>) = 0 /\ Reset \in 0..newest
      BY <1>2, EmptySeq DEF Reset
    <3> QED
      BY <2>1, <3>1, AppendProperties
  <2>3. wire' \in Seq(0..MaxStreamEvents)
    <3>1. 0..newest \subseteq 0..MaxStreamEvents
      BY <1>2
    <3> QED
      BY <2>2, <3>1, SeqMonotonic
  <2>4. conn' \in ConnRecords /\ conn'.after <= newest /\ conn'.pc = "loop"
    BY <1>2, <2>1 DEF ConnRecords
  <2>5. StreamTypeOK' /\ StreamBounds'
    BY <1>1, <1>3, <2>2, <2>3, <2>4 DEF StreamTypeOK, StreamBounds, ConnRecords
  <2>6. ConnFollows'
    BY <2>2, <2>4 DEF ConnFollows, ToldToReset
  <2> QED
    BY <1>1, <1>3, <2>5, <2>6 DEF StreamInv, ScreenJoins, NothingSkipped
<1>5. CASE ~ (conn.after + 1 < boundary)
  <2>1. wire' = wire /\ conn' = [conn EXCEPT !.pc = "loop"]
    BY <1>5 DEF OpenStream
  <2>2. conn' \in ConnRecords /\ conn'.after = conn.after /\ conn'.pc = "loop"
    BY <1>2, <2>1 DEF ConnRecords
  <2>3. StreamTypeOK' /\ StreamBounds'
    BY <1>1, <1>3, <2>1, <2>2 DEF StreamTypeOK, StreamBounds, ConnRecords
  <2>4. Following'
    <3>1. Len(wire') = 0 /\ client'.lastId = conn'.after /\ conn'.after \in Nat
      BY <1>2, <1>3, <2>1, <2>2, EmptySeq
    <3>2. stored' \in SUBSET Nat
      BY <1>1, <1>3, StreamParts
    <3> QED
      BY <3>1, <3>2 DEF Following
  <2>5. ConnFollows'
    BY <2>2, <2>4 DEF ConnFollows
  <2> QED
    BY <1>1, <1>3, <2>3, <2>5 DEF StreamInv, ScreenJoins, NothingSkipped
<1> QED
  BY <1>4, <1>5

LEMMA SendKeeps == ASSUME StreamInv, SendBatch PROVE StreamInv'
<1>1. StreamTypeOK /\ StreamBounds /\ ConnFollows /\ ScreenJoins /\ NothingSkipped
  BY DEF StreamInv
<1>2. PICK b \in Query(conn.after) : wire' = wire \o b /\ conn' = [conn EXCEPT !.after = b[Len(b)]]
  BY DEF SendBatch
<1>3. /\ UNCHANGED <<newest, stored, boundary, session, client, received, screen, times>> /\ conn.pc = "loop"
  BY DEF SendBatch, storedVars, clientVars
<1>4. /\ newest \in Nat /\ newest <= MaxStreamEvents /\ MaxStreamEvents \in Nat /\ stored \subseteq 1..newest
      /\ conn \in ConnRecords /\ conn.after \in Nat /\ wire \in Seq(0..newest) /\ client.lastId \in Nat
  BY <1>1, StreamParts DEF StreamBounds, StreamTypeOK
<1>5. /\ Len(b) \in Nat \ {0} /\ b \in Seq(0..newest)
      /\ \A i \in 1..Len(b) : b[i] \in stored /\ b[i] > conn.after
      /\ \A i, j \in 1..Len(b) : i < j => b[i] < b[j]
      /\ \A e \in stored : e > conn.after /\ e <= b[Len(b)] => \E i \in 1..Len(b) : b[i] = e
  BY <1>1, <1>4, QueryFacts
<1>6. /\ wire' \in Seq(0..newest) /\ Len(wire') = Len(wire) + Len(b) /\ Len(wire) \in Nat
      /\ \A i \in 1..(Len(wire) + Len(b)) : wire'[i] = IF i <= Len(wire) THEN wire[i] ELSE b[i - Len(wire)]
  BY <1>2, <1>4, <1>5, ConcatProperties, LenProperties
<1>7. b[Len(b)] \in stored /\ b[Len(b)] > conn.after /\ b[Len(b)] \in 1..newest /\ b[Len(b)] \in Nat
  BY <1>4, <1>5
<1>8. conn' \in ConnRecords /\ conn'.pc = "loop" /\ conn'.after = b[Len(b)] /\ conn'.after <= newest
  BY <1>2, <1>3, <1>4, <1>7 DEF ConnRecords
<1>9. StreamTypeOK' /\ StreamBounds'
  <2>1. 0..newest \subseteq 0..MaxStreamEvents
    BY <1>4
  <2>2. wire' \in Seq(0..MaxStreamEvents)
    BY <1>6, <2>1, SeqMonotonic
  <2> QED
    BY <1>1, <1>3, <1>6, <1>8, <2>2 DEF StreamTypeOK, StreamBounds, ConnRecords
<1>10. ToldToReset => ToldToReset'
  BY <1>4, <1>5, <1>6, SMTT(30) DEF ToldToReset
<1>11. ASSUME Following PROVE Following'
  <2>1. /\ client.lastId <= conn.after
        /\ \A i \in 1..Len(wire) : client.lastId < wire[i] /\ wire[i] <= conn.after /\ wire[i] \in Nat
        /\ \A i, j \in 1..Len(wire) : i < j => wire[i] < wire[j]
        /\ \A e \in stored : client.lastId < e /\ e <= conn.after => \E i \in 1..Len(wire) : wire[i] = e
    BY <1>4, <1>11, ElementOfSeq DEF Following
  <2>2. \A i \in 1..Len(b) : b[i] \in Nat /\ b[i] > conn.after /\ b[i] <= b[Len(b)]
    <3> SUFFICES ASSUME NEW i \in 1..Len(b) PROVE b[i] \in Nat /\ b[i] > conn.after /\ b[i] <= b[Len(b)]
      OBVIOUS
    <3>1. b[i] \in Nat /\ b[i] > conn.after
      BY <1>4, <1>5
    <3>2. i = Len(b) \/ (i < Len(b) /\ Len(b) \in 1..Len(b))
      BY <1>5
    <3> QED
      BY <1>5, <1>7, <3>1, <3>2
  <2>3. ASSUME NEW i \in 1..Len(wire')
        PROVE  \/ i \in 1..Len(wire) /\ wire'[i] = wire[i]
               \/ i > Len(wire) /\ i - Len(wire) \in 1..Len(b) /\ wire'[i] = b[i - Len(wire)]
    BY <1>5, <1>6
  <2>4. client.lastId <= b[Len(b)]
    BY <1>4, <1>7, <2>1
  <2>5. ASSUME NEW i \in 1..Len(wire') PROVE client.lastId < wire'[i] /\ wire'[i] <= b[Len(b)]
    <3>1. CASE i \in 1..Len(wire) /\ wire'[i] = wire[i]
      BY <1>4, <1>7, <2>1, <3>1
    <3>2. CASE i - Len(wire) \in 1..Len(b) /\ wire'[i] = b[i - Len(wire)]
      BY <1>4, <1>7, <2>1, <2>2, <3>2, SMTT(30)
    <3> QED
      BY <2>3, <3>1, <3>2
  <2>6. ASSUME NEW i \in 1..Len(wire'), NEW j \in 1..Len(wire'), i < j PROVE wire'[i] < wire'[j]
    <3> DEFINE k == i - Len(wire)
               l == j - Len(wire)
    <3>1. CASE i \in 1..Len(wire) /\ wire'[i] = wire[i] /\ j \in 1..Len(wire) /\ wire'[j] = wire[j]
      BY <2>1, <2>6, <3>1
    <3>2. CASE i \in 1..Len(wire) /\ wire'[i] = wire[i] /\ l \in 1..Len(b) /\ wire'[j] = b[l]
      <4> HIDE DEF l
      <4> QED
        BY <1>4, <2>1, <2>2, <3>2, SMTT(30)
    <3>3. CASE k \in 1..Len(b) /\ wire'[i] = b[k] /\ l \in 1..Len(b) /\ wire'[j] = b[l]
      <4>1. k < l
        BY <1>6, <2>6
      <4> HIDE DEF k, l
      <4> QED
        BY <1>5, <3>3, <4>1
    <3> QED
      BY <1>6, <2>3, <2>6, <3>1, <3>2, <3>3
  <2>7. ASSUME NEW e \in stored, client.lastId < e, e <= b[Len(b)] PROVE \E i \in 1..Len(wire') : wire'[i] = e
    <3>1. CASE e <= conn.after
      <4>1. PICK i \in 1..Len(wire) : wire[i] = e
        BY <2>1, <2>7, <3>1
      <4>2. i \in 1..Len(wire') /\ wire'[i] = e
        BY <1>5, <1>6, <4>1
      <4> QED
        BY <4>2
    <3>2. CASE e > conn.after
      <4>1. PICK i \in 1..Len(b) : b[i] = e
        BY <1>5, <2>7, <3>2
      <4>2. Len(wire) + i \in 1..Len(wire') /\ ~ (Len(wire) + i <= Len(wire)) /\ (Len(wire) + i) - Len(wire) = i
        BY <1>5, <1>6
      <4>3. wire'[Len(wire) + i] = e
        BY <1>6, <4>1, <4>2
      <4> QED
        BY <4>2, <4>3
    <3> QED
      BY <1>4, <3>1, <3>2
  <2> QED
    BY <1>3, <1>8, <2>4, <2>5, <2>6, <2>7 DEF Following
<1>12. ConnFollows'
  BY <1>1, <1>3, <1>8, <1>10, <1>11 DEF ConnFollows
<1> QED
  BY <1>1, <1>3, <1>9, <1>12 DEF StreamInv, ScreenJoins, NothingSkipped

LEMMA ReconnectKeeps == ASSUME StreamInv, Break \/ Reconnect PROVE StreamInv'
<1>1. StreamTypeOK /\ StreamBounds /\ ConnFollows /\ ScreenJoins /\ NothingSkipped
  BY DEF StreamInv
<1>2. /\ newest \in Nat /\ MaxStreamEvents \in Nat /\ client \in ClientRecords
      /\ client.lastId \in 0..MaxStreamEvents /\ client.lastId <= newest
  BY <1>1, StreamParts DEF StreamBounds, StreamTypeOK, ClientRecords
<1>3. CASE Break
  <2>1. /\ UNCHANGED <<newest, stored, boundary, session, client, received, screen>>
        /\ conn' = [pc |-> "none", after |-> 0] /\ wire' = <<>>
    BY <1>3 DEF Break, NoConn, storedVars, clientVars
  <2>2. conn' \in ConnRecords /\ conn'.pc = "none" /\ conn'.after = 0
    BY <1>2, <2>1 DEF ConnRecords
  <2>3. times' \in [{"retentions", "breaks", "loads"} -> Nat]
    BY <1>1, <1>3, StreamParts DEF Break, Counted
  <2>4. wire' \in Seq(0..MaxStreamEvents) /\ wire' \in Seq(0..newest)
    BY <2>1, EmptySeq
  <2>5. StreamTypeOK' /\ StreamBounds'
    BY <1>1, <1>2, <2>1, <2>2, <2>3, <2>4, SMTT(30) DEF StreamTypeOK, StreamBounds, ConnRecords
  <2>6. ConnFollows'
    BY <2>1, <2>2 DEF ConnFollows
  <2> QED
    BY <1>1, <2>1, <2>5, <2>6 DEF StreamInv, ScreenJoins, NothingSkipped
<1>4. CASE Reconnect
  <2>1. /\ UNCHANGED <<newest, stored, boundary, wire, session, client, received, screen, times>>
        /\ conn' = [pc |-> "opening", after |-> client.lastId] /\ wire = <<>>
    BY <1>1, <1>4 DEF Reconnect, ResumePoint, storedVars, clientVars, ConnFollows
  <2>2. conn' \in ConnRecords /\ conn'.pc = "opening" /\ conn'.after = client.lastId
    BY <1>2, <2>1 DEF ConnRecords
  <2>3. StreamTypeOK' /\ StreamBounds'
    BY <1>1, <1>2, <2>1, <2>2 DEF StreamTypeOK, StreamBounds, ConnRecords
  <2>4. ConnFollows'
    BY <2>1, <2>2 DEF ConnFollows
  <2> QED
    BY <1>1, <2>1, <2>3, <2>4 DEF StreamInv, ScreenJoins, NothingSkipped
<1> QED
  BY <1>3, <1>4

(* The client. *)
LEMMA ReceiveKeeps == ASSUME StreamInv, Receive PROVE StreamInv'
<1>1. StreamTypeOK /\ StreamBounds /\ ConnFollows /\ ScreenJoins /\ NothingSkipped
  BY DEF StreamInv
<1>2. UNCHANGED <<newest, stored, boundary, conn, times>> /\ wire # <<>> /\ wire' = Tail(wire)
  BY DEF Receive, storedVars
<1> DEFINE m == Head(wire)
<1>3. /\ newest \in Nat /\ newest <= MaxStreamEvents /\ MaxStreamEvents \in Nat /\ stored \in SUBSET Nat
      /\ wire \in Seq(0..newest) /\ client \in ClientRecords /\ session \in SessionRecords /\ screen \in ScreenRecords
      /\ client.lastId \in Nat /\ client.lastId <= newest /\ client.start \in Nat
      /\ received \subseteq 1..newest /\ conn.after \in Nat
  BY <1>1, StreamParts DEF StreamBounds, StreamTypeOK
<1>4. /\ Len(wire) \in Nat /\ Len(wire) > 0 /\ m = wire[1] /\ m \in 0..newest
      /\ wire' \in Seq(0..newest) /\ Len(wire') = Len(wire) - 1
      /\ \A i \in 1..Len(wire') : wire'[i] = wire[i + 1]
  <2>1. wire' \in Seq(0..newest) /\ Len(wire') = Len(wire) - 1 /\ \A i \in 1..Len(wire') : wire'[i] = wire[i + 1]
    BY <1>2, <1>3, HeadTailProperties
  <2>2. Len(wire) \in Nat /\ Len(wire) > 0 /\ m = wire[1]
    BY <1>2, <1>3, EmptySeq, LenProperties
  <2>3. wire[1] \in 0..newest
    BY <1>3, <2>2, ElementOfSeq
  <2> QED
    BY <2>1, <2>2, <2>3
<1>5. wire' \in Seq(0..MaxStreamEvents)
  <2>1. 0..newest \subseteq 0..MaxStreamEvents
    BY <1>3
  <2> QED
    BY <1>4, <2>1, SeqMonotonic
<1>6. conn.pc = "loop"
  BY <1>1, <1>2 DEF ConnFollows
<1> HIDE DEF m
<1>7. ASSUME Following
      PROVE  /\ m # Reset /\ m > client.lastId /\ m <= conn.after
             /\ \A i \in 1..Len(wire') : m < wire'[i] /\ wire'[i] <= conn.after
             /\ \A i, j \in 1..Len(wire') : i < j => wire'[i] < wire'[j]
             /\ \A e \in stored : m < e /\ e <= conn.after => \E i \in 1..Len(wire') : wire'[i] = e
             /\ \A e \in stored : client.lastId < e => m <= e
  <2>1. /\ \A i \in 1..Len(wire) : client.lastId < wire[i] /\ wire[i] <= conn.after
        /\ \A i, j \in 1..Len(wire) : i < j => wire[i] < wire[j]
        /\ \A e \in stored : client.lastId < e /\ e <= conn.after => \E i \in 1..Len(wire) : wire[i] = e
    BY <1>7 DEF Following
  <2>2. 1 \in 1..Len(wire) /\ m \in Nat /\ \A i \in 1..Len(wire') : i + 1 \in 1..Len(wire) /\ 1 < i + 1
    BY <1>3, <1>4
  <2>3. m # Reset /\ m > client.lastId /\ m <= conn.after
    BY <1>3, <1>4, <2>1, <2>2 DEF Reset
  <2>4. \A i \in 1..Len(wire') : m < wire'[i] /\ wire'[i] <= conn.after
    BY <1>4, <2>1, <2>2
  <2>5. ASSUME NEW i \in 1..Len(wire'), NEW j \in 1..Len(wire'), i < j PROVE wire'[i] < wire'[j]
    <3>1. i + 1 < j + 1
      BY <2>5
    <3> QED
      BY <1>4, <2>1, <2>2, <3>1
  <2>6. ASSUME NEW e \in stored, client.lastId < e, e <= conn.after
        PROVE  m = e \/ (m < e /\ \E i \in 1..Len(wire') : wire'[i] = e)
    <3>1. PICK k \in 1..Len(wire) : wire[k] = e
      BY <2>1, <2>6
    <3>2. CASE k = 1
      BY <1>4, <3>1, <3>2
    <3>3. CASE k # 1
      <4>1. k - 1 \in 1..Len(wire') /\ (k - 1) + 1 = k /\ 1 < k
        BY <1>4, <3>3
      <4>2. wire'[k - 1] = e /\ m < e
        BY <1>4, <2>1, <2>2, <3>1, <4>1
      <4> QED
        BY <4>1, <4>2
    <3> QED
      BY <3>2, <3>3
  <2>7. ASSUME NEW e \in stored, m < e, e <= conn.after PROVE \E i \in 1..Len(wire') : wire'[i] = e
    <3>1. client.lastId < e /\ m # e
      BY <1>3, <2>2, <2>3, <2>7
    <3> QED
      BY <2>6, <2>7, <3>1
  <2>8. ASSUME NEW e \in stored, client.lastId < e PROVE m <= e
    <3>1. CASE e <= conn.after
      <4>1. m = e \/ m < e
        BY <2>6, <2>8, <3>1
      <4> QED
        BY <1>3, <2>2, <4>1
    <3>2. CASE ~ (e <= conn.after)
      BY <1>3, <2>2, <2>3, <3>2
    <3> QED
      BY <3>1, <3>2
  <2> QED
    BY <2>3, <2>4, <2>5, <2>7, <2>8
<1>8. CASE /\ m = Reset /\ client' = [client EXCEPT !.paused = TRUE]
           /\ session' = [session EXCEPT !.phase = "boot", !.resetting = TRUE]
           /\ UNCHANGED <<received, screen>>
  <2>1. client' \in ClientRecords /\ client'.paused /\ client'.lastId = client.lastId /\ client'.start = client.start
    BY <1>3, <1>8 DEF ClientRecords
  <2>2. session' \in SessionRecords /\ session'.asOf = session.asOf
    BY <1>3, <1>8 DEF SessionRecords
  <2>3. StreamTypeOK' /\ StreamBounds'
    BY <1>1, <1>2, <1>4, <1>5, <1>8, <2>1, <2>2 DEF StreamTypeOK, StreamBounds, ClientRecords, SessionRecords
  <2>4. ConnFollows'
    BY <1>2, <1>6, <2>1 DEF ConnFollows
  <2> QED
    BY <1>1, <1>2, <1>8, <2>1, <2>3, <2>4 DEF StreamInv, ScreenJoins, NothingSkipped
<1>9. CASE /\ m # Reset /\ ~ client.paused /\ m > client.lastId
           /\ client' = [client EXCEPT !.lastId = m] /\ received' = received \cup {m}
           /\ session' = session /\ \E folds \in BOOLEAN : screen' = Notified(m, folds)
  <2>1. m \in 1..newest /\ m \in 0..MaxStreamEvents /\ m \in Nat /\ m \in Ids
    BY <1>3, <1>4, <1>9 DEF Reset, Ids
  <2>2. /\ client' \in ClientRecords /\ client'.paused = client.paused /\ client'.lastId = m
        /\ client'.start = client.start
    BY <1>3, <1>9, <2>1 DEF ClientRecords
  <2>3. Following
    BY <1>1, <1>4, <1>6, <1>9 DEF ConnFollows, ToldToReset
  <2>4. /\ screen' \in ScreenRecords
        /\ screen'.phase = screen.phase \/ screen'.phase = "reload"
        /\ screen'.asOf = screen.asOf
        /\ screen.phase \in Loading => screen'.data = screen.data /\ screen'.buf = screen.buf \cup {m}
        /\ screen.phase = "ready" /\ screen'.phase = "ready" =>
             \/ m > screen.asOf /\ screen'.data = screen.data \cup {m}
             \/ ~ (m > screen.asOf) /\ screen'.data = screen.data
    <3>1. PICK folds \in BOOLEAN : screen' = Notified(m, folds)
      BY <1>9
    <3>2. CASE screen.phase \in Loading
      <4>1. screen' = [screen EXCEPT !.buf = @ \cup {m}]
        BY <3>1, <3>2 DEF Notified
      <4> QED
        BY <1>3, <2>1, <3>2, <4>1 DEF ScreenRecords, Loading
    <3>3. CASE screen.phase \notin Loading
      <4>1. \/ /\ screen.phase = "ready" /\ m > screen.asOf
               /\ screen' = [screen EXCEPT !.data = @ \cup {m}] \/ screen' = [screen EXCEPT !.phase = "reload"]
            \/ ~ (screen.phase = "ready" /\ m > screen.asOf) /\ screen' = screen
        BY <3>1, <3>3 DEF Notified
      <4> QED
        BY <1>3, <2>1, <3>3, <4>1, SMTT(30) DEF ScreenRecords, Phases
    <3> QED
      BY <3>2, <3>3
  <2>5. StreamTypeOK' /\ StreamBounds'
    <3>1. received' \subseteq 1..newest /\ received' \subseteq Ids
      BY <1>3, <1>9, <2>1 DEF Ids
    <3> QED
      <4>1. StreamTypeOK'
        BY <1>1, <1>2, <1>5, <1>9, <2>2, <2>4, <3>1 DEF StreamTypeOK, ClientRecords, ScreenRecords
      <4>2. m <= newest
        BY <2>1
      <4>3. StreamBounds'
        BY <1>1, <1>2, <1>4, <1>9, <2>2, <3>1, <4>2 DEF StreamBounds
      <4> QED
        BY <4>1, <4>3
  <2>6. ConnFollows'
    <3>1. Following'
      BY <1>2, <1>7, <2>2, <2>3 DEF Following
    <3> QED
      BY <1>2, <1>6, <3>1 DEF ConnFollows
  <2>7. ScreenJoins'
    <3>1. screen'.phase \in {"data", "answered"} => received' \subseteq screen'.data \cup screen'.buf
      BY <1>1, <1>9, <2>4 DEF ScreenJoins, Loading
    <3>2. screen'.phase = "ready" => \A e \in received' : e > screen'.asOf => e \in screen'.data
      BY <1>1, <1>9, <2>4 DEF ScreenJoins, Loading
    <3> QED
      BY <3>1, <3>2 DEF ScreenJoins
  <2>8. NothingSkipped'
    <3> SUFFICES ASSUME NEW e \in (client.start + 1)..m, e \in stored PROVE e \in received \cup {m}
      BY <1>2, <1>9, <2>2 DEF NothingSkipped
    <3>1. CASE e <= client.lastId
      <4>1. e \in (client.start + 1)..client.lastId
        BY <1>3, <2>1, <3>1
      <4> QED
        BY <1>1, <4>1 DEF NothingSkipped
    <3>2. CASE ~ (e <= client.lastId)
      <4>1. client.lastId < e /\ e <= m
        BY <1>3, <2>1, <3>2
      <4>2. m <= e
        BY <1>7, <2>3, <4>1
      <4> QED
        BY <1>3, <2>1, <4>1, <4>2
    <3> QED
      BY <3>1, <3>2
  <2> QED
    BY <2>5, <2>6, <2>7, <2>8 DEF StreamInv
<1>10. CASE m # Reset /\ (client.paused \/ m <= client.lastId) /\ UNCHANGED clientVars
  <2>1. UNCHANGED <<session, client, received, screen>>
    BY <1>10 DEF clientVars
  <2>2. client.paused
    <3>1. ~ client.paused => Following
      BY <1>1, <1>4, <1>6, <1>10 DEF ConnFollows, ToldToReset
    <3>2. Following => m > client.lastId
      BY <1>7
    <3> QED
      BY <1>3, <1>4, <1>10, <3>1, <3>2
  <2>3. StreamTypeOK' /\ StreamBounds'
    BY <1>1, <1>2, <1>4, <1>5, <2>1 DEF StreamTypeOK, StreamBounds
  <2>4. ConnFollows'
    BY <1>2, <1>6, <2>1, <2>2 DEF ConnFollows
  <2> QED
    BY <1>1, <1>2, <2>1, <2>3, <2>4 DEF StreamInv, ScreenJoins, NothingSkipped
<1> QED
  BY <1>8, <1>9, <1>10 DEF Receive, m

(* The screen. *)
LEMMA ScreenKeeps ==
    ASSUME StreamInv, Load \/ Ask \/ ServeData \/ ServeTail \/ Install
    PROVE  StreamInv'
<1>1. StreamTypeOK /\ StreamBounds /\ ConnFollows /\ ScreenJoins /\ NothingSkipped
  BY DEF StreamInv
<1>2. UNCHANGED <<newest, stored, boundary, conn, wire, session, client, received>>
  BY DEF Load, Ask, ServeData, ServeTail, Install, storedVars
<1>3. times' \in [{"retentions", "breaks", "loads"} -> Nat]
  <2>1. times \in [{"retentions", "breaks", "loads"} -> Nat]
    BY <1>1, StreamParts
  <2>2. CASE Load
    BY <2>1, <2>2 DEF Load, Counted
  <2> QED
    BY <2>1, <2>2 DEF Ask, ServeData, ServeTail, Install
<1>4. /\ newest \in Nat /\ newest <= MaxStreamEvents /\ MaxStreamEvents \in Nat /\ screen \in ScreenRecords
      /\ screen.data \subseteq Ids /\ screen.buf \subseteq Ids /\ received \subseteq 1..newest
  BY <1>1, StreamParts DEF StreamBounds
<1>5. screen' \in ScreenRecords /\ ScreenJoins'
  <2>1. CASE Load \/ Ask
    <3>1. screen' \in {[screen EXCEPT !.phase = "reload"], [screen EXCEPT !.phase = "asked", !.buf = {}]}
      BY <2>1 DEF Load, Ask
    <3>2. screen' \in ScreenRecords /\ screen'.phase \in {"reload", "asked"}
      BY <1>4, <3>1 DEF ScreenRecords, Phases
    <3> QED
      BY <3>2 DEF ScreenJoins
  <2>2. CASE ServeData
    <3>1. screen' = [screen EXCEPT !.phase = "data", !.data = 1..newest] /\ 1..newest \subseteq Ids
      BY <1>4, <2>2 DEF ServeData, Ids
    <3>2. screen' \in ScreenRecords /\ screen'.phase = "data" /\ screen'.data = 1..newest
      BY <1>4, <3>1 DEF ScreenRecords, Phases
    <3> QED
      BY <1>2, <1>4, <3>2 DEF ScreenJoins
  <2>3. CASE ServeTail
    <3>1. screen' = [screen EXCEPT !.phase = "answered", !.asOf = NewestId] /\ screen.phase = "data"
      BY <2>3 DEF ServeTail
    <3>2. NewestId \in 0..MaxStreamEvents
      BY <1>1, <1>4, NewestIdFacts
    <3>3. /\ screen' \in ScreenRecords /\ screen'.phase = "answered" /\ screen'.data = screen.data
          /\ screen'.buf = screen.buf
      BY <1>4, <3>1, <3>2 DEF ScreenRecords, Phases
    <3> QED
      BY <1>1, <1>2, <3>1, <3>3 DEF ScreenJoins
  <2>4. CASE Install
    <3>1. /\ screen.phase = "answered"
          /\ \/ screen' = [screen EXCEPT !.phase = "ready", !.data = screen.data \cup Pending, !.buf = {}]
             \/ screen' = [screen EXCEPT !.phase = "reload"]
      BY <2>4 DEF Install
    <3>2. Pending \subseteq Ids
      BY <1>4 DEF Pending
    <3>3. /\ screen' \in ScreenRecords
          /\ \/ screen'.phase = "ready" /\ screen'.data = screen.data \cup Pending /\ screen'.asOf = screen.asOf
             \/ screen'.phase = "reload"
      BY <1>4, <3>1, <3>2, ZenonT(40) DEF ScreenRecords, Phases
    <3>4. received \subseteq screen.data \cup screen.buf
      BY <1>1, <3>1 DEF ScreenJoins
    <3> QED
      BY <1>2, <3>3, <3>4 DEF ScreenJoins, Pending
  <2> QED
    BY <2>1, <2>2, <2>3, <2>4
<1>6. StreamTypeOK' /\ StreamBounds'
  BY <1>1, <1>2, <1>3, <1>5 DEF StreamTypeOK, StreamBounds, ScreenRecords
<1>7. ConnFollows' /\ NothingSkipped'
  BY <1>1, <1>2 DEF ConnFollows, Following, ToldToReset, NothingSkipped
<1> QED
  BY <1>5, <1>6, <1>7 DEF StreamInv

LEMMA StreamSteps == ASSUME StreamInv, [StreamNext]_streamVars PROVE StreamInv'
<1>1. CASE UNCHANGED streamVars
  <2>1. StreamTypeOK' /\ StreamBounds' /\ NothingSkipped'
    BY <1>1 DEF streamVars, StreamInv, StreamTypeOK, StreamBounds, NothingSkipped
  <2>2. ConnFollows'
    BY <1>1 DEF streamVars, StreamInv, ConnFollows, Following, ToldToReset
  <2>3. ScreenJoins'
    BY <1>1 DEF streamVars, StreamInv, ScreenJoins
  <2> QED
    BY <2>1, <2>2, <2>3 DEF StreamInv
<1>2. CASE StreamNext
  BY <1>2, CommitKeeps, RetainKeeps, BootKeeps, OpenKeeps, SendKeeps, ReconnectKeeps, ReceiveKeeps, ScreenKeeps
     DEF StreamNext
<1> QED
  BY <1>1, <1>2

(* Whatever breaks, repeats and resets: between the position a client       *)
(* started from and its high-water mark every event that is still stored    *)
(* was delivered; and on a screen that joined its snapshot to the stream    *)
(* there is every delivered event above the snapshot's boundary             *)
(* (stream.go, handleStream; ui/hooks.ts, useSnapshot).                     *)
THEOREM StreamStaysSafe == StreamSpec => []StreamSafe
<1>1. StreamInit => StreamInv
  BY StreamStarts
<1>2. StreamInv /\ [StreamNext]_streamVars => StreamInv'
  BY StreamSteps
<1>3. StreamInv => StreamSafe
  BY DEF StreamInv, StreamSafe, ScreenJoins, ScreenCovers
<1> QED
  BY <1>1, <1>2, <1>3, PTL DEF StreamSpec

(***************************************************************************)
(* The matchers of subscription patterns.                                  *)
(***************************************************************************)

(* The type from position t on can be cut into pieces for the pattern from p on. *)
Cuts(pat, typ, p, t) ==
    \E cut \in [p..Len(pat) -> 0..Len(typ)] :
        /\ cut[p] = t /\ cut[Len(pat)] = Len(typ)
        /\ \A i \in (p + 1)..Len(pat) :
              /\ cut[i - 1] <= cut[i]
              /\ Fits(pat[i], SubSeq(typ, cut[i - 1] + 1, cut[i]))

LEMMA MatchesIsCuts ==
    ASSUME NEW S, NEW pat \in Seq(S), NEW typ \in Seq(S)
    PROVE  Matches(pat, typ) <=> Cuts(pat, typ, 0, 0)
  BY DEF Matches, Cuts

(* A piece fits a wildcard for many, or it is one segment the pattern allows. *)
LEMMA PieceFits ==
    ASSUME NEW S, NEW typ \in Seq(S), NEW t \in 0..Len(typ), NEW i \in t..Len(typ), NEW seg
    PROVE  Fits(seg, SubSeq(typ, t + 1, i)) <=> (seg = Many \/ (i = t + 1 /\ seg \in {One, typ[i]}))
<1>1. Len(typ) \in Nat /\ t \in Nat /\ i \in Nat
  BY LenProperties
<1>2. \A j \in (t + 1)..i : typ[j] \in S
  BY <1>1, ElementOfSeq
<1>3. /\ Len(SubSeq(typ, t + 1, i)) = IF t + 1 <= i THEN i - (t + 1) + 1 ELSE 0
      /\ \A j \in 1..(i - (t + 1) + 1) : SubSeq(typ, t + 1, i)[j] = typ[(t + 1) + j - 1]
  BY <1>1, <1>2, SubSeqProperties
<1>4. Len(SubSeq(typ, t + 1, i)) = 1 <=> i = t + 1
  BY <1>1, <1>3
<1>5. i = t + 1 => SubSeq(typ, t + 1, i)[1] = typ[i]
  BY <1>1, <1>3
<1> QED
  BY <1>4, <1>5 DEF Fits

LEMMA CutsEnd ==
    ASSUME NEW S, NEW pat \in Seq(S), NEW typ \in Seq(S), NEW t \in 0..Len(typ)
    PROVE  Cuts(pat, typ, Len(pat), t) <=> t = Len(typ)
<1>1. Len(pat) \in Nat /\ Len(typ) \in Nat
  BY LenProperties
<1>2. ASSUME t = Len(typ) PROVE Cuts(pat, typ, Len(pat), t)
  <2> DEFINE cut == [i \in Len(pat)..Len(pat) |-> t]
  <2>1. cut \in [Len(pat)..Len(pat) -> 0..Len(typ)] /\ cut[Len(pat)] = t
    BY <1>1
  <2> HIDE DEF cut
  <2> QED
    BY <1>1, <1>2, <2>1 DEF Cuts
<1> QED
  BY <1>2 DEF Cuts

LEMMA CutsStep ==
    ASSUME NEW S, NEW pat \in Seq(S), NEW typ \in Seq(S), NEW p \in 0..(Len(pat) - 1), NEW t \in 0..Len(typ)
    PROVE  Cuts(pat, typ, p, t) <=>
             \E i \in t..Len(typ) : Fits(pat[p + 1], SubSeq(typ, t + 1, i)) /\ Cuts(pat, typ, p + 1, i)
<1>1. /\ Len(pat) \in Nat /\ Len(typ) \in Nat /\ p \in Nat /\ t \in Nat /\ p + 1 <= Len(pat)
      /\ p + 1 \in (p + 1)..Len(pat) /\ (p + 1) - 1 = p /\ p \in p..Len(pat)
  BY LenProperties
<1>2. ASSUME Cuts(pat, typ, p, t)
      PROVE  \E i \in t..Len(typ) : Fits(pat[p + 1], SubSeq(typ, t + 1, i)) /\ Cuts(pat, typ, p + 1, i)
  <2>1. PICK cut \in [p..Len(pat) -> 0..Len(typ)] :
          /\ cut[p] = t /\ cut[Len(pat)] = Len(typ)
          /\ \A i \in (p + 1)..Len(pat) : /\ cut[i - 1] <= cut[i]
                                          /\ Fits(pat[i], SubSeq(typ, cut[i - 1] + 1, cut[i]))
    BY <1>2 DEF Cuts
  <2> DEFINE after == [i \in (p + 1)..Len(pat) |-> cut[i]]
  <2>2. /\ after \in [(p + 1)..Len(pat) -> 0..Len(typ)] /\ after[p + 1] = cut[p + 1] /\ after[Len(pat)] = Len(typ)
        /\ \A i \in ((p + 1) + 1)..Len(pat) : after[i] = cut[i] /\ after[i - 1] = cut[i - 1] /\ i \in (p + 1)..Len(pat)
    BY <1>1, <2>1
  <2> HIDE DEF after
  <2>3. Cuts(pat, typ, p + 1, cut[p + 1])
    BY <2>1, <2>2 DEF Cuts
  <2>4. cut[p] <= cut[p + 1] /\ Fits(pat[p + 1], SubSeq(typ, cut[p] + 1, cut[p + 1])) /\ cut[p + 1] \in 0..Len(typ)
    BY <1>1, <2>1
  <2>5. cut[p + 1] \in t..Len(typ)
    BY <1>1, <2>1, <2>4
  <2> QED
    BY <2>1, <2>3, <2>4, <2>5
<1>3. ASSUME NEW i \in t..Len(typ), Fits(pat[p + 1], SubSeq(typ, t + 1, i)), Cuts(pat, typ, p + 1, i)
      PROVE  Cuts(pat, typ, p, t)
  <2>1. PICK after \in [(p + 1)..Len(pat) -> 0..Len(typ)] :
          /\ after[p + 1] = i /\ after[Len(pat)] = Len(typ)
          /\ \A j \in ((p + 1) + 1)..Len(pat) : /\ after[j - 1] <= after[j]
                                                /\ Fits(pat[j], SubSeq(typ, after[j - 1] + 1, after[j]))
    BY <1>3 DEF Cuts
  <2> DEFINE cut == [j \in p..Len(pat) |-> IF j = p THEN t ELSE after[j]]
  <2>2. cut \in [p..Len(pat) -> 0..Len(typ)]
    <3>1. \A j \in p..Len(pat) : j # p => j \in (p + 1)..Len(pat)
      BY <1>1
    <3> QED
      BY <2>1, <3>1
  <2>3. cut[p] = t /\ cut[p + 1] = i /\ cut[Len(pat)] = Len(typ)
    BY <1>1, <2>1
  <2>4. \A j \in ((p + 1) + 1)..Len(pat) : cut[j] = after[j] /\ cut[j - 1] = after[j - 1]
    BY <1>1
  <2> HIDE DEF cut
  <2>5. ASSUME NEW j \in (p + 1)..Len(pat)
        PROVE  cut[j - 1] <= cut[j] /\ Fits(pat[j], SubSeq(typ, cut[j - 1] + 1, cut[j]))
    <3>1. CASE j = p + 1
      <4>1. t <= i /\ j - 1 = p
        BY <1>1, <3>1
      <4> QED
        BY <1>3, <2>3, <3>1, <4>1
    <3>2. CASE j # p + 1
      <4>1. j \in ((p + 1) + 1)..Len(pat)
        BY <1>1, <3>2
      <4> QED
        BY <2>1, <2>4, <4>1
    <3> QED
      BY <3>1, <3>2
  <2> QED
    BY <2>2, <2>3, <2>5 DEF Cuts
<1> QED
  BY <1>2, <1>3

(* The two cases of a matcher's loop. *)
LEMMA CutsCases ==
    ASSUME NEW S, NEW pat \in Seq(S), NEW typ \in Seq(S), NEW p \in 0..(Len(pat) - 1), NEW t \in 0..Len(typ)
    PROVE  /\ pat[p + 1] = Many => (Cuts(pat, typ, p, t) <=> \E i \in t..Len(typ) : Cuts(pat, typ, p + 1, i))
           /\ pat[p + 1] # Many => (Cuts(pat, typ, p, t) <=> /\ t < Len(typ) /\ pat[p + 1] \in {One, typ[t + 1]}
                                                             /\ Cuts(pat, typ, p + 1, t + 1))
<1>1. Len(typ) \in Nat /\ t \in Nat /\ (t < Len(typ) <=> t + 1 \in t..Len(typ))
  BY LenProperties
<1>2. \A i \in t..Len(typ) :
        Fits(pat[p + 1], SubSeq(typ, t + 1, i)) <=> (pat[p + 1] = Many \/ (i = t + 1 /\ pat[p + 1] \in {One, typ[i]}))
  BY PieceFits
<1>3. Cuts(pat, typ, p, t) <=>
        \E i \in t..Len(typ) : Fits(pat[p + 1], SubSeq(typ, t + 1, i)) /\ Cuts(pat, typ, p + 1, i)
  BY CutsStep
<1> QED
  BY <1>1, <1>2, <1>3

(* Induction over the numbers, with a set in place of a predicate. *)
LEMMA InductionOnNat ==
    ASSUME NEW S, 0 \in S, \A n \in Nat : n \in S => n + 1 \in S
    PROVE  Nat \subseteq S
<1> SUFFICES ASSUME NEW T \in SUBSET Nat, T = Nat \ S, T # {} PROVE FALSE
  OBVIOUS
<1>1. PICK x \in T : \A y \in T : x <= y
  BY MinFacts
<1>2. x \in Nat /\ x # 0 /\ x \notin S
  OBVIOUS
<1>3. x - 1 \in Nat /\ ~ (x <= x - 1) /\ (x - 1) + 1 = x
  BY ONLY <1>2
<1> QED
  BY <1>1, <1>2, <1>3

(* The browser: what its loop does with the segment at p, given what it finds after it. *)
ClientStep(pat, typ, p, rest) ==
    IF pat[p + 1] = Many
    THEN {t \in 0..Len(typ) : p + 1 = Len(pat) \/ \E i \in ClientSplits(t, typ) : i \in rest}
    ELSE {t \in 0..Len(typ) : t < Len(typ) /\ pat[p + 1] \in {One, typ[t + 1]} /\ t + 1 \in rest}
IsClient(pat, typ, f) ==
    f = [p \in 0..Len(pat) |-> IF p = Len(pat) THEN {Len(typ)} ELSE ClientStep(pat, typ, p, f[p + 1])]
ClientTable(pat, typ) == CHOOSE f : IsClient(pat, typ, f)

LEMMA ClientIsTable == \A pat, typ : ClientMatch(pat, typ) <=> 0 \in ClientTable(pat, typ)[0]
  BY DEF ClientMatch, ClientTable, IsClient, ClientStep

(* The positions from which the rest of the type can be cut. *)
CutFrom(pat, typ, p) == {t \in 0..Len(typ) : Cuts(pat, typ, p, t)}

LEMMA CutFromSteps ==
    ASSUME NEW S, NEW pat \in Seq(S), NEW typ \in Seq(S)
    PROVE  /\ CutFrom(pat, typ, Len(pat)) = {Len(typ)}
           /\ \A p \in 0..(Len(pat) - 1) : CutFrom(pat, typ, p) = ClientStep(pat, typ, p, CutFrom(pat, typ, p + 1))
<1>1. Len(typ) \in Nat /\ Len(pat) \in Nat
  BY LenProperties
<1>2. CutFrom(pat, typ, Len(pat)) = {Len(typ)}
  BY <1>1, CutsEnd DEF CutFrom
<1>3. ASSUME NEW p \in 0..(Len(pat) - 1)
      PROVE  CutFrom(pat, typ, p) = ClientStep(pat, typ, p, CutFrom(pat, typ, p + 1))
  <2>1. CASE pat[p + 1] = Many
    <3>1. ASSUME NEW t \in 0..Len(typ)
          PROVE  Cuts(pat, typ, p, t) <=> (p + 1 = Len(pat) \/ \E i \in t..Len(typ) : i \in CutFrom(pat, typ, p + 1))
      <4>1. Cuts(pat, typ, p, t) <=> \E i \in t..Len(typ) : Cuts(pat, typ, p + 1, i)
        BY <2>1, CutsCases
      <4>2. \A i \in t..Len(typ) : i \in 0..Len(typ)
        BY <1>1
      <4>3. p + 1 = Len(pat) => Len(typ) \in CutFrom(pat, typ, p + 1) /\ Len(typ) \in t..Len(typ)
        BY <1>1, <1>2
      <4>4. \A i \in t..Len(typ) : Cuts(pat, typ, p + 1, i) <=> i \in CutFrom(pat, typ, p + 1)
        BY <4>2 DEF CutFrom
      <4> QED
        BY ONLY <4>1, <4>3, <4>4
    <3> QED
      BY <2>1, <3>1 DEF CutFrom, ClientStep, ClientSplits
  <2>2. CASE pat[p + 1] # Many
    <3>1. ASSUME NEW t \in 0..Len(typ)
          PROVE  Cuts(pat, typ, p, t) <=> /\ t < Len(typ) /\ pat[p + 1] \in {One, typ[t + 1]}
                                          /\ t + 1 \in CutFrom(pat, typ, p + 1)
      <4>1. Cuts(pat, typ, p, t) <=> /\ t < Len(typ) /\ pat[p + 1] \in {One, typ[t + 1]}
                                     /\ Cuts(pat, typ, p + 1, t + 1)
        BY <2>2, CutsCases
      <4>2. t < Len(typ) => (Cuts(pat, typ, p + 1, t + 1) <=> t + 1 \in CutFrom(pat, typ, p + 1))
        BY <1>1 DEF CutFrom
      <4> QED
        BY ONLY <4>1, <4>2
    <3> QED
      BY <2>2, <3>1 DEF CutFrom, ClientStep
  <2> QED
    BY <2>1, <2>2
<1> QED
  BY <1>2, <1>3

LEMMA ClientIsExact ==
    ASSUME NEW S, NEW pat \in Seq(S), NEW typ \in Seq(S)
    PROVE  ClientMatch(pat, typ) <=> Cuts(pat, typ, 0, 0)
<1>1. Len(typ) \in Nat /\ Len(pat) \in Nat
  BY LenProperties
<1> DEFINE f == ClientTable(pat, typ)
<1>2. IsClient(pat, typ, f)
  <2> DEFINE g == [p \in 0..Len(pat) |-> CutFrom(pat, typ, p)]
  <2>1. ASSUME NEW p \in 0..Len(pat)
        PROVE  g[p] = IF p = Len(pat) THEN {Len(typ)} ELSE ClientStep(pat, typ, p, g[p + 1])
    <3>1. CASE p = Len(pat)
      BY <1>1, <3>1, CutFromSteps
    <3>2. CASE p # Len(pat)
      <4>1. p \in 0..(Len(pat) - 1) /\ p + 1 \in 0..Len(pat)
        BY <1>1, <3>2
      <4>2. g[p] = CutFrom(pat, typ, p) /\ g[p + 1] = CutFrom(pat, typ, p + 1)
        BY <4>1
      <4> HIDE DEF g
      <4> QED
        BY <3>2, <4>1, <4>2, CutFromSteps
    <3> QED
      BY <3>1, <3>2
  <2>2. IsClient(pat, typ, g)
    BY <2>1 DEF IsClient
  <2> HIDE DEF g
  <2> QED
    BY <2>2 DEF ClientTable
<1> HIDE DEF f
<1>3. \A p \in 0..Len(pat) : f[p] = IF p = Len(pat) THEN {Len(typ)} ELSE ClientStep(pat, typ, p, f[p + 1])
  BY <1>2 DEF IsClient
<1> DEFINE N == {n \in Nat : n <= Len(pat) => f[Len(pat) - n] = CutFrom(pat, typ, Len(pat) - n)}
<1>4. 0 \in N
  <2>1. f[Len(pat)] = {Len(typ)}
    BY <1>1, <1>3
  <2>2. Len(pat) - 0 = Len(pat)
    BY <1>1
  <2>3. f[Len(pat)] = CutFrom(pat, typ, Len(pat))
    BY <2>1, CutFromSteps
  <2> QED
    BY <2>2, <2>3
<1>5. ASSUME NEW n \in Nat, n \in N PROVE n + 1 \in N
  <2> SUFFICES ASSUME n + 1 <= Len(pat) PROVE f[Len(pat) - (n + 1)] = CutFrom(pat, typ, Len(pat) - (n + 1))
    OBVIOUS
  <2> DEFINE p == Len(pat) - (n + 1)
  <2>1. p \in 0..(Len(pat) - 1) /\ p \in 0..Len(pat) /\ p # Len(pat) /\ p + 1 = Len(pat) - n /\ n <= Len(pat)
    BY <1>1
  <2>2. f[p + 1] = CutFrom(pat, typ, p + 1)
    BY <1>5, <2>1
  <2> HIDE DEF p
  <2>3. f[p] = CutFrom(pat, typ, p)
    BY <1>3, <2>1, <2>2, CutFromSteps
  <2> QED
    BY <2>3 DEF p
<1>6. Len(pat) \in N
  <2> HIDE DEF N
  <2> QED
    BY <1>1, <1>4, <1>5, InductionOnNat
<1>7. f[0] = CutFrom(pat, typ, 0)
  <2>1. Len(pat) - Len(pat) = 0 /\ Len(pat) <= Len(pat)
    BY <1>1
  <2> QED
    BY <1>6, <2>1
<1>8. ClientMatch(pat, typ) <=> 0 \in f[0]
  BY ClientIsTable DEF f
<1> QED
  BY <1>1, <1>7, <1>8 DEF CutFrom

(* A suffix of s is what is left of s after its first Len(s) - Len(u) elements. *)
LEMMA SuffixIs ==
    ASSUME NEW S, NEW s \in Seq(S), NEW u
    PROVE  u \in Suffixes(s) <=> /\ u \in Seq(S) /\ Len(u) <= Len(s)
                                 /\ \A j \in 1..Len(u) : u[j] = s[(Len(s) - Len(u)) + j]
<1>1. Len(s) \in Nat /\ \A i \in 1..Len(s) : s[i] \in S
  BY LenProperties, ElementOfSeq
<1>2. ASSUME NEW l \in 1..Len(s)
      PROVE  /\ SubSeq(s, l, Len(s)) \in Seq(S) /\ Len(SubSeq(s, l, Len(s))) = Len(s) - l + 1
             /\ \A j \in 1..(Len(s) - l + 1) : SubSeq(s, l, Len(s))[j] = s[l + j - 1]
  <2>1. l \in Int /\ Len(s) \in Int /\ l <= Len(s) /\ \A i \in l..Len(s) : s[i] \in S
    BY <1>1
  <2> QED
    BY ONLY <2>1, SubSeqProperties
<1>3. <<>> \in Seq(S) /\ Len(<<>>) = 0
  BY EmptySeq
<1>4. ASSUME u \in Suffixes(s)
      PROVE  /\ u \in Seq(S) /\ Len(u) <= Len(s)
             /\ \A j \in 1..Len(u) : u[j] = s[(Len(s) - Len(u)) + j]
  <2>1. CASE u = <<>>
    BY <1>1, <1>3, <2>1
  <2>2. CASE u # <<>>
    <3>1. PICK l \in 1..Len(s) : u = SubSeq(s, l, Len(s))
      BY <1>4, <2>2 DEF Suffixes
    <3>2. /\ u \in Seq(S) /\ Len(u) = Len(s) - l + 1
          /\ \A j \in 1..(Len(s) - l + 1) : u[j] = s[l + j - 1]
      BY <1>2, <3>1
    <3>3. Len(u) <= Len(s) /\ \A j \in 1..Len(u) : (Len(s) - Len(u)) + j = l + j - 1
      BY ONLY <1>1, <3>2
    <3> QED
      BY <3>2, <3>3
  <2> QED
    BY <2>1, <2>2
<1>5. ASSUME u \in Seq(S), Len(u) <= Len(s), \A j \in 1..Len(u) : u[j] = s[(Len(s) - Len(u)) + j]
      PROVE  u \in Suffixes(s)
  <2>0. Len(u) \in Nat
    BY <1>5, LenProperties
  <2>1. CASE Len(u) = 0
    <3>1. u = <<>>
      BY <1>5, <2>1, EmptySeq
    <3> QED
      BY <3>1 DEF Suffixes
  <2>2. CASE Len(u) # 0
    <3> DEFINE l == Len(s) - Len(u) + 1
    <3>1. l \in 1..Len(s) /\ Len(s) - l + 1 = Len(u) /\ \A j \in 1..Len(u) : l + j - 1 = (Len(s) - Len(u)) + j
      BY <1>1, <1>5, <2>0, <2>2
    <3> HIDE DEF l
    <3>2. /\ SubSeq(s, l, Len(s)) \in Seq(S) /\ Len(SubSeq(s, l, Len(s))) = Len(u)
          /\ \A j \in 1..Len(u) : SubSeq(s, l, Len(s))[j] = u[j]
      BY <1>2, <1>5, <3>1, ZenonT(40)
    <3>3. u = SubSeq(s, l, Len(s))
      BY <1>5, <3>2, SeqEqual
    <3> QED
      BY <3>1, <3>3 DEF Suffixes
  <2> QED
    BY <2>1, <2>2
<1> QED
  BY <1>4, <1>5

(* A suffix, its head, its tail and its suffixes. *)
LEMMA SuffixFacts ==
    ASSUME NEW S, NEW s \in Seq(S), NEW u \in Suffixes(s)
    PROVE  /\ u \in Seq(S) /\ Len(u) \in 0..Len(s) /\ Len(s) \in Nat /\ (u = <<>> <=> Len(u) = 0)
           /\ u # <<>> => /\ Head(u) = s[(Len(s) - Len(u)) + 1]
                          /\ Tail(u) \in Suffixes(s) /\ Len(Tail(u)) = Len(u) - 1
           /\ \A n \in 0..Len(u) : /\ SubSeq(u, n + 1, Len(u)) \in Suffixes(s)
                                   /\ Len(SubSeq(u, n + 1, Len(u))) = Len(u) - n
<1>1. /\ u \in Seq(S) /\ Len(u) <= Len(s)
      /\ \A j \in 1..Len(u) : u[j] = s[(Len(s) - Len(u)) + j]
  BY SuffixIs
<1>2. Len(u) \in Nat /\ Len(s) \in Nat /\ \A i \in 1..Len(u) : u[i] \in S
  BY <1>1, LenProperties, ElementOfSeq
<1>3. u = <<>> <=> Len(u) = 0
  BY <1>1, EmptySeq
<1>4. ASSUME NEW n \in 0..Len(u)
      PROVE  /\ SubSeq(u, n + 1, Len(u)) \in Suffixes(s)
             /\ Len(SubSeq(u, n + 1, Len(u))) = Len(u) - n
  <2> DEFINE v == SubSeq(u, n + 1, Len(u))
  <2>1. n + 1 \in Int /\ Len(u) \in Int /\ \A i \in (n + 1)..Len(u) : u[i] \in S
    BY <1>2
  <2>2. /\ v \in Seq(S) /\ Len(v) = IF n + 1 <= Len(u) THEN Len(u) - (n + 1) + 1 ELSE 0
        /\ \A i \in 1..(Len(u) - (n + 1) + 1) : v[i] = u[(n + 1) + i - 1]
    BY ONLY <2>1, SubSeqProperties
  <2> HIDE DEF v
  <2>3. Len(v) = Len(u) - n /\ Len(v) <= Len(s)
    BY ONLY <1>1, <1>2, <2>2, n \in 0..Len(u)
  <2>4. ASSUME NEW j \in 1..Len(v) PROVE v[j] = s[(Len(s) - Len(v)) + j]
    <3>1. j \in 1..(Len(u) - (n + 1) + 1) /\ (n + 1) + j - 1 = n + j /\ n + j \in 1..Len(u)
      BY ONLY <1>2, <2>3, n \in 0..Len(u), j \in 1..Len(v)
    <3>2. (Len(s) - Len(u)) + (n + j) = (Len(s) - Len(v)) + j
      BY ONLY <1>2, <2>3, <3>1, n \in 0..Len(u), j \in 1..Len(v)
    <3>3. v[j] = u[n + j]
      BY <2>2, <3>1
    <3>4. u[n + j] = s[(Len(s) - Len(u)) + (n + j)]
      BY <1>1, <3>1
    <3> QED
      BY <3>2, <3>3, <3>4
  <2>5. v \in Suffixes(s)
    BY <2>2, <2>3, <2>4, SuffixIs
  <2> QED
    BY <2>3, <2>5 DEF v
<1>5. ASSUME u # <<>>
      PROVE  Head(u) = s[(Len(s) - Len(u)) + 1] /\ Tail(u) \in Suffixes(s) /\ Len(Tail(u)) = Len(u) - 1
  <2>1. 1 \in 1..Len(u) /\ 1 \in 0..Len(u) /\ Head(u) = u[1]
    BY <1>1, <1>2, <1>3, <1>5
  <2>2. Tail(u) = SubSeq(u, 1 + 1, Len(u))
    BY <1>1, <1>5, TailIsSubSeq
  <2> QED
    BY <1>1, <1>4, <2>1, <2>2
<1> QED
  BY <1>1, <1>2, <1>3, <1>4, <1>5

LEMMA WholeIsSuffix ==
    ASSUME NEW S, NEW s \in Seq(S)
    PROVE  s \in Suffixes(s)
<1>1. Len(s) \in Nat /\ \A j \in 1..Len(s) : (Len(s) - Len(s)) + j = j
  BY LenProperties
<1> QED
  BY <1>1, SuffixIs

(* The server: what its loop does with the slice p, given what it finds after its head. *)
ServerStep(typ, p, rest) ==
    IF Head(p) = Many
    THEN {t \in Suffixes(typ) : \/ Tail(p) = <<>>
                                \/ \E i \in Splits(t) : SubSeq(t, i + 1, Len(t)) \in rest}
    ELSE {t \in Suffixes(typ) : t # <<>> /\ Head(p) \in {One, Head(t)} /\ Tail(t) \in rest}
IsServer(pat, typ, f) ==
    f = [p \in Suffixes(pat) |-> IF p = <<>> THEN {<<>>} ELSE ServerStep(typ, p, f[Tail(p)])]
ServerTable(pat, typ) == CHOOSE f : IsServer(pat, typ, f)

LEMMA ServerIsTable == \A pat, typ : MatchSegments(pat, typ) <=> typ \in ServerTable(pat, typ)[pat]
  BY DEF MatchSegments, ServerTable, IsServer, ServerStep

(* The slices of the type that can be cut for the slice p of the pattern. *)
SlicesFor(pat, typ, p) == {t \in Suffixes(typ) : Cuts(pat, typ, Len(pat) - Len(p), Len(typ) - Len(t))}

LEMMA SlicesForSteps ==
    ASSUME NEW S, NEW pat \in Seq(S), NEW typ \in Seq(S)
    PROVE  \A s \in Suffixes(pat) :
             SlicesFor(pat, typ, s) = IF s = <<>> THEN {<<>>} ELSE ServerStep(typ, s, SlicesFor(pat, typ, Tail(s)))
<1>1. Len(typ) \in Nat /\ Len(pat) \in Nat
  BY LenProperties
<1> SUFFICES ASSUME NEW s \in Suffixes(pat)
             PROVE  SlicesFor(pat, typ, s) = IF s = <<>> THEN {<<>>} ELSE ServerStep(typ, s, SlicesFor(pat, typ, Tail(s)))
  OBVIOUS
<1> DEFINE p == Len(pat) - Len(s)
<1>2. /\ Len(s) \in 0..Len(pat) /\ (s = <<>> <=> Len(s) = 0)
      /\ s # <<>> => Head(s) = pat[p + 1] /\ Tail(s) \in Suffixes(pat) /\ Len(Tail(s)) = Len(s) - 1
  BY SuffixFacts
<1>3. ASSUME NEW t \in Suffixes(typ)
      PROVE  /\ Len(t) \in 0..Len(typ) /\ (t = <<>> <=> Len(t) = 0)
             /\ t # <<>> => Head(t) = typ[(Len(typ) - Len(t)) + 1] /\ Tail(t) \in Suffixes(typ) /\ Len(Tail(t)) = Len(t) - 1
             /\ \A n \in 0..Len(t) : /\ SubSeq(t, n + 1, Len(t)) \in Suffixes(typ)
                                     /\ Len(SubSeq(t, n + 1, Len(t))) = Len(t) - n
  BY SuffixFacts
<1>4. <<>> \in Suffixes(typ)
  BY DEF Suffixes
<1>5. CASE s = <<>>
  <2>1. p = Len(pat)
    BY <1>1, <1>2, <1>5
  <2>2. ASSUME NEW t \in Suffixes(typ) PROVE Cuts(pat, typ, Len(pat), Len(typ) - Len(t)) <=> t = <<>>
    <3>1. Len(typ) - Len(t) \in 0..Len(typ) /\ (Len(typ) - Len(t) = Len(typ) <=> Len(t) = 0)
      BY ONLY <1>1, <1>3
    <3>2. Cuts(pat, typ, Len(pat), Len(typ) - Len(t)) <=> Len(typ) - Len(t) = Len(typ)
      BY <3>1, CutsEnd
    <3> QED
      BY ONLY <1>3, <3>1, <3>2
  <2> QED
    BY <1>4, <1>5, <2>1, <2>2 DEF SlicesFor
<1>6. CASE s # <<>>
  <2>1. /\ p \in 0..(Len(pat) - 1) /\ Len(pat) - Len(Tail(s)) = p + 1
        /\ (Tail(s) = <<>> <=> p + 1 = Len(pat))
    <3>1. Tail(s) = <<>> <=> Len(Tail(s)) = 0
      BY <1>2, <1>6, SuffixFacts
    <3>2. Len(s) \in 1..Len(pat) /\ Len(Tail(s)) = Len(s) - 1
      BY <1>1, <1>2, <1>6
    <3>3. p \in 0..(Len(pat) - 1) /\ Len(pat) - (Len(s) - 1) = p + 1 /\ (Len(s) - 1 = 0 <=> p + 1 = Len(pat))
      <4>1. \A a \in Nat : \A b \in 1..a : a - b \in 0..(a - 1) /\ a - (b - 1) = (a - b) + 1
        BY ONLY TRUE
      <4>2. \A a \in Nat : \A b \in 1..a : b - 1 = 0 <=> (a - b) + 1 = a
        BY ONLY TRUE
      <4> QED
        BY ONLY <1>1, <3>2, <4>1, <4>2
    <3> HIDE DEF p
    <3> QED
      BY <3>1, <3>2, <3>3
  <2>2. Head(s) = pat[p + 1]
    BY <1>2, <1>6
  <2> HIDE DEF p
  <2>3. CASE Head(s) = Many
    <3>1. ASSUME NEW t \in Suffixes(typ)
          PROVE  Cuts(pat, typ, p, Len(typ) - Len(t)) <=>
                   (Tail(s) = <<>> \/ \E i \in Splits(t) : SubSeq(t, i + 1, Len(t)) \in SlicesFor(pat, typ, Tail(s)))
      <4> DEFINE k == Len(typ) - Len(t)
      <4>1. k \in 0..Len(typ) /\ Len(t) = Len(typ) - k
        BY ONLY <1>1, <1>3
      <4>2. Cuts(pat, typ, p, k) <=> \E i \in k..Len(typ) : Cuts(pat, typ, p + 1, i)
        <5>1. pat[p + 1] = Many
          BY <2>2, <2>3
        <5> HIDE DEF k
        <5> QED
          BY ONLY pat \in Seq(S), typ \in Seq(S), <2>1, <4>1, <5>1, CutsCases
      <4>3. ASSUME NEW i \in 0..Len(t)
            PROVE  /\ SubSeq(t, i + 1, Len(t)) \in SlicesFor(pat, typ, Tail(s)) <=> Cuts(pat, typ, p + 1, k + i)
                   /\ k + i \in k..Len(typ)
        <5>1. Len(typ) - (Len(t) - i) = k + i /\ k + i \in k..Len(typ)
          BY ONLY <1>1, <4>1, i \in 0..Len(t)
        <5>2. SubSeq(t, i + 1, Len(t)) \in Suffixes(typ) /\ Len(SubSeq(t, i + 1, Len(t))) = Len(t) - i
          BY <1>3
        <5> HIDE DEF k
        <5> QED
          BY <2>1, <5>1, <5>2 DEF SlicesFor
      <4>4. ASSUME NEW i \in k..Len(typ) PROVE i - k \in 0..Len(t) /\ k + (i - k) = i
        BY ONLY <1>1, <4>1, i \in k..Len(typ)
      <4>5. Tail(s) = <<>> => Cuts(pat, typ, p + 1, Len(typ)) /\ Len(typ) \in k..Len(typ)
        <5>1. Len(typ) \in 0..Len(typ) /\ Len(typ) \in k..Len(typ)
          BY ONLY <1>1, <4>1
        <5>2. Cuts(pat, typ, Len(pat), Len(typ))
          BY <5>1, CutsEnd
        <5> QED
          BY <2>1, <5>1, <5>2
      <4> HIDE DEF k
      <4>6. (\E i \in k..Len(typ) : Cuts(pat, typ, p + 1, i)) <=>
              (Tail(s) = <<>> \/ \E i \in Splits(t) : SubSeq(t, i + 1, Len(t)) \in SlicesFor(pat, typ, Tail(s)))
        <5>1. ASSUME NEW i \in k..Len(typ), Cuts(pat, typ, p + 1, i)
              PROVE  \E j \in Splits(t) : SubSeq(t, j + 1, Len(t)) \in SlicesFor(pat, typ, Tail(s))
          <6>1. i - k \in 0..Len(t) /\ Cuts(pat, typ, p + 1, k + (i - k))
            BY <4>4, <5>1
          <6>2. SubSeq(t, (i - k) + 1, Len(t)) \in SlicesFor(pat, typ, Tail(s))
            BY <4>3, <6>1
          <6> QED
            BY <6>1, <6>2 DEF Splits
        <5>2. ASSUME NEW j \in Splits(t), SubSeq(t, j + 1, Len(t)) \in SlicesFor(pat, typ, Tail(s))
              PROVE  \E i \in k..Len(typ) : Cuts(pat, typ, p + 1, i)
          BY <4>3, <5>2 DEF Splits
        <5> QED
          BY <4>5, <5>1, <5>2
      <4> QED
        BY <4>2, <4>6 DEF k
    <3> QED
      BY <1>6, <2>3, <3>1 DEF SlicesFor, ServerStep, p
  <2>4. CASE Head(s) # Many
    <3>1. ASSUME NEW t \in Suffixes(typ)
          PROVE  Cuts(pat, typ, p, Len(typ) - Len(t)) <=>
                   (t # <<>> /\ Head(s) \in {One, Head(t)} /\ Tail(t) \in SlicesFor(pat, typ, Tail(s)))
      <4> DEFINE k == Len(typ) - Len(t)
      <4>1. k \in 0..Len(typ) /\ (k < Len(typ) <=> t # <<>>)
        BY ONLY <1>1, <1>3
      <4>2. Cuts(pat, typ, p, k) <=> k < Len(typ) /\ pat[p + 1] \in {One, typ[k + 1]} /\ Cuts(pat, typ, p + 1, k + 1)
        <5>1. pat[p + 1] # Many
          BY <2>2, <2>4
        <5> HIDE DEF k
        <5> QED
          BY ONLY pat \in Seq(S), typ \in Seq(S), <2>1, <4>1, <5>1, CutsCases
      <4>3. ASSUME t # <<>>
            PROVE  Head(t) = typ[k + 1] /\ (Tail(t) \in SlicesFor(pat, typ, Tail(s)) <=> Cuts(pat, typ, p + 1, k + 1))
        <5>1. Head(t) = typ[k + 1] /\ Tail(t) \in Suffixes(typ) /\ Len(Tail(t)) = Len(t) - 1
          BY <1>3, <4>3
        <5>2. Len(typ) - (Len(t) - 1) = k + 1
          BY ONLY <1>1, <1>3
        <5> HIDE DEF k
        <5> QED
          BY <2>1, <5>1, <5>2 DEF SlicesFor
      <4> HIDE DEF k
      <4>4. Cuts(pat, typ, p, k) <=>
              (t # <<>> /\ Head(s) \in {One, Head(t)} /\ Tail(t) \in SlicesFor(pat, typ, Tail(s)))
        BY <2>2, <4>1, <4>2, <4>3
      <4> QED
        BY <4>4 DEF k
    <3> QED
      BY <1>6, <2>4, <3>1 DEF SlicesFor, ServerStep, p
  <2> QED
    BY <2>3, <2>4
<1> QED
  BY <1>5, <1>6

LEMMA ServerIsExact ==
    ASSUME NEW S, NEW pat \in Seq(S), NEW typ \in Seq(S)
    PROVE  MatchSegments(pat, typ) <=> Cuts(pat, typ, 0, 0)
<1>1. Len(typ) \in Nat /\ Len(pat) \in Nat
  BY LenProperties
<1> DEFINE f == ServerTable(pat, typ)
<1>2. IsServer(pat, typ, f)
  <2> DEFINE g == [s \in Suffixes(pat) |-> SlicesFor(pat, typ, s)]
  <2>1. ASSUME NEW s \in Suffixes(pat)
        PROVE  g[s] = IF s = <<>> THEN {<<>>} ELSE ServerStep(typ, s, g[Tail(s)])
    <3>1. s # <<>> => Tail(s) \in Suffixes(pat)
      BY SuffixFacts
    <3>2. g[s] = SlicesFor(pat, typ, s) /\ (s # <<>> => g[Tail(s)] = SlicesFor(pat, typ, Tail(s)))
      BY <3>1
    <3> HIDE DEF g
    <3> QED
      BY <3>2, SlicesForSteps
  <2>2. IsServer(pat, typ, g)
    BY <2>1 DEF IsServer
  <2> HIDE DEF g
  <2> QED
    BY <2>2 DEF ServerTable
<1> HIDE DEF f
<1>3. \A s \in Suffixes(pat) : f[s] = IF s = <<>> THEN {<<>>} ELSE ServerStep(typ, s, f[Tail(s)])
  BY <1>2 DEF IsServer
<1> DEFINE N == {n \in Nat : \A s \in Suffixes(pat) : Len(s) = n => f[s] = SlicesFor(pat, typ, s)}
<1>4. 0 \in N
  <2>1. \A s \in Suffixes(pat) : Len(s) = 0 => s = <<>>
    BY SuffixFacts
  <2> QED
    BY <1>3, <2>1, SlicesForSteps
<1>5. ASSUME NEW n \in Nat, n \in N PROVE n + 1 \in N
  <2> SUFFICES ASSUME NEW s \in Suffixes(pat), Len(s) = n + 1 PROVE f[s] = SlicesFor(pat, typ, s)
    OBVIOUS
  <2>1. s # <<>> /\ Tail(s) \in Suffixes(pat) /\ Len(Tail(s)) = n
    <3>1. /\ s = <<>> <=> Len(s) = 0
          /\ s # <<>> => Tail(s) \in Suffixes(pat) /\ Len(Tail(s)) = Len(s) - 1
      BY SuffixFacts
    <3> QED
      BY <3>1
  <2>2. f[Tail(s)] = SlicesFor(pat, typ, Tail(s))
    BY <1>5, <2>1
  <2> QED
    BY <1>3, <2>1, <2>2, SlicesForSteps
<1>6. Len(pat) \in N /\ pat \in Suffixes(pat)
  <2> HIDE DEF N
  <2> QED
    BY <1>1, <1>4, <1>5, InductionOnNat, WholeIsSuffix
<1>7. f[pat] = SlicesFor(pat, typ, pat)
  BY <1>6
<1>8. MatchSegments(pat, typ) <=> typ \in f[pat]
  BY ServerIsTable DEF f
<1>9. Len(pat) - Len(pat) = 0 /\ Len(typ) - Len(typ) = 0 /\ typ \in Suffixes(typ)
  BY <1>1, WholeIsSuffix
<1> QED
  BY <1>7, <1>8, <1>9 DEF SlicesFor

LEMMA PrefixFacts ==
    ASSUME NEW S, NEW pat \in Seq(S)
    PROVE  /\ LiteralPrefix(pat) \in Seq(S) /\ Len(LiteralPrefix(pat)) \in 0..Len(pat) /\ Len(pat) \in Nat
           /\ \A i \in 1..Len(LiteralPrefix(pat)) : LiteralPrefix(pat)[i] = pat[i] /\ pat[i] \in Segments
<1> DEFINE wild == {i \in 1..Len(pat) : pat[i] \notin Segments}
<1>1. Len(pat) \in Nat /\ \A i \in 1..Len(pat) : pat[i] \in S
  BY LenProperties, ElementOfSeq
<1>2. CASE wild = {}
  <2>1. LiteralPrefix(pat) = pat
    BY <1>2 DEF LiteralPrefix
  <2>2. \A i \in 1..Len(pat) : pat[i] \in Segments
    BY <1>2
  <2> QED
    BY <1>1, <2>1, <2>2
<1>3. CASE wild # {}
  <2>1. Min(wild) \in wild /\ \A i \in wild : Min(wild) <= i
    <3>1. wild \in SUBSET Nat
      BY <1>1
    <3> HIDE DEF wild
    <3> QED
      BY <1>3, <3>1, MinFacts
  <2> DEFINE n == Min(wild) - 1
  <2>2. LiteralPrefix(pat) = SubSeq(pat, 1, n)
    BY <1>3 DEF LiteralPrefix
  <2>3. Min(wild) \in 1..Len(pat)
    BY <2>1
  <2>4. \A i \in 1..Len(pat) : ~ (Min(wild) <= i) => pat[i] \in Segments
    BY <2>1
  <2> HIDE DEF wild
  <2>5. n \in 0..Len(pat) /\ \A i \in 1..n : i \in 1..Len(pat) /\ ~ (Min(wild) <= i)
    BY <1>1, <2>3
  <2> HIDE DEF n
  <2>6. /\ SubSeq(pat, 1, n) \in Seq(S) /\ Len(SubSeq(pat, 1, n)) = IF 1 <= n THEN n - 1 + 1 ELSE 0
        /\ \A i \in 1..(n - 1 + 1) : SubSeq(pat, 1, n)[i] = pat[1 + i - 1]
    <3>1. n \in Int /\ 1 \in Int /\ \A i \in 1..n : pat[i] \in S
      BY <1>1, <2>5
    <3> QED
      BY ONLY <3>1, SubSeqProperties
  <2>7. Len(SubSeq(pat, 1, n)) = n /\ \A i \in 1..n : SubSeq(pat, 1, n)[i] = pat[i]
    <3>1. n - 1 + 1 = n /\ (~ (1 <= n) => n = 0) /\ \A i \in 1..n : 1 + i - 1 = i
      BY <1>1, <2>5
    <3> QED
      BY <2>6, <3>1
  <2> QED
    BY <1>1, <2>2, <2>4, <2>5, <2>6, <2>7
<1> QED
  BY <1>2, <1>3

(* The literal segments a pattern begins with are those of every type it matches. *)
LEMMA FilterKeepsMatches ==
    ASSUME NEW pat \in Seq(Segments \cup {One, Many}), NEW typ \in Seq(Segments \cup {One, Many}), Cuts(pat, typ, 0, 0)
    PROVE  PassesFilter(pat, typ)
<1> DEFINE S == Segments \cup {One, Many}
           l == LiteralPrefix(pat)
<1>1. /\ l \in Seq(S) /\ Len(l) \in 0..Len(pat) /\ Len(pat) \in Nat
      /\ \A i \in 1..Len(l) : l[i] = pat[i] /\ pat[i] \in Segments
  BY PrefixFacts
<1>2. Len(typ) \in Nat /\ \A i \in 1..Len(typ) : typ[i] \in S
  BY LenProperties, ElementOfSeq
<1> HIDE DEF S, l
<1> DEFINE Same(n) == n <= Len(typ) /\ Cuts(pat, typ, n, n) /\ \A i \in 1..n : typ[i] = pat[i]
           N == {n \in Nat : n <= Len(l) => Same(n)}
<1>3. 0 \in N
  BY <1>2
<1>4. ASSUME NEW n \in Nat, n \in N PROVE n + 1 \in N
  <2> SUFFICES ASSUME n + 1 <= Len(l) PROVE Same(n + 1)
    <3> HIDE DEF Same
    <3> QED
      OBVIOUS
  <2>1. n \in 0..(Len(pat) - 1) /\ n <= Len(l) /\ n + 1 \in 1..Len(l)
    BY <1>1
  <2>2. n <= Len(typ) /\ Cuts(pat, typ, n, n) /\ \A i \in 1..n : typ[i] = pat[i]
    BY <1>4, <2>1
  <2>3. pat[n + 1] \in Segments /\ pat[n + 1] # Many /\ pat[n + 1] # One
    BY <1>1, <2>1, PatternAssumption
  <2>4. n \in 0..Len(typ)
    BY <1>2, <2>2
  <2>5. n < Len(typ) /\ pat[n + 1] \in {One, typ[n + 1]} /\ Cuts(pat, typ, n + 1, n + 1)
    BY <2>1, <2>2, <2>3, <2>4, CutsCases
  <2>6. typ[n + 1] = pat[n + 1]
    BY <2>3, <2>5
  <2>7. \A i \in 1..(n + 1) : i = n + 1 \/ i \in 1..n
    OBVIOUS
  <2> QED
    BY <1>2, <2>2, <2>5, <2>6, <2>7
<1>5. Same(Len(l))
  <2>1. Len(l) \in Nat /\ Len(l) <= Len(l)
    BY <1>1
  <2>2. Len(l) \in N
    <3> HIDE DEF N
    <3> QED
      BY <1>3, <1>4, <2>1, InductionOnNat
  <2> HIDE DEF Same
  <2> QED
    BY <2>1, <2>2
<1>6. IsPrefix(l, typ)
  <2>1. Len(l) \in Nat /\ Len(l) <= Len(typ) /\ \A i \in 1..Len(l) : l[i] = typ[i] /\ typ[i] \in S
    BY <1>1, <1>2, <1>5
  <2>2. \A i \in 1..Len(l) : l[i] \in S
    BY <2>1
  <2>3. /\ SubSeq(l, 1, Len(l)) \in Seq(S) /\ Len(SubSeq(l, 1, Len(l))) = (IF 1 <= Len(l) THEN Len(l) - 1 + 1 ELSE 0)
        /\ \A i \in 1..(Len(l) - 1 + 1) : SubSeq(l, 1, Len(l))[i] = l[1 + i - 1]
    BY <2>1, <2>2, SubSeqProperties
  <2>4. /\ SubSeq(typ, 1, Len(l)) \in Seq(S) /\ Len(SubSeq(typ, 1, Len(l))) = (IF 1 <= Len(l) THEN Len(l) - 1 + 1 ELSE 0)
        /\ \A i \in 1..(Len(l) - 1 + 1) : SubSeq(typ, 1, Len(l))[i] = typ[1 + i - 1]
    BY <2>1, SubSeqProperties
  <2>5. \A i \in 1..Len(SubSeq(l, 1, Len(l))) : i \in 1..Len(l) /\ i \in 1..(Len(l) - 1 + 1) /\ 1 + i - 1 = i
    BY <2>1, <2>3
  <2>6. \A i \in 1..Len(SubSeq(l, 1, Len(l))) : SubSeq(l, 1, Len(l))[i] = SubSeq(typ, 1, Len(l))[i]
    BY <2>1, <2>3, <2>4, <2>5
  <2>7. SubSeq(l, 1, Len(l)) = SubSeq(typ, 1, Len(l))
    BY <2>3, <2>4, <2>6, SeqEqual
  <2> QED
    BY <2>1, <2>7 DEF IsPrefix
<1> QED
  BY <1>6 DEF PassesFilter, l

(* A listener gets what its pattern means: the server's matcher, which tries *)
(* every split at **, and the browser's decide whether the type can be cut   *)
(* into pieces that fit the segments, and the prefix Query filters by never  *)
(* excludes a type that matches (events/pattern.go, web/src/ui/pattern.ts).  *)
THEOREM PatternsAlwaysAgree == PatternSpec => []PatternsAgree
<1>1. PatternInit => PatternTypeOK
  BY DEF PatternInit
<1>2. PatternTypeOK /\ [PatternNext]_patternVars => PatternTypeOK'
  BY DEF PatternTypeOK, PatternNext, Listen, PublishTyped, patternVars
<1>3. PatternTypeOK => PatternsAgree
  <2> SUFFICES ASSUME PatternTypeOK PROVE PatternsAgree
    OBVIOUS
  <2> DEFINE S == Segments \cup {One, Many}
  <2>1. pattern \in Seq(S)
    <3>1. PICK n \in 1..MaxPattern : pattern \in [1..n -> S]
      BY DEF PatternTypeOK, Patterns
    <3> QED
      BY <3>1, PatternAssumption, SeqDef
  <2>2. event \in Seq(S)
    <3>1. PICK n \in 2..MaxType : event \in [1..n -> Segments]
      BY DEF PatternTypeOK, EventTypes
    <3>2. event \in [1..n -> S] /\ n \in Nat
      BY <3>1, PatternAssumption
    <3> QED
      BY <3>2, SeqDef
  <2> HIDE DEF S
  <2>3. Matches(pattern, event) <=> Cuts(pattern, event, 0, 0)
    BY <2>1, <2>2, MatchesIsCuts
  <2>4. MatchSegments(pattern, event) <=> Cuts(pattern, event, 0, 0)
    BY <2>1, <2>2, ServerIsExact
  <2>5. ClientMatch(pattern, event) <=> Cuts(pattern, event, 0, 0)
    BY <2>1, <2>2, ClientIsExact
  <2>6. Cuts(pattern, event, 0, 0) => PassesFilter(pattern, event)
    BY <2>1, <2>2, FilterKeepsMatches DEF S
  <2> QED
    BY <2>3, <2>4, <2>5, <2>6 DEF PatternsAgree, MatchIsExact, ClientAgrees, FilterIsNecessary
<1> QED
  BY <1>1, <1>2, <1>3, PTL DEF PatternSpec
=============================================================================
