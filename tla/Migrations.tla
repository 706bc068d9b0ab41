----------------------------- MODULE Migrations -----------------------------
(***************************************************************************)
(* Schema migrations of one owner (storage/migrate.go): the binary that is *)
(* deployed declares a list, the database remembers what ran, and start-up *)
(* applies the rest one transaction at a time.  Binaries are replaced, a   *)
(* migration may fail and the process may die between two of them.  The    *)
(* statement a migration runs is the set of schema objects it creates;     *)
(* a plugin's are confined to its own names by comparing the schema before *)
(* and after.                                                              *)
(***************************************************************************)
EXTENDS Naturals, Sequences, FiniteSets, SequencesExt

CONSTANTS
    Binaries,       \* the migration lists binaries declare: [version, sum, creates]
    OwnObjects      \* the schema objects the owner may create

\* A list is finite, and the checksum of a migration's name and SQL tells what it creates.
ASSUME BinariesAssumption ==
    /\ \A b \in Binaries:
         /\ Len(b) \in Nat /\ DOMAIN b = 1..Len(b)
         /\ \A i \in DOMAIN b: b[i].version \in Nat
    /\ \A a, b \in Binaries: \A i \in DOMAIN a, j \in DOMAIN b:
         a[i].version = b[j].version /\ a[i].sum = b[j].sum => a[i].creates = b[j].creates

VARIABLES
    applied,    \* core_migrations: set of [version, sum]
    schema,     \* objects in the database
    declared,   \* the list of the running binary
    read,       \* the rows appliedMigrations read
    at,         \* the next migration of the list
    boot        \* "down", "applying", "ready" or "failed"

migrationVars == <<applied, schema, declared, read, at, boot>>

Row(m) == [version |-> m.version, sum |-> m.sum]
Versions(rows) == {r.version: r \in rows}
AllRows == UNION {{Row(b[i]): i \in DOMAIN b}: b \in Binaries}

\* The type of the state.
MigrationsTypeOK ==
    /\ applied \subseteq AllRows
    /\ read \subseteq AllRows
    /\ declared \in Binaries \cup {<<>>}
    /\ at \in 1..(Len(declared) + 1)
    /\ boot \in {"down", "applying", "ready", "failed"}

MigrationsInit ==
    /\ applied = {} /\ schema = {} /\ read = {}
    /\ declared = <<>> /\ at = 1 /\ boot = "down"

\* validateOrder: versions are positive and strictly increase.
ValidOrder(ms) ==
    /\ \A i \in DOMAIN ms: ms[i].version > 0
    /\ \A i, j \in DOMAIN ms: i < j => ms[i].version < ms[j].version

\* A binary starts: Apply checks its list and reads what has run.
StartApply(b) ==
    /\ boot = "down"
    /\ declared' = b
    /\ at' = 1
    /\ read' = applied
    /\ boot' = IF ValidOrder(b) THEN "applying" ELSE "failed"
    /\ UNCHANGED <<applied, schema>>

\* mutant: only the version is compared
ChangedNever(m) == FALSE

\* The version ran before: its name and SQL must be the same.
Ran(m) == m.version \in Versions(read)
Changed(m) == Row(m) \notin read

\* A version below the highest that ran is refused.
BelowHighWater(m) == \E v \in Versions(read): m.version < v

Fail == boot' = "failed" /\ UNCHANGED <<applied, schema, declared, read, at>>

SkipApplied ==
    /\ boot = "applying" /\ at \in DOMAIN declared
    /\ Ran(declared[at])
    /\ IF Changed(declared[at]) THEN Fail
       ELSE at' = at + 1 /\ UNCHANGED <<applied, schema, declared, read, boot>>

\* One transaction runs the SQL, compares the schema and records the version.
ApplyOne ==
    /\ boot = "applying" /\ at \in DOMAIN declared
    /\ LET m == declared[at] IN
       /\ ~ Ran(m)
       /\ IF BelowHighWater(m) \/ ~ m.creates \subseteq OwnObjects \cup schema
          THEN Fail
          ELSE /\ schema' = schema \cup m.creates
               /\ applied' = applied \cup {Row(m)}
               /\ at' = at + 1
               /\ UNCHANGED <<declared, read, boot>>

\* The SQL or the commit fails: the transaction leaves nothing.
ApplyFails ==
    /\ boot = "applying" /\ at \in DOMAIN declared
    /\ ~ Ran(declared[at])
    /\ Fail

\* mutant: the rows that ran are not counted
MissingIgnored == FALSE

\* Every row that had run must have been met in the list.
Missing == Cardinality({m \in ToSet(declared): Ran(m)}) # Cardinality(read)

ApplyReturns ==
    /\ boot = "applying" /\ at = Len(declared) + 1
    /\ boot' = IF Missing THEN "failed" ELSE "ready"
    /\ UNCHANGED <<applied, schema, declared, read, at>>

\* The process ends or dies, at any point.
ProcessEnds ==
    /\ boot # "down"
    /\ boot' = "down"
    /\ declared' = <<>> /\ at' = 1 /\ read' = {}
    /\ UNCHANGED <<applied, schema>>

MigrationsNext ==
    \/ \E b \in Binaries: StartApply(b)
    \/ SkipApplied \/ ApplyOne \/ ApplyFails \/ ApplyReturns \/ ProcessEnds

MigrationsSpec == MigrationsInit /\ [][MigrationsNext]_migrationVars
------------------------------------------------------------------------------
\* An owner that starts runs on exactly the schema its binary declares, whatever binaries
\* ran and died before it: every row that was applied is in its list unchanged, and every
\* migration of the list has been applied.
ReadyIsExact ==
    boot = "ready" =>
        /\ applied = {Row(m): m \in ToSet(declared)}
        /\ schema = UNION {m.creates: m \in ToSet(declared)}

\* Versions are only ever applied upwards, also by a start that fails in the end.
AppliedUpwards ==
    [][\A r \in applied' \ applied: \A q \in applied: q.version < r.version]_migrationVars

\* Both, whatever binaries ran before and wherever they died (migrate.go, Apply).
MigrationsHold == [](MigrationsTypeOK /\ ReadyIsExact) /\ AppliedUpwards
=============================================================================
