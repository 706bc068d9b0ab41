-------------------------------- MODULE Blobs --------------------------------
(***************************************************************************)
(* Blob storage of one scope (storage/blobs.go).  An object is a file with *)
(* a name that is never used again and a metadata row that names it.  Put  *)
(* stages a temporary file, publishes it under a fresh name, swaps the row *)
(* in a transaction and removes the file the row named before; Get reads   *)
(* the row and opens the file in two steps; Delete removes the row, then   *)
(* the file; Recover, at start-up, removes the files no row names.  Calls  *)
(* of several goroutines interleave and the process may die between any    *)
(* two steps.  A key has already passed validateBlobKey.                   *)
(***************************************************************************)
EXTENDS Naturals, FiniteSets

CONSTANTS
    BlobKey,            \* valid keys
    BlobCall,           \* goroutines that call the scope
    MaxObjectBytes, MaxScopeBytes,
    BodySize,           \* sizes of the bodies that arrive
    MaxNames,           \* bound: physical names used in a behaviour
    NoName

ASSUME BlobLimits ==
    /\ MaxObjectBytes \in Nat \ {0} /\ MaxScopeBytes \in Nat \ {0}
    /\ MaxNames \in Nat /\ BodySize \subseteq Nat /\ NoName \notin Nat
    /\ IsFiniteSet(BlobKey) /\ BlobKey # {}

VARIABLES
    blobRow,    \* core_blobs of the scope: key -> [name, size], name = NoName for no row
    objects,    \* published files: the names in objects/
    tmp,        \* calls that have a staging file in tmp/
    nextName,   \* newPhysicalName is modelled as a counter: names never repeat
    blobCall,   \* where each call is
    blobsOn     \* policy admits the plugin's mutations

blobVars == <<blobRow, objects, tmp, nextName, blobCall, blobsOn>>

NoBlobRow == [name |-> NoName, size |-> 0]
Rest == [op |-> "none", key |-> CHOOSE k \in BlobKey: TRUE, name |-> NoName, size |-> 0, old |-> NoName, allowance |-> 0]
Names == 1..MaxNames
Present == {k \in BlobKey: blobRow[k].name # NoName}

\* The type of the state.
BlobsTypeOK ==
    /\ blobRow \in [BlobKey -> [name: Names \cup {NoName}, size: Nat]]
    /\ objects \subseteq Names
    /\ tmp \subseteq BlobCall
    /\ nextName \in 1..(MaxNames + 1)
    /\ \A c \in BlobCall: blobCall[c].op \in
         {"none", "usage", "staged", "swapped", "looked", "opened", "missing", "deleted"}
    /\ blobsOn \in BOOLEAN

BlobsInit ==
    /\ blobRow = [k \in BlobKey |-> NoBlobRow]
    /\ objects = {} /\ tmp = {} /\ nextName = 1
    /\ blobCall = [c \in BlobCall |-> Rest]
    /\ blobsOn = TRUE

Goes(c, rec) == blobCall' = [blobCall EXCEPT ![c] = rec]
Returns(c) == Goes(c, Rest)
------------------------------------------------------------------------------
(* Put.                                                                    *)

\* The bytes that rows account for, one pair each, so that they can be counted.
Bytes(rows) == UNION {{k} \X (1..rows[k].size): k \in BlobKey}
ScopeTotal == Cardinality(Bytes(blobRow))

AtMost(n, m) == IF n < m THEN n ELSE m
Excess(n, m) == IF n > m THEN n - m ELSE 0

\* Put reads the usage and computes the allowance of the body, outside a transaction,
\* and opens its staging file.
PutReadsUsage(c, k) ==
    /\ blobCall[c].op = "none"
    /\ Goes(c, [Rest EXCEPT !.op = "usage", !.key = k,
                !.allowance = AtMost(MaxObjectBytes,
                    Excess(MaxScopeBytes + blobRow[k].size, ScopeTotal))])
    /\ tmp' = tmp \cup {c}
    /\ UNCHANGED <<blobRow, objects, nextName, blobsOn>>

\* stage: the body fits its allowance and the file is published under a new name.
Stage(c, size) ==
    /\ blobCall[c].op = "usage"
    /\ size <= blobCall[c].allowance
    /\ nextName <= MaxNames
    /\ Goes(c, [blobCall[c] EXCEPT !.op = "staged", !.name = nextName, !.size = size])
    /\ objects' = objects \cup {nextName}
    /\ nextName' = nextName + 1
    /\ tmp' = tmp \ {c}
    /\ UNCHANGED <<blobRow, blobsOn>>

\* stage fails: the body is over its allowance, the reader or the disk fails.
StageFails(c) ==
    /\ blobCall[c].op = "usage"
    /\ Returns(c)
    /\ tmp' = tmp \ {c}
    /\ UNCHANGED <<blobRow, objects, nextName, blobsOn>>

\* mutant: the transaction trusts the allowance
WithinAllowance(k, size) == TRUE

\* The limits as the transaction checks them.
WithinLimits(k, size) ==
    /\ size <= MaxObjectBytes
    /\ ScopeTotal + size <= MaxScopeBytes + blobRow[k].size

\* The metadata transaction: limits, admission, swap.
SwapRow(c) ==
    /\ blobCall[c].op = "staged"
    /\ WithinLimits(blobCall[c].key, blobCall[c].size)
    /\ blobsOn
    /\ blobRow' = [blobRow EXCEPT ![blobCall[c].key] =
                     [name |-> blobCall[c].name, size |-> blobCall[c].size]]
    /\ Goes(c, [blobCall[c] EXCEPT !.op = "swapped", !.old = blobRow[blobCall[c].key].name])
    /\ UNCHANGED <<objects, tmp, nextName, blobsOn>>

\* The transaction fails, by a limit, admission or any error; the staged file is removed.
SwapFails(c) ==
    /\ blobCall[c].op = "staged"
    /\ objects' = objects \ {blobCall[c].name}
    /\ Returns(c)
    /\ UNCHANGED <<blobRow, tmp, nextName, blobsOn>>

\* mutant: the name is read again after the commit
UnlinkedNow(c) == blobRow[blobCall[c].key].name

\* The file a call removes once its transaction has committed.
Unlinked(c) == blobCall[c].old

\* The file of the row before is removed, or the removal fails and leaves it to Recover.
RemoveOld(c) ==
    /\ blobCall[c].op \in {"swapped", "deleted"}
    /\ objects' \in {objects, objects \ {Unlinked(c)}}
    /\ Returns(c)
    /\ UNCHANGED <<blobRow, tmp, nextName, blobsOn>>
------------------------------------------------------------------------------
(* Get and Delete.                                                         *)

\* Get reads the row.
GetReadsRow(c, k) ==
    /\ blobCall[c].op = "none"
    /\ k \in Present
    /\ Goes(c, [Rest EXCEPT !.op = "looked", !.key = k,
                !.name = blobRow[k].name, !.size = blobRow[k].size])
    /\ UNCHANGED <<blobRow, objects, tmp, nextName, blobsOn>>

\* Get opens the file the row named; it may be gone by now, which Get reports as an error.
GetOpens(c) ==
    /\ blobCall[c].op = "looked"
    /\ Goes(c, [blobCall[c] EXCEPT
                  !.op = IF blobCall[c].name \in objects THEN "opened" ELSE "missing"])
    /\ UNCHANGED <<blobRow, objects, tmp, nextName, blobsOn>>

\* The reader is closed, or the error is returned.
GetReturns(c) ==
    /\ blobCall[c].op \in {"opened", "missing"}
    /\ Returns(c)
    /\ UNCHANGED <<blobRow, objects, tmp, nextName, blobsOn>>

\* Delete removes the row in a transaction that admission may refuse.
DeleteRow(c, k) ==
    /\ blobCall[c].op = "none"
    /\ k \in Present
    /\ blobsOn
    /\ Goes(c, [Rest EXCEPT !.op = "deleted", !.key = k, !.old = blobRow[k].name])
    /\ blobRow' = [blobRow EXCEPT ![k] = NoBlobRow]
    /\ UNCHANGED <<objects, tmp, nextName, blobsOn>>
------------------------------------------------------------------------------
(* The plugin is switched, the process dies, Recover.                      *)

SwitchBlobs ==
    /\ blobsOn' = ~ blobsOn
    /\ UNCHANGED <<blobRow, objects, tmp, nextName, blobCall>>

\* The files Recover keeps: those a row names.
Referenced == {blobRow[k].name: k \in Present}

\* The process dies: calls are gone, rows and files stay.  The next start runs Recover
\* before anything may call the scope.
CrashAndRecover ==
    /\ blobCall' = [c \in BlobCall |-> Rest]
    /\ tmp' = {}
    /\ objects' = objects \cap Referenced
    /\ UNCHANGED <<blobRow, nextName, blobsOn>>

BlobsNext ==
    \/ \E c \in BlobCall:
         \/ \E k \in BlobKey: PutReadsUsage(c, k) \/ GetReadsRow(c, k) \/ DeleteRow(c, k)
         \/ \E n \in BodySize: Stage(c, n)
         \/ StageFails(c) \/ SwapRow(c) \/ SwapFails(c) \/ RemoveOld(c)
         \/ GetOpens(c) \/ GetReturns(c)
    \/ SwitchBlobs
    \/ CrashAndRecover

BlobsSpec == BlobsInit /\ [][BlobsNext]_blobVars
------------------------------------------------------------------------------
\* A row never names a file that is not there, whatever calls overlap and wherever the
\* process dies: the file is published before the row and removed after it, and only by
\* the call that took its name out of the row.
RowsHaveFiles == Referenced \subseteq objects

\* The scope stays within its quota although concurrent calls each staged against an
\* allowance of their own.
QuotaKept == ScopeTotal <= MaxScopeBytes

\* A Get that finds no file was overtaken: the row it read has been replaced or deleted.
MissingWasOvertaken ==
    \A c \in BlobCall: blobCall[c].op = "missing" =>
        blobRow[blobCall[c].key].name # blobCall[c].name

\* Rows, files and quota agree through overlapping calls and crashes (blobs.go).
BlobsSafe == BlobsTypeOK /\ RowsHaveFiles /\ QuotaKept /\ MissingWasOvertaken
=============================================================================
