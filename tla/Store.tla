-------------------------------- MODULE Store --------------------------------
(***************************************************************************)
(* The SQLite store (storage/sqlite.go), the prefix authorizer             *)
(* (storage/authorizer.go, storage/prefix.go) and the gate the plugin host *)
(* puts in front of a plugin's transactions (pluginhost/facade.go).        *)
(*                                                                         *)
(* One connection writes.  Go's channel writeSem admits one goroutine to   *)
(* it, txOwner turns a nested call into an error, and a plugin's statement *)
(* runs while an authorizer that allows only the plugin's own tables is    *)
(* installed on the connection, which core statements share.  Reads take a *)
(* connection of a bounded pool, and a plugin's read installs and clears   *)
(* its authorizer there too.                                               *)
(***************************************************************************)
EXTENDS Naturals, FiniteSets

CONSTANTS
    Goroutine,      \* goroutines that use the store
    StorePlugin,    \* plugins with a prefixed handle
    ReadConn,       \* connections of the reader pool
    WriteConn,      \* the writer connection
    NoOne           \* no goroutine, no plugin

ASSUME StoreConstants ==
    /\ NoOne \notin Goroutine \cup StorePlugin \cup ReadConn
    /\ WriteConn \notin ReadConn
    /\ StorePlugin \cap {"core", "admin"} = {}

VARIABLES
    writeSem,   \* the goroutine whose token is in the channel, or NoOne
    txOwner,    \* goroutines inside a transaction
    call,       \* what each goroutine is doing in the store
    connAuth,   \* the authorizer installed on each connection
    conn,       \* the reader connection a goroutine holds
    admitted,   \* policy: the plugin is enabled (core_plugin_state)
    refused,    \* a core statement met a plugin's authorizer
    strayed     \* a plugin's statement changed something that is not the plugin's

storeVars == <<writeSem, txOwner, call, connAuth, conn, admitted, refused, strayed>>

Who == StorePlugin \cup {"core", "admin", NoOne}
Phase == {"idle", "acquire", "callback", "statement", "rows", "after"}
StoreIdle == [phase |-> "idle", who |-> NoOne]

\* The type of the state.
StoreTypeOK ==
    /\ writeSem \in Goroutine \cup {NoOne}
    /\ txOwner \subseteq Goroutine
    /\ call \in [Goroutine -> [phase: Phase, who: Who]]
    /\ connAuth \in [ReadConn \cup {WriteConn} -> StorePlugin \cup {NoOne}]
    /\ conn \in [Goroutine -> ReadConn \cup {NoOne}]
    /\ admitted \in [StorePlugin -> BOOLEAN]
    /\ refused \in BOOLEAN /\ strayed \in BOOLEAN

StoreInit ==
    /\ writeSem = NoOne
    /\ txOwner = {}
    /\ call = [g \in Goroutine |-> StoreIdle]
    /\ connAuth = [c \in ReadConn \cup {WriteConn} |-> NoOne]
    /\ conn = [g \in Goroutine |-> NoOne]
    /\ admitted \in [StorePlugin -> BOOLEAN]
    /\ refused = FALSE /\ strayed = FALSE
------------------------------------------------------------------------------
(* acquire and release.                                                    *)

\* mutant: the owner table is not consulted
NestedUnknown(g) == FALSE

\* A callback that opens a transaction again gets ErrNestedTx at once.
Nested(g) == g \in txOwner

\* Tx or Exec is called, by an idle goroutine, by a callback that is already inside a
\* transaction, or by an AfterCommit callback.  Nesting fails fast, and the callback that
\* met it rolls its transaction back in a later step.
Acquire(g, who) ==
    /\ call[g].phase \in {"idle", "callback", "after"}
    /\ ~ Nested(g)
    /\ call' = [call EXCEPT ![g] = [phase |-> "acquire", who |-> who]]
    /\ UNCHANGED <<writeSem, txOwner, connAuth, conn, admitted, refused, strayed>>

\* The caller's context ends while it waits for the channel.
GiveUp(g) ==
    /\ call[g].phase = "acquire"
    /\ call' = [call EXCEPT ![g] = StoreIdle]
    /\ UNCHANGED <<writeSem, txOwner, connAuth, conn, admitted, refused, strayed>>

\* mutant: the plugin is asked about before the transaction, so any answer may be stale
AdmitsEarlier(who) == TRUE

\* gatedStore.Tx asks policy inside the transaction, on the connection it holds.
Admits(who) == who \in StorePlugin => admitted[who]

\* The channel takes the goroutine's token; the transaction begins, or it fails and the
\* token is given back.  A plugin that is switched off is rolled back at once.
Begin(g) ==
    /\ call[g].phase = "acquire"
    /\ writeSem = NoOne
    /\ \/ /\ Admits(call[g].who)
          /\ writeSem' = g
          /\ txOwner' = txOwner \cup {g}
          /\ call' = [call EXCEPT ![g].phase = "callback"]
       \/ /\ call' = [call EXCEPT ![g] = StoreIdle]
          /\ UNCHANGED <<writeSem, txOwner>>
    /\ UNCHANGED <<connAuth, conn, admitted, refused, strayed>>
------------------------------------------------------------------------------
(* Statements inside a transaction.                                        *)

\* withAuth installs the plugin's authorizer on the writer connection.
PluginStatement(g) ==
    /\ call[g].phase = "callback"
    /\ call[g].who \in StorePlugin
    /\ connAuth' = [connAuth EXCEPT ![WriteConn] = call[g].who]
    /\ call' = [call EXCEPT ![g].phase = "statement"]
    /\ UNCHANGED <<writeSem, txOwner, conn, admitted, refused, strayed>>

\* mutant: the deferred call is missing
NotCleared(c) == connAuth

\* What the deferred SetPluginAuthorizer("") leaves on the connection.
Cleared(c) == [connAuth EXCEPT ![c] = NoOne]

\* What SQLite reports while it prepares a statement: an action and the objects it names,
\* by whom they belong to.  "sequence" is SQLite's own counter table.
Object == {"own", "foreign", "master", "sequence", "none"}
Action == {"select", "attach", "temp", "quick_check", "pragma", "function", "load_extension", "vtable",
           "update", "rename", "read", "insert", "alter", "index", "trigger", "other"}

\* tableAllowed: the prefix, the schema tables DDL writes, and no name at all.
TableAllowed(o) == o \in {"own", "master", "none"}

\* mutant: the table a trigger is on is not looked at
AuthorizeByName(action, arg1, arg2) ==
    CASE action \in {"select", "function"} -> TRUE
      [] action \in {"update", "insert", "trigger"} -> TableAllowed(arg1)
      [] OTHER -> FALSE

\* authorize, the answer to one such report.
Authorize(action, arg1, arg2) ==
    CASE action \in {"select", "function"} -> TRUE
      [] action \in {"quick_check", "alter", "index"} -> TableAllowed(arg2)
      [] action = "rename" -> TableAllowed(arg1) \/ arg1 = "sequence"
      [] action = "read" -> TableAllowed(arg1) \/ arg1 = "sequence"
      [] action \in {"update", "insert"} -> TableAllowed(arg1)
      [] action = "trigger" -> TableAllowed(arg1) /\ TableAllowed(arg2)
      [] OTHER -> FALSE

\* The report is about a change of something that belongs to neither the plugin nor SQLite.
Foreign(action, arg1, arg2) ==
    \/ action \in {"update", "rename", "insert", "trigger"} /\ arg1 = "foreign"
    \/ action \in {"alter", "index", "trigger"} /\ arg2 = "foreign"
    \/ action \in {"attach", "load_extension"}
    \/ action \in {"update", "insert"} /\ arg1 = "sequence"

\* The statement ends, with rows, with an error or denied; the deferred call clears.
PluginStatementEnds(g) ==
    /\ call[g].phase = "statement"
    /\ conn[g] = NoOne
    /\ connAuth' = Cleared(WriteConn)
    /\ call' = [call EXCEPT ![g].phase = "callback"]
    /\ \E action \in Action, arg1, arg2 \in Object:
         strayed' = (strayed \/ (Authorize(action, arg1, arg2) /\ Foreign(action, arg1, arg2)))
    /\ UNCHANGED <<writeSem, txOwner, conn, admitted, refused>>

\* A core statement runs under whatever authorizer the connection carries.
CoreStatement(g) ==
    /\ call[g].phase = "callback"
    /\ call[g].who \notin StorePlugin
    /\ refused' = (refused \/ connAuth[WriteConn] # NoOne)
    /\ UNCHANGED <<writeSem, txOwner, call, connAuth, conn, admitted, strayed>>

Release(g) ==
    /\ writeSem' = NoOne
    /\ txOwner' = txOwner \ {g}

\* The callback returned nil and the commit succeeded.  The token goes back before the
\* AfterCommit callbacks run.  An administrator's transaction switches plugins.
Commit(g) ==
    /\ call[g].phase = "callback"
    /\ Release(g)
    /\ call' = [call EXCEPT ![g].phase = "after"]
    /\ IF call[g].who = "admin"
       THEN \E p \in StorePlugin: admitted' = [admitted EXCEPT ![p] = ~ @]
       ELSE UNCHANGED admitted
    /\ UNCHANGED <<connAuth, conn, refused, strayed>>

\* An error, a cancelled context, a failed commit or a panic.
Rollback(g) ==
    /\ call[g].phase = "callback"
    /\ Release(g)
    /\ call' = [call EXCEPT ![g] = StoreIdle]
    /\ UNCHANGED <<connAuth, conn, admitted, refused, strayed>>

\* The AfterCommit callbacks have run.
AfterCommit(g) ==
    /\ call[g].phase = "after"
    /\ call' = [call EXCEPT ![g] = StoreIdle]
    /\ UNCHANGED <<writeSem, txOwner, connAuth, conn, admitted, refused, strayed>>
------------------------------------------------------------------------------
(* The reader pool.                                                        *)

FreeReads == ReadConn \ {conn[g]: g \in Goroutine}

\* A plugin's query takes a connection and installs its authorizer.
PrefixedQuery(g, p) ==
    /\ call[g].phase = "idle"
    /\ \E c \in FreeReads:
         /\ conn' = [conn EXCEPT ![g] = c]
         /\ connAuth' = [connAuth EXCEPT ![c] = p]
    /\ call' = [call EXCEPT ![g] = [phase |-> "statement", who |-> p]]
    /\ UNCHANGED <<writeSem, txOwner, admitted, refused, strayed>>

\* The query was prepared or denied; the authorizer is cleared before the rows are read.
PrefixedQueryReturns(g) ==
    /\ call[g].phase = "statement"
    /\ conn[g] # NoOne
    /\ connAuth' = Cleared(conn[g])
    /\ \/ /\ call' = [call EXCEPT ![g].phase = "rows"]
          /\ UNCHANGED conn
       \/ /\ call' = [call EXCEPT ![g] = StoreIdle]
          /\ conn' = [conn EXCEPT ![g] = NoOne]
    /\ UNCHANGED <<writeSem, txOwner, admitted, refused, strayed>>

\* Close of the rows, or Scan of the single row, returns the connection.
RowsClose(g) ==
    /\ call[g].phase = "rows"
    /\ conn' = [conn EXCEPT ![g] = NoOne]
    /\ call' = [call EXCEPT ![g] = StoreIdle]
    /\ UNCHANGED <<writeSem, txOwner, connAuth, admitted, refused, strayed>>

\* A core query uses any free connection as it is.
CoreQuery ==
    /\ \E c \in FreeReads: refused' = (refused \/ connAuth[c] # NoOne)
    /\ UNCHANGED <<writeSem, txOwner, call, connAuth, conn, admitted, strayed>>
------------------------------------------------------------------------------
StoreStep(g) ==
    \/ \E who \in Who \ {NoOne}: Acquire(g, who)
    \/ GiveUp(g)
    \/ Begin(g)
    \/ PluginStatement(g)
    \/ PluginStatementEnds(g)
    \/ CoreStatement(g)
    \/ Commit(g)
    \/ Rollback(g)
    \/ AfterCommit(g)
    \/ \E p \in StorePlugin: PrefixedQuery(g, p)
    \/ PrefixedQueryReturns(g)
    \/ RowsClose(g)

StoreNext == CoreQuery \/ \E g \in Goroutine: StoreStep(g)

\* Go hands a channel's slot to the goroutine that has waited longest, so one that waits
\* is served if the slot frees again and again; a callback returns, since every one runs
\* under a context, and it commits or rolls back.
StoreFairness == \A g \in Goroutine:
    /\ SF_storeVars(Begin(g))
    /\ WF_storeVars(PluginStatementEnds(g))
    /\ WF_storeVars(PrefixedQueryReturns(g))
    /\ SF_storeVars(Commit(g) \/ Rollback(g))

StoreSpec == StoreInit /\ [][StoreNext]_storeVars /\ StoreFairness
------------------------------------------------------------------------------
(* Properties.                                                             *)

\* Nobody waits for a token it holds itself: acquire turns a nested Tx into an error, so
\* the goroutine in the channel is never one that stands in front of it.
NoSelfWait == writeSem # NoOne => call[writeSem].phase # "acquire"

\* An authorizer is on a connection only while the plugin it belongs to has a statement
\* running there, so no core statement or query is ever refused for a plugin's sake, and
\* what it lets a plugin's statement change is the plugin's own.
AuthorizerConfined ==
    /\ ~ refused /\ ~ strayed
    /\ \A c \in DOMAIN connAuth: connAuth[c] # NoOne =>
         \E g \in Goroutine:
            /\ call[g] = [phase |-> "statement", who |-> connAuth[c]]
            /\ c = IF conn[g] = NoOne THEN WriteConn ELSE conn[g]

\* A plugin's transaction commits only while the plugin is enabled: the check and the
\* mutation share one transaction, and the writer that would disable it waits for it.
NoCommitAfterDisable ==
    \A g \in Goroutine:
        /\ call[g].phase \in {"callback", "statement"}
        /\ conn[g] = NoOne
        /\ call[g].who \in StorePlugin
        => admitted[call[g].who]

\* Every call of Tx or Exec gets its turn or an error, whatever the others do.
CallersReturn ==
    \A g \in Goroutine: call[g].phase = "acquire" ~> call[g].phase # "acquire"

\* Transactions of the core and of the plugins keep apart, whatever calls overlap and
\* whenever a plugin is disabled (sqlite.go, authorizer.go, gatedStore).
StoreSafe == StoreTypeOK /\ AuthorizerConfined /\ NoCommitAfterDisable
=============================================================================
