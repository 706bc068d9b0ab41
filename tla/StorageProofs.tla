---------------------------- MODULE StorageProofs ----------------------------
(* Theorems about the store's transactions and authorizers, for every set of *)
(* goroutines, plugins and connections; about migrations, for every set of   *)
(* binaries; and about blobs, for every set of keys and calls.               *)
EXTENDS Store, Migrations, Blobs, FiniteSetTheorems, TLAPS

-----------------------------------------------------------------------------
(* Transactions and authorizers. *)

(* The goroutine is inside a transaction on the writer connection. *)
Writing(g) ==
    \/ call[g].phase = "callback"
    \/ call[g].phase = "statement" /\ conn[g] = NoOne

(* Every transaction holds the token. *)
TokenHeld == \A g \in Goroutine: Writing(g) => writeSem = g /\ g \in txOwner

(* A reader connection is held for a plugin's query and by one goroutine. *)
ReadersApart ==
    /\ \A g \in Goroutine: conn[g] # NoOne => call[g].phase \in {"statement", "rows"}
    /\ \A g, h \in Goroutine: conn[g] = conn[h] /\ conn[g] # NoOne => g = h

StatementsArePlugins ==
    \A g \in Goroutine: call[g].phase = "statement" => call[g].who \in StorePlugin

StoreInv == StoreSafe /\ TokenHeld /\ ReadersApart /\ StatementsArePlugins

(* What is not a plugin's own is denied by authorize, for each of SQLite's   *)
(* reports.                                                                  *)
LEMMA ForeignIsDenied ==
    ASSUME NEW action \in Action, NEW arg1 \in Object, NEW arg2 \in Object
    PROVE  ~ (Authorize(action, arg1, arg2) /\ Foreign(action, arg1, arg2))
BY DEF Action, Object, Authorize, Foreign, TableAllowed

LEMMA StoreTypeStep == StoreTypeOK /\ [StoreNext]_storeVars => StoreTypeOK'
<1> SUFFICES ASSUME StoreTypeOK, [StoreNext]_storeVars PROVE StoreTypeOK'
  OBVIOUS
<1> USE DEF StoreTypeOK, Who, Phase, StoreIdle
<1>1. CASE CoreQuery
  BY <1>1 DEF CoreQuery
<1>2. ASSUME NEW g \in Goroutine, StoreStep(g) PROVE StoreTypeOK'
  <2>1. ASSUME NEW who \in Who \ {NoOne}, Acquire(g, who) PROVE StoreTypeOK'
    BY <2>1 DEF Acquire
  <2>2. CASE GiveUp(g)
    BY <2>2 DEF GiveUp
  <2>3. CASE Begin(g)
    BY <2>3 DEF Begin
  <2>4. CASE PluginStatement(g)
    BY <2>4 DEF PluginStatement
  <2>5. CASE PluginStatementEnds(g)
    BY <2>5 DEF PluginStatementEnds, Cleared, Authorize, Foreign
  <2>6. CASE CoreStatement(g)
    BY <2>6 DEF CoreStatement
  <2>7. CASE Commit(g)
    BY <2>7 DEF Commit, Release
  <2>8. CASE Rollback(g)
    BY <2>8 DEF Rollback, Release
  <2>9. CASE AfterCommit(g)
    BY <2>9 DEF AfterCommit
  <2>10. ASSUME NEW p \in StorePlugin, PrefixedQuery(g, p) PROVE StoreTypeOK'
    BY <2>10 DEF PrefixedQuery, FreeReads
  <2>11. CASE PrefixedQueryReturns(g)
    BY <2>11 DEF PrefixedQueryReturns, Cleared
  <2>12. CASE RowsClose(g)
    BY <2>12 DEF RowsClose
  <2> QED
    BY <1>2, <2>1, <2>2, <2>3, <2>4, <2>5, <2>6, <2>7, <2>8, <2>9, <2>10, <2>11, <2>12
       DEF StoreStep
<1>3. CASE UNCHANGED storeVars
  BY <1>3 DEF storeVars
<1> QED
  BY <1>1, <1>2, <1>3 DEF StoreNext


(* Only the holder of the token writes, through every step. *)
LEMMA TokenStep ==
    StoreInv /\ [StoreNext]_storeVars
        => TokenHeld' /\ ReadersApart' /\ StatementsArePlugins'
<1> SUFFICES ASSUME StoreInv, [StoreNext]_storeVars
             PROVE  TokenHeld' /\ ReadersApart' /\ StatementsArePlugins'
  OBVIOUS
<1>0. StoreTypeOK /\ TokenHeld /\ ReadersApart /\ StatementsArePlugins
  BY DEF StoreInv, StoreSafe
<1> DEFINE Kept == TokenHeld' /\ ReadersApart' /\ StatementsArePlugins'
<1> USE DEF StoreTypeOK, TokenHeld, ReadersApart, StatementsArePlugins, Writing,
            Who, Phase, StoreIdle
<1>1. CASE CoreQuery
  BY <1>0, <1>1 DEF CoreQuery
<1>2. ASSUME NEW g \in Goroutine, StoreStep(g) PROVE Kept
  <2>1. ASSUME NEW who \in Who \ {NoOne}, Acquire(g, who) PROVE Kept
    BY <1>0, <2>1 DEF Acquire, Nested
  <2>2. CASE GiveUp(g)
    BY <1>0, <2>2 DEF GiveUp
  <2>3. CASE Begin(g)
    BY <1>0, <2>3, StoreConstants DEF Begin
  <2>4. CASE PluginStatement(g)
    BY <1>0, <2>4 DEF PluginStatement
  <2>5. CASE PluginStatementEnds(g)
    BY <1>0, <2>5 DEF PluginStatementEnds
  <2>6. CASE CoreStatement(g)
    BY <1>0, <2>6 DEF CoreStatement
  <2>7. CASE Commit(g)
    BY <1>0, <2>7 DEF Commit, Release
  <2>8. CASE Rollback(g)
    BY <1>0, <2>8 DEF Rollback, Release
  <2>9. CASE AfterCommit(g)
    BY <1>0, <2>9 DEF AfterCommit
  <2>10. ASSUME NEW p \in StorePlugin, PrefixedQuery(g, p) PROVE Kept
    BY <1>0, <2>10, StoreConstants DEF PrefixedQuery, FreeReads
  <2>11. CASE PrefixedQueryReturns(g)
    BY <1>0, <2>11, SMTT(30) DEF PrefixedQueryReturns
  <2>12. CASE RowsClose(g)
    BY <1>0, <2>12 DEF RowsClose
  <2> HIDE DEF Kept
  <2> QED
    BY <1>2, <2>1, <2>2, <2>3, <2>4, <2>5, <2>6, <2>7, <2>8, <2>9, <2>10, <2>11, <2>12
       DEF StoreStep
<1>3. CASE UNCHANGED storeVars
  BY <1>0, <1>3 DEF storeVars
<1> QED
  BY <1>1, <1>2, <1>3 DEF StoreNext

(* The plugin whose authorizer is on a connection has a statement there.     *)
RunsOn(g, c) ==
    /\ call[g].phase = "statement"
    /\ call[g].who = connAuth[c]
    /\ conn[g] = IF c = WriteConn THEN NoOne ELSE c

Confined ==
    /\ refused = FALSE /\ strayed = FALSE
    /\ \A c \in ReadConn \cup {WriteConn} :
          connAuth[c] # NoOne => \E g \in Goroutine : RunsOn(g, c)

LEMMA ConfinedIs == StoreTypeOK => (AuthorizerConfined <=> Confined)
<1> SUFFICES ASSUME StoreTypeOK PROVE AuthorizerConfined <=> Confined
  OBVIOUS
<1> DEFINE Conn == ReadConn \cup {WriteConn}
           Bears(g, c) ==
             /\ call[g] = [phase |-> "statement", who |-> connAuth[c]]
             /\ c = IF conn[g] = NoOne THEN WriteConn ELSE conn[g]
           Borne == \A c \in Conn : connAuth[c] # NoOne => \E g \in Goroutine : Bears(g, c)
<1>1. DOMAIN connAuth = Conn
  BY DEF StoreTypeOK
<1>2. refused \in BOOLEAN /\ strayed \in BOOLEAN
  BY DEF StoreTypeOK
<1>3. ASSUME NEW g \in Goroutine, NEW c \in Conn
      PROVE  RunsOn(g, c) <=> Bears(g, c)
  <2>1. call[g] \in [phase: Phase, who: Who] /\ conn[g] \in ReadConn \cup {NoOne}
    BY DEF StoreTypeOK
  <2>2. call[g].phase = "statement" /\ call[g].who = connAuth[c]
          <=> call[g] = [phase |-> "statement", who |-> connAuth[c]]
    BY <2>1
  <2>3. conn[g] = (IF c = WriteConn THEN NoOne ELSE c)
          <=> c = IF conn[g] = NoOne THEN WriteConn ELSE conn[g]
    BY <2>1, StoreConstants
  <2> QED
    BY <2>2, <2>3 DEF RunsOn
<1>4. AuthorizerConfined <=> ~ refused /\ ~ strayed /\ Borne
  BY <1>1 DEF AuthorizerConfined
<1>5. ~ refused /\ ~ strayed <=> refused = FALSE /\ strayed = FALSE
  BY <1>2
<1>6. Borne <=> \A c \in Conn : connAuth[c] # NoOne => \E g \in Goroutine : RunsOn(g, c)
  <2> HIDE DEF Bears, Conn
  <2> QED
    BY <1>3
<1> HIDE DEF Borne
<1> QED
  BY <1>4, <1>5, <1>6 DEF Confined

(* A plugin's authorizer never outlives its statement, and nothing of others *)
(* is changed under it.                                                      *)
LEMMA ConfinedStep == StoreInv /\ Confined /\ [StoreNext]_storeVars => Confined'
<1> SUFFICES ASSUME StoreInv, Confined, [StoreNext]_storeVars PROVE Confined'
  OBVIOUS
<1>0. StoreTypeOK /\ TokenHeld /\ ReadersApart /\ StatementsArePlugins
  BY DEF StoreInv, StoreSafe
<1>a. connAuth \in [ReadConn \cup {WriteConn} -> StorePlugin \cup {NoOne}]
        /\ call \in [Goroutine -> [phase: Phase, who: Who]]
        /\ conn \in [Goroutine -> ReadConn \cup {NoOne}]
  BY <1>0 DEF StoreTypeOK
(* An authorizer stays where it is while its statement does. *)
<1>b. ASSUME NEW g \in Goroutine, NEW c \in ReadConn \cup {WriteConn},
             RunsOn(g, c), call'[g] = call[g], conn'[g] = conn[g],
             connAuth'[c] = connAuth[c]
      PROVE  RunsOn(g, c)'
  BY <1>b DEF RunsOn
<1>c. ASSUME connAuth' = connAuth, refused' = FALSE, strayed' = FALSE,
             \A g \in Goroutine : call[g].phase = "statement"
                => call'[g] = call[g] /\ conn'[g] = conn[g]
      PROVE  Confined'
  BY <1>b, <1>c DEF Confined, RunsOn
<1>1. CASE CoreQuery
  <2>1. \A c \in FreeReads : connAuth[c] = NoOne
    BY StoreConstants DEF FreeReads, Confined, RunsOn
  <2>2. refused' = FALSE
    BY <1>1, <2>1 DEF CoreQuery, Confined
  <2>3. strayed' = FALSE /\ connAuth' = connAuth /\ call' = call /\ conn' = conn
    BY <1>1 DEF CoreQuery, Confined
  <2> QED
    BY <1>c, <2>2, <2>3
<1>2. ASSUME NEW g \in Goroutine, StoreStep(g) PROVE Confined'
  <2>1. ASSUME NEW who \in Who \ {NoOne}, Acquire(g, who) PROVE Confined'
    BY <1>a, <1>c, <2>1 DEF Acquire, Confined
  <2>2. CASE GiveUp(g)
    BY <1>a, <1>c, <2>2 DEF GiveUp, Confined
  <2>3. CASE Begin(g)
    BY <1>a, <1>c, <2>3 DEF Begin, Confined
  <2>4. CASE PluginStatement(g)
    <3>1. conn[g] = NoOne
      BY <1>0, <2>4 DEF PluginStatement, ReadersApart
    <3>2. ASSUME NEW c \in ReadConn, connAuth[c] # NoOne
          PROVE  \E h \in Goroutine : RunsOn(h, c)'
      <4>1. PICK h \in Goroutine : RunsOn(h, c)
        BY <3>2 DEF Confined
      <4>2. h # g
        BY <2>4, <4>1 DEF PluginStatement, RunsOn
      <4>3. connAuth'[c] = connAuth[c] /\ call'[h] = call[h] /\ conn'[h] = conn[h]
        BY <1>a, <2>4, <4>2, StoreConstants DEF PluginStatement
      <4> QED
        BY <1>b, <4>1, <4>3
    <3>3. RunsOn(g, WriteConn)'
      BY <1>a, <2>4, <3>1 DEF PluginStatement, RunsOn
    <3>4. \A c \in ReadConn : connAuth'[c] = connAuth[c]
      BY <1>a, <2>4, StoreConstants DEF PluginStatement
    <3> QED
      BY <2>4, <3>2, <3>3, <3>4 DEF PluginStatement, Confined
  <2>5. CASE PluginStatementEnds(g)
    <3>1. strayed' = FALSE
      BY <2>5, ForeignIsDenied DEF PluginStatementEnds, Confined
    <3>2. ASSUME NEW c \in ReadConn, connAuth[c] # NoOne
          PROVE  \E h \in Goroutine : RunsOn(h, c)'
      <4>1. PICK h \in Goroutine : RunsOn(h, c)
        BY <3>2 DEF Confined
      <4>2. h # g
        BY <2>5, <4>1, StoreConstants DEF PluginStatementEnds, RunsOn
      <4>3. connAuth'[c] = connAuth[c] /\ call'[h] = call[h] /\ conn'[h] = conn[h]
        BY <1>a, <2>5, <4>2, StoreConstants DEF PluginStatementEnds, Cleared
      <4> QED
        BY <1>b, <4>1, <4>3
    <3>3. \A c \in ReadConn : connAuth'[c] = connAuth[c]
      BY <1>a, <2>5, StoreConstants DEF PluginStatementEnds, Cleared
    <3>4. connAuth'[WriteConn] = NoOne /\ refused' = FALSE
      BY <1>a, <2>5 DEF PluginStatementEnds, Cleared, Confined
    <3> QED
      BY <3>1, <3>2, <3>3, <3>4 DEF Confined
  <2>6. CASE CoreStatement(g)
    <3>1. \A h \in Goroutine : ~ RunsOn(h, WriteConn)
      BY <1>0, <2>6 DEF CoreStatement, TokenHeld, Writing, RunsOn
    <3>2. connAuth[WriteConn] = NoOne
      BY <3>1 DEF Confined
    <3> QED
      BY <1>c, <2>6, <3>2 DEF CoreStatement, Confined
  <2>7. CASE Commit(g)
    BY <1>a, <1>c, <2>7 DEF Commit, Confined
  <2>8. CASE Rollback(g)
    BY <1>a, <1>c, <2>8 DEF Rollback, Confined
  <2>9. CASE AfterCommit(g)
    BY <1>a, <1>c, <2>9 DEF AfterCommit, Confined
  <2>10. ASSUME NEW p \in StorePlugin, PrefixedQuery(g, p) PROVE Confined'
    <3>1. PICK d \in FreeReads : conn' = [conn EXCEPT ![g] = d]
                                 /\ connAuth' = [connAuth EXCEPT ![d] = p]
      BY <2>10 DEF PrefixedQuery
    <3>2. d \in ReadConn /\ d # WriteConn /\ \A h \in Goroutine : conn[h] # d
      BY StoreConstants DEF FreeReads
    <3>3. RunsOn(g, d)'
      BY <1>a, <2>10, <3>1, <3>2 DEF PrefixedQuery, RunsOn
    <3>4. ASSUME NEW c \in ReadConn \cup {WriteConn}, c # d, connAuth[c] # NoOne
          PROVE  \E h \in Goroutine : RunsOn(h, c)'
      <4>1. PICK h \in Goroutine : RunsOn(h, c)
        BY <3>4 DEF Confined
      <4>2. h # g
        BY <2>10, <4>1 DEF PrefixedQuery, RunsOn
      <4>3. connAuth'[c] = connAuth[c] /\ call'[h] = call[h] /\ conn'[h] = conn[h]
        BY <1>a, <2>10, <3>1, <3>4, <4>2 DEF PrefixedQuery
      <4> QED
        BY <1>b, <4>1, <4>3
    <3>5. \A c \in ReadConn \cup {WriteConn} : c # d => connAuth'[c] = connAuth[c]
      BY <1>a, <3>1
    <3> QED
      BY <2>10, <3>2, <3>3, <3>4, <3>5 DEF PrefixedQuery, Confined
  <2>11. CASE PrefixedQueryReturns(g)
    <3>1. conn[g] \in ReadConn /\ connAuth' = [connAuth EXCEPT ![conn[g]] = NoOne]
      BY <1>a, <2>11 DEF PrefixedQueryReturns, Cleared
    <3>2. ASSUME NEW c \in ReadConn \cup {WriteConn}, c # conn[g], connAuth[c] # NoOne
          PROVE  \E h \in Goroutine : RunsOn(h, c)'
      <4>1. PICK h \in Goroutine : RunsOn(h, c)
        BY <3>2 DEF Confined
      <4>2. h # g
        BY <2>11, <3>2, <4>1 DEF PrefixedQueryReturns, RunsOn
      <4>3. connAuth'[c] = connAuth[c] /\ call'[h] = call[h] /\ conn'[h] = conn[h]
        BY <1>a, <2>11, <3>1, <3>2, <4>2 DEF PrefixedQueryReturns
      <4> QED
        BY <1>b, <4>1, <4>3
    <3>3. \A c \in ReadConn \cup {WriteConn} : c # conn[g] => connAuth'[c] = connAuth[c]
      BY <1>a, <3>1
    <3>4. connAuth'[conn[g]] = NoOne
      BY <1>a, <3>1
    <3> QED
      BY <2>11, <3>2, <3>3, <3>4 DEF PrefixedQueryReturns, Confined
  <2>12. CASE RowsClose(g)
    BY <1>a, <1>c, <2>12 DEF RowsClose, Confined
  <2> QED
    BY <1>2, <2>1, <2>2, <2>3, <2>4, <2>5, <2>6, <2>7, <2>8, <2>9, <2>10, <2>11, <2>12
       DEF StoreStep
<1>3. CASE UNCHANGED storeVars
  BY <1>c, <1>3 DEF storeVars, Confined
<1> QED
  BY <1>1, <1>2, <1>3 DEF StoreNext

(* A plugin that is disabled has no transaction left to commit. *)
LEMMA AdmittedStep == StoreInv /\ [StoreNext]_storeVars => NoCommitAfterDisable'
<1> SUFFICES ASSUME StoreInv, [StoreNext]_storeVars PROVE NoCommitAfterDisable'
  OBVIOUS
<1>0. StoreTypeOK /\ TokenHeld /\ ReadersApart /\ StatementsArePlugins /\ NoCommitAfterDisable
  BY DEF StoreInv, StoreSafe
<1> USE DEF StoreTypeOK, NoCommitAfterDisable, Who, Phase, StoreIdle
<1>1. CASE CoreQuery
  BY <1>0, <1>1 DEF CoreQuery
<1>2. ASSUME NEW g \in Goroutine, StoreStep(g) PROVE NoCommitAfterDisable'
  <2>1. ASSUME NEW who \in Who \ {NoOne}, Acquire(g, who) PROVE NoCommitAfterDisable'
    BY <1>0, <2>1 DEF Acquire
  <2>2. CASE GiveUp(g)
    BY <1>0, <2>2 DEF GiveUp
  <2>3. CASE Begin(g)
    BY <1>0, <2>3 DEF Begin, Admits
  <2>4. CASE PluginStatement(g)
    BY <1>0, <2>4 DEF PluginStatement
  <2>5. CASE PluginStatementEnds(g)
    BY <1>0, <2>5 DEF PluginStatementEnds
  <2>6. CASE CoreStatement(g)
    BY <1>0, <2>6 DEF CoreStatement
  <2>7. CASE Commit(g)
    <3>1. \A h \in Goroutine : h # g => ~ Writing(h)
      BY <1>0, <2>7 DEF Commit, TokenHeld, Writing
    <3>2. call'[g].phase = "after" /\ \A h \in Goroutine : h # g => call'[h] = call[h]
      BY <1>0, <2>7 DEF Commit
    <3> QED
      BY <1>0, <2>7, <3>1, <3>2 DEF Commit, Writing
  <2>8. CASE Rollback(g)
    BY <1>0, <2>8 DEF Rollback, Release
  <2>9. CASE AfterCommit(g)
    BY <1>0, <2>9 DEF AfterCommit
  <2>10. ASSUME NEW p \in StorePlugin, PrefixedQuery(g, p) PROVE NoCommitAfterDisable'
    BY <1>0, <2>10, StoreConstants DEF PrefixedQuery, FreeReads
  <2>11. CASE PrefixedQueryReturns(g)
    BY <1>0, <2>11 DEF PrefixedQueryReturns
  <2>12. CASE RowsClose(g)
    BY <1>0, <2>12 DEF RowsClose
  <2> QED
    BY <1>2, <2>1, <2>2, <2>3, <2>4, <2>5, <2>6, <2>7, <2>8, <2>9, <2>10, <2>11, <2>12
       DEF StoreStep
<1>3. CASE UNCHANGED storeVars
  BY <1>0, <1>3 DEF storeVars
<1> QED
  BY <1>1, <1>2, <1>3 DEF StoreNext

LEMMA StoreInvInit == StoreInit => StoreInv
<1> SUFFICES ASSUME StoreInit PROVE StoreInv
  OBVIOUS
<1> USE DEF StoreInit
<1>1. StoreTypeOK
  BY DEF StoreTypeOK, Who, Phase, StoreIdle
<1>2. Confined
  BY DEF Confined
<1>3. \A g \in Goroutine : call[g].phase = "idle" /\ conn[g] = NoOne
  BY DEF StoreIdle
<1> QED
  BY <1>1, <1>2, <1>3, ConfinedIs
     DEF StoreInv, StoreSafe, NoCommitAfterDisable, TokenHeld, ReadersApart,
         StatementsArePlugins, Writing

(* Transactions of the core and of the plugins keep apart: a plugin's        *)
(* authorizer is on a connection only while that plugin's statement runs     *)
(* there, what it lets through is the plugin's own, and a plugin's           *)
(* transaction commits only while the plugin is enabled (sqlite.go           *)
(* acquire, withAuth, authorizer.go authorize, facade.go gatedStore).        *)
THEOREM TransactionsStayApart == StoreSpec => []StoreSafe
<1>1. StoreInit => StoreInv
  BY StoreInvInit
<1>2. StoreInv /\ [StoreNext]_storeVars => StoreInv'
  <2> SUFFICES ASSUME StoreInv, [StoreNext]_storeVars PROVE StoreInv'
    OBVIOUS
  <2>1. StoreTypeOK'
    BY StoreTypeStep DEF StoreInv, StoreSafe
  <2>2. (StoreTypeOK => (AuthorizerConfined <=> Confined))'
    BY ConfinedIs, PTL
  <2>3. Confined'
    BY ConfinedIs, ConfinedStep DEF StoreInv, StoreSafe
  <2> QED
    BY <2>1, <2>2, <2>3, TokenStep, AdmittedStep DEF StoreInv, StoreSafe
<1>3. StoreInv => StoreSafe
  BY DEF StoreInv
<1> QED
  BY <1>1, <1>2, <1>3, PTL DEF StoreSpec

-----------------------------------------------------------------------------
(* Migrations. *)

AllMigrations == UNION {{b[i]: i \in DOMAIN b}: b \in Binaries}

(* The schema is what the rows that were applied say it is. *)
SchemaFollowsRows == schema = UNION {m.creates: m \in {n \in AllMigrations: Row(n) \in applied}}

(* A start that is under way has met a prefix of its list: every migration   *)
(* of it had run unchanged or has just been applied.                         *)
PrefixMet ==
    boot = "applying" =>
        /\ declared \in Binaries /\ ValidOrder(declared)
        /\ applied = read \cup {Row(declared[i]): i \in 1..(at - 1)}
        /\ \A i \in 1..(at - 1): Ran(declared[i]) => Row(declared[i]) \in read

RowsFinite == IsFiniteSet(applied) /\ IsFiniteSet(read)

ReadyRows ==
    boot = "ready" =>
        declared \in Binaries /\ applied = {Row(m): m \in ToSet(declared)}

MigrationsInv ==
    /\ MigrationsTypeOK
    /\ RowsFinite
    /\ SchemaFollowsRows
    /\ PrefixMet
    /\ ReadyRows

LEMMA ListsAreFinite ==
    /\ Len(<<>>) = 0
    /\ \A b \in Binaries: Len(b) \in Nat /\ DOMAIN b = 1..Len(b)
    /\ \A b \in Binaries: \A i \in DOMAIN b:
          Row(b[i]) \in AllRows /\ b[i] \in AllMigrations /\ b[i].version \in Nat
    /\ \A r \in AllRows: r.version \in Nat
<1>1. Len(<<>>) = 0
  OBVIOUS
<1>2. \A b \in Binaries: Len(b) \in Nat /\ DOMAIN b = 1..Len(b)
  BY BinariesAssumption
<1>3. \A b \in Binaries: \A i \in DOMAIN b:
          Row(b[i]) \in AllRows /\ b[i] \in AllMigrations /\ b[i].version \in Nat
  BY BinariesAssumption DEF AllRows, AllMigrations
<1>4. ASSUME NEW r \in AllRows PROVE r.version \in Nat
  <2>1. PICK b \in Binaries : \E i \in DOMAIN b : r = Row(b[i])
    BY DEF AllRows
  <2>2. PICK i \in DOMAIN b : r = Row(b[i])
    BY <2>1
  <2>3. r.version = b[i].version
    BY <2>2 DEF Row
  <2> QED
    BY <2>3, BinariesAssumption
<1> QED
  BY <1>1, <1>2, <1>3, <1>4

(* A row tells what its migration created. *)
LEMMA RowTellsCreates ==
    ASSUME NEW m \in AllMigrations, NEW n \in AllMigrations, Row(m) = Row(n)
    PROVE  m.creates = n.creates
<1>1. PICK a \in Binaries : \E i \in DOMAIN a : m = a[i]
  BY DEF AllMigrations
<1>2. PICK i \in DOMAIN a : m = a[i]
  BY <1>1
<1>3. PICK b \in Binaries : \E j \in DOMAIN b : n = b[j]
  BY DEF AllMigrations
<1>4. PICK j \in DOMAIN b : n = b[j]
  BY <1>3
<1>5. m.version = n.version /\ m.sum = n.sum
  BY DEF Row
<1> QED
  BY <1>2, <1>4, <1>5, BinariesAssumption

(* The step of a migration that has not run: its version is above all others. *)
LEMMA AppliesUpwards ==
    ASSUME MigrationsInv, boot = "applying", at \in DOMAIN declared,
           ~ Ran(declared[at]), ~ BelowHighWater(declared[at]),
           NEW q \in applied
    PROVE  q.version < declared[at].version
<1>1. declared \in Binaries /\ ValidOrder(declared)
        /\ applied = read \cup {Row(declared[i]): i \in 1..(at - 1)}
        /\ read \subseteq AllRows
  BY DEF MigrationsInv, PrefixMet, MigrationsTypeOK
<1>2. DOMAIN declared = 1..Len(declared) /\ Len(declared) \in Nat
        /\ declared[at].version \in Nat
  BY <1>1, ListsAreFinite
<1>3. CASE q \in read
  <2>1. q.version \in Versions(read) /\ q.version \in Nat
    BY <1>1, <1>3, ListsAreFinite DEF Versions
  <2>2. q.version # declared[at].version /\ ~ (declared[at].version < q.version)
    BY <2>1 DEF Ran, BelowHighWater
  <2> QED
    BY <1>2, <2>1, <2>2
<1>4. CASE q \notin read
  <2>1. PICK i \in 1..(at - 1) : q = Row(declared[i])
    BY <1>1, <1>4
  <2>2. i \in DOMAIN declared /\ i < at
    BY <1>2
  <2>3. declared[i].version < declared[at].version
    BY <1>1, <2>2 DEF ValidOrder
  <2> QED
    BY <2>1, <2>3 DEF Row
<1> QED
  BY <1>3, <1>4

LEMMA MigrationsTypeStep ==
    MigrationsTypeOK /\ [MigrationsNext]_migrationVars => MigrationsTypeOK'
<1> SUFFICES ASSUME MigrationsTypeOK, [MigrationsNext]_migrationVars PROVE MigrationsTypeOK'
  OBVIOUS
<1>0. Len(declared) \in Nat
  BY ListsAreFinite DEF MigrationsTypeOK
<1>1. ASSUME NEW b \in Binaries, StartApply(b) PROVE MigrationsTypeOK'
  <2>1. Len(b) \in Nat
    BY ListsAreFinite
  <2> QED
    BY <1>1, <2>1 DEF StartApply, MigrationsTypeOK
<1>2. CASE SkipApplied
  <2>1. DOMAIN declared = 1..Len(declared)
    BY <1>2, ListsAreFinite DEF SkipApplied, MigrationsTypeOK
  <2> QED
    BY <1>0, <1>2, <2>1 DEF SkipApplied, Fail, MigrationsTypeOK
<1>3. CASE ApplyOne
  <2>1. declared \in Binaries
    BY <1>3 DEF ApplyOne, MigrationsTypeOK
  <2>2. DOMAIN declared = 1..Len(declared) /\ Row(declared[at]) \in AllRows
    BY <1>3, <2>1, ListsAreFinite DEF ApplyOne
  <2> QED
    BY <1>0, <1>3, <2>2 DEF ApplyOne, Fail, MigrationsTypeOK
<1>4. CASE ApplyFails
  BY <1>4 DEF ApplyFails, Fail, MigrationsTypeOK
<1>5. CASE ApplyReturns
  BY <1>5 DEF ApplyReturns, MigrationsTypeOK
<1>6. CASE ProcessEnds
  BY <1>6, ListsAreFinite DEF ProcessEnds, MigrationsTypeOK
<1>7. CASE UNCHANGED migrationVars
  BY <1>7 DEF migrationVars, MigrationsTypeOK
<1> QED
  BY <1>1, <1>2, <1>3, <1>4, <1>5, <1>6, <1>7 DEF MigrationsNext

(* The rows a start has met, and the schema they describe, step by step. *)
LEMMA MigrationsInvStep ==
    MigrationsInv /\ [MigrationsNext]_migrationVars => MigrationsInv'
<1> SUFFICES ASSUME MigrationsInv, [MigrationsNext]_migrationVars PROVE MigrationsInv'
  OBVIOUS
<1>0. MigrationsTypeOK /\ RowsFinite /\ SchemaFollowsRows /\ PrefixMet /\ ReadyRows
  BY DEF MigrationsInv
<1>t. MigrationsTypeOK'
  BY <1>0, MigrationsTypeStep
<1> DEFINE Kept == RowsFinite' /\ SchemaFollowsRows' /\ PrefixMet' /\ ReadyRows'
<1> SUFFICES Kept
  BY <1>t DEF MigrationsInv
(* A step that leaves rows and schema alone has only the start to answer for. *)
<1>s. ASSUME UNCHANGED <<applied, schema, read>> PROVE RowsFinite' /\ SchemaFollowsRows'
  BY <1>0, <1>s DEF RowsFinite, SchemaFollowsRows
<1>f. CASE Fail
  <2>1. PrefixMet' /\ ReadyRows'
    BY <1>f DEF Fail, PrefixMet, ReadyRows
  <2> QED
    BY <1>s, <1>f, <2>1 DEF Fail
<1>1. ASSUME NEW b \in Binaries, StartApply(b) PROVE Kept
  <2>1. boot' \in {"applying", "failed"} /\ (boot' = "applying" => ValidOrder(b))
    BY <1>1 DEF StartApply
  <2>2. PrefixMet'
    BY <1>1, <2>1 DEF StartApply, PrefixMet
  <2>3. ReadyRows'
    BY <1>1, <2>1 DEF ReadyRows
  <2>4. RowsFinite' /\ SchemaFollowsRows'
    BY <1>0, <1>1 DEF StartApply, RowsFinite, SchemaFollowsRows
  <2> QED
    BY <2>2, <2>3, <2>4
<1>2. CASE SkipApplied
  <2>1. CASE Changed(declared[at])
    BY <1>2, <1>f, <2>1 DEF SkipApplied
  <2>2. CASE ~ Changed(declared[at])
    <3>1. Row(declared[at]) \in read /\ at \in Nat /\ at' = at + 1
            /\ UNCHANGED <<applied, schema, declared, read, boot>> /\ boot = "applying"
      BY <1>0, <1>2, <2>2, ListsAreFinite DEF SkipApplied, Changed, MigrationsTypeOK
    <3>2. 1..(at' - 1) = (1..(at - 1)) \cup {at} /\ at >= 1
      BY <1>0, <3>1, ListsAreFinite DEF MigrationsTypeOK
    <3>3. PrefixMet'
      BY <1>0, <3>1, <3>2 DEF PrefixMet, Ran
    <3>4. ReadyRows'
      BY <3>1 DEF ReadyRows
    <3> QED
      BY <1>s, <3>1, <3>3, <3>4
  <2> QED
    BY <2>1, <2>2
<1>3. CASE ApplyOne
  <2>1. CASE BelowHighWater(declared[at]) \/ ~ declared[at].creates \subseteq OwnObjects \cup schema
    BY <1>3, <1>f, <2>1 DEF ApplyOne
  <2>2. CASE ~ (BelowHighWater(declared[at]) \/ ~ declared[at].creates \subseteq OwnObjects \cup schema)
    <3>0. boot = "applying" /\ at \in DOMAIN declared /\ ~ Ran(declared[at])
            /\ schema' = schema \cup declared[at].creates
            /\ applied' = applied \cup {Row(declared[at])}
            /\ at' = at + 1 /\ UNCHANGED <<declared, read, boot>>
      BY <1>3, <2>2 DEF ApplyOne
    <3>1. declared \in Binaries /\ declared[at] \in AllMigrations
      BY <1>0, <3>0, ListsAreFinite DEF PrefixMet
    <3>2. 1..(at' - 1) = (1..(at - 1)) \cup {at} /\ at >= 1
      BY <1>0, <3>0, ListsAreFinite DEF MigrationsTypeOK
    <3>3. PrefixMet'
      BY <1>0, <3>0, <3>2 DEF PrefixMet, Ran
    <3>4. SchemaFollowsRows'
      <4> DEFINE Done(rows) == {n \in AllMigrations: Row(n) \in rows}
      <4>1. \A n \in Done(applied') : n \in Done(applied) \/ n.creates = declared[at].creates
        BY <3>0, <3>1, RowTellsCreates
      <4>2. declared[at] \in Done(applied') /\ Done(applied) \subseteq Done(applied')
        BY <3>0, <3>1
      <4>3. schema = UNION {m.creates: m \in Done(applied)}
        BY <1>0 DEF SchemaFollowsRows
      <4>4. UNION {m.creates: m \in Done(applied')} = schema \cup declared[at].creates
        <5> HIDE DEF Done
        <5> QED BY <4>1, <4>2, <4>3
      <4> QED
        BY <3>0, <4>4 DEF SchemaFollowsRows
    <3>5. RowsFinite'
      BY <1>0, <3>0, FS_AddElement DEF RowsFinite
    <3>6. ReadyRows'
      BY <3>0 DEF ReadyRows
    <3> QED
      BY <3>3, <3>4, <3>5, <3>6
  <2> QED
    BY <2>1, <2>2
<1>4. CASE ApplyFails
  BY <1>4, <1>f DEF ApplyFails
<1>5. CASE ApplyReturns
  <2>1. CASE Missing
    <3>1. boot' = "failed" /\ UNCHANGED <<applied, schema, read>>
      BY <1>5, <2>1 DEF ApplyReturns
    <3>2. PrefixMet' /\ ReadyRows'
      BY <3>1 DEF PrefixMet, ReadyRows
    <3> QED
      BY <1>s, <3>1, <3>2
  <2>2. CASE ~ Missing
    <3>0. boot = "applying" /\ at = Len(declared) + 1 /\ boot' = "ready"
            /\ UNCHANGED <<applied, schema, declared, read, at>>
      BY <1>5, <2>2 DEF ApplyReturns
    <3>1. declared \in Binaries /\ ValidOrder(declared)
            /\ applied = read \cup {Row(declared[i]): i \in 1..(at - 1)}
            /\ \A i \in 1..(at - 1): Ran(declared[i]) => Row(declared[i]) \in read
      BY <1>0, <3>0 DEF PrefixMet
    <3>2. Len(declared) \in Nat /\ 1..(at - 1) = DOMAIN declared
      BY <3>0, <3>1, ListsAreFinite
    <3> DEFINE R == {m \in ToSet(declared): Ran(m)}
               f == [m \in R |-> Row(m)]
    <3>3. \A m \in R : \E i \in DOMAIN declared : m = declared[i]
      BY DEF ToSet
    <3>4. \A m \in R : Row(m) \in read
      BY <3>1, <3>2, <3>3
    <3>5. ASSUME NEW m \in R, NEW n \in R, Row(m) = Row(n) PROVE m = n
      <4>1. PICK i \in DOMAIN declared : m = declared[i]
        BY <3>3
      <4>2. PICK j \in DOMAIN declared : n = declared[j]
        BY <3>3
      <4>3. m.version = n.version /\ m.version \in Nat
        BY <3>1, <3>5, <4>1, ListsAreFinite DEF Row
      <4>4. ~ (i < j) /\ ~ (j < i)
        BY <3>1, <4>1, <4>2, <4>3 DEF ValidOrder
      <4> QED
        BY <3>2, <4>1, <4>2, <4>4
    <3>6. f \in Injection(R, read)
      <4> HIDE DEF R
      <4> QED BY <3>4, <3>5 DEF Injection, IsInjective
    <3>7. Cardinality(R) = Cardinality(read)
      BY <2>2 DEF Missing
    <3>8. f \in Surjection(R, read)
      <4> HIDE DEF R, f
      <4> QED BY <1>0, <3>6, <3>7, FS_Injection DEF RowsFinite
    <3>9. \A r \in read : \E m \in R : r = Row(m)
      BY <3>8 DEF Surjection
    <3>10. applied = {Row(m): m \in ToSet(declared)}
      <4>1. {Row(declared[i]): i \in 1..(at - 1)} = {Row(m): m \in ToSet(declared)}
        BY <3>2 DEF ToSet
      <4>2. \A r \in read : r \in {Row(m): m \in ToSet(declared)}
        BY <3>9
      <4> QED
        BY <3>1, <4>1, <4>2
    <3>11. PrefixMet' /\ ReadyRows'
      BY <3>0, <3>1, <3>10 DEF PrefixMet, ReadyRows
    <3> QED
      BY <1>s, <3>0, <3>11
  <2> QED
    BY <2>1, <2>2
<1>6. CASE ProcessEnds
  <2>1. PrefixMet' /\ ReadyRows'
    BY <1>6 DEF ProcessEnds, PrefixMet, ReadyRows
  <2>2. RowsFinite' /\ SchemaFollowsRows'
    BY <1>0, <1>6, FS_EmptySet DEF ProcessEnds, RowsFinite, SchemaFollowsRows
  <2> QED
    BY <2>1, <2>2
<1>7. CASE UNCHANGED migrationVars
  <2>1. PrefixMet' /\ ReadyRows'
    BY <1>0, <1>7 DEF migrationVars, PrefixMet, ReadyRows, Ran
  <2> QED
    BY <1>s, <1>7, <2>1 DEF migrationVars
<1> HIDE DEF Kept
<1> QED
  BY <1>1, <1>2, <1>3, <1>4, <1>5, <1>6, <1>7 DEF MigrationsNext

LEMMA MigrationsInvInit == MigrationsInit => MigrationsInv
<1> SUFFICES ASSUME MigrationsInit PROVE MigrationsInv
  OBVIOUS
<1> USE DEF MigrationsInit
<1>1. MigrationsTypeOK
  BY ListsAreFinite DEF MigrationsTypeOK
<1> QED
  BY <1>1, FS_EmptySet DEF MigrationsInv, RowsFinite, SchemaFollowsRows, PrefixMet, ReadyRows

(* Rows and schema are both exactly the list's when its start succeeds. *)
LEMMA ReadyExact == MigrationsInv => ReadyIsExact
<1> SUFFICES ASSUME MigrationsInv, boot = "ready"
             PROVE  /\ applied = {Row(m): m \in ToSet(declared)}
                    /\ schema = UNION {m.creates: m \in ToSet(declared)}
  BY DEF ReadyIsExact
<1>1. declared \in Binaries /\ applied = {Row(m): m \in ToSet(declared)}
  BY DEF MigrationsInv, ReadyRows
<1>2. schema = UNION {m.creates: m \in {n \in AllMigrations: Row(n) \in applied}}
  BY DEF MigrationsInv, SchemaFollowsRows
<1>3. ToSet(declared) \subseteq {n \in AllMigrations: Row(n) \in applied}
  BY <1>1, ListsAreFinite DEF ToSet
<1>4. \A n \in AllMigrations: Row(n) \in applied =>
          \E m \in ToSet(declared) : n.creates = m.creates
  BY <1>1, <1>3, RowTellsCreates
<1> QED
  BY <1>1, <1>2, <1>3, <1>4

(* Whatever binaries ran before and wherever they died, an owner that starts *)
(* has exactly the schema its binary declares, and versions were only ever   *)
(* applied upwards (migrate.go, Apply and validateOrder).                    *)
THEOREM MigrationsAreExact == MigrationsSpec => MigrationsHold
<1>1. MigrationsInit => MigrationsInv
  BY MigrationsInvInit
<1>2. MigrationsInv /\ [MigrationsNext]_migrationVars => MigrationsInv'
  BY MigrationsInvStep
<1>3. MigrationsInv => MigrationsTypeOK /\ ReadyIsExact
  BY ReadyExact DEF MigrationsInv
<1>4. MigrationsInv /\ [MigrationsNext]_migrationVars
        => [\A r \in applied' \ applied: \A q \in applied: q.version < r.version]_migrationVars
  <2> SUFFICES ASSUME MigrationsInv, MigrationsNext, NEW r \in applied', r \notin applied,
                      NEW q \in applied
               PROVE  q.version < r.version
    OBVIOUS
  <2>1. ApplyOne
    BY DEF MigrationsNext, StartApply, SkipApplied, ApplyFails, ApplyReturns, ProcessEnds, Fail
  <2>2. /\ boot = "applying" /\ at \in DOMAIN declared
        /\ ~ Ran(declared[at]) /\ ~ BelowHighWater(declared[at])
        /\ r = Row(declared[at])
    BY <2>1 DEF ApplyOne, Fail
  <2>3. q.version < declared[at].version
    BY <2>2, AppliesUpwards
  <2> QED
    BY <2>2, <2>3 DEF Row
<1> QED
  BY <1>1, <1>2, <1>3, <1>4, PTL DEF MigrationsSpec, MigrationsHold, AppliedUpwards

-----------------------------------------------------------------------------
(* Blobs. *)

BlobRecord ==
    [op: {"none", "usage", "staged", "swapped", "looked", "opened", "missing", "deleted"},
     key: BlobKey, name: Names \cup {NoName}, size: Nat, old: Names \cup {NoName},
     allowance: Nat]

RowsTyped == blobRow \in [BlobKey -> [name: Names \cup {NoName}, size: 0..MaxObjectBytes]]
CallsTyped == blobCall \in [BlobCall -> BlobRecord]

(* A name is drawn from the counter before anything carries it. *)
NamesDrawn ==
    /\ \A n \in objects: n < nextName
    /\ \A k \in BlobKey: blobRow[k].name # NoName => blobRow[k].name < nextName
    /\ \A c \in BlobCall:
         /\ blobCall[c].name # NoName => blobCall[c].name < nextName
         /\ blobCall[c].old # NoName => blobCall[c].old < nextName

(* A staged file belongs to the call that staged it and to nobody else. *)
StagedApart ==
    \A c \in BlobCall: blobCall[c].op = "staged" =>
        /\ blobCall[c].name \in objects
        /\ \A k \in BlobKey: blobRow[k].name # blobCall[c].name
        /\ blobCall[c].old # blobCall[c].name
        /\ \A d \in BlobCall \ {c}:
             blobCall[d].name # blobCall[c].name /\ blobCall[d].old # blobCall[c].name

(* The file a call is about to remove has left its row for good. *)
OldGone ==
    \A c \in BlobCall: blobCall[c].op \in {"swapped", "deleted"} /\ blobCall[c].old # NoName =>
        \A k \in BlobKey: blobRow[k].name # blobCall[c].old

(* No two rows name the same file. *)
RowsApart ==
    \A j, k \in BlobKey: blobRow[j].name = blobRow[k].name /\ blobRow[j].name # NoName => j = k

(* A call that looked a row up carries the name it read. *)
LookedNamed ==
    \A c \in BlobCall: blobCall[c].op \in {"looked", "missing"} => blobCall[c].name # NoName

BlobsInv ==
    /\ BlobsTypeOK /\ RowsTyped /\ CallsTyped
    /\ NamesDrawn /\ StagedApart /\ OldGone /\ RowsApart /\ LookedNamed
    /\ RowsHaveFiles /\ MissingWasOvertaken
    /\ QuotaKept

(* The scope's total is a number, and replacing a row replaces its size in it. *)
LEMMA TotalReplaced ==
    ASSUME NEW rows, RowsTyped, NEW k \in BlobKey, NEW r \in [name: Names \cup {NoName}, size: 0..MaxObjectBytes],
           rows = [blobRow EXCEPT ![k] = r]
    PROVE  /\ ScopeTotal \in Nat
           /\ Cardinality(Bytes(rows)) \in Nat
           /\ Cardinality(Bytes(rows)) + blobRow[k].size = ScopeTotal + r.size
<1> DEFINE Others == UNION {{j} \X (1..blobRow[j].size): j \in BlobKey \ {k}}
           Old == {k} \X (1..blobRow[k].size)
           New == {k} \X (1..r.size)
<1>0. MaxObjectBytes \in Nat /\ IsFiniteSet(BlobKey)
  BY BlobLimits
<1>1. blobRow[k].size \in 0..MaxObjectBytes /\ r.size \in 0..MaxObjectBytes
  BY DEF RowsTyped
<1>2. IsFiniteSet(Others)
  <2>0. IsFiniteSet(1..MaxObjectBytes)
    BY <1>0, FS_Interval
  <2>1. IsFiniteSet(BlobKey \X (1..MaxObjectBytes))
    BY <1>0, <2>0, FS_Product
  <2>2. Others \subseteq BlobKey \X (1..MaxObjectBytes)
    BY <1>0 DEF RowsTyped
  <2> HIDE DEF Others
  <2> QED
    BY <2>1, <2>2, FS_Subset
<1>3. ASSUME NEW n \in 0..MaxObjectBytes
      PROVE  IsFiniteSet({k} \X (1..n)) /\ Cardinality({k} \X (1..n)) = n
  <2>0. n \in Nat
    BY <1>0
  <2>1. IsFiniteSet({k}) /\ Cardinality({k}) = 1
    BY FS_Singleton
  <2>2. IsFiniteSet(1..n) /\ Cardinality(1..n) = n
    BY <2>0, FS_Interval
  <2>3. IsFiniteSet({k} \X (1..n))
          /\ Cardinality({k} \X (1..n)) = Cardinality({k}) * Cardinality(1..n)
    BY <2>1, <2>2, FS_Product
  <2> QED
    BY <2>0, <2>1, <2>2, <2>3
<1>4. Bytes(blobRow) = Others \cup Old
  BY DEF Bytes
<1>5. Bytes(rows) = Others \cup New
  <2>1. \A j \in BlobKey : rows[j] = IF j = k THEN r ELSE blobRow[j]
    BY DEF RowsTyped
  <2> QED
    BY <2>1 DEF Bytes
<1>6. Others \cap Old = {} /\ Others \cap New = {}
  OBVIOUS
<1>7. IsFiniteSet(Old) /\ Cardinality(Old) = blobRow[k].size
        /\ IsFiniteSet(New) /\ Cardinality(New) = r.size
  BY <1>1, <1>3
<1>8. ASSUME NEW S, IsFiniteSet(S), Others \cap S = {}
      PROVE  Cardinality(Others \cup S) = Cardinality(Others) + Cardinality(S)
               /\ Cardinality(Others) \in Nat /\ Cardinality(S) \in Nat
  <2> HIDE DEF Others
  <2>1. Cardinality(Others \cap S) = 0
    BY <1>8, FS_EmptySet
  <2>2. Cardinality(Others) \in Nat /\ Cardinality(S) \in Nat
    BY <1>2, <1>8, FS_CardinalityType
  <2>3. Cardinality(Others \cup S)
          = Cardinality(Others) + Cardinality(S) - Cardinality(Others \cap S)
    BY <1>2, <1>8, FS_Union
  <2> QED
    BY <2>1, <2>2, <2>3
<1> HIDE DEF Others, Old, New
<1>9. ScopeTotal = Cardinality(Others) + blobRow[k].size /\ Cardinality(Others) \in Nat
  BY <1>4, <1>6, <1>7, <1>8 DEF ScopeTotal
<1>10. Cardinality(Bytes(rows)) = Cardinality(Others) + r.size
  BY <1>5, <1>6, <1>7, <1>8
<1> QED
  BY <1>0, <1>1, <1>9, <1>10

LEMMA TotalIsNatural == RowsTyped => ScopeTotal \in Nat
<1> SUFFICES ASSUME RowsTyped PROVE ScopeTotal \in Nat
  OBVIOUS
<1>1. PICK k \in BlobKey : TRUE
  BY BlobLimits
<1>2. blobRow[k] \in [name: Names \cup {NoName}, size: 0..MaxObjectBytes]
  BY DEF RowsTyped
<1> QED
  BY <1>2, TotalReplaced

(* What a step that changes one call says of all of them. *)
LEMMA GoesTo ==
    ASSUME CallsTyped, NEW c \in BlobCall, NEW rec \in BlobRecord, Goes(c, rec)
    PROVE  /\ CallsTyped'
           /\ blobCall'[c] = rec
           /\ \A d \in BlobCall \ {c} : blobCall'[d] = blobCall[d]
BY DEF CallsTyped, Goes

LEMMA RestIsRecord ==
    /\ Rest \in BlobRecord
    /\ Rest.op = "none" /\ Rest.name = NoName /\ Rest.old = NoName
BY BlobLimits DEF Rest, BlobRecord

LEMMA NamesAreNumbers == NoName \notin Names /\ Names \subseteq Nat
BY BlobLimits DEF Names

LEMMA RowFields ==
    ASSUME RowsTyped, NEW k \in BlobKey
    PROVE  /\ blobRow[k].name \in Names \cup {NoName}
           /\ blobRow[k].size \in Nat /\ blobRow[k].size <= MaxObjectBytes
BY BlobLimits DEF RowsTyped

LEMMA CallFields ==
    ASSUME CallsTyped, NEW c \in BlobCall
    PROVE  /\ blobCall[c] \in BlobRecord
           /\ blobCall[c].name \in Names \cup {NoName}
           /\ blobCall[c].old \in Names \cup {NoName}
           /\ blobCall[c].key \in BlobKey /\ blobCall[c].size \in Nat
BY DEF CallsTyped, BlobRecord

LEMMA HaveFilesIs ==
    RowsHaveFiles <=>
        \A k \in BlobKey: blobRow[k].name # NoName => blobRow[k].name \in objects
BY DEF RowsHaveFiles, Referenced, Present

(* What every step keeps of names, files and rows. *)
BlobsKept ==
    /\ NamesDrawn' /\ StagedApart' /\ OldGone' /\ RowsApart' /\ LookedNamed'
    /\ MissingWasOvertaken' /\ RowsHaveFiles'

Removes(n) == objects' \in {objects, objects \ {n}}

Spares(c, n) ==
    /\ \A k \in BlobKey : blobRow[k].name # NoName => blobRow[k].name # n
    /\ \A d \in BlobCall \ {c} : blobCall[d].op = "staged" => blobCall[d].name # n

(* A call returns, having removed no file that a row or a staged put needs. *)
LEMMA ReturnKeeps ==
    ASSUME BlobsInv, NEW c \in BlobCall, Returns(c), UNCHANGED <<blobRow, nextName>>,
           NEW n, Removes(n), Spares(c, n)
    PROVE  CallsTyped' /\ BlobsKept
<1>0. RowsTyped /\ CallsTyped /\ NamesDrawn /\ StagedApart /\ OldGone /\ RowsApart
        /\ RowsHaveFiles /\ MissingWasOvertaken /\ LookedNamed
  BY DEF BlobsInv
<1>1. /\ CallsTyped' /\ blobCall'[c] = Rest
      /\ \A d \in BlobCall \ {c} : blobCall'[d] = blobCall[d]
  BY <1>0, GoesTo, RestIsRecord DEF Returns
<1>2. objects' \subseteq objects
  BY DEF Removes
<1>3. NamesDrawn'
  BY <1>0, <1>1, <1>2, RestIsRecord DEF NamesDrawn
<1>4. StagedApart'
  <2>1. objects \subseteq Names
    BY DEF BlobsInv, BlobsTypeOK
  <2>2. ASSUME NEW d \in BlobCall, blobCall'[d].op = "staged"
        PROVE  d # c /\ blobCall'[d] = blobCall[d] /\ blobCall[d].op = "staged"
    BY <1>1, <2>2, RestIsRecord
  <2>3. ASSUME NEW d \in BlobCall \ {c}, blobCall[d].op = "staged"
        PROVE  /\ blobCall[d].name \in objects' /\ blobCall[d].name # NoName
               /\ \A j \in BlobKey : blobRow[j].name # blobCall[d].name
               /\ blobCall[d].old # blobCall[d].name
               /\ \A e \in BlobCall \ {d} :
                    blobCall[e].name # blobCall[d].name /\ blobCall[e].old # blobCall[d].name
    BY <1>0, <2>1, <2>3, NamesAreNumbers DEF StagedApart, Removes, Spares
  <2> QED
    BY <1>1, <2>2, <2>3, RestIsRecord DEF StagedApart
<1>5. OldGone' /\ RowsApart' /\ LookedNamed'
  BY <1>0, <1>1, RestIsRecord DEF OldGone, RowsApart, LookedNamed
<1>6. MissingWasOvertaken'
  BY <1>0, <1>1, RestIsRecord DEF MissingWasOvertaken
<1>7. RowsHaveFiles'
  BY <1>0 DEF RowsHaveFiles, Referenced, Present, Removes, Spares
<1> QED
  BY <1>1, <1>3, <1>4, <1>5, <1>6, <1>7 DEF BlobsKept

(* Put: the usage is read and the staging file opened, then published. *)
LEMMA PutReadsUsageKeeps ==
    ASSUME BlobsInv, NEW c \in BlobCall, NEW k \in BlobKey, PutReadsUsage(c, k)
    PROVE  CallsTyped' /\ BlobsKept
<1>0. RowsTyped /\ CallsTyped /\ NamesDrawn /\ StagedApart /\ OldGone /\ RowsApart
        /\ RowsHaveFiles /\ MissingWasOvertaken /\ LookedNamed /\ objects \subseteq Names
  BY DEF BlobsInv, BlobsTypeOK
<1> DEFINE rec == [Rest EXCEPT !.op = "usage", !.key = k,
                !.allowance = AtMost(MaxObjectBytes,
                    Excess(MaxScopeBytes + blobRow[k].size, ScopeTotal))]
<1>1. rec \in BlobRecord /\ rec.op = "usage" /\ rec.name = NoName /\ rec.old = NoName
  <2>1. AtMost(MaxObjectBytes, Excess(MaxScopeBytes + blobRow[k].size, ScopeTotal)) \in Nat
    BY <1>0, RowFields, TotalIsNatural, BlobLimits DEF AtMost, Excess
  <2> QED
    BY <2>1, RestIsRecord DEF BlobRecord
<1>2. Goes(c, rec) /\ UNCHANGED <<blobRow, objects, nextName>>
  BY DEF PutReadsUsage
<1> HIDE DEF rec
<1>3. /\ CallsTyped' /\ blobCall'[c] = rec
      /\ \A d \in BlobCall \ {c} : blobCall'[d] = blobCall[d]
  BY <1>0, <1>1, <1>2, GoesTo
<1>4. NamesDrawn' /\ OldGone' /\ RowsApart' /\ LookedNamed' /\ MissingWasOvertaken'
  BY <1>0, <1>1, <1>2, <1>3 DEF NamesDrawn, OldGone, RowsApart, LookedNamed, MissingWasOvertaken
<1>5. StagedApart'
  BY <1>0, <1>1, <1>2, <1>3, NamesAreNumbers, ZenonT(40) DEF StagedApart
<1>6. RowsHaveFiles'
  BY <1>0, <1>2 DEF RowsHaveFiles, Referenced, Present
<1> QED
  BY <1>3, <1>4, <1>5, <1>6 DEF BlobsKept

LEMMA StageKeeps ==
    ASSUME BlobsInv, NEW c \in BlobCall, NEW size \in Nat, Stage(c, size)
    PROVE  CallsTyped' /\ BlobsKept
<1>0. RowsTyped /\ CallsTyped /\ NamesDrawn /\ StagedApart /\ OldGone /\ RowsApart
        /\ RowsHaveFiles /\ MissingWasOvertaken /\ LookedNamed /\ objects \subseteq Names
        /\ nextName \in Nat
  BY BlobLimits DEF BlobsInv, BlobsTypeOK
<1> DEFINE rec == [blobCall[c] EXCEPT !.op = "staged", !.name = nextName, !.size = size]
<1>1. rec \in BlobRecord /\ rec.op = "staged" /\ rec.name = nextName
        /\ rec.old = blobCall[c].old /\ nextName \in Names
  <2>1. nextName \in Names
    BY BlobLimits DEF BlobsInv, BlobsTypeOK, Stage, Names
  <2> QED
    BY <1>0, <2>1, CallFields DEF BlobRecord
<1>2. Goes(c, rec) /\ UNCHANGED blobRow /\ objects' = objects \cup {nextName}
        /\ nextName' = nextName + 1
  BY DEF Stage
<1> HIDE DEF rec
<1>3. /\ CallsTyped' /\ blobCall'[c] = rec
      /\ \A d \in BlobCall \ {c} : blobCall'[d] = blobCall[d]
  BY <1>0, <1>1, <1>2, GoesTo
<1>4. NamesDrawn'
  <2>1. \A n \in Names : n < nextName => n < nextName'
    BY <1>0, <1>2, NamesAreNumbers
  <2>2. nextName < nextName'
    BY <1>0, <1>2
  <2> QED
    BY <1>0, <1>1, <1>2, <1>3, <2>1, <2>2, RowFields, CallFields DEF NamesDrawn
<1>5. OldGone' /\ RowsApart' /\ LookedNamed' /\ MissingWasOvertaken'
  BY <1>0, <1>1, <1>2, <1>3 DEF OldGone, RowsApart, LookedNamed, MissingWasOvertaken
(* The new name is above every name that is carried. *)
<1>6. StagedApart'
  <2>1. ~ (nextName < nextName) /\ nextName # NoName
    BY <1>0, <1>1, NamesAreNumbers
  <2>2. \A k \in BlobKey : blobRow[k].name # nextName
    BY <1>0, <2>1 DEF NamesDrawn
  <2>3. \A d \in BlobCall : blobCall[d].name # nextName /\ blobCall[d].old # nextName
    BY <1>0, <2>1 DEF NamesDrawn
  <2>4. ASSUME NEW d \in BlobCall \ {c}, blobCall[d].op = "staged"
        PROVE  blobCall[d].name # rec.name /\ blobCall[d].name # rec.old
    BY <1>0, <1>1, <2>3, <2>4 DEF StagedApart
  <2> QED
    BY <1>0, <1>1, <1>2, <1>3, <2>2, <2>3, <2>4 DEF StagedApart
<1>7. RowsHaveFiles'
  BY <1>0, <1>2 DEF RowsHaveFiles, Referenced, Present
<1> QED
  BY <1>3, <1>4, <1>5, <1>6, <1>7 DEF BlobsKept

(* Put: the row changes hands in one transaction. *)
LEMMA SwapRowKeeps ==
    ASSUME BlobsInv, NEW c \in BlobCall, SwapRow(c)
    PROVE  CallsTyped' /\ RowsTyped' /\ BlobsKept /\ QuotaKept'
<1>0. RowsTyped /\ CallsTyped /\ NamesDrawn /\ StagedApart /\ OldGone /\ RowsApart
        /\ RowsHaveFiles /\ MissingWasOvertaken /\ LookedNamed /\ objects \subseteq Names
  BY DEF BlobsInv, BlobsTypeOK
<1> DEFINE k == blobCall[c].key
           row == [name |-> blobCall[c].name, size |-> blobCall[c].size]
           rec == [blobCall[c] EXCEPT !.op = "swapped", !.old = blobRow[k].name]
<1>a. blobCall[c].op = "staged" /\ k \in BlobKey /\ blobCall[c].name \in Names
        /\ blobCall[c].size \in Nat
  BY <1>0, CallFields DEF SwapRow, StagedApart
<1>1. rec \in BlobRecord /\ rec.op = "swapped" /\ rec.name = blobCall[c].name
        /\ rec.old = blobRow[k].name /\ rec.key = k
  BY <1>0, <1>a, CallFields, RowFields DEF BlobRecord
<1>2. Goes(c, rec) /\ UNCHANGED <<objects, nextName>>
        /\ blobRow' = [blobRow EXCEPT ![k] = row]
        /\ blobCall[c].size <= MaxObjectBytes
        /\ ScopeTotal + blobCall[c].size <= MaxScopeBytes + blobRow[k].size
  BY DEF SwapRow, WithinLimits
<1>b. row \in [name: Names \cup {NoName}, size: 0..MaxObjectBytes] /\ row.name = blobCall[c].name
        /\ row.size = blobCall[c].size
  BY <1>a, <1>2, BlobLimits
<1> HIDE DEF rec, row, k
<1>3. /\ CallsTyped' /\ blobCall'[c] = rec
      /\ \A d \in BlobCall \ {c} : blobCall'[d] = blobCall[d]
  BY <1>0, <1>1, <1>2, GoesTo
<1>4. /\ RowsTyped' /\ blobRow'[k] = row
      /\ \A j \in BlobKey \ {k} : blobRow'[j] = blobRow[j]
  BY <1>0, <1>a, <1>b, <1>2 DEF RowsTyped
<1>5. QuotaKept'
  <2>1. /\ ScopeTotal \in Nat /\ Cardinality(Bytes(blobRow')) \in Nat
        /\ Cardinality(Bytes(blobRow')) + blobRow[k].size = ScopeTotal + row.size
    BY <1>0, <1>a, <1>b, <1>2, TotalReplaced
  <2>2. ScopeTotal' = Cardinality(Bytes(blobRow'))
    BY DEF ScopeTotal
  <2>3. blobRow[k].size \in Nat
    BY <1>0, <1>a, RowFields
  <2> QED
    BY <1>a, <1>b, <1>2, <2>1, <2>2, <2>3, BlobLimits DEF QuotaKept
<1>c. /\ blobCall[c].name \in objects /\ blobCall[c].old # blobCall[c].name
      /\ \A j \in BlobKey : blobRow[j].name # blobCall[c].name
      /\ \A d \in BlobCall \ {c} :
           blobCall[d].name # blobCall[c].name /\ blobCall[d].old # blobCall[c].name
  BY <1>0, <1>a DEF StagedApart
<1>d. blobCall[c].name # NoName
  BY <1>a, NamesAreNumbers
<1>6. NamesDrawn'
  BY <1>0, <1>a, <1>b, <1>1, <1>2, <1>3, <1>4 DEF NamesDrawn
<1>7. RowsApart'
  BY <1>0, <1>a, <1>b, <1>4, <1>c DEF RowsApart
<1>8. LookedNamed'
  BY <1>0, <1>1, <1>3 DEF LookedNamed
<1>9. MissingWasOvertaken'
  BY <1>0, <1>a, <1>b, <1>1, <1>3, <1>4, <1>c, CallFields DEF MissingWasOvertaken
<1>10. RowsHaveFiles'
  <2>1. \A j \in BlobKey: blobRow[j].name # NoName => blobRow[j].name \in objects
    BY <1>0, HaveFilesIs
  <2>2. \A j \in BlobKey: blobRow'[j].name # NoName => blobRow'[j].name \in objects'
    BY <1>a, <1>b, <1>c, <1>2, <1>4, <2>1
  <2> QED
    BY <2>2 DEF RowsHaveFiles, Referenced, Present
<1>11. OldGone'
  <2>1. ASSUME NEW d \in BlobCall \ {c}, blobCall[d].op \in {"swapped", "deleted"},
               blobCall[d].old # NoName, NEW j \in BlobKey
        PROVE  blobRow'[j].name # blobCall[d].old
    BY <1>0, <1>b, <1>4, <1>c, <2>1 DEF OldGone
  <2>2. ASSUME rec.old # NoName, NEW j \in BlobKey
        PROVE  blobRow'[j].name # rec.old
    BY <1>0, <1>a, <1>b, <1>1, <1>4, <1>c, <2>2 DEF RowsApart
  <2> QED
    BY <1>3, <2>1, <2>2 DEF OldGone
<1>12. StagedApart'
  <2>1. ASSUME NEW d \in BlobCall, blobCall'[d].op = "staged"
        PROVE  d # c /\ blobCall'[d] = blobCall[d] /\ blobCall[d].op = "staged"
    BY <1>1, <1>3, <2>1
  <2>2. ASSUME NEW d \in BlobCall \ {c}, blobCall[d].op = "staged"
        PROVE  /\ blobCall[d].name \in objects
               /\ \A j \in BlobKey : blobRow'[j].name # blobCall[d].name
               /\ blobCall[d].old # blobCall[d].name
               /\ rec.name # blobCall[d].name /\ rec.old # blobCall[d].name
               /\ \A e \in BlobCall \ {d} :
                    blobCall[e].name # blobCall[d].name /\ blobCall[e].old # blobCall[d].name
    BY <1>0, <1>a, <1>b, <1>1, <1>4, <1>c, <2>2 DEF StagedApart
  <2> QED
    BY <1>2, <1>3, <2>1, <2>2 DEF StagedApart
<1> QED
  BY <1>3, <1>4, <1>5, <1>6, <1>7, <1>8, <1>9, <1>10, <1>11, <1>12 DEF BlobsKept

(* Get: the name is read from the row, and the file is looked for later. *)
LEMMA GetReadsRowKeeps ==
    ASSUME BlobsInv, NEW c \in BlobCall, NEW k \in BlobKey, GetReadsRow(c, k)
    PROVE  CallsTyped' /\ BlobsKept
<1>0. RowsTyped /\ CallsTyped /\ NamesDrawn /\ StagedApart /\ OldGone /\ RowsApart
        /\ RowsHaveFiles /\ MissingWasOvertaken /\ LookedNamed /\ objects \subseteq Names
  BY DEF BlobsInv, BlobsTypeOK
<1> DEFINE rec == [Rest EXCEPT !.op = "looked", !.key = k,
                     !.name = blobRow[k].name, !.size = blobRow[k].size]
<1>1. rec \in BlobRecord /\ rec.op = "looked" /\ rec.name = blobRow[k].name /\ rec.old = NoName
  BY <1>0, RowFields, RestIsRecord DEF BlobRecord
<1>2. Goes(c, rec) /\ UNCHANGED <<blobRow, objects, nextName>> /\ blobRow[k].name # NoName
  BY DEF GetReadsRow, Present
<1> HIDE DEF rec
<1>3. /\ CallsTyped' /\ blobCall'[c] = rec
      /\ \A d \in BlobCall \ {c} : blobCall'[d] = blobCall[d]
  BY <1>0, <1>1, <1>2, GoesTo
<1>4. NamesDrawn' /\ OldGone' /\ RowsApart' /\ LookedNamed' /\ MissingWasOvertaken'
  <2>1. NamesDrawn'
    BY <1>0, <1>1, <1>2, <1>3 DEF NamesDrawn
  <2>2. OldGone' /\ RowsApart'
    BY <1>0, <1>1, <1>2, <1>3 DEF OldGone, RowsApart
  <2>3. LookedNamed'
    BY <1>0, <1>1, <1>2, <1>3 DEF LookedNamed
  <2>4. MissingWasOvertaken'
    BY <1>0, <1>1, <1>2, <1>3 DEF MissingWasOvertaken
  <2> QED
    BY <2>1, <2>2, <2>3, <2>4
<1>5. StagedApart'
  <2>1. ASSUME NEW d \in BlobCall, blobCall'[d].op = "staged"
        PROVE  d # c /\ blobCall'[d] = blobCall[d] /\ blobCall[d].op = "staged"
    BY <1>1, <1>3, <2>1
  <2>2. ASSUME NEW d \in BlobCall \ {c}, blobCall[d].op = "staged"
        PROVE  /\ blobCall[d].name \in objects
               /\ \A j \in BlobKey : blobRow[j].name # blobCall[d].name
               /\ blobCall[d].old # blobCall[d].name
               /\ rec.name # blobCall[d].name /\ rec.old # blobCall[d].name
               /\ \A e \in BlobCall \ {d} :
                    blobCall[e].name # blobCall[d].name /\ blobCall[e].old # blobCall[d].name
    BY <1>0, <1>1, <2>2, NamesAreNumbers DEF StagedApart
  <2> QED
    BY <1>2, <1>3, <2>1, <2>2 DEF StagedApart
<1>6. RowsHaveFiles'
  BY <1>0, <1>2 DEF RowsHaveFiles, Referenced, Present
<1> QED
  BY <1>3, <1>4, <1>5, <1>6 DEF BlobsKept

LEMMA GetOpensKeeps ==
    ASSUME BlobsInv, NEW c \in BlobCall, GetOpens(c)
    PROVE  CallsTyped' /\ BlobsKept
<1>0. RowsTyped /\ CallsTyped /\ NamesDrawn /\ StagedApart /\ OldGone /\ RowsApart
        /\ RowsHaveFiles /\ MissingWasOvertaken /\ LookedNamed /\ objects \subseteq Names
  BY DEF BlobsInv, BlobsTypeOK
<1> DEFINE rec == [blobCall[c] EXCEPT
                     !.op = IF blobCall[c].name \in objects THEN "opened" ELSE "missing"]
<1>1. rec \in BlobRecord /\ rec.name = blobCall[c].name /\ rec.old = blobCall[c].old
        /\ rec.key = blobCall[c].key /\ rec.op \in {"opened", "missing"}
        /\ (rec.op = "missing" => blobCall[c].name \notin objects)
  BY <1>0, CallFields DEF BlobRecord
<1>2. Goes(c, rec) /\ UNCHANGED <<blobRow, objects, nextName>> /\ blobCall[c].op = "looked"
  BY DEF GetOpens
<1> HIDE DEF rec
<1>3. /\ CallsTyped' /\ blobCall'[c] = rec
      /\ \A d \in BlobCall \ {c} : blobCall'[d] = blobCall[d]
  BY <1>0, <1>1, <1>2, GoesTo
<1>4. NamesDrawn' /\ OldGone' /\ RowsApart' /\ LookedNamed'
  BY <1>0, <1>1, <1>2, <1>3 DEF NamesDrawn, OldGone, RowsApart, LookedNamed
<1>5. StagedApart'
  BY <1>0, <1>1, <1>2, <1>3 DEF StagedApart
<1>6. MissingWasOvertaken'
  <2>1. blobCall[c].key \in BlobKey /\ blobCall[c].name # NoName
    BY <1>0, <1>2, CallFields DEF LookedNamed
  <2>2. rec.op = "missing" => blobRow[rec.key].name # rec.name
    BY <1>0, <1>1, <2>1, HaveFilesIs
  <2> QED
    BY <1>0, <1>2, <1>3, <2>2 DEF MissingWasOvertaken
<1>7. RowsHaveFiles'
  BY <1>0, <1>2 DEF RowsHaveFiles, Referenced, Present
<1> QED
  BY <1>3, <1>4, <1>5, <1>6, <1>7 DEF BlobsKept

(* Delete: the row goes, its file is the call's to remove. *)
LEMMA DeleteRowKeeps ==
    ASSUME BlobsInv, NEW c \in BlobCall, NEW k \in BlobKey, DeleteRow(c, k)
    PROVE  CallsTyped' /\ RowsTyped' /\ BlobsKept /\ QuotaKept'
<1>0. RowsTyped /\ CallsTyped /\ NamesDrawn /\ StagedApart /\ OldGone /\ RowsApart
        /\ RowsHaveFiles /\ MissingWasOvertaken /\ LookedNamed /\ objects \subseteq Names
        /\ QuotaKept
  BY DEF BlobsInv, BlobsTypeOK
<1> DEFINE rec == [Rest EXCEPT !.op = "deleted", !.key = k, !.old = blobRow[k].name]
<1>1. rec \in BlobRecord /\ rec.op = "deleted" /\ rec.name = NoName /\ rec.old = blobRow[k].name
  BY <1>0, RowFields, RestIsRecord DEF BlobRecord
<1>2. Goes(c, rec) /\ UNCHANGED <<objects, nextName>> /\ blobRow[k].name # NoName
        /\ blobRow' = [blobRow EXCEPT ![k] = NoBlobRow]
  BY DEF DeleteRow, Present
<1>b. NoBlobRow \in [name: Names \cup {NoName}, size: 0..MaxObjectBytes]
        /\ NoBlobRow.name = NoName /\ NoBlobRow.size = 0
  BY BlobLimits DEF NoBlobRow
<1> HIDE DEF rec
<1>3. /\ CallsTyped' /\ blobCall'[c] = rec
      /\ \A d \in BlobCall \ {c} : blobCall'[d] = blobCall[d]
  BY <1>0, <1>1, <1>2, GoesTo
<1>4. /\ RowsTyped' /\ blobRow'[k] = NoBlobRow
      /\ \A j \in BlobKey \ {k} : blobRow'[j] = blobRow[j]
  BY <1>0, <1>b, <1>2 DEF RowsTyped
<1>5. QuotaKept'
  <2>1. /\ ScopeTotal \in Nat /\ Cardinality(Bytes(blobRow')) \in Nat
        /\ Cardinality(Bytes(blobRow')) + blobRow[k].size = ScopeTotal + NoBlobRow.size
    BY <1>0, <1>b, <1>2, TotalReplaced
  <2>2. ScopeTotal' = Cardinality(Bytes(blobRow'))
    BY DEF ScopeTotal
  <2>3. blobRow[k].size \in Nat
    BY <1>0, RowFields
  <2> QED
    BY <1>0, <1>b, <2>1, <2>2, <2>3, BlobLimits DEF QuotaKept
<1>6. NamesDrawn' /\ RowsApart' /\ LookedNamed'
  BY <1>0, <1>b, <1>1, <1>2, <1>3, <1>4 DEF NamesDrawn, RowsApart, LookedNamed
<1>7. MissingWasOvertaken'
  <2>1. ASSUME NEW d \in BlobCall, blobCall'[d].op = "missing"
        PROVE  /\ d # c /\ blobCall'[d] = blobCall[d] /\ blobCall[d].name # NoName
               /\ blobRow[blobCall[d].key].name # blobCall[d].name
    BY <1>0, <1>1, <1>3, <2>1 DEF MissingWasOvertaken, LookedNamed
  <2>2. ASSUME NEW d \in BlobCall, blobCall'[d].op = "missing"
        PROVE  blobRow'[blobCall[d].key].name # blobCall[d].name
    BY <1>0, <1>b, <1>4, <2>1, <2>2, CallFields
  <2> QED
    BY <2>1, <2>2 DEF MissingWasOvertaken
<1>8. RowsHaveFiles'
  <2>1. \A j \in BlobKey: blobRow[j].name # NoName => blobRow[j].name \in objects
    BY <1>0, HaveFilesIs
  <2>2. \A j \in BlobKey: blobRow'[j].name # NoName => blobRow'[j].name \in objects'
    BY <1>b, <1>2, <1>4, <2>1
  <2> QED
    BY <2>2 DEF RowsHaveFiles, Referenced, Present
<1>9. OldGone'
  <2>1. ASSUME NEW d \in BlobCall \ {c}, blobCall[d].op \in {"swapped", "deleted"},
               blobCall[d].old # NoName, NEW j \in BlobKey
        PROVE  blobRow'[j].name # blobCall[d].old
    BY <1>0, <1>b, <1>4, <2>1 DEF OldGone
  <2>2. ASSUME NEW j \in BlobKey
        PROVE  blobRow'[j].name # rec.old
    BY <1>0, <1>b, <1>1, <1>2, <1>4, <2>2 DEF RowsApart
  <2> QED
    BY <1>3, <2>1, <2>2 DEF OldGone
<1>10. StagedApart'
  <2>1. ASSUME NEW d \in BlobCall, blobCall'[d].op = "staged"
        PROVE  d # c /\ blobCall'[d] = blobCall[d] /\ blobCall[d].op = "staged"
    BY <1>1, <1>3, <2>1
  <2>2. ASSUME NEW d \in BlobCall \ {c}, blobCall[d].op = "staged"
        PROVE  /\ blobCall[d].name \in objects
               /\ blobCall[d].name # NoName
               /\ \A j \in BlobKey : blobRow[j].name # blobCall[d].name
               /\ blobCall[d].old # blobCall[d].name
               /\ \A e \in BlobCall \ {d} :
                    blobCall[e].name # blobCall[d].name /\ blobCall[e].old # blobCall[d].name
    BY <1>0, <2>2, NamesAreNumbers DEF StagedApart
  <2> QED
    BY <1>b, <1>1, <1>2, <1>3, <1>4, <2>1, <2>2 DEF StagedApart
<1> QED
  BY <1>3, <1>4, <1>5, <1>6, <1>7, <1>8, <1>9, <1>10 DEF BlobsKept

(* The process dies: no call is left, and Recover keeps what rows name. *)
LEMMA CrashKeeps ==
    ASSUME BlobsInv, CrashAndRecover
    PROVE  CallsTyped' /\ BlobsKept
<1>0. RowsTyped /\ NamesDrawn /\ RowsApart /\ RowsHaveFiles
  BY DEF BlobsInv
<1>1. \A c \in BlobCall : blobCall'[c] = Rest
  BY DEF CrashAndRecover
<1>2. CallsTyped'
  BY RestIsRecord DEF CrashAndRecover, CallsTyped
<1>3. objects' \subseteq objects /\ UNCHANGED <<blobRow, nextName>>
  BY DEF CrashAndRecover
<1>4. NamesDrawn'
  BY <1>0, <1>1, <1>3, RestIsRecord DEF NamesDrawn
<1>5. RowsHaveFiles'
  BY <1>0 DEF CrashAndRecover, RowsHaveFiles, Referenced, Present
<1>6. StagedApart' /\ OldGone' /\ RowsApart' /\ LookedNamed' /\ MissingWasOvertaken'
  BY <1>0, <1>1, <1>3, RestIsRecord
     DEF StagedApart, OldGone, RowsApart, LookedNamed, MissingWasOvertaken
<1> QED
  BY <1>2, <1>4, <1>5, <1>6 DEF BlobsKept

(* What every step keeps true of the calls, the rows, the files and the sum. *)
LEMMA BlobsInvStep == BlobsInv /\ [BlobsNext]_blobVars => BlobsInv'
<1> SUFFICES ASSUME BlobsInv, [BlobsNext]_blobVars PROVE BlobsInv'
  OBVIOUS
<1>0. /\ RowsTyped /\ CallsTyped /\ QuotaKept /\ StagedApart /\ OldGone
      /\ objects \subseteq Names /\ tmp \subseteq BlobCall /\ nextName \in 1..(MaxNames + 1)
      /\ blobsOn \in BOOLEAN
  BY DEF BlobsInv, BlobsTypeOK
<1> DEFINE Plain == objects' \subseteq Names /\ tmp' \subseteq BlobCall
                      /\ nextName' \in 1..(MaxNames + 1) /\ blobsOn' \in BOOLEAN
<1>r. ASSUME RowsTyped', CallsTyped', BlobsKept, QuotaKept', Plain PROVE BlobsInv'
  <2>1. blobRow' \in [BlobKey -> [name: Names \cup {NoName}, size: Nat]]
    BY <1>r, BlobLimits DEF RowsTyped
  <2>2. \A c \in BlobCall: blobCall'[c].op \in
          {"none", "usage", "staged", "swapped", "looked", "opened", "missing", "deleted"}
    BY <1>r DEF CallsTyped, BlobRecord
  <2>3. BlobsTypeOK'
    BY <1>r, <2>1, <2>2 DEF BlobsTypeOK
  <2> QED
    BY <1>r, <2>3 DEF BlobsInv, BlobsKept
<1>s. ASSUME blobRow' = blobRow PROVE RowsTyped' /\ QuotaKept'
  BY <1>0, <1>s DEF RowsTyped, QuotaKept, ScopeTotal, Bytes
<1>1. ASSUME NEW c \in BlobCall, NEW k \in BlobKey, PutReadsUsage(c, k) PROVE BlobsInv'
  <2>1. CallsTyped' /\ BlobsKept
    BY <1>1, PutReadsUsageKeeps
  <2>2. Plain /\ blobRow' = blobRow
    BY <1>0, <1>1 DEF PutReadsUsage
  <2> QED
    BY <1>r, <1>s, <2>1, <2>2
<1>2. ASSUME NEW c \in BlobCall, NEW n \in BodySize, Stage(c, n) PROVE BlobsInv'
  <2>1. CallsTyped' /\ BlobsKept
    BY <1>2, StageKeeps, BlobLimits
  <2>2. Plain /\ blobRow' = blobRow
    BY <1>0, <1>2, BlobLimits DEF Stage, Names
  <2> QED
    BY <1>r, <1>s, <2>1, <2>2
<1>3. ASSUME NEW c \in BlobCall, StageFails(c) PROVE BlobsInv'
  <2>2. \A d \in BlobCall \ {c} : blobCall[d].op = "staged" => blobCall[d].name # NoName
    BY <1>0, NamesAreNumbers DEF StagedApart
  <2>3. CallsTyped' /\ BlobsKept
    <3>1. Returns(c) /\ UNCHANGED <<blobRow, nextName>>
            /\ Removes(NoName) /\ Spares(c, NoName)
      BY <1>3, <2>2 DEF StageFails, Removes, Spares
    <3> QED
      BY <3>1, ReturnKeeps
  <2>4. Plain /\ blobRow' = blobRow
    BY <1>0, <1>3 DEF StageFails
  <2> QED
    BY <1>r, <1>s, <2>3, <2>4
<1>4. ASSUME NEW c \in BlobCall, SwapRow(c) PROVE BlobsInv'
  <2>1. CallsTyped' /\ RowsTyped' /\ BlobsKept /\ QuotaKept'
    BY <1>4, SwapRowKeeps
  <2>2. Plain
    BY <1>0, <1>4 DEF SwapRow
  <2> QED
    BY <1>r, <2>1, <2>2
<1>5. ASSUME NEW c \in BlobCall, SwapFails(c) PROVE BlobsInv'
  <2>1. /\ \A k \in BlobKey : blobRow[k].name # blobCall[c].name
        /\ \A d \in BlobCall \ {c} : blobCall[d].op = "staged" => blobCall[d].name # blobCall[c].name
    BY <1>0, <1>5 DEF SwapFails, StagedApart
  <2>2. CallsTyped' /\ BlobsKept
    <3>1. Returns(c) /\ UNCHANGED <<blobRow, nextName>>
            /\ Removes(blobCall[c].name) /\ Spares(c, blobCall[c].name)
      BY <1>5, <2>1 DEF SwapFails, Removes, Spares
    <3> QED
      BY <3>1, ReturnKeeps
  <2>3. Plain /\ blobRow' = blobRow
    BY <1>0, <1>5 DEF SwapFails
  <2> QED
    BY <1>r, <1>s, <2>2, <2>3
<1>6. ASSUME NEW c \in BlobCall, RemoveOld(c) PROVE BlobsInv'
  <2>1. \A k \in BlobKey : blobRow[k].name # NoName => blobRow[k].name # blobCall[c].old
    BY <1>0, <1>6 DEF RemoveOld, OldGone
  <2>2. \A d \in BlobCall \ {c} : blobCall[d].op = "staged" => blobCall[d].name # blobCall[c].old
    BY <1>0 DEF StagedApart
  <2>3. CallsTyped' /\ BlobsKept
    <3>1. Returns(c) /\ UNCHANGED <<blobRow, nextName>>
            /\ Removes(blobCall[c].old) /\ Spares(c, blobCall[c].old)
      BY <1>6, <2>1, <2>2 DEF RemoveOld, Unlinked, Removes, Spares
    <3> QED
      BY <3>1, ReturnKeeps
  <2>4. Plain /\ blobRow' = blobRow
    BY <1>0, <1>6 DEF RemoveOld
  <2> QED
    BY <1>r, <1>s, <2>3, <2>4
<1>7. ASSUME NEW c \in BlobCall, NEW k \in BlobKey, GetReadsRow(c, k) PROVE BlobsInv'
  <2>1. CallsTyped' /\ BlobsKept
    BY <1>7, GetReadsRowKeeps
  <2>2. Plain /\ blobRow' = blobRow
    BY <1>0, <1>7 DEF GetReadsRow
  <2> QED
    BY <1>r, <1>s, <2>1, <2>2
<1>8. ASSUME NEW c \in BlobCall, GetOpens(c) PROVE BlobsInv'
  <2>1. CallsTyped' /\ BlobsKept
    BY <1>8, GetOpensKeeps
  <2>2. Plain /\ blobRow' = blobRow
    BY <1>0, <1>8 DEF GetOpens
  <2> QED
    BY <1>r, <1>s, <2>1, <2>2
<1>9. ASSUME NEW c \in BlobCall, GetReturns(c) PROVE BlobsInv'
  <2>1. \A d \in BlobCall \ {c} : blobCall[d].op = "staged" => blobCall[d].name # NoName
    BY <1>0, NamesAreNumbers DEF StagedApart
  <2>2. CallsTyped' /\ BlobsKept
    <3>1. Returns(c) /\ UNCHANGED <<blobRow, nextName>>
            /\ Removes(NoName) /\ Spares(c, NoName)
      BY <1>9, <2>1 DEF GetReturns, Removes, Spares
    <3> QED
      BY <3>1, ReturnKeeps
  <2>3. Plain /\ blobRow' = blobRow
    BY <1>0, <1>9 DEF GetReturns
  <2> QED
    BY <1>r, <1>s, <2>2, <2>3
<1>10. ASSUME NEW c \in BlobCall, NEW k \in BlobKey, DeleteRow(c, k) PROVE BlobsInv'
  <2>1. CallsTyped' /\ RowsTyped' /\ BlobsKept /\ QuotaKept'
    BY <1>10, DeleteRowKeeps
  <2>2. Plain
    BY <1>0, <1>10 DEF DeleteRow
  <2> QED
    BY <1>r, <2>1, <2>2
<1>11. CASE SwitchBlobs
  BY <1>11 DEF SwitchBlobs, BlobsInv, BlobsTypeOK, RowsTyped, CallsTyped, NamesDrawn, StagedApart,
     OldGone, RowsApart, LookedNamed, RowsHaveFiles, MissingWasOvertaken, QuotaKept, ScopeTotal,
     Bytes, Referenced, Present
<1>12. CASE CrashAndRecover
  <2>1. CallsTyped' /\ BlobsKept
    BY <1>12, CrashKeeps
  <2>2. Plain /\ blobRow' = blobRow
    BY <1>0, <1>12 DEF CrashAndRecover
  <2> QED
    BY <1>r, <1>s, <2>1, <2>2
<1>13. CASE UNCHANGED blobVars
  BY <1>13 DEF blobVars, BlobsInv, BlobsTypeOK, RowsTyped, CallsTyped, NamesDrawn, StagedApart,
     OldGone, RowsApart, LookedNamed, RowsHaveFiles, MissingWasOvertaken, QuotaKept, ScopeTotal,
     Bytes, Referenced, Present
<1> QED
  BY <1>1, <1>2, <1>3, <1>4, <1>5, <1>6, <1>7, <1>8, <1>9, <1>10, <1>11, <1>12, <1>13
     DEF BlobsNext

LEMMA BlobsInvInit == BlobsInit => BlobsInv
<1> SUFFICES ASSUME BlobsInit PROVE BlobsInv
  OBVIOUS
<1>1. \A c \in BlobCall : blobCall[c] = Rest
  BY DEF BlobsInit
<1>2. \A k \in BlobKey : blobRow[k].name = NoName /\ blobRow[k].size = 0
  BY DEF BlobsInit, NoBlobRow
<1>3. RowsTyped /\ CallsTyped /\ BlobsTypeOK
  BY <1>1, RestIsRecord, BlobLimits
     DEF BlobsInit, NoBlobRow, RowsTyped, CallsTyped, BlobsTypeOK, BlobRecord
<1>4. QuotaKept
  <2>1. Bytes(blobRow) = {}
    BY <1>2 DEF Bytes
  <2>2. ScopeTotal = 0
    BY <2>1, FS_EmptySet DEF ScopeTotal
  <2> QED
    BY <2>2, BlobLimits DEF QuotaKept
<1>5. NamesDrawn /\ StagedApart /\ OldGone /\ RowsApart /\ LookedNamed /\ MissingWasOvertaken
  BY <1>1, <1>2, RestIsRecord
     DEF BlobsInit, NamesDrawn, StagedApart, OldGone, RowsApart, LookedNamed, MissingWasOvertaken
<1>6. RowsHaveFiles
  BY <1>2 DEF RowsHaveFiles, Referenced, Present
<1> QED
  BY <1>3, <1>4, <1>5, <1>6 DEF BlobsInv

(* Through overlapping calls and crashes at any point a row never names a    *)
(* file that is gone, the scope stays within its quota although each put     *)
(* staged against an allowance of its own, and a get that finds no file was  *)
(* overtaken (blobs.go Put, Get, Delete, Recover).                           *)
THEOREM BlobsStaySafe == BlobsSpec => []BlobsSafe
<1>1. BlobsInit => BlobsInv
  BY BlobsInvInit
<1>2. BlobsInv /\ [BlobsNext]_blobVars => BlobsInv'
  BY BlobsInvStep
<1>3. BlobsInv => BlobsSafe
  BY DEF BlobsInv, BlobsSafe
<1> QED
  BY <1>1, <1>2, <1>3, PTL DEF BlobsSpec
=============================================================================
