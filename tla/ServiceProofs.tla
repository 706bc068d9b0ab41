---------------------------- MODULE ServiceProofs ----------------------------
(* Theorems about the services beside the queue: stored credentials, the     *)
(* plugin host's lifecycle, the configuration of ai, live delivery, what a   *)
(* page may reach, the sessions of the harness and the hits of a search, for *)
(* every number of callers, administrators, plugins, connections and urls.   *)
EXTENDS Credentials, PluginHost, AIRoutes, Push, BrowserPage, Harness, Search, FiniteSetTheorems,
        SequenceTheorems, WellFoundedInduction, TLAPS

-----------------------------------------------------------------------------
(* Credentials. *)

Carrying(c) == callers[c].pc \in {"request", "save", "refused"}

CallRecord ==
    [pc: {"idle", "wait", "request", "save", "refused"}, row: CredRow \cup {NoRow},
     token: 0..MaxGrant]

CredTyped ==
    /\ CredTypeOK
    /\ callers \in [TokenCaller -> CallRecord]
    /\ \A c \in TokenCaller: Carrying(c) => callers[c].row \in CredRow
    /\ exchanges \in [Flow -> Nat]
    /\ minted \in 0..MaxGrant /\ newest \in 0..MaxGrant /\ reborn \in BOOLEAN

(* Whoever talks to the provider holds the lock of the id. *)
LockHeld == \A c \in TokenCaller: Carrying(c) => refreshMu = c

(* Refresh tokens are the provider's: none is known before it was minted. *)
TokensMinted ==
    /\ liveTokens \subseteq 1..minted
    /\ Exists("oauth") => creds["oauth"].refresh <= minted
    /\ \A c \in TokenCaller: callers[c].token <= minted
    /\ \A c \in TokenCaller: Carrying(c) => callers[c].row.refresh <= minted

(* A token that was refused is dead, and stays so. *)
RefusedIsDead ==
    \A c \in TokenCaller: callers[c].pc = "refused" => callers[c].row.refresh \notin liveTokens

(* The row a refresh has read is an older version of the row there is, or    *)
(* the same one.                                                             *)
ReadBefore ==
    reborn = FALSE /\ Exists("oauth") =>
        \A c \in TokenCaller: Carrying(c) =>
            /\ callers[c].row.version <= creds["oauth"].version
            /\ callers[c].row.version = creds["oauth"].version =>
                 /\ callers[c].row.grant = creds["oauth"].grant
                 /\ callers[c].row.refresh = creds["oauth"].refresh

NewestKept ==
    reborn = FALSE /\ Exists("oauth") =>
        /\ creds["oauth"].grant = newest
        /\ creds["oauth"].status = "needs_reauth" => creds["oauth"].refresh \notin liveTokens

RefreshInv == LockHeld /\ TokensMinted /\ RefusedIsDead /\ ReadBefore /\ NewestKept

(* What is referred to exists, and the audit log ends with its version. *)
RefsExist == \A o \in CredOwner, id \in CredId: <<o, id>> \in credRefs => Exists(id)
CredAudited == \A id \in CredId: credAudit[id] = creds[id].version

(* An authorisation's state reaches the provider once it is burnt, once. *)
SentOnce ==
    \A f \in Flow: exchanges[f] <= 1 /\
        (flows[f].status \in {"none", "pending", "expired"} => exchanges[f] = 0)

(* A process that is up holds the key of every envelope it may open. *)
KeysHeld == Up => activeKey \in keyring /\ Sealed \subseteq keyring

CredInv == CredTyped /\ RefreshInv /\ RefsExist /\ CredAudited /\ SentOnce /\ KeysHeld

LEMMA RowThere ==
    ASSUME CredTyped, NEW id \in CredId
    PROVE  /\ creds[id] \in CredRow \cup {NoRow}
           /\ creds[id].version \in Nat
           /\ Exists(id) => creds[id] \in CredRow
           /\ ~ Exists(id) => creds[id].version = 0
<1>1. creds[id] \in CredRow \cup {NoRow}
  BY DEF CredTyped, CredTypeOK
<1>2. CASE creds[id] \in CredRow
  BY <1>2, CredentialConstants DEF CredRow, Exists
<1>3. CASE creds[id] = NoRow
  BY <1>3 DEF NoRow, Exists
<1> QED
  BY <1>1, <1>2, <1>3

LEMMA CallThere ==
    ASSUME CredTyped, NEW c \in TokenCaller
    PROVE  /\ callers[c] \in CallRecord /\ callers[c].token \in Nat
           /\ callers[c].pc \in {"idle", "wait", "request", "save", "refused"}
           /\ Carrying(c) => callers[c].row \in CredRow
BY CredentialConstants DEF CredTyped, CallRecord

LEMMA RowFieldsOf ==
    ASSUME NEW row \in CredRow
    PROVE  /\ row.version \in Nat /\ row.version > 0 /\ row.version <= MaxVersion
           /\ row.key \in MasterKey /\ row.grant \in 0..MaxGrant /\ row.refresh \in 0..MaxGrant
           /\ row.refresh \in Nat /\ row.grant \in Nat
           /\ row.fresh \in BOOLEAN /\ row.status \in {"ok", "needs_reauth"}
BY CredentialConstants DEF CredRow

LEMMA NoCallFields ==
    NoCall \in CallRecord /\ NoCall.pc = "idle" /\ NoCall.token = 0
BY CredentialConstants DEF NoCall, CallRecord

(* A refresh that has read its row, and its call changed to call. *)
LEMMA CallerChanges ==
    ASSUME CredTyped, NEW c \in TokenCaller, NEW call \in CallRecord,
           callers' = [callers EXCEPT ![c] = call]
    PROVE  /\ callers' \in [TokenCaller -> CallRecord]
           /\ callers'[c] = call
           /\ \A d \in TokenCaller \ {c} : callers'[d] = callers[d]
BY DEF CredTyped


(* Type correctness, in three parts: the rows, the flows, the calls. *)
RowsOk ==
    /\ creds \in [CredId -> CredRow \cup {NoRow}]
    /\ credRefs \subseteq CredOwner \X CredId
    /\ credAudit \in [CredId -> 0..MaxVersion]
    /\ newest \in 0..MaxGrant /\ reborn \in BOOLEAN

FlowsOk ==
    /\ flows \in [Flow -> [status: {"none", "pending", "expired", "exchange", "done"},
                           session: Session \cup {NoSession}, key: MasterKey]]
    /\ exchanges \in [Flow -> Nat]
    /\ keyring \subseteq MasterKey /\ activeKey \in MasterKey

CallsOk ==
    /\ callers \in [TokenCaller -> CallRecord]
    /\ \A c \in TokenCaller: Carrying(c) => callers[c].row \in CredRow
    /\ refreshMu \in TokenCaller \cup {NoSession}
    /\ liveTokens \subseteq 1..MaxGrant /\ minted \in 0..MaxGrant

LEMMA TypedParts == CredTyped <=> RowsOk /\ FlowsOk /\ CallsOk
<1>1. (\A c \in TokenCaller : callers[c] \in CallRecord) =>
         \A c \in TokenCaller : callers[c].pc \in {"idle", "wait", "request", "save", "refused"}
  BY DEF CallRecord
<1>2. callers \in [TokenCaller -> CallRecord] => \A c \in TokenCaller : callers[c] \in CallRecord
  OBVIOUS
<1> HIDE DEF CallRecord
<1> QED
  BY <1>1, <1>2 DEF CredTyped, CredTypeOK, RowsOk, FlowsOk, CallsOk

(* The stored row after persistOAuth is a row, one version on. *)
LEMMA PersistRow ==
    ASSUME CredTyped, NEW grant \in 0..MaxGrant, NEW refresh \in 0..MaxGrant, NEW fresh \in BOOLEAN,
           PersistOAuth(grant, refresh, fresh)
    PROVE  /\ creds'["oauth"] \in CredRow
           /\ creds'["oauth"].version = creds["oauth"].version + 1
           /\ creds'["oauth"].grant = grant /\ creds'["oauth"].refresh = refresh
           /\ creds'["oauth"].status = "ok" /\ creds'["oauth"].key = activeKey
           /\ creds'["apikey"] = creds["apikey"]
           /\ creds' \in [CredId -> CredRow \cup {NoRow}]
           /\ credAudit'["oauth"] = creds'["oauth"].version
           /\ credAudit'["apikey"] = credAudit["apikey"]
           /\ credAudit' \in [CredId -> 0..MaxVersion]
<1> DEFINE row == [version |-> creds["oauth"].version + 1, key |-> activeKey, grant |-> grant,
                   refresh |-> refresh, fresh |-> fresh, status |-> "ok"]
<1>0. "oauth" \in CredId /\ "apikey" \in CredId /\ "oauth" # "apikey"
  BY DEF CredId
<1>1. creds["oauth"].version \in Nat /\ creds["oauth"].version + 1 <= MaxVersion
        /\ creds' = [creds EXCEPT !["oauth"] = row]
        /\ credAudit' = [credAudit EXCEPT !["oauth"] = creds["oauth"].version + 1]
  BY <1>0, RowThere DEF PersistOAuth
<1>2. row \in CredRow
  BY <1>1, CredentialConstants DEF CredRow, CredTyped, CredTypeOK
<1>3. row.version = creds["oauth"].version + 1 /\ row.grant = grant /\ row.refresh = refresh
        /\ row.status = "ok" /\ row.key = activeKey
  OBVIOUS
<1>4. creds \in [CredId -> CredRow \cup {NoRow}] /\ credAudit \in [CredId -> 0..MaxVersion]
  BY DEF CredTyped, CredTypeOK
<1> HIDE DEF row
<1>5. creds["oauth"].version + 1 \in 0..MaxVersion
  BY <1>1, CredentialConstants
<1> QED
  BY <1>0, <1>1, <1>2, <1>3, <1>4, <1>5

(* The row that saveOAuth writes. *)
LEMMA SavedRow ==
    ASSUME CredTyped, NEW c \in TokenCaller, callers[c].pc = "save", CasHolds(c),
           NEW next,
           next = [callers[c].row EXCEPT !.version = @ + 1, !.key = activeKey,
                      !.refresh = callers[c].token, !.fresh = TRUE, !.status = "ok"],
           next.version <= MaxVersion
    PROVE  /\ next \in CredRow
           /\ next.version = creds["oauth"].version + 1
           /\ next.grant = callers[c].row.grant /\ next.refresh = callers[c].token
           /\ next.status = "ok" /\ next.key = activeKey
<1>1. callers[c].row \in CredRow /\ callers[c].token \in 0..MaxGrant
  BY CallThere DEF Carrying, CallRecord
<1>2. callers[c].row.version = creds["oauth"].version
  BY DEF CasHolds
<1>3. activeKey \in MasterKey
  BY DEF CredTyped, CredTypeOK
<1>4. callers[c].row.version \in Nat /\ next.version = callers[c].row.version + 1
  BY <1>1, RowFieldsOf DEF CredRow
<1>5. callers[c].row.version + 1 \in 1..MaxVersion
  BY <1>4, CredentialConstants
<1> QED
  BY <1>1, <1>2, <1>3, <1>4, <1>5 DEF CredRow

LEMMA RowsStep == CredTyped /\ [CredNext]_credVars => RowsOk'
<1> SUFFICES ASSUME CredTyped, [CredNext]_credVars PROVE RowsOk'
  OBVIOUS
<1>0. RowsOk /\ "oauth" \in CredId /\ "apikey" \in CredId
  BY TypedParts DEF CredId
<1>s. ASSUME UNCHANGED <<creds, credRefs, credAudit, newest, reborn>> PROVE RowsOk'
  BY <1>0, <1>s DEF RowsOk
<1>a. activeKey \in MasterKey
  BY DEF CredTyped, CredTypeOK
<1>b. creds["oauth"].version \in Nat /\ creds["apikey"].version \in Nat
  BY <1>0, RowThere
<1>1. ASSUME NEW keys, NEW active, StartCredentials(keys, active) PROVE RowsOk'
  BY <1>s, <1>1 DEF StartCredentials, TokensStay
<1>2. CASE CrashCredentials
  BY <1>s, <1>2 DEF CrashCredentials, TokensStay
<1>3. ASSUME NEW f \in Flow, NEW s \in Session, BeginOAuth(f, s) \/ ConsumeState(f, s) PROVE RowsOk'
  BY <1>s, <1>3 DEF BeginOAuth, ConsumeState, TokensStay
<1>4. ASSUME NEW f \in Flow, FlowExpires(f) \/ ExchangeFails(f) PROVE RowsOk'
  BY <1>s, <1>4 DEF FlowExpires, ExchangeFails, TokensStay
<1>p. ASSUME NEW grant \in 0..MaxGrant, NEW refresh \in 0..MaxGrant, NEW fresh \in BOOLEAN,
             PersistOAuth(grant, refresh, fresh)
      PROVE  RowsOk'
  <2>1. creds' \in [CredId -> CredRow \cup {NoRow}] /\ credAudit' \in [CredId -> 0..MaxVersion]
    BY <1>p, PersistRow
  <2>2. newest' = grant /\ credRefs' = credRefs /\ reborn' \in BOOLEAN
    BY <1>0, <1>p DEF PersistOAuth, RowsOk
  <2> QED
    BY <1>0, <2>1, <2>2 DEF RowsOk
<1>m. minted < MaxGrant => minted + 1 \in 0..MaxGrant
  BY CredentialConstants DEF CredTyped
<1>5. ASSUME NEW f \in Flow, ExchangeCode(f) PROVE RowsOk'
  <2>1. PICK refresh \in {0, minted'} : PersistOAuth(minted', refresh, TRUE)
    BY <1>5 DEF ExchangeCode
  <2>2. minted' \in 0..MaxGrant /\ 0 \in 0..MaxGrant
    BY <1>5, <1>m, CredentialConstants DEF ExchangeCode
  <2>3. refresh \in 0..MaxGrant
    BY <2>1, <2>2
  <2> QED
    BY <1>p, <2>1, <2>2, <2>3
<1>6. ASSUME NEW fresh \in BOOLEAN, ImportOAuth(fresh) PROVE RowsOk'
  BY <1>p, <1>m, <1>6 DEF ImportOAuth
<1>7. CASE AccessExpires
  <2>1. creds["oauth"] \in CredRow
    BY <1>0, <1>7, RowThere DEF AccessExpires
  <2>2. [creds["oauth"] EXCEPT !.fresh = FALSE] \in CredRow
    BY <2>1 DEF CredRow
  <2>3. creds' = [creds EXCEPT !["oauth"] = [creds["oauth"] EXCEPT !.fresh = FALSE]]
    BY <1>7 DEF AccessExpires
  <2> QED
    BY <1>0, <1>7, <2>2, <2>3 DEF AccessExpires, TokensStay, RowsOk
<1>8. ASSUME NEW c \in TokenCaller, Token(c) \/ RefreshOAuth(c) PROVE RowsOk'
  BY <1>s, <1>8 DEF Token, RefreshOAuth, TokensStay
<1>9. ASSUME NEW c \in TokenCaller, TokenGranted(c) \/ TokenRefused(c) \/ TokenUnreachable(c) PROVE RowsOk'
  BY <1>s, <1>9 DEF TokenGranted, TokenRefused, TokenUnreachable, TokensStay
<1>10. ASSUME NEW c \in TokenCaller, SaveOAuth(c) PROVE RowsOk'
  <2> DEFINE next == [callers[c].row EXCEPT !.version = @ + 1, !.key = activeKey,
                        !.refresh = callers[c].token, !.fresh = TRUE, !.status = "ok"]
  <2>1. CASE CasHolds(c)
    <3>1. callers[c].pc = "save" /\ next.version <= MaxVersion
            /\ creds' = [creds EXCEPT !["oauth"] = next]
            /\ credAudit' = [credAudit EXCEPT !["oauth"] = next.version]
      BY <1>10, <2>1 DEF SaveOAuth
    <3>2. next \in CredRow
      BY <2>1, <3>1, SavedRow
    <3> HIDE DEF next
    <3>3. next.version \in 0..MaxVersion
      BY <3>2, RowFieldsOf, CredentialConstants
    <3> QED
      BY <1>0, <1>10, <3>1, <3>2, <3>3 DEF SaveOAuth, TokensStay, RowsOk
  <2>2. CASE ~ CasHolds(c)
    BY <1>s, <1>10, <2>2 DEF SaveOAuth, TokensStay
  <2> QED
    BY <2>1, <2>2
<1>11. ASSUME NEW c \in TokenCaller, MarkNeedsReauth(c) PROVE RowsOk'
  <2>1. CASE CasHolds(c) /\ creds' = [creds EXCEPT !["oauth"].status = "needs_reauth"]
               /\ credAudit' = [credAudit EXCEPT !["oauth"] = callers[c].row.version]
    <3>1. creds["oauth"] \in CredRow
      BY <1>0, <2>1, RowThere DEF CasHolds
    <3>2. [creds["oauth"] EXCEPT !.status = "needs_reauth"] \in CredRow
      BY <3>1 DEF CredRow
    <3>3. callers[c].row.version \in 0..MaxVersion
      BY <3>1, <2>1, RowFieldsOf, CredentialConstants DEF CasHolds
    <3>4. creds' = [creds EXCEPT !["oauth"] = [creds["oauth"] EXCEPT !.status = "needs_reauth"]]
      BY <2>1
    <3> QED
      BY <1>0, <1>11, <2>1, <3>2, <3>3, <3>4 DEF MarkNeedsReauth, TokensStay, RowsOk
  <2>2. CASE UNCHANGED <<creds, credAudit>>
    BY <1>s, <1>11, <2>2 DEF MarkNeedsReauth, TokensStay
  <2> QED
    BY <1>11, <2>1, <2>2 DEF MarkNeedsReauth
<1>12. CASE CreateAPIKey
  <2> DEFINE row == [version |-> 1, key |-> activeKey, grant |-> 0, refresh |-> 0,
                    fresh |-> TRUE, status |-> "ok"]
  <2>1. row \in CredRow
    BY <1>a, CredentialConstants DEF CredRow
  <2>2. creds' = [creds EXCEPT !["apikey"] = row] /\ credAudit' = [credAudit EXCEPT !["apikey"] = 1]
    BY <1>12 DEF CreateAPIKey
  <2> HIDE DEF row
  <2>3. 1 \in 0..MaxVersion
    BY CredentialConstants
  <2> QED
    BY <1>0, <1>12, <2>1, <2>2, <2>3 DEF CreateAPIKey, TokensStay, RowsOk
<1>13. CASE ReplaceAPIKey
  <2> DEFINE row == [creds["apikey"] EXCEPT !.version = @ + 1, !.key = activeKey]
  <2>1. creds["apikey"] \in CredRow /\ creds["apikey"].version < MaxVersion
    BY <1>0, <1>13, RowThere DEF ReplaceAPIKey
  <2>a. creds["apikey"].version + 1 \in 1..MaxVersion /\ creds["apikey"].version + 1 \in 0..MaxVersion
    BY <1>b, <2>1, CredentialConstants
  <2>2. row \in CredRow
    BY <1>a, <2>1, <2>a DEF CredRow
  <2>3. creds' = [creds EXCEPT !["apikey"] = row]
          /\ credAudit' = [credAudit EXCEPT !["apikey"] = creds["apikey"].version + 1]
    BY <1>13, <1>0 DEF ReplaceAPIKey, RowsOk
  <2> HIDE DEF row
  <2> QED
    BY <1>0, <1>13, <2>a, <2>2, <2>3, ZenonT(40) DEF ReplaceAPIKey, TokensStay, RowsOk
<1>14. ASSUME NEW id \in CredId, DeleteCredential(id) PROVE RowsOk'
  <2>1. 0 \in 0..MaxVersion
    BY CredentialConstants
  <2> QED
    BY <1>0, <1>14, <2>1 DEF DeleteCredential, TokensStay, RowsOk
<1>15. ASSUME NEW o \in CredOwner, NEW ids \in SUBSET CredId, ReplaceReferences(o, ids) PROVE RowsOk'
  BY <1>0, <1>15 DEF ReplaceReferences, TokensStay, RowsOk
<1>16. CASE UNCHANGED credVars
  BY <1>s, <1>16 DEF credVars
<1> HIDE DEF RowsOk
<1> QED
  BY <1>1, <1>2, <1>3, <1>4, <1>5, <1>6, <1>7, <1>8, <1>9, <1>10, <1>11, <1>12, <1>13, <1>14,
     <1>15, <1>16 DEF CredNext

LEMMA FlowsStep == CredTyped /\ SentOnce /\ [CredNext]_credVars => FlowsOk' /\ SentOnce'
<1> SUFFICES ASSUME CredTyped, SentOnce, [CredNext]_credVars PROVE FlowsOk' /\ SentOnce'
  OBVIOUS
<1>0. FlowsOk
  BY TypedParts
<1> USE DEF FlowsOk, SentOnce
<1>s. ASSUME UNCHANGED <<flows, exchanges, keyring, activeKey>> PROVE FlowsOk' /\ SentOnce'
  BY <1>0, <1>s
<1>1. ASSUME NEW keys \in SUBSET MasterKey, NEW active \in MasterKey, StartCredentials(keys, active)
      PROVE  FlowsOk' /\ SentOnce'
  BY <1>0, <1>1 DEF StartCredentials, FlowsStay
<1>2. CASE CrashCredentials
  <2>1. \A f \in Flow : flows'[f] = IF flows[f].status = "exchange"
                                    THEN [flows[f] EXCEPT !.status = "done"] ELSE flows[f]
    BY <1>2 DEF CrashCredentials
  <2>2. FlowsOk'
    BY <1>0, <1>2 DEF CrashCredentials
  <2>3. SentOnce'
    BY <1>0, <1>2, <2>1 DEF CrashCredentials
  <2> QED
    BY <2>2, <2>3
<1>3. ASSUME NEW f \in Flow, NEW s \in Session, BeginOAuth(f, s) PROVE FlowsOk' /\ SentOnce'
  BY <1>0, <1>3 DEF BeginOAuth, ProcessStays
<1>4. ASSUME NEW f \in Flow, NEW s \in Session, ConsumeState(f, s) PROVE FlowsOk' /\ SentOnce'
  BY <1>0, <1>4 DEF ConsumeState, MayConsume, ProcessStays
<1>5. ASSUME NEW f \in Flow, FlowExpires(f) PROVE FlowsOk' /\ SentOnce'
  BY <1>0, <1>5 DEF FlowExpires, ProcessStays
<1>6. ASSUME NEW f \in Flow, ExchangeFails(f) PROVE FlowsOk' /\ SentOnce'
  BY <1>0, <1>6 DEF ExchangeFails, ProcessStays
<1>7. ASSUME NEW f \in Flow, ExchangeCode(f) PROVE FlowsOk' /\ SentOnce'
  BY <1>0, <1>7 DEF ExchangeCode, ProcessStays
<1>8. ASSUME NEW fresh \in BOOLEAN, ImportOAuth(fresh) PROVE FlowsOk' /\ SentOnce'
  BY <1>s, <1>8 DEF ImportOAuth, ProcessStays, FlowsStay
<1>9. CASE AccessExpires
  BY <1>s, <1>9 DEF AccessExpires, ProcessStays, FlowsStay
<1>10. ASSUME NEW c \in TokenCaller,
              Token(c) \/ RefreshOAuth(c) \/ TokenGranted(c) \/ TokenRefused(c)
                \/ TokenUnreachable(c) \/ SaveOAuth(c) \/ MarkNeedsReauth(c)
       PROVE  FlowsOk' /\ SentOnce'
  <2>1. UNCHANGED <<flows, exchanges, keyring, activeKey>>
    BY <1>10 DEF Token, RefreshOAuth, TokenGranted, TokenRefused, TokenUnreachable, SaveOAuth,
                 MarkNeedsReauth, ProcessStays, FlowsStay
  <2> QED
    BY <1>s, <2>1
<1>11. CASE CreateAPIKey \/ ReplaceAPIKey
  BY <1>s, <1>11 DEF CreateAPIKey, ReplaceAPIKey, ProcessStays, FlowsStay
<1>12. ASSUME NEW id \in CredId, DeleteCredential(id) PROVE FlowsOk' /\ SentOnce'
  BY <1>s, <1>12 DEF DeleteCredential, ProcessStays, FlowsStay
<1>13. ASSUME NEW o \in CredOwner, NEW ids \in SUBSET CredId, ReplaceReferences(o, ids)
       PROVE  FlowsOk' /\ SentOnce'
  BY <1>s, <1>13 DEF ReplaceReferences, ProcessStays, FlowsStay
<1>14. CASE UNCHANGED credVars
  BY <1>s, <1>14 DEF credVars
<1> HIDE DEF FlowsOk, SentOnce
<1> QED
  BY <1>1, <1>2, <1>3, <1>4, <1>5, <1>6, <1>7, <1>8, <1>9, <1>10, <1>11, <1>12, <1>13, <1>14
     DEF CredNext

(* The keys of rows and of flows that a start would have to open. *)
LEMMA SealedIs ==
    ASSUME NEW K
    PROVE  Sealed \subseteq K <=>
             /\ \A id \in CredId: Exists(id) => creds[id].key \in K
             /\ \A f \in Flow: flows[f].status \in {"pending", "expired"} => flows[f].key \in K
BY DEF Sealed

RowsHold == RefsExist' /\ CredAudited' /\ KeysHeld'

(* One row is written, with its audit entry, under the active key or the key *)
(* it had.                                                                   *)
LEMMA RowWritten ==
    ASSUME CredInv, NEW id \in CredId, NEW row \in CredRow,
           creds'[id] = row, \A j \in CredId \ {id} : creds'[j] = creds[j],
           credAudit'[id] = row.version, \A j \in CredId \ {id} : credAudit'[j] = credAudit[j],
           credRefs' = credRefs, ProcessStays,
           row.key = activeKey \/ (Exists(id) /\ row.key = creds[id].key),
           \A f \in Flow : flows'[f].status \in {"pending", "expired"} =>
               flows[f].status \in {"pending", "expired"} /\ flows'[f].key = flows[f].key
    PROVE  RowsHold
<1>0. RefsExist /\ CredAudited /\ KeysHeld
  BY DEF CredInv
<1>1. row.version > 0
  BY RowFieldsOf
<1>2. \A j \in CredId : Exists(j) => Exists(j)'
  BY <1>1 DEF Exists
<1>3. RefsExist'
  BY <1>0, <1>2 DEF RefsExist
<1>4. CredAudited'
  BY <1>0 DEF CredAudited
<1>5. KeysHeld'
  <2> SUFFICES ASSUME Up PROVE activeKey' \in keyring' /\ (Sealed \subseteq keyring)'
    BY DEF KeysHeld, ProcessStays, Up
  <2>1. activeKey \in keyring /\ Sealed \subseteq keyring
    BY <1>0 DEF KeysHeld
  <2>2. /\ \A j \in CredId: Exists(j) => creds[j].key \in keyring
        /\ \A f \in Flow: flows[f].status \in {"pending", "expired"} => flows[f].key \in keyring
    BY <2>1, SealedIs
  <2>3. \A j \in CredId: Exists(j)' => creds'[j].key \in keyring
    <3>1. ASSUME NEW j \in CredId \ {id}, Exists(j)' PROVE creds'[j].key \in keyring
      BY <2>2, <3>1 DEF Exists
    <3>2. creds'[id].key \in keyring
      BY <2>1, <2>2
    <3> QED
      BY <3>1, <3>2
  <2>4. \A f \in Flow: flows'[f].status \in {"pending", "expired"} => flows'[f].key \in keyring
    BY <2>2
  <2> QED
    BY <2>1, <2>3, <2>4 DEF Sealed, ProcessStays
<1> QED
  BY <1>3, <1>4, <1>5 DEF RowsHold

(* No row is written, and a flow is at most sealed with the active key. *)
LEMMA RowsUnwritten ==
    ASSUME CredInv, UNCHANGED <<creds, credAudit, credRefs>>, ProcessStays,
           \A f \in Flow : flows'[f].status \in {"pending", "expired"} =>
               \/ flows'[f].key = activeKey
               \/ flows[f].status \in {"pending", "expired"} /\ flows'[f].key = flows[f].key
    PROVE  RowsHold
<1>0. RefsExist /\ CredAudited /\ KeysHeld
  BY DEF CredInv
<1>1. RefsExist' /\ CredAudited'
  BY <1>0 DEF RefsExist, CredAudited, Exists
<1>2. KeysHeld'
  <2> SUFFICES ASSUME Up PROVE activeKey' \in keyring' /\ (Sealed \subseteq keyring)'
    BY DEF KeysHeld, ProcessStays, Up
  <2>1. activeKey \in keyring /\ Sealed \subseteq keyring
    BY <1>0 DEF KeysHeld
  <2>2. /\ \A j \in CredId: Exists(j) => creds[j].key \in keyring
        /\ \A f \in Flow: flows[f].status \in {"pending", "expired"} => flows[f].key \in keyring
    BY <2>1, SealedIs
  <2>3. \A f \in Flow: flows'[f].status \in {"pending", "expired"} => flows'[f].key \in keyring
    BY <2>1, <2>2
  <2> QED
    BY <2>1, <2>2, <2>3 DEF Sealed, ProcessStays, Exists
<1> QED
  BY <1>1, <1>2 DEF RowsHold

LEMMA PairIn ==
    ASSUME NEW A, NEW B, NEW a, NEW b, <<a, b>> \in A \X B
    PROVE  b \in B
OBVIOUS

LEMMA RowsHoldStep == CredInv /\ [CredNext]_credVars => RowsHold
<1> SUFFICES ASSUME CredInv, [CredNext]_credVars PROVE RowsHold
  OBVIOUS
<1>0. CredTyped /\ RefsExist /\ CredAudited /\ KeysHeld /\ RowsOk /\ FlowsOk
        /\ "oauth" \in CredId /\ "apikey" \in CredId
  BY TypedParts DEF CredInv, CredId
<1>f. creds \in [CredId -> CredRow \cup {NoRow}] /\ credAudit \in [CredId -> 0..MaxVersion]
  BY <1>0 DEF RowsOk
<1>s. ASSUME UNCHANGED <<creds, credAudit, credRefs, flows>>, ProcessStays PROVE RowsHold
  BY <1>s, RowsUnwritten
<1>1. ASSUME NEW keys \in SUBSET MasterKey, NEW active \in MasterKey, StartCredentials(keys, active)
      PROVE  RowsHold
  <2>1. UNCHANGED <<creds, credAudit, credRefs, flows>> /\ keyring' = keys /\ activeKey' = active
          /\ active \in keys /\ Sealed \subseteq keys
    BY <1>1 DEF StartCredentials, FlowsStay
  <2>2. Sealed' = Sealed
    BY <2>1 DEF Sealed, Exists
  <2> QED
    BY <1>0, <2>1, <2>2 DEF RowsHold, RefsExist, CredAudited, KeysHeld, Exists
<1>2. CASE CrashCredentials
  <2>1. UNCHANGED <<creds, credAudit, credRefs>> /\ keyring' = {}
    BY <1>2 DEF CrashCredentials
  <2> QED
    BY <1>0, <2>1 DEF RowsHold, RefsExist, CredAudited, KeysHeld, Exists, Up
<1>3. ASSUME NEW f \in Flow, NEW s \in Session, BeginOAuth(f, s) PROVE RowsHold
  BY <1>0, <1>3, RowsUnwritten DEF BeginOAuth, FlowsOk
<1>4. ASSUME NEW f \in Flow, NEW s \in Session, ConsumeState(f, s) PROVE RowsHold
  BY <1>0, <1>4, RowsUnwritten DEF ConsumeState, FlowsOk
<1>5. ASSUME NEW f \in Flow, FlowExpires(f) PROVE RowsHold
  BY <1>0, <1>5, RowsUnwritten DEF FlowExpires, FlowsOk
<1>6. ASSUME NEW f \in Flow, ExchangeFails(f) PROVE RowsHold
  BY <1>0, <1>6, RowsUnwritten DEF ExchangeFails, FlowsOk
<1>p. ASSUME NEW grant \in 0..MaxGrant, NEW refresh \in 0..MaxGrant, NEW fresh \in BOOLEAN,
             PersistOAuth(grant, refresh, fresh), ProcessStays,
             \A f \in Flow : flows'[f].status \in {"pending", "expired"} => flows'[f] = flows[f]
      PROVE  RowsHold
  <2>1. /\ creds'["oauth"] \in CredRow /\ creds'["oauth"].key = activeKey
        /\ credAudit'["oauth"] = creds'["oauth"].version
        /\ creds'["apikey"] = creds["apikey"] /\ credAudit'["apikey"] = credAudit["apikey"]
    BY <1>0, <1>p, PersistRow
  <2>2. \A j \in CredId \ {"oauth"} : creds'[j] = creds[j] /\ credAudit'[j] = credAudit[j]
    BY <2>1 DEF CredId
  <2>3. credRefs' = credRefs
    BY <1>p DEF PersistOAuth
  <2> QED
    BY <1>0, <1>p, <2>1, <2>2, <2>3, RowWritten
<1>m. minted < MaxGrant => minted + 1 \in 0..MaxGrant
  BY <1>0, CredentialConstants DEF CredTyped
<1>7. ASSUME NEW f \in Flow, ExchangeCode(f) PROVE RowsHold
  <2>1. PICK refresh \in {0, minted'} : PersistOAuth(minted', refresh, TRUE)
    BY <1>7 DEF ExchangeCode
  <2>2. minted' \in 0..MaxGrant /\ refresh \in 0..MaxGrant
    BY <1>7, <1>m, <2>1, CredentialConstants DEF ExchangeCode
  <2>3. \A g \in Flow : flows'[g].status \in {"pending", "expired"} => flows'[g] = flows[g]
    BY <1>0, <1>7 DEF ExchangeCode, FlowsOk
  <2> QED
    BY <1>7, <1>p, <2>1, <2>2, <2>3 DEF ExchangeCode
<1>8. ASSUME NEW fresh \in BOOLEAN, ImportOAuth(fresh) PROVE RowsHold
  <2>1. PersistOAuth(minted', minted', fresh) /\ ProcessStays /\ flows' = flows
          /\ minted' \in 0..MaxGrant
    BY <1>8, <1>m DEF ImportOAuth, FlowsStay
  <2> QED
    BY <1>p, <2>1
<1>9. CASE AccessExpires
  <2> DEFINE row == [creds["oauth"] EXCEPT !.fresh = FALSE]
  <2>1. creds["oauth"] \in CredRow /\ Exists("oauth")
    BY <1>0, <1>9, RowThere DEF AccessExpires
  <2>2. row \in CredRow /\ row.version = creds["oauth"].version /\ row.key = creds["oauth"].key
    BY <2>1 DEF CredRow
  <2>3. creds' = [creds EXCEPT !["oauth"] = row] /\ UNCHANGED <<credAudit, credRefs, flows>> /\ ProcessStays
    BY <1>9 DEF AccessExpires, FlowsStay
  <2> HIDE DEF row
  <2>4. creds'["oauth"] = row /\ \A j \in CredId \ {"oauth"} : creds'[j] = creds[j]
    BY <1>0, <1>f, <2>3
  <2>5. credAudit'["oauth"] = row.version
    BY <1>0, <2>2, <2>3 DEF CredAudited
  <2> QED
    BY <1>0, <2>1, <2>2, <2>3, <2>4, <2>5, RowWritten
<1>10. ASSUME NEW c \in TokenCaller,
              Token(c) \/ RefreshOAuth(c) \/ TokenGranted(c) \/ TokenRefused(c) \/ TokenUnreachable(c)
       PROVE  RowsHold
  <2>1. UNCHANGED <<creds, credAudit, credRefs, flows>> /\ ProcessStays
    BY <1>10 DEF Token, RefreshOAuth, TokenGranted, TokenRefused, TokenUnreachable, FlowsStay
  <2> QED
    BY <1>s, <2>1
<1>11. ASSUME NEW c \in TokenCaller, SaveOAuth(c) PROVE RowsHold
  <2> DEFINE next == [callers[c].row EXCEPT !.version = @ + 1, !.key = activeKey,
                        !.refresh = callers[c].token, !.fresh = TRUE, !.status = "ok"]
  <2>0. UNCHANGED <<credRefs, flows>> /\ ProcessStays
    BY <1>11 DEF SaveOAuth, FlowsStay
  <2>1. CASE CasHolds(c)
    <3>1. callers[c].pc = "save" /\ next.version <= MaxVersion
            /\ creds' = [creds EXCEPT !["oauth"] = next]
            /\ credAudit' = [credAudit EXCEPT !["oauth"] = next.version]
      BY <1>11, <2>1 DEF SaveOAuth
    <3>2. next \in CredRow /\ next.key = activeKey
      BY <1>0, <2>1, <3>1, SavedRow
    <3> HIDE DEF next
    <3>3. creds'["oauth"] = next /\ \A j \in CredId \ {"oauth"} : creds'[j] = creds[j]
      BY <1>0, <1>f, <3>1
    <3>4. credAudit'["oauth"] = next.version /\ \A j \in CredId \ {"oauth"} : credAudit'[j] = credAudit[j]
      BY <1>0, <1>f, <3>1
    <3> QED
      BY <1>0, <2>0, <3>2, <3>3, <3>4, RowWritten
  <2>2. CASE ~ CasHolds(c)
    BY <1>s, <1>11, <2>0, <2>2 DEF SaveOAuth
  <2> QED
    BY <2>1, <2>2
<1>12. ASSUME NEW c \in TokenCaller, MarkNeedsReauth(c) PROVE RowsHold
  <2>0. UNCHANGED <<credRefs, flows>> /\ ProcessStays
    BY <1>12 DEF MarkNeedsReauth, FlowsStay
  <2>1. CASE CasHolds(c) /\ creds' = [creds EXCEPT !["oauth"].status = "needs_reauth"]
               /\ credAudit' = [credAudit EXCEPT !["oauth"] = callers[c].row.version]
    <3> DEFINE row == [creds["oauth"] EXCEPT !.status = "needs_reauth"]
    <3>1. creds["oauth"] \in CredRow /\ Exists("oauth")
            /\ callers[c].row.version = creds["oauth"].version
      BY <1>0, <2>1, RowThere DEF CasHolds
    <3>2. row \in CredRow /\ row.version = creds["oauth"].version /\ row.key = creds["oauth"].key
      BY <3>1 DEF CredRow
    <3>3. creds' = [creds EXCEPT !["oauth"] = row]
      BY <2>1
    <3> HIDE DEF row
    <3>4. creds'["oauth"] = row /\ \A j \in CredId \ {"oauth"} : creds'[j] = creds[j]
      BY <1>0, <1>f, <3>3
    <3>5. credAudit'["oauth"] = row.version /\ \A j \in CredId \ {"oauth"} : credAudit'[j] = credAudit[j]
      BY <1>0, <1>f, <2>1, <3>1, <3>2
    <3> QED
      BY <1>0, <2>0, <3>1, <3>2, <3>4, <3>5, RowWritten
  <2>2. CASE UNCHANGED <<creds, credAudit>>
    BY <1>s, <2>0, <2>2
  <2> QED
    BY <1>12, <2>1, <2>2 DEF MarkNeedsReauth
<1>13. CASE CreateAPIKey
  <2> DEFINE row == [version |-> 1, key |-> activeKey, grant |-> 0, refresh |-> 0,
                    fresh |-> TRUE, status |-> "ok"]
  <2>1. row \in CredRow /\ row.version = 1 /\ row.key = activeKey
    BY <1>0, CredentialConstants DEF CredRow, FlowsOk
  <2>2. creds' = [creds EXCEPT !["apikey"] = row] /\ credAudit' = [credAudit EXCEPT !["apikey"] = 1]
          /\ UNCHANGED <<credRefs, flows>> /\ ProcessStays
    BY <1>13 DEF CreateAPIKey, FlowsStay
  <2> HIDE DEF row
  <2>3. creds'["apikey"] = row /\ \A j \in CredId \ {"apikey"} : creds'[j] = creds[j]
    BY <1>0, <1>f, <2>2
  <2>4. credAudit'["apikey"] = row.version /\ \A j \in CredId \ {"apikey"} : credAudit'[j] = credAudit[j]
    BY <1>0, <1>f, <2>1, <2>2
  <2> QED
    BY <1>0, <2>1, <2>2, <2>3, <2>4, RowWritten
<1>14. CASE ReplaceAPIKey
  <2>1. creds["apikey"].version \in Nat /\ creds["apikey"].version > 0
    BY <1>0, <1>14, RowThere DEF ReplaceAPIKey, Exists
  <2>2. creds'["apikey"] \in CredRow \cup {NoRow}
    BY <1>0, RowsStep DEF RowsOk
  <2>3. creds["apikey"] \in CredRow
    BY <1>0, <1>14, RowThere DEF ReplaceAPIKey
  <2>4. creds'["apikey"].version = creds["apikey"].version + 1 /\ creds'["apikey"].key = activeKey
    BY <1>0, <1>f, <1>14, <2>3 DEF ReplaceAPIKey, CredRow
  <2>5. creds'["apikey"] \in CredRow
    BY <2>1, <2>2, <2>4 DEF NoRow
  <2>6. \A j \in CredId \ {"apikey"} : creds'[j] = creds[j]
    BY <1>0, <1>f, <1>14 DEF ReplaceAPIKey
  <2>7. credAudit'["apikey"] = creds'["apikey"].version
          /\ \A j \in CredId \ {"apikey"} : credAudit'[j] = credAudit[j]
    BY <1>0, <1>f, <1>14, <2>4 DEF ReplaceAPIKey
  <2>8. UNCHANGED <<credRefs, flows>> /\ ProcessStays
    BY <1>14 DEF ReplaceAPIKey, FlowsStay
  <2> QED
    BY <1>0, <2>4, <2>5, <2>6, <2>7, <2>8, RowWritten
<1>15. ASSUME NEW id \in CredId, DeleteCredential(id) PROVE RowsHold
  <2>1. /\ creds'[id] = NoRow /\ credAudit'[id] = 0
        /\ \A j \in CredId \ {id} : creds'[j] = creds[j] /\ credAudit'[j] = credAudit[j]
        /\ UNCHANGED <<credRefs, flows>> /\ ProcessStays
        /\ \A o \in CredOwner : <<o, id>> \notin credRefs
    BY <1>0, <1>f, <1>15 DEF DeleteCredential, FlowsStay, Unused
  <2>2. ~ Exists(id)' /\ \A j \in CredId \ {id} : Exists(j)' = Exists(j)
    BY <2>1 DEF NoRow, Exists
  <2>3. RefsExist'
    BY <1>0, <2>1, <2>2 DEF RefsExist
  <2>4. CredAudited'
    BY <1>0, <2>1 DEF CredAudited, NoRow
  <2>5. KeysHeld'
    <3> SUFFICES ASSUME Up PROVE activeKey' \in keyring' /\ (Sealed \subseteq keyring)'
      BY <2>1 DEF KeysHeld, ProcessStays, Up
    <3>1. Sealed' \subseteq Sealed
      BY <2>1, <2>2 DEF Sealed
    <3> QED
      BY <1>0, <2>1, <3>1 DEF KeysHeld, ProcessStays
  <2> QED
    BY <2>3, <2>4, <2>5 DEF RowsHold
<1>16. ASSUME NEW o \in CredOwner, NEW ids \in SUBSET CredId, ReplaceReferences(o, ids) PROVE RowsHold
  <2>1. UNCHANGED <<creds, credAudit, flows>> /\ ProcessStays
          /\ \A id \in ids : Exists(id)
    BY <1>16 DEF ReplaceReferences, FlowsStay
  <2>r. credRefs' = {r \in credRefs: r[1] # o} \cup ({o} \X ids)
    BY <1>16, Zenon DEF ReplaceReferences
  <2>2. RefsExist'
    <3>1. ASSUME NEW p \in CredOwner, NEW id \in CredId, <<p, id>> \in credRefs'
          PROVE  <<p, id>> \in credRefs \/ id \in ids
      <4> DEFINE kept == {r \in credRefs: r[1] # o}
                 added == {o} \X ids
      <4>1. kept \subseteq credRefs
        OBVIOUS
      <4>2. <<p, id>> \in added => id \in ids
        BY PairIn
      <4>3. credRefs' = kept \cup added
        BY <2>r, Zenon
      <4> HIDE DEF kept, added
      <4> QED
        BY <3>1, <4>1, <4>2, <4>3
    <3>2. ASSUME NEW p \in CredOwner, NEW id \in CredId, <<p, id>> \in credRefs'
          PROVE  Exists(id)
      BY <1>0, <2>1, <3>1, <3>2 DEF RefsExist
    <3> QED
      BY <2>1, <3>2 DEF RefsExist, Exists
  <2>3. CredAudited' /\ Sealed' = Sealed
    BY <1>0, <2>1 DEF CredAudited, Sealed, Exists
  <2> QED
    BY <1>0, <2>1, <2>2, <2>3 DEF RowsHold, KeysHeld, ProcessStays, Up
<1>17. CASE UNCHANGED credVars
  BY <1>s, <1>17 DEF credVars, ProcessStays
<1> QED
  BY <1>1, <1>2, <1>3, <1>4, <1>5, <1>6, <1>7, <1>8, <1>9, <1>10, <1>11, <1>12, <1>13, <1>14,
     <1>15, <1>16, <1>17 DEF CredNext

(* What a step does to the calls, one call at a time. *)
RefreshKept == CallsOk' /\ RefreshInv'

(* No call is nearer to the provider, and the row stays. *)
LEMMA CallsUntouched ==
    ASSUME CredTyped, RefreshInv, creds'["oauth"] = creds["oauth"],
           UNCHANGED <<liveTokens, minted, newest, reborn, refreshMu>>,
           callers' \in [TokenCaller -> CallRecord],
           \A c \in TokenCaller: callers'[c] = callers[c] \/ (callers'[c].pc = "wait" /\ callers'[c].token = callers[c].token)
    PROVE  RefreshKept
<1>0. CallsOk /\ LockHeld /\ TokensMinted /\ RefusedIsDead /\ ReadBefore /\ NewestKept
  BY TypedParts DEF RefreshInv
<1>1. \A c \in TokenCaller: Carrying(c)' => Carrying(c) /\ callers'[c] = callers[c]
  BY DEF Carrying
<1>2. CallsOk'
  BY <1>0, <1>1 DEF CallsOk
<1>3. LockHeld' /\ TokensMinted'
  BY <1>0, <1>1 DEF LockHeld, TokensMinted, Exists
<1>4. RefusedIsDead'
  BY <1>0, <1>1 DEF RefusedIsDead, Carrying
<1>5. ReadBefore' /\ NewestKept'
  BY <1>0, <1>1 DEF ReadBefore, NewestKept, Exists
<1> QED
  BY <1>2, <1>3, <1>4, <1>5 DEF RefreshKept, RefreshInv

(* Only the row changes, to one of the same authorisation that is not older. *)
LEMMA RowSameGrant ==
    ASSUME CredTyped, RefreshInv, Exists("oauth"), creds'["oauth"] \in CredRow,
           creds'["oauth"].version = creds["oauth"].version,
           creds'["oauth"].grant = creds["oauth"].grant,
           creds'["oauth"].refresh = creds["oauth"].refresh,
           creds'["oauth"].status = "needs_reauth" =>
              creds["oauth"].status = "needs_reauth" \/ creds["oauth"].refresh \notin liveTokens,
           UNCHANGED <<liveTokens, minted, newest, reborn, refreshMu, callers>>
    PROVE  RefreshKept
<1>0. CallsOk /\ LockHeld /\ TokensMinted /\ RefusedIsDead /\ ReadBefore /\ NewestKept
  BY TypedParts DEF RefreshInv
<1>1. CallsOk' /\ LockHeld' /\ RefusedIsDead'
  BY <1>0 DEF CallsOk, LockHeld, RefusedIsDead, Carrying
<1>2. TokensMinted' /\ ReadBefore' /\ NewestKept'
  BY <1>0 DEF TokensMinted, ReadBefore, NewestKept, Carrying, Exists
<1> QED
  BY <1>1, <1>2 DEF RefreshKept, RefreshInv

(* A call goes back to rest and gives the lock back; the row is as it was,   *)
(* or a version the call itself has written.                                 *)
LEMMA ReturnsKeep ==
    ASSUME CredTyped, RefreshInv, NEW c \in TokenCaller, CallerReturns(c),
           \A d \in TokenCaller: Carrying(d) => d = c,
           minted' \in minted..MaxGrant, liveTokens' \subseteq liveTokens \cup ((minted + 1)..minted'),
           UNCHANGED <<newest, reborn>>,
           Exists("oauth")' => /\ creds'["oauth"].refresh \in 0..minted
                               /\ reborn = FALSE =>
                                    /\ creds'["oauth"].grant = newest
                                    /\ creds'["oauth"].status = "needs_reauth" =>
                                         creds'["oauth"].refresh \notin liveTokens
    PROVE  RefreshKept
<1>0. CallsOk /\ LockHeld /\ TokensMinted /\ RefusedIsDead /\ ReadBefore /\ NewestKept
  BY TypedParts DEF RefreshInv
<1>1. callers'[c] = NoCall /\ callers' \in [TokenCaller -> CallRecord]
        /\ \A d \in TokenCaller \ {c} : callers'[d] = callers[d]
  BY CallerChanges, NoCallFields DEF CallerReturns
<1>2. \A d \in TokenCaller : ~ Carrying(d)'
  BY <1>1, NoCallFields DEF Carrying
<1>3. minted \in Nat /\ minted' \in Nat /\ minted <= minted' /\ minted' <= MaxGrant
  BY CredentialConstants DEF CredTyped
<1>a. liveTokens' \subseteq 1..minted'
  BY <1>0, <1>3 DEF TokensMinted
<1>4. CallsOk'
  <2>1. liveTokens' \subseteq 1..MaxGrant
    BY <1>a, <1>3, CredentialConstants
  <2>2. minted' \in 0..MaxGrant
    BY <1>3, CredentialConstants
  <2> QED
    BY <1>1, <1>2, <2>1, <2>2 DEF CallsOk, CallerReturns
<1>5. LockHeld' /\ RefusedIsDead' /\ ReadBefore'
  BY <1>2 DEF LockHeld, RefusedIsDead, ReadBefore, Carrying
<1>6. TokensMinted'
  <2>2. \A d \in TokenCaller : callers'[d].token <= minted'
    BY <1>0, <1>1, <1>3, CallThere, NoCallFields DEF TokensMinted
  <2>3. Exists("oauth")' => creds'["oauth"].refresh <= minted'
    <3>1. CASE Exists("oauth")'
      <4>1. creds'["oauth"].refresh \in Int /\ creds'["oauth"].refresh <= minted
        BY <3>1, <1>3
      <4> QED
        BY <4>1, <1>3
    <3> QED
      BY <3>1
  <2> QED
    BY <1>2, <1>a, <2>2, <2>3 DEF TokensMinted
<1>7. NewestKept'
  <2> SUFFICES ASSUME reborn' = FALSE, Exists("oauth")'
               PROVE  /\ creds'["oauth"].grant = newest'
                      /\ creds'["oauth"].status = "needs_reauth" => creds'["oauth"].refresh \notin liveTokens'
    BY DEF NewestKept
  <2>1. creds'["oauth"].refresh \in 0..minted
    OBVIOUS
  <2>2. creds'["oauth"].refresh \notin (minted + 1)..minted'
    BY <1>3, <2>1
  <2> QED
    BY <2>2
<1> QED
  BY <1>4, <1>5, <1>6, <1>7 DEF RefreshKept, RefreshInv

(* The call that holds the lock moves on; nothing else changes but tokens    *)
(* the provider mints meanwhile.                                             *)
LEMMA HolderMoves ==
    ASSUME CredTyped, RefreshInv, NEW c \in TokenCaller, NEW call \in CallRecord,
           callers' = [callers EXCEPT ![c] = call], refreshMu' = c,
           \A d \in TokenCaller: Carrying(d) => d = c,
           call.pc \in {"request", "save", "refused"}, call.row \in CredRow,
           call.row.refresh <= minted, call.token <= minted',
           call.pc = "refused" => call.row.refresh \notin liveTokens',
           reborn = FALSE /\ Exists("oauth") =>
               /\ call.row.version <= creds["oauth"].version
               /\ call.row.version = creds["oauth"].version =>
                    /\ call.row.grant = creds["oauth"].grant
                    /\ call.row.refresh = creds["oauth"].refresh,
           minted' \in minted..MaxGrant, liveTokens' \subseteq liveTokens \cup ((minted + 1)..minted'),
           UNCHANGED <<creds, newest, reborn>>
    PROVE  RefreshKept
<1>0. CallsOk /\ LockHeld /\ TokensMinted /\ RefusedIsDead /\ ReadBefore /\ NewestKept
  BY TypedParts DEF RefreshInv
<1>1. callers' \in [TokenCaller -> CallRecord] /\ callers'[c] = call
        /\ \A d \in TokenCaller \ {c} : callers'[d] = callers[d]
  BY CallerChanges
<1>2. \A d \in TokenCaller : Carrying(d)' => d = c
  BY <1>1 DEF Carrying
<1>3. minted \in Nat /\ minted' \in Nat /\ minted <= minted' /\ minted' <= MaxGrant
  BY CredentialConstants DEF CredTyped
<1>4. liveTokens' \subseteq 1..minted'
  BY <1>0, <1>3 DEF TokensMinted
<1>5. CallsOk'
  <2>1. liveTokens' \subseteq 1..MaxGrant
    BY <1>3, <1>4, CredentialConstants
  <2>2. minted' \in 0..MaxGrant
    BY <1>3, CredentialConstants
  <2> QED
    BY <1>1, <1>2, <2>1, <2>2 DEF CallsOk
<1>6. LockHeld'
  BY <1>2 DEF LockHeld
<1>7. RefusedIsDead'
  BY <1>1, <1>2 DEF RefusedIsDead, Carrying
<1>8. ReadBefore'
  BY <1>1, <1>2 DEF ReadBefore, Exists
<1>9. TokensMinted'
  <2>1. \A d \in TokenCaller : callers'[d].token <= minted'
    <3>1. ASSUME NEW d \in TokenCaller \ {c} PROVE callers'[d].token <= minted'
      <4>1. callers'[d].token \in Nat /\ callers'[d].token <= minted
        BY <1>0, <1>1, CallThere DEF TokensMinted
      <4> QED
        BY <4>1, <1>3
    <3> QED
      BY <3>1, <1>1
  <2>2. Exists("oauth")' => creds'["oauth"].refresh <= minted'
    <3>1. ASSUME Exists("oauth")' PROVE creds'["oauth"].refresh <= minted'
      <4>1. creds["oauth"].refresh \in Nat /\ creds["oauth"].refresh <= minted
        BY <1>0, <3>1, RowThere, RowFieldsOf DEF TokensMinted, Exists, CredId
      <4> QED
        BY <4>1, <1>3
    <3> QED
      BY <3>1
  <2>3. call.row.refresh <= minted'
    <3>1. call.row.refresh \in Nat
      BY RowFieldsOf
    <3> QED
      BY <3>1, <1>3
  <2>4. \A d \in TokenCaller : Carrying(d)' => callers'[d].row.refresh <= minted'
    BY <1>1, <1>2, <2>3
  <2> QED
    BY <1>4, <2>1, <2>2, <2>4 DEF TokensMinted
<1>10. NewestKept'
  <2> SUFFICES ASSUME reborn = FALSE, Exists("oauth")
               PROVE  /\ creds["oauth"].grant = newest
                      /\ creds["oauth"].status = "needs_reauth" => creds["oauth"].refresh \notin liveTokens'
    BY DEF NewestKept, Exists
  <2>1. creds["oauth"].refresh \in Nat /\ creds["oauth"].refresh <= minted
    BY <1>0, RowThere, RowFieldsOf DEF TokensMinted, CredId
  <2>2. creds["oauth"].refresh \notin (minted + 1)..minted'
    BY <1>3, <2>1
  <2> QED
    BY <1>0, <2>2 DEF NewestKept
<1> QED
  BY <1>5, <1>6, <1>7, <1>8, <1>9, <1>10 DEF RefreshKept, RefreshInv

(* The administrator authorises or imports: one version on, a token that no  *)
(* call has read.                                                            *)
LEMMA PersistKeeps ==
    ASSUME CredTyped, RefreshInv, minted < MaxGrant, minted' = minted + 1,
           NEW refresh \in {0, minted'}, NEW fresh \in BOOLEAN,
           PersistOAuth(minted', refresh, fresh),
           liveTokens' \subseteq liveTokens \cup {minted'}, CallersStay
    PROVE  RefreshKept
<1>0. CallsOk /\ LockHeld /\ TokensMinted /\ RefusedIsDead /\ ReadBefore /\ NewestKept
  BY TypedParts DEF RefreshInv
<1>1. minted \in Nat /\ minted' \in Nat /\ minted' \in 0..MaxGrant /\ 0 \in 0..MaxGrant
  BY CredentialConstants DEF CredTyped
<1>2. /\ creds'["oauth"].version = creds["oauth"].version + 1
      /\ creds'["oauth"].grant = minted' /\ creds'["oauth"].refresh = refresh
      /\ creds'["oauth"].status = "ok"
  <2>1. refresh \in 0..MaxGrant
    BY <1>1
  <2> QED
    BY <1>1, <2>1, PersistRow
<1>3. newest' = minted' /\ (reborn' = FALSE => reborn = FALSE)
        /\ (reborn' = FALSE /\ ~ Exists("oauth") => \A c \in TokenCaller : ~ Carrying(c))
  <2>1. reborn \in BOOLEAN
    BY DEF CredTyped
  <2> QED
    BY <2>1 DEF PersistOAuth, Carrying
<1>4. callers' = callers /\ refreshMu' = refreshMu /\ \A c \in TokenCaller : Carrying(c)' = Carrying(c)
  BY DEF CallersStay, Carrying
<1>5. liveTokens' \subseteq 1..minted'
  BY <1>0, <1>1 DEF TokensMinted
<1>6. CallsOk'
  <2>1. liveTokens' \subseteq 1..MaxGrant
    BY <1>1, <1>5, CredentialConstants
  <2> QED
    BY <1>0, <1>1, <1>4, <2>1 DEF CallsOk
<1>7. LockHeld'
  BY <1>0, <1>4 DEF LockHeld
<1>8. \A c \in TokenCaller : Carrying(c) =>
         callers[c].row.refresh \in Nat /\ callers[c].row.refresh <= minted
           /\ callers[c].row.refresh <= minted' /\ callers[c].row.refresh # minted'
           /\ callers[c].row.version \in Nat
  BY <1>0, <1>1, CallThere, RowFieldsOf DEF TokensMinted
<1>9. RefusedIsDead'
  BY <1>0, <1>4, <1>8 DEF RefusedIsDead, Carrying
<1>10. ReadBefore'
  <2> SUFFICES ASSUME reborn' = FALSE, NEW c \in TokenCaller, Carrying(c)
               PROVE  /\ callers[c].row.version <= creds'["oauth"].version
                      /\ callers[c].row.version # creds'["oauth"].version
    BY <1>4 DEF ReadBefore
  <2>1. reborn = FALSE /\ Exists("oauth")
    BY <1>3
  <2>2. callers[c].row.version <= creds["oauth"].version
    BY <1>0, <2>1 DEF ReadBefore
  <2>3. creds["oauth"].version \in Nat /\ callers[c].row.version \in Nat
    BY <1>8, RowThere DEF CredId
  <2> QED
    BY <1>2, <2>2, <2>3
<1>11. TokensMinted'
  <2>1. refresh <= minted'
    BY <1>1
  <2>2. \A c \in TokenCaller : callers[c].token <= minted'
    BY <1>0, <1>1, CallThere DEF TokensMinted
  <2> QED
    BY <1>2, <1>4, <1>5, <1>8, <2>1, <2>2 DEF TokensMinted
<1>12. NewestKept'
  BY <1>2, <1>3 DEF NewestKept
<1> QED
  BY <1>6, <1>7, <1>9, <1>10, <1>11, <1>12 DEF RefreshKept, RefreshInv

(* With the lock free nobody is in flight; with a call in flight only it is. *)
LEMMA OneInFlight ==
    ASSUME CredTyped, LockHeld
    PROVE  /\ refreshMu = NoSession => \A d \in TokenCaller: ~ Carrying(d)
           /\ \A c, d \in TokenCaller: Carrying(c) /\ Carrying(d) => d = c
BY CredentialConstants DEF LockHeld

(* Every step keeps what the refreshes rest on.                              *)
LEMMA RefreshStep == CredTyped /\ RefreshInv /\ [CredNext]_credVars => RefreshKept
<1> SUFFICES ASSUME CredTyped, RefreshInv, [CredNext]_credVars PROVE RefreshKept
  OBVIOUS
<1>0. /\ CallsOk /\ RowsOk /\ LockHeld /\ TokensMinted /\ RefusedIsDead /\ ReadBefore /\ NewestKept
      /\ "oauth" \in CredId /\ "apikey" \in CredId /\ "oauth" # "apikey"
  BY TypedParts DEF RefreshInv, CredId
<1>f. creds \in [CredId -> CredRow \cup {NoRow}] /\ callers \in [TokenCaller -> CallRecord]
  BY <1>0 DEF RowsOk, CallsOk
<1>g. minted \in Nat /\ minted <= MaxGrant /\ minted \in minted..MaxGrant /\ MaxGrant \in Nat
  BY CredentialConstants DEF CredTyped
<1>s. ASSUME creds'["oauth"] = creds["oauth"], TokensStay, CallersStay PROVE RefreshKept
  BY <1>f, <1>s, CallsUntouched DEF TokensStay, CallersStay
<1>1. ASSUME NEW keys, NEW active, StartCredentials(keys, active) PROVE RefreshKept
  BY <1>s, <1>1 DEF StartCredentials
<1>2. CASE CrashCredentials
  <2>1. UNCHANGED <<creds, liveTokens, minted, newest, reborn>> /\ refreshMu' = NoSession
          /\ callers' = [c \in TokenCaller |-> NoCall]
    BY <1>2 DEF CrashCredentials, TokensStay
  <2>2. \A c \in TokenCaller : callers'[c] = NoCall /\ ~ Carrying(c)'
    BY <2>1, NoCallFields DEF Carrying
  <2>3. callers' \in [TokenCaller -> CallRecord]
    BY <2>1, NoCallFields
  <2>4. CallsOk'
    BY <1>0, <2>1, <2>2, <2>3 DEF CallsOk
  <2>5. LockHeld' /\ RefusedIsDead' /\ ReadBefore'
    BY <2>2 DEF LockHeld, RefusedIsDead, ReadBefore, Carrying
  <2>6. TokensMinted'
    BY <1>0, <1>g, <2>1, <2>2, NoCallFields DEF TokensMinted, Exists
  <2>7. NewestKept'
    BY <1>0, <2>1 DEF NewestKept, Exists
  <2> QED
    BY <2>4, <2>5, <2>6, <2>7 DEF RefreshKept, RefreshInv
<1>3. ASSUME NEW f \in Flow, NEW s \in Session, BeginOAuth(f, s) \/ ConsumeState(f, s) PROVE RefreshKept
  BY <1>s, <1>3 DEF BeginOAuth, ConsumeState
<1>4. ASSUME NEW f \in Flow, FlowExpires(f) \/ ExchangeFails(f) PROVE RefreshKept
  BY <1>s, <1>4 DEF FlowExpires, ExchangeFails
<1>5. ASSUME NEW f \in Flow, ExchangeCode(f) PROVE RefreshKept
  <2>1. PICK refresh \in {0, minted'} :
            liveTokens' = liveTokens \cup ({refresh} \ {0}) /\ PersistOAuth(minted', refresh, TRUE)
    BY <1>5 DEF ExchangeCode
  <2>2. minted < MaxGrant /\ minted' = minted + 1 /\ CallersStay
    BY <1>5 DEF ExchangeCode
  <2>3. liveTokens' \subseteq liveTokens \cup {minted'}
    BY <2>1
  <2> HIDE DEF CallersStay
  <2> QED
    BY <2>1, <2>2, <2>3, PersistKeeps
<1>6. ASSUME NEW fresh \in BOOLEAN, ImportOAuth(fresh) PROVE RefreshKept
  <2>1. /\ minted < MaxGrant /\ minted' = minted + 1 /\ CallersStay
        /\ liveTokens' \subseteq liveTokens \cup {minted'} /\ PersistOAuth(minted', minted', fresh)
        /\ minted' \in {0, minted'}
    BY <1>6 DEF ImportOAuth
  <2> QED
    BY <2>1, PersistKeeps
<1>7. CASE AccessExpires
  <2> DEFINE row == [creds["oauth"] EXCEPT !.fresh = FALSE]
  <2>1. creds["oauth"] \in CredRow /\ Exists("oauth")
    BY <1>0, <1>7, RowThere DEF AccessExpires
  <2>2. row \in CredRow /\ row.version = creds["oauth"].version /\ row.grant = creds["oauth"].grant
          /\ row.refresh = creds["oauth"].refresh /\ row.status = creds["oauth"].status
    BY <2>1 DEF CredRow
  <2>3. creds' = [creds EXCEPT !["oauth"] = row] /\ TokensStay /\ CallersStay
    BY <1>7 DEF AccessExpires
  <2> HIDE DEF row
  <2>4. creds'["oauth"] = row
    BY <1>0, <1>f, <2>3
  <2> QED
    BY <2>1, <2>2, <2>3, <2>4, RowSameGrant DEF TokensStay, CallersStay
<1>8. ASSUME NEW c \in TokenCaller, Token(c) PROVE RefreshKept
  <2> DEFINE call == [callers[c] EXCEPT !.pc = "wait"]
  <2>1. callers' = [callers EXCEPT ![c] = call] /\ UNCHANGED <<creds, refreshMu>> /\ TokensStay
    BY <1>8 DEF Token
  <2>2. call \in CallRecord /\ call.pc = "wait" /\ call.token = callers[c].token
    BY CallThere DEF CallRecord
  <2> HIDE DEF call
  <2>3. callers' \in [TokenCaller -> CallRecord] /\ callers'[c] = call
          /\ \A d \in TokenCaller \ {c} : callers'[d] = callers[d]
    BY <2>1, <2>2, CallerChanges
  <2> QED
    BY <2>1, <2>2, <2>3, CallsUntouched DEF TokensStay
<1>r. ASSUME NEW c \in TokenCaller, CallerReturns(c), \A d \in TokenCaller: Carrying(d) => d = c,
             TokensStay, creds' = creds
      PROVE  RefreshKept
  <2>1. Exists("oauth")' => creds'["oauth"].refresh \in 0..minted
    <3>1. ASSUME Exists("oauth")' PROVE creds'["oauth"].refresh \in 0..minted
      <4>1. Exists("oauth") /\ creds'["oauth"].refresh = creds["oauth"].refresh
        BY <1>r, <3>1 DEF Exists
      <4>2. creds["oauth"].refresh \in Nat /\ creds["oauth"].refresh <= minted
        BY <1>0, <4>1, RowThere, RowFieldsOf DEF TokensMinted
      <4> QED
        BY <1>g, <4>1, <4>2
    <3> QED
      BY <3>1
  <2>2. Exists("oauth")' /\ reborn = FALSE =>
           /\ creds'["oauth"].grant = newest
           /\ creds'["oauth"].status = "needs_reauth" => creds'["oauth"].refresh \notin liveTokens
    BY <1>0, <1>r DEF NewestKept, Exists
  <2>3. minted' \in minted..MaxGrant /\ liveTokens' \subseteq liveTokens \cup ((minted + 1)..minted')
          /\ UNCHANGED <<newest, reborn>>
    BY <1>g, <1>r DEF TokensStay
  <2> QED
    BY <1>r, <2>1, <2>2, <2>3, ReturnsKeep
<1>9. ASSUME NEW c \in TokenCaller, RefreshOAuth(c) PROVE RefreshKept
  <2> DEFINE call == [pc |-> IF creds["oauth"].refresh = 0 THEN "refused" ELSE "request",
                     row |-> creds["oauth"], token |-> 0]
  <2>0. refreshMu = NoSession /\ creds' = creds /\ TokensStay
    BY <1>9 DEF RefreshOAuth
  <2>1. \A d \in TokenCaller : Carrying(d) => d = c
    BY <1>0, <2>0, OneInFlight
  <2>2. CASE CallerReturns(c)
    BY <1>r, <2>0, <2>1, <2>2
  <2>3. CASE Exists("oauth") /\ refreshMu' = c /\ callers' = [callers EXCEPT ![c] = call]
    <3>1. creds["oauth"] \in CredRow
      BY <1>0, <2>3, RowThere
    <3>2. /\ call \in CallRecord /\ call.row = creds["oauth"] /\ call.token = 0
          /\ call.pc \in {"request", "save", "refused"}
          /\ call.pc = "refused" => call.row.refresh = 0
      BY <1>g, <3>1 DEF CallRecord
    <3> HIDE DEF call
    <3>3. call.pc = "refused" => call.row.refresh \notin liveTokens'
      BY <1>0, <1>g, <2>0, <3>2 DEF TokensMinted, TokensStay
    <3>4. call.row \in CredRow /\ call.row.refresh <= minted
      BY <1>0, <2>3, <3>1, <3>2 DEF TokensMinted
    <3>5. creds["oauth"].version <= creds["oauth"].version
      BY <1>0, RowThere
    <3>6. minted' \in minted..MaxGrant /\ liveTokens' \subseteq liveTokens \cup ((minted + 1)..minted')
            /\ UNCHANGED <<creds, newest, reborn>> /\ call.token <= minted'
      BY <1>g, <2>0, <3>2 DEF TokensStay
    <3> QED
      BY <2>1, <2>3, <3>2, <3>3, <3>4, <3>5, <3>6, HolderMoves
  <2> QED
    BY <1>9, <2>2, <2>3 DEF RefreshOAuth
<1>h. ASSUME NEW c \in TokenCaller, callers[c].pc \in {"request", "save", "refused"}
      PROVE  /\ Carrying(c) /\ refreshMu = c /\ \A d \in TokenCaller: Carrying(d) => d = c
             /\ callers[c].row \in CredRow /\ callers[c].row.refresh \in 0..minted
             /\ callers[c].token \in 0..minted
  <2>1. Carrying(c)
    BY <1>h DEF Carrying
  <2>2. callers[c].row \in CredRow /\ callers[c].row.refresh \in Nat /\ callers[c].token \in Nat
    BY <2>1, CallThere, RowFieldsOf
  <2>3. callers[c].row.refresh <= minted /\ callers[c].token <= minted
    BY <1>0, <2>1 DEF TokensMinted
  <2> QED
    BY <1>0, <1>g, <2>1, <2>2, <2>3, OneInFlight DEF LockHeld
<1>10. ASSUME NEW c \in TokenCaller, TokenGranted(c) PROVE RefreshKept
  <2>0. callers[c].pc = "request" /\ UNCHANGED <<creds, newest, reborn>>
    BY <1>10 DEF TokenGranted
  <2>1. /\ Carrying(c) /\ refreshMu = c /\ \A d \in TokenCaller: Carrying(d) => d = c
        /\ callers[c].row \in CredRow /\ callers[c].row.refresh \in 0..minted
        /\ callers[c].token \in 0..minted
    BY <1>h, <2>0
  <2>2. minted' \in minted..MaxGrant /\ liveTokens' \subseteq liveTokens \cup ((minted + 1)..minted')
    <3>1. CASE minted' = minted /\ liveTokens' = liveTokens
      BY <1>g, <3>1
    <3>2. CASE minted < MaxGrant /\ minted' = minted + 1
                 /\ liveTokens' = (liveTokens \ {callers[c].row.refresh}) \cup {minted'}
      BY <1>g, <3>2
    <3> QED
      BY <1>10, <3>1, <3>2 DEF TokenGranted
  <2>3. CASE CallerReturns(c)
    <3>1. Exists("oauth")' => creds'["oauth"].refresh \in 0..minted
      <4>1. ASSUME Exists("oauth")' PROVE creds'["oauth"].refresh \in 0..minted
        <5>1. Exists("oauth") /\ creds'["oauth"].refresh = creds["oauth"].refresh
          BY <2>0, <4>1 DEF Exists
        <5>2. creds["oauth"].refresh \in Nat /\ creds["oauth"].refresh <= minted
          BY <1>0, <5>1, RowThere, RowFieldsOf DEF TokensMinted
        <5> QED
          BY <1>g, <5>1, <5>2
      <4> QED
        BY <4>1
    <3>2. Exists("oauth")' /\ reborn = FALSE =>
             /\ creds'["oauth"].grant = newest
             /\ creds'["oauth"].status = "needs_reauth" => creds'["oauth"].refresh \notin liveTokens
      BY <1>0, <2>0 DEF NewestKept, Exists
    <3> QED
      BY <2>0, <2>1, <2>2, <2>3, <3>1, <3>2, ReturnsKeep
  <2>4. ASSUME NEW token \in 0..minted',
               callers' = [callers EXCEPT ![c].pc = "save", ![c].token = token],
               refreshMu' = refreshMu
        PROVE  RefreshKept
    <3> DEFINE call == [callers[c] EXCEPT !.pc = "save", !.token = token]
    <3>1. callers' = [callers EXCEPT ![c] = call]
      BY <2>4
    <3>2. token \in 0..MaxGrant /\ token <= minted'
      BY <1>g, <2>2
    <3>3. callers[c] \in CallRecord
      BY CallThere
    <3>4. call \in CallRecord /\ call.pc = "save" /\ call.row = callers[c].row /\ call.token = token
      BY <3>2, <3>3 DEF CallRecord
    <3> HIDE DEF call
    <3>5. reborn = FALSE /\ Exists("oauth") =>
               /\ call.row.version <= creds["oauth"].version
               /\ call.row.version = creds["oauth"].version =>
                    /\ call.row.grant = creds["oauth"].grant
                    /\ call.row.refresh = creds["oauth"].refresh
      BY <1>0, <2>1, <3>4 DEF ReadBefore
    <3>6. call.row.refresh <= minted
      BY <1>g, <2>1, <3>4
    <3> QED
      BY <2>0, <2>1, <2>2, <2>4, <3>1, <3>2, <3>4, <3>5, <3>6, HolderMoves
  <2>5. minted' \in 0..minted' /\ callers[c].row.refresh \in 0..minted'
    BY <1>g, <2>1, <2>2
  <2>6. ASSUME callers' = [callers EXCEPT ![c].pc = "save", ![c].token = minted'], refreshMu' = refreshMu
        PROVE  RefreshKept
    BY <2>4, <2>5, <2>6
  <2>7. ASSUME callers' = [callers EXCEPT ![c].pc = "save", ![c].token = callers[c].row.refresh],
               refreshMu' = refreshMu
        PROVE  RefreshKept
    BY <2>4, <2>5, <2>7
  <2> QED
    BY <1>10, <2>3, <2>6, <2>7 DEF TokenGranted
<1>11. ASSUME NEW c \in TokenCaller, TokenRefused(c) PROVE RefreshKept
  <2>0. callers[c].pc = "request" /\ creds' = creds /\ TokensStay
          /\ callers[c].row.refresh \notin liveTokens
    BY <1>11 DEF TokenRefused
  <2>1. /\ Carrying(c) /\ refreshMu = c /\ \A d \in TokenCaller: Carrying(d) => d = c
        /\ callers[c].row \in CredRow /\ callers[c].row.refresh \in 0..minted
        /\ callers[c].token \in 0..minted
    BY <1>h, <2>0
  <2>2. CASE CallerReturns(c)
    BY <1>r, <2>0, <2>1, <2>2
  <2>3. CASE callers' = [callers EXCEPT ![c].pc = "refused"] /\ refreshMu' = refreshMu
    <3> DEFINE call == [callers[c] EXCEPT !.pc = "refused"]
    <3>1. callers' = [callers EXCEPT ![c] = call]
      BY <2>3
    <3>2. minted' = minted /\ liveTokens' = liveTokens /\ UNCHANGED <<newest, reborn>>
      BY <2>0 DEF TokensStay
    <3>3. callers[c] \in CallRecord
      BY CallThere
    <3>4. call \in CallRecord /\ call.pc = "refused" /\ call.row = callers[c].row
            /\ call.token = callers[c].token
      BY <3>3 DEF CallRecord
    <3> HIDE DEF call
    <3>5. reborn = FALSE /\ Exists("oauth") =>
               /\ call.row.version <= creds["oauth"].version
               /\ call.row.version = creds["oauth"].version =>
                    /\ call.row.grant = creds["oauth"].grant
                    /\ call.row.refresh = creds["oauth"].refresh
      BY <1>0, <2>1, <3>4 DEF ReadBefore
    <3>6. call.row.refresh <= minted /\ call.token <= minted' /\ minted' \in minted..MaxGrant
            /\ liveTokens' \subseteq liveTokens \cup ((minted + 1)..minted')
      BY <1>g, <2>1, <3>2, <3>4
    <3> QED
      BY <2>0, <2>1, <2>3, <3>1, <3>2, <3>4, <3>5, <3>6, HolderMoves
  <2> QED
    BY <1>11, <2>2, <2>3 DEF TokenRefused
<1>12. ASSUME NEW c \in TokenCaller, TokenUnreachable(c) PROVE RefreshKept
  <2>0. callers[c].pc = "request" /\ creds' = creds /\ TokensStay /\ CallerReturns(c)
    BY <1>12 DEF TokenUnreachable
  <2>1. \A d \in TokenCaller: Carrying(d) => d = c
    BY <1>h, <2>0
  <2> QED
    BY <1>r, <2>0, <2>1
<1>13. ASSUME NEW c \in TokenCaller, SaveOAuth(c) PROVE RefreshKept
  <2> DEFINE next == [callers[c].row EXCEPT !.version = @ + 1, !.key = activeKey,
                        !.refresh = callers[c].token, !.fresh = TRUE, !.status = "ok"]
  <2>0. callers[c].pc = "save" /\ CallerReturns(c) /\ TokensStay
    BY <1>13 DEF SaveOAuth
  <2>1. /\ Carrying(c) /\ \A d \in TokenCaller: Carrying(d) => d = c
        /\ callers[c].token \in 0..minted
    BY <1>h, <2>0
  <2>2. CASE CasHolds(c)
    <3>1. next.version <= MaxVersion /\ creds' = [creds EXCEPT !["oauth"] = next]
      BY <1>13, <2>2 DEF SaveOAuth
    <3>2. next \in CredRow /\ next.grant = callers[c].row.grant /\ next.refresh = callers[c].token
            /\ next.status = "ok"
      BY <2>0, <2>2, <3>1, SavedRow
    <3> HIDE DEF next
    <3>3. creds'["oauth"] = next
      BY <1>0, <1>f, <3>1
    <3>4. reborn = FALSE => callers[c].row.grant = newest
      BY <1>0, <2>1, <2>2 DEF ReadBefore, NewestKept, CasHolds
    <3>5. creds'["oauth"].refresh \in 0..minted
      BY <2>1, <3>2, <3>3
    <3>6. minted' \in minted..MaxGrant /\ liveTokens' \subseteq liveTokens \cup ((minted + 1)..minted')
            /\ UNCHANGED <<newest, reborn>>
      BY <1>g, <2>0 DEF TokensStay
    <3> QED
      BY <2>0, <2>1, <3>2, <3>3, <3>4, <3>5, <3>6, ReturnsKeep
  <2>3. CASE ~ CasHolds(c)
    BY <1>13, <1>r, <2>0, <2>1, <2>3 DEF SaveOAuth
  <2> QED
    BY <2>2, <2>3
<1>14. ASSUME NEW c \in TokenCaller, MarkNeedsReauth(c) PROVE RefreshKept
  <2>0. callers[c].pc = "refused" /\ CallerReturns(c) /\ TokensStay
    BY <1>14 DEF MarkNeedsReauth
  <2>1. Carrying(c) /\ \A d \in TokenCaller: Carrying(d) => d = c
    BY <1>h, <2>0
  <2>2. CASE CasHolds(c) /\ creds' = [creds EXCEPT !["oauth"].status = "needs_reauth"]
    <3> DEFINE row == [creds["oauth"] EXCEPT !.status = "needs_reauth"]
    <3>1. creds["oauth"] \in CredRow
      BY <1>0, <2>2, RowThere DEF CasHolds
    <3>2. row.grant = creds["oauth"].grant /\ row.refresh = creds["oauth"].refresh
      BY <3>1 DEF CredRow
    <3>3. creds' = [creds EXCEPT !["oauth"] = row]
      BY <2>2
    <3> HIDE DEF row
    <3>4. creds'["oauth"] = row
      BY <1>0, <1>f, <3>3
    <3>5. creds["oauth"].refresh \in 0..minted
      <4>1. creds["oauth"].refresh \in Nat /\ creds["oauth"].refresh <= minted
        BY <1>0, <2>2, <3>1, RowFieldsOf DEF TokensMinted, CasHolds
      <4> QED
        BY <1>g, <4>1
    <3>6. reborn = FALSE => creds["oauth"].grant = newest /\ creds["oauth"].refresh \notin liveTokens
      <4>1. callers[c].row.refresh \notin liveTokens
        BY <1>0, <2>0 DEF RefusedIsDead
      <4> QED
        BY <1>0, <2>1, <2>2, <4>1 DEF ReadBefore, NewestKept, CasHolds
    <3>7. minted' \in minted..MaxGrant /\ liveTokens' \subseteq liveTokens \cup ((minted + 1)..minted')
            /\ UNCHANGED <<newest, reborn>>
      BY <1>g, <2>0 DEF TokensStay
    <3> QED
      BY <2>0, <2>1, <3>2, <3>4, <3>5, <3>6, <3>7, ReturnsKeep
  <2>3. CASE creds' = creds
    BY <1>r, <2>0, <2>1, <2>3
  <2> QED
    BY <1>14, <2>2, <2>3 DEF MarkNeedsReauth
<1>15. CASE CreateAPIKey \/ ReplaceAPIKey
  <2>1. TokensStay /\ CallersStay /\ creds'["oauth"] = creds["oauth"]
    BY <1>0, <1>f, <1>15 DEF CreateAPIKey, ReplaceAPIKey
  <2> QED
    BY <1>s, <2>1
<1>16. ASSUME NEW id \in CredId, DeleteCredential(id) PROVE RefreshKept
  <2>0. TokensStay /\ CallersStay /\ creds' = [creds EXCEPT ![id] = NoRow]
    BY <1>16 DEF DeleteCredential
  <2>1. CASE id = "oauth"
    <3>1. ~ Exists("oauth")'
      BY <1>0, <1>f, <2>0, <2>1 DEF Exists, NoRow
    <3>2. UNCHANGED <<callers, refreshMu, liveTokens, minted>>
      BY <2>0 DEF TokensStay, CallersStay
    <3>3. CallsOk' /\ LockHeld' /\ RefusedIsDead'
      BY <1>0, <3>2 DEF CallsOk, LockHeld, RefusedIsDead, Carrying
    <3>4. TokensMinted'
      BY <1>0, <3>1, <3>2 DEF TokensMinted, Carrying
    <3>5. ReadBefore' /\ NewestKept'
      BY <3>1 DEF ReadBefore, NewestKept
    <3> QED
      BY <3>3, <3>4, <3>5 DEF RefreshKept, RefreshInv
  <2>2. CASE id # "oauth"
    BY <1>0, <1>f, <1>s, <2>0, <2>2
  <2> QED
    BY <2>1, <2>2
<1>17. ASSUME NEW o \in CredOwner, NEW ids \in SUBSET CredId, ReplaceReferences(o, ids) PROVE RefreshKept
  BY <1>s, <1>17 DEF ReplaceReferences
<1>18. CASE UNCHANGED credVars
  BY <1>s, <1>18 DEF credVars, TokensStay, CallersStay
<1> HIDE DEF RefreshKept
<1> QED
  BY <1>1, <1>2, <1>3, <1>4, <1>5, <1>6, <1>7, <1>8, <1>9, <1>10, <1>11, <1>12, <1>13, <1>14,
     <1>15, <1>16, <1>17, <1>18 DEF CredNext

LEMMA CredInvInit == CredInit => CredInv
<1> SUFFICES ASSUME CredInit PROVE CredInv
  OBVIOUS
<1> USE DEF CredInit
<1>1. \A id \in CredId : creds[id] = NoRow /\ ~ Exists(id) /\ credAudit[id] = 0
  BY DEF Exists, NoRow
<1>2. \A c \in TokenCaller : callers[c] = NoCall /\ ~ Carrying(c)
  BY NoCallFields DEF Carrying
<1>3. RowsOk
  <2>1. 0 \in 0..MaxVersion /\ 0 \in 0..MaxGrant
    BY CredentialConstants
  <2>2. creds \in [CredId -> CredRow \cup {NoRow}]
    OBVIOUS
  <2>3. credAudit \in [CredId -> 0..MaxVersion]
    BY <2>1
  <2> QED
    BY <2>1, <2>2, <2>3 DEF RowsOk
<1>4. FlowsOk
  BY DEF FlowsOk
<1>5. CallsOk
  <2>1. callers \in [TokenCaller -> CallRecord]
    BY NoCallFields
  <2> QED
    BY <1>2, <2>1, CredentialConstants DEF CallsOk
<1>6. CredTyped
  BY <1>3, <1>4, <1>5, TypedParts
<1>7. LockHeld /\ RefusedIsDead /\ ReadBefore
  BY <1>2 DEF LockHeld, RefusedIsDead, ReadBefore, Carrying
<1>8. TokensMinted /\ NewestKept
  BY <1>1, <1>2, NoCallFields DEF TokensMinted, NewestKept, CredId
<1>9. RefsExist /\ SentOnce
  BY DEF RefsExist, SentOnce
<1>10. CredAudited
  BY <1>1 DEF CredAudited, NoRow
<1>11. KeysHeld
  BY DEF KeysHeld, Up
<1> QED
  BY <1>6, <1>7, <1>8, <1>9, <1>10, <1>11 DEF CredInv, RefreshInv

LEMMA CredInvStep == CredInv /\ [CredNext]_credVars => CredInv'
<1> SUFFICES ASSUME CredInv, [CredNext]_credVars PROVE CredInv'
  OBVIOUS
<1>0. CredTyped /\ RefreshInv /\ SentOnce
  BY DEF CredInv
<1>1. RowsOk' /\ FlowsOk' /\ SentOnce'
  BY <1>0, RowsStep, FlowsStep
<1>2. RowsHold
  BY RowsHoldStep
<1>3. RefreshKept
  BY <1>0, RefreshStep
<1>4. (CredTyped <=> RowsOk /\ FlowsOk /\ CallsOk)'
  BY TypedParts, PTL
<1> QED
  BY <1>1, <1>2, <1>3, <1>4 DEF CredInv, RowsHold, RefreshKept

LEMMA CredInvSafe == CredInv => CredSafe
<1> SUFFICES ASSUME CredInv PROVE CredSafe
  OBVIOUS
<1>0. CredTyped /\ NewestKept /\ RefsExist /\ CredAudited /\ SentOnce /\ KeysHeld
  BY DEF CredInv, RefreshInv
<1>1. CredTypeOK
  BY <1>0 DEF CredTyped
<1>2. ~ reborn => reborn = FALSE
  BY <1>0 DEF CredTyped
<1>3. NewestGrantKept
  BY <1>0, <1>2 DEF NewestKept, NewestGrantKept
<1>4. \A r \in credRefs : Exists(r[2])
  <2>1. credRefs \subseteq CredOwner \X CredId
    BY <1>1 DEF CredTypeOK
  <2> QED
    BY <1>0, <2>1 DEF RefsExist
<1>5. Up => /\ \A id \in CredId: Exists(id) => creds[id].key \in keyring
            /\ \A f \in Flow: flows[f].status = "pending" => flows[f].key \in keyring
  BY <1>0, SealedIs DEF KeysHeld
<1> QED
  BY <1>0, <1>1, <1>3, <1>4, <1>5 DEF CredSafe, CredentialsCoherent, CredAudited, SentOnce

(* A refresh under way never puts an older grant back over a newer one nor   *)
(* marks the newer one refused, whatever refreshes, reauthorisations,        *)
(* imports, deletions and crashes do meanwhile (refreshOAuth, saveOAuth and  *)
(* markNeedsReauth of credentials/oauth.go); a referenced credential exists, *)
(* the audit log ends with its version, a state goes to the provider once,   *)
(* and a running process can open every envelope (store.go, admin.go).       *)
THEOREM CredentialsStayCoherent == CredSpec => []CredSafe
<1>1. CredInit => CredInv
  BY CredInvInit
<1>2. CredInv /\ [CredNext]_credVars => CredInv'
  BY CredInvStep
<1>3. CredInv => CredSafe
  BY CredInvSafe
<1> QED
  BY <1>1, <1>2, <1>3, PTL DEF CredSpec

-----------------------------------------------------------------------------
(* The plugin host. *)

SlotRecord ==
    [init: BOOLEAN, runtime: Runtime, mux: BOOLEAN, defs: BOOLEAN,
     subs: {"none", "discard", "handler"}, gen: Nat, cancelled: SUBSET Nat,
     cfg: CfgValue, loaded: CfgValue]

HostTyped ==
    /\ wanted \in [HostPlugin -> BOOLEAN]
    /\ cfgRow \in [HostPlugin -> CfgValue]
    /\ slot \in [HostPlugin -> SlotRecord]
    /\ held \in [HostPlugin -> {"free", "init", "attach"}]
    /\ due \in [HostPlugin -> Nat]
    /\ notices \in [HostPlugin -> SUBSET CfgValue]
    /\ request \in [HttpRequest -> [plugin: HostPlugin, gen: Nat]]

(* Routes are there only for a generation that is initialised; a              *)
(* reconciliation that holds the lock starts a plugin that is not, and does   *)
(* so for what the administrator wants unless another one is due.             *)
LockMeans(p) ==
    /\ slot[p].mux => slot[p].init
    /\ held[p] # "free" => ~ slot[p].init
    /\ held[p] # "free" /\ due[p] = 0 => wanted[p]

(* What is reported when nobody waits for the lock. *)
Reports(p) ==
    AtRest(p) => \/ slot[p].runtime = "degraded"
                 \/ wanted[p] /\ slot[p].runtime = "enabled"
                 \/ ~ wanted[p] /\ slot[p].runtime = "disabled"

(* What a plugin that reports disabled has left. *)
Quiet(p) ==
    slot[p].runtime = "disabled" /\ held[p] = "free" =>
        ~ slot[p].init /\ ~ slot[p].mux /\ ~ slot[p].defs /\ slot[p].subs = "discard"

(* A request whose context is alive belongs to the generation that runs. *)
Alive(r) == request[r].gen > 0 /\ request[r].gen \notin slot[request[r].plugin].cancelled
Belongs(r) ==
    Alive(r) => /\ slot[request[r].plugin].init
                /\ request[r].gen = slot[request[r].plugin].gen

PluginOk(p) == LockMeans(p) /\ Reports(p) /\ Quiet(p)

HostInv ==
    /\ HostTyped
    /\ \A p \in HostPlugin: PluginOk(p)
    /\ \A r \in HttpRequest: Belongs(r)

(* The invariant is what HostSafe says, and more. *)
LEMMA HostInvSafe == HostInv => HostSafe
<1> SUFFICES ASSUME HostInv PROVE HostSafe
  OBVIOUS
<1>0. HostTyped /\ (\A p \in HostPlugin: LockMeans(p) /\ Reports(p) /\ Quiet(p))
        /\ \A r \in HttpRequest: Belongs(r) /\ request[r] \in [plugin: HostPlugin, gen: Nat]
  BY DEF HostInv, PluginOk, HostTyped
<1>1. \A p \in HostPlugin : slot[p] \in SlotRecord /\ wanted[p] \in BOOLEAN
  BY <1>0 DEF HostTyped
<1>2. HostTypeOK
  BY <1>0, <1>1 DEF HostTyped, HostTypeOK, SlotRecord
<1>3. Settled
  BY <1>0 DEF Reports, Settled
<1>4. DisabledIsQuiet
  <2> SUFFICES ASSUME NEW p \in HostPlugin, slot[p].runtime = "disabled", held[p] = "free"
               PROVE  /\ ~ slot[p].init /\ ~ slot[p].mux /\ ~ slot[p].defs
                      /\ slot[p].subs = "discard"
                      /\ \A r \in HttpRequest: request[r].plugin = p /\ request[r].gen > 0 =>
                           request[r].gen \in slot[p].cancelled
    BY DEF DisabledIsQuiet
  <2>1. ~ slot[p].init /\ ~ slot[p].mux /\ ~ slot[p].defs /\ slot[p].subs = "discard"
    BY <1>0 DEF Quiet
  <2> QED
    BY <1>0, <2>1 DEF Belongs, Alive
<1>5. RequestsBelong
  BY <1>0 DEF RequestsBelong, Belongs, Alive
<1> QED
  BY <1>2, <1>3, <1>4, <1>5 DEF HostSafe

LEMMA HostInvInit == HostInit => HostInv
<1> SUFFICES ASSUME HostInit PROVE HostInv
  OBVIOUS
<1> USE DEF HostInit
<1>1. \A p \in HostPlugin : Blank(p) \in SlotRecord
  BY DEF Blank, SlotRecord, Runtime
<1>2. HostTyped
  <2>1. slot \in [HostPlugin -> SlotRecord]
    BY <1>1
  <2>2. request \in [HttpRequest -> [plugin: HostPlugin, gen: Nat]]
    <3>1. {[plugin |-> p, gen |-> 0]: p \in HostPlugin} \subseteq [plugin: HostPlugin, gen: Nat]
      OBVIOUS
    <3> QED
      BY <3>1
  <2> QED
    BY <2>1, <2>2 DEF HostTyped
<1>3. \A p \in HostPlugin : PluginOk(p)
  BY DEF PluginOk, LockMeans, Reports, Quiet, AtRest, Blank
<1>4. \A r \in HttpRequest : Belongs(r)
  BY DEF Belongs, Alive
<1> QED
  BY <1>2, <1>3, <1>4 DEF HostInv

LEMMA SlotFields ==
    ASSUME NEW s \in SlotRecord
    PROVE  /\ s.init \in BOOLEAN /\ s.mux \in BOOLEAN /\ s.defs \in BOOLEAN
           /\ s.gen \in Nat /\ s.cancelled \subseteq Nat /\ s.runtime \in Runtime
BY DEF SlotRecord

LEMMA DegradedFields ==
    ASSUME NEW s \in SlotRecord
    PROVE  /\ Degraded(s) \in SlotRecord
           /\ Degraded(s).runtime = "degraded" /\ Degraded(s).init = s.init
           /\ Degraded(s).mux = s.mux /\ Degraded(s).gen = s.gen
           /\ Degraded(s).cancelled = s.cancelled
BY DEF SlotRecord, Degraded, Runtime

LEMMA TornDownFields ==
    ASSUME NEW s \in SlotRecord, NEW subs \in {"none", "discard"}
    PROVE  /\ TornDown(s, subs) \in SlotRecord
           /\ TornDown(s, subs).init = FALSE /\ TornDown(s, subs).mux = FALSE
           /\ TornDown(s, subs).defs = FALSE /\ TornDown(s, subs).subs = subs
           /\ TornDown(s, subs).runtime = s.runtime /\ TornDown(s, subs).gen = s.gen
           /\ TornDown(s, subs).cancelled = s.cancelled \cup {s.gen}
BY DEF SlotRecord, TornDown

(* No generation comes back to life, and a generation that ends is           *)
(* cancelled.                                                                *)
GenerationsEnd(old, new) ==
    /\ old.cancelled \subseteq new.cancelled
    /\ old.init => old.gen \in new.cancelled \/ (new.init /\ new.gen = old.gen)

(* A step of one plugin. *)
LEMMA OnePlugin ==
    ASSUME HostInv, NEW p \in HostPlugin, NEW s \in SlotRecord,
           slot' = [slot EXCEPT ![p] = s], GenerationsEnd(slot[p], s),
           wanted' \in [HostPlugin -> BOOLEAN], cfgRow' \in [HostPlugin -> CfgValue],
           held' \in [HostPlugin -> {"free", "init", "attach"}], due' \in [HostPlugin -> Nat],
           notices' \in [HostPlugin -> SUBSET CfgValue], request' = request,
           \A q \in HostPlugin \ {p} : wanted'[q] = wanted[q] /\ held'[q] = held[q] /\ due'[q] = due[q],
           PluginOk(p)'
    PROVE  HostInv'
<1>0. HostTyped /\ (\A q \in HostPlugin: LockMeans(q) /\ Reports(q) /\ Quiet(q))
        /\ \A r \in HttpRequest: Belongs(r) /\ request[r] \in [plugin: HostPlugin, gen: Nat]
  BY DEF HostInv, PluginOk, HostTyped
<1>1. slot' \in [HostPlugin -> SlotRecord] /\ slot'[p] = s
        /\ \A q \in HostPlugin \ {p} : slot'[q] = slot[q]
  BY <1>0 DEF HostTyped
<1>2. HostTyped'
  BY <1>0, <1>1 DEF HostTyped
<1>3. ASSUME NEW q \in HostPlugin \ {p} PROVE PluginOk(q)'
  BY <1>0, <1>1 DEF PluginOk, LockMeans, Reports, Quiet, AtRest
<1>4. ASSUME NEW r \in HttpRequest PROVE Belongs(r)'
  <2>1. CASE request[r].plugin = p
    BY <1>0, <1>1, <2>1 DEF Belongs, Alive, GenerationsEnd
  <2>2. CASE request[r].plugin # p
    BY <1>0, <1>1, <2>2 DEF Belongs, Alive
  <2> QED
    BY <2>1, <2>2
<1> QED
  BY <1>2, <1>3, <1>4 DEF HostInv

(* A reconciliation that ends with the lock free: the plugin is degraded, or *)
(* in the state that is wanted.                                              *)
LEMMA ReconcileEnds ==
    ASSUME HostInv, NEW p \in HostPlugin, Starts(p), NEW s \in SlotRecord,
           Slot(p, s), UNCHANGED held, GenerationsEnd(slot[p], s),
           s.mux => s.init,
           \/ s.runtime = "degraded"
           \/ wanted[p] /\ s.runtime = "enabled"
           \/ ~ wanted[p] /\ s.runtime = "disabled",
           s.runtime = "disabled" => ~ s.init /\ ~ s.mux /\ ~ s.defs /\ s.subs = "discard"
    PROVE  HostInv'
<1>0. HostTyped
  BY DEF HostInv
<1>1. slot' = [slot EXCEPT ![p] = s] /\ slot'[p] = s /\ held[p] = "free"
        /\ UNCHANGED <<wanted, cfgRow, notices, request, held>>
        /\ due' = [due EXCEPT ![p] = @ - 1] /\ due[p] \in Nat /\ due[p] > 0
  BY <1>0 DEF Starts, Slot, HostTyped
<1>2. due[p] - 1 \in Nat
  BY <1>1
<1>3. due' \in [HostPlugin -> Nat] /\ \A q \in HostPlugin \ {p} : due'[q] = due[q]
  BY <1>0, <1>1, <1>2 DEF HostTyped
<1>4. PluginOk(p)'
  BY <1>1 DEF PluginOk, LockMeans, Reports, Quiet, AtRest
<1> QED
  BY <1>0, <1>1, <1>3, <1>4, OnePlugin, ZenonT(40) DEF HostTyped

LEMMA HostInvStep == HostInv /\ [HostNext]_hostVars => HostInv'
<1> SUFFICES ASSUME HostInv, [HostNext]_hostVars PROVE HostInv'
  OBVIOUS
<1>0. HostTyped /\ (\A q \in HostPlugin: LockMeans(q) /\ Reports(q) /\ Quiet(q) /\ PluginOk(q))
        /\ \A r \in HttpRequest: Belongs(r) /\ request[r] \in [plugin: HostPlugin, gen: Nat]
  BY DEF HostInv, PluginOk, HostTyped
<1>t. /\ wanted \in [HostPlugin -> BOOLEAN] /\ cfgRow \in [HostPlugin -> CfgValue]
      /\ slot \in [HostPlugin -> SlotRecord] /\ due \in [HostPlugin -> Nat]
      /\ held \in [HostPlugin -> {"free", "init", "attach"}]
      /\ notices \in [HostPlugin -> SUBSET CfgValue]
  BY <1>0 DEF HostTyped
<1>s. ASSUME NEW p \in HostPlugin
      PROVE  /\ slot[p] \in SlotRecord /\ slot[p].init \in BOOLEAN /\ slot[p].mux \in BOOLEAN
             /\ slot[p].gen \in Nat /\ slot[p].runtime \in Runtime /\ due[p] \in Nat
             /\ slot = [slot EXCEPT ![p] = slot[p]] /\ GenerationsEnd(slot[p], slot[p])
             /\ GenerationsEnd(slot[p], Degraded(slot[p]))
             /\ \A subs \in {"none", "discard"} : GenerationsEnd(slot[p], TornDown(slot[p], subs))
  <2>1. slot[p] \in SlotRecord /\ due[p] \in Nat /\ slot = [slot EXCEPT ![p] = slot[p]]
    BY <1>t
  <2>2. GenerationsEnd(slot[p], slot[p])
    BY DEF GenerationsEnd
  <2>3. GenerationsEnd(slot[p], Degraded(slot[p]))
    BY <2>1, DegradedFields DEF GenerationsEnd
  <2>4. \A subs \in {"none", "discard"} : GenerationsEnd(slot[p], TornDown(slot[p], subs))
    BY <2>1, TornDownFields DEF GenerationsEnd
  <2> QED
    BY <2>1, <2>2, <2>3, <2>4, SlotFields
<1>1. ASSUME NEW p \in HostPlugin, Bootstrap(p) PROVE HostInv'
  <2>1. CASE due' = [due EXCEPT ![p] = @ + 1] /\ UNCHANGED slot
    <3>1. due' \in [HostPlugin -> Nat] /\ due'[p] > 0 /\ \A q \in HostPlugin \ {p} : due'[q] = due[q]
      BY <1>s, <1>t, <2>1
    <3>2. PluginOk(p)'
      BY <1>0, <1>1, <2>1, <3>1 DEF Bootstrap, PluginOk, LockMeans, Reports, Quiet, AtRest
    <3> QED
      BY <1>t, <1>s, <1>1, <2>1, <3>1, <3>2, OnePlugin DEF Bootstrap
  <2>2. CASE Slot(p, Degraded(slot[p])) /\ UNCHANGED due
    <3>1. slot' = [slot EXCEPT ![p] = Degraded(slot[p])] /\ slot'[p] = Degraded(slot[p])
      BY <1>t, <2>2 DEF Slot
    <3>2. PluginOk(p)'
      BY <1>0, <1>s, <1>1, <2>2, <3>1, DegradedFields
         DEF Bootstrap, PluginOk, LockMeans, Reports, Quiet, AtRest
    <3> QED
      BY <1>t, <1>s, <1>1, <2>2, <3>1, <3>2, DegradedFields, OnePlugin DEF Bootstrap
  <2> QED
    BY <1>1, <2>1, <2>2 DEF Bootstrap
<1>2. ASSUME NEW p \in HostPlugin, SetWanted(p) PROVE HostInv'
  <2>1. due' \in [HostPlugin -> Nat] /\ due'[p] > 0 /\ \A q \in HostPlugin \ {p} : due'[q] = due[q]
    BY <1>s, <1>t, <1>2 DEF SetWanted
  <2>2. wanted' \in [HostPlugin -> BOOLEAN] /\ \A q \in HostPlugin \ {p} : wanted'[q] = wanted[q]
    BY <1>t, <1>2 DEF SetWanted
  <2>3. PluginOk(p)'
    BY <1>0, <1>2, <2>1 DEF SetWanted, PluginOk, LockMeans, Reports, Quiet, AtRest
  <2> QED
    BY <1>t, <1>s, <1>2, <2>1, <2>2, <2>3, OnePlugin DEF SetWanted
<1>3. ASSUME NEW p \in HostPlugin, ReconcileUnknown(p) PROVE HostInv'
  BY <1>0, <1>s, <1>3, DegradedFields, ReconcileEnds DEF ReconcileUnknown, LockMeans
<1>4. ASSUME NEW p \in HostPlugin, ReconcileOff(p) PROVE HostInv'
  <2>1. CASE Slot(p, [TornDown(slot[p], "discard") EXCEPT !.runtime = "disabled"])
    <3> DEFINE s == [TornDown(slot[p], "discard") EXCEPT !.runtime = "disabled"]
    <3>1. /\ TornDown(slot[p], "discard") \in SlotRecord
          /\ TornDown(slot[p], "discard").init = FALSE /\ TornDown(slot[p], "discard").mux = FALSE
          /\ TornDown(slot[p], "discard").defs = FALSE
          /\ TornDown(slot[p], "discard").subs = "discard"
          /\ TornDown(slot[p], "discard").cancelled = slot[p].cancelled \cup {slot[p].gen}
      BY <1>s, TornDownFields
    <3>2. /\ s \in SlotRecord /\ s.runtime = "disabled" /\ s.init = FALSE /\ s.mux = FALSE
          /\ s.defs = FALSE /\ s.subs = "discard"
          /\ s.cancelled = slot[p].cancelled \cup {slot[p].gen}
      BY <3>1 DEF SlotRecord, Runtime
    <3> HIDE DEF s
    <3>3. GenerationsEnd(slot[p], s)
      BY <3>2 DEF GenerationsEnd
    <3>4. Starts(p) /\ UNCHANGED held /\ ~ wanted[p] /\ Slot(p, s)
      BY <1>4, <2>1 DEF ReconcileOff, Desired, s
    <3> QED
      BY <3>2, <3>3, <3>4, ReconcileEnds
  <2>2. ASSUME NEW subs \in {"none", "discard"}, Slot(p, Degraded(TornDown(slot[p], subs)))
        PROVE  HostInv'
    <3> DEFINE t == TornDown(slot[p], subs)
    <3>1. t \in SlotRecord /\ t.mux = FALSE /\ GenerationsEnd(slot[p], t)
      BY <1>s, TornDownFields
    <3> HIDE DEF t
    <3>2. Degraded(t) \in SlotRecord /\ Degraded(t).mux = FALSE /\ Degraded(t).runtime = "degraded"
            /\ GenerationsEnd(slot[p], Degraded(t))
      BY <3>1, DegradedFields DEF GenerationsEnd
    <3>3. Starts(p) /\ UNCHANGED held /\ Slot(p, Degraded(t))
      BY <1>4, <2>2 DEF ReconcileOff, t
    <3> QED
      BY <3>2, <3>3, ReconcileEnds
  <2> QED
    BY <1>4, <2>1, <2>2 DEF ReconcileOff
<1>5. ASSUME NEW p \in HostPlugin, ReconcileInvalid(p) PROVE HostInv'
  <2>1. PICK subs \in {"none", "discard"} : Slot(p, Degraded(TornDown(slot[p], subs)))
    BY <1>5 DEF ReconcileInvalid
  <2> DEFINE t == TornDown(slot[p], subs)
  <2>2. t \in SlotRecord /\ t.mux = FALSE /\ GenerationsEnd(slot[p], t)
    BY <1>s, TornDownFields
  <2>3. Starts(p) /\ UNCHANGED held /\ Slot(p, Degraded(t))
    BY <1>5, <2>1 DEF ReconcileInvalid
  <2> HIDE DEF t
  <2>4. Degraded(t) \in SlotRecord /\ Degraded(t).mux = FALSE /\ Degraded(t).runtime = "degraded"
          /\ GenerationsEnd(slot[p], Degraded(t))
    BY <2>2, DegradedFields DEF GenerationsEnd
  <2> QED
    BY <2>3, <2>4, ReconcileEnds
<1>6. ASSUME NEW p \in HostPlugin, ReconcileOn(p) PROVE HostInv'
  <2> DEFINE s == [slot[p] EXCEPT !.runtime = "enabled"]
  <2>1. slot[p] \in SlotRecord /\ (slot[p].mux => slot[p].init)
    BY <1>0, <1>s DEF LockMeans
  <2>2. s \in SlotRecord /\ s.runtime = "enabled" /\ s.mux = slot[p].mux /\ s.init = slot[p].init
          /\ s.gen = slot[p].gen /\ s.cancelled = slot[p].cancelled
    BY <2>1 DEF SlotRecord, Runtime
  <2>3. Starts(p) /\ UNCHANGED held /\ Slot(p, s) /\ wanted[p]
    BY <1>6 DEF ReconcileOn, Desired
  <2> HIDE DEF s
  <2>4. GenerationsEnd(slot[p], s)
    BY <2>2 DEF GenerationsEnd
  <2> QED
    BY <2>1, <2>2, <2>3, <2>4, ReconcileEnds
<1>7. ASSUME NEW p \in HostPlugin, ReconcileMounts(p) PROVE HostInv'
  <2>0. Starts(p) /\ wanted[p] /\ ~ slot[p].init
    BY <1>7 DEF ReconcileMounts, Desired
  <2>1. CASE Slot(p, [slot[p] EXCEPT !.defs = TRUE, !.loaded = cfgRow[p]]) /\ held' = [held EXCEPT ![p] = "init"]
    <3> DEFINE s == [slot[p] EXCEPT !.defs = TRUE, !.loaded = cfgRow[p]]
    <3>1. slot[p] \in SlotRecord /\ cfgRow[p] \in CfgValue
      BY <1>s, <1>t
    <3>2. s \in SlotRecord /\ s.mux = slot[p].mux /\ s.init = slot[p].init
            /\ s.gen = slot[p].gen /\ s.cancelled = slot[p].cancelled
      BY <3>1 DEF SlotRecord
    <3>3. slot' = [slot EXCEPT ![p] = s]
      BY <2>1 DEF Slot
    <3> HIDE DEF s
    <3>4. slot'[p] = s /\ held'[p] = "init" /\ held' \in [HostPlugin -> {"free", "init", "attach"}]
            /\ \A q \in HostPlugin \ {p} : held'[q] = held[q]
      BY <1>t, <2>1, <3>3
    <3>5. due' \in [HostPlugin -> Nat] /\ \A q \in HostPlugin \ {p} : due'[q] = due[q]
      <4>1. due[p] - 1 \in Nat /\ due' = [due EXCEPT ![p] = @ - 1]
        BY <1>s, <2>0 DEF Starts
      <4> QED
        BY <1>t, <4>1
    <3>6. UNCHANGED <<wanted, cfgRow, notices, request>>
      BY <2>0 DEF Starts
    <3>7. GenerationsEnd(slot[p], s)
      BY <3>2 DEF GenerationsEnd
    <3>8. PluginOk(p)'
      BY <1>0, <2>0, <3>2, <3>4, <3>6 DEF PluginOk, LockMeans, Reports, Quiet, AtRest
    <3> QED
      BY <1>t, <3>2, <3>3, <3>4, <3>5, <3>6, <3>7, <3>8, OnePlugin
  <2>2. ASSUME NEW mounted \in BOOLEAN, Slot(p, Degraded([slot[p] EXCEPT !.defs = mounted])), UNCHANGED held
        PROVE  HostInv'
    <3> DEFINE t == [slot[p] EXCEPT !.defs = mounted]
    <3>1. slot[p] \in SlotRecord /\ (slot[p].mux => slot[p].init)
      BY <1>0, <1>s DEF LockMeans
    <3>2. t \in SlotRecord /\ t.mux = slot[p].mux /\ t.init = slot[p].init
            /\ t.gen = slot[p].gen /\ t.cancelled = slot[p].cancelled
      BY <3>1 DEF SlotRecord
    <3> HIDE DEF t
    <3>3. Degraded(t) \in SlotRecord /\ (Degraded(t).mux => Degraded(t).init)
            /\ Degraded(t).runtime = "degraded" /\ GenerationsEnd(slot[p], Degraded(t))
      BY <3>1, <3>2, DegradedFields DEF GenerationsEnd
    <3>4. Slot(p, Degraded(t))
      BY <2>2 DEF t
    <3> QED
      BY <2>0, <2>2, <3>3, <3>4, ReconcileEnds
  <2>3. \A mounted \in {slot[p].defs, TRUE} : mounted \in BOOLEAN
    BY <1>s, SlotFields
  <2> QED
    BY <1>7, <2>1, <2>2, <2>3 DEF ReconcileMounts
<1>k. ASSUME NEW p \in HostPlugin, NEW s \in SlotRecord, NEW h \in {"free", "init", "attach"},
             held[p] # "free", slot' = [slot EXCEPT ![p] = s], held' = [held EXCEPT ![p] = h],
             UNCHANGED <<wanted, cfgRow, due, notices, request>>,
             GenerationsEnd(slot[p], s), s.mux => s.init, h # "free" => ~ s.init,
             h = "free" => s.runtime \in {"enabled", "degraded"}
      PROVE  HostInv'
  <2>1. slot'[p] = s /\ held'[p] = h /\ held' \in [HostPlugin -> {"free", "init", "attach"}]
          /\ \A q \in HostPlugin \ {p} : held'[q] = held[q]
    BY <1>t, <1>k
  <2>2. PluginOk(p)'
    BY <1>0, <1>k, <2>1 DEF PluginOk, LockMeans, Reports, Quiet, AtRest
  <2> QED
    BY <1>t, <1>k, <2>1, <2>2, OnePlugin
<1>8. ASSUME NEW p \in HostPlugin, InitReturns(p) PROVE HostInv'
  <2>1. held[p] # "free" /\ UNCHANGED <<wanted, cfgRow, due, notices, request>>
          /\ (slot[p].mux => slot[p].init) /\ ~ slot[p].init
    BY <1>0, <1>8 DEF InitReturns, LockMeans
  <2>2. CASE held' = [held EXCEPT ![p] = "attach"] /\ UNCHANGED slot
    BY <1>k, <1>s, <2>1, <2>2
  <2>3. CASE held' = [held EXCEPT ![p] = "free"] /\ Slot(p, Degraded(slot[p]))
    BY <1>k, <1>s, <2>1, <2>3, DegradedFields DEF Slot
  <2> QED
    BY <1>8, <2>2, <2>3 DEF InitReturns
<1>9. ASSUME NEW p \in HostPlugin, AttachReturns(p) PROVE HostInv'
  <2>1. held[p] # "free" /\ UNCHANGED <<wanted, cfgRow, due, notices, request>>
          /\ (slot[p].mux => slot[p].init) /\ ~ slot[p].init /\ held' = [held EXCEPT ![p] = "free"]
          /\ slot[p] \in SlotRecord
    BY <1>0, <1>s, <1>9 DEF AttachReturns, LockMeans
  <2>2. CASE Slot(p, [slot[p] EXCEPT !.init = TRUE, !.mux = TRUE, !.subs = "handler",
                       !.gen = @ + 1, !.cfg = slot[p].loaded, !.runtime = "enabled"])
    <3> DEFINE s == [slot[p] EXCEPT !.init = TRUE, !.mux = TRUE, !.subs = "handler",
                       !.gen = @ + 1, !.cfg = slot[p].loaded, !.runtime = "enabled"]
    <3>a. slot[p].gen + 1 \in Nat
      BY <1>s
    <3>1. s \in SlotRecord /\ s.init = TRUE /\ s.runtime = "enabled" /\ s.cancelled = slot[p].cancelled
      BY <2>1, <3>a DEF SlotRecord, Runtime
    <3>2. slot' = [slot EXCEPT ![p] = s]
      BY <2>2 DEF Slot
    <3> HIDE DEF s
    <3>3. GenerationsEnd(slot[p], s)
      BY <2>1, <3>1 DEF GenerationsEnd
    <3> QED
      BY <1>k, <2>1, <3>1, <3>2, <3>3
  <2>3. ASSUME NEW subs \in {"none", "handler"}, Slot(p, Degraded([slot[p] EXCEPT !.subs = subs]))
        PROVE  HostInv'
    <3> DEFINE t == [slot[p] EXCEPT !.subs = subs]
    <3>1. t \in SlotRecord /\ t.mux = slot[p].mux /\ t.init = slot[p].init
            /\ t.gen = slot[p].gen /\ t.cancelled = slot[p].cancelled
      BY <2>1 DEF SlotRecord
    <3>2. slot' = [slot EXCEPT ![p] = Degraded(t)]
      BY <2>3 DEF Slot
    <3> HIDE DEF t
    <3>3. Degraded(t) \in SlotRecord /\ (Degraded(t).mux => Degraded(t).init)
            /\ Degraded(t).runtime = "degraded" /\ GenerationsEnd(slot[p], Degraded(t))
      BY <2>1, <3>1, DegradedFields DEF GenerationsEnd
    <3> QED
      BY <1>k, <2>1, <3>2, <3>3
  <2> QED
    BY <1>9, <2>2, <2>3 DEF AttachReturns
<1>u. ASSUME UNCHANGED <<wanted, cfgRow, slot, held, due, notices, request>> PROVE HostInv'
  BY <1>0, <1>u DEF HostInv, HostTyped, PluginOk, LockMeans, Reports, Quiet, AtRest, Belongs, Alive
<1>10. ASSUME NEW p \in HostPlugin, HandlerEntered(p) PROVE HostInv'
  BY <1>u, <1>10 DEF HandlerEntered
<1>q. ASSUME UNCHANGED <<wanted, cfgRow, slot, held, due, notices>>,
             request' \in [HttpRequest -> [plugin: HostPlugin, gen: Nat]],
             \A r \in HttpRequest : Belongs(r)'
      PROVE  HostInv'
  BY <1>0, <1>q DEF HostInv, HostTyped, PluginOk, LockMeans, Reports, Quiet, AtRest
<1>11. ASSUME NEW p \in HostPlugin, NEW r \in HttpRequest, RequestArrives(r, p) PROVE HostInv'
  <2>1. slot[p].init /\ slot[p].gen \in Nat
    BY <1>0, <1>s, <1>11 DEF RequestArrives, Serves, LockMeans
  <2>2. request' = [request EXCEPT ![r] = [plugin |-> p, gen |-> slot[p].gen]] /\ slot' = slot
    BY <1>11 DEF RequestArrives
  <2>3. request' \in [HttpRequest -> [plugin: HostPlugin, gen: Nat]]
    BY <1>0, <2>1, <2>2 DEF HostTyped
  <2>4. \A x \in HttpRequest : Belongs(x)'
    BY <1>0, <2>1, <2>2 DEF HostTyped, Belongs, Alive
  <2> QED
    BY <1>q, <1>11, <2>3, <2>4 DEF RequestArrives
<1>12. ASSUME NEW r \in HttpRequest, RequestEnds(r) PROVE HostInv'
  <2>1. request' = [request EXCEPT ![r] = [request[r] EXCEPT !.gen = 0]] /\ slot' = slot
    BY <1>12 DEF RequestEnds
  <2>2. [request[r] EXCEPT !.gen = 0] \in [plugin: HostPlugin, gen: Nat]
          /\ [request[r] EXCEPT !.gen = 0].gen = 0
    BY <1>0
  <2>3. request' \in [HttpRequest -> [plugin: HostPlugin, gen: Nat]]
    BY <1>0, <2>1, <2>2 DEF HostTyped
  <2>4. \A x \in HttpRequest : Belongs(x)'
    BY <1>0, <2>1, <2>2 DEF HostTyped, Belongs, Alive
  <2> QED
    BY <1>q, <1>12, <2>3, <2>4 DEF RequestEnds
<1>13. ASSUME NEW p \in HostPlugin, NEW v \in CfgValue, UpdateConfig(p, v) PROVE HostInv'
  <2>1. cfgRow' \in [HostPlugin -> CfgValue] /\ notices' \in [HostPlugin -> SUBSET CfgValue]
          /\ UNCHANGED <<wanted, slot, held, due, request>>
    BY <1>t, <1>13 DEF UpdateConfig
  <2>2. PluginOk(p)'
    BY <1>0, <2>1 DEF PluginOk, LockMeans, Reports, Quiet, AtRest
  <2> QED
    BY <1>t, <1>s, <2>1, <2>2, OnePlugin
<1>14. ASSUME NEW p \in HostPlugin, NEW v \in CfgValue, NotifyConfig(p, v) PROVE HostInv'
  <2> DEFINE s == IF slot[p].init THEN [slot[p] EXCEPT !.cfg = v] ELSE slot[p]
  <2>1. notices' \in [HostPlugin -> SUBSET CfgValue] /\ UNCHANGED <<wanted, cfgRow, held, due, request>>
    BY <1>t, <1>14 DEF NotifyConfig
  <2>2. slot[p] \in SlotRecord
    BY <1>s
  <2>3. s \in SlotRecord /\ s.mux = slot[p].mux /\ s.init = slot[p].init /\ s.runtime = slot[p].runtime
          /\ s.defs = slot[p].defs /\ s.subs = slot[p].subs
          /\ s.gen = slot[p].gen /\ s.cancelled = slot[p].cancelled
    BY <2>2 DEF SlotRecord
  <2>4. slot' = [slot EXCEPT ![p] = s]
    BY <1>14 DEF NotifyConfig, Slot
  <2> HIDE DEF s
  <2>5. slot'[p] = s
    BY <1>t, <2>4
  <2>6. GenerationsEnd(slot[p], s)
    BY <2>3 DEF GenerationsEnd
  <2>7. PluginOk(p)'
    BY <1>0, <2>1, <2>3, <2>5 DEF PluginOk, LockMeans, Reports, Quiet, AtRest
  <2> QED
    BY <1>t, <2>1, <2>3, <2>4, <2>6, <2>7, OnePlugin
<1>15. ASSUME NEW p \in HostPlugin, StopHost(p) PROVE HostInv'
  <2>0. held[p] = "free" /\ slot[p].init /\ UNCHANGED <<wanted, cfgRow, held, due, notices, request>>
    BY <1>15 DEF StopHost
  <2>1. ASSUME NEW subs \in {"none", "discard"}, NEW s \in SlotRecord,
               s = TornDown(slot[p], subs) \/ s = Degraded(TornDown(slot[p], subs)),
               Slot(p, s)
        PROVE  HostInv'
    <3> DEFINE t == TornDown(slot[p], subs)
    <3>1. /\ t \in SlotRecord /\ t.init = FALSE /\ t.mux = FALSE /\ t.gen = slot[p].gen
          /\ t.cancelled = slot[p].cancelled \cup {slot[p].gen}
          /\ t.runtime = slot[p].runtime
      BY <1>s, TornDownFields
    <3>a. s = t \/ s = Degraded(t)
      BY <2>1
    <3> HIDE DEF t
    <3>2. /\ s.init = FALSE /\ s.mux = FALSE /\ s.gen = slot[p].gen
          /\ s.cancelled = slot[p].cancelled \cup {slot[p].gen}
          /\ s.runtime = slot[p].runtime \/ s.runtime = "degraded"
      BY <3>1, <3>a, DegradedFields
    <3>3. slot' = [slot EXCEPT ![p] = s] /\ slot'[p] = s /\ GenerationsEnd(slot[p], s)
      BY <1>t, <2>1, <3>2 DEF Slot, GenerationsEnd
    <3>4. slot[p].runtime # "disabled"
      BY <1>0, <2>0 DEF Quiet
    <3>5. PluginOk(p)'
      BY <1>0, <2>0, <3>2, <3>3, <3>4 DEF PluginOk, LockMeans, Reports, Quiet, AtRest
    <3> QED
      BY <1>t, <2>0, <3>3, <3>5, OnePlugin
  <2>2. \A subs \in {"none", "discard"} :
           TornDown(slot[p], subs) \in SlotRecord /\ Degraded(TornDown(slot[p], subs)) \in SlotRecord
    BY <1>s, TornDownFields, DegradedFields
  <2> QED
    BY <1>15, <2>1, <2>2 DEF StopHost
<1>16. ASSUME NEW p \in HostPlugin, HostCrash(p) PROVE HostInv'
  <2> DEFINE s == [Blank(p) EXCEPT !.gen = slot[p].gen, !.cancelled = 0..slot[p].gen]
  <2>1. /\ s \in SlotRecord /\ s.init = FALSE /\ s.mux = FALSE /\ s.runtime = "boot"
    <3>1. cfgRow[p] \in CfgValue /\ slot[p].gen \in Nat /\ 0..slot[p].gen \subseteq Nat
      BY <1>s, <1>t
    <3> QED
      BY <3>1 DEF SlotRecord, Blank, Runtime
  <2>2. slot' = [slot EXCEPT ![p] = s] /\ UNCHANGED <<wanted, cfgRow>>
          /\ held' = [held EXCEPT ![p] = "free"] /\ due' = [due EXCEPT ![p] = 0]
          /\ notices' = [notices EXCEPT ![p] = {}]
    BY <1>16 DEF HostCrash, Slot
  <2> HIDE DEF s
  <2>3. /\ slot' \in [HostPlugin -> SlotRecord] /\ slot'[p] = s
        /\ \A q \in HostPlugin \ {p} : slot'[q] = slot[q] /\ held'[q] = held[q] /\ due'[q] = due[q]
        /\ held' \in [HostPlugin -> {"free", "init", "attach"}] /\ due' \in [HostPlugin -> Nat]
        /\ notices' \in [HostPlugin -> SUBSET CfgValue] /\ held'[p] = "free"
    BY <1>t, <2>1, <2>2
  <2>4. \A r \in HttpRequest :
           request'[r] = IF request[r].plugin = p THEN [request[r] EXCEPT !.gen = 0] ELSE request[r]
    BY <1>16 DEF HostCrash
  <2>5. ASSUME NEW r \in HttpRequest
        PROVE  /\ request'[r] \in [plugin: HostPlugin, gen: Nat]
               /\ \/ request'[r] = request[r] /\ request[r].plugin # p
                  \/ request'[r].gen = 0
    <3>1. request[r] \in [plugin: HostPlugin, gen: Nat]
      BY <1>0
    <3>2. [request[r] EXCEPT !.gen = 0] \in [plugin: HostPlugin, gen: Nat]
            /\ [request[r] EXCEPT !.gen = 0].gen = 0
      BY <3>1
    <3>3. request'[r] = IF request[r].plugin = p THEN [request[r] EXCEPT !.gen = 0] ELSE request[r]
      BY <2>4
    <3> QED
      BY <3>1, <3>2, <3>3
  <2>6. request' \in [HttpRequest -> [plugin: HostPlugin, gen: Nat]]
    BY <1>16, <2>5 DEF HostCrash
  <2>7. \A r \in HttpRequest : Belongs(r)'
    BY <1>0, <2>3, <2>5 DEF Belongs, Alive
  <2>8. \A q \in HostPlugin : PluginOk(q)'
    BY <1>0, <2>1, <2>2, <2>3 DEF PluginOk, LockMeans, Reports, Quiet, AtRest
  <2>9. HostTyped'
    BY <1>t, <2>2, <2>3, <2>6 DEF HostTyped
  <2> QED
    BY <2>7, <2>8, <2>9 DEF HostInv
<1>17. CASE UNCHANGED hostVars
  BY <1>u, <1>17 DEF hostVars
<1> HIDE DEF HostInv
<1> QED
  BY <1>1, <1>2, <1>3, <1>4, <1>5, <1>6, <1>7, <1>8, <1>9, <1>10, <1>11, <1>12, <1>13, <1>14,
     <1>15, <1>16, <1>17 DEF HostNext

(* Whatever order enabling, disabling, configuring, serving, stopping and     *)
(* crashing take: once no reconciliation waits the state reported is the one  *)
(* the administrator wants, or degraded; a plugin that reports disabled has   *)
(* no routes, jobs or handlers left; and a request still alive belongs to the *)
(* generation that runs (reconcileLocked, teardownLocked, ServeHTTP).         *)
THEOREM PluginsSettle == HostSpec => []HostSafe
<1>1. HostInit => HostInv
  BY HostInvInit
<1>2. HostInv /\ [HostNext]_hostVars => HostInv'
  BY HostInvStep
<1>3. HostInv => HostSafe
  BY HostInvSafe
<1> QED
  BY <1>1, <1>2, <1>3, PTL DEF HostSpec

-----------------------------------------------------------------------------
(* The configuration of ai. *)

RequestRow ==
    {<<>>} \cup (AIProvider \X ProviderRow) \cup (RouteName \X Route)
      \cup {<<p>> : p \in AIProvider}

AdminRequest ==
    [pc: {"idle", "provider", "route", "discover", "load", "inputs", "publish", "refs"},
     providers: {<<>>} \cup [AIProvider -> ProviderRow],
     routes: {<<>>} \cup [RouteName -> SUBSET Route],
     row: RequestRow]

(* What a request carries at each step. *)
Carries(a) ==
    /\ admins[a].pc = "provider" => admins[a].row \in AIProvider \X [cred: AICred, billing: Billings]
    /\ admins[a].pc = "route" => admins[a].row \in RouteName \X Route
    /\ admins[a].pc = "discover" => admins[a].row[1] \in AIProvider
    /\ admins[a].pc \in {"inputs", "publish", "refs"} =>
         admins[a].providers \in [AIProvider -> ProviderRow]
    /\ admins[a].pc = "publish" => admins[a].routes \in [RouteName -> SUBSET Route]

OneAtMost == \A n \in RouteName: Cardinality(routeRows[n]) <= 1

RowsTypedAI ==
    /\ providerRows \in [AIProvider -> ProviderRow]
    /\ routeRows \in [RouteName -> SUBSET Route] /\ OneAtMost
    /\ aiRefs \subseteq AICred /\ aiCreds \subseteq AICred /\ catalogRows \subseteq AIProvider
    /\ {aiUp, alone, startBlocked} \subseteq BOOLEAN

ViewTyped ==
    /\ view.providers \in [AIProvider -> ProviderRow]
    /\ view.health \in [RouteName -> {"absent", "usable", "broken"}]

AdminsTyped ==
    /\ admins \in [AIAdmin -> AdminRequest]
    /\ \A a \in AIAdmin: Carries(a)

ViewExact == view = [providers |-> providerRows, health |-> Health(routeRows, providerRows)]
RefsExact == aiRefs = Needed(providerRows)

(* How far the one request in flight has come. *)
CameTo(a) ==
    /\ admins[a].pc = "provider" => admins[a].row[2].cred \in aiCreds
    /\ admins[a].pc = "route" =>
         \A i \in DOMAIN admins[a].row[2].plan:
            admins[a].row[2].plan[i].provider \in Known(providerRows)
    /\ admins[a].pc = "discover" => ViewExact /\ RefsExact
    /\ admins[a].pc \in {"inputs", "publish", "refs"} => admins[a].providers = providerRows
    /\ admins[a].pc = "publish" => admins[a].routes = routeRows
    /\ admins[a].pc = "refs" => ViewExact

(* Every attempt of every stored route is on a provider that exists. *)
AttemptsKnown ==
    \A n \in RouteName: \A r \in routeRows[n]:
        \A i \in DOMAIN r.plan: r.plan[i].provider \in Known(providerRows)

AloneMeans ==
    alone = TRUE =>
        /\ \A a, b \in AIAdmin: admins[a].pc # "idle" /\ admins[b].pc # "idle" => a = b
        /\ Needed(providerRows) \subseteq aiCreds
        /\ AttemptsKnown
        /\ AIQuiet /\ aiUp = TRUE => ViewExact /\ RefsExact
        /\ \A a \in AIAdmin: CameTo(a)

(* What the references name exists, and requests are a running process's. *)
RefsCovered == aiRefs \subseteq aiCreds
RequestsUp == aiUp = FALSE => AIQuiet

AIRouteInv ==
    RowsTypedAI /\ ViewTyped /\ AdminsTyped /\ AloneMeans /\ RefsCovered /\ RequestsUp

LEMMA HealthTyped ==
    ASSUME NEW routes, NEW providers
    PROVE  Health(routes, providers) \in [RouteName -> {"absent", "usable", "broken"}]
BY DEF Health

LEMMA NeededTyped ==
    ASSUME NEW providers \in [AIProvider -> ProviderRow]
    PROVE  Needed(providers) \subseteq AICred
BY AIRouteConstants DEF Needed, Known, ProviderRow, NoProvider

LEMMA NoRequestTyped == NoRequest \in AdminRequest /\ NoRequest.pc = "idle"
BY DEF NoRequest, AdminRequest, RequestRow

LEMMA PlanOfOne ==
    ASSUME NEW p \in AIProvider, NEW price \in Price, NEW chat \in BOOLEAN
    PROVE  [chat |-> chat, plan |-> <<[provider |-> p, price |-> price]>>] \in Route
<1>1. <<[provider |-> p, price |-> price]>> \in [1..1 -> [provider: AIProvider, price: Price]]
  OBVIOUS
<1>2. 1 \in 0..MaxAttempts
  BY AIRouteConstants
<1>3. <<[provider |-> p, price |-> price]>> \in RoutePlan
  BY <1>1, <1>2 DEF RoutePlan, SeqOf
<1> QED
  BY <1>3 DEF Route

LEMMA PricesTyped ==
    ASSUME NEW provider, NEW override \in Price, NEW cached, NEW chat
    PROVE  PricesFor(provider, override, cached, chat) \subseteq Price
BY DEF PricesFor, Price

LEMMA AIRouteInvInit == AIRouteInit => AIRouteInv
<1> SUFFICES ASSUME AIRouteInit PROVE AIRouteInv
  OBVIOUS
<1> USE DEF AIRouteInit
<1>0. NoProvider \in ProviderRow
  BY DEF ProviderRow
<1>1. RowsTypedAI
  <2>1. OneAtMost
    BY FS_EmptySet DEF OneAtMost
  <2> QED
    BY <1>0, <2>1 DEF RowsTypedAI
<1>2. ViewTyped
  BY <1>0 DEF ViewTyped
<1>3. \A a \in AIAdmin : admins[a] = NoRequest /\ admins[a].pc = "idle"
  BY NoRequestTyped
<1>4. AdminsTyped
  BY <1>3, NoRequestTyped DEF AdminsTyped, Carries
<1>5. Needed(providerRows) = {}
  BY AIRouteConstants DEF Needed, Known, NoProvider
<1>6. AloneMeans
  BY <1>3, <1>5 DEF AloneMeans, CameTo, AttemptsKnown
<1>7. RefsCovered /\ RequestsUp
  BY <1>3 DEF RefsCovered, RequestsUp, AIQuiet
<1> QED
  BY <1>1, <1>2, <1>4, <1>6, <1>7 DEF AIRouteInv

LEMMA AIRouteInvSafe == AIRouteInv => ViewIsExact
<1> SUFFICES ASSUME AIRouteInv PROVE ViewIsExact
  OBVIOUS
<1>0. RowsTypedAI /\ ViewTyped /\ AdminsTyped /\ AloneMeans /\ RefsCovered
  BY DEF AIRouteInv
<1>1. AIRouteTypeOK
  <2>1. \A a \in AIAdmin : admins[a].pc \in
           {"idle", "provider", "route", "discover", "load", "inputs", "publish", "refs"}
    BY <1>0 DEF AdminsTyped, AdminRequest
  <2> QED
    BY <1>0, <2>1 DEF RowsTypedAI, ViewTyped, AIRouteTypeOK, OneAtMost
<1>2. aiUp => aiUp = TRUE
  BY <1>0 DEF RowsTypedAI
<1>3. alone => alone = TRUE
  BY <1>0 DEF RowsTypedAI
<1>4. alone /\ AIQuiet /\ aiUp => ViewExact /\ RefsExact /\ AttemptsKnown
  BY <1>0, <1>2, <1>3 DEF AloneMeans
<1> QED
  BY <1>0, <1>1, <1>4 DEF ViewIsExact, ViewExact, RefsExact, AttemptsKnown, RefsCovered

LEMMA RequestBecomes ==
    ASSUME AdminsTyped, NEW a \in AIAdmin, NEW req \in AdminRequest,
           admins' = [admins EXCEPT ![a] = req]
    PROVE  /\ admins' \in [AIAdmin -> AdminRequest] /\ admins'[a] = req
           /\ \A b \in AIAdmin \ {a} : admins'[b] = admins[b]
BY DEF AdminsTyped

(* A request in flight takes a step. *)
LEMMA MoveKeeps ==
    ASSUME AIRouteInv, NEW a \in AIAdmin, NEW req \in AdminRequest,
           admins[a].pc # "idle", admins' = [admins EXCEPT ![a] = req],
           UNCHANGED <<aiUp, alone, startBlocked>>,
           RowsTypedAI', ViewTyped', Carries(a)', RefsCovered',
           alone = TRUE => /\ Needed(providerRows') \subseteq aiCreds'
                           /\ AttemptsKnown' /\ CameTo(a)'
                           /\ req.pc = "idle" => ViewExact' /\ RefsExact'
    PROVE  AIRouteInv'
<1>0. AdminsTyped /\ AloneMeans /\ RequestsUp
  BY DEF AIRouteInv
<1>1. /\ admins' \in [AIAdmin -> AdminRequest] /\ admins'[a] = req
      /\ \A b \in AIAdmin \ {a} : admins'[b] = admins[b]
  BY <1>0, RequestBecomes
<1>2. AdminsTyped'
  BY <1>0, <1>1 DEF AdminsTyped, Carries
<1>3. AloneMeans'
  <2> SUFFICES ASSUME alone = TRUE
               PROVE  /\ \A b, c \in AIAdmin: admins'[b].pc # "idle" /\ admins'[c].pc # "idle" => b = c
                      /\ Needed(providerRows') \subseteq aiCreds'
                      /\ AttemptsKnown'
                      /\ AIQuiet' /\ aiUp' = TRUE => ViewExact' /\ RefsExact'
                      /\ \A b \in AIAdmin: CameTo(b)'
    BY DEF AloneMeans
  <2>1. \A b \in AIAdmin \ {a} : admins'[b].pc = "idle"
    BY <1>0, <1>1 DEF AloneMeans
  <2>2. \A b \in AIAdmin : CameTo(b)'
    <3>1. ASSUME NEW b \in AIAdmin \ {a} PROVE CameTo(b)'
      BY <2>1 DEF CameTo
    <3> QED
      BY <3>1
  <2>3. AIQuiet' => req.pc = "idle"
    BY <1>1 DEF AIQuiet
  <2> QED
    BY <2>1, <2>2, <2>3
<1>4. RequestsUp'
  BY <1>0 DEF RequestsUp, AIQuiet
<1> QED
  BY <1>2, <1>3, <1>4 DEF AIRouteInv

(* A request arrives, and may commit at once. *)
LEMMA EnterKeeps ==
    ASSUME AIRouteInv, NEW a \in AIAdmin, NEW req \in AdminRequest, Enter(a, req),
           UNCHANGED <<view, aiRefs, aiCreds, aiUp, startBlocked>>,
           RowsTypedAI', Carries(a)', req.pc # "idle",
           alone = TRUE /\ ViewExact /\ RefsExact /\ AttemptsKnown =>
               /\ Needed(providerRows') \subseteq Needed(providerRows)
               /\ AttemptsKnown' /\ CameTo(a)'
    PROVE  AIRouteInv'
<1>0. AdminsTyped /\ AloneMeans /\ RequestsUp /\ RowsTypedAI /\ ViewTyped /\ RefsCovered
  BY DEF AIRouteInv
<1>1. /\ admins' \in [AIAdmin -> AdminRequest] /\ admins'[a] = req
      /\ \A b \in AIAdmin \ {a} : admins'[b] = admins[b]
  BY <1>0, RequestBecomes DEF Enter
<1>2. AdminsTyped'
  BY <1>0, <1>1 DEF AdminsTyped, Carries
<1>3. aiUp = TRUE /\ aiUp' = TRUE
  BY <1>0 DEF Enter, RowsTypedAI
<1>4. alone' = TRUE => alone = TRUE /\ AIQuiet
  BY <1>0 DEF Enter, RowsTypedAI
<1>5. AloneMeans'
  <2> SUFFICES ASSUME alone' = TRUE
               PROVE  /\ \A b, c \in AIAdmin: admins'[b].pc # "idle" /\ admins'[c].pc # "idle" => b = c
                      /\ Needed(providerRows') \subseteq aiCreds'
                      /\ AttemptsKnown'
                      /\ AIQuiet' /\ aiUp' = TRUE => ViewExact' /\ RefsExact'
                      /\ \A b \in AIAdmin: CameTo(b)'
    BY DEF AloneMeans
  <2>1. \A b \in AIAdmin \ {a} : admins'[b].pc = "idle"
    BY <1>1, <1>4 DEF AIQuiet
  <2>2. ViewExact /\ RefsExact /\ AttemptsKnown /\ Needed(providerRows) \subseteq aiCreds
    BY <1>0, <1>3, <1>4 DEF AloneMeans
  <2>3. ~ AIQuiet'
    BY <1>1 DEF AIQuiet
  <2>4. \A b \in AIAdmin : CameTo(b)'
    <3>1. ASSUME NEW b \in AIAdmin \ {a} PROVE CameTo(b)'
      BY <2>1 DEF CameTo
    <3> QED
      BY <1>4, <2>2, <3>1
  <2> QED
    BY <1>4, <2>1, <2>2, <2>3, <2>4
<1>6. ViewTyped' /\ RefsCovered' /\ RequestsUp'
  BY <1>0, <1>3 DEF ViewTyped, RefsCovered, RequestsUp
<1> QED
  BY <1>2, <1>5, <1>6 DEF AIRouteInv

LEMMA PutRouteKeeps ==
    ASSUME AIRouteInv, NEW a \in AIAdmin, NEW n \in RouteName, NEW route \in Route,
           PutRoute(a, n, route)
    PROVE  AIRouteInv'
<1> DEFINE new == [NoRequest EXCEPT !.pc = "route", !.row = <<n, route>>]
<1>0. RowsTypedAI /\ Enter(a, new) /\ Compiles(route, providerRows)
        /\ UNCHANGED <<providerRows, routeRows, view, aiRefs, aiCreds, catalogRows, aiUp, startBlocked>>
  BY DEF AIRouteInv, PutRoute
<1>1. new \in AdminRequest /\ new.pc = "route" /\ new.row = <<n, route>>
  BY DEF NoRequest, AdminRequest, RequestRow
<1> HIDE DEF new
<1>2. admins'[a] = new
  BY <1>0, <1>1, RequestBecomes DEF Enter, AIRouteInv
<1>3. alone' \in BOOLEAN
  BY <1>0 DEF Enter
<1>4. RowsTypedAI'
  BY <1>0, <1>3 DEF RowsTypedAI, OneAtMost
<1>5. Carries(a)'
  BY <1>1, <1>2 DEF Carries
<1>6. CameTo(a)'
  BY <1>0, <1>1, <1>2 DEF CameTo, Compiles
<1>7. AttemptsKnown => AttemptsKnown'
  BY <1>0 DEF AttemptsKnown
<1> QED
  BY <1>0, <1>1, <1>4, <1>5, <1>6, <1>7, EnterKeeps

LEMMA AIRouteInvStep == AIRouteInv /\ [AIRouteNext]_aiRouteVars => AIRouteInv'
<1> SUFFICES ASSUME AIRouteInv, [AIRouteNext]_aiRouteVars PROVE AIRouteInv'
  OBVIOUS
<1>0. RowsTypedAI /\ ViewTyped /\ AdminsTyped /\ AloneMeans /\ RefsCovered /\ RequestsUp
  BY DEF AIRouteInv
<1>t. /\ providerRows \in [AIProvider -> ProviderRow]
      /\ routeRows \in [RouteName -> SUBSET Route]
      /\ \A n \in RouteName: Cardinality(routeRows[n]) <= 1
      /\ aiRefs \subseteq AICred /\ aiCreds \subseteq AICred /\ catalogRows \subseteq AIProvider
      /\ aiUp \in BOOLEAN /\ alone \in BOOLEAN /\ startBlocked \in BOOLEAN
  BY <1>0 DEF RowsTypedAI, OneAtMost
<1>r. \A a \in AIAdmin : admins[a] \in AdminRequest
  BY <1>0 DEF AdminsTyped
<1>n. NoProvider \in ProviderRow /\ [cred: AICred, billing: Billings] \subseteq ProviderRow
  BY DEF ProviderRow
<1>1. ASSUME NEW S \in SUBSET AIProvider, NEW seed \in [S -> [cred: AICred, billing: {"metered"}]],
             StartAI(seed)
      PROVE  AIRouteInv'
  <2> DEFINE seeded == [p \in AIProvider |-> IF p \in DOMAIN seed THEN seed[p] ELSE NoProvider]
             rows == IF /\ \A p \in AIProvider: providerRows[p] = NoProvider
                        /\ \A n \in RouteName: routeRows[n] = {}
                     THEN seeded ELSE providerRows
  <2>1. seeded \in [AIProvider -> ProviderRow]
    <3>1. [cred: AICred, billing: {"metered"}] \subseteq ProviderRow
      BY DEF ProviderRow, Billings
    <3> QED
      BY <1>n, <3>1
  <2>2. rows \in [AIProvider -> ProviderRow]
          /\ (rows = providerRows \/ \A n \in RouteName: routeRows[n] = {})
    BY <1>t, <2>1
  <2>3. ~ aiUp /\ AIQuiet /\ UNCHANGED <<routeRows, aiCreds, catalogRows, admins, alone>>
    BY <1>0, <1>t, <1>1 DEF StartAI, RequestsUp
  <2>4. CASE /\ Needed(rows) \subseteq aiCreds /\ providerRows' = rows
             /\ view' = [providers |-> rows, health |-> Health(routeRows, rows)]
             /\ aiRefs' = Needed(rows) /\ aiUp' = TRUE /\ UNCHANGED startBlocked
    <3> HIDE DEF rows, seeded
    <3>1. RowsTypedAI'
      BY <1>t, <2>2, <2>3, <2>4, NeededTyped DEF RowsTypedAI, OneAtMost
    <3>2. ViewTyped'
      BY <2>2, <2>4, HealthTyped DEF ViewTyped
    <3>3. AdminsTyped'
      BY <1>0, <2>3 DEF AdminsTyped, Carries
    <3>4. ViewExact' /\ RefsExact'
      BY <2>3, <2>4 DEF ViewExact, RefsExact
    <3>5. AttemptsKnown => AttemptsKnown'
      BY <2>2, <2>3, <2>4 DEF AttemptsKnown
    <3>6. \A a \in AIAdmin : CameTo(a)'
      BY <2>3 DEF CameTo, AIQuiet
    <3>7. AloneMeans'
      BY <1>0, <2>3, <2>4, <3>4, <3>5, <3>6 DEF AloneMeans
    <3>8. RefsCovered' /\ RequestsUp'
      BY <2>3, <2>4 DEF RefsCovered, RequestsUp
    <3> QED
      BY <3>1, <3>2, <3>3, <3>7, <3>8 DEF AIRouteInv
  <2>5. CASE /\ startBlocked' = (startBlocked \/ rows = providerRows)
             /\ UNCHANGED <<providerRows, view, aiRefs, aiUp>>
    <3>1. startBlocked' \in BOOLEAN
      BY <2>5
    <3>2. RowsTypedAI'
      BY <1>t, <2>3, <2>5, <3>1 DEF RowsTypedAI, OneAtMost
    <3>3. ViewTyped' /\ RefsCovered' /\ RequestsUp'
      BY <1>0, <2>3, <2>5 DEF ViewTyped, RefsCovered, RequestsUp, AIQuiet
    <3>4. AdminsTyped'
      BY <1>0, <2>3 DEF AdminsTyped, Carries
    <3>5. AloneMeans'
      BY <1>0, <2>3, <2>5 DEF AloneMeans, AttemptsKnown, AIQuiet, ViewExact, RefsExact, CameTo
    <3> QED
      BY <3>2, <3>3, <3>4, <3>5 DEF AIRouteInv
  <2> QED
    BY <1>1, <2>4, <2>5 DEF StartAI
<1>2. CASE StopAI
  <2>1. /\ UNCHANGED <<providerRows, routeRows, view, aiRefs, aiCreds, catalogRows, alone, startBlocked>>
        /\ aiUp' = FALSE /\ admins' = [a \in AIAdmin |-> NoRequest]
    BY <1>2 DEF StopAI
  <2>2. \A a \in AIAdmin : admins'[a] = NoRequest /\ admins'[a].pc = "idle"
    BY <2>1, NoRequestTyped
  <2>3. AdminsTyped'
    BY <2>1, <2>2, NoRequestTyped DEF AdminsTyped, Carries
  <2>4. RowsTypedAI' /\ ViewTyped' /\ RefsCovered' /\ RequestsUp'
    BY <1>0, <2>1, <2>2 DEF RowsTypedAI, OneAtMost, ViewTyped, RefsCovered, RequestsUp, AIQuiet
  <2>5. AloneMeans'
    BY <1>0, <2>1, <2>2 DEF AloneMeans, AttemptsKnown, CameTo
  <2> QED
    BY <2>3, <2>4, <2>5 DEF AIRouteInv
<1>3. ASSUME NEW c \in AICred, DropCredential(c) PROVE AIRouteInv'
  <2>1. /\ UNCHANGED <<providerRows, routeRows, view, aiRefs, catalogRows, admins, aiUp, startBlocked>>
        /\ aiCreds' = aiCreds \ {c} /\ c \notin aiRefs /\ aiUp
        /\ alone' = (alone /\ AIQuiet)
    BY <1>3 DEF DropCredential
  <2>a. alone' \in BOOLEAN
    BY <2>1
  <2>2. RowsTypedAI' /\ ViewTyped' /\ RefsCovered' /\ RequestsUp'
    BY <1>0, <2>1, <2>a DEF RowsTypedAI, OneAtMost, ViewTyped, RefsCovered, RequestsUp, AIQuiet
  <2>3. AdminsTyped'
    BY <1>0, <2>1 DEF AdminsTyped, Carries
  <2>4. alone' = TRUE => alone = TRUE /\ AIQuiet /\ aiUp = TRUE
    BY <1>t, <2>1
  <2>5. AloneMeans'
    <3> SUFFICES ASSUME alone' = TRUE
                 PROVE  /\ \A b, d \in AIAdmin: admins'[b].pc # "idle" /\ admins'[d].pc # "idle" => b = d
                        /\ Needed(providerRows') \subseteq aiCreds'
                        /\ AttemptsKnown'
                        /\ AIQuiet' /\ aiUp' = TRUE => ViewExact' /\ RefsExact'
                        /\ \A b \in AIAdmin: CameTo(b)'
      BY DEF AloneMeans
    <3>1. ViewExact /\ RefsExact /\ AttemptsKnown
      BY <1>0, <2>4 DEF AloneMeans
    <3>2. ViewExact' /\ RefsExact' /\ AttemptsKnown'
      BY <2>1, <3>1 DEF ViewExact, RefsExact, AttemptsKnown
    <3>3. Needed(providerRows') \subseteq aiCreds'
      BY <1>0, <2>1, <3>1 DEF RefsExact, RefsCovered
    <3>4. \A b \in AIAdmin : admins'[b].pc = "idle"
      BY <2>1, <2>4 DEF AIQuiet
    <3> QED
      BY <3>2, <3>3, <3>4 DEF CameTo
  <2> QED
    BY <2>2, <2>3, <2>5 DEF AIRouteInv
<1>4. ASSUME NEW c \in AICred, AddCredential(c) PROVE AIRouteInv'
  <2>1. /\ UNCHANGED <<providerRows, routeRows, view, aiRefs, catalogRows, admins, aiUp, alone, startBlocked>>
        /\ aiCreds' = aiCreds \cup {c}
    BY <1>4 DEF AddCredential
  <2>2. RowsTypedAI' /\ ViewTyped' /\ RefsCovered' /\ RequestsUp'
    BY <1>0, <2>1 DEF RowsTypedAI, OneAtMost, ViewTyped, RefsCovered, RequestsUp, AIQuiet
  <2>3. AdminsTyped'
    BY <1>0, <2>1 DEF AdminsTyped, Carries
  <2>4. \A a \in AIAdmin : CameTo(a) => CameTo(a)'
    BY <2>1 DEF CameTo, ViewExact, RefsExact
  <2>5. AloneMeans'
    BY <1>0, <2>1, <2>4 DEF AloneMeans, AttemptsKnown, AIQuiet, ViewExact, RefsExact
  <2> QED
    BY <2>2, <2>3, <2>5 DEF AIRouteInv
<1>5. ASSUME NEW a \in AIAdmin, NEW p \in AIProvider, NEW row \in [cred: AICred, billing: Billings],
             PutProvider(a, p, row)
      PROVE  AIRouteInv'
  <2> DEFINE new == [NoRequest EXCEPT !.pc = "provider", !.row = <<p, row>>]
  <2>0. Enter(a, new) /\ row.cred \in aiCreds
          /\ UNCHANGED <<providerRows, routeRows, view, aiRefs, aiCreds, catalogRows, aiUp, startBlocked>>
    BY <1>5 DEF PutProvider
  <2>1. new \in AdminRequest /\ new.pc = "provider" /\ new.row = <<p, row>>
    BY <1>n DEF NoRequest, AdminRequest, RequestRow
  <2> HIDE DEF new
  <2>2. admins'[a] = new
    BY <1>0, <2>0, <2>1, RequestBecomes DEF Enter
  <2>3. RowsTypedAI'
    BY <1>t, <2>0 DEF RowsTypedAI, OneAtMost, Enter
  <2>4. Carries(a)' /\ CameTo(a)'
    BY <2>0, <2>1, <2>2 DEF Carries, CameTo
  <2>5. AttemptsKnown => AttemptsKnown'
    BY <2>0 DEF AttemptsKnown
  <2> QED
    BY <2>0, <2>1, <2>3, <2>4, <2>5, EnterKeeps
<1>6. ASSUME NEW a \in AIAdmin, NEW p \in AIProvider, DeleteProvider(a, p) PROVE AIRouteInv'
  <2> DEFINE new == [NoRequest EXCEPT !.pc = "load"]
  <2>0. Enter(a, new) /\ Users(p) = {}
          /\ UNCHANGED <<routeRows, view, aiRefs, aiCreds, aiUp, startBlocked>>
          /\ providerRows' = [providerRows EXCEPT ![p] = NoProvider]
          /\ catalogRows' = catalogRows \ {p}
    BY <1>6 DEF DeleteProvider, MayDelete
  <2>1. new \in AdminRequest /\ new.pc = "load"
    BY DEF NoRequest, AdminRequest, RequestRow
  <2> HIDE DEF new
  <2>2. admins'[a] = new
    BY <1>0, <2>0, <2>1, RequestBecomes DEF Enter
  <2>3. RowsTypedAI'
    BY <1>n, <1>t, <2>0 DEF RowsTypedAI, OneAtMost, Enter
  <2>4. Carries(a)' /\ CameTo(a)'
    BY <2>1, <2>2 DEF Carries, CameTo
  <2>5. \A q \in AIProvider \ {p} : providerRows'[q] = providerRows[q]
    BY <1>t, <2>0
  <2>6. Known(providerRows') = Known(providerRows) \ {p}
    BY <1>t, <2>0, <2>5 DEF Known, NoProvider
  <2>7. AttemptsKnown => AttemptsKnown'
    BY <2>0, <2>6 DEF AttemptsKnown, Users
  <2>8. Needed(providerRows') \subseteq Needed(providerRows)
    BY <2>5, <2>6 DEF Needed, Known
  <2> QED
    BY <2>0, <2>1, <2>3, <2>4, <2>7, <2>8, EnterKeeps
<1>7. ASSUME NEW a \in AIAdmin, NEW p \in AIProvider, Models(a, p) PROVE AIRouteInv'
  <2> DEFINE new == [NoRequest EXCEPT !.pc = "discover", !.row = <<p>>]
  <2>0. Enter(a, new)
          /\ UNCHANGED <<providerRows, routeRows, view, aiRefs, aiCreds, catalogRows, aiUp, startBlocked>>
    BY <1>7 DEF Models
  <2>1. new \in AdminRequest /\ new.pc = "discover" /\ new.row = <<p>>
    BY DEF NoRequest, AdminRequest, RequestRow
  <2> HIDE DEF new
  <2>2. admins'[a] = new
    BY <1>0, <2>0, <2>1, RequestBecomes DEF Enter
  <2>3. RowsTypedAI'
    BY <1>t, <2>0 DEF RowsTypedAI, OneAtMost, Enter
  <2>4. Carries(a)' /\ (ViewExact /\ RefsExact => CameTo(a)')
    BY <2>0, <2>1, <2>2 DEF Carries, CameTo, ViewExact, RefsExact
  <2>5. AttemptsKnown => AttemptsKnown'
    BY <2>0 DEF AttemptsKnown
  <2> QED
    BY <2>0, <2>1, <2>3, <2>4, <2>5, EnterKeeps
<1>8. ASSUME NEW a \in AIAdmin, NEW p \in AIProvider, NEW n \in RouteName, NEW o \in Price,
             NEW chat \in BOOLEAN, AssignRoute(a, n, p, o, chat)
      PROVE  AIRouteInv'
  <2>1. PICK price \in PricesFor(providerRows[p], o, p \in catalogRows, chat) :
            PutRoute(a, n, [chat |-> chat, plan |-> <<[provider |-> p, price |-> price]>>])
    BY <1>8 DEF AssignRoute
  <2>2. price \in Price
    BY PricesTyped
  <2> QED
    BY <2>1, <2>2, PlanOfOne, PutRouteKeeps
<1>9. ASSUME NEW a \in AIAdmin, NEW n \in RouteName, DeleteRoute(a, n) PROVE AIRouteInv'
  <2> DEFINE new == [NoRequest EXCEPT !.pc = "load"]
  <2>0. Enter(a, new) /\ UNCHANGED <<providerRows, view, aiRefs, aiCreds, catalogRows, aiUp, startBlocked>>
          /\ routeRows' = [routeRows EXCEPT ![n] = {}]
    BY <1>9 DEF DeleteRoute
  <2>1. new \in AdminRequest /\ new.pc = "load"
    BY DEF NoRequest, AdminRequest, RequestRow
  <2> HIDE DEF new
  <2>2. admins'[a] = new
    BY <1>0, <2>0, <2>1, RequestBecomes DEF Enter
  <2>3. RowsTypedAI'
    <3>1. routeRows' \in [RouteName -> SUBSET Route] /\ \A m \in RouteName : routeRows'[m] \in {{}, routeRows[m]}
      BY <1>t, <2>0
    <3>2. Cardinality({}) <= 1
      BY FS_EmptySet
    <3> QED
      BY <1>t, <2>0, <3>1, <3>2 DEF RowsTypedAI, OneAtMost, Enter
  <2>4. Carries(a)' /\ CameTo(a)'
    BY <2>1, <2>2 DEF Carries, CameTo
  <2>5. AttemptsKnown => AttemptsKnown'
    BY <1>t, <2>0 DEF AttemptsKnown
  <2> QED
    BY <2>0, <2>1, <2>3, <2>4, <2>5, EnterKeeps
<1>10. ASSUME NEW a \in AIAdmin, NEW n \in RouteName, NEW r \in Route, PutRoute(a, n, r) PROVE AIRouteInv'
  BY <1>10, PutRouteKeeps
<1>m. ASSUME NEW a \in AIAdmin, NEW pc \in {"idle", "provider", "route", "discover", "load",
                                                "inputs", "publish", "refs"}
      PROVE  /\ [admins[a] EXCEPT !.pc = pc] \in AdminRequest
             /\ [admins[a] EXCEPT !.pc = pc].pc = pc
             /\ [admins[a] EXCEPT !.pc = pc].providers = admins[a].providers
  BY <1>r DEF AdminRequest
<1>11. ASSUME NEW a \in AIAdmin, CommitProvider(a) PROVE AIRouteInv'
  <2> DEFINE new == [admins[a] EXCEPT !.pc = "load"]
             p == admins[a].row[1]
             row == admins[a].row[2]
  <2>0. admins[a].pc = "provider" /\ admins' = [admins EXCEPT ![a] = new]
          /\ UNCHANGED <<routeRows, view, aiRefs, aiCreds, catalogRows, aiUp, alone, startBlocked>>
          /\ providerRows' = [providerRows EXCEPT ![p] = row]
    BY <1>11 DEF CommitProvider, Moves
  <2>1. new \in AdminRequest /\ new.pc = "load"
    BY <1>m
  <2>2. p \in AIProvider /\ row \in [cred: AICred, billing: Billings]
    BY <1>0, <2>0 DEF AdminsTyped, Carries
  <2>a. alone = TRUE => row.cred \in aiCreds
    BY <1>0, <2>0 DEF AloneMeans, CameTo
  <2> HIDE DEF new, p, row
  <2>3. admins'[a] = new
    BY <1>0, <2>0, <2>1, RequestBecomes
  <2>4. RowsTypedAI'
    BY <1>n, <1>t, <2>0, <2>2 DEF RowsTypedAI, OneAtMost
  <2>5. Carries(a)' /\ CameTo(a)'
    BY <2>1, <2>3 DEF Carries, CameTo
  <2>6. /\ providerRows'[p] = row /\ row.cred # NoAICred
        /\ \A q \in AIProvider \ {p} : providerRows'[q] = providerRows[q]
    BY <1>t, <2>0, <2>2, AIRouteConstants
  <2>7. Known(providerRows) \subseteq Known(providerRows')
    BY <2>6 DEF Known
  <2>8. Needed(providerRows') \subseteq Needed(providerRows) \cup {row.cred}
    BY <2>6 DEF Needed, Known
  <2>9. AttemptsKnown => AttemptsKnown'
    BY <2>0, <2>7 DEF AttemptsKnown
  <2>10. ViewTyped' /\ RefsCovered'
    BY <1>0, <2>0 DEF ViewTyped, RefsCovered
  <2>11. alone = TRUE => Needed(providerRows') \subseteq aiCreds' /\ AttemptsKnown'
    BY <1>0, <2>0, <2>a, <2>8, <2>9 DEF AloneMeans
  <2> QED
    BY <2>0, <2>1, <2>4, <2>5, <2>10, <2>11, MoveKeeps
<1>12. ASSUME NEW a \in AIAdmin, CommitRoute(a) PROVE AIRouteInv'
  <2> DEFINE new == [admins[a] EXCEPT !.pc = "load"]
             n == admins[a].row[1]
             route == admins[a].row[2]
  <2>0. admins[a].pc = "route" /\ admins' = [admins EXCEPT ![a] = new]
          /\ UNCHANGED <<providerRows, view, aiRefs, aiCreds, catalogRows, aiUp, alone, startBlocked>>
          /\ routeRows' = [routeRows EXCEPT ![n] = {route}]
    BY <1>12 DEF CommitRoute, Moves
  <2>1. new \in AdminRequest /\ new.pc = "load"
    BY <1>m
  <2>2. n \in RouteName /\ route \in Route
    BY <1>0, <2>0 DEF AdminsTyped, Carries
  <2>a. alone = TRUE => \A i \in DOMAIN route.plan : route.plan[i].provider \in Known(providerRows)
    BY <1>0, <2>0 DEF AloneMeans, CameTo
  <2> HIDE DEF new, n, route
  <2>3. admins'[a] = new
    BY <1>0, <2>0, <2>1, RequestBecomes
  <2>4. routeRows' \in [RouteName -> SUBSET Route] /\ routeRows'[n] = {route}
          /\ \A m \in RouteName \ {n} : routeRows'[m] = routeRows[m]
    BY <1>t, <2>0, <2>2
  <2>5. RowsTypedAI'
    <3>1. Cardinality({route}) <= 1
      BY FS_Singleton
    <3>2. OneAtMost'
      BY <1>t, <2>4, <3>1 DEF OneAtMost
    <3> QED
      BY <1>t, <2>0, <2>4, <3>2 DEF RowsTypedAI
  <2>6. Carries(a)' /\ CameTo(a)'
    BY <2>1, <2>3 DEF Carries, CameTo
  <2>7. ViewTyped' /\ RefsCovered'
    BY <1>0, <2>0 DEF ViewTyped, RefsCovered
  <2>8. alone = TRUE => AttemptsKnown'
    BY <1>0, <2>0, <2>a, <2>4 DEF AloneMeans, AttemptsKnown
  <2>9. alone = TRUE => Needed(providerRows') \subseteq aiCreds'
    BY <1>0, <2>0 DEF AloneMeans
  <2> QED
    BY <2>0, <2>1, <2>5, <2>6, <2>7, <2>8, <2>9, MoveKeeps
<1>13. ASSUME NEW a \in AIAdmin, SaveCatalog(a) PROVE AIRouteInv'
  <2>0. admins[a].pc = "discover" /\ admins' = [admins EXCEPT ![a] = NoRequest]
          /\ UNCHANGED <<providerRows, routeRows, view, aiRefs, aiCreds, aiUp, alone, startBlocked>>
    BY <1>13 DEF SaveCatalog
  <2>1. catalogRows' \subseteq AIProvider
    BY <1>0, <1>t, <1>13, <2>0 DEF SaveCatalog, AdminsTyped, Carries
  <2>2. admins'[a] = NoRequest
    BY <1>0, <2>0, NoRequestTyped, RequestBecomes
  <2>3. RowsTypedAI'
    BY <1>t, <2>0, <2>1 DEF RowsTypedAI, OneAtMost
  <2>4. Carries(a)' /\ CameTo(a)'
    BY <2>2, NoRequestTyped DEF Carries, CameTo
  <2>5. ViewTyped' /\ RefsCovered'
    BY <1>0, <2>0 DEF ViewTyped, RefsCovered
  <2>6. alone = TRUE => Needed(providerRows') \subseteq aiCreds' /\ AttemptsKnown' /\ ViewExact' /\ RefsExact'
    BY <1>0, <2>0 DEF AloneMeans, CameTo, AttemptsKnown, ViewExact, RefsExact
  <2> QED
    BY <2>0, <2>3, <2>4, <2>5, <2>6, NoRequestTyped, MoveKeeps
<1>u. ASSUME NEW a \in AIAdmin, NEW req \in AdminRequest, admins[a].pc # "idle", req.pc # "idle",
             admins' = [admins EXCEPT ![a] = req], Carries(a)', alone = TRUE => CameTo(a)', ViewTyped',
             UNCHANGED <<providerRows, routeRows, aiRefs, aiCreds, catalogRows, aiUp, alone, startBlocked>>
      PROVE  AIRouteInv'
  <2>1. RowsTypedAI' /\ RefsCovered'
    BY <1>0, <1>t, <1>u DEF RowsTypedAI, OneAtMost, RefsCovered
  <2>2. alone = TRUE => Needed(providerRows') \subseteq aiCreds' /\ AttemptsKnown'
    BY <1>0, <1>u DEF AloneMeans, AttemptsKnown
  <2> QED
    BY <1>u, <2>1, <2>2, MoveKeeps
<1>14. ASSUME NEW a \in AIAdmin, LoadProviders(a) PROVE AIRouteInv'
  <2> DEFINE new == [admins[a] EXCEPT !.pc = "inputs", !.providers = providerRows]
  <2>0. admins[a].pc = "load" /\ admins' = [admins EXCEPT ![a] = new]
          /\ UNCHANGED <<providerRows, routeRows, view, aiRefs, aiCreds, catalogRows, aiUp, alone, startBlocked>>
    BY <1>14 DEF LoadProviders
  <2>1. new \in AdminRequest /\ new.pc = "inputs" /\ new.providers = providerRows
    BY <1>r, <1>t DEF AdminRequest
  <2> HIDE DEF new
  <2>2. admins'[a] = new
    BY <1>0, <2>0, <2>1, RequestBecomes
  <2>3. Carries(a)' /\ CameTo(a)' /\ ViewTyped'
    BY <1>0, <1>t, <2>0, <2>1, <2>2 DEF Carries, CameTo, ViewTyped
  <2> QED
    BY <1>u, <2>0, <2>1, <2>3
<1>15. ASSUME NEW a \in AIAdmin, LoadRouteInputs(a) PROVE AIRouteInv'
  <2> DEFINE new == [admins[a] EXCEPT !.pc = "publish", !.routes = routeRows]
  <2>0. admins[a].pc = "inputs" /\ admins' = [admins EXCEPT ![a] = new]
          /\ UNCHANGED <<providerRows, routeRows, view, aiRefs, aiCreds, catalogRows, aiUp, alone, startBlocked>>
    BY <1>15 DEF LoadRouteInputs
  <2>1. new \in AdminRequest /\ new.pc = "publish" /\ new.routes = routeRows
          /\ new.providers = admins[a].providers
    BY <1>r, <1>t DEF AdminRequest
  <2> HIDE DEF new
  <2>2. admins'[a] = new
    BY <1>0, <2>0, <2>1, RequestBecomes
  <2>3. Carries(a)' /\ ViewTyped'
    BY <1>0, <1>t, <2>0, <2>1, <2>2 DEF AdminsTyped, Carries, ViewTyped
  <2>4. alone = TRUE => CameTo(a)'
    BY <1>0, <2>0, <2>1, <2>2 DEF AloneMeans, CameTo
  <2> QED
    BY <1>u, <2>0, <2>1, <2>3, <2>4
<1>16. ASSUME NEW a \in AIAdmin, PublishView(a) PROVE AIRouteInv'
  <2> DEFINE new == [admins[a] EXCEPT !.pc = "refs"]
  <2>0. admins[a].pc = "publish" /\ admins' = [admins EXCEPT ![a] = new]
          /\ UNCHANGED <<providerRows, routeRows, aiRefs, aiCreds, catalogRows, aiUp, alone, startBlocked>>
          /\ view' = [providers |-> admins[a].providers,
                      health |-> Health(admins[a].routes, admins[a].providers)]
    BY <1>16 DEF PublishView, Published, Moves
  <2>1. new \in AdminRequest /\ new.pc = "refs" /\ new.providers = admins[a].providers
    BY <1>m
  <2> HIDE DEF new
  <2>2. admins'[a] = new
    BY <1>0, <2>0, <2>1, RequestBecomes
  <2>3. admins[a].providers \in [AIProvider -> ProviderRow]
    BY <1>0, <2>0 DEF AdminsTyped, Carries
  <2>4. Carries(a)'
    BY <2>1, <2>2, <2>3 DEF Carries
  <2>5. ViewTyped'
    BY <2>0, <2>3, HealthTyped DEF ViewTyped
  <2>6. alone = TRUE => admins[a].providers = providerRows /\ admins[a].routes = routeRows
    BY <1>0, <2>0 DEF AloneMeans, CameTo
  <2>7. alone = TRUE => CameTo(a)'
    BY <2>0, <2>1, <2>2, <2>6 DEF CameTo, ViewExact
  <2> QED
    BY <1>u, <2>0, <2>1, <2>4, <2>5, <2>7
<1>17. ASSUME NEW a \in AIAdmin, RecordRefs(a) PROVE AIRouteInv'
  <2>0. admins[a].pc = "refs" /\ admins' = [admins EXCEPT ![a] = NoRequest]
          /\ UNCHANGED <<providerRows, routeRows, view, aiCreds, catalogRows, aiUp, alone, startBlocked>>
          /\ aiRefs' = IF Needed(admins[a].providers) \subseteq aiCreds
                       THEN Needed(admins[a].providers) ELSE aiRefs
    BY <1>17 DEF RecordRefs
  <2>1. admins[a].providers \in [AIProvider -> ProviderRow]
    BY <1>0, <2>0 DEF AdminsTyped, Carries
  <2>2. aiRefs' \subseteq AICred /\ aiRefs' \subseteq aiCreds
    BY <1>0, <1>t, <2>0, <2>1, NeededTyped DEF RefsCovered
  <2>3. RowsTypedAI' /\ ViewTyped' /\ RefsCovered'
    BY <1>0, <1>t, <2>0, <2>2 DEF RowsTypedAI, OneAtMost, ViewTyped, RefsCovered
  <2>4. admins'[a] = NoRequest
    BY <1>0, <2>0, NoRequestTyped, RequestBecomes
  <2>5. Carries(a)' /\ CameTo(a)'
    BY <2>4, NoRequestTyped DEF Carries, CameTo
  <2>6. alone = TRUE => /\ admins[a].providers = providerRows /\ ViewExact
                        /\ Needed(providerRows) \subseteq aiCreds /\ AttemptsKnown
    BY <1>0, <2>0 DEF AloneMeans, CameTo
  <2>7. alone = TRUE => Needed(providerRows') \subseteq aiCreds' /\ AttemptsKnown' /\ ViewExact' /\ RefsExact'
    BY <2>0, <2>6 DEF AttemptsKnown, ViewExact, RefsExact
  <2> QED
    BY <2>0, <2>3, <2>5, <2>7, NoRequestTyped, MoveKeeps
<1>18. CASE UNCHANGED aiRouteVars
  <2>1. UNCHANGED <<providerRows, routeRows, view, aiRefs, aiCreds, catalogRows, admins, aiUp, alone, startBlocked>>
    BY <1>18 DEF aiRouteVars
  <2>2. RowsTypedAI' /\ ViewTyped' /\ RefsCovered' /\ RequestsUp'
    BY <1>0, <2>1 DEF RowsTypedAI, OneAtMost, ViewTyped, RefsCovered, RequestsUp, AIQuiet
  <2>3. AdminsTyped'
    BY <1>0, <2>1 DEF AdminsTyped, Carries
  <2>4. AloneMeans'
    BY <1>0, <2>1 DEF AloneMeans, AttemptsKnown, CameTo, AIQuiet, ViewExact, RefsExact
  <2> QED
    BY <2>2, <2>3, <2>4 DEF AIRouteInv
<1> HIDE DEF AIRouteInv
<1>19. ASSUME NEW seed \in UNION {[S -> [cred: AICred, billing: {"metered"}]]: S \in SUBSET AIProvider},
              StartAI(seed)
       PROVE  AIRouteInv'
  BY <1>1, <1>19
<1> QED
  BY <1>2, <1>3, <1>4, <1>5, <1>6, <1>7, <1>8, <1>9, <1>10, <1>11, <1>12, <1>13, <1>14,
     <1>15, <1>16, <1>17, <1>18, <1>19 DEF AIRouteNext

(* The compiled view that calls use is what the rows compile to after any     *)
(* sequence of requests that do not overlap, through restarts and crashes in  *)
(* the middle of one, with every attempt on a provider that exists and every  *)
(* provider's credential protected (reload of ai/store.go, compileRoute,      *)
(* PutProvider, DeleteProvider, PutRoute).                                    *)
THEOREM ViewStaysExact == AIRouteSpec => []ViewIsExact
<1>1. AIRouteInit => AIRouteInv
  BY AIRouteInvInit
<1>2. AIRouteInv /\ [AIRouteNext]_aiRouteVars => AIRouteInv'
  BY AIRouteInvStep
<1>3. AIRouteInv => ViewIsExact
  BY AIRouteInvSafe
<1> QED
  BY <1>1, <1>2, <1>3, PTL DEF AIRouteSpec

-----------------------------------------------------------------------------
(* Live delivery. *)

Rec == Conn \X Part
InCallAt(r) == Progress(r) \in {"joining", "leaving"}

(* Connections belong to the state the map holds, and only it is fed. *)
InCurrent ==
    /\ \A o \in Obj: members[o] # {} => o = current
    /\ \A o \in Obj: o \in joined => o = current
    /\ \A o \in Obj: jmu[o] # NoConn => o = current

(* A reconcile that calls the plugin holds the lock of that state. *)
CallHolds ==
    /\ \A r \in Rec: Progress(r) = "captured" => rec[r] \in Obj
    /\ \A r \in Rec: InCallAt(r) => /\ rec[r] = current /\ current \in Obj
                                    /\ jmu[current] = r

(* What the plugin believes, between calls and in the middle of one. *)
Fed ==
    /\ \A r \in Rec: Progress(r) = "joining" => joined = {} /\ feeding = FALSE
    /\ \A r \in Rec: Progress(r) = "leaving" => joined = {} /\ feeding = TRUE
    /\ (\A r \in Rec: ~ InCallAt(r)) => feeding = (joined # {})

(* A reconcile that is still to read the demand of the state the map holds. *)
Pending(r) == Progress(r) = "reconcile" \/ (Progress(r) = "captured" /\ rec[r] = current)

(* Nobody watches a topic that is fed, or about to be: a reconcile is due. *)
LeaveDue ==
    current \in Obj /\ members[current] = {}
      /\ (joined # {} \/ \E r \in Rec: Progress(r) = "joining") =>
        \E r \in Rec: Pending(r)

ListedIn == \A c \in Listed: current \in Obj /\ c \in members[current]

(* A connection makes at most one state, so there is always a fresh one. *)
Started == {c \in Conn: open[c] \notin {"new", "admitted", "refused"}}
Used == {o \in Obj: o = current \/ \E r \in Rec: rec[r] = o}
Counted == Cardinality(Used) <= Cardinality(Started)

PushInv == PushTypeOK /\ InCurrent /\ CallHolds /\ Fed /\ LeaveDue /\ ListedIn /\ Counted

LEMMA ObjFacts ==
    /\ Cardinality(Conn) \in Nat /\ Obj \subseteq Nat /\ 0 \notin Obj
    /\ IsFiniteSet(Obj) /\ Cardinality(Obj) = Cardinality(Conn)
    /\ \A o \in 0..Cardinality(Conn) : o = 0 \/ o \in Obj
    /\ \A o \in Obj : o \in 0..Cardinality(Conn)
<1>1. Cardinality(Conn) \in Nat
  BY PushConstants, FS_CardinalityType
<1>2. IsFiniteSet(1..Cardinality(Conn))
        /\ Cardinality(1..Cardinality(Conn)) = IF 1 > Cardinality(Conn) THEN 0 ELSE Cardinality(Conn) - 1 + 1
  BY <1>1, FS_Interval
<1>3. Cardinality(1..Cardinality(Conn)) = Cardinality(Conn)
  BY <1>1, <1>2
<1> QED
  BY <1>1, <1>2, <1>3 DEF Obj

LEMMA RecParts ==
    ASSUME NEW r \in Rec
    PROVE  /\ r[1] \in Conn /\ r[2] \in {"open", "close"} /\ r = <<r[1], r[2]>>
           /\ r # NoConn
<1>1. r \in Conn \X {"open", "close"}
  BY DEF Rec, Part
<1> QED
  BY <1>1, PushConstants

(* A reconcile that goes on changes its own progress and no other. *)
LEMMA ProgressMoves ==
    ASSUME PushTypeOK, NEW r \in Rec, NEW to \in {"done"} \cup Calls, SetProgress(r, to)
    PROVE  /\ Progress(r)' = to
           /\ \A q \in Rec \ {r} : Progress(q)' = Progress(q)
           /\ open' \in [Conn -> {"new", "admitted", "listed", "reconcile", "done", "refused"} \cup Calls]
           /\ closing' \in [Conn -> {"no", "due", "reconcile", "done"} \cup Calls]
<1>0. /\ open \in [Conn -> {"new", "admitted", "listed", "reconcile", "done", "refused"} \cup Calls]
      /\ closing \in [Conn -> {"no", "due", "reconcile", "done"} \cup Calls]
  BY DEF PushTypeOK
<1>1. r[1] \in Conn
  BY RecParts
<1>2. ASSUME NEW q \in Rec \ {r} PROVE q[1] # r[1] \/ q[2] # r[2]
  BY RecParts
<1>3. CASE r[2] = "open"
  <2>1. open' = [open EXCEPT ![r[1]] = to] /\ closing' = closing
    BY <1>3 DEF SetProgress
  <2>2. ASSUME NEW q \in Rec \ {r} PROVE Progress(q)' = Progress(q)
    BY <1>0, <1>1, <1>2, <1>3, <2>1, RecParts DEF Progress
  <2> QED
    BY <1>0, <1>1, <1>3, <2>1, <2>2 DEF Progress
<1>4. CASE r[2] # "open"
  <2>1. closing' = [closing EXCEPT ![r[1]] = to] /\ open' = open
    BY <1>4 DEF SetProgress
  <2>2. ASSUME NEW q \in Rec \ {r} PROVE Progress(q)' = Progress(q)
    BY <1>0, <1>1, <1>2, <1>4, <2>1, RecParts DEF Progress
  <2> QED
    BY <1>0, <1>1, <1>4, <2>1, <2>2 DEF Progress
<1> QED
  BY <1>3, <1>4

(* The sets that Counted compares are finite. *)
LEMMA CountedFinite ==
    /\ IsFiniteSet(Used) /\ Cardinality(Used) \in Nat
    /\ IsFiniteSet(Started) /\ Cardinality(Started) \in Nat
<1>1. Used \subseteq Obj /\ Started \subseteq Conn
  BY DEF Used, Started
<1>2. IsFiniteSet(Used)
  BY <1>1, ObjFacts, FS_Subset
<1>3. IsFiniteSet(Started)
  BY <1>1, PushConstants, FS_Subset
<1> QED
  BY <1>2, <1>3, FS_CardinalityType

(* Fewer states in use, not fewer connections started. *)
LEMMA CountedKept ==
    ASSUME Counted, Used' \subseteq Used, Started \subseteq Started'
    PROVE  Counted'
<1>1. IsFiniteSet(Used) /\ Cardinality(Used) \in Nat /\ Cardinality(Started) \in Nat
  BY CountedFinite
<1>2. (IsFiniteSet(Started) /\ Cardinality(Started) \in Nat /\ Cardinality(Used) \in Nat)'
  BY CountedFinite, PTL
<1>3. Cardinality(Used') <= Cardinality(Used)
  BY <1>1, FS_Subset
<1>4. Cardinality(Started) <= Cardinality(Started')
  BY <1>2, FS_Subset
<1> QED
  BY <1>1, <1>2, <1>3, <1>4 DEF Counted

(* There is a state nobody uses while a connection is still to be listed. *)
LEMMA FreshThere ==
    ASSUME PushInv, current = 0, NEW c \in Conn, open[c] = "admitted"
    PROVE  /\ FreshObj \in Obj /\ FreshObj \notin Used /\ members[FreshObj] = {}
           /\ jmu[FreshObj] = NoConn
<1>0. InCurrent /\ CallHolds /\ Counted
  BY DEF PushInv
<1>1. IsFiniteSet(Used) /\ Cardinality(Used) \in Nat
        /\ IsFiniteSet(Started) /\ Cardinality(Started) \in Nat
  BY CountedFinite
<1>2. Cardinality(Started) < Cardinality(Conn)
  <2>1. Started \subseteq Conn /\ c \notin Started
    BY DEF Started
  <2>2. Started # Conn
    BY <2>1
  <2> QED
    BY <1>1, <2>1, <2>2, PushConstants, ObjFacts, FS_Subset
<1>3. PICK o \in Obj : o \notin Used
  <2> SUFFICES ASSUME Obj \subseteq Used PROVE FALSE
    OBVIOUS
  <2>1. Used = Obj
    BY DEF Used
  <2> QED
    BY <1>0, <1>1, <1>2, <2>1, ObjFacts DEF Counted
<1>4. \A x \in Obj : members[x] = {} /\ x \notin joined /\ jmu[x] = NoConn
  BY <1>0, ObjFacts DEF InCurrent
<1>5. members[o] = {} /\ o \notin joined /\ o # current
                /\ jmu[o] = NoConn /\ \A r \in Conn \X Part: rec[r] # o
  BY <1>3, <1>4 DEF Used, Rec
<1>6. FreshObj \in Obj /\ FreshObj # current /\ \A r \in Conn \X Part: rec[r] # FreshObj
  BY <1>5 DEF FreshObj
<1> QED
  BY <1>4, <1>6 DEF Used, Rec

LEMMA PushInvInit == PushInit => PushInv
<1> SUFFICES ASSUME PushInit PROVE PushInv
  OBVIOUS
<1> USE DEF PushInit
<1>1. PushTypeOK
  <2>1. 0 \in 0..Cardinality(Conn) /\ 0 \in 0..(OutBuffer + 1)
    BY ObjFacts, PushConstants
  <2> QED
    BY <2>1 DEF PushTypeOK
<1>2. \A r \in Rec : rec[r] = 0 /\ Progress(r) \in {"new", "no"}
  BY RecParts DEF Progress, Rec
<1>3. InCurrent /\ CallHolds /\ Fed /\ LeaveDue
  BY <1>2, ObjFacts DEF InCurrent, CallHolds, Fed, LeaveDue, InCallAt
<1>4. ListedIn
  BY DEF ListedIn, Listed
<1>5. Used = {} /\ Started = {}
  BY <1>2, ObjFacts DEF Used, Started
<1>6. Counted
  BY <1>5, FS_EmptySet DEF Counted
<1> QED
  BY <1>1, <1>3, <1>4, <1>6 DEF PushInv

LEMMA PushInvSafe == PushInv => PushSafe
<1> SUFFICES ASSUME PushInv PROVE PushSafe
  OBVIOUS
<1>0. PushTypeOK /\ InCurrent /\ CallHolds /\ Fed /\ LeaveDue /\ ListedIn
  BY DEF PushInv
<1>1. InCall = {r \in Rec : InCallAt(r)}
  BY DEF InCall, InCallAt, Rec
<1>2. Cardinality(InCall) <= 1
  <2>1. CASE InCall = {}
    BY <2>1, FS_EmptySet
  <2>2. CASE InCall # {}
    <3>1. PICK r \in InCall : TRUE
      BY <2>2
    <3>2. \A q \in InCall : q = r
      BY <1>0, <1>1 DEF CallHolds
    <3>3. InCall = {r}
      BY <3>1, <3>2
    <3>4. Cardinality({r}) = 1
      BY FS_Singleton
    <3> QED
      BY <3>3, <3>4
  <2> QED
    BY <2>1, <2>2
<1>3. \A r \in InCall : feeding = (Progress(r) = "leaving")
  <2>1. ASSUME NEW r \in Rec, Progress(r) = "leaving" PROVE feeding = (Progress(r) = "leaving")
    BY <1>0, <2>1 DEF Fed
  <2>2. ASSUME NEW r \in Rec, Progress(r) = "joining" PROVE feeding = (Progress(r) = "leaving")
    BY <1>0, <2>2 DEF Fed
  <2> QED
    BY <1>1, <2>1, <2>2 DEF InCallAt
<1>4. DemandMet
  <2> SUFFICES ASSUME \A r \in Rec: Progress(r) \in {"new", "done", "refused", "no"}
               PROVE  /\ feeding = (current # 0 /\ current \in joined)
                      /\ feeding => members[current] # {}
                      /\ \A c \in Listed: current # 0 /\ c \in members[current]
    BY DEF DemandMet, Rec
  <2>1. feeding = (joined # {})
    BY <1>0 DEF Fed, InCallAt
  <2>2. joined # {} => current # 0 /\ current \in joined /\ current \in Obj
    BY <1>0, ObjFacts, ZenonT(40) DEF InCurrent, PushTypeOK
  <2>3. feeding = (current # 0 /\ current \in joined)
    BY <2>1, <2>2
  <2>4. feeding => members[current] # {}
    BY <1>0, <2>1, <2>2 DEF LeaveDue, Pending
  <2>5. \A c \in Listed: current # 0 /\ c \in members[current]
    BY <1>0, ObjFacts DEF ListedIn
  <2> QED
    BY <2>3, <2>4, <2>5
<1> QED
  BY <1>0, <1>2, <1>3, <1>4 DEF PushSafe, JoinLeaveAlternate

(* A step outside reconcile that neither lists nor closes a connection. *)
Calm ==
    /\ UNCHANGED <<current, members, joined, jmu, rec, feeding>>
    /\ \A r \in Rec: \/ Progress(r)' = Progress(r)
                     \/ /\ Progress(r) \notin Calls \cup {"reconcile"}
                        /\ Progress(r)' \notin Calls
    /\ Listed' \subseteq Listed /\ Started \subseteq Started'

LEMMA CalmKeeps ==
    ASSUME PushInv, PushTypeOK', Calm
    PROVE  PushInv'
<1>0. PushTypeOK /\ InCurrent /\ CallHolds /\ Fed /\ LeaveDue /\ ListedIn /\ Counted
  BY DEF PushInv
<1>1. UNCHANGED <<current, members, joined, jmu, rec, feeding>>
  BY DEF Calm
<1>2. \A r \in Rec : /\ InCallAt(r)' => InCallAt(r) /\ Progress(r)' = Progress(r)
                     /\ InCallAt(r) => InCallAt(r)'
                     /\ Progress(r)' = "captured" => Progress(r) = "captured"
                     /\ Pending(r) => Pending(r)'
  BY <1>1 DEF Calm, Calls, InCallAt, Pending
<1>3. InCurrent'
  BY <1>0, <1>1 DEF InCurrent
<1>4. CallHolds'
  BY <1>0, <1>1, <1>2 DEF CallHolds
<1>5. Fed'
  <2>1. \A r \in Rec: Progress(r)' = "joining" => joined' = {} /\ feeding' = FALSE
    BY <1>0, <1>1, <1>2 DEF Fed, InCallAt
  <2>2. \A r \in Rec: Progress(r)' = "leaving" => joined' = {} /\ feeding' = TRUE
    BY <1>0, <1>1, <1>2 DEF Fed, InCallAt
  <2>3. (\A r \in Rec: ~ InCallAt(r)') => feeding' = (joined' # {})
    BY <1>0, <1>1, <1>2 DEF Fed
  <2> QED
    BY <2>1, <2>2, <2>3 DEF Fed
<1>6. LeaveDue'
  BY <1>0, <1>1, <1>2 DEF LeaveDue, InCallAt
<1>7. ListedIn'
  BY <1>0, <1>1 DEF ListedIn, Calm
<1>8. Counted'
  <2>1. Used' = Used
    BY <1>1 DEF Used
  <2> QED
    BY <1>0, <2>1, CountedKept DEF Calm
<1> QED
  BY <1>3, <1>4, <1>5, <1>6, <1>7, <1>8 DEF PushInv

(* The types of what Delivered and Dropped give. *)
LEMMA DeliveredTyped ==
    ASSUME PushTypeOK, NEW cs
    PROVE  /\ Delivered(cs) \in [Conn -> 0..(OutBuffer + 1)]
           /\ Dropped(cs) \in [Conn -> {"no", "due", "reconcile", "done"} \cup Calls]
           /\ \A c \in Conn : Dropped(cs)[c] = closing[c] \/ (closing[c] = "no" /\ Dropped(cs)[c] = "due")
<1>1. \A c \in Conn : out[c] \in 0..(OutBuffer + 1)
  BY DEF PushTypeOK
<1>2. Capacity \in Nat /\ Capacity <= OutBuffer + 1
  BY PushConstants DEF Capacity
<1>3. \A c \in Conn : out[c] < Capacity => out[c] + 1 \in 0..(OutBuffer + 1)
  BY <1>1, <1>2, PushConstants
<1>4. Delivered(cs) \in [Conn -> 0..(OutBuffer + 1)]
  BY <1>1, <1>3 DEF Delivered
<1> QED
  BY <1>4 DEF Dropped, PushTypeOK

LEMMA OutsideSteps ==
    ASSUME PushInv,
           \/ \E c \in Conn : OpenAdmitted(c) \/ OpenResync(c) \/ ClientLeaves(c) \/ Transport(c)
           \/ PublishPush \/ DisablePush
    PROVE  PushInv'
<1>0. PushTypeOK
  BY DEF PushInv
<1>t. /\ open \in [Conn -> {"new", "admitted", "listed", "reconcile", "done", "refused"} \cup Calls]
      /\ closing \in [Conn -> {"no", "due", "reconcile", "done"} \cup Calls]
      /\ out \in [Conn -> 0..(OutBuffer + 1)]
  BY <1>0 DEF PushTypeOK
<1>o. ASSUME NEW c \in Conn, NEW to \in {"admitted", "refused", "reconcile"},
             open[c] \in {"new", "listed"}, to = "reconcile" <=> open[c] = "listed",
             open' = [open EXCEPT ![c] = to], out' \in [Conn -> 0..(OutBuffer + 1)],
             UNCHANGED <<pushOn, watching, current, members, joined, jmu, closing, rec, feeding>>
      PROVE  PushInv'
  <2>1. /\ open' \in [Conn -> {"new", "admitted", "listed", "reconcile", "done", "refused"} \cup Calls]
        /\ open'[c] = to /\ \A d \in Conn \ {c} : open'[d] = open[d]
    BY <1>t, <1>o
  <2>2. PushTypeOK'
    BY <1>0, <1>o, <2>1 DEF PushTypeOK
  <2>3. \A r \in Rec: \/ Progress(r)' = Progress(r)
                      \/ /\ Progress(r) \notin Calls \cup {"reconcile"}
                         /\ Progress(r)' \notin Calls
    BY <1>o, <2>1, RecParts DEF Progress, Calls
  <2>4. Listed' \subseteq Listed /\ Started \subseteq Started'
    BY <1>o, <2>1 DEF Listed, Started
  <2> QED
    BY <1>o, <2>2, <2>3, <2>4, CalmKeeps DEF Calm
<1>c. ASSUME \A c \in Conn : closing'[c] = closing[c] \/ (closing[c] \in {"no", "due"} /\ closing'[c] = "due"),
             closing' \in [Conn -> {"no", "due", "reconcile", "done"} \cup Calls],
             out' \in [Conn -> 0..(OutBuffer + 1)], pushOn' \in BOOLEAN,
             UNCHANGED <<watching, current, members, joined, jmu, open, rec, feeding>>
      PROVE  PushInv'
  <2>1. PushTypeOK'
    BY <1>0, <1>c DEF PushTypeOK
  <2>2. \A r \in Rec: \/ Progress(r)' = Progress(r)
                      \/ /\ Progress(r) \notin Calls \cup {"reconcile"}
                         /\ Progress(r)' \notin Calls
    BY <1>c, RecParts DEF Progress, Calls
  <2>3. Listed' \subseteq Listed /\ Started \subseteq Started'
    BY <1>c DEF Listed, Started
  <2> QED
    BY <1>c, <2>1, <2>2, <2>3, CalmKeeps DEF Calm
<1>1. ASSUME NEW c \in Conn, OpenAdmitted(c) PROVE PushInv'
  BY <1>o, <1>t, <1>1 DEF OpenAdmitted
<1>2. ASSUME NEW c \in Conn, OpenResync(c) PROVE PushInv'
  <2>1. out' \in [Conn -> 0..(OutBuffer + 1)]
    BY <1>0, <1>t, <1>2, DeliveredTyped DEF OpenResync
  <2> QED
    BY <1>o, <1>2, <2>1 DEF OpenResync
<1>3. ASSUME NEW c \in Conn, ClientLeaves(c) PROVE PushInv'
  <2>1. pushOn' \in BOOLEAN /\ out' \in [Conn -> 0..(OutBuffer + 1)]
    BY <1>0, <1>t, <1>3 DEF ClientLeaves, PushTypeOK
  <2> QED
    BY <1>c, <1>t, <1>3, <2>1 DEF ClientLeaves
<1>4. ASSUME NEW c \in Conn, Transport(c) PROVE PushInv'
  <2>1. out[c] - 1 \in 0..(OutBuffer + 1)
    BY <1>t, <1>4, PushConstants DEF Transport
  <2>2. pushOn' \in BOOLEAN /\ out' \in [Conn -> 0..(OutBuffer + 1)]
    BY <1>0, <1>t, <1>4, <2>1 DEF Transport, PushTypeOK
  <2> QED
    BY <1>c, <1>t, <1>4, <2>2 DEF Transport
<1>5. CASE PublishPush
  <2>1. pushOn' \in BOOLEAN /\ out' \in [Conn -> 0..(OutBuffer + 1)]
    BY <1>0, <1>5, DeliveredTyped DEF PublishPush, PushTypeOK
  <2>2. /\ closing' \in [Conn -> {"no", "due", "reconcile", "done"} \cup Calls]
        /\ \A c \in Conn : closing'[c] = closing[c] \/ (closing[c] \in {"no", "due"} /\ closing'[c] = "due")
    BY <1>0, <1>5, DeliveredTyped DEF PublishPush
  <2> QED
    BY <1>c, <1>5, <2>1, <2>2 DEF PublishPush
<1>6. CASE DisablePush
  <2>1. /\ closing' \in [Conn -> {"no", "due", "reconcile", "done"} \cup Calls]
        /\ \A c \in Conn : closing'[c] = closing[c] \/ (closing[c] \in {"no", "due"} /\ closing'[c] = "due")
    BY <1>t, <1>6 DEF DisablePush, Listed
  <2> QED
    BY <1>c, <1>t, <1>6, <2>1 DEF DisablePush
<1> QED
  BY <1>1, <1>2, <1>3, <1>4, <1>5, <1>6

LEMMA OpenListedKeeps ==
    ASSUME PushInv, NEW c \in Conn, OpenListed(c)
    PROVE  PushInv'
<1>0. PushTypeOK /\ InCurrent /\ CallHolds /\ Fed /\ LeaveDue /\ ListedIn /\ Counted
  BY DEF PushInv
<1>t. /\ open \in [Conn -> {"new", "admitted", "listed", "reconcile", "done", "refused"} \cup Calls]
      /\ out \in [Conn -> 0..(OutBuffer + 1)] /\ members \in [Obj -> SUBSET Conn]
      /\ current \in 0..Cardinality(Conn)
  BY <1>0 DEF PushTypeOK
<1>1. open[c] = "admitted" /\ UNCHANGED <<pushOn, watching, joined, jmu, closing, rec, feeding>>
  BY DEF OpenListed
<1>2. CASE open' = [open EXCEPT ![c] = "refused"] /\ UNCHANGED <<current, members, out>>
  <2>1. /\ open' \in [Conn -> {"new", "admitted", "listed", "reconcile", "done", "refused"} \cup Calls]
        /\ open'[c] = "refused" /\ \A d \in Conn \ {c} : open'[d] = open[d]
    BY <1>t, <1>2
  <2>2. PushTypeOK'
    BY <1>0, <1>1, <1>2, <2>1 DEF PushTypeOK
  <2>3. \A r \in Rec: \/ Progress(r)' = Progress(r)
                      \/ /\ Progress(r) \notin Calls \cup {"reconcile"}
                         /\ Progress(r)' \notin Calls
    BY <1>1, <2>1, RecParts DEF Progress, Calls
  <2>4. Listed' \subseteq Listed /\ Started \subseteq Started'
    BY <1>1, <2>1 DEF Listed, Started
  <2> QED
    BY <1>1, <1>2, <2>2, <2>3, <2>4, CalmKeeps DEF Calm
<1>3. ASSUME NEW o \in Obj, o = (IF current = 0 THEN FreshObj ELSE current),
             current' = o, members' = [members EXCEPT ![o] = @ \cup {c}],
             open' = [open EXCEPT ![c] = "listed"], out' = [out EXCEPT ![c] = 1]
      PROVE  PushInv'
  <2>1. /\ open' \in [Conn -> {"new", "admitted", "listed", "reconcile", "done", "refused"} \cup Calls]
        /\ open'[c] = "listed" /\ \A d \in Conn \ {c} : open'[d] = open[d]
    BY <1>t, <1>3
  <2>2. PushTypeOK'
    <3>1. 1 \in 0..(OutBuffer + 1) /\ o \in 0..Cardinality(Conn)
      BY PushConstants, ObjFacts
    <3>2. out' \in [Conn -> 0..(OutBuffer + 1)] /\ members' \in [Obj -> SUBSET Conn]
      BY <1>t, <1>3, <3>1
    <3> QED
      BY <1>0, <1>1, <1>3, <2>1, <3>1, <3>2 DEF PushTypeOK
  <2>3. \A r \in Rec: \/ Progress(r)' = Progress(r)
                      \/ Progress(r) = "admitted" /\ Progress(r)' = "listed"
    BY <1>1, <2>1, RecParts DEF Progress
  <2>4. current = 0 \/ current = o
    BY <1>3
  <2>5. /\ members'[o] = members[o] \cup {c}
        /\ \A x \in Obj \ {o} : members'[x] = members[x]
    BY <1>t, <1>3
  <2>6. InCurrent'
    BY <1>0, <1>1, <1>3, <2>4, <2>5, ObjFacts DEF InCurrent
  <2>7. CallHolds'
    BY <1>0, <1>1, <1>3, <2>3, <2>4, ObjFacts DEF CallHolds, InCallAt
  <2>8. Fed'
    <3>1. \A r \in Rec : InCallAt(r)' = InCallAt(r)
      BY <2>3 DEF InCallAt
    <3>2. \A r \in Rec: Progress(r)' = "joining" => joined' = {} /\ feeding' = FALSE
      BY <1>0, <1>1, <2>3 DEF Fed
    <3>3. \A r \in Rec: Progress(r)' = "leaving" => joined' = {} /\ feeding' = TRUE
      BY <1>0, <1>1, <2>3 DEF Fed
    <3>4. (\A r \in Rec: ~ InCallAt(r)') => feeding' = (joined' # {})
      BY <1>0, <1>1, <3>1 DEF Fed
    <3> QED
      BY <3>2, <3>3, <3>4 DEF Fed
  <2>9. LeaveDue'
    BY <1>3, <2>5 DEF LeaveDue
  <2>10. ListedIn'
    <3> SUFFICES ASSUME NEW d \in Listed' PROVE current' \in Obj /\ d \in members'[current']
      BY DEF ListedIn
    <3>1. CASE d = c
      BY <1>3, <2>5, <3>1
    <3>2. CASE d # c
      <4>1. d \in Listed
        BY <1>1, <2>1, <3>2 DEF Listed
      <4>2. current \in Obj /\ d \in members[current]
        BY <1>0, <4>1 DEF ListedIn
      <4> QED
        BY <1>3, <2>4, <2>5, <4>2, ObjFacts
    <3> QED
      BY <3>1, <3>2
  <2>11. Counted'
    <3>1. Started' = Started \cup {c} /\ c \notin Started
      BY <1>1, <2>1 DEF Started
    <3>2. Cardinality(Started') = Cardinality(Started) + 1
      BY <3>1, CountedFinite, FS_AddElement
    <3>3. Used' \subseteq Used \cup {o}
      BY <1>1, <1>3, <2>4 DEF Used
    <3>4. Cardinality(Used \cup {o}) <= Cardinality(Used) + 1
      <4>1. Cardinality(Used) \in Nat /\ IsFiniteSet(Used)
        BY CountedFinite
      <4>2. CASE o \in Used
        <5>1. Used \cup {o} = Used
          BY <4>2
        <5>2. Cardinality(Used \cup {o}) = Cardinality(Used)
          BY ONLY <5>1
        <5> QED
          BY ONLY <4>1, <5>2
      <4>3. CASE o \notin Used
        <5>1. Cardinality(Used \cup {o}) = Cardinality(Used) + 1
          BY <4>1, <4>3, FS_AddElement
        <5> QED
          BY <4>1, <5>1
      <4> QED
        BY <4>2, <4>3
    <3>5. IsFiniteSet(Used \cup {o}) /\ Cardinality(Used \cup {o}) \in Nat
      BY CountedFinite, FS_AddElement, FS_CardinalityType
    <3>6. Cardinality(Used') <= Cardinality(Used \cup {o}) /\ Cardinality(Used') \in Nat
      BY <3>3, <3>5, FS_Subset, FS_CardinalityType
    <3>7. Cardinality(Used) \in Nat /\ Cardinality(Started) \in Nat
      BY CountedFinite
    <3> QED
      BY <1>0, <3>2, <3>4, <3>5, <3>6, <3>7 DEF Counted
  <2> QED
    BY <2>2, <2>6, <2>7, <2>8, <2>9, <2>10, <2>11 DEF PushInv
<1>4. (IF current = 0 THEN FreshObj ELSE current) \in Obj
  BY <1>1, <1>t, FreshThere, ObjFacts
<1> QED
  BY <1>2, <1>3, <1>4 DEF OpenListed

LEMMA CloseKeeps ==
    ASSUME PushInv, NEW c \in Conn, Close(c)
    PROVE  PushInv'
<1>0. PushTypeOK /\ InCurrent /\ CallHolds /\ Fed /\ LeaveDue /\ ListedIn /\ Counted
  BY DEF PushInv
<1>t. /\ closing \in [Conn -> {"no", "due", "reconcile", "done"} \cup Calls]
      /\ out \in [Conn -> 0..(OutBuffer + 1)] /\ members \in [Obj -> SUBSET Conn]
  BY <1>0 DEF PushTypeOK
<1>1. /\ closing[c] = "due" /\ closing' = [closing EXCEPT ![c] = "reconcile"]
      /\ members' = [o \in Obj |-> members[o] \ {c}] /\ out' = [out EXCEPT ![c] = 0]
      /\ UNCHANGED <<pushOn, watching, current, joined, jmu, open, rec, feeding>>
  BY DEF Close
<1>2. closing'[c] = "reconcile" /\ \A d \in Conn \ {c} : closing'[d] = closing[d]
  BY <1>t, <1>1
<1>3. PushTypeOK'
  <2>1. 0 \in 0..(OutBuffer + 1)
    BY PushConstants
  <2>2. closing' \in [Conn -> {"no", "due", "reconcile", "done"} \cup Calls]
    BY <1>t, <1>1
  <2>3. out' \in [Conn -> 0..(OutBuffer + 1)] /\ members' \in [Obj -> SUBSET Conn]
    BY <1>t, <1>1, <2>1
  <2> QED
    BY <1>0, <1>1, <2>2, <2>3 DEF PushTypeOK
<1>4. \A r \in Rec: \/ Progress(r)' = Progress(r)
                    \/ Progress(r) = "due" /\ Progress(r)' = "reconcile"
  BY <1>1, <1>2, RecParts DEF Progress
<1>5. \A o \in Obj : members'[o] \subseteq members[o]
  BY <1>1
<1>6. InCurrent'
  BY <1>0, <1>1, <1>5 DEF InCurrent
<1>7. CallHolds'
  BY <1>0, <1>1, <1>4 DEF CallHolds, InCallAt
<1>8. Fed'
  <2>1. \A r \in Rec : InCallAt(r)' = InCallAt(r)
    BY <1>4 DEF InCallAt
  <2>2. \A r \in Rec: Progress(r)' = "joining" => joined' = {} /\ feeding' = FALSE
    BY <1>0, <1>1, <1>4 DEF Fed
  <2>3. \A r \in Rec: Progress(r)' = "leaving" => joined' = {} /\ feeding' = TRUE
    BY <1>0, <1>1, <1>4 DEF Fed
  <2>4. (\A r \in Rec: ~ InCallAt(r)') => feeding' = (joined' # {})
    BY <1>0, <1>1, <2>1 DEF Fed
  <2> QED
    BY <2>2, <2>3, <2>4 DEF Fed
<1>9. LeaveDue'
  <2>1. <<c, "close">> \in Rec /\ Progress(<<c, "close">>)' = "reconcile"
    BY <1>2 DEF Rec, Part, Progress
  <2>2. Pending(<<c, "close">>)'
    BY <2>1 DEF Pending
  <2> QED
    BY <2>1, <2>2 DEF LeaveDue
<1>10. ListedIn'
  <2>1. Listed' \subseteq Listed /\ c \notin Listed'
    BY <1>1, <1>2 DEF Listed
  <2> QED
    BY <1>0, <1>1, <2>1 DEF ListedIn
<1>11. Counted'
  <2>1. Used' = Used /\ Started' = Started
    BY <1>1 DEF Used, Started
  <2> QED
    BY <1>0, <2>1 DEF Counted
<1> QED
  BY <1>3, <1>6, <1>7, <1>8, <1>9, <1>10, <1>11 DEF PushInv

(* Listed and Started do not change when a reconcile goes on. *)
LEMMA ReconcileListed ==
    ASSUME PushTypeOK, NEW r \in Rec, NEW to \in {"done"} \cup Calls, SetProgress(r, to),
           Progress(r) \in Calls \cup {"reconcile"}
    PROVE  Listed' = Listed /\ Started' = Started
<1>0. /\ open \in [Conn -> {"new", "admitted", "listed", "reconcile", "done", "refused"} \cup Calls]
      /\ closing \in [Conn -> {"no", "due", "reconcile", "done"} \cup Calls]
      /\ r[1] \in Conn
  BY RecParts DEF PushTypeOK
<1>1. CASE r[2] = "open"
  <2>1. open' = [open EXCEPT ![r[1]] = to] /\ closing' = closing /\ open[r[1]] \in Calls \cup {"reconcile"}
    BY <1>1 DEF SetProgress, Progress
  <2>2. open'[r[1]] = to /\ \A d \in Conn \ {r[1]} : open'[d] = open[d]
    BY <1>0, <2>1
  <2>3. \A d \in Conn : open'[d] \in {"new", "admitted", "refused"} <=> open[d] \in {"new", "admitted", "refused"}
    BY <2>1, <2>2 DEF Calls
  <2> QED
    BY <2>1, <2>3 DEF Listed, Started
<1>2. CASE r[2] # "open"
  <2>1. closing' = [closing EXCEPT ![r[1]] = to] /\ open' = open /\ closing[r[1]] \in Calls \cup {"reconcile"}
    BY <1>2 DEF SetProgress, Progress
  <2>2. closing'[r[1]] = to /\ \A d \in Conn \ {r[1]} : closing'[d] = closing[d]
    BY <1>0, <2>1
  <2>3. \A d \in Conn : closing'[d] \in {"no", "due"} <=> closing[d] \in {"no", "due"}
    BY <2>1, <2>2 DEF Calls
  <2> QED
    BY <2>1, <2>3 DEF Listed, Started
<1> QED
  BY <1>1, <1>2

LEMMA CaptureKeeps ==
    ASSUME PushInv, NEW r \in Rec, Capture(r)
    PROVE  PushInv'
<1>0. PushTypeOK /\ InCurrent /\ CallHolds /\ Fed /\ LeaveDue /\ ListedIn /\ Counted
  BY DEF PushInv
<1>1. Progress(r) = "reconcile" /\ UNCHANGED <<pushOn, watching, current, members, joined, jmu, out, feeding>>
  BY DEF Capture
<1>2. PICK to \in {"done", "captured"} :
         /\ SetProgress(r, to)
         /\ to = "done" => current = 0 /\ rec' = rec
         /\ to = "captured" => current # 0 /\ rec' = [rec EXCEPT ![r] = current]
  BY DEF Capture
<1>t. rec \in [Rec -> 0..Cardinality(Conn)] /\ current \in 0..Cardinality(Conn)
  BY <1>0 DEF PushTypeOK, Rec
<1>3. /\ Progress(r)' = to /\ \A q \in Rec \ {r} : Progress(q)' = Progress(q)
      /\ open' \in [Conn -> {"new", "admitted", "listed", "reconcile", "done", "refused"} \cup Calls]
      /\ closing' \in [Conn -> {"no", "due", "reconcile", "done"} \cup Calls]
  BY <1>0, <1>2, ProgressMoves DEF Calls
<1>4. Listed' = Listed /\ Started' = Started
  BY <1>0, <1>1, <1>2, ReconcileListed DEF Calls
<1>5. /\ rec' \in [Rec -> 0..Cardinality(Conn)] /\ \A q \in Rec \ {r} : rec'[q] = rec[q]
      /\ to = "captured" => rec'[r] = current /\ current \in Obj
      /\ to = "done" => rec' = rec /\ current \notin Obj
  BY <1>t, <1>2, ObjFacts
<1>6. PushTypeOK'
  BY <1>0, <1>1, <1>3, <1>5 DEF PushTypeOK, Rec
<1>7. InCurrent'
  BY <1>0, <1>1 DEF InCurrent
<1>8. CallHolds'
  BY <1>0, <1>1, <1>3, <1>5 DEF CallHolds, InCallAt
<1>9. Fed'
  <2>1. \A q \in Rec : InCallAt(q)' = InCallAt(q)
    BY <1>1, <1>3 DEF InCallAt
  <2>2. \A q \in Rec: Progress(q)' = "joining" => joined' = {} /\ feeding' = FALSE
    BY <1>0, <1>1, <1>3 DEF Fed
  <2>3. \A q \in Rec: Progress(q)' = "leaving" => joined' = {} /\ feeding' = TRUE
    BY <1>0, <1>1, <1>3 DEF Fed
  <2>4. (\A q \in Rec: ~ InCallAt(q)') => feeding' = (joined' # {})
    BY <1>0, <1>1, <2>1 DEF Fed
  <2> QED
    BY <2>2, <2>3, <2>4 DEF Fed
<1>10. LeaveDue'
  <2>1. CASE to = "done"
    BY <1>1, <1>5, <2>1 DEF LeaveDue
  <2>2. CASE to = "captured"
    <3>1. Pending(r)'
      BY <1>1, <1>3, <1>5, <2>2 DEF Pending
    <3> QED
      BY <3>1 DEF LeaveDue
  <2> QED
    BY <2>1, <2>2
<1>11. ListedIn'
  BY <1>0, <1>1, <1>4 DEF ListedIn
<1>12. Counted'
  <2>1. Used' \subseteq Used
    BY <1>1, <1>5 DEF Used
  <2> QED
    BY <1>0, <1>4, <2>1, CountedKept
<1> QED
  BY <1>6, <1>7, <1>8, <1>9, <1>10, <1>11, <1>12 DEF PushInv

(* With the lock free, or in its own hands, no other reconcile is in a call. *)
LEMMA OneCall ==
    ASSUME PushInv
    PROVE  /\ \A r, q \in Rec : InCallAt(r) /\ InCallAt(q) => q = r
           /\ current \in Obj /\ jmu[current] = NoConn => \A r \in Rec : ~ InCallAt(r)
BY RecParts DEF PushInv, CallHolds

LEMMA ConvergeKeeps ==
    ASSUME PushInv, NEW r \in Rec, Converge(r)
    PROVE  PushInv'
<1>0. PushTypeOK /\ InCurrent /\ CallHolds /\ Fed /\ LeaveDue /\ ListedIn /\ Counted
  BY DEF PushInv
<1> DEFINE o == rec[r]
<1>1. /\ Progress(r) = "captured" /\ jmu[o] = NoConn /\ o \in Obj
      /\ UNCHANGED <<pushOn, watching, current, members, out, feeding>>
  BY <1>0 DEF Converge, LockFree, CallHolds
<1>t. /\ rec \in [Rec -> 0..Cardinality(Conn)] /\ jmu \in [Obj -> (Conn \X Part) \cup {NoConn}]
      /\ joined \subseteq Obj /\ 0 \in 0..Cardinality(Conn) /\ r \in Conn \X Part
  BY <1>0, ObjFacts DEF PushTypeOK, Rec
<1>u. ASSUME NEW to \in {"done"} \cup Calls, SetProgress(r, to)
      PROVE  /\ Progress(r)' = to /\ \A q \in Rec \ {r} : Progress(q)' = Progress(q)
             /\ open' \in [Conn -> {"new", "admitted", "listed", "reconcile", "done", "refused"} \cup Calls]
             /\ closing' \in [Conn -> {"no", "due", "reconcile", "done"} \cup Calls]
             /\ Listed' = Listed /\ Started' = Started
  BY <1>0, <1>1, <1>u, ProgressMoves, ReconcileListed DEF Calls
<1>2. CASE /\ members[o] # {} /\ o \notin joined /\ jmu' = [jmu EXCEPT ![o] = r]
           /\ SetProgress(r, "joining") /\ UNCHANGED <<joined, rec>>
  <2>1. /\ Progress(r)' = "joining" /\ \A q \in Rec \ {r} : Progress(q)' = Progress(q)
        /\ open' \in [Conn -> {"new", "admitted", "listed", "reconcile", "done", "refused"} \cup Calls]
        /\ closing' \in [Conn -> {"no", "due", "reconcile", "done"} \cup Calls]
        /\ Listed' = Listed /\ Started' = Started
    BY <1>u, <1>2 DEF Calls
  <2>2. o = current /\ joined = {}
    BY <1>0, <1>1, <1>2, <1>t DEF InCurrent
  <2>3. \A q \in Rec : ~ InCallAt(q)
    BY <1>1, <2>2, OneCall
  <2>4. feeding = FALSE
    BY <1>0, <2>2, <2>3 DEF Fed
  <2>5. /\ jmu' \in [Obj -> (Conn \X Part) \cup {NoConn}] /\ jmu'[o] = r
        /\ \A x \in Obj \ {o} : jmu'[x] = jmu[x]
    BY <1>1, <1>2, <1>t
  <2>6. PushTypeOK'
    BY <1>0, <1>1, <1>2, <2>1, <2>5 DEF PushTypeOK
  <2>7. InCurrent'
    BY <1>0, <1>1, <1>2, <2>2, <2>5 DEF InCurrent
  <2>8. CallHolds'
    BY <1>0, <1>1, <1>2, <2>1, <2>2, <2>3, <2>5 DEF CallHolds, InCallAt
  <2>9. Fed'
    BY <1>1, <1>2, <2>1, <2>2, <2>3, <2>4 DEF Fed, InCallAt
  <2>10. LeaveDue'
    BY <1>1, <1>2, <2>2 DEF LeaveDue
  <2>11. ListedIn'
    BY <1>0, <1>1, <2>1 DEF ListedIn
  <2>12. Counted'
    <3>1. Used' = Used
      BY <1>1, <1>2 DEF Used
    <3> QED
      BY <1>0, <2>1, <3>1, CountedKept
  <2> QED
    BY <2>6, <2>7, <2>8, <2>9, <2>10, <2>11, <2>12 DEF PushInv
<1>3. CASE /\ members[o] = {} /\ o \in joined /\ jmu' = [jmu EXCEPT ![o] = r]
           /\ joined' = joined \ {o} /\ SetProgress(r, "leaving") /\ UNCHANGED rec
  <2>1. /\ Progress(r)' = "leaving" /\ \A q \in Rec \ {r} : Progress(q)' = Progress(q)
        /\ open' \in [Conn -> {"new", "admitted", "listed", "reconcile", "done", "refused"} \cup Calls]
        /\ closing' \in [Conn -> {"no", "due", "reconcile", "done"} \cup Calls]
        /\ Listed' = Listed /\ Started' = Started
    BY <1>u, <1>3 DEF Calls
  <2>2. o = current /\ joined' = {} /\ joined # {}
    BY <1>0, <1>1, <1>3, <1>t DEF InCurrent
  <2>3. \A q \in Rec : ~ InCallAt(q)
    BY <1>1, <2>2, OneCall
  <2>4. feeding = TRUE
    BY <1>0, <2>2, <2>3 DEF Fed
  <2>5. /\ jmu' \in [Obj -> (Conn \X Part) \cup {NoConn}] /\ jmu'[o] = r
        /\ \A x \in Obj \ {o} : jmu'[x] = jmu[x]
    BY <1>1, <1>3, <1>t
  <2>6. PushTypeOK'
    BY <1>0, <1>1, <1>3, <2>1, <2>2, <2>5 DEF PushTypeOK
  <2>7. InCurrent'
    BY <1>0, <1>1, <1>3, <2>2, <2>5 DEF InCurrent
  <2>8. CallHolds'
    BY <1>0, <1>1, <1>3, <2>1, <2>2, <2>3, <2>5 DEF CallHolds, InCallAt
  <2>9. Fed'
    BY <1>1, <1>3, <2>1, <2>2, <2>3, <2>4 DEF Fed, InCallAt
  <2>10. LeaveDue'
    BY <2>1, <2>2, <2>3 DEF LeaveDue, InCallAt
  <2>11. ListedIn'
    BY <1>0, <1>1, <2>1 DEF ListedIn
  <2>12. Counted'
    <3>1. Used' = Used
      BY <1>1, <1>3 DEF Used
    <3> QED
      BY <1>0, <2>1, <3>1, CountedKept
  <2> QED
    BY <2>6, <2>7, <2>8, <2>9, <2>10, <2>11, <2>12 DEF PushInv
<1>4. CASE /\ ~ (members[o] = {} /\ o \in joined)
           /\ SetProgress(r, "done") /\ rec' = [rec EXCEPT ![r] = 0] /\ UNCHANGED <<jmu, joined>>
  <2>1. /\ Progress(r)' = "done" /\ \A q \in Rec \ {r} : Progress(q)' = Progress(q)
        /\ open' \in [Conn -> {"new", "admitted", "listed", "reconcile", "done", "refused"} \cup Calls]
        /\ closing' \in [Conn -> {"no", "due", "reconcile", "done"} \cup Calls]
        /\ Listed' = Listed /\ Started' = Started
    BY <1>u, <1>4
  <2>2. rec' \in [Rec -> 0..Cardinality(Conn)] /\ rec'[r] = 0 /\ \A q \in Rec \ {r} : rec'[q] = rec[q]
    BY <1>t, <1>4
  <2>3. PushTypeOK'
    BY <1>0, <1>1, <1>4, <2>1, <2>2 DEF PushTypeOK, Rec
  <2>4. InCurrent'
    BY <1>0, <1>1, <1>4 DEF InCurrent
  <2>5. CallHolds'
    BY <1>0, <1>1, <1>4, <2>1, <2>2 DEF CallHolds, InCallAt
  <2>6. Fed'
    <3>1. \A q \in Rec : InCallAt(q)' = InCallAt(q)
      BY <1>1, <2>1 DEF InCallAt
    <3>2. \A q \in Rec: Progress(q)' = "joining" => joined' = {} /\ feeding' = FALSE
      BY <1>0, <1>1, <1>4, <2>1 DEF Fed
    <3>3. \A q \in Rec: Progress(q)' = "leaving" => joined' = {} /\ feeding' = TRUE
      BY <1>0, <1>1, <1>4, <2>1 DEF Fed
    <3>4. (\A q \in Rec: ~ InCallAt(q)') => feeding' = (joined' # {})
      BY <1>0, <1>1, <1>4, <3>1 DEF Fed
    <3> QED
      BY <3>2, <3>3, <3>4 DEF Fed
  <2>7. LeaveDue'
    <3> SUFFICES ASSUME current \in Obj, members[current] = {},
                        joined # {} \/ \E q \in Rec: Progress(q)' = "joining"
                 PROVE  \E q \in Rec : Pending(q)'
      BY <1>1, <1>4 DEF LeaveDue
    <3>1. joined # {} \/ \E q \in Rec: Progress(q) = "joining"
      BY <2>1
    <3>2. o # current
      <4> SUFFICES ASSUME o = current PROVE FALSE
        OBVIOUS
      <4>1. \A q \in Rec : ~ InCallAt(q)
        BY <1>1, OneCall
      <4>2. current \in joined
        BY <1>0, <3>1, <4>1, <1>t DEF InCurrent, InCallAt
      <4> QED
        BY <1>4, <4>2
    <3>3. PICK q \in Rec : Pending(q)
      BY <1>0, <3>1 DEF LeaveDue
    <3>4. q # r
      BY <1>1, <3>2, <3>3 DEF Pending
    <3> QED
      BY <1>1, <2>1, <2>2, <3>3, <3>4 DEF Pending
  <2>8. ListedIn'
    BY <1>0, <1>1, <2>1 DEF ListedIn
  <2>9. Counted'
    <3>1. Used' \subseteq Used
      BY <1>1, <2>2, ObjFacts DEF Used
    <3> QED
      BY <1>0, <2>1, <3>1, CountedKept
  <2> QED
    BY <2>3, <2>4, <2>5, <2>6, <2>7, <2>8, <2>9 DEF PushInv
<1> QED
  BY <1>2, <1>3, <1>4 DEF Converge

(* Join or Leave returns: the lock is free again and nobody is in a call. *)
LEMMA ReturnKeeps ==
    ASSUME PushInv, NEW r \in Rec, JoinReturns(r) \/ LeaveReturns(r)
    PROVE  PushInv'
<1>0. PushTypeOK /\ InCurrent /\ CallHolds /\ Fed /\ LeaveDue /\ ListedIn /\ Counted
  BY DEF PushInv
<1>1. Progress(r) \in {"joining", "leaving"} /\ SetProgress(r, "done")
  BY DEF JoinReturns, LeaveReturns
<1>2. InCallAt(r) /\ rec[r] = current /\ current \in Obj /\ jmu[current] = r
  BY <1>0, <1>1 DEF CallHolds, InCallAt
<1>3. \A q \in Rec \ {r} : ~ InCallAt(q)
  BY <1>2, OneCall
<1>4. joined = {} /\ feeding = (Progress(r) = "leaving")
  <2>1. CASE Progress(r) = "leaving"
    BY <1>0, <2>1 DEF Fed
  <2>2. CASE Progress(r) = "joining"
    BY <1>0, <2>2 DEF Fed
  <2> QED
    BY <1>1, <2>1, <2>2
<1>5. /\ Progress(r)' = "done" /\ \A q \in Rec \ {r} : Progress(q)' = Progress(q)
      /\ open' \in [Conn -> {"new", "admitted", "listed", "reconcile", "done", "refused"} \cup Calls]
      /\ closing' \in [Conn -> {"no", "due", "reconcile", "done"} \cup Calls]
  BY <1>0, <1>1, ProgressMoves
<1>6. Listed' = Listed /\ Started' = Started
  BY <1>0, <1>1, ReconcileListed DEF Calls
<1>7. \A q \in Rec : ~ InCallAt(q)'
  BY <1>3, <1>5 DEF InCallAt
<1>t. /\ rec \in [Rec -> 0..Cardinality(Conn)] /\ jmu \in [Obj -> (Conn \X Part) \cup {NoConn}]
      /\ joined \subseteq Obj /\ 0 \in 0..Cardinality(Conn) /\ members \in [Obj -> SUBSET Conn]
  BY <1>0, ObjFacts DEF PushTypeOK, Rec
<1>8. /\ jmu' = [jmu EXCEPT ![current] = NoConn] /\ rec' = [rec EXCEPT ![r] = 0]
      /\ UNCHANGED <<pushOn, watching, members>>
  BY <1>2 DEF JoinReturns, LeaveReturns
<1>9. /\ rec' \in [Rec -> 0..Cardinality(Conn)] /\ rec'[r] = 0 /\ \A q \in Rec \ {r} : rec'[q] = rec[q]
      /\ jmu' \in [Obj -> (Conn \X Part) \cup {NoConn}]
  BY <1>t, <1>8
<1>10. \A x \in Obj : jmu'[x] = NoConn
  BY <1>0, <1>2, <1>t, <1>8 DEF InCurrent
<1>11. CallHolds'
  BY <1>0, <1>3, <1>5, <1>7, <1>9 DEF CallHolds
<1>12. ASSUME current' = current PROVE InCurrent' \/ joined' # joined
  BY <1>0, <1>8, <1>10, <1>12 DEF InCurrent
<1>u. ASSUME current' \in {current, 0} PROVE Counted'
  <2>1. Used' \subseteq Used
    BY <1>9, <1>u, ObjFacts DEF Used
  <2> QED
    BY <1>0, <1>6, <2>1, CountedKept
<1>13. CASE JoinReturns(r)
  <2>1. current' = current /\ Progress(r) = "joining"
    BY <1>13 DEF JoinReturns
  <2>2. CASE joined' = joined \cup {current} /\ feeding' = TRUE /\ out' = out
    <3>1. PushTypeOK'
      BY <1>0, <1>2, <1>5, <1>8, <1>9, <2>1, <2>2 DEF PushTypeOK, Rec
    <3>2. InCurrent'
      BY <1>0, <1>4, <1>8, <1>10, <2>1, <2>2 DEF InCurrent
    <3>3. Fed'
      BY <1>7, <2>2 DEF Fed, InCallAt
    <3>4. LeaveDue'
      <4> SUFFICES ASSUME members[current] = {} PROVE \E q \in Rec : Pending(q)'
        BY <1>8, <2>1 DEF LeaveDue
      <4>1. PICK q \in Rec : Pending(q)
        BY <1>0, <1>2, <2>1 DEF LeaveDue
      <4>2. q # r
        BY <2>1, <4>1 DEF Pending
      <4> QED
        BY <1>5, <1>9, <2>1, <4>1, <4>2 DEF Pending
    <3>5. ListedIn'
      BY <1>0, <1>6, <1>8, <2>1 DEF ListedIn
    <3> QED
      BY <1>11, <1>u, <2>1, <3>1, <3>2, <3>3, <3>4, <3>5 DEF PushInv
  <2>3. CASE UNCHANGED <<joined, feeding>> /\ out' = Delivered(IF current = 0 THEN {} ELSE members[current])
    <3>1. out' \in [Conn -> 0..(OutBuffer + 1)]
      BY <1>0, <2>3, DeliveredTyped
    <3>2. PushTypeOK'
      BY <1>0, <1>5, <1>8, <1>9, <2>1, <2>3, <3>1 DEF PushTypeOK, Rec
    <3>3. InCurrent'
      BY <1>0, <1>8, <1>10, <2>1, <2>3 DEF InCurrent
    <3>4. Fed'
      BY <1>4, <1>7, <2>1, <2>3 DEF Fed, InCallAt
    <3>5. LeaveDue'
      BY <1>4, <1>7, <2>3 DEF LeaveDue, InCallAt
    <3>6. ListedIn'
      BY <1>0, <1>6, <1>8, <2>1 DEF ListedIn
    <3> QED
      BY <1>11, <1>u, <2>1, <3>2, <3>3, <3>4, <3>5, <3>6 DEF PushInv
  <2> QED
    BY <1>2, <1>13, <2>2, <2>3 DEF JoinReturns
<1>14. CASE LeaveReturns(r)
  <2>1. /\ UNCHANGED <<joined, out>> /\ feeding' = FALSE
        /\ current' = IF members[current] = {} THEN 0 ELSE current
    BY <1>2, <1>14 DEF LeaveReturns, Forget
  <2>2. current' \in 0..Cardinality(Conn)
    BY <1>2, <1>t, <2>1, ObjFacts
  <2>3. PushTypeOK'
    BY <1>0, <1>5, <1>8, <1>9, <2>1, <2>2 DEF PushTypeOK, Rec
  <2>4. InCurrent'
    BY <1>0, <1>4, <1>8, <1>10, <2>1 DEF InCurrent
  <2>5. Fed'
    BY <1>4, <1>7, <2>1 DEF Fed, InCallAt
  <2>6. LeaveDue'
    BY <1>4, <1>7, <2>1 DEF LeaveDue, InCallAt
  <2>7. ListedIn'
    BY <1>0, <1>6, <1>8, <2>1 DEF ListedIn
  <2> QED
    BY <1>11, <1>u, <2>1, <2>3, <2>4, <2>5, <2>6, <2>7 DEF PushInv
<1> QED
  BY <1>13, <1>14

LEMMA PushInvStep == PushInv /\ [PushNext]_pushVars => PushInv'
<1> SUFFICES ASSUME PushInv, [PushNext]_pushVars PROVE PushInv'
  OBVIOUS
<1>1. CASE UNCHANGED pushVars
  <2>1. UNCHANGED <<pushOn, watching, current, members, joined, jmu, open, closing, rec, out, feeding>>
    BY <1>1 DEF pushVars
  <2>2. PushTypeOK' /\ Listed' = Listed /\ Started' = Started
    BY <2>1 DEF PushInv, PushTypeOK, Listed, Started
  <2>3. \A r \in Rec : Progress(r)' = Progress(r)
    BY <2>1 DEF Progress
  <2> QED
    BY <2>1, <2>2, <2>3, CalmKeeps DEF Calm
<1>2. ASSUME NEW r \in Conn \X Part, Capture(r) \/ Converge(r) \/ JoinReturns(r) \/ LeaveReturns(r)
      PROVE  PushInv'
  BY <1>2, CaptureKeeps, ConvergeKeeps, ReturnKeeps DEF Rec
<1> HIDE DEF PushInv
<1> QED
  BY <1>1, <1>2, OutsideSteps, OpenListedKeeps, CloseKeeps DEF PushNext

(* The plugin sees Join and Leave alternate and never overlap, however the    *)
(* connections that cause them interleave and although the topic's state is   *)
(* thrown away and made anew; and when no Open or Close is under way the      *)
(* topic is fed exactly if somebody watches it (reconcile of push/conn.go).   *)
THEOREM PushStaysInStep == PushSpec => []PushSafe
<1>1. PushInit => PushInv
  BY PushInvInit
<1>2. PushInv /\ [PushNext]_pushVars => PushInv'
  BY PushInvStep
<1>3. PushInv => PushSafe
  BY PushInvSafe
<1> QED
  BY <1>1, <1>2, <1>3, PTL DEF PushSpec
-----------------------------------------------------------------------------
(* What a page of the browser may reach. *)

OpRow ==
    [kind: Fetch \cup Navigate \cup {"read", "none"}, at: {"new", "engine", "run"} \cup Ended,
     url: PageUrl \cup {NoUrl}, hops: 0..(MaxRedirects + 1), why: PageUrl \cup {NoUrl}]

(* A call t that has sent n bodies: the kinds that name a url keep one of    *)
(* them, only the first hop has not sent its form, the loop ends in time.    *)
OpForm(t, n) ==
    /\ t.kind \in Fetch \cup {"goto"} => t.url \in PageUrl
    /\ t.at \in {"new", "engine"} => t.hops = 0
    /\ t.at = "run" => t.hops <= MaxRedirects
    /\ t.at \in {"new", "engine", "run"} /\ t.hops = 0 => n = 0
    /\ n <= 1 /\ (n > 0 => t.kind = "post")

(* A refused navigation was published. *)
OpTold(t, a) == t.at = "denied" /\ t.kind \in Navigate => t.why \in PageUrl /\ a[t.why] > 0

(* A denial that waits for its caller names a url, and was published if it  *)
(* says so.                                                                 *)
PendingTold ==
    pending # NoDenial => pending.url \in PageUrl /\ (pending.reported => audits[pending.url] > 0)

PageInv ==
    /\ PageTypeOK
    /\ \A u \in left: CheckURL(u) /\ CheckHost(u)
    /\ \A o \in PageOp: OpForm(ops[o], posts[o]) /\ OpTold(ops[o], audits)
    /\ PendingTold

(* Publishing a denial counts it, and loses no earlier one. *)
LEMMA AuditedCounts ==
    ASSUME PageTypeOK, NEW us
    PROVE  /\ Audited(us) \in [PageUrl -> 0..MaxAudits]
           /\ \A u \in PageUrl: audits[u] > 0 \/ u \in us => Audited(us)[u] > 0
BY PageConstants DEF PageTypeOK, Audited

(* A step of one call keeps the rows of all calls, when its own is good.    *)
LEMMA OpMoves ==
    ASSUME PageInv, NEW o \in PageOp, NEW t \in OpRow, NEW n \in 0..(MaxRedirects + 1),
           OpForm(t, n), OpTold(t, audits'),
           ops' = [ops EXCEPT ![o] = t], posts' = [posts EXCEPT ![o] = n],
           \A u \in PageUrl: audits[u] > 0 => audits'[u] > 0
    PROVE  /\ ops' \in [PageOp -> OpRow] /\ posts' \in [PageOp -> 0..(MaxRedirects + 1)]
           /\ \A q \in PageOp: OpForm(ops'[q], posts'[q]) /\ OpTold(ops'[q], audits')
<1>1. ops \in [PageOp -> OpRow] /\ posts \in [PageOp -> 0..(MaxRedirects + 1)]
  BY DEF PageInv, PageTypeOK, OpRow
<1>2. /\ ops' \in [PageOp -> OpRow] /\ posts' \in [PageOp -> 0..(MaxRedirects + 1)]
      /\ ops'[o] = t /\ posts'[o] = n
      /\ \A q \in PageOp \ {o}: ops'[q] = ops[q] /\ posts'[q] = posts[q]
  BY <1>1
<1>3. ASSUME NEW q \in PageOp \ {o}
      PROVE  OpForm(ops'[q], posts'[q]) /\ OpTold(ops'[q], audits')
  <2>1. OpForm(ops[q], posts[q]) /\ OpTold(ops[q], audits)
    BY DEF PageInv
  <2>2. OpTold(ops[q], audits')
    BY <2>1 DEF OpTold
  <2> QED
    BY <1>2, <1>3, <2>1, <2>2
<1> QED
  BY <1>2, <1>3

(* A call that leaves the engine without a denial keeps its row good.       *)
LEMMA OpEnds ==
    ASSUME PageInv, NEW o \in PageOp, NEW how \in Ended \ {"denied"}
    PROVE  LET t == [ops[o] EXCEPT !.at = how] IN
           t \in OpRow /\ OpForm(t, posts[o]) /\ \A a: OpTold(t, a)
<1> DEFINE t == [ops[o] EXCEPT !.at = how]
<1>1. ops[o] \in OpRow /\ OpForm(ops[o], posts[o])
  BY DEF PageInv, PageTypeOK, OpRow
<1>2. /\ t \in OpRow /\ t.at = how /\ t.kind = ops[o].kind /\ t.url = ops[o].url
  BY <1>1 DEF OpRow
<1> HIDE DEF t
<1>3. OpForm(t, posts[o])
  BY <1>1, <1>2 DEF OpForm, Ended
<1>4. \A a: OpTold(t, a)
  BY <1>2 DEF OpTold
<1> QED
  BY <1>2, <1>3, <1>4 DEF t

(* The row of a call that is refused for a url. *)
DeniedRow(t, u) == [t EXCEPT !.at = "denied", !.why = u]

LEMMA OpDenied ==
    ASSUME NEW t \in OpRow, NEW n, OpForm(t, n), NEW u \in PageUrl \cup {NoUrl}
    PROVE  /\ DeniedRow(t, u) \in OpRow /\ OpForm(DeniedRow(t, u), n)
           /\ DeniedRow(t, u).at = "denied" /\ DeniedRow(t, u).kind = t.kind /\ DeniedRow(t, u).why = u
<1> DEFINE d == DeniedRow(t, u)
<1>1. /\ d \in OpRow /\ d.at = "denied" /\ d.kind = t.kind /\ d.url = t.url /\ d.why = u
  BY DEF OpRow, Ended, DeniedRow
<1> HIDE DEF d
<1>2. OpForm(d, n)
  BY <1>1 DEF OpForm
<1> QED
  BY <1>1, <1>2 DEF d

(* A Get or a Post in its loop. *)
LEMMA RunningFetch ==
    ASSUME NEW t \in OpRow, NEW n, OpForm(t, n), t.at = "run", t.kind \in Fetch
    PROVE  /\ t.url \in PageUrl /\ t.hops \in 0..MaxRedirects /\ t.kind \notin Navigate
           /\ n <= 1 /\ (n > 0 => t.kind = "post") /\ (t.hops = 0 => n = 0)
<1>1. t.hops \in 0..(MaxRedirects + 1) /\ t.hops <= MaxRedirects
  BY DEF OpRow, OpForm
<1>2. t.hops \in 0..MaxRedirects
  BY <1>1, PageConstants
<1>3. t.url \in PageUrl /\ n <= 1 /\ (n > 0 => t.kind = "post") /\ (t.hops = 0 => n = 0)
  BY DEF OpForm
<1>4. t.kind \notin Navigate
  BY DEF Fetch, Navigate
<1> QED
  BY <1>2, <1>3, <1>4

(* The same for a call that sends no body. *)
LEMMA QuietOpMoves ==
    ASSUME PageInv, NEW o \in PageOp, NEW t \in OpRow, OpForm(t, posts[o]), OpTold(t, audits'),
           ops' = [ops EXCEPT ![o] = t], UNCHANGED posts,
           \A u \in PageUrl: audits[u] > 0 => audits'[u] > 0
    PROVE  /\ ops' \in [PageOp -> OpRow] /\ posts' \in [PageOp -> 0..(MaxRedirects + 1)]
           /\ \A q \in PageOp: OpForm(ops'[q], posts'[q]) /\ OpTold(ops'[q], audits')
<1>1. posts[o] \in 0..(MaxRedirects + 1) /\ posts' = [posts EXCEPT ![o] = posts[o]]
  BY DEF PageInv, PageTypeOK
<1> QED
  BY <1>1, OpMoves

(* What is left of the invariant is about the denials and the urls. *)
LEMMA PageRest ==
    ASSUME PageInv,
           ops' \in [PageOp -> OpRow], posts' \in [PageOp -> 0..(MaxRedirects + 1)],
           \A q \in PageOp: OpForm(ops'[q], posts'[q]) /\ OpTold(ops'[q], audits'),
           audits' \in [PageUrl -> 0..MaxAudits],
           \A u \in PageUrl: audits[u] > 0 => audits'[u] > 0,
           hasCheck' \in BOOLEAN, pageShut' \in BOOLEAN,
           pending' \in {pending, NoDenial},
           blockedReq' \in {blockedReq, {}}, captured' \subseteq PageUrl,
           left' = left
    PROVE  PageInv'
<1>1. PageTypeOK /\ PendingTold
  BY DEF PageInv
<1>2. NoDenial \in [url: PageUrl \cup {NoUrl}, reported: BOOLEAN]
  BY DEF NoDenial
<1>3. PageTypeOK'
  BY <1>1, <1>2 DEF PageTypeOK, OpRow
<1>4. PendingTold'
  BY <1>1 DEF PendingTold
<1> QED
  BY <1>3, <1>4 DEF PageInv

LEMMA StartOpKeeps ==
    ASSUME PageInv, NEW o \in PageOp, NEW k \in Fetch \cup Navigate \cup {"read"}, NEW u \in PageUrl,
           StartOp(o, k, u)
    PROVE  PageInv'
<1> DEFINE asked == [ops[o] EXCEPT !.kind = k, !.url = IF k \in {"click", "read"} THEN NoUrl ELSE u]
<1>0. PageTypeOK /\ ops[o] \in OpRow /\ OpForm(ops[o], posts[o]) /\ ops[o].at = "new"
  BY DEF PageInv, PageTypeOK, OpRow, StartOp
<1>1. /\ asked \in OpRow /\ asked.kind = k /\ asked.hops = 0 /\ posts[o] = 0
      /\ k \in Fetch \cup {"goto"} => asked.url = u
  BY <1>0, ZenonT(40) DEF OpRow, OpForm, Fetch, Navigate
<1>2. UNCHANGED <<hasCheck, pending, blockedReq, captured, pageShut, left, posts>>
  BY DEF StartOp
<1>3. /\ audits \in [PageUrl -> 0..MaxAudits] /\ Audited({u}) \in [PageUrl -> 0..MaxAudits]
      /\ Audited({u})[u] > 0 /\ \A v \in PageUrl: audits[v] > 0 => Audited({u})[v] > 0
  BY <1>0, AuditedCounts DEF PageTypeOK
<1>4. \/ \E at \in {"closed", "engine"}: ops' = [ops EXCEPT ![o] = [asked EXCEPT !.at = at]] /\ audits' = audits
      \/ /\ ops' = [ops EXCEPT ![o] = [asked EXCEPT !.at = "denied", !.why = u]]
         /\ audits' = Audited({u})
  BY DEF StartOp
<1> HIDE DEF asked
<1>5. PICK t \in OpRow: /\ ops' = [ops EXCEPT ![o] = t] /\ t.kind = k /\ t.hops = 0 /\ t.url = asked.url
                        /\ \/ t.at \in {"closed", "engine"} /\ audits' = audits
                           \/ t.at = "denied" /\ t.why = u /\ audits' = Audited({u})
  <2>1. CASE \E at \in {"closed", "engine"}: ops' = [ops EXCEPT ![o] = [asked EXCEPT !.at = at]] /\ audits' = audits
    <3>1. PICK at \in {"closed", "engine"}: ops' = [ops EXCEPT ![o] = [asked EXCEPT !.at = at]] /\ audits' = audits
      BY <2>1
    <3> DEFINE t == [asked EXCEPT !.at = at]
    <3>2. t \in OpRow /\ t.kind = k /\ t.hops = 0 /\ t.url = asked.url /\ t.at = at
      BY <1>1 DEF OpRow, Ended
    <3> QED
      BY <3>1, <3>2
  <2>2. CASE /\ ops' = [ops EXCEPT ![o] = [asked EXCEPT !.at = "denied", !.why = u]]
             /\ audits' = Audited({u})
    <3> DEFINE t == [asked EXCEPT !.at = "denied", !.why = u]
    <3>2. t \in OpRow /\ t.kind = k /\ t.hops = 0 /\ t.url = asked.url /\ t.at = "denied" /\ t.why = u
      BY <1>1 DEF OpRow, Ended
    <3> QED
      BY <2>2, <3>2
  <2> QED
    BY <1>4, <2>1, <2>2
<1>6. OpForm(t, posts[o])
  BY <1>1, <1>5, PageConstants DEF OpForm
<1>7. OpTold(t, audits') /\ \A v \in PageUrl: audits[v] > 0 => audits'[v] > 0
  BY <1>3, <1>5 DEF OpTold
<1>8. audits' \in [PageUrl -> 0..MaxAudits]
  BY <1>3, <1>5
<1>9. /\ ops' \in [PageOp -> OpRow] /\ posts' \in [PageOp -> 0..(MaxRedirects + 1)]
      /\ \A q \in PageOp: OpForm(ops'[q], posts'[q]) /\ OpTold(ops'[q], audits')
  BY <1>2, <1>5, <1>6, <1>7, QuietOpMoves
<1>10. hasCheck' \in BOOLEAN /\ pageShut' \in BOOLEAN /\ captured' \subseteq PageUrl
  BY <1>0, <1>2 DEF PageTypeOK
<1> QED
  BY <1>2, <1>7, <1>8, <1>9, <1>10, PageRest

LEMMA EngineKeeps ==
    ASSUME PageInv, NEW o \in PageOp, EnterEngine(o) \/ ReadPage(o)
    PROVE  PageInv'
<1>0. PageTypeOK /\ ops[o] \in OpRow /\ OpForm(ops[o], posts[o]) /\ ops[o].at = "engine"
  BY DEF PageInv, PageTypeOK, OpRow, EnterEngine, ReadPage
<1>1. /\ UNCHANGED <<blockedReq, captured, pageShut, left, posts, audits>>
      /\ hasCheck' \in {TRUE, hasCheck} /\ pending' \in {pending, NoDenial}
      /\ \E how \in {"closed", "run", "ok", "failed"}: ops' = Ends(o, how)
  BY DEF EnterEngine, ReadPage
<1>2. PICK how \in {"closed", "run", "ok", "failed"}: ops' = [ops EXCEPT ![o] = [ops[o] EXCEPT !.at = how]]
  BY <1>1 DEF Ends
<1> DEFINE t == [ops[o] EXCEPT !.at = how]
<1>3. t \in OpRow /\ t.at = how /\ t.kind = ops[o].kind /\ t.url = ops[o].url /\ t.hops = ops[o].hops
  BY <1>0 DEF OpRow, Ended
<1> HIDE DEF t
<1>4. OpForm(t, posts[o]) /\ OpTold(t, audits')
  BY <1>0, <1>3, PageConstants DEF OpForm, OpTold
<1>5. /\ ops' \in [PageOp -> OpRow] /\ posts' \in [PageOp -> 0..(MaxRedirects + 1)]
      /\ \A q \in PageOp: OpForm(ops'[q], posts'[q]) /\ OpTold(ops'[q], audits')
  BY <1>1, <1>2, <1>3, <1>4, QuietOpMoves DEF t
<1>6. /\ audits' \in [PageUrl -> 0..MaxAudits] /\ hasCheck' \in BOOLEAN /\ pageShut' \in BOOLEAN
      /\ captured' \subseteq PageUrl
  BY <1>0, <1>1 DEF PageTypeOK
<1> QED
  BY <1>1, <1>5, <1>6, PageRest

LEMMA NavigationKeeps ==
    ASSUME PageInv, NEW o \in PageOp, NavigationEnds(o)
    PROVE  PageInv'
<1>0. PageTypeOK /\ PendingTold /\ ops[o].kind \in Navigate
  BY DEF PageInv, NavigationEnds
<1>1. /\ UNCHANGED <<hasCheck, captured, pageShut, left, posts>>
      /\ pending' = NoDenial /\ blockedReq' = {}
  BY DEF NavigationEnds
<1>2. \/ \E how \in {"closed", "failed", "ok"}: ops' = Ends(o, how) /\ audits' = Audited(blockedReq)
      \/ /\ pending # NoDenial /\ ops' = DeniedFor(o, pending.url)
         /\ audits' = Audited(blockedReq \cup (IF pending.reported THEN {} ELSE {pending.url}))
      \/ \E final \in left: ops' = DeniedFor(o, final) /\ audits' = Audited(blockedReq \cup {final})
  BY DEF NavigationEnds
<1>3. PICK us: audits' = Audited(us)
  BY <1>2
<1>4. /\ audits' \in [PageUrl -> 0..MaxAudits]
      /\ \A u \in PageUrl: audits[u] > 0 \/ u \in us => audits'[u] > 0
  BY <1>0, <1>3, AuditedCounts
<1>5. \E t \in OpRow: ops' = [ops EXCEPT ![o] = t] /\ OpForm(t, posts[o]) /\ OpTold(t, audits')
  <2>1. ASSUME NEW how \in {"closed", "failed", "ok"}, ops' = Ends(o, how)
        PROVE  \E t \in OpRow: ops' = [ops EXCEPT ![o] = t] /\ OpForm(t, posts[o]) /\ OpTold(t, audits')
    <3> DEFINE t == [ops[o] EXCEPT !.at = how]
    <3>1. ops' = [ops EXCEPT ![o] = t]
      BY <2>1 DEF Ends
    <3>2. t \in OpRow /\ OpForm(t, posts[o]) /\ OpTold(t, audits')
      BY OpEnds DEF Ended
    <3> QED
      BY <3>1, <3>2
  <2>2. ASSUME NEW u \in PageUrl, ops' = DeniedFor(o, u), audits'[u] > 0
        PROVE  \E t \in OpRow: ops' = [ops EXCEPT ![o] = t] /\ OpForm(t, posts[o]) /\ OpTold(t, audits')
    <3> DEFINE t == DeniedRow(ops[o], u)
    <3>1. ops' = [ops EXCEPT ![o] = t]
      BY <2>2 DEF DeniedFor, DeniedRow
    <3>2. ops[o] \in OpRow /\ OpForm(ops[o], posts[o])
      BY DEF PageInv, PageTypeOK, OpRow
    <3>3. t \in OpRow /\ OpForm(t, posts[o]) /\ t.at = "denied" /\ t.why = u
      BY <3>2, OpDenied
    <3>4. OpTold(t, audits')
      BY <2>2, <3>3 DEF OpTold
    <3> QED
      BY <3>1, <3>3, <3>4
  <2>3. ASSUME pending # NoDenial, ops' = DeniedFor(o, pending.url),
               audits' = Audited(blockedReq \cup (IF pending.reported THEN {} ELSE {pending.url}))
        PROVE  pending.url \in PageUrl /\ audits'[pending.url] > 0
    <3> DEFINE vs == blockedReq \cup (IF pending.reported THEN {} ELSE {pending.url})
    <3>1. pending.url \in PageUrl /\ (audits[pending.url] > 0 \/ pending.url \in vs)
      BY <1>0, <2>3 DEF PendingTold
    <3> HIDE DEF vs
    <3>2. audits' = Audited(vs)
      BY <2>3 DEF vs
    <3> QED
      BY <1>0, <3>1, <3>2, AuditedCounts
  <2>4. ASSUME NEW final \in left, ops' = DeniedFor(o, final), audits' = Audited(blockedReq \cup {final})
        PROVE  final \in PageUrl /\ audits'[final] > 0
    <3>1. final \in PageUrl
      BY <1>0 DEF PageTypeOK
    <3> QED
      BY <1>0, <2>4, <3>1, AuditedCounts
  <2> QED
    BY <1>2, <2>1, <2>2, <2>3, <2>4
<1>6. PICK t \in OpRow: ops' = [ops EXCEPT ![o] = t] /\ OpForm(t, posts[o]) /\ OpTold(t, audits')
  BY <1>5
<1>7. /\ ops' \in [PageOp -> OpRow] /\ posts' \in [PageOp -> 0..(MaxRedirects + 1)]
      /\ \A q \in PageOp: OpForm(ops'[q], posts'[q]) /\ OpTold(ops'[q], audits')
  BY <1>1, <1>4, <1>6, QuietOpMoves
<1>8. hasCheck' \in BOOLEAN /\ pageShut' \in BOOLEAN /\ captured' \subseteq PageUrl
  BY <1>0, <1>1 DEF PageTypeOK
<1> QED
  BY <1>1, <1>4, <1>7, <1>8, PageRest

(* What a hop that was let through does next. *)
HopFollows(o) ==
    \/ ops' = Ends(o, "ok") /\ UNCHANGED pending
    \/ /\ pending' = NoDenial
       /\ ops' = IF pending = NoDenial THEN Ends(o, "failed") ELSE DeniedFor(o, pending.url)
    \/ \E v \in PageUrl:
          /\ ops' = [ops EXCEPT ![o].url = v, ![o].hops = @ + 1,
                                ![o].at = IF ops[o].hops < MaxRedirects THEN @ ELSE "failed"]
          /\ UNCHANGED pending

(* The rows of the calls after it, of which this one has sent n bodies. *)
LEMMA HopFollowsTo ==
    ASSUME PageInv, NEW o \in PageOp, HopFollows(o), ops[o].at = "run", ops[o].kind \in Fetch,
           NEW n \in 0..1, n > 0 => ops[o].kind = "post"
    PROVE  \E t \in OpRow: ops' = [ops EXCEPT ![o] = t] /\ OpForm(t, n) /\ OpTold(t, audits')
<1> DEFINE u == ops[o]
<1>0. u \in OpRow /\ OpForm(u, posts[o]) /\ PendingTold
  BY DEF PageInv, PageTypeOK, OpRow
<1>n. u.url \in PageUrl /\ u.hops \in 0..MaxRedirects /\ u.kind \notin Navigate
  BY <1>0, RunningFetch
<1>1. ASSUME NEW how \in {"ok", "failed"}, ops' = Ends(o, how)
      PROVE  \E t \in OpRow: ops' = [ops EXCEPT ![o] = t] /\ OpForm(t, n) /\ OpTold(t, audits')
  <2> DEFINE t == [u EXCEPT !.at = how]
  <2>1. ops' = [ops EXCEPT ![o] = t] /\ t \in OpRow /\ t.at = how /\ t.kind = u.kind /\ t.url = u.url
    BY <1>0, <1>1 DEF Ends, OpRow, Ended
  <2> HIDE DEF t
  <2>2. OpForm(t, n) /\ OpTold(t, audits')
    BY <1>n, <2>1 DEF OpForm, OpTold
  <2> QED
    BY <2>1, <2>2
<1>2. ASSUME pending # NoDenial, ops' = DeniedFor(o, pending.url)
      PROVE  \E t \in OpRow: ops' = [ops EXCEPT ![o] = t] /\ OpForm(t, n) /\ OpTold(t, audits')
  <2> DEFINE t == [u EXCEPT !.at = "denied", !.why = pending.url]
  <2>0. pending.url \in PageUrl
    BY <1>0, <1>2 DEF PendingTold
  <2>1. ops' = [ops EXCEPT ![o] = t] /\ t \in OpRow /\ t.at = "denied" /\ t.kind = u.kind /\ t.url = u.url
    BY <1>0, <1>2, <2>0 DEF DeniedFor, OpRow, Ended
  <2> HIDE DEF t
  <2>2. OpForm(t, n) /\ OpTold(t, audits')
    BY <1>n, <2>1 DEF OpForm, OpTold
  <2> QED
    BY <2>1, <2>2
<1>3. ASSUME NEW v \in PageUrl,
             ops' = [ops EXCEPT ![o].url = v, ![o].hops = @ + 1,
                                ![o].at = IF ops[o].hops < MaxRedirects THEN @ ELSE "failed"]
      PROVE  \E t \in OpRow: ops' = [ops EXCEPT ![o] = t] /\ OpForm(t, n) /\ OpTold(t, audits')
  <2> DEFINE at == IF u.hops < MaxRedirects THEN "run" ELSE "failed"
             t == [u EXCEPT !.url = v, !.hops = u.hops + 1, !.at = at]
  <2>1. ops' = [ops EXCEPT ![o] = t]
    BY <1>0, <1>3
  <2>2. /\ at \in {"run", "failed"} /\ (at = "run" => u.hops < MaxRedirects)
        /\ u.hops + 1 \in 0..(MaxRedirects + 1) /\ u.hops + 1 # 0
    BY <1>n, PageConstants
  <2> HIDE DEF at
  <2>3. t \in OpRow /\ t.at = at /\ t.kind = u.kind /\ t.url = v /\ t.hops = u.hops + 1
    BY <1>0, <2>2 DEF OpRow, Ended
  <2> HIDE DEF t
  <2>4. OpForm(t, n) /\ OpTold(t, audits')
    BY <1>n, <2>2, <2>3, PageConstants DEF OpForm, OpTold
  <2> QED
    BY <2>1, <2>3, <2>4
<1>4. \/ ops' = Ends(o, "ok") \/ ops' = Ends(o, "failed")
      \/ pending # NoDenial /\ ops' = DeniedFor(o, pending.url)
      \/ \E v \in PageUrl:
            ops' = [ops EXCEPT ![o].url = v, ![o].hops = @ + 1,
                               ![o].at = IF ops[o].hops < MaxRedirects THEN @ ELSE "failed"]
  BY Zenon DEF HopFollows
<1> DEFINE Good == \E t \in OpRow: ops' = [ops EXCEPT ![o] = t] /\ OpForm(t, n) /\ OpTold(t, audits')
<1> SUFFICES Good
  OBVIOUS
<1>5. CASE ops' = Ends(o, "ok") \/ ops' = Ends(o, "failed")
  BY <1>1, <1>5
<1>6. CASE \E v \in PageUrl:
            ops' = [ops EXCEPT ![o].url = v, ![o].hops = @ + 1,
                               ![o].at = IF ops[o].hops < MaxRedirects THEN @ ELSE "failed"]
  BY <1>3, <1>6, Zenon
<1>7. CASE pending # NoDenial /\ ops' = DeniedFor(o, pending.url)
  BY <1>2, <1>7
<1> HIDE DEF Good
<1> QED
  BY <1>4, <1>5, <1>6, <1>7, Zenon

(* One hop: what leaves passed both checks, and the form goes with the first. *)
LEMMA HopKeeps ==
    ASSUME PageInv, NEW o \in PageOp, Hop(o)
    PROVE  PageInv'
<1> DEFINE u == ops[o]
<1>0. /\ PageTypeOK /\ u \in OpRow /\ OpForm(u, posts[o]) /\ PendingTold
      /\ posts \in [PageOp -> 0..(MaxRedirects + 1)] /\ audits \in [PageUrl -> 0..MaxAudits]
  BY DEF PageInv, PageTypeOK, OpRow
<1>1. /\ UNCHANGED <<hasCheck, blockedReq, captured, pageShut>> /\ u.at = "run" /\ u.kind \in Fetch
      /\ \/ /\ ops' = DeniedFor(o, u.url) /\ UNCHANGED <<pending, left, posts>>
            /\ audits' = audits \/ audits' = Audited({u.url})
         \/ /\ HopAllowed(o) /\ CheckHost(u.url) /\ left' = left \cup {u.url} /\ UNCHANGED audits
            /\ posts' = [posts EXCEPT ![o] = IF SendsBody(o) THEN @ + 1 ELSE @]
            /\ HopFollows(o)
  BY Zenon DEF Hop, HopFollows
<1>n. /\ u.url \in PageUrl /\ u.hops \in 0..MaxRedirects /\ u.kind \notin Navigate
      /\ posts[o] <= 1 /\ (posts[o] > 0 => u.kind = "post") /\ (u.hops = 0 => posts[o] = 0)
  BY <1>0, <1>1, RunningFetch
<1>2. CASE /\ ops' = DeniedFor(o, u.url) /\ UNCHANGED <<pending, left, posts>>
           /\ audits' = audits \/ audits' = Audited({u.url})
  <2> DEFINE t == DeniedRow(u, u.url)
  <2>1. ops' = [ops EXCEPT ![o] = t]
    BY <1>2 DEF DeniedFor, DeniedRow
  <2>2. t \in OpRow /\ OpForm(t, posts[o]) /\ t.kind = u.kind
    BY <1>0, <1>n, OpDenied
  <2> HIDE DEF t
  <2>3. OpTold(t, audits')
    BY <1>n, <2>2 DEF OpTold
  <2>4. /\ audits' \in [PageUrl -> 0..MaxAudits] /\ \A w \in PageUrl: audits[w] > 0 => audits'[w] > 0
    BY <1>0, <1>2, AuditedCounts
  <2>5. /\ ops' \in [PageOp -> OpRow] /\ posts' \in [PageOp -> 0..(MaxRedirects + 1)]
        /\ \A q \in PageOp: OpForm(ops'[q], posts'[q]) /\ OpTold(ops'[q], audits')
    BY <1>2, <2>1, <2>2, <2>3, <2>4, QuietOpMoves
  <2>6. hasCheck' \in BOOLEAN /\ pageShut' \in BOOLEAN /\ captured' \subseteq PageUrl
    BY <1>0, <1>1 DEF PageTypeOK
  <2> QED
    BY <1>1, <1>2, <2>4, <2>5, <2>6, PageRest
<1>3. CASE /\ HopAllowed(o) /\ CheckHost(u.url) /\ left' = left \cup {u.url} /\ UNCHANGED audits
           /\ posts' = [posts EXCEPT ![o] = IF SendsBody(o) THEN @ + 1 ELSE @]
           /\ HopFollows(o)
  <2> DEFINE n == IF SendsBody(o) THEN posts[o] + 1 ELSE posts[o]
  <2>0. posts[o] \in 0..1 /\ 0..1 \subseteq 0..(MaxRedirects + 1)
    BY <1>0, <1>n, PageConstants
  <2>1. n \in 0..1 /\ (n > 0 => u.kind = "post") /\ posts' = [posts EXCEPT ![o] = n]
    BY <1>n, <1>3, <2>0 DEF SendsBody
  <2> HIDE DEF n
  <2>2. pending' \in {pending, NoDenial} /\ UNCHANGED audits
    BY <1>3, Zenon DEF HopFollows
  <2>3. PICK t \in OpRow: ops' = [ops EXCEPT ![o] = t] /\ OpForm(t, n) /\ OpTold(t, audits')
    BY <1>1, <1>3, <2>1, HopFollowsTo
  <2>4. /\ ops' \in [PageOp -> OpRow] /\ posts' \in [PageOp -> 0..(MaxRedirects + 1)]
        /\ \A q \in PageOp: OpForm(ops'[q], posts'[q]) /\ OpTold(ops'[q], audits')
    BY <2>0, <2>1, <2>2, <2>3, OpMoves
  <2>5. left' \subseteq PageUrl /\ \A w \in left': CheckURL(w) /\ CheckHost(w)
    BY <1>0, <1>n, <1>3 DEF HopAllowed, PageInv, PageTypeOK
  <2>6. NoDenial \in [url: PageUrl \cup {NoUrl}, reported: BOOLEAN]
    BY DEF NoDenial
  <2>7. PageTypeOK'
    BY <1>0, <1>1, <2>2, <2>4, <2>5, <2>6 DEF PageTypeOK, OpRow
  <2>8. PendingTold'
    BY <1>0, <2>2 DEF PendingTold
  <2> QED
    BY <2>4, <2>5, <2>7, <2>8 DEF PageInv
<1> QED
  BY <1>1, <1>2, <1>3

(* What the page itself asks for. *)
LEMMA OnRouteKeeps ==
    ASSUME PageInv, NEW u \in PageUrl, NEW nav \in BOOLEAN, OnRoute(u, nav)
    PROVE  PageInv'
<1>0. PageTypeOK /\ PendingTold /\ audits \in [PageUrl -> 0..MaxAudits]
  BY DEF PageInv, PageTypeOK
<1>1. UNCHANGED <<hasCheck, captured, pageShut, ops, posts>>
  BY DEF OnRoute
<1>2. /\ audits' \in [PageUrl -> 0..MaxAudits] /\ \A w \in PageUrl: audits[w] > 0 => audits'[w] > 0
      /\ GateReported(u) => audits'[u] > 0
  <2>1. /\ GateReported(u) => audits' = Audited({u})
        /\ audits' \in {audits, Audited({u})}
    BY DEF OnRoute, GateReported
  <2> QED
    BY <1>0, <2>1, AuditedCounts
<1>3. \A o \in PageOp: OpForm(ops'[o], posts'[o]) /\ OpTold(ops'[o], audits')
  <2>1. \A o \in PageOp: OpForm(ops[o], posts[o]) /\ OpTold(ops[o], audits)
    BY DEF PageInv
  <2>2. \A o \in PageOp: OpTold(ops[o], audits')
    BY <1>2, <2>1 DEF OpTold
  <2> QED
    BY <1>1, <2>1, <2>2
<1>4. /\ left' \in {left, left \cup {u}} /\ (left' # left => CheckURL(u) /\ CheckHost(u))
      /\ blockedReq' \in {blockedReq, blockedReq \cup {u}}
      /\ pending' \in {pending, [url |-> u, reported |-> GateReported(u)]}
  BY DEF OnRoute, RouteAdmits
<1>5. GateReported(u) \in BOOLEAN
  BY <1>0 DEF GateReported, PageTypeOK
<1>6. PageTypeOK'
  BY <1>0, <1>1, <1>2, <1>4, <1>5 DEF PageTypeOK
<1>7. PendingTold'
  BY <1>0, <1>2, <1>4, <1>5 DEF PendingTold
<1>8. \A w \in left': CheckURL(w) /\ CheckHost(w)
  BY <1>4 DEF PageInv
<1> QED
  BY <1>3, <1>6, <1>7, <1>8 DEF PageInv

(* Whatever calls of a plugin share a page with the requests the page fires  *)
(* by itself, nothing leaves the host that is not allowed and public, at no  *)
(* hop of a redirect; a form is sent once; and a refused navigation was      *)
(* published (onRoute, Get and Post of playwright.go, Goto and Click of      *)
(* session.go).                                                              *)
THEOREM PagesStayWithin == PageSpec => []PageSafe
<1>1. PageInit => PageInv
  <2> SUFFICES ASSUME PageInit PROVE PageInv
    OBVIOUS
  <2> DEFINE t == [kind |-> "none", at |-> "new", url |-> NoUrl, hops |-> 0, why |-> NoUrl]
  <2>1. t \in OpRow /\ t.kind = "none" /\ t.at = "new" /\ t.hops = 0
    BY PageConstants DEF OpRow
  <2>2. ops = [o \in PageOp |-> t] /\ posts = [o \in PageOp |-> 0]
    BY DEF PageInit
  <2> HIDE DEF t
  <2>3. OpForm(t, 0) /\ OpTold(t, audits)
    BY <2>1, PageConstants DEF OpForm, OpTold, Fetch
  <2>4. PageTypeOK
    <3>1. 0 \in 0..(MaxRedirects + 1) /\ 0 \in 0..MaxAudits
      BY PageConstants
    <3>2. NoDenial \in [url: PageUrl \cup {NoUrl}, reported: BOOLEAN]
      BY DEF NoDenial
    <3>3. ops \in [PageOp -> OpRow]
      BY <2>1, <2>2
    <3> QED
      BY <2>2, <3>1, <3>2, <3>3, ZenonT(40) DEF PageInit, PageTypeOK, OpRow
  <2>5. PendingTold /\ left = {}
    BY DEF PageInit, PendingTold
  <2> QED
    BY <2>2, <2>3, <2>4, <2>5 DEF PageInv
<1>2. PageInv /\ [PageNext]_pageVars => PageInv'
  <2> SUFFICES ASSUME PageInv, [PageNext]_pageVars PROVE PageInv'
    OBVIOUS
  <2>1. ASSUME NEW u \in PageUrl, OnResponse(u)
        PROVE  PageInv'
    BY <2>1 DEF OnResponse, PageInv, PageTypeOK, PendingTold
  <2>2. CASE ShutPage
    BY <2>2 DEF ShutPage, PageInv, PageTypeOK, PendingTold
  <2>3. CASE UNCHANGED pageVars
    BY <2>3 DEF pageVars, PageInv, PageTypeOK, PendingTold
  <2> HIDE DEF PageInv
  <2> QED
    BY <2>1, <2>2, <2>3, StartOpKeeps, EngineKeeps, HopKeeps, NavigationKeeps, OnRouteKeeps DEF PageNext
<1>3. PageInv => PageSafe
  BY DEF PageInv, PageSafe, OpForm, OpTold
<1> QED
  BY <1>1, <1>2, <1>3, PTL DEF PageSpec

-----------------------------------------------------------------------------
(***************************************************************************)
(* The sessions of the harness.                                            *)
(***************************************************************************)

(* A set of numbers that is not empty has a least element. *)
LEMMA LeastNumber ==
    ASSUME NEW S \in SUBSET Nat, S # {}
    PROVE  \E x \in S : \A y \in S : x <= y
<1>1. PICK x \in S : \A y \in S : ~ (<<y, x>> \in OpToRel(<, Nat))
  BY NatLessThanWellFounded, WFMin
<1>2. \A y \in S : ~ (y < x)
  BY <1>1 DEF OpToRel
<1> QED
  BY <1>2

(* Induction over the numbers, with a set in place of a predicate. *)
LEMMA InductionOnNat ==
    ASSUME NEW S, 0 \in S, \A n \in Nat : n \in S => n + 1 \in S
    PROVE  Nat \subseteq S
<1> SUFFICES ASSUME NEW T \in SUBSET Nat, T = Nat \ S, T # {} PROVE FALSE
  OBVIOUS
<1>1. PICK x \in T : \A y \in T : x <= y
  BY LeastNumber
<1>2. x \in Nat /\ x # 0 /\ x \notin S
  OBVIOUS
<1>3. x - 1 \in Nat /\ ~ (x <= x - 1) /\ (x - 1) + 1 = x
  BY ONLY <1>2
<1> QED
  BY <1>1, <1>2, <1>3

(* The sums of the beginnings of a sequence, as Total computes them. *)
IsSums(c, f) == f = [i \in 0..Len(c) |-> IF i = 0 THEN 0 ELSE f[i - 1] + c[i]]
Sums(c) == CHOOSE f : IsSums(c, f)

LEMMA TotalIsLastSum == \A c : Total(c) = Sums(c)[Len(c)]
  BY DEF Total, Sums, IsSums

(* They exist, and are numbers. *)
LEMMA SumsExist ==
    ASSUME NEW c \in Seq(Nat)
    PROVE  \E f \in [0..Len(c) -> Nat] : IsSums(c, f)
<1> DEFINE Upto(n, f) == f \in [0..n -> Nat] /\ \A i \in 0..n : f[i] = IF i = 0 THEN 0 ELSE f[i - 1] + c[i]
           S == {n \in Nat : n <= Len(c) => \E f : Upto(n, f)}
<1>0. Len(c) \in Nat /\ \A i \in 1..Len(c) : c[i] \in Nat
  BY LenProperties, ElementOfSeq
<1>1. 0 \in S
  <2>1. Upto(0, [i \in 0..0 |-> 0])
    OBVIOUS
  <2> QED
    BY <2>1
<1>2. ASSUME NEW n \in Nat, n \in S PROVE n + 1 \in S
  <2> SUFFICES ASSUME n + 1 <= Len(c) PROVE \E f : Upto(n + 1, f)
    OBVIOUS
  <2>0. n <= Len(c)
    BY <1>0
  <2>1. PICK f : Upto(n, f)
    <3> HIDE DEF Upto
    <3> QED
      BY <1>2, <2>0
  <2> DEFINE g == [i \in 0..(n + 1) |-> IF i = n + 1 THEN f[n] + c[n + 1] ELSE f[i]]
  <2>2. f[n] \in Nat /\ c[n + 1] \in Nat
    BY <1>0, <2>1
  <2>3. \A i \in 0..(n + 1) : i # n + 1 => i \in 0..n
    OBVIOUS
  <2>4. g \in [0..(n + 1) -> Nat]
    BY <2>1, <2>2, <2>3
  <2>5. ASSUME NEW i \in 0..(n + 1) PROVE g[i] = IF i = 0 THEN 0 ELSE g[i - 1] + c[i]
    <3>1. CASE i = n + 1
      <4>1. i # 0 /\ i - 1 = n /\ n \in 0..(n + 1) /\ n # n + 1
        BY <3>1
      <4> QED
        BY <3>1, <4>1
    <3>2. CASE i # n + 1
      <4>1. i \in 0..n /\ (i # 0 => i - 1 \in 0..(n + 1) /\ i - 1 # n + 1)
        BY <3>2
      <4> QED
        BY <2>1, <4>1
    <3> QED
      BY <3>1, <3>2
  <2> QED
    BY <2>4, <2>5
<1>3. Len(c) \in S
  <2> HIDE DEF S
  <2> QED
    BY <1>0, <1>1, <1>2, InductionOnNat
<1>4. PICK f : Upto(Len(c), f)
  BY <1>0, <1>3
<1>5. IsSums(c, f)
  BY <1>4 DEF IsSums
<1> QED
  BY <1>4, <1>5

(* Two sums of one sequence are the same. *)
LEMMA SumsUnique ==
    ASSUME NEW c \in Seq(Nat), NEW f, NEW g, IsSums(c, f), IsSums(c, g)
    PROVE  f = g
<1> DEFINE S == {n \in Nat : n <= Len(c) => f[n] = g[n]}
<1>0. Len(c) \in Nat
  BY LenProperties
<1>1. 0 \in S
  BY <1>0 DEF IsSums
<1>2. ASSUME NEW n \in Nat, n \in S PROVE n + 1 \in S
  <2> SUFFICES ASSUME n + 1 <= Len(c) PROVE f[n + 1] = g[n + 1]
    OBVIOUS
  <2>1. n + 1 \in 0..Len(c) /\ n + 1 # 0 /\ (n + 1) - 1 = n /\ n <= Len(c)
    BY <1>0
  <2>2. f[n + 1] = f[n] + c[n + 1] /\ g[n + 1] = g[n] + c[n + 1]
    BY <2>1 DEF IsSums
  <2> QED
    BY <1>2, <2>1, <2>2
<1>3. Nat \subseteq S
  <2> HIDE DEF S
  <2> QED
    BY <1>1, <1>2, InductionOnNat
<1>4. \A n \in 0..Len(c) : f[n] = g[n]
  BY <1>0, <1>3
<1> QED
  BY <1>0, <1>4 DEF IsSums

LEMMA SumsFacts ==
    ASSUME NEW c \in Seq(Nat)
    PROVE  IsSums(c, Sums(c)) /\ Sums(c) \in [0..Len(c) -> Nat]
<1>1. PICK f \in [0..Len(c) -> Nat] : IsSums(c, f)
  BY SumsExist
<1>2. IsSums(c, Sums(c))
  BY <1>1 DEF Sums
<1> QED
  BY <1>1, <1>2, SumsUnique

(* What the trimming needs to know of the total. *)
LEMMA TotalFacts ==
    /\ \A c \in Seq(Nat) : Total(c) \in Nat
    /\ \A c \in Seq(Nat) : Len(c) = 0 => Total(c) = 0
    /\ \A c \in Seq(Nat) : Len(c) = 1 => Total(c) = c[1]
<1> SUFFICES ASSUME NEW c \in Seq(Nat)
             PROVE  /\ Total(c) \in Nat
                    /\ Len(c) = 0 => Total(c) = 0
                    /\ Len(c) = 1 => Total(c) = c[1]
  OBVIOUS
<1>0. Len(c) \in Nat /\ \A i \in 1..Len(c) : c[i] \in Nat
  BY LenProperties, ElementOfSeq
<1>1. Sums(c) \in [0..Len(c) -> Nat] /\ Sums(c)[0] = 0
  BY <1>0, SumsFacts DEF IsSums
<1>2. Len(c) = 1 => Sums(c)[1] = Sums(c)[0] + c[1]
  <2>1. Len(c) = 1 => 1 \in 0..Len(c)
    OBVIOUS
  <2>2. IsSums(c, Sums(c))
    BY SumsFacts
  <2> QED
    BY <2>1, <2>2 DEF IsSums
<1> QED
  BY <1>0, <1>1, <1>2, TotalIsLastSum

(* Trimming keeps a part of the newest chunks, within the limit, and never  *)
(* the whole away: one chunk is not above the limit.                        *)
LEMMA TrimmedFacts ==
    ASSUME NEW c \in Seq(ChunkSize), Len(c) > 0
    PROVE  \E n \in 1..Len(c) : /\ Trimmed(c) = SubSeq(c, n, Len(c))
                                /\ Total(SubSeq(c, n, Len(c))) <= OutputLimit
<1>0. /\ OutputLimit \in Nat /\ ChunkSize \subseteq Nat /\ \A x \in ChunkSize : x <= OutputLimit
      /\ c \in Seq(Nat) /\ Len(c) \in Nat /\ \A i \in 1..Len(c) : c[i] \in ChunkSize
  <2>1. OutputLimit \in Nat /\ ChunkSize \subseteq Nat /\ \A x \in ChunkSize : x <= OutputLimit
    BY HarnessConstants
  <2>2. c \in Seq(Nat)
    BY <2>1, SeqMonotonic
  <2> QED
    BY <2>1, <2>2, ElementOfSeq, LenProperties
<1> DEFINE Rest(i) == SubSeq(c, i, Len(c))
           Within == {i \in 1..(Len(c) + 1) : Total(Rest(i)) <= OutputLimit}
<1>1. ASSUME NEW i \in 1..(Len(c) + 1)
      PROVE  /\ Rest(i) \in Seq(Nat) /\ Len(Rest(i)) = Len(c) + 1 - i
             /\ i <= Len(c) => Rest(i)[1] = c[i]
             /\ Total(Rest(i)) \in Nat
  <2>1. i \in Int /\ Len(c) \in Int /\ \A j \in i..Len(c) : c[j] \in Nat
    BY <1>0
  <2>2. /\ Rest(i) \in Seq(Nat) /\ Len(Rest(i)) = IF i <= Len(c) THEN Len(c) - i + 1 ELSE 0
        /\ \A j \in 1..(Len(c) - i + 1) : Rest(i)[j] = c[i + j - 1]
    BY <2>1, SubSeqProperties
  <2>3. Rest(i) \in Seq(Nat) /\ Len(Rest(i)) = Len(c) + 1 - i
    BY <2>1, <2>2, <1>0
  <2>4. i <= Len(c) => Rest(i)[1] = c[i]
    <3>1. i <= Len(c) => 1 \in 1..(Len(c) - i + 1) /\ i + 1 - 1 = i
      BY <2>1
    <3> HIDE DEF Rest
    <3> QED
      BY <2>2, <3>1
  <2> HIDE DEF Rest
  <2> QED
    BY <2>3, <2>4, TotalFacts
<1>2. Len(c) \in Within
  <2>1. Len(c) \in 1..(Len(c) + 1) /\ Len(Rest(Len(c))) = 1 /\ Rest(Len(c))[1] = c[Len(c)]
    BY <1>0, <1>1
  <2>2. Total(Rest(Len(c))) = c[Len(c)]
    <3> HIDE DEF Rest
    <3> QED
      BY <1>1, <2>1, TotalFacts
  <2> QED
    BY <1>0, <2>1, <2>2
<1>3. PICK m \in Within : \A j \in Within : m <= j
  <2>1. Within \in SUBSET Nat /\ Within # {}
    BY <1>2
  <2> HIDE DEF Within
  <2> QED
    BY <2>1, LeastNumber
<1> DEFINE Fit(i) == /\ Total(Rest(i)) <= OutputLimit
                     /\ i > 1 => Total(Rest(i - 1)) > OutputLimit
           n == CHOOSE i \in 1..(Len(c) + 1) : Fit(i)
<1>4. m \in 1..(Len(c) + 1) /\ Fit(m)
  <2>1. m \in 1..(Len(c) + 1) /\ Total(Rest(m)) <= OutputLimit
    BY <1>3
  <2>2. ASSUME m > 1 PROVE Total(Rest(m - 1)) > OutputLimit
    <3>1. m - 1 \in 1..(Len(c) + 1) /\ ~ (m <= m - 1)
      BY <2>1, <2>2, <1>0
    <3>2. m - 1 \notin Within
      BY <1>3, <3>1
    <3>3. ~ (Total(Rest(m - 1)) <= OutputLimit) /\ Total(Rest(m - 1)) \in Nat
      BY <1>1, <3>1, <3>2
    <3> HIDE DEF Rest
    <3> QED
      BY <1>0, <3>3
  <2> QED
    BY <2>1, <2>2
<1>5. n \in 1..(Len(c) + 1) /\ Fit(n)
  <2> HIDE DEF Fit
  <2> QED
    BY <1>4
<1>6. n # Len(c) + 1
  <2>1. Len(c) + 1 > 1 /\ (Len(c) + 1) - 1 = Len(c)
    BY <1>0
  <2>2. Total(Rest(Len(c))) <= OutputLimit /\ Total(Rest(Len(c))) \in Nat
    BY <1>2, <1>1
  <2>3. ~ (Total(Rest(Len(c))) > OutputLimit)
    <3> HIDE DEF Rest
    <3> QED
      BY <1>0, <2>2
  <2> HIDE DEF n, Rest
  <2> QED
    BY <1>5, <2>1, <2>3
<1>7. Trimmed(c) = Rest(n)
  BY DEF Trimmed
<1>8. n \in 1..Len(c) /\ Total(Rest(n)) <= OutputLimit
  <2> HIDE DEF n, Rest
  <2> QED
    BY <1>0, <1>5, <1>6
<1> HIDE DEF n
<1> QED
  BY <1>7, <1>8

(* k is the newest part of w. *)
NewestOf(k, w) ==
    /\ Len(k) <= Len(w) /\ (Len(w) > 0 => Len(k) > 0)
    /\ \A i \in 1..Len(k) : k[i] = w[Len(w) - Len(k) + i]
    /\ Total(k) <= OutputLimit

LEMMA AppendKeepsNewest ==
    ASSUME NEW k \in Seq(ChunkSize), NEW w \in Seq(ChunkSize), NewestOf(k, w), NEW x \in ChunkSize
    PROVE  /\ Trimmed(Append(k, x)) \in Seq(ChunkSize)
           /\ NewestOf(Trimmed(Append(k, x)), Append(w, x))
<1> DEFINE c == Append(k, x)
           v == Append(w, x)
<1>1. /\ c \in Seq(ChunkSize) /\ Len(c) = Len(k) + 1 /\ Len(k) \in Nat /\ c[Len(k) + 1] = x
      /\ \A i \in 1..Len(k) : c[i] = k[i]
  BY AppendProperties, LenProperties
<1>2. /\ v \in Seq(ChunkSize) /\ Len(v) = Len(w) + 1 /\ Len(w) \in Nat /\ v[Len(w) + 1] = x
      /\ \A i \in 1..Len(w) : v[i] = w[i]
  BY AppendProperties, LenProperties
<1> HIDE DEF c, v
<1>3. PICK n \in 1..Len(c) : Trimmed(c) = SubSeq(c, n, Len(c)) /\ Total(SubSeq(c, n, Len(c))) <= OutputLimit
  BY <1>1, TrimmedFacts
<1> DEFINE t == SubSeq(c, n, Len(c))
<1>4. /\ t \in Seq(ChunkSize) /\ Len(t) = Len(c) - n + 1
      /\ \A i \in 1..(Len(c) - n + 1) : t[i] = c[n + i - 1]
  <2>1. n \in Int /\ Len(c) \in Int /\ n <= Len(c) /\ \A i \in n..Len(c) : c[i] \in ChunkSize
    BY <1>1, ElementOfSeq
  <2> QED
    BY <2>1, SubSeqProperties
<1> HIDE DEF t
<1>5. Len(t) <= Len(v) /\ Len(t) > 0
  BY <1>1, <1>2, <1>4 DEF NewestOf
<1>6. ASSUME NEW i \in 1..Len(t) PROVE t[i] = v[Len(v) - Len(t) + i]
  <2>1. n + i - 1 \in 1..Len(c) /\ t[i] = c[n + i - 1]
    BY <1>1, <1>4
  <2>2. Len(v) - Len(t) + i = Len(w) - Len(k) + (n + i - 1)
    BY <1>1, <1>2, <1>4
  <2>3. CASE n + i - 1 = Len(k) + 1
    <3>1. Len(v) - Len(t) + i = Len(w) + 1
      BY <2>2, <2>3, <1>1, <1>2
    <3> QED
      BY <2>1, <2>3, <3>1, <1>1, <1>2
  <2>4. CASE n + i - 1 # Len(k) + 1
    <3> DEFINE j == n + i - 1
    <3>1. j \in 1..Len(k) /\ Len(w) - Len(k) + j \in 1..Len(w)
      BY <2>1, <2>4, <1>1, <1>2 DEF NewestOf
    <3>2. c[j] = k[j] /\ k[j] = w[Len(w) - Len(k) + j] /\ v[Len(w) - Len(k) + j] = w[Len(w) - Len(k) + j]
      BY <3>1, <1>1, <1>2 DEF NewestOf
    <3> QED
      BY <2>1, <2>2, <3>2
  <2> QED
    BY <2>3, <2>4
<1>7. NewestOf(t, v)
  BY <1>3, <1>5, <1>6 DEF NewestOf, t
<1> QED
  BY <1>3, <1>4, <1>7 DEF c, v, t

(* The newest part as a subsequence, which is how the property says it. *)
LEMMA NewestIsSuffix ==
    ASSUME NEW k \in Seq(ChunkSize), NEW w \in Seq(ChunkSize), NewestOf(k, w)
    PROVE  k = SubSeq(w, Len(w) - Len(k) + 1, Len(w))
<1> DEFINE a == Len(w) - Len(k) + 1
           t == SubSeq(w, a, Len(w))
<1>1. Len(k) \in Nat /\ Len(w) \in Nat /\ a \in Int /\ a >= 1
  BY LenProperties DEF NewestOf
<1>2. \A i \in a..Len(w) : w[i] \in ChunkSize
  BY <1>1, ElementOfSeq
<1> HIDE DEF a
<1>3. /\ t \in Seq(ChunkSize) /\ Len(t) = IF a <= Len(w) THEN Len(w) - a + 1 ELSE 0
      /\ \A i \in 1..(Len(w) - a + 1) : t[i] = w[a + i - 1]
  BY <1>1, <1>2, SubSeqProperties
<1>4. Len(t) = Len(k)
  BY <1>1, <1>3 DEF a
<1>5. ASSUME NEW i \in 1..Len(k) PROVE k[i] = t[i]
  <2>1. i \in 1..(Len(w) - a + 1) /\ a + i - 1 = Len(w) - Len(k) + i
    BY <1>1 DEF a
  <2> QED
    BY <1>3, <2>1 DEF NewestOf
<1> HIDE DEF t
<1>6. k = t
  BY <1>3, <1>4, <1>5, SeqEqual
<1> QED
  BY <1>6 DEF t, a

(* The inductive invariant: whoever supervises a session still has to do    *)
(* what its row and its events lack.                                        *)
RunRecords == [in : BOOLEAN, exited : BOOLEAN, reason : {"", "user", "shutdown"}, reaped : BOOLEAN,
               doneClosed : BOOLEAN, killer : BOOLEAN, listed : BOOLEAN, refused : BOOLEAN]
RowRecords == [state : LiveState \cup FinalState \cup {"none"}, event : LiveState \cup FinalState \cup {"none"}]
ToldRecords == [dirty : BOOLEAN, publisher : BOOLEAN, upTo : 0..MaxChunks, failed : BOOLEAN]
OutputRecords == [kept : Seq(ChunkSize), written : Seq(ChunkSize)]

Held == {s \in HSession : runs[s].in}

SlotsHeld ==
    /\ IsFiniteSet(InFlight) /\ IsFiniteSet(Held)
    /\ Cardinality(Held) + Cardinality(InFlight) <= HarnessSlots
    /\ serving = "down" => InFlight = {} /\ Held = {}

SessionTyped(s) ==
    /\ hrow[s] \in RowRecords /\ runs[s] \in RunRecords /\ told[s] \in ToldRecords
    /\ output[s] \in OutputRecords /\ Len(output[s].written) <= MaxChunks
    /\ create[s] \in {"new", "slot", "row", "started", "marked", "done"}
    /\ proc[s] \in {"none", "alive", "dead"}

(* A run that nobody entered. *)
Idle(r) == ~r.in /\ ~r.exited /\ ~r.reaped /\ ~r.doneClosed /\ ~r.killer

SessionStands(s) ==
    /\ hrow[s].state = hrow[s].event
    /\ create[s] # "done" => Idle(runs[s]) /\ ~told[s].publisher
    /\ create[s] = "marked" => hrow[s].state = "running"
    /\ runs[s].reaped => runs[s].doneClosed
    /\ runs[s].doneClosed => runs[s].exited
    /\ runs[s].exited => proc[s] = "dead"
    /\ runs[s].in /\ ~runs[s].exited => hrow[s].state \in {"running", "stopping"}
    /\ runs[s].in /\ ~runs[s].doneClosed => told[s].publisher

SessionTold(s) ==
    /\ create[s] # "done" \/ told[s].publisher \/ runs[s].doneClosed =>
         told[s].dirty \/ told[s].failed \/ told[s].upTo = Len(output[s].written)
    /\ runs[s].doneClosed /\ ~told[s].publisher => ~told[s].dirty
    /\ create[s] = "new" => ~told[s].dirty

SessionKeeps(s) == NewestOf(output[s].kept, output[s].written)

SessionOk(s) == SessionTyped(s) /\ SessionStands(s) /\ SessionTold(s) /\ SessionKeeps(s)

HarnessShape ==
    /\ serving \in {"up", "closing", "down"}
    /\ hrow = [s \in HSession |-> hrow[s]] /\ create = [s \in HSession |-> create[s]]
    /\ proc = [s \in HSession |-> proc[s]] /\ runs = [s \in HSession |-> runs[s]]
    /\ output = [s \in HSession |-> output[s]] /\ told = [s \in HSession |-> told[s]]

HarnessInv == HarnessShape /\ SlotsHeld /\ \A s \in HSession : SessionOk(s)

(* A step that leaves everything of a session alone. *)
SessionRests(s) ==
    /\ hrow'[s] = hrow[s] /\ create'[s] = create[s] /\ proc'[s] = proc[s]
    /\ runs'[s] = runs[s] /\ output'[s] = output[s] /\ told'[s] = told[s]

LEMMA RestingSession ==
    ASSUME NEW s \in HSession, SessionOk(s), SessionRests(s)
    PROVE  SessionOk(s)'
  BY DEF SessionOk, SessionTyped, SessionStands, SessionTold, SessionKeeps, SessionRests, NewestOf

(* A step of one session leaves the others alone. *)
SessionStep(s) ==
    \/ CreateSession(s) \/ CreateSteps(s) \/ WaitSteps(s)
    \/ PublishOutput(s) \/ PublisherEnds(s) \/ KillAfterTimeout(s) \/ ProcessExits(s)
    \/ \E n \in ChunkSize : WriteOutput(s, n)
    \/ \E reason \in {"user", "shutdown"} : StopSession(s, reason)

LEMMA OthersRest ==
    ASSUME HarnessShape, NEW s \in HSession, SessionStep(s)
    PROVE  HarnessShape' /\ \A t \in HSession : t # s => SessionRests(t)
<1>1. CASE CreateSession(s)
  BY <1>1 DEF CreateSession, HarnessShape, SessionRests
<1>2. CASE InsertStarting(s)
  BY <1>2 DEF InsertStarting, RowIs, HarnessShape, SessionRests
<1>3. CASE StartProcess(s)
  BY <1>3 DEF StartProcess, RowIs, HarnessShape, SessionRests
<1>4. CASE MarkStarted(s)
  BY <1>4 DEF MarkStarted, RowIs, HarnessShape, SessionRests
<1>5. CASE EnterRunning(s)
  BY <1>5 DEF EnterRunning, RowIs, HarnessShape, SessionRests
<1>6. CASE WaitReturns(s)
  BY <1>6 DEF WaitReturns, HarnessShape, SessionRests
<1>7. CASE FinishRun(s)
  BY <1>7 DEF FinishRun, RowIs, HarnessShape, SessionRests
<1>8. CASE LeaveRunning(s)
  BY <1>8 DEF LeaveRunning, HarnessShape, SessionRests
<1>9. CASE PublishOutput(s)
  BY <1>9 DEF PublishOutput, HarnessShape, SessionRests
<1>10. CASE PublisherEnds(s)
  BY <1>10 DEF PublisherEnds, HarnessShape, SessionRests
<1>11. CASE KillAfterTimeout(s)
  BY <1>11 DEF KillAfterTimeout, HarnessShape, SessionRests
<1>12. CASE ProcessExits(s)
  BY <1>12 DEF ProcessExits, HarnessShape, SessionRests
<1>13. ASSUME NEW n \in ChunkSize, WriteOutput(s, n)
       PROVE  HarnessShape' /\ \A t \in HSession : t # s => SessionRests(t)
  BY <1>13 DEF WriteOutput, HarnessShape, SessionRests
<1>14. ASSUME NEW reason \in {"user", "shutdown"}, StopSession(s, reason)
       PROVE  HarnessShape' /\ \A t \in HSession : t # s => SessionRests(t)
  BY <1>14 DEF StopSession, RowIs, HarnessShape, SessionRests
<1> QED
  BY <1>1, <1>2, <1>3, <1>4, <1>5, <1>6, <1>7, <1>8, <1>9, <1>10, <1>11, <1>12, <1>13, <1>14
     DEF SessionStep, CreateSteps, WaitSteps

LEMMA SessionFields ==
    ASSUME NEW s, SessionTyped(s)
    PROVE  /\ hrow[s] \in RowRecords /\ runs[s] \in RunRecords /\ told[s] \in ToldRecords
           /\ output[s].kept \in Seq(ChunkSize) /\ output[s].written \in Seq(ChunkSize)
           /\ Len(output[s].written) \in Nat /\ Len(output[s].written) <= MaxChunks
           /\ MaxChunks \in Nat
  BY LenProperties, HarnessConstants DEF SessionTyped, OutputRecords

(* The new row of a session, with the event that tells of it. *)
Row(state) == [state |-> state, event |-> state]

LEMMA RowOfState ==
    \A state \in LiveState \cup FinalState :
      Row(state) \in RowRecords /\ Row(state).state = state /\ Row(state).event = state
  BY DEF Row, RowRecords

LEMMA NothingRuns == NotRunning \in RunRecords /\ Idle(NotRunning)
<1>1. NotRunning \in RunRecords
  BY DEF NotRunning, RunRecords
<1>2. ~NotRunning.in /\ ~NotRunning.exited /\ ~NotRunning.reaped /\ ~NotRunning.doneClosed /\ ~NotRunning.killer
  BY DEF NotRunning
<1> QED
  BY <1>1, <1>2 DEF Idle

(* Until a session is entered nothing depends on its row and its process.   *)
LEMMA LaunchKeepsSession ==
    ASSUME NEW s \in HSession, SessionOk(s), create[s] # "done", UNCHANGED <<runs, output, told>>,
           create'[s] \in {"slot", "row", "started", "marked", "done"}, proc'[s] \in {"none", "alive", "dead"},
           hrow'[s] \in RowRecords, hrow'[s].state = hrow'[s].event,
           create'[s] = "marked" => hrow'[s].state = "running"
    PROVE  SessionOk(s)'
<1>0. SessionTyped(s) /\ SessionStands(s) /\ SessionTold(s) /\ SessionKeeps(s)
  BY DEF SessionOk
<1>1. Idle(runs[s]) /\ ~told[s].publisher
  BY <1>0 DEF SessionStands
<1>2. ~runs[s].in /\ ~runs[s].exited /\ ~runs[s].reaped /\ ~runs[s].doneClosed
  BY <1>1 DEF Idle
<1>3. SessionTyped(s)'
  BY <1>0 DEF SessionTyped
<1>4. SessionStands(s)'
  BY <1>1, <1>2 DEF SessionStands
<1>5. SessionTold(s)'
  BY <1>0, <1>1, <1>2 DEF SessionTold
<1> QED
  BY <1>0, <1>3, <1>4, <1>5 DEF SessionOk, SessionKeeps, NewestOf

LEMMA CreateKeepsSession ==
    ASSUME HarnessShape, NEW s \in HSession, SessionOk(s),
           CreateSession(s) \/ CreateSteps(s)
    PROVE  SessionOk(s)'
<1>0. SessionTyped(s) /\ SessionStands(s) /\ SessionTold(s) /\ SessionKeeps(s)
  BY DEF SessionOk
<1>a. hrow[s] \in RowRecords /\ hrow[s].state = hrow[s].event /\ proc[s] \in {"none", "alive", "dead"}
  BY <1>0 DEF SessionTyped, SessionStands
<1>b. \A state \in {"starting", "running", "failed", "interrupted"} :
        Row(state) \in RowRecords /\ Row(state).state = state /\ Row(state).event = state
  BY RowOfState DEF LiveState, FinalState
<1>1. CASE CreateSession(s)
  <2>1. create'[s] \in {"slot", "done"} /\ create[s] = "new" /\ UNCHANGED <<hrow, proc, runs, output, told>>
    BY <1>1 DEF CreateSession, HarnessShape
  <2> QED
    BY <1>a, <2>1, LaunchKeepsSession
<1>2. CASE InsertStarting(s)
  <2>1. /\ create'[s] \in {"row", "done"} /\ create[s] = "slot" /\ UNCHANGED <<proc, runs, output, told>>
        /\ hrow'[s] \in {hrow[s], Row("starting")}
    BY <1>2 DEF InsertStarting, RowIs, HarnessShape, Row
  <2>2. hrow'[s] \in RowRecords /\ hrow'[s].state = hrow'[s].event
    BY <1>a, <1>b, <2>1
  <2> QED
    BY <1>a, <2>1, <2>2, LaunchKeepsSession
<1>3. CASE StartProcess(s)
  <2>1. /\ create'[s] \in {"started", "done"} /\ create[s] = "row" /\ UNCHANGED <<runs, output, told>>
        /\ hrow'[s] \in {hrow[s], Row("failed")}
        /\ proc'[s] \in {proc[s], "alive"}
    BY <1>3 DEF StartProcess, RowIs, HarnessShape, Row
  <2>2. hrow'[s] \in RowRecords /\ hrow'[s].state = hrow'[s].event
    BY <1>a, <1>b, <2>1
  <2> QED
    BY <1>a, <2>1, <2>2, LaunchKeepsSession
<1>4. CASE MarkStarted(s)
  <2>1. /\ create'[s] \in {"marked", "done"} /\ create[s] = "started" /\ UNCHANGED <<runs, output, told>>
        /\ \/ hrow'[s] = Row("running")
           \/ create'[s] = "done" /\ hrow'[s] = Row("failed")
        /\ proc'[s] \in {proc[s], "dead"}
    BY <1>4 DEF MarkStarted, RowIs, HarnessShape, Row
  <2>2. /\ hrow'[s] \in RowRecords /\ hrow'[s].state = hrow'[s].event
        /\ create'[s] = "marked" => hrow'[s].state = "running"
    BY <1>b, <2>1
  <2> QED
    BY <1>a, <2>1, <2>2, LaunchKeepsSession
<1>5. CASE EnterRunning(s)
  <2>0. create[s] = "marked" /\ create'[s] = "done" /\ UNCHANGED output
    BY <1>5 DEF EnterRunning, HarnessShape
  <2>1. CASE /\ runs'[s] = [runs[s] EXCEPT !.in = TRUE] /\ told'[s] = [told[s] EXCEPT !.publisher = TRUE]
             /\ UNCHANGED <<hrow, proc>>
    <3>1. Idle(runs[s]) /\ runs[s] \in RunRecords /\ hrow[s].state = "running" /\ told[s] \in ToldRecords
      BY <1>0, <2>0 DEF SessionStands, SessionTyped
    <3>2. /\ runs'[s] \in RunRecords /\ runs'[s].in /\ ~runs'[s].exited /\ ~runs'[s].reaped
          /\ ~runs'[s].doneClosed
      <4>1. /\ runs[s] \in RunRecords /\ ~runs[s].in /\ ~runs[s].exited /\ ~runs[s].reaped
            /\ ~runs[s].doneClosed
        BY <3>1 DEF Idle
      <4> QED
        BY <2>1, <4>1 DEF RunRecords
    <3>3. /\ told'[s] \in ToldRecords /\ told'[s].publisher /\ told'[s].dirty = told[s].dirty
          /\ told'[s].failed = told[s].failed /\ told'[s].upTo = told[s].upTo
      BY <2>1, <3>1 DEF ToldRecords
    <3>4. SessionTyped(s)'
      BY <1>0, <2>0, <2>1, <3>2, <3>3 DEF SessionTyped
    <3>5. SessionStands(s)'
      BY <1>a, <2>0, <2>1, <3>1, <3>2, <3>3 DEF SessionStands
    <3>6. SessionTold(s)'
      BY <1>0, <2>0, <3>2, <3>3 DEF SessionTold
    <3> QED
      BY <1>0, <2>0, <3>4, <3>5, <3>6 DEF SessionOk, SessionKeeps, NewestOf
  <2>2. CASE hrow'[s] = Row("interrupted") /\ proc'[s] = "dead" /\ UNCHANGED <<runs, told>>
    <3>1. hrow'[s] \in RowRecords /\ hrow'[s].state = hrow'[s].event
      BY <1>b, <2>2
    <3> QED
      BY <2>0, <2>2, <3>1, LaunchKeepsSession
  <2> QED
    BY <1>5, <2>1, <2>2 DEF EnterRunning, RowIs, HarnessShape, Row
<1> QED
  BY <1>1, <1>2, <1>3, <1>4, <1>5 DEF CreateSteps

LEMMA OutputKeepsSession ==
    ASSUME HarnessShape, NEW s \in HSession, SessionOk(s),
           \/ PublishOutput(s) \/ PublisherEnds(s)
           \/ \E n \in ChunkSize : WriteOutput(s, n)
    PROVE  SessionOk(s)'
<1>0. SessionTyped(s) /\ SessionStands(s) /\ SessionTold(s) /\ SessionKeeps(s)
  BY DEF SessionOk
<1>a. /\ told[s] \in ToldRecords /\ output[s] \in OutputRecords
      /\ output[s].kept \in Seq(ChunkSize) /\ output[s].written \in Seq(ChunkSize)
      /\ Len(output[s].written) \in 0..MaxChunks
  BY <1>0, SessionFields DEF SessionTyped
<1> USE DEF HarnessShape
<1>1. CASE PublishOutput(s)
  <2>1. /\ told[s].publisher /\ UNCHANGED <<hrow, create, proc, runs, output>>
        /\ told'[s] \in {[told[s] EXCEPT !.dirty = FALSE, !.upTo = Len(output[s].written)],
                         [told[s] EXCEPT !.dirty = FALSE, !.failed = TRUE]}
    BY <1>1 DEF PublishOutput
  <2>2. /\ told'[s] \in ToldRecords /\ told'[s].publisher /\ ~told'[s].dirty
        /\ told'[s].failed \/ told'[s].upTo = Len(output[s].written)
    BY <1>a, <2>1, ZenonT(40) DEF ToldRecords
  <2> QED
    BY <1>0, <2>1, <2>2 DEF SessionOk, SessionTyped, SessionStands, SessionTold, SessionKeeps, NewestOf
<1>2. CASE PublisherEnds(s)
  <2>1. /\ runs[s].doneClosed /\ ~told[s].dirty /\ UNCHANGED <<hrow, create, proc, runs, output>>
        /\ told'[s] = [told[s] EXCEPT !.publisher = FALSE]
    BY <1>2 DEF PublisherEnds, MustPublish
  <2>2. /\ told'[s] \in ToldRecords /\ ~told'[s].publisher /\ told'[s].dirty = told[s].dirty
        /\ told'[s].failed = told[s].failed /\ told'[s].upTo = told[s].upTo
    BY <1>a, <2>1 DEF ToldRecords
  <2> QED
    BY <1>0, <2>1, <2>2 DEF SessionOk, SessionTyped, SessionStands, SessionTold, SessionKeeps, NewestOf
<1>3. ASSUME NEW n \in ChunkSize, WriteOutput(s, n) PROVE SessionOk(s)'
  <2>1. /\ UNCHANGED <<serving, hrow, create, proc, runs>>
        /\ told'[s] = [told[s] EXCEPT !.dirty = TRUE]
        /\ output'[s] = [output[s] EXCEPT !.written = Append(@, n), !.kept = Trimmed(Append(output[s].kept, n))]
    BY <1>3 DEF WriteOutput
  <2>2. /\ \/ create[s] # "done"
           \/ runs[s].in /\ ~runs[s].doneClosed
        /\ Len(output[s].written) < MaxChunks
    BY <1>3 DEF WriteOutput, InFlight
  <2>3. told'[s] \in ToldRecords /\ told'[s].dirty /\ told'[s].publisher = told[s].publisher
    BY <1>a, <2>1 DEF ToldRecords
  <2>4. /\ output'[s].written = Append(output[s].written, n)
        /\ output'[s].kept = Trimmed(Append(output[s].kept, n))
        /\ output'[s] \in [kept : {output'[s].kept}, written : {output'[s].written}]
    BY <1>a, <2>1 DEF OutputRecords
  <2>5. /\ output'[s].kept \in Seq(ChunkSize) /\ output'[s].written \in Seq(ChunkSize)
        /\ Len(output'[s].written) <= MaxChunks /\ SessionKeeps(s)'
    <3>1. NewestOf(output[s].kept, output[s].written)
      BY <1>0 DEF SessionKeeps
    <3>2. /\ Trimmed(Append(output[s].kept, n)) \in Seq(ChunkSize)
          /\ NewestOf(Trimmed(Append(output[s].kept, n)), Append(output[s].written, n))
      BY <1>a, <3>1, AppendKeepsNewest
    <3>3. /\ Append(output[s].written, n) \in Seq(ChunkSize)
          /\ Len(Append(output[s].written, n)) = Len(output[s].written) + 1
      BY <1>a, AppendProperties
    <3>4. Len(output[s].written) + 1 <= MaxChunks
      BY <1>a, <2>2, HarnessConstants
    <3> QED
      BY <2>4, <3>2, <3>3, <3>4 DEF SessionKeeps, NewestOf
  <2>6. output'[s] \in OutputRecords
    BY <2>4, <2>5 DEF OutputRecords
  <2>7. SessionTyped(s)'
    BY <1>0, <2>1, <2>3, <2>5, <2>6 DEF SessionTyped
  <2>8. SessionStands(s)'
    BY <1>0, <2>1, <2>3 DEF SessionStands
  <2>9. SessionTold(s)'
    <3>1. ~runs[s].doneClosed
      <4>1. create[s] # "done" => ~runs[s].doneClosed
        BY <1>0 DEF SessionStands, Idle
      <4> QED
        BY <2>2, <4>1
    <3>2. create[s] # "new"
      <4>1. create[s] # "done" => ~runs[s].in
        BY <1>0 DEF SessionStands, Idle
      <4> QED
        BY <1>3, <4>1 DEF WriteOutput, InFlight
    <3> QED
      BY <2>1, <2>3, <3>1, <3>2 DEF SessionTold
  <2> QED
    BY <2>5, <2>7, <2>8, <2>9 DEF SessionOk
<1> QED
  BY <1>1, <1>2, <1>3

(* A step of a session that was entered: its run, its process and its row.  *)
LEMMA RunKeepsSession ==
    ASSUME NEW s \in HSession, SessionOk(s), create[s] = "done", UNCHANGED <<create, output, told>>,
           hrow'[s] \in RowRecords, hrow'[s].state = hrow'[s].event,
           runs'[s] \in RunRecords, proc'[s] \in {"none", "alive", "dead"},
           runs'[s].reaped => runs'[s].doneClosed, runs'[s].doneClosed => runs'[s].exited,
           runs'[s].exited => proc'[s] = "dead",
           runs'[s].in /\ ~runs'[s].exited => hrow'[s].state \in {"running", "stopping"},
           runs'[s].in => runs[s].in, runs[s].doneClosed => runs'[s].doneClosed,
           runs'[s].doneClosed => runs[s].doneClosed \/ told[s].publisher
    PROVE  SessionOk(s)'
<1>0. SessionTyped(s) /\ SessionStands(s) /\ SessionTold(s) /\ SessionKeeps(s)
  BY DEF SessionOk
<1>1. SessionTyped(s)'
  BY <1>0 DEF SessionTyped
<1>2. SessionStands(s)'
  BY <1>0 DEF SessionStands
<1>3. SessionTold(s)'
  BY <1>0 DEF SessionTold
<1> QED
  BY <1>0, <1>1, <1>2, <1>3 DEF SessionOk, SessionKeeps, NewestOf

LEMMA StopKeepsSession ==
    ASSUME HarnessShape, NEW s \in HSession, SessionOk(s),
           \/ WaitSteps(s) \/ KillAfterTimeout(s)
           \/ \E reason \in {"user", "shutdown"} : StopSession(s, reason)
    PROVE  SessionOk(s)'
<1>0. SessionTyped(s) /\ SessionStands(s)
  BY DEF SessionOk
<1>a. /\ runs[s] \in RunRecords /\ hrow[s] \in RowRecords /\ hrow[s].state = hrow[s].event
      /\ proc[s] \in {"none", "alive", "dead"}
      /\ runs[s].reaped => runs[s].doneClosed
      /\ runs[s].doneClosed => runs[s].exited
      /\ runs[s].exited => proc[s] = "dead"
      /\ runs[s].in /\ ~runs[s].exited => hrow[s].state \in {"running", "stopping"}
      /\ runs[s].in /\ ~runs[s].doneClosed => told[s].publisher
  BY <1>0 DEF SessionTyped, SessionStands
<1>b. runs[s].in \/ runs[s].killer => create[s] = "done"
  BY <1>0 DEF SessionStands, Idle
<1>c. \A state \in {"stopping", "stopped", "exited", "failed"} :
        Row(state) \in RowRecords /\ Row(state).state = state /\ Row(state).event = state
  BY RowOfState DEF LiveState, FinalState
<1>1. CASE WaitReturns(s)
  <2>1. /\ runs[s].in /\ proc[s] = "dead" /\ runs'[s] = [runs[s] EXCEPT !.exited = TRUE]
        /\ UNCHANGED <<hrow, create, proc, output, told>>
    BY <1>1 DEF WaitReturns, HarnessShape
  <2>2. /\ runs'[s] \in RunRecords /\ runs'[s].exited /\ runs'[s].in = runs[s].in
        /\ runs'[s].reaped = runs[s].reaped /\ runs'[s].doneClosed = runs[s].doneClosed
    BY <1>a, <2>1 DEF RunRecords
  <2> QED
    BY <1>a, <1>b, <2>1, <2>2, RunKeepsSession
<1>2. CASE FinishRun(s)
  <2>1. PICK code \in {0, 1}, written \in BOOLEAN :
          /\ hrow' = IF written THEN RowIs(s, FinalRow(s, code)) ELSE hrow
          /\ runs' = [runs EXCEPT ![s].doneClosed = TRUE, ![s].reaped = written]
    BY <1>2 DEF FinishRun
  <2>2. /\ runs[s].in /\ runs[s].exited /\ ~runs[s].doneClosed
        /\ UNCHANGED <<create, proc, output, told>>
        /\ runs'[s] = [runs[s] EXCEPT !.doneClosed = TRUE, !.reaped = written]
        /\ hrow'[s] \in {hrow[s], Row("stopped"), Row("exited"), Row("failed")}
    BY <1>2, <2>1 DEF FinishRun, HarnessShape, RowIs, FinalRow, Row
  <2>3. /\ runs'[s] \in RunRecords /\ runs'[s].exited = runs[s].exited /\ runs'[s].in = runs[s].in
        /\ runs'[s].doneClosed
    BY <1>a, <2>2 DEF RunRecords
  <2>4. hrow'[s] \in RowRecords /\ hrow'[s].state = hrow'[s].event
    BY <1>a, <1>c, <2>2
  <2> QED
    BY <1>a, <1>b, <2>2, <2>3, <2>4, RunKeepsSession
<1>3. CASE LeaveRunning(s)
  <2>1. /\ runs[s].in /\ runs'[s] = [runs[s] EXCEPT !.in = FALSE, !.killer = FALSE]
        /\ UNCHANGED <<hrow, create, proc, output, told>>
    BY <1>3 DEF LeaveRunning, HarnessShape
  <2>2. /\ runs'[s] \in RunRecords /\ ~runs'[s].in /\ runs'[s].exited = runs[s].exited
        /\ runs'[s].reaped = runs[s].reaped /\ runs'[s].doneClosed = runs[s].doneClosed
    BY <1>a, <2>1 DEF RunRecords
  <2> QED
    BY <1>a, <1>b, <2>1, <2>2, RunKeepsSession
<1>4. CASE KillAfterTimeout(s)
  <2>1. /\ runs[s].killer /\ runs'[s] = [runs[s] EXCEPT !.killer = FALSE]
        /\ proc'[s] = (IF proc[s] = "alive" THEN "dead" ELSE proc[s])
        /\ UNCHANGED <<hrow, create, output, told>>
    BY <1>4 DEF KillAfterTimeout, HarnessShape
  <2>2. /\ runs'[s] \in RunRecords /\ runs'[s].in = runs[s].in /\ runs'[s].exited = runs[s].exited
        /\ runs'[s].reaped = runs[s].reaped /\ runs'[s].doneClosed = runs[s].doneClosed
    BY <1>a, <2>1 DEF RunRecords
  <2> QED
    BY <1>a, <1>b, <2>1, <2>2, RunKeepsSession
<1>5. ASSUME NEW reason \in {"user", "shutdown"}, StopSession(s, reason) PROVE SessionOk(s)'
  <2>1. /\ runs[s].in /\ UNCHANGED <<create, proc, output, told>>
        /\ \/ /\ hrow'[s] = Row("stopping")
              /\ runs'[s] = [runs[s] EXCEPT !.reason = reason, !.killer = TRUE]
           \/ hrow' = hrow /\ runs'[s] = [runs[s] EXCEPT !.listed = FALSE, !.refused = TRUE]
    BY <1>5 DEF StopSession, HarnessShape, RowIs, Row
  <2>2. /\ runs'[s] \in RunRecords /\ runs'[s].in = runs[s].in /\ runs'[s].exited = runs[s].exited
        /\ runs'[s].reaped = runs[s].reaped /\ runs'[s].doneClosed = runs[s].doneClosed
    BY <1>a, <2>1, ZenonT(40) DEF RunRecords
  <2>3. /\ hrow'[s] \in RowRecords /\ hrow'[s].state = hrow'[s].event
        /\ hrow'[s].state = hrow[s].state \/ hrow'[s].state = "stopping"
    BY <1>a, <1>c, <2>1
  <2> QED
    BY <1>a, <1>b, <2>1, <2>2, <2>3, RunKeepsSession
<1> QED
  BY <1>1, <1>2, <1>3, <1>4, <1>5 DEF WaitSteps

(* A process may end before anybody supervises it.                          *)
LEMMA ExitKeepsSession ==
    ASSUME HarnessShape, NEW s \in HSession, SessionOk(s), ProcessExits(s)
    PROVE  SessionOk(s)'
<1>1. proc'[s] = "dead" /\ UNCHANGED <<hrow, create, runs, output, told>>
  BY DEF ProcessExits, HarnessShape
<1> QED
  BY <1>1 DEF SessionOk, SessionTyped, SessionStands, SessionTold, SessionKeeps, NewestOf

(* The steps that concern every session at once.                            *)
LEMMA ServerKeepsSession ==
    ASSUME HarnessShape, SlotsHeld, NEW s \in HSession, SessionOk(s),
           CloseHarness \/ ServerEnds \/ RecoverInterrupted
    PROVE  SessionOk(s)'
<1>0. SessionTyped(s) /\ SessionStands(s) /\ SessionTold(s) /\ SessionKeeps(s)
  BY DEF SessionOk
<1>a. runs[s] \in RunRecords /\ told[s] \in ToldRecords /\ hrow[s] \in RowRecords
  BY <1>0 DEF SessionTyped
<1>1. CASE CloseHarness
  <2>1. runs'[s] = [runs[s] EXCEPT !.listed = runs[s].in] /\ UNCHANGED <<hrow, create, proc, output, told>>
    BY <1>1 DEF CloseHarness
  <2>2. /\ runs'[s] \in RunRecords /\ runs'[s].in = runs[s].in /\ runs'[s].exited = runs[s].exited
        /\ runs'[s].reaped = runs[s].reaped /\ runs'[s].doneClosed = runs[s].doneClosed
        /\ runs'[s].killer = runs[s].killer
    BY <1>a, <2>1 DEF RunRecords
  <2>3. Idle(runs[s]) => Idle(runs'[s])
    BY <2>2 DEF Idle
  <2>4. SessionTyped(s)'
    BY <1>0, <2>1, <2>2 DEF SessionTyped
  <2>5. SessionStands(s)'
    BY <1>0, <2>1, <2>2, <2>3 DEF SessionStands
  <2>6. SessionTold(s)'
    BY <1>0, <2>1, <2>2 DEF SessionTold
  <2> QED
    BY <1>0, <2>1, <2>4, <2>5, <2>6 DEF SessionOk, SessionKeeps, NewestOf
<1>2. CASE ServerEnds
  <2>1. /\ runs'[s] = [runs[s] EXCEPT !.in = FALSE, !.killer = FALSE, !.listed = FALSE]
        /\ told'[s] = [told[s] EXCEPT !.publisher = FALSE, !.dirty = FALSE, !.failed = @ \/ told[s].publisher]
        /\ create'[s] = IF s \in InFlight THEN "done" ELSE create[s]
        /\ UNCHANGED <<hrow, proc, output>>
    BY <1>2 DEF ServerEnds
  <2>2. /\ runs'[s] \in RunRecords /\ ~runs'[s].in /\ runs'[s].exited = runs[s].exited
        /\ runs'[s].reaped = runs[s].reaped /\ runs'[s].doneClosed = runs[s].doneClosed
        /\ ~runs'[s].killer
    BY <1>a, <2>1 DEF RunRecords
  <2>3. Idle(runs[s]) => Idle(runs'[s])
    BY <2>2 DEF Idle
  <2>4. /\ told'[s] \in ToldRecords /\ ~told'[s].publisher /\ ~told'[s].dirty /\ told'[s].upTo = told[s].upTo
        /\ told[s].failed \/ told[s].publisher => told'[s].failed
    BY <1>a, <2>1 DEF ToldRecords
  <2>5. create'[s] \in {"new", "done"} /\ (create'[s] = "new" => create[s] = "new")
    BY <1>0, <2>1 DEF SessionTyped, InFlight
  <2>6. SessionTyped(s)'
    BY <1>0, <2>1, <2>2, <2>4, <2>5 DEF SessionTyped
  <2>7. SessionStands(s)'
    BY <1>0, <2>1, <2>2, <2>3, <2>4, <2>5 DEF SessionStands
  <2>8. SessionTold(s)'
    BY <1>0, <2>1, <2>2, <2>4, <2>5 DEF SessionTold
  <2> QED
    BY <1>0, <2>1, <2>6, <2>7, <2>8 DEF SessionOk, SessionKeeps, NewestOf
<1>3. CASE RecoverInterrupted
  <2>1. /\ hrow'[s] \in {hrow[s], Row("interrupted")} /\ UNCHANGED <<create, proc, runs, output, told>>
        /\ ~runs[s].in /\ create[s] \in {"new", "done"}
    BY <1>0, <1>3 DEF RecoverInterrupted, SlotsHeld, SessionTyped, InFlight, Held, Row
  <2>2. hrow'[s] \in RowRecords /\ hrow'[s].state = hrow'[s].event
    <3>1. Row("interrupted") \in RowRecords /\ Row("interrupted").state = Row("interrupted").event
      BY RowOfState DEF FinalState
    <3> QED
      BY <1>0, <1>a, <2>1, <3>1 DEF SessionStands
  <2>3. SessionTyped(s)'
    BY <1>0, <2>1, <2>2 DEF SessionTyped
  <2>4. SessionStands(s)'
    BY <1>0, <2>1, <2>2 DEF SessionStands
  <2> QED
    BY <1>0, <2>1, <2>3, <2>4 DEF SessionOk, SessionTold, SessionKeeps, NewestOf
<1> QED
  BY <1>1, <1>2, <1>3

(* The slots: a session that is being launched becomes one that is held, or *)
(* gives its slot back.                                                     *)
LEMMA SlotsShrink ==
    ASSUME SlotsHeld, InFlight' \subseteq InFlight, Held' \subseteq Held, serving' = "down" => serving = "down"
    PROVE  SlotsHeld'
<1>1. /\ IsFiniteSet(InFlight') /\ Cardinality(InFlight') <= Cardinality(InFlight)
      /\ IsFiniteSet(Held') /\ Cardinality(Held') <= Cardinality(Held)
  BY FS_Subset DEF SlotsHeld
<1>2. /\ Cardinality(InFlight) \in Nat /\ Cardinality(InFlight') \in Nat
      /\ Cardinality(Held) \in Nat /\ Cardinality(Held') \in Nat /\ HarnessSlots \in Nat
  BY <1>1, FS_CardinalityType, HarnessConstants DEF SlotsHeld
<1> QED
  BY <1>1, <1>2 DEF SlotsHeld

LEMMA SlotsAreKept ==
    ASSUME HarnessInv, HarnessNext
    PROVE  SlotsHeld'
<1>0. HarnessShape /\ SlotsHeld
  BY DEF HarnessInv
<1>a. \A s \in HSession : create[s] \in {"new", "slot", "row", "started", "marked", "done"}
  BY DEF HarnessInv, SessionOk, SessionTyped
<1>b. /\ Cardinality(InFlight) \in Nat /\ Cardinality(Held) \in Nat /\ HarnessSlots \in Nat
      /\ IsFiniteSet(InFlight) /\ IsFiniteSet(Held)
  BY <1>0, FS_CardinalityType, HarnessConstants DEF SlotsHeld
<1>1. ASSUME NEW s \in HSession, CreateSession(s) PROVE SlotsHeld'
  <2>1. CASE create' = [create EXCEPT ![s] = "slot"] /\ Room
    <3>1. /\ InFlight' = InFlight \cup {s} /\ s \notin InFlight /\ Held' = Held /\ serving' = "up"
      BY <1>0, <1>1, <2>1 DEF CreateSession, HarnessShape, InFlight, Held
    <3>2. IsFiniteSet(InFlight') /\ Cardinality(InFlight') = Cardinality(InFlight) + 1
      BY <1>b, <3>1, FS_AddElement
    <3>3. Cardinality(Held) + Cardinality(InFlight) < HarnessSlots
      BY <2>1 DEF Room, Held
    <3> QED
      BY <1>b, <3>1, <3>2, <3>3 DEF SlotsHeld
  <2>2. CASE create' = [create EXCEPT ![s] = "done"]
    <3>1. InFlight' \subseteq InFlight /\ Held' = Held /\ serving' = serving
      BY <1>0, <1>1, <2>2 DEF CreateSession, HarnessShape, InFlight, Held
    <3> QED
      BY <1>0, <3>1, SlotsShrink
  <2> QED
    BY <1>1, <2>1, <2>2 DEF CreateSession
<1>2. ASSUME NEW s \in HSession, InsertStarting(s) \/ StartProcess(s) \/ MarkStarted(s) PROVE SlotsHeld'
  <2>1. InFlight' \subseteq InFlight /\ Held' = Held /\ serving' = serving
    BY <1>0, <1>2 DEF InsertStarting, StartProcess, MarkStarted, HarnessShape, InFlight, Held
  <2> QED
    BY <1>0, <2>1, SlotsShrink
<1>3. ASSUME NEW s \in HSession, EnterRunning(s) PROVE SlotsHeld'
  <2>1. InFlight' = InFlight \ {s} /\ s \in InFlight /\ serving' = serving
    BY <1>0, <1>3 DEF EnterRunning, HarnessShape, InFlight
  <2>2. /\ IsFiniteSet(InFlight') /\ Cardinality(InFlight') = Cardinality(InFlight) - 1
    BY <1>b, <2>1, FS_RemoveElement
  <2>3. serving # "down" \/ Held' = Held
    BY <1>0, <2>1 DEF SlotsHeld
  <2>4. Held' \in {Held, Held \cup {s}}
    <3>1. runs' = runs \/ runs' = [runs EXCEPT ![s].in = TRUE]
      BY <1>3 DEF EnterRunning
    <3>2. CASE runs' = [runs EXCEPT ![s].in = TRUE]
      <4>1. \A t \in HSession : t # s => runs'[t] = runs[t]
        BY <1>0, <3>2 DEF HarnessShape
      <4>2. runs'[s] = [runs[s] EXCEPT !.in = TRUE] /\ runs[s] \in RunRecords
        BY <1>0, <3>2 DEF HarnessShape, HarnessInv, SessionOk, SessionTyped
      <4>3. runs'[s].in
        BY <4>2 DEF RunRecords
      <4>4. Held' = Held \cup {s}
        BY <4>1, <4>3 DEF Held
      <4> QED
        BY <4>4
    <3>3. CASE runs' = runs
      BY <3>3 DEF Held
    <3> QED
      BY <3>1, <3>2, <3>3
  <2>5. IsFiniteSet(Held') /\ Cardinality(Held') \in Nat /\ Cardinality(Held') <= Cardinality(Held) + 1
    <3>1. IsFiniteSet(Held \cup {s}) /\ Cardinality(Held \cup {s}) \in {Cardinality(Held), Cardinality(Held) + 1}
      BY <1>b, FS_AddElement
    <3>2. CASE Held' = Held
      BY <1>b, <3>2
    <3>3. CASE Held' = Held \cup {s}
      BY <1>b, <3>1, <3>3
    <3> QED
      BY <2>4, <3>2, <3>3
  <2>6. Cardinality(InFlight') \in Nat
    BY <2>2, FS_CardinalityType
  <2>7. serving # "down"
    BY <1>0, <2>1 DEF SlotsHeld
  <2> QED
    BY <1>0, <1>b, <2>1, <2>2, <2>5, <2>6, <2>7 DEF SlotsHeld
<1>4. ASSUME NEW s \in HSession,
             \/ WaitSteps(s) \/ PublishOutput(s) \/ PublisherEnds(s) \/ KillAfterTimeout(s) \/ ProcessExits(s)
             \/ \E n \in ChunkSize : WriteOutput(s, n)
             \/ \E reason \in {"user", "shutdown"} : StopSession(s, reason)
      PROVE  SlotsHeld'
  <2>1. create' = create /\ serving' = serving
    BY <1>4 DEF WaitSteps, WaitReturns, FinishRun, LeaveRunning, PublishOutput, PublisherEnds, KillAfterTimeout,
                ProcessExits, WriteOutput, StopSession
  <2>2. \A t \in HSession : t # s => runs'[t] = runs[t]
    BY <1>0, <1>4, OthersRest DEF SessionStep, SessionRests
  <2>3. runs'[s].in => runs[s].in
    <3>1. runs[s] \in RunRecords
      BY DEF HarnessInv, SessionOk, SessionTyped
    <3>2. CASE WaitSteps(s)
      <4>1. \/ runs'[s] = [runs[s] EXCEPT !.exited = TRUE]
            \/ \E written \in BOOLEAN : runs'[s] = [runs[s] EXCEPT !.doneClosed = TRUE, !.reaped = written]
            \/ runs'[s] = [runs[s] EXCEPT !.in = FALSE, !.killer = FALSE]
        BY <1>0, <3>2 DEF WaitSteps, WaitReturns, FinishRun, LeaveRunning, HarnessShape
      <4> QED
        BY <3>1, <4>1 DEF RunRecords
    <3>3. CASE KillAfterTimeout(s)
      <4>1. runs'[s] = [runs[s] EXCEPT !.killer = FALSE]
        BY <1>0, <3>3 DEF KillAfterTimeout, HarnessShape
      <4> QED
        BY <3>1, <4>1 DEF RunRecords
    <3>4. ASSUME NEW reason \in {"user", "shutdown"}, StopSession(s, reason) PROVE runs'[s].in => runs[s].in
      BY <3>4 DEF StopSession
    <3>5. ASSUME NEW n \in ChunkSize, WriteOutput(s, n) PROVE runs'[s].in => runs[s].in
      BY <3>5 DEF WriteOutput
    <3>6. CASE PublishOutput(s) \/ PublisherEnds(s) \/ ProcessExits(s)
      BY <3>6 DEF PublishOutput, PublisherEnds, ProcessExits
    <3> QED
      BY <1>4, <3>2, <3>3, <3>4, <3>5, <3>6
  <2>4. InFlight' = InFlight /\ Held' \subseteq Held
    BY <2>1, <2>2, <2>3 DEF InFlight, Held
  <2> QED
    BY <1>0, <2>1, <2>4, SlotsShrink
<1>5. CASE CloseHarness
  <2>1. create' = create /\ serving' = "closing" /\ \A s \in HSession : runs'[s] = [runs[s] EXCEPT !.listed = runs[s].in]
    BY <1>5 DEF CloseHarness
  <2>2. \A s \in HSession : runs'[s].in = runs[s].in
    BY <2>1 DEF HarnessInv, SessionOk, SessionTyped, RunRecords
  <2>3. InFlight' = InFlight /\ Held' = Held
    BY <2>1, <2>2 DEF InFlight, Held
  <2> QED
    BY <1>0, <2>1, <2>3, SlotsShrink
<1>6. CASE ServerEnds
  <2>1. \A s \in HSession : create'[s] = (IF s \in InFlight THEN "done" ELSE create[s])
    BY <1>6 DEF ServerEnds
  <2>2. InFlight' = {}
    BY <2>1 DEF InFlight
  <2>3. \A s \in HSession : runs'[s] = [runs[s] EXCEPT !.in = FALSE, !.killer = FALSE, !.listed = FALSE]
    BY <1>6 DEF ServerEnds
  <2>4. ASSUME NEW s \in HSession PROVE ~runs'[s].in
    <3>1. runs[s] \in RunRecords
      BY DEF HarnessInv, SessionOk, SessionTyped
    <3> QED
      BY <2>3, <3>1 DEF RunRecords
  <2>5. Held' = {}
    BY <2>4 DEF Held
  <2> QED
    BY <1>b, <2>2, <2>5, FS_EmptySet, HarnessConstants DEF SlotsHeld
<1>7. CASE RecoverInterrupted
  <2>1. InFlight' = InFlight /\ Held' = Held /\ serving' = "up"
    BY <1>7 DEF RecoverInterrupted, InFlight, Held
  <2> QED
    BY <1>0, <2>1, SlotsShrink
<1> QED
  BY <1>1, <1>2, <1>3, <1>4, <1>5, <1>6, <1>7 DEF HarnessNext, CreateSteps

LEMMA HarnessStarts ==
    ASSUME HarnessInit
    PROVE  HarnessInv
<1>1. HarnessShape
  BY DEF HarnessInit, HarnessShape
<1>2. SlotsHeld
  <2>1. InFlight = {} /\ Held = {}
    BY DEF HarnessInit, InFlight, Held, NotRunning
  <2> QED
    BY <2>1, FS_EmptySet, HarnessConstants DEF SlotsHeld
<1>3. ASSUME NEW s \in HSession PROVE SessionOk(s)
  <2>1. /\ hrow[s] = [state |-> "none", event |-> "none"] /\ create[s] = "new" /\ proc[s] = "none"
        /\ runs[s] = NotRunning /\ output[s] = [kept |-> <<>>, written |-> <<>>]
        /\ told[s] = [dirty |-> FALSE, publisher |-> FALSE, upTo |-> 0, failed |-> FALSE]
    BY DEF HarnessInit
  <2>2. MaxChunks \in Nat /\ OutputLimit \in Nat /\ ChunkSize \subseteq Nat
    BY HarnessConstants
  <2>3. <<>> \in Seq(ChunkSize) /\ Len(<<>>) = 0 /\ <<>> \in Seq(Nat) /\ Total(<<>>) = 0
    BY EmptySeq, TotalFacts
  <2>4. output[s].written = <<>> /\ output[s].kept = <<>> /\ output[s] \in OutputRecords
    BY <2>1, <2>3 DEF OutputRecords
  <2>5. told[s] \in ToldRecords /\ ~told[s].dirty /\ ~told[s].publisher /\ told[s].upTo = 0
    BY <2>1, <2>2 DEF ToldRecords
  <2>6. hrow[s] \in RowRecords /\ hrow[s].state = hrow[s].event
    BY <2>1 DEF RowRecords
  <2>7. SessionTyped(s)
    BY <2>1, <2>2, <2>3, <2>4, <2>5, <2>6, NothingRuns DEF SessionTyped
  <2>8. SessionStands(s)
    BY <2>1, <2>5, <2>6, NothingRuns DEF SessionStands, Idle
  <2>9. SessionTold(s)
    BY <2>1, <2>3, <2>4, <2>5, NothingRuns DEF SessionTold
  <2>10. SessionKeeps(s)
    BY <2>2, <2>3, <2>4 DEF SessionKeeps, NewestOf
  <2> QED
    BY <2>7, <2>8, <2>9, <2>10 DEF SessionOk
<1> QED
  BY <1>1, <1>2, <1>3 DEF HarnessInv

LEMMA HarnessSteps ==
    ASSUME HarnessInv, [HarnessNext]_harnessVars
    PROVE  HarnessInv'
<1>0. HarnessShape /\ SlotsHeld /\ \A s \in HSession : SessionOk(s)
  BY DEF HarnessInv
<1>1. CASE UNCHANGED harnessVars
  <2>1. HarnessShape' /\ SlotsHeld'
    BY <1>0, <1>1 DEF harnessVars, HarnessShape, SlotsHeld, InFlight, Held
  <2>2. \A s \in HSession : SessionOk(s)'
    <3>1. \A s \in HSession : SessionRests(s)
      BY <1>1 DEF harnessVars, SessionRests
    <3> QED
      BY <1>0, <3>1, RestingSession
  <2> QED
    BY <2>1, <2>2 DEF HarnessInv
<1>2. ASSUME NEW t \in HSession, SessionStep(t) PROVE HarnessShape' /\ \A s \in HSession : SessionOk(s)'
  <2>1. HarnessShape' /\ \A s \in HSession : s # t => SessionRests(s)
    BY <1>0, <1>2, OthersRest
  <2>2. \A s \in HSession : s # t => SessionOk(s)'
    BY <1>0, <2>1, RestingSession
  <2>3. SessionOk(t)'
    BY <1>0, <1>2, CreateKeepsSession, OutputKeepsSession, StopKeepsSession, ExitKeepsSession DEF SessionStep
  <2> QED
    BY <2>1, <2>2, <2>3
<1>3. ASSUME CloseHarness \/ ServerEnds \/ RecoverInterrupted PROVE HarnessShape' /\ \A s \in HSession : SessionOk(s)'
  <2>1. HarnessShape'
    BY <1>0, <1>3 DEF CloseHarness, ServerEnds, RecoverInterrupted, HarnessShape
  <2>2. \A s \in HSession : SessionOk(s)'
    BY <1>0, <1>3, ServerKeepsSession
  <2> QED
    BY <2>1, <2>2
<1>4. ASSUME HarnessNext PROVE HarnessInv'
  <2>1. (\E t \in HSession : SessionStep(t)) \/ CloseHarness \/ ServerEnds \/ RecoverInterrupted
    BY <1>4 DEF HarnessNext, SessionStep
  <2>2. SlotsHeld'
    BY <1>4, SlotsAreKept
  <2> QED
    BY <1>2, <1>3, <2>1, <2>2 DEF HarnessInv
<1> QED
  BY <1>1, <1>4

LEMMA HarnessInvIsSafe ==
    ASSUME HarnessInv
    PROVE  SessionsSafe
<1>1. HarnessTypeOK
  <2>1. HarnessShape /\ \A s \in HSession : SessionTyped(s)
    BY DEF HarnessInv, SessionOk
  <2>2. /\ hrow \in [HSession -> RowRecords] /\ proc \in [HSession -> {"none", "alive", "dead"}]
        /\ create \in [HSession -> {"new", "slot", "row", "started", "marked", "done"}]
        /\ runs \in [HSession -> RunRecords] /\ told \in [HSession -> ToldRecords]
    BY <2>1 DEF HarnessShape, SessionTyped
  <2>3. \A s \in HSession : output[s].kept \in Seq(ChunkSize) /\ output[s].written \in Seq(ChunkSize)
    BY <2>1, SessionFields
  <2> QED
    BY <2>1, <2>2, <2>3 DEF HarnessTypeOK, HarnessShape, RowRecords, RunRecords, ToldRecords
<1>2. HarnessSafe
  <2>1. ASSUME serving # "down"
        PROVE  Cardinality({s \in HSession : proc[s] = "alive" /\ (runs[s].in \/ s \in InFlight)}) <= HarnessSlots
    <3> DEFINE alive == {s \in HSession : proc[s] = "alive" /\ (runs[s].in \/ s \in InFlight)}
    <3>1. IsFiniteSet(InFlight) /\ IsFiniteSet(Held) /\ Cardinality(Held) + Cardinality(InFlight) <= HarnessSlots
      BY DEF HarnessInv, SlotsHeld
    <3>2. alive \subseteq Held \cup InFlight
      BY DEF Held
    <3>3. /\ IsFiniteSet(Held \cup InFlight)
          /\ Cardinality(Held \cup InFlight)
               = Cardinality(Held) + Cardinality(InFlight) - Cardinality(Held \cap InFlight)
      BY <3>1, FS_Union
    <3>4. IsFiniteSet(alive) /\ Cardinality(alive) <= Cardinality(Held \cup InFlight)
      BY <3>2, <3>3, FS_Subset
    <3>5. IsFiniteSet(Held \cap InFlight)
      BY <3>1, FS_Intersection
    <3>6. /\ Cardinality(Held) \in Nat /\ Cardinality(InFlight) \in Nat /\ Cardinality(Held \cap InFlight) \in Nat
          /\ Cardinality(alive) \in Nat /\ Cardinality(Held \cup InFlight) \in Nat /\ HarnessSlots \in Nat
      BY <3>1, <3>3, <3>4, <3>5, FS_CardinalityType, HarnessConstants
    <3> HIDE DEF alive
    <3>7. Cardinality(alive) <= HarnessSlots
      BY <3>1, <3>3, <3>4, <3>6
    <3> QED
      BY <3>7 DEF alive
  <2>2. ASSUME NEW s \in HSession
        PROVE  /\ hrow[s].state = hrow[s].event
               /\ hrow[s].state \in FinalState /\ runs[s].reaped => proc[s] = "dead"
               /\ runs[s].in /\ ~runs[s].exited => hrow[s].state \in {"running", "stopping"}
               /\ runs[s].doneClosed /\ ~told[s].publisher /\ ~told[s].failed
                    => told[s].upTo = Len(output[s].written)
    BY DEF HarnessInv, SessionOk, SessionStands, SessionTold
  <2> QED
    BY <2>1, <2>2 DEF HarnessSafe
<1>3. NewestOutputKept
  <2>1. ASSUME NEW s \in HSession
        PROVE  LET w == output[s].written  k == output[s].kept IN
               /\ Total(k) <= OutputLimit
               /\ k = SubSeq(w, Len(w) - Len(k) + 1, Len(w))
               /\ Len(w) > 0 => Len(k) > 0
    <3>1. SessionTyped(s) /\ NewestOf(output[s].kept, output[s].written)
      BY DEF HarnessInv, SessionOk, SessionKeeps
    <3>2. output[s].kept \in Seq(ChunkSize) /\ output[s].written \in Seq(ChunkSize)
      BY <3>1, SessionFields
    <3> QED
      BY <3>1, <3>2, NewestIsSuffix DEF NewestOf
  <2> QED
    BY <2>1 DEF NewestOutputKept
<1> QED
  BY <1>1, <1>2, <1>3 DEF SessionsSafe

(* No more processes live than there are slots; a row in a final state has  *)
(* no live process and one that is held says so; every change of a row is   *)
(* on the log; a run that is over has its output announced to the last      *)
(* chunk; and of the output the newest part is kept, within the limit       *)
(* (harness.go, Create, wait, outputEvents; store.go, appendOutput).        *)
THEOREM SessionsStaySafe == HarnessSpec => []SessionsSafe
<1>1. HarnessInit => HarnessInv
  BY HarnessStarts
<1>2. HarnessInv /\ [HarnessNext]_harnessVars => HarnessInv'
  BY HarnessSteps
<1>3. HarnessInv => SessionsSafe
  BY HarnessInvIsSafe
<1> QED
  BY <1>1, <1>2, <1>3, PTL DEF HarnessSpec

(***************************************************************************)
(* The hits of a search.                                                   *)
(***************************************************************************)

(* The beginnings of what the caller may see of s. *)
IsVisible(s, allow, f) ==
    f = [n \in 0..Len(s) |-> IF n = 0 THEN <<>>
                             ELSE IF PublicHit(s[n], allow) THEN Append(f[n - 1], s[n]) ELSE f[n - 1]]
Beginnings(s, allow) == CHOOSE f : IsVisible(s, allow, f)

LEMMA VisibleIsLast == \A s, allow : Visible(s, allow) = Beginnings(s, allow)[Len(s)]
  BY DEF Visible, Beginnings, IsVisible

LEMMA BeginningsExist ==
    ASSUME NEW S, NEW s \in Seq(S), NEW allow
    PROVE  \E f : IsVisible(s, allow, f)
<1> DEFINE Next(n, k) == IF PublicHit(s[n], allow) THEN Append(k, s[n]) ELSE k
           Upto(n, f) == f = [i \in 0..n |-> IF i = 0 THEN <<>> ELSE Next(i, f[i - 1])]
           N == {n \in Nat : \E f : Upto(n, f)}
<1>1. 0 \in N
  <2>1. Upto(0, [i \in 0..0 |-> <<>>])
    OBVIOUS
  <2> QED
    BY <2>1
<1>2. ASSUME NEW n \in Nat, n \in N PROVE n + 1 \in N
  <2>1. PICK f : Upto(n, f)
    <3> HIDE DEF Upto
    <3> QED
      BY <1>2
  <2> DEFINE g == [i \in 0..(n + 1) |-> IF i = n + 1 THEN Next(n + 1, f[n]) ELSE f[i]]
  <2> HIDE DEF Next
  <2>2. ASSUME NEW i \in 0..(n + 1) PROVE g[i] = IF i = 0 THEN <<>> ELSE Next(i, g[i - 1])
    <3>1. CASE i = n + 1
      <4>1. i # 0 /\ i - 1 = n /\ n \in 0..(n + 1) /\ n # n + 1
        BY <3>1
      <4>2. g[n] = f[n]
        BY <4>1
      <4> QED
        BY <3>1, <4>1, <4>2
    <3>2. CASE i # n + 1
      <4>1. i \in 0..n /\ (i # 0 => i - 1 \in 0..n /\ i - 1 \in 0..(n + 1) /\ i - 1 # n + 1)
        BY <3>2
      <4>2. g[i] = f[i] /\ (i # 0 => g[i - 1] = f[i - 1])
        BY <3>2, <4>1
      <4>3. f[i] = IF i = 0 THEN <<>> ELSE Next(i, f[i - 1])
        BY <2>1, <4>1
      <4> QED
        BY <4>2, <4>3
    <3> QED
      BY <3>1, <3>2
  <2>3. Upto(n + 1, g)
    BY <2>2
  <2> HIDE DEF Upto, g
  <2> QED
    BY <2>3
<1>3. Len(s) \in N
  <2>1. Len(s) \in Nat
    BY LenProperties
  <2> HIDE DEF N
  <2> QED
    BY <1>1, <1>2, <2>1, InductionOnNat
<1>4. PICK f : Upto(Len(s), f)
  <2> HIDE DEF Upto
  <2> QED
    BY <1>3
<1> QED
  BY <1>4 DEF IsVisible

(* k are the hits of s at the positions pos, all that may be seen, in order. *)
Picked(k, s, may, pos) ==
    /\ pos \in [1..Len(k) -> may]
    /\ \A i \in 1..Len(k) : k[i] = s[pos[i]]
    /\ \A i, j \in 1..Len(k) : i < j => pos[i] < pos[j]

(* The positions of s that the caller may see. *)
Permitted(s, allow) == {i \in 1..Len(s) : PublicHit(s[i], allow)}

LEMMA VisibleFacts ==
    ASSUME NEW S, NEW s \in Seq(S), NEW allow
    PROVE  /\ Visible(s, allow) \in Seq(S)
           /\ \E pos : /\ Picked(Visible(s, allow), s, Permitted(s, allow), pos)
                       /\ \A k \in Permitted(s, allow) : \E i \in 1..Len(Visible(s, allow)) : pos[i] = k
<1>0. Len(s) \in Nat /\ \A i \in 1..Len(s) : s[i] \in S
  BY LenProperties, ElementOfSeq
<1> DEFINE f == Beginnings(s, allow)
<1>1. /\ f[0] = <<>>
      /\ \A n \in 1..Len(s) : f[n] = IF PublicHit(s[n], allow) THEN Append(f[n - 1], s[n]) ELSE f[n - 1]
  <2>1. IsVisible(s, allow, f)
    BY BeginningsExist DEF Beginnings
  <2>2. 0 \in 0..Len(s) /\ \A n \in 1..Len(s) : n \in 0..Len(s) /\ n # 0
    BY <1>0
  <2>3. \A n \in 0..Len(s) : f[n] = IF n = 0 THEN <<>>
                                   ELSE IF PublicHit(s[n], allow) THEN Append(f[n - 1], s[n]) ELSE f[n - 1]
    <3> HIDE DEF f
    <3> QED
      BY <2>1 DEF IsVisible
  <2> HIDE DEF f
  <2> QED
    BY <2>2, <2>3
<1> HIDE DEF f
<1> DEFINE May(n) == {i \in 1..n : PublicHit(s[i], allow)}
           Good(n, pos) == /\ f[n] \in Seq(S) /\ Picked(f[n], s, May(n), pos)
                           /\ \A k \in May(n) : \E i \in 1..Len(f[n]) : pos[i] = k
           N == {n \in Nat : n <= Len(s) => \E pos : Good(n, pos)}
<1>2. 0 \in N
  <2>1. f[0] \in Seq(S) /\ Len(f[0]) = 0 /\ May(0) = {}
    BY <1>1, EmptySeq
  <2>2. Good(0, [i \in 1..0 |-> 0])
    BY <2>1 DEF Picked
  <2> HIDE DEF Good
  <2> QED
    BY <2>2
<1>3. ASSUME NEW n \in Nat, n \in N PROVE n + 1 \in N
  <2> SUFFICES ASSUME n + 1 <= Len(s) PROVE \E pos : Good(n + 1, pos)
    <3> HIDE DEF Good
    <3> QED
      OBVIOUS
  <2>0. n <= Len(s) /\ n + 1 \in 1..Len(s) /\ (n + 1) - 1 = n
    BY <1>0
  <2>1. PICK pos : Good(n, pos)
    <3> HIDE DEF Good
    <3> QED
      BY <1>3, <2>0
  <2>2. Len(f[n]) \in Nat
    BY <2>1, LenProperties
  <2>3. CASE ~ PublicHit(s[n + 1], allow)
    <3>1. f[n + 1] = f[n]
      BY <1>1, <2>0, <2>3
    <3>2. May(n + 1) = May(n)
      BY <2>3
    <3>3. Good(n + 1, pos)
      BY <2>1, <3>1, <3>2
    <3> HIDE DEF Good
    <3> QED
      BY <3>3
  <2>4. CASE PublicHit(s[n + 1], allow)
    <3> DEFINE l == Len(f[n])
               new == [i \in 1..(l + 1) |-> IF i = l + 1 THEN n + 1 ELSE pos[i]]
    <3>1. f[n + 1] = Append(f[n], s[n + 1]) /\ s[n + 1] \in S
      BY <1>0, <1>1, <2>0, <2>4
    <3>2. /\ f[n + 1] \in Seq(S) /\ Len(f[n + 1]) = l + 1 /\ f[n + 1][l + 1] = s[n + 1]
          /\ \A i \in 1..l : f[n + 1][i] = f[n][i]
      BY <2>1, <3>1, AppendProperties
    <3>3. May(n + 1) = May(n) \cup {n + 1}
      BY <2>4
    <3>4. \A i \in 1..(l + 1) : i # l + 1 => i \in 1..l
      BY <2>2
    <3>5. new \in [1..(l + 1) -> May(n + 1)]
      <4>1. \A i \in 1..l : pos[i] \in May(n)
        BY <2>1 DEF Picked
      <4> HIDE DEF l, May
      <4> QED
        BY <3>3, <3>4, <4>1
    <3>6. \A i \in 1..(l + 1) : f[n + 1][i] = s[new[i]]
      <4> SUFFICES ASSUME NEW i \in 1..(l + 1) PROVE f[n + 1][i] = s[new[i]]
        OBVIOUS
      <4>1. CASE i = l + 1
        BY <3>2, <4>1
      <4>2. CASE i # l + 1
        BY <2>1, <3>2, <3>4, <4>2 DEF Picked
      <4> QED
        BY <4>1, <4>2
    <3>7. ASSUME NEW i \in 1..(l + 1), NEW j \in 1..(l + 1), i < j PROVE new[i] < new[j]
      <4>1. i \in 1..l /\ i # l + 1
        BY <2>2, <3>7
      <4>2. new[i] = pos[i] /\ pos[i] \in 1..n
        BY <2>1, <4>1 DEF Picked
      <4>3. CASE j = l + 1
        <5>1. new[j] = n + 1
          BY <4>3
        <5> HIDE DEF new
        <5> QED
          BY <4>2, <5>1
      <4>4. CASE j # l + 1
        <5>1. j \in 1..l /\ new[j] = pos[j]
          BY <3>4, <4>4
        <5> HIDE DEF new
        <5> QED
          BY <2>1, <3>7, <4>1, <4>2, <5>1 DEF Picked
      <4> QED
        BY <4>3, <4>4
    <3>8. ASSUME NEW k \in May(n + 1) PROVE \E i \in 1..(l + 1) : new[i] = k
      <4>1. CASE k = n + 1
        <5>1. l + 1 \in 1..(l + 1) /\ new[l + 1] = n + 1
          BY <2>2
        <5> HIDE DEF new
        <5> QED
          BY <4>1, <5>1
      <4>2. CASE k # n + 1
        <5>1. PICK i \in 1..l : pos[i] = k
          BY <2>1, <3>3, <4>2
        <5>2. i \in 1..(l + 1) /\ i # l + 1
          BY <2>2
        <5>3. new[i] = k
          BY <5>1, <5>2
        <5> HIDE DEF new
        <5> QED
          BY <5>2, <5>3
      <4> QED
        BY <4>1, <4>2
    <3> HIDE DEF new, May, l
    <3>9. Good(n + 1, new)
      BY <3>2, <3>5, <3>6, <3>7, <3>8 DEF Picked
    <3> HIDE DEF Good
    <3> QED
      BY <3>9
  <2> QED
    BY <2>3, <2>4
<1>4. PICK pos : Good(Len(s), pos)
  <2>1. Len(s) \in N
    <3> HIDE DEF N
    <3> QED
      BY <1>0, <1>2, <1>3, InductionOnNat
  <2> HIDE DEF Good
  <2> QED
    BY <1>0, <2>1
<1>5. Visible(s, allow) = f[Len(s)]
  BY VisibleIsLast DEF f
<1>6. May(Len(s)) = Permitted(s, allow)
  BY DEF Permitted
<1> HIDE DEF May
<1> QED
  BY <1>4, <1>5, <1>6

LEMMA FirstHitsFacts ==
    ASSUME NEW S, NEW s \in Seq(S), NEW n \in Nat
    PROVE  /\ FirstHits(s, n) \in Seq(S) /\ Len(FirstHits(s, n)) \in Nat /\ Len(s) \in Nat
           /\ Len(FirstHits(s, n)) = IF Len(s) < n THEN Len(s) ELSE n
           /\ \A i \in 1..Len(FirstHits(s, n)) : FirstHits(s, n)[i] = s[i]
<1> DEFINE m == IF Len(s) < n THEN Len(s) ELSE n
<1>1. Len(s) \in Nat /\ m \in Nat /\ m <= Len(s) /\ \A i \in 1..Len(s) : s[i] \in S
  BY LenProperties, ElementOfSeq
<1> HIDE DEF m
<1>2. /\ SubSeq(s, 1, m) \in Seq(S) /\ Len(SubSeq(s, 1, m)) = m
      /\ \A i \in 1..m : SubSeq(s, 1, m)[i] = s[i]
  <2>1. \A i \in 1..m : s[i] \in S
    BY <1>1
  <2>2. /\ SubSeq(s, 1, m) \in Seq(S) /\ Len(SubSeq(s, 1, m)) = IF 1 <= m THEN m - 1 + 1 ELSE 0
        /\ \A i \in 1..(m - 1 + 1) : SubSeq(s, 1, m)[i] = s[1 + i - 1]
    BY <1>1, <2>1, SubSeqProperties
  <2>3. m - 1 + 1 = m /\ \A i \in 1..m : 1 + i - 1 = i
    BY <1>1
  <2> QED
    BY <1>1, <2>2, <2>3
<1>3. FirstHits(s, n) = SubSeq(s, 1, m)
  BY DEF FirstHits, m
<1> QED
  BY <1>1, <1>2, <1>3 DEF m

(* The inductive invariant. *)
HitsOf(r) == {r[i] : i \in DOMAIN r}
AnyHit == UNION {HitsOf(r) : r \in SearchReply}

CallRecords ==
    [at : {"new", "admitted", "waiting", "engine", "done", "failed"}, limit : 0..HardMax, allow : SUBSET SearchDomain,
     until : 0..(MaxSearchTicks + 1 + SearchPace), engine : 1..EngineCount, retried : BOOLEAN, error : BOOLEAN,
     reply : Seq(AnyHit), hits : Seq(AnyHit)]

(* The best hits of a reply that the caller may see. *)
SeenBy(q) == FirstHits(q.reply, EngineLimit(q))
MaySee(q) == Permitted(SeenBy(q), q.allow)
BestHits(q) ==
    /\ Len(q.hits) <= q.limit
    /\ \E pos : /\ Picked(q.hits, SeenBy(q), MaySee(q), pos)
                /\ Len(q.hits) < q.limit => \A k \in MaySee(q) : \E i \in 1..Len(q.hits) : pos[i] = k

CallOk(c) ==
    /\ query[c] \in CallRecords
    /\ query[c].at # "done" => query[c].reply = <<>> /\ query[c].hits = <<>>
    /\ BestHits(query[c])

SearchInv ==
    /\ searchTick \in 1..(MaxSearchTicks + 1) /\ lastStart \in 0..searchTick
    /\ query = [c \in SearchCall |-> query[c]]
    /\ \A c \in SearchCall : CallOk(c)

LEMMA NoHits == \A q : q.reply = <<>> /\ q.hits = <<>> /\ q.limit \in 0..HardMax => BestHits(q)
<1> SUFFICES ASSUME NEW q, q.reply = <<>>, q.hits = <<>>, q.limit \in 0..HardMax PROVE BestHits(q)
  OBVIOUS
<1> DEFINE pos == [i \in 1..0 |-> 0]
<1>1. EngineLimit(q) \in Nat /\ HardMax \in Nat /\ q.limit \in Nat
  BY SearchConstants DEF EngineLimit
<1>2. q.reply \in Seq({}) /\ Len(q.reply) = 0 /\ Len(q.hits) = 0
  BY EmptySeq
<1>3. Len(SeenBy(q)) = 0
  <2>1. \A n \in Nat : Len(FirstHits(<<>>, n)) = 0
    <3> SUFFICES ASSUME NEW n \in Nat PROVE Len(FirstHits(<<>>, n)) = 0
      OBVIOUS
    <3> DEFINE e == <<>>
    <3>1. e \in Seq(Nat) /\ Len(e) = 0
      BY EmptySeq
    <3>2. \A s \in Seq(Nat) : Len(FirstHits(s, n)) = IF Len(s) < n THEN Len(s) ELSE n
      BY FirstHitsFacts
    <3> HIDE DEF e
    <3>3. Len(FirstHits(e, n)) = IF Len(e) < n THEN Len(e) ELSE n
      BY <3>1, <3>2
    <3>4. Len(e) < n \/ n = 0
      BY <3>1
    <3>5. Len(FirstHits(e, n)) = 0
      BY <3>1, <3>3, <3>4
    <3> QED
      BY <3>5 DEF e
  <2> QED
    BY <1>1, <2>1 DEF SeenBy
<1>4. MaySee(q) = {} /\ Len(q.hits) = 0
  BY <1>2, <1>3 DEF MaySee, Permitted
<1>5. Picked(q.hits, SeenBy(q), MaySee(q), pos)
  BY <1>4 DEF Picked
<1>6. \A k \in MaySee(q) : \E i \in 1..Len(q.hits) : pos[i] = k
  BY <1>4
<1> HIDE DEF pos
<1>7. \E p : /\ Picked(q.hits, SeenBy(q), MaySee(q), p)
             /\ Len(q.hits) < q.limit => \A k \in MaySee(q) : \E i \in 1..Len(q.hits) : p[i] = k
  BY <1>5, <1>6
<1>8. Len(q.hits) <= q.limit
  BY <1>1, <1>2
<1> QED
  BY <1>7, <1>8 DEF BestHits

LEMMA SearchStarts == SearchInit => SearchInv
<1> SUFFICES ASSUME SearchInit PROVE SearchInv
  OBVIOUS
<1>1. /\ DefaultMax \in Nat /\ HardMax \in Nat /\ DefaultMax <= HardMax /\ SearchPace \in Nat /\ MaxSearchTicks \in Nat
  BY SearchConstants
<1>2. ASSUME NEW c \in SearchCall PROVE CallOk(c)
  <2>1. query[c] = [at |-> "new", limit |-> 0, allow |-> {}, until |-> 0, engine |-> 1,
                    retried |-> FALSE, error |-> FALSE, reply |-> <<>>, hits |-> <<>>]
    BY <1>2 DEF SearchInit
  <2>2. <<>> \in Seq(AnyHit)
    BY EmptySeq
  <2>3. query[c] \in CallRecords
    BY <1>1, <2>1, <2>2 DEF CallRecords, EngineCount
  <2>4. query[c].reply = <<>> /\ query[c].hits = <<>> /\ query[c].limit \in 0..HardMax
    BY <1>1, <2>1
  <2> QED
    BY <2>3, <2>4, NoHits DEF CallOk
<1> QED
  BY <1>1, <1>2 DEF SearchInit, SearchInv

(* The call that is answered gets the best hits. *)
LEMMA AnswerIsBest ==
    ASSUME NEW q \in CallRecords, NEW r \in Seq(AnyHit),
           q.reply = r, q.hits = FirstHits(Visible(FirstHits(r, EngineLimit(q)), q.allow), q.limit)
    PROVE  BestHits(q)
<1> DEFINE kept == Visible(SeenBy(q), q.allow)
<1>1. q.limit \in Nat /\ EngineLimit(q) \in Nat
  BY SearchConstants DEF CallRecords, EngineLimit
<1>2. SeenBy(q) \in Seq(AnyHit)
  BY <1>1, FirstHitsFacts DEF SeenBy
<1>3. /\ kept \in Seq(AnyHit)
      /\ \E pos : /\ Picked(kept, SeenBy(q), MaySee(q), pos)
                  /\ \A k \in MaySee(q) : \E i \in 1..Len(kept) : pos[i] = k
  BY <1>2, VisibleFacts DEF MaySee
<1> HIDE DEF kept
<1>4. PICK all : /\ Picked(kept, SeenBy(q), MaySee(q), all)
                 /\ \A k \in MaySee(q) : \E i \in 1..Len(kept) : all[i] = k
  BY <1>3
<1>5. q.hits = FirstHits(kept, q.limit)
  BY DEF kept, SeenBy
<1>6. /\ Len(q.hits) \in Nat /\ Len(kept) \in Nat /\ Len(q.hits) = IF Len(kept) < q.limit THEN Len(kept) ELSE q.limit
      /\ \A i \in 1..Len(q.hits) : q.hits[i] = kept[i]
  BY <1>1, <1>3, <1>5, FirstHitsFacts
<1>7. \A i \in 1..Len(q.hits) : i \in 1..Len(kept)
  BY <1>1, <1>6
<1> DEFINE pos == [i \in 1..Len(q.hits) |-> all[i]]
<1>8. Picked(q.hits, SeenBy(q), MaySee(q), pos)
  <2>1. pos \in [1..Len(q.hits) -> MaySee(q)]
    BY <1>4, <1>7 DEF Picked
  <2>2. \A i \in 1..Len(q.hits) : q.hits[i] = SeenBy(q)[pos[i]]
    BY <1>4, <1>6, <1>7 DEF Picked
  <2>3. \A i, j \in 1..Len(q.hits) : i < j => pos[i] < pos[j]
    BY <1>4, <1>7 DEF Picked
  <2> QED
    BY <2>1, <2>2, <2>3 DEF Picked
<1>9. Len(q.hits) <= q.limit
  BY <1>1, <1>6
<1>10. ASSUME Len(q.hits) < q.limit, NEW k \in MaySee(q) PROVE \E i \in 1..Len(q.hits) : pos[i] = k
  <2>1. Len(q.hits) = Len(kept)
    BY <1>1, <1>6, <1>10
  <2>2. PICK i \in 1..Len(kept) : all[i] = k
    BY <1>4, <1>10
  <2> QED
    BY <2>1, <2>2
<1> HIDE DEF pos
<1>11. \E p : /\ Picked(q.hits, SeenBy(q), MaySee(q), p)
              /\ Len(q.hits) < q.limit => \A k \in MaySee(q) : \E i \in 1..Len(q.hits) : p[i] = k
  BY <1>8, <1>10
<1> QED
  BY <1>9, <1>11 DEF BestHits

LEMMA SearchSteps == SearchInv /\ [SearchNext]_searchVars => SearchInv'
<1> SUFFICES ASSUME SearchInv, [SearchNext]_searchVars PROVE SearchInv'
  OBVIOUS
<1>0. /\ DefaultMax \in Nat /\ HardMax \in Nat /\ DefaultMax <= HardMax /\ SearchPace \in Nat /\ MaxSearchTicks \in Nat
  BY SearchConstants
<1>a. /\ searchTick \in 1..(MaxSearchTicks + 1) /\ lastStart \in 0..searchTick
      /\ query = [c \in SearchCall |-> query[c]] /\ \A c \in SearchCall : CallOk(c)
  BY DEF SearchInv
<1>1. CASE UNCHANGED <<query>>
  <2>1. /\ searchTick' \in 1..(MaxSearchTicks + 1) /\ lastStart' \in 0..searchTick'
    <3>1. \/ searchTick <= MaxSearchTicks /\ searchTick' = searchTick + 1 /\ lastStart' = lastStart
          \/ searchTick' = searchTick /\ lastStart' \in {lastStart, searchTick}
      BY ZenonT(40) DEF SearchNext, searchVars, AskQuery, RejectQuery, PaceRead, PaceWoken, PaceCancelled, EngineFails,
             EngineEmpty, EngineAnswers, SearchTick
    <3> QED
      BY <1>0, <1>a, <3>1
  <2>2. \A d \in SearchCall : /\ query'[d] \in CallRecords /\ BestHits(query'[d])
                              /\ query'[d].at # "done" => query'[d].reply = <<>> /\ query'[d].hits = <<>>
    BY <1>1, <1>a DEF CallOk
  <2>3. query' = [d \in SearchCall |-> query'[d]]
    BY <1>1, <1>a
  <2> QED
    BY <2>1, <2>2, <2>3 DEF SearchInv, CallOk, BestHits, EngineLimit
<1>2. ASSUME NEW c \in SearchCall,
             /\ query' = [query EXCEPT ![c] = query'[c]]
             /\ searchTick' = searchTick /\ lastStart' \in {lastStart, searchTick}
             /\ query'[c] \in CallRecords /\ BestHits(query'[c])
             /\ query'[c].at # "done" => query'[c].reply = <<>> /\ query'[c].hits = <<>>
      PROVE  SearchInv'
  <2>1. \A d \in SearchCall : d # c => query'[d] = query[d]
    BY <1>2, <1>a
  <2>2. \A d \in SearchCall : /\ query'[d] \in CallRecords /\ BestHits(query'[d])
                              /\ query'[d].at # "done" => query'[d].reply = <<>> /\ query'[d].hits = <<>>
    BY <1>2, <1>a, <2>1 DEF CallOk
  <2>3. query' = [d \in SearchCall |-> query'[d]]
    BY <1>2, <1>a
  <2>4. searchTick' \in 1..(MaxSearchTicks + 1) /\ lastStart' \in 0..searchTick'
    BY <1>0, <1>2, <1>a
  <2> QED
    BY <2>2, <2>3, <2>4 DEF SearchInv, CallOk, BestHits, EngineLimit
<1>3. ASSUME NEW c \in SearchCall, query[c].at # "done",
             /\ query' = [query EXCEPT ![c] = query'[c]]
             /\ searchTick' = searchTick /\ lastStart' \in {lastStart, searchTick}
             /\ query'[c] \in CallRecords /\ query'[c].reply = query[c].reply /\ query'[c].hits = query[c].hits
      PROVE  SearchInv'
  <2>1. query[c].reply = <<>> /\ query[c].hits = <<>>
    BY <1>3, <1>a DEF CallOk
  <2>2. query'[c].limit \in 0..HardMax
    BY <1>3 DEF CallRecords
  <2> QED
    BY <1>2, <1>3, <2>1, <2>2, NoHits
<1>4. ASSUME NEW c \in SearchCall, NEW max \in 0..(HardMax + 1), NEW allow \in SUBSET SearchDomain, AskQuery(c, max, allow)
      PROVE  SearchInv'
  <2> DEFINE limit == IF max = 0 THEN DefaultMax ELSE IF max > HardMax THEN HardMax ELSE max
  <2>1. limit \in 0..HardMax
    BY <1>0
  <2>2. query[c] \in CallRecords
    BY <1>a DEF CallOk
  <2>3. query[c].at = "new" /\ query'[c] = [query[c] EXCEPT !.at = "admitted", !.allow = allow, !.limit = limit]
    BY <1>4, <1>a DEF AskQuery
  <2>4. UNCHANGED <<searchTick, lastStart>> /\ query' = [query EXCEPT ![c] = query'[c]]
    BY <1>4, <1>a, <2>3 DEF AskQuery
  <2> HIDE DEF limit
  <2>5. query'[c] \in CallRecords /\ query'[c].reply = query[c].reply /\ query'[c].hits = query[c].hits
    BY <2>1, <2>2, <2>3 DEF CallRecords
  <2> QED
    BY <1>3, <2>3, <2>4, <2>5
<1>5. ASSUME NEW c \in SearchCall, RejectQuery(c) \/ PaceCancelled(c) PROVE SearchInv'
  <2>1. query[c] \in CallRecords
    BY <1>a DEF CallOk
  <2>2. query[c].at # "done" /\ query'[c] = [query[c] EXCEPT !.at = "failed"]
    BY <1>5, <1>a DEF RejectQuery, PaceCancelled
  <2>3. UNCHANGED <<searchTick, lastStart>> /\ query' = [query EXCEPT ![c] = query'[c]]
    BY <1>5, <1>a, <2>2 DEF RejectQuery, PaceCancelled
  <2>4. query'[c] \in CallRecords /\ query'[c].reply = query[c].reply /\ query'[c].hits = query[c].hits
    BY <2>1, <2>2 DEF CallRecords
  <2> QED
    BY <1>3, <2>2, <2>3, <2>4
<1>6. ASSUME NEW c \in SearchCall, PaceRead(c) PROVE SearchInv'
  <2> DEFINE until == IF lastStart = 0 \/ searchTick >= lastStart + SearchPace THEN searchTick ELSE lastStart + SearchPace
  <2>0. until \in 0..(MaxSearchTicks + 1 + SearchPace)
    BY <1>0, <1>a
  <2>1. query[c] \in CallRecords
    BY <1>a DEF CallOk
  <2>2. query[c].at # "done" /\ query'[c] = [query[c] EXCEPT !.at = "waiting", !.until = until]
    BY <1>6, <1>a DEF PaceRead
  <2>3. UNCHANGED <<searchTick, lastStart>> /\ query' = [query EXCEPT ![c] = query'[c]]
    BY <1>6, <1>a, <2>2 DEF PaceRead
  <2> HIDE DEF until
  <2>4. query'[c] \in CallRecords /\ query'[c].reply = query[c].reply /\ query'[c].hits = query[c].hits
    BY <2>0, <2>1, <2>2 DEF CallRecords
  <2> QED
    BY <1>3, <2>2, <2>3, <2>4
<1>7. ASSUME NEW c \in SearchCall, PaceWoken(c) PROVE SearchInv'
  <2>1. query[c] \in CallRecords
    BY <1>a DEF CallOk
  <2>2. query[c].at # "done" /\ query'[c] = [query[c] EXCEPT !.at = "engine"]
    BY <1>7, <1>a DEF PaceWoken
  <2>3. searchTick' = searchTick /\ lastStart' = searchTick /\ query' = [query EXCEPT ![c] = query'[c]]
    BY <1>7, <1>a, <2>2 DEF PaceWoken
  <2>4. query'[c] \in CallRecords /\ query'[c].reply = query[c].reply /\ query'[c].hits = query[c].hits
    BY <2>1, <2>2 DEF CallRecords
  <2> QED
    BY <1>3, <2>2, <2>3, <2>4
<1>8. ASSUME NEW c \in SearchCall, EngineFails(c) PROVE SearchInv'
  <2>1. query[c] \in CallRecords
    BY <1>a DEF CallOk
  <2> DEFINE q == query[c]
  <2>2. /\ q.at # "done"
        /\ query'[c] = IF ~q.retried THEN [q EXCEPT !.retried = TRUE]
                       ELSE IF q.engine < EngineCount
                            THEN [q EXCEPT !.engine = q.engine + 1, !.retried = FALSE, !.error = TRUE]
                            ELSE [q EXCEPT !.at = "failed"]
    BY <1>8, <1>a DEF EngineFails
  <2>3. UNCHANGED <<searchTick, lastStart>> /\ query' = [query EXCEPT ![c] = query'[c]]
    BY <1>8, <1>a, <2>2 DEF EngineFails
  <2> HIDE DEF q
  <2>4. query'[c] \in CallRecords /\ query'[c].reply = q.reply /\ query'[c].hits = q.hits
    <3>0. q \in CallRecords
      BY <2>1 DEF q
    <3>1. CASE query'[c] = [q EXCEPT !.retried = TRUE]
      BY <3>0, <3>1 DEF CallRecords
    <3>2. CASE /\ q.engine < EngineCount
               /\ query'[c] = [q EXCEPT !.engine = q.engine + 1, !.retried = FALSE, !.error = TRUE]
      <4>1. q.engine + 1 \in 1..EngineCount
        BY <3>0, <3>2 DEF CallRecords, EngineCount
      <4> QED
        BY <3>0, <3>2, <4>1 DEF CallRecords
    <3>3. CASE query'[c] = [q EXCEPT !.at = "failed"]
      BY <3>0, <3>3 DEF CallRecords
    <3> QED
      BY <2>2, <3>1, <3>2, <3>3
  <2> USE DEF q
  <2> QED
    BY <1>3, <2>2, <2>3, <2>4
<1>9. ASSUME NEW c \in SearchCall, EngineEmpty(c) PROVE SearchInv'
  <2>1. query[c] \in CallRecords
    BY <1>a DEF CallOk
  <2> DEFINE q == query[c]
  <2>2. /\ q.at # "done"
        /\ query'[c] = IF q.engine < EngineCount THEN [q EXCEPT !.engine = q.engine + 1, !.retried = FALSE]
                       ELSE [q EXCEPT !.at = IF q.error THEN "failed" ELSE "done"]
    BY <1>9, <1>a DEF EngineEmpty
  <2>3. UNCHANGED <<searchTick, lastStart>> /\ query' = [query EXCEPT ![c] = query'[c]]
    BY <1>9, <1>a, <2>2 DEF EngineEmpty
  <2> HIDE DEF q
  <2>4. query'[c] \in CallRecords /\ query'[c].reply = q.reply /\ query'[c].hits = q.hits
    <3>0. q \in CallRecords
      BY <2>1 DEF q
    <3>1. CASE q.engine < EngineCount /\ query'[c] = [q EXCEPT !.engine = q.engine + 1, !.retried = FALSE]
      <4>1. q.engine + 1 \in 1..EngineCount
        BY <3>0, <3>1 DEF CallRecords, EngineCount
      <4> QED
        BY <3>0, <3>1, <4>1 DEF CallRecords
    <3>2. CASE query'[c] = [q EXCEPT !.at = IF q.error THEN "failed" ELSE "done"]
      BY <3>0, <3>2 DEF CallRecords
    <3> QED
      BY <2>2, <3>1, <3>2
  <2> USE DEF q
  <2> QED
    BY <1>3, <2>2, <2>3, <2>4
<1>10. ASSUME NEW c \in SearchCall, NEW r \in SearchReply, EngineAnswers(c, r) PROVE SearchInv'
  <2> DEFINE kept == Visible(FirstHits(r, EngineLimit(query[c])), query[c].allow)
             hits == FirstHits(kept, query[c].limit)
  <2>1. query[c] \in CallRecords
    BY <1>a DEF CallOk
  <2>2. query'[c] = [query[c] EXCEPT !.at = "done", !.reply = r, !.hits = hits]
    BY <1>10, <1>a DEF EngineAnswers
  <2>3. UNCHANGED <<searchTick, lastStart>> /\ query' = [query EXCEPT ![c] = query'[c]]
    BY <1>10, <1>a, <2>2 DEF EngineAnswers
  <2>4. r \in Seq(AnyHit)
    <3>1. r \in Seq(HitsOf(r)) /\ HitsOf(r) \subseteq AnyHit
      BY SearchConstants DEF HitsOf, AnyHit
    <3> QED
      BY <3>1, SeqMonotonic
  <2>5. query[c].limit \in Nat /\ EngineLimit(query[c]) \in Nat
    BY <1>0, <2>1 DEF CallRecords, EngineLimit
  <2>6. hits \in Seq(AnyHit)
    BY <2>4, <2>5, FirstHitsFacts, VisibleFacts
  <2>7. /\ query'[c] \in CallRecords /\ query'[c].at = "done" /\ query'[c].reply = r /\ query'[c].hits = hits
        /\ query'[c].limit = query[c].limit /\ query'[c].allow = query[c].allow
    <3> HIDE DEF hits
    <3> QED
      BY <2>1, <2>2, <2>4, <2>6 DEF CallRecords
  <2>8. query'[c].hits = FirstHits(Visible(FirstHits(r, EngineLimit(query'[c])), query'[c].allow), query'[c].limit)
    BY <2>7 DEF EngineLimit
  <2>9. BestHits(query'[c])
    BY <2>4, <2>7, <2>8, AnswerIsBest
  <2> HIDE DEF hits
  <2> QED
    BY <1>2, <2>3, <2>7, <2>9
<1> QED
  BY <1>1, <1>4, <1>5, <1>6, <1>7, <1>8, <1>9, <1>10 DEF SearchNext, SearchTick, searchVars

(* A caller gets the best hits it may see: each is public and within its    *)
(* allowlist, in the engine's order, none that it may see is passed over,   *)
(* and none is missing while there is room (search.go, Query; filter.go).   *)
THEOREM HitsStayAsAsked == SearchSpec => []HitsAsAsked
<1>1. SearchInv => HitsAsAsked
  <2> SUFFICES ASSUME SearchInv PROVE HitsAsAsked
    OBVIOUS
  <2>1. SearchTypeOK
    BY DEF SearchInv, SearchTypeOK, CallOk, CallRecords
  <2>2. ASSUME NEW c \in SearchCall
        PROVE  LET q == query[c]
                   seen == FirstHits(q.reply, IF q.allow = {} THEN q.limit ELSE HardMax)
                   may == {i \in DOMAIN seen : seen[i].public /\ (q.allow = {} \/ seen[i].domain \in q.allow)} IN
               /\ Len(q.hits) <= q.limit
               /\ \E pos \in [1..Len(q.hits) -> may] :
                    /\ \A i \in DOMAIN q.hits : q.hits[i] = seen[pos[i]]
                    /\ \A i, j \in DOMAIN q.hits : i < j => pos[i] < pos[j]
                    /\ Len(q.hits) < q.limit => \A k \in may : \E i \in DOMAIN q.hits : pos[i] = k
    <3> DEFINE q == query[c]
    <3>1. q \in CallRecords /\ BestHits(q)
      BY <2>2 DEF SearchInv, CallOk
    <3>2. q.hits \in Seq(AnyHit) /\ q.reply \in Seq(AnyHit) /\ EngineLimit(q) \in Nat
      BY <3>1, SearchConstants DEF CallRecords, EngineLimit
    <3>3. DOMAIN q.hits = 1..Len(q.hits) /\ DOMAIN SeenBy(q) = 1..Len(SeenBy(q))
      BY <3>2, FirstHitsFacts, LenProperties DEF SeenBy
    <3> HIDE DEF q
    <3>4. SeenBy(q) = FirstHits(q.reply, IF q.allow = {} THEN q.limit ELSE HardMax)
      BY DEF EngineLimit, SeenBy
    <3>5. MaySee(q) = {i \in DOMAIN SeenBy(q) : SeenBy(q)[i].public /\ (q.allow = {} \/ SeenBy(q)[i].domain \in q.allow)}
      BY <3>3 DEF PublicHit, MaySee, Permitted
    <3>6. \E pos \in [1..Len(q.hits) -> MaySee(q)] :
             /\ \A i \in DOMAIN q.hits : q.hits[i] = SeenBy(q)[pos[i]]
             /\ \A i, j \in DOMAIN q.hits : i < j => pos[i] < pos[j]
             /\ Len(q.hits) < q.limit => \A k \in MaySee(q) : \E i \in DOMAIN q.hits : pos[i] = k
      BY <3>1, <3>3, SMTT(30) DEF BestHits, Picked
    <3>7. Len(q.hits) <= q.limit
      BY <3>1 DEF BestHits
    <3> DEFINE seen == FirstHits(q.reply, IF q.allow = {} THEN q.limit ELSE HardMax)
               may == {i \in DOMAIN seen : seen[i].public /\ (q.allow = {} \/ seen[i].domain \in q.allow)}
    <3>8. seen = SeenBy(q)
      BY <3>4
    <3> HIDE DEF seen
    <3>9. may = MaySee(q)
      BY <3>5, <3>8
    <3> HIDE DEF may
    <3>10. /\ Len(q.hits) <= q.limit
           /\ \E pos \in [1..Len(q.hits) -> may] :
                /\ \A i \in DOMAIN q.hits : q.hits[i] = seen[pos[i]]
                /\ \A i, j \in DOMAIN q.hits : i < j => pos[i] < pos[j]
                /\ Len(q.hits) < q.limit => \A k \in may : \E i \in DOMAIN q.hits : pos[i] = k
      BY ONLY <3>6, <3>7, <3>8, <3>9
    <3> USE DEF may, seen, q
    <3> QED
      BY ONLY <3>10
  <2> QED
    BY <2>1, <2>2 DEF HitsAsAsked
<1> QED
  BY <1>1, SearchStarts, SearchSteps, PTL DEF SearchSpec
=============================================================================
