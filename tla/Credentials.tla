----------------------------- MODULE Credentials -----------------------------
(***************************************************************************)
(* The credential store (credentials/*.go) and its handlers                *)
(* (web/handlers_credentials.go).  An OAuth credential holds an access     *)
(* token that expires and a refresh token that the provider may rotate     *)
(* when it is used; callers of Token refresh it under a lock of this       *)
(* process and save with a compare-and-swap on the row's version.  The     *)
(* administrator authorises again, imports, replaces and deletes           *)
(* meanwhile, other modules record references, and every secret is sealed  *)
(* with a numbered master key that a restart may no longer be given.       *)
(***************************************************************************)
EXTENDS Naturals, FiniteSets

CONSTANTS
    TokenCaller,    \* goroutines that call Token
    CredOwner,      \* modules that record references
    Flow,           \* pending authorisations
    Session,        \* web sessions
    MasterKey,      \* versions of the master key
    NoSession,
    MaxGrant,       \* bound: refresh tokens the provider mints
    MaxVersion      \* bound: versions of a row

ASSUME CredentialConstants ==
    /\ MaxGrant \in Nat /\ MaxVersion \in Nat \ {0}
    /\ NoSession \notin Session \cup TokenCaller

VARIABLES
    creds,      \* core_credentials, one row per id
    credRefs,   \* core_credential_references: <<owner, id>>
    credAudit,  \* the version in the last audit entry of each id
    flows,      \* core_credential_oauth_states
    exchanges,  \* how often each state's verifier was sent to the provider
    callers,    \* goroutines inside Token
    refreshMu,  \* goroutine that holds the lock of the OAuth id, or NoSession
    keyring,    \* master keys this process was started with, {} while it is down
    activeKey,  \* the key new envelopes use
    liveTokens, \* the provider: refresh tokens it accepts
    minted,     \* the provider: refresh tokens issued so far
    newest,     \* the grant the administrator stored last
    reborn      \* a deleted OAuth row was stored again while a refresh ran

credVars == <<creds, credRefs, credAudit, flows, exchanges, callers, refreshMu, keyring,
              activeKey, liveTokens, minted, newest, reborn>>

CredId == {"oauth", "apikey"}
NoRow == [version |-> 0]
Exists(id) == creds[id].version > 0
\* grant: the authorisation the tokens stem from; refresh: the refresh token, 0 for none.
CredRow == [version: 1..MaxVersion, key: MasterKey, grant: 0..MaxGrant, refresh: 0..MaxGrant,
            fresh: BOOLEAN, status: {"ok", "needs_reauth"}]
NoCall == [pc |-> "idle", row |-> NoRow, token |-> 0]
Up == keyring # {}

\* The type of the state.
CredTypeOK ==
    /\ creds \in [CredId -> CredRow \cup {NoRow}]
    /\ credRefs \subseteq CredOwner \X CredId
    /\ credAudit \in [CredId -> 0..MaxVersion]
    /\ flows \in [Flow -> [status: {"none", "pending", "expired", "exchange", "done"},
                           session: Session \cup {NoSession}, key: MasterKey]]
    /\ \A c \in TokenCaller: callers[c].pc \in {"idle", "wait", "request", "save", "refused"}
    /\ refreshMu \in TokenCaller \cup {NoSession}
    /\ keyring \subseteq MasterKey /\ activeKey \in MasterKey
    /\ liveTokens \subseteq 1..MaxGrant

CredInit ==
    /\ creds = [i \in CredId |-> NoRow]
    /\ credRefs = {}
    /\ credAudit = [i \in CredId |-> 0]
    /\ activeKey \in MasterKey
    /\ keyring = {}
    /\ flows = [f \in Flow |-> [status |-> "none", session |-> NoSession, key |-> activeKey]]
    /\ exchanges = [f \in Flow |-> 0]
    /\ callers = [c \in TokenCaller |-> NoCall]
    /\ refreshMu = NoSession
    /\ liveTokens = {}
    /\ minted = 0
    /\ newest = 0
    /\ reborn = FALSE

\* What the provider and the tokens of this model keep when only the store changes.
TokensStay == UNCHANGED <<liveTokens, minted, newest, reborn>>
CallersStay == UNCHANGED <<callers, refreshMu>>
ProcessStays == UNCHANGED <<keyring, activeKey>>
FlowsStay == UNCHANGED <<flows, exchanges>>
------------------------------------------------------------------------------
(* Start.                                                                  *)

\* mutant: the pending authorisations are not looked at
SealedRowsOnly == {creds[i].key: i \in {j \in CredId: Exists(j)}}

\* verifyAll reads every row and every unconsumed state, expired ones too.
Sealed ==
    {creds[i].key: i \in {j \in CredId: Exists(j)}}
      \cup {flows[f].key: f \in {g \in Flow: flows[g].status \in {"pending", "expired"}}}

\* New: the active key must be there, and every envelope must open.
StartCredentials(keys, active) ==
    /\ ~ Up
    /\ active \in keys
    /\ Sealed \subseteq keys
    /\ keyring' = keys
    /\ activeKey' = active
    /\ CallersStay /\ FlowsStay /\ TokensStay
    /\ UNCHANGED <<creds, credRefs, credAudit>>

\* The process dies; callers and locks are gone, what was consumed stays consumed.
CrashCredentials ==
    /\ Up
    /\ keyring' = {}
    /\ callers' = [c \in TokenCaller |-> NoCall]
    /\ refreshMu' = NoSession
    /\ flows' = [f \in Flow |-> IF flows[f].status = "exchange"
                                THEN [flows[f] EXCEPT !.status = "done"] ELSE flows[f]]
    /\ TokensStay
    /\ UNCHANGED <<creds, credRefs, credAudit, exchanges, activeKey>>
------------------------------------------------------------------------------
(* The authorisation flow.                                                 *)

\* BeginOAuth stores the sealed verifier under the hash of a fresh state.
BeginOAuth(f, s) ==
    /\ Up
    /\ flows[f].status = "none"
    /\ flows' = [flows EXCEPT ![f] = [status |-> "pending", session |-> s, key |-> activeKey]]
    /\ CallersStay /\ ProcessStays /\ TokensStay
    /\ UNCHANGED <<creds, credRefs, credAudit, exchanges>>

\* Ten minutes pass.
FlowExpires(f) ==
    /\ flows[f].status = "pending"
    /\ flows' = [flows EXCEPT ![f].status = "expired"]
    /\ CallersStay /\ ProcessStays /\ TokensStay
    /\ UNCHANGED <<creds, credRefs, credAudit, exchanges>>

\* mutant: a consumed state is accepted again
PendingOrConsumed(f, s) ==
    /\ flows[f].status \in {"pending", "exchange", "done"}
    /\ flows[f].session = s

\* What consumeState asks of the row.
MayConsume(f, s) ==
    /\ flows[f].status = "pending"
    /\ flows[f].session = s

\* The callback, served or pasted: the state is burnt in a transaction of its own, before
\* the code is exchanged.
ConsumeState(f, s) ==
    /\ Up
    /\ MayConsume(f, s)
    /\ flows' = [flows EXCEPT ![f].status = "exchange"]
    /\ exchanges' = [exchanges EXCEPT ![f] = @ + 1]
    /\ CallersStay /\ ProcessStays /\ TokensStay
    /\ UNCHANGED <<creds, credRefs, credAudit>>

\* The exchange fails, or the provider answers a flow that was not a manual one; the
\* state stays burnt.
ExchangeFails(f) ==
    /\ flows[f].status = "exchange"
    /\ flows' = [flows EXCEPT ![f].status = "done"]
    /\ CallersStay /\ ProcessStays /\ TokensStay
    /\ UNCHANGED <<creds, credRefs, credAudit, exchanges>>

\* persistOAuth: one row per provider, version one or the next one, and its audit entry.
PersistOAuth(grant, refresh, fresh) ==
    LET version == creds["oauth"].version + 1 IN
    /\ version <= MaxVersion
    /\ creds' = [creds EXCEPT !["oauth"] =
                   [version |-> version, key |-> activeKey, grant |-> grant, refresh |-> refresh,
                    fresh |-> fresh, status |-> "ok"]]
    /\ credAudit' = [credAudit EXCEPT !["oauth"] = version]
    /\ newest' = grant
    /\ reborn' = \/ reborn
                  \/ /\ ~ Exists("oauth")
                     /\ \E c \in TokenCaller: callers[c].pc \in {"request", "save", "refused"}
    /\ UNCHANGED credRefs

\* The provider mints tokens for the code, with or without a refresh token.
ExchangeCode(f) ==
    /\ flows[f].status = "exchange"
    /\ minted < MaxGrant
    /\ minted' = minted + 1
    /\ \E refresh \in {0, minted'}:
         /\ liveTokens' = liveTokens \cup ({refresh} \ {0})
         /\ PersistOAuth(minted', refresh, TRUE)
    /\ flows' = [flows EXCEPT ![f].status = "done"]
    /\ CallersStay /\ ProcessStays
    /\ UNCHANGED exchanges

\* ImportOAuth: another client's tokens; the refresh token is required and the access
\* token counts as spent unless it says how long it lives.
ImportOAuth(fresh) ==
    /\ Up
    /\ minted < MaxGrant
    /\ minted' = minted + 1
    /\ liveTokens' = liveTokens \cup {minted'}
    /\ PersistOAuth(minted', minted', fresh)
    /\ CallersStay /\ ProcessStays /\ FlowsStay
------------------------------------------------------------------------------
(* Token and refreshOAuth.                                                 *)

\* The access token comes within thirty seconds of its expiry.
AccessExpires ==
    /\ Exists("oauth")
    /\ creds["oauth"].fresh
    /\ creds' = [creds EXCEPT !["oauth"].fresh = FALSE]
    /\ CallersStay /\ ProcessStays /\ FlowsStay /\ TokensStay
    /\ UNCHANGED <<credRefs, credAudit>>

\* A caller that finds the token spent waits for the lock; one that finds it valid, or no
\* row, has returned.
Token(c) ==
    /\ Up
    /\ callers[c].pc = "idle"
    /\ Exists("oauth") /\ ~ creds["oauth"].fresh
    /\ callers' = [callers EXCEPT ![c].pc = "wait"]
    /\ ProcessStays /\ FlowsStay /\ TokensStay
    /\ UNCHANGED <<creds, credRefs, credAudit, refreshMu>>

CallerReturns(c) ==
    /\ callers' = [callers EXCEPT ![c] = NoCall]
    /\ refreshMu' = NoSession

\* With the lock held the row is read again: another caller may have refreshed it, or it
\* is gone.  A row without a refresh token cannot be renewed.
RefreshOAuth(c) ==
    /\ callers[c].pc = "wait"
    /\ refreshMu = NoSession
    /\ LET row == creds["oauth"] IN
       IF ~ Exists("oauth") \/ row.fresh
       THEN CallerReturns(c)
       ELSE /\ refreshMu' = c
            /\ callers' = [callers EXCEPT ![c] =
                 [pc |-> IF row.refresh = 0 THEN "refused" ELSE "request",
                  row |-> row, token |-> 0]]
    /\ ProcessStays /\ FlowsStay /\ TokensStay
    /\ UNCHANGED <<creds, credRefs, credAudit>>

\* tokenRequest: the provider accepts a live token and may rotate it.  The answer arrives,
\* or it is lost and the caller sees an error, the rotation done all the same.
TokenGranted(c) ==
    LET sent == callers[c].row.refresh IN
    /\ callers[c].pc = "request"
    /\ sent \in liveTokens
    /\ \/ /\ minted < MaxGrant
          /\ minted' = minted + 1
          /\ liveTokens' = (liveTokens \ {sent}) \cup {minted'}
          /\ \/ /\ callers' = [callers EXCEPT ![c].pc = "save", ![c].token = minted']
                /\ UNCHANGED refreshMu
             \/ CallerReturns(c)
       \/ /\ callers' = [callers EXCEPT ![c].pc = "save", ![c].token = sent]
          /\ UNCHANGED <<minted, liveTokens, refreshMu>>
    /\ ProcessStays /\ FlowsStay
    /\ UNCHANGED <<creds, credRefs, credAudit, newest, reborn>>

\* The provider refuses: with a body that carries no token, which is final, or with an
\* error status, which is not.
TokenRefused(c) ==
    /\ callers[c].pc = "request"
    /\ callers[c].row.refresh \notin liveTokens
    /\ \/ callers' = [callers EXCEPT ![c].pc = "refused"] /\ UNCHANGED refreshMu
       \/ CallerReturns(c)
    /\ ProcessStays /\ FlowsStay /\ TokensStay
    /\ UNCHANGED <<creds, credRefs, credAudit>>

\* The request fails before it reached the provider.
TokenUnreachable(c) ==
    /\ callers[c].pc = "request"
    /\ CallerReturns(c)
    /\ ProcessStays /\ FlowsStay /\ TokensStay
    /\ UNCHANGED <<creds, credRefs, credAudit>>

\* mutant: the row is updated whatever its version is
CasAlways(c) == Exists("oauth")

\* The version the caller read is still the row's.
CasHolds(c) == Exists("oauth") /\ creds["oauth"].version = callers[c].row.version

\* saveOAuth; the loser of the race leaves the row alone and still returns its token.
SaveOAuth(c) ==
    /\ callers[c].pc = "save"
    /\ LET row == callers[c].row
           next == [row EXCEPT !.version = @ + 1, !.key = activeKey, !.refresh = callers[c].token,
                               !.fresh = TRUE, !.status = "ok"]
       IN IF CasHolds(c)
          THEN /\ next.version <= MaxVersion
               /\ creds' = [creds EXCEPT !["oauth"] = next]
               /\ credAudit' = [credAudit EXCEPT !["oauth"] = next.version]
          ELSE UNCHANGED <<creds, credAudit>>
    /\ CallerReturns(c)
    /\ ProcessStays /\ FlowsStay /\ TokensStay
    /\ UNCHANGED credRefs

\* markNeedsReauth, under the same condition; its own failure is ignored.
MarkNeedsReauth(c) ==
    /\ callers[c].pc = "refused"
    /\ \/ /\ CasHolds(c)
          /\ creds' = [creds EXCEPT !["oauth"].status = "needs_reauth"]
          /\ credAudit' = [credAudit EXCEPT !["oauth"] = callers[c].row.version]
       \/ UNCHANGED <<creds, credAudit>>
    /\ CallerReturns(c)
    /\ ProcessStays /\ FlowsStay /\ TokensStay
    /\ UNCHANGED credRefs
------------------------------------------------------------------------------
(* The administrator and the modules that refer to credentials.            *)

CreateAPIKey ==
    /\ Up
    /\ ~ Exists("apikey")
    /\ creds' = [creds EXCEPT !["apikey"] =
                   [version |-> 1, key |-> activeKey, grant |-> 0, refresh |-> 0,
                    fresh |-> TRUE, status |-> "ok"]]
    /\ credAudit' = [credAudit EXCEPT !["apikey"] = 1]
    /\ CallersStay /\ ProcessStays /\ FlowsStay /\ TokensStay
    /\ UNCHANGED credRefs

\* ReplaceAPIKey and RotateAPIKey.
ReplaceAPIKey ==
    /\ Up
    /\ Exists("apikey")
    /\ creds["apikey"].version < MaxVersion
    /\ creds' = [creds EXCEPT !["apikey"].version = @ + 1, !["apikey"].key = activeKey]
    /\ credAudit' = [credAudit EXCEPT !["apikey"] = creds["apikey"].version + 1]
    /\ CallersStay /\ ProcessStays /\ FlowsStay /\ TokensStay
    /\ UNCHANGED credRefs

\* mutant: the references are not read in the deleting transaction
UnusedAlways(id) == TRUE

Unused(id) == \A o \in CredOwner: <<o, id>> \notin credRefs

DeleteCredential(id) ==
    /\ Up
    /\ Exists(id)
    /\ Unused(id)
    /\ creds' = [creds EXCEPT ![id] = NoRow]
    /\ credAudit' = [credAudit EXCEPT ![id] = 0]
    /\ CallersStay /\ ProcessStays /\ FlowsStay /\ TokensStay
    /\ UNCHANGED credRefs

\* ReplaceTx: every id must exist, then the owner's references are these.
ReplaceReferences(o, ids) ==
    /\ Up
    /\ \A id \in ids: Exists(id)
    /\ credRefs' = {r \in credRefs: r[1] # o} \cup ({o} \X ids)
    /\ CallersStay /\ ProcessStays /\ FlowsStay /\ TokensStay
    /\ UNCHANGED <<creds, credAudit>>

CredNext ==
    \/ \E keys \in SUBSET MasterKey, active \in MasterKey: StartCredentials(keys, active)
    \/ CrashCredentials
    \/ \E f \in Flow:
         \/ \E s \in Session: BeginOAuth(f, s) \/ ConsumeState(f, s)
         \/ FlowExpires(f) \/ ExchangeFails(f) \/ ExchangeCode(f)
    \/ \E fresh \in BOOLEAN: ImportOAuth(fresh)
    \/ AccessExpires
    \/ \E c \in TokenCaller:
         \/ Token(c) \/ RefreshOAuth(c) \/ TokenGranted(c) \/ TokenRefused(c)
         \/ TokenUnreachable(c) \/ SaveOAuth(c) \/ MarkNeedsReauth(c)
    \/ CreateAPIKey \/ ReplaceAPIKey
    \/ \E id \in CredId: DeleteCredential(id)
    \/ \E o \in CredOwner, ids \in SUBSET CredId: ReplaceReferences(o, ids)

CredSpec == CredInit /\ [][CredNext]_credVars
------------------------------------------------------------------------------
(* Properties.                                                             *)

\* A refresh that was under way when the administrator authorised again never puts the
\* older grant back, and a caller that was refused never marks the newer one: the save and
\* the mark both compare the version they read.  A row deleted and stored again starts at
\* version one, which this comparison cannot tell from the row before it, hence reborn.
NewestGrantKept ==
    Exists("oauth") /\ ~ reborn =>
        /\ creds["oauth"].grant = newest
        /\ creds["oauth"].status = "needs_reauth" => creds["oauth"].refresh \notin liveTokens

\* What the comment on persistOAuth claims: the version keeps the compare-and-swap coherent
\* across reauthorisation.  After a deletion it does not.
GrantCoherent == Exists("oauth") => creds["oauth"].grant = newest

\* A credential that some module refers to exists, the audit log's last word on it is its
\* version, each authorisation state reaches the provider at most once, and a process that
\* is up can open every envelope it may be asked for.
CredentialsCoherent ==
    /\ \A r \in credRefs: Exists(r[2])
    /\ \A id \in CredId: credAudit[id] = creds[id].version
    /\ \A f \in Flow: exchanges[f] <= 1
    /\ Up => /\ \A id \in CredId: Exists(id) => creds[id].key \in keyring
             /\ \A f \in Flow: flows[f].status = "pending" => flows[f].key \in keyring

\* Stored credentials stay coherent through refreshes, reauthorisations, deletions,
\* crashes and changes of the master key (oauth.go, store.go, admin.go).
CredSafe == CredTypeOK /\ NewestGrantKept /\ CredentialsCoherent
=============================================================================
