------------------------------ MODULE BidrlAsk ------------------------------
(***************************************************************************)
(* The searches the bidrl plugin keeps (plugins/bidrl: search.go,          *)
(* search_http.go, and the same shape again in intent.go).                 *)
(*                                                                         *)
(* A post writes a row whose id is the millisecond of the clock and        *)
(* enqueues a job keyed by it.  The job, one at a time and tried twice,    *)
(* writes the row again, works, stores its hits and the row's state in a   *)
(* transaction, and prunes all but the newest searches, the hits of each   *)
(* before its row and every one in a statement of its own.  The screen     *)
(* shows the newest row.  The two tables do not meet: a behaviour is one   *)
(* of the site search or one of the intent search.                         *)
(***************************************************************************)
EXTENDS Naturals, Sequences, FiniteSets

CONSTANTS
    AskText,       \* queries
    NoAsk,          \* no row, no hits
    KeepSearches,   \* keepSearches, keepIntentSearches
    AskAttempts,    \* the job's MaxAttempts
    MaxAskClock     \* bound on the clock, whose milliseconds are the ids

AskId == 1 .. MaxAskClock
AskRows == [query : AskText, created : AskId, status : {"queued", "running", "ready", "failed"}]

ASSUME AskAssumption ==
    /\ NoAsk \notin AskText \cup AskRows /\ KeepSearches \in Nat \ {0}
    /\ AskAttempts \in Nat \ {0} /\ MaxAskClock \in Nat \ {0}

VARIABLES
    askKind,        \* "search" or "intent"
    askRow,         \* [query, status, created], or NoAsk
    askHits,        \* the query the stored hits answer, or NoAsk
    askJobs,        \* [id, query, left] of the jobs waiting
    askKeyed,       \* idempotency keys taken
    askRun,         \* the attempt: [pc, job, now, drop]
    askClock

askVars == <<askKind, askRow, askHits, askJobs, askKeyed, askRun, askClock>>

AskJob == [id : AskId, query : AskText, left : 0 .. AskAttempts]
Resting == [pc |-> "idle", job |-> {}, now |-> 0, drop |-> <<>>]

AskTypeOK ==
    /\ askKind \in {"search", "intent"}
    /\ \A i \in AskId : askRow[i] \in AskRows \cup {NoAsk}
    /\ askHits \in [AskId -> AskText \cup {NoAsk}] /\ askKeyed \subseteq AskId
    /\ askJobs \subseteq AskJob /\ askClock \in AskId
    /\ askRun.pc \in {"idle", "work", "store", "list", "hits", "row", "done"} /\ askRun.job \subseteq AskJob
    /\ askRun.drop \in Seq(AskId)

AskInit ==
    /\ askKind \in {"search", "intent"}
    /\ askRow = [i \in AskId |-> NoAsk] /\ askHits = [i \in AskId |-> NoAsk]
    /\ askJobs = {} /\ askKeyed = {} /\ askRun = Resting /\ askClock = 1

\* markSearch, markIntent: an upsert that leaves the creation time of a row it finds.
Marked(i, q, status, now) ==
    [askRow EXCEPT ![i] = [query |-> q, status |-> status,
                           created |-> IF askRow[i] = NoAsk THEN now ELSE askRow[i].created]]

\* handlePostSearch, handlePostIntent: two posts in one millisecond share the row, and
\* the second finds its key taken.  An enqueue that fails leaves the row queued.
PostAsk(q, ok) ==
    /\ askRow' = Marked(askClock, q, "queued", askClock)
    /\ IF ok /\ askClock \notin askKeyed
       THEN /\ askJobs' = askJobs \cup {[id |-> askClock, query |-> q, left |-> AskAttempts]}
            /\ askKeyed' = askKeyed \cup {askClock}
       ELSE UNCHANGED <<askJobs, askKeyed>>
    /\ UNCHANGED <<askKind, askHits, askRun, askClock>>

PostSearch(q, ok) == askKind = "search" /\ PostAsk(q, ok)
PostIntent(q, ok) == askKind = "intent" /\ PostAsk(q, ok)

\* The attempt begins: the row is written again, even when it was pruned meanwhile.
AskStarts(j) ==
    /\ askRun.pc = "idle" /\ j \in askJobs /\ askJobs' = askJobs \ {j}
    /\ askRow' = Marked(j.id, j.query, "running", askClock)
    /\ askRun' = [pc |-> "work", job |-> {[j EXCEPT !.left = @ - 1]}, now |-> askClock, drop |-> <<>>]
    /\ UNCHANGED <<askKind, askHits, askKeyed, askClock>>

\* The rest of the attempts, when there are any.
Retried == {j \in askRun.job : j.left > 0}

\* searchJob: the sites, the collected lots and the open auctions.  Only a browser that
\* does not open or a query that fails stops it.
SearchFinds ==
    /\ askKind = "search" /\ askRun.pc = "work" /\ askRun' = [askRun EXCEPT !.pc = "store"]
    /\ UNCHANGED <<askKind, askRow, askHits, askJobs, askKeyed, askClock>>

\* intentJob: the cards, the words and the ranking, with a fallback for each call.
IntentFinds ==
    /\ askKind = "intent" /\ askRun.pc = "work" /\ askRun' = [askRun EXCEPT !.pc = "store"]
    /\ UNCHANGED <<askKind, askRow, askHits, askJobs, askKeyed, askClock>>

\* failSearch, failIntent, from any step that returns an error to it.
AskFails ==
    /\ askRun.pc \in {"work", "store", "list", "hits", "row"}
    /\ \E j \in askRun.job : askRow' = Marked(j.id, j.query, "failed", askRun.now)
    /\ askJobs' = askJobs \cup Retried /\ askRun' = Resting
    /\ UNCHANGED <<askKind, askHits, askKeyed, askClock>>

FailSearch == askKind = "search" /\ AskFails
FailIntent == askKind = "intent" /\ AskFails

\* Newest first: by creation, then by id.
Newer(i, k) ==
    \/ askRow[i].created > askRow[k].created
    \/ askRow[i].created = askRow[k].created /\ i > k

Rows == {i \in AskId : askRow[i] # NoAsk}

\* mutant: one search too few is kept
PastNewestButOne == {i \in Rows : Cardinality({k \in Rows : Newer(k, i)}) + 1 >= KeepSearches}

\* The ids past the newest, as pruneSearches and pruneIntentSearches read them.
PastNewest == {i \in Rows : Cardinality({k \in Rows : Newer(k, i)}) >= KeepSearches}

\* storeHits, storeIntentHits: the row's state, if it is there, and the hits.
StoreHits ==
    /\ askRun.pc = "store"
    /\ \E j \in askRun.job :
          /\ askRow' = [askRow EXCEPT ![j.id] =
                           IF @ = NoAsk THEN @ ELSE [@ EXCEPT !.status = "ready"]]
          /\ askHits' = [askHits EXCEPT ![j.id] = j.query]
    /\ askRun' = [askRun EXCEPT !.pc = "list"]
    /\ UNCHANGED <<askKind, askJobs, askKeyed, askClock>>

StoreSearchHits == askKind = "search" /\ StoreHits
StoreIntentHits == askKind = "intent" /\ StoreHits

\* The list to prune, in the order it is worked off.
ListPruned ==
    /\ askRun.pc = "list"
    /\ \E drop \in [1 .. Cardinality(PastNewest) -> PastNewest] :
          /\ \A a, b \in DOMAIN drop : a < b => Newer(drop[a], drop[b])
          /\ askRun' = [askRun EXCEPT !.pc = IF drop = <<>> THEN "done" ELSE "hits", !.drop = drop]
    /\ UNCHANGED <<askKind, askRow, askHits, askJobs, askKeyed, askClock>>

PruneSearches == askKind = "search" /\ ListPruned
PruneIntentSearches == askKind = "intent" /\ ListPruned

\* The hits of a pruned search go first, then its row.
DeleteHits ==
    /\ askRun.pc = "hits"
    /\ askHits' = [askHits EXCEPT ![Head(askRun.drop)] = NoAsk]
    /\ askRun' = [askRun EXCEPT !.pc = "row"]
    /\ UNCHANGED <<askKind, askRow, askJobs, askKeyed, askClock>>

DeleteRow ==
    /\ askRun.pc = "row"
    /\ askRow' = [askRow EXCEPT ![Head(askRun.drop)] = NoAsk]
    /\ askRun' = [askRun EXCEPT !.pc = IF Len(askRun.drop) = 1 THEN "done" ELSE "hits",
                                !.drop = Tail(@)]
    /\ UNCHANGED <<askKind, askHits, askJobs, askKeyed, askClock>>

\* search.completed, intent.completed: the job is done, or its event was refused and it
\* is tried again.
AskCompletes(ok) ==
    /\ askRun.pc = "done" /\ askRun' = Resting
    /\ askJobs' = IF ok THEN askJobs ELSE askJobs \cup Retried
    /\ UNCHANGED <<askKind, askRow, askHits, askKeyed, askClock>>

\* The process stops, the job is cancelled, or an intent's progress is refused.
AskCutShort ==
    /\ askRun.pc # "idle" /\ askRun' = Resting /\ askJobs' = askJobs \cup Retried
    /\ UNCHANGED <<askKind, askRow, askHits, askKeyed, askClock>>

AskTick ==
    /\ askClock < MaxAskClock /\ askClock' = askClock + 1
    /\ UNCHANGED <<askKind, askRow, askHits, askJobs, askKeyed, askRun>>

AskNext ==
    \/ \E q \in AskText, ok \in BOOLEAN : PostSearch(q, ok) \/ PostIntent(q, ok)
    \/ \E j \in askJobs : AskStarts(j)
    \/ SearchFinds \/ FailSearch \/ StoreSearchHits \/ PruneSearches
    \/ IntentFinds \/ FailIntent \/ StoreIntentHits \/ PruneIntentSearches
    \/ DeleteHits \/ DeleteRow
    \/ \E ok \in BOOLEAN : AskCompletes(ok)
    \/ AskCutShort \/ AskTick

AskSpec == AskInit /\ [][AskNext]_askVars

-----------------------------------------------------------------------------
(* Properties.                                                             *)

\* handleGetSearch, handleGetIntent: the row the screen shows.
Shown == {i \in Rows : \A k \in Rows \ {i} : Newer(i, k)}

\* No hits outlive their search, and a search the screen shows as ready has its hits,
\* although pruning is not a transaction, an attempt may be cut short between any two
\* of its statements, and a pruned search may be started again (pruneSearches).
AskSafe ==
    /\ AskTypeOK
    /\ \A i \in AskId : askHits[i] # NoAsk => askRow[i] # NoAsk
    /\ \A i \in Shown : askRow[i].status = "ready" => askHits[i] # NoAsk

\* The hits of a ready search answer its query.  Those of two posts in the same
\* millisecond may not: the second changes the query the row shows (newSearchID).
HitsAnswerQuery ==
    \A i \in AskId : askRow[i] # NoAsk /\ askRow[i].status = "ready" /\ askHits[i] # NoAsk
        => askHits[i] = askRow[i].query
=============================================================================
