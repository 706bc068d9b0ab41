------------------------------ MODULE BidrlWatch ------------------------------
(***************************************************************************)
(* One watchlist of the bidrl plugin: its funnel, its findings and the     *)
(* handlers that edit it (plugins/bidrl: watchlist.go, embeddings.go,      *)
(* watchlist_http.go, findings_http.go, matchJob of automation.go).        *)
(*                                                                         *)
(* A run works on the row it loaded: it marks it running, prunes the       *)
(* stored vectors, loads the cards its rules admit, takes the expansion    *)
(* from the row or buys a new one, ranks by vector, asks the judge, and    *)
(* stores what is left in one transaction.  The watch job and the match    *)
(* tick may run the same list at once, while the operator edits or deletes *)
(* it, decides findings, lots change their text and the embedding model is *)
(* replaced by one of another dimension.                                   *)
(***************************************************************************)
EXTENDS Naturals, FiniteSets

CONSTANTS
    WatchLot,       \* lots
    WatchQuery,     \* queries
    NoQuery,        \* no cached expansion
    MaxJudged,      \* maxJudged
    Dims,           \* dimensions of the embedding models
    MaxText,        \* bound on the versions of a lot's text
    MaxRuns,        \* bound on runs
    MaxWatchEdits   \* bound on edits, decisions and replaced models

ASSUME WatchAssumption ==
    /\ NoQuery \notin WatchQuery /\ Dims \subseteq Nat \ {0}
    /\ MaxJudged \in Nat /\ MaxText \in Nat \ {0} /\ MaxRuns \in Nat /\ MaxWatchEdits \in Nat

WatchRun == {"watch", "match"}      \* the two jobs, each with a concurrency of one
NoVector == [hash |-> 0, dims |-> 0]
Vector == [hash : 0 .. MaxText, dims : Dims \cup {0}]

VARIABLES
    list,           \* [row, query, enabled, words]: words, the query the cached expansion is of
    finding,        \* finding[l], the state of the row of bidrl_findings, or "none"
    savedFinds,     \* lots in bidrl_favorites
    lotText,        \* the version of a lot's text, 0 once it has ended
    vectors,        \* bidrl_lot_embeddings: the version and dimension it was computed for
    embedder,       \* the dimension of the model routed to
    wrun,           \* the runs
    editor,         \* an update between its read and its write: the query read, or NoQuery
    decider,        \* a decision between its read and its transaction
    watchRuns, watchEdits,
    announced       \* history: announced[l], how often a finding was announced

watchVars == <<list, finding, savedFinds, lotText, vectors, embedder, wrun, editor, decider,
               watchRuns, watchEdits, announced>>
catalogText == <<lotText, embedder>>
rowVars == <<list, finding, savedFinds, announced>>
handlerVars == <<editor, decider, watchRuns, watchEdits>>

IdleRun ==
    [pc |-> "idle", query |-> NoQuery, cards |-> [l \in WatchLot |-> 0],
     dims |-> 0, have |-> [l \in WatchLot |-> NoVector], kept |-> {}, lexical |-> FALSE]

WatchTypeOK ==
    /\ list.row \in {"none", "here", "deleted"} /\ list.query \in WatchQuery \cup {NoQuery}
    /\ list.enabled \in BOOLEAN /\ list.words \in WatchQuery \cup {NoQuery}
    /\ finding \in [WatchLot -> {"none", "new", "accepted", "rejected"}]
    /\ savedFinds \subseteq WatchLot /\ lotText \in [WatchLot -> 0 .. MaxText]
    /\ vectors \in [WatchLot -> Vector] /\ embedder \in Dims
    /\ \A r \in WatchRun :
          /\ wrun[r].pc \in {"idle", "prune", "cards", "words", "expand", "probe",
                             "stored", "clear", "embed", "rank", "judge", "store", "announce", "finish"}
          /\ wrun[r].kept \subseteq WatchLot /\ wrun[r].have \in [WatchLot -> Vector]
          /\ wrun[r].cards \in [WatchLot -> 0 .. MaxText] /\ wrun[r].dims \in Dims \cup {0}
    /\ editor \in WatchQuery \cup {NoQuery}
    /\ watchRuns \in 0 .. MaxRuns /\ watchEdits \in 0 .. MaxWatchEdits

WatchInit ==
    /\ list = [row |-> "none", query |-> NoQuery, enabled |-> FALSE, words |-> NoQuery]
    /\ finding = [l \in WatchLot |-> "none"] /\ savedFinds = {}
    /\ lotText = [l \in WatchLot |-> 1] /\ vectors = [l \in WatchLot |-> NoVector]
    /\ embedder \in Dims /\ wrun = [r \in WatchRun |-> IdleRun]
    /\ editor = NoQuery /\ decider = {} /\ watchRuns = 0 /\ watchEdits = 0
    /\ announced = [l \in WatchLot |-> 0]

-----------------------------------------------------------------------------
(* The funnel.                                                             *)

\* The row is read: by the watch job, or by the match tick for every enabled list.
LoadWatchlist(r) ==
    /\ wrun[r].pc = "idle" /\ watchRuns < MaxRuns
    /\ list.row = "here" /\ (r = "match" => list.enabled)
    /\ wrun' = [wrun EXCEPT ![r] = [IdleRun EXCEPT !.pc = "prune", !.query = list.query]]
    /\ watchRuns' = watchRuns + 1
    /\ UNCHANGED <<rowVars, catalogText, vectors, editor, decider, watchEdits>>

\* pruneLotEmbeddings: the vectors of lots that ended or are gone.
PruneLotEmbeddings(r) ==
    /\ wrun[r].pc = "prune"
    /\ vectors' = [l \in WatchLot |-> IF lotText[l] = 0 THEN NoVector ELSE vectors[l]]
    /\ wrun' = [wrun EXCEPT ![r].pc = "cards"]
    /\ UNCHANGED <<rowVars, catalogText, handlerVars>>

\* watchRules: a lot with a finding of this list, decided or not, is not looked at again.
WatchRules(l) == finding[l] = "none"

\* loadCards, and the end of a run that has none.
LoadCards(r) ==
    /\ wrun[r].pc = "cards"
    /\ \E admitted \in SUBSET {l \in WatchLot : WatchRules(l) /\ lotText[l] # 0} :
          wrun' = [wrun EXCEPT ![r].pc = IF admitted = {} THEN "finish" ELSE "words",
                               ![r].cards = [l \in WatchLot |-> IF l \in admitted THEN lotText[l] ELSE 0]]
    /\ UNCHANGED <<rowVars, catalogText, vectors, handlerVars>>

\* watchWords: the row's expansion, or a call for the query of the row as loaded.
WatchWords(r) ==
    /\ wrun[r].pc = "words"
    /\ wrun' = [wrun EXCEPT ![r].pc =
            IF list.row = "here" /\ list.words # NoQuery THEN "probe" ELSE "expand"]
    /\ UNCHANGED <<rowVars, catalogText, vectors, handlerVars>>

\* The model answers and the answer is cached, or it fails and the typed words do.
WatchExpands(r, ok) ==
    /\ wrun[r].pc = "expand"
    /\ list' = IF ok /\ list.row = "here" THEN [list EXCEPT !.words = wrun[r].query] ELSE list
    /\ wrun' = [wrun EXCEPT ![r].pc = "probe"]
    /\ UNCHANGED <<finding, savedFinds, announced, catalogText, vectors, handlerVars>>

\* matchIntentSemantic embeds the probes: the dimension is the model's of now.
EmbedProbes(r) ==
    /\ wrun[r].pc = "probe" /\ wrun' = [wrun EXCEPT ![r].pc = "stored", ![r].dims = embedder]
    /\ UNCHANGED <<rowVars, catalogText, vectors, handlerVars>>

\* loadLotEmbeddings: of another dimension, they are all cleared.
LoadLotEmbeddings(r) ==
    /\ wrun[r].pc = "stored"
    /\ LET other == \E l \in WatchLot : vectors[l].dims \notin {0, wrun[r].dims} IN
       wrun' = [wrun EXCEPT ![r].pc = IF other THEN "clear" ELSE "embed",
                            ![r].have = IF other THEN [l \in WatchLot |-> NoVector] ELSE vectors]
    /\ UNCHANGED <<rowVars, catalogText, vectors, handlerVars>>

ClearLotEmbeddings(r) ==
    /\ wrun[r].pc = "clear" /\ vectors' = [l \in WatchLot |-> NoVector]
    /\ wrun' = [wrun EXCEPT ![r].pc = "embed"]
    /\ UNCHANGED <<rowVars, catalogText, handlerVars>>

\* mutant: a stored vector is good whatever text it was computed from
FreshVectorAny(r, l) == wrun[r].have[l].dims = wrun[r].dims

\* A stored vector is used when it is of this text and this dimension.
FreshVector(r, l) == wrun[r].have[l] = [hash |-> wrun[r].cards[l], dims |-> wrun[r].dims]

\* The others are embedded, by the model of now, and stored.
EmbedStale(r) ==
    /\ wrun[r].pc = "embed"
    /\ LET stale == {l \in WatchLot : wrun[r].cards[l] # 0 /\ ~FreshVector(r, l)}
           new(old) == [l \in WatchLot |->
                IF l \in stale THEN [hash |-> wrun[r].cards[l], dims |-> embedder] ELSE old[l]]
       IN /\ vectors' = new(vectors)
          /\ wrun' = [wrun EXCEPT ![r].pc = "rank", ![r].have = new(wrun[r].have)]
    /\ UNCHANGED <<rowVars, catalogText, handlerVars>>

\* An embedding call failed: the words are matched against the titles instead.
MatchIntentLexical(r) ==
    /\ wrun[r].pc \in {"probe", "embed"}
    /\ wrun' = [wrun EXCEPT ![r].pc = "rank", ![r].lexical = TRUE]
    /\ UNCHANGED <<rowVars, catalogText, vectors, handlerVars>>

\* Lots that can be ranked: carded, and with a vector of the probes' dimension.
Rankable(r) ==
    {l \in WatchLot : wrun[r].cards[l] # 0 /\ (wrun[r].lexical \/ wrun[r].have[l].dims = wrun[r].dims)}

\* keepWatchMatches: what reaches the floor, at most MaxJudged of it.
KeepWatchMatches(r) ==
    /\ wrun[r].pc = "rank"
    /\ \E ranked \in {s \in SUBSET Rankable(r) : Cardinality(s) <= MaxJudged} :
          wrun' = [wrun EXCEPT ![r].pc = IF ranked = {} THEN "finish" ELSE "judge", ![r].kept = ranked]
    /\ UNCHANGED <<rowVars, catalogText, vectors, handlerVars>>

\* judgeLot for each, then the photographs and prices of the kept ones.
JudgeLots(r) ==
    /\ wrun[r].pc = "judge"
    /\ \E relevant \in SUBSET wrun[r].kept :
          wrun' = [wrun EXCEPT ![r] = [IdleRun EXCEPT
                        !.pc = IF relevant = {} THEN "finish" ELSE "store", !.kept = relevant]]
    /\ UNCHANGED <<rowVars, catalogText, vectors, handlerVars>>

\* mutant: the insert replaces what is there
UnfoundAlways(l) == TRUE

\* ON CONFLICT(watchlist_id, lot_id) DO NOTHING.
Unfound(l) == finding[l] = "none"

\* storeFindings' transaction: nothing in it asks for the list itself.
StoreFindings(r) ==
    /\ wrun[r].pc = "store"
    /\ LET created == {l \in wrun[r].kept : Unfound(l)} IN
       /\ finding' = [l \in WatchLot |-> IF l \in created THEN "new" ELSE finding[l]]
       /\ wrun' = [wrun EXCEPT ![r].pc = IF created = {} THEN "finish" ELSE "announce",
                               ![r].kept = created]
    /\ UNCHANGED <<list, savedFinds, announced, catalogText, vectors, handlerVars>>

\* finding.created and the alert: an error is ignored.
Announce(r, ok) ==
    /\ wrun[r].pc = "announce"
    /\ announced' = [l \in WatchLot |-> IF ok /\ l \in wrun[r].kept THEN announced[l] + 1 ELSE announced[l]]
    /\ wrun' = [wrun EXCEPT ![r].pc = "finish"]
    /\ UNCHANGED <<list, finding, savedFinds, catalogText, vectors, handlerVars>>

\* finishWatch, fail, or a run cut short anywhere: what was committed stays.
RunEnds(r) ==
    /\ wrun[r].pc # "idle" /\ wrun' = [wrun EXCEPT ![r] = IdleRun]
    /\ UNCHANGED <<rowVars, catalogText, vectors, handlerVars>>

-----------------------------------------------------------------------------
(* The handlers.                                                           *)

CreateWatchlist(q) ==
    /\ list.row = "none" /\ list' = [row |-> "here", query |-> q, enabled |-> TRUE, words |-> NoQuery]
    /\ UNCHANGED <<finding, savedFinds, announced, catalogText, vectors, wrun, handlerVars>>

\* handleUpdateWatchlist reads the row ...
UpdateReads ==
    /\ list.row = "here" /\ editor = NoQuery /\ watchEdits < MaxWatchEdits
    /\ editor' = list.query /\ watchEdits' = watchEdits + 1
    /\ UNCHANGED <<rowVars, catalogText, vectors, wrun, decider, watchRuns>>

\* ... and writes it, without the expansion when the query is another than it read.
UpdateWrites(q, on) ==
    /\ editor # NoQuery /\ editor' = NoQuery
    /\ list' = IF list.row = "here"
               THEN [list EXCEPT !.query = q, !.enabled = on,
                                 !.words = IF q # editor THEN NoQuery ELSE @]
               ELSE list
    /\ UNCHANGED <<finding, savedFinds, announced, catalogText, vectors, wrun, decider, watchRuns, watchEdits>>

\* handleDeleteWatchlist: the findings and the row, in one transaction.
DeleteWatchlist ==
    /\ list.row = "here" /\ list' = [list EXCEPT !.row = "deleted"]
    /\ finding' = [l \in WatchLot |-> "none"]
    /\ UNCHANGED <<savedFinds, announced, catalogText, vectors, wrun, handlerVars>>

\* decideFinding reads the finding's lot ...
DecideReads(l, verdict) ==
    /\ decider = {} /\ finding[l] # "none" /\ watchEdits < MaxWatchEdits
    /\ decider' = {<<l, verdict>>} /\ watchEdits' = watchEdits + 1
    /\ UNCHANGED <<rowVars, catalogText, vectors, wrun, editor, watchRuns>>

\* ... and decides it, if it is still there, saving the lot when it is accepted.
DecideWrites ==
    /\ \E d \in decider :
          /\ finding' = [finding EXCEPT ![d[1]] = IF @ = "none" THEN @ ELSE d[2]]
          /\ savedFinds' = IF d[2] = "accepted" THEN savedFinds \cup {d[1]} ELSE savedFinds
    /\ decider' = {}
    /\ UNCHANGED <<list, announced, catalogText, vectors, wrun, editor, watchRuns, watchEdits>>

\* The expansion grows older than expansionMaxAge.
ExpansionStale ==
    /\ list.words # NoQuery /\ list' = [list EXCEPT !.words = NoQuery]
    /\ UNCHANGED <<finding, savedFinds, announced, catalogText, vectors, wrun, handlerVars>>

\* A lot is described anew, or it ends; the embedding model is replaced.
TextChanges(l) ==
    /\ lotText[l] # 0 /\ \E t \in {0} \cup ((lotText[l] + 1) .. MaxText) : lotText' = [lotText EXCEPT ![l] = t]
    /\ UNCHANGED <<rowVars, embedder, vectors, wrun, handlerVars>>
ModelReplaced(d) ==
    /\ watchEdits < MaxWatchEdits /\ watchEdits' = watchEdits + 1
    /\ d # embedder /\ embedder' = d
    /\ UNCHANGED <<rowVars, lotText, vectors, wrun, editor, decider, watchRuns>>

WatchNext ==
    \/ \E r \in WatchRun :
          \/ LoadWatchlist(r) \/ PruneLotEmbeddings(r) \/ LoadCards(r) \/ WatchWords(r)
          \/ EmbedProbes(r) \/ LoadLotEmbeddings(r) \/ ClearLotEmbeddings(r) \/ EmbedStale(r)
          \/ MatchIntentLexical(r) \/ KeepWatchMatches(r) \/ JudgeLots(r) \/ StoreFindings(r)
          \/ RunEnds(r)
    \/ \E r \in WatchRun, ok \in BOOLEAN : WatchExpands(r, ok) \/ Announce(r, ok)
    \/ \E q \in WatchQuery : CreateWatchlist(q)
    \/ UpdateReads \/ DeleteWatchlist \/ DecideWrites \/ ExpansionStale
    \/ \E q \in WatchQuery, on \in BOOLEAN : UpdateWrites(q, on)
    \/ \E l \in WatchLot : TextChanges(l)
    \/ \E l \in WatchLot, verdict \in {"accepted", "rejected"} : DecideReads(l, verdict)
    \/ \E d \in Dims : ModelReplaced(d)

WatchSpec == WatchInit /\ [][WatchNext]_watchVars

-----------------------------------------------------------------------------
(* Properties.                                                             *)

\* A lot is ranked by a vector of the text its card has and of the probes' dimension,
\* whatever the other run, a new text or a new model did meanwhile (matchIntentSemantic).
RankedAsSeen ==
    \A r \in WatchRun : wrun[r].pc = "judge" /\ ~wrun[r].lexical =>
        \A l \in wrun[r].kept : wrun[r].have[l] = [hash |-> wrun[r].cards[l], dims |-> wrun[r].dims]

\* While its list exists, a finding is announced once, although two runs may have
\* judged the lot at the same time (storeFindings counts the rows it inserted).
AnnouncedOnce == list.row = "here" => \A l \in WatchLot : announced[l] <= 1

\* A lot decided once never comes back to the queue, however many runs match it again
\* (storeFindings).
DecisionsStick ==
    [][list'.row = "here" =>
       \A l \in WatchLot : finding[l] \in {"accepted", "rejected"} => finding'[l] \in {"accepted", "rejected"}
      ]_watchVars

\* The funnel ranks by what it read, announces a finding once and reopens no decision.
WatchHolds == [](WatchTypeOK /\ RankedAsSeen /\ AnnouncedOnce) /\ DecisionsStick

\* The cached expansion is of the row's query.  A run that loaded the old query caches
\* its words after the update that changed it (watchWords).
WordsAnswerQuery == list.row = "here" /\ list.words # NoQuery => list.words = list.query

\* A deleted list has no findings.  A run that was under way stores them afterwards.
DeletedHasNone == list.row = "deleted" => \A l \in WatchLot : finding[l] = "none"
=============================================================================
