------------------------------- MODULE Search -------------------------------
(***************************************************************************)
(* Web lookup for plugins (search/search.go, filter.go, paced.go,          *)
(* searxng.go): a query is admitted and bounded, waits for its turn, asks  *)
(* the engines one after the other with one retry each, and gets the hits  *)
(* that are public and within the caller's allowlist.                      *)
(***************************************************************************)
EXTENDS Naturals, Sequences

CONSTANTS
    SearchCall,     \* queries
    SearchReply,    \* what an engine can answer: sequences of hits [public, domain]
    SearchDomain,   \* allowlists name these
    DefaultMax, HardMax,    \* results a query gets unasked, and at most
    SearchPace,     \* the gap between lookups, in ticks
    MaxSearchTicks        \* bound on the clock

ASSUME SearchConstants ==
    /\ DefaultMax \in Nat \ {0} /\ HardMax \in Nat /\ DefaultMax <= HardMax
    /\ SearchPace \in Nat \ {0} /\ MaxSearchTicks \in Nat
    /\ \A r \in SearchReply: r \in Seq({r[i]: i \in DOMAIN r})

VARIABLES
    searchTick,       \* the clock
    lastStart,  \* paced.last; 0 is the zero time
    lookups,    \* times at which lookups were let through
    query       \* per call: where it stands, what it asked, the reply it was given, its hits

searchVars == <<searchTick, lastStart, lookups, query>>

\* defaultSearxngEngines, in order.
EngineCount == 2

\* The type of the state.
SearchTypeOK ==
    /\ searchTick \in 1..(MaxSearchTicks + 1) /\ lastStart \in 0..searchTick
    /\ \A c \in SearchCall:
         /\ query[c].at \in {"new", "admitted", "waiting", "engine", "done", "failed"}
         /\ query[c].limit \in 0..HardMax /\ query[c].engine \in 1..EngineCount
         /\ query[c].until \in 0..(MaxSearchTicks + 1 + SearchPace)

SearchInit ==
    /\ searchTick = 1 /\ lastStart = 0 /\ lookups = <<>>
    /\ query = [c \in SearchCall |-> [at |-> "new", limit |-> 0, allow |-> {}, until |-> 0, engine |-> 1,
                                      retried |-> FALSE, error |-> FALSE, reply |-> <<>>, hits |-> <<>>]]

\* Query: the gate, the default and the ceiling; an empty allowlist admits every domain.
AskQuery(c, max, allow) ==
    /\ query[c].at = "new"
    /\ query' = [query EXCEPT ![c].at = "admitted", ![c].allow = allow,
                   ![c].limit = IF max = 0 THEN DefaultMax ELSE IF max > HardMax THEN HardMax ELSE max]
    /\ UNCHANGED <<searchTick, lastStart, lookups>>

\* The plugin is off, the query is empty or too long, or the allowlist is not one.
RejectQuery(c) ==
    /\ query[c].at = "new" /\ query' = [query EXCEPT ![c].at = "failed"]
    /\ UNCHANGED <<searchTick, lastStart, lookups>>

\* wait, first part: the time left is computed from paced.last, under its lock.
PaceRead(c) ==
    /\ query[c].at = "admitted"
    /\ query' = [query EXCEPT ![c].at = "waiting",
                   ![c].until = IF lastStart = 0 \/ searchTick >= lastStart + SearchPace THEN searchTick ELSE lastStart + SearchPace]
    /\ UNCHANGED <<searchTick, lastStart, lookups>>

\* wait, second part: the timer fired and paced.last is set, under the lock again.
PaceWoken(c) ==
    /\ query[c].at = "waiting" /\ searchTick >= query[c].until
    /\ query' = [query EXCEPT ![c].at = "engine"]
    /\ lastStart' = searchTick /\ lookups' = Append(lookups, searchTick)
    /\ UNCHANGED searchTick

\* The caller's context ends while it waits.
PaceCancelled(c) ==
    /\ query[c].at = "waiting" /\ query' = [query EXCEPT ![c].at = "failed"]
    /\ UNCHANGED <<searchTick, lastStart, lookups>>

\* A filtered query asks for all the engine may give, because hits will be dropped.
EngineLimit(q) == IF q.allow = {} THEN q.limit ELSE HardMax

\* mutant: the allowlist is not looked at once the url is public
PublicHitAny(h, allow) == h.public

\* publicHit and hostAllowed.
PublicHit(h, allow) == h.public /\ (allow = {} \/ h.domain \in allow)

\* The hits the caller may see, in the engine's order.
Visible(s, allow) ==
    LET upTo[n \in 0..Len(s)] == IF n = 0 THEN <<>>
                                 ELSE IF PublicHit(s[n], allow) THEN Append(upTo[n - 1], s[n]) ELSE upTo[n - 1]
    IN  upTo[Len(s)]

FirstHits(s, n) == SubSeq(s, 1, IF Len(s) < n THEN Len(s) ELSE n)

\* searchOnce fails: the engine is asked again once, then the next one is.
EngineFails(c) ==
    /\ query[c].at = "engine"
    /\ LET q == query[c] IN
       query' = [query EXCEPT ![c] =
         IF ~q.retried THEN [q EXCEPT !.retried = TRUE]
         ELSE IF q.engine < EngineCount THEN [q EXCEPT !.engine = q.engine + 1, !.retried = FALSE, !.error = TRUE]
         ELSE [q EXCEPT !.at = "failed"]]
    /\ UNCHANGED <<searchTick, lastStart, lookups>>

\* An engine without hits is passed over; an earlier failure is then the answer.
EngineEmpty(c) ==
    /\ query[c].at = "engine"
    /\ LET q == query[c] IN
       query' = [query EXCEPT ![c] =
         IF q.engine < EngineCount THEN [q EXCEPT !.engine = q.engine + 1, !.retried = FALSE]
         ELSE [q EXCEPT !.at = IF q.error THEN "failed" ELSE "done"]]
    /\ UNCHANGED <<searchTick, lastStart, lookups>>

\* Hits are cut to the engine's limit, filtered, and cut to the caller's.
EngineAnswers(c, reply) ==
    /\ query[c].at = "engine" /\ reply # <<>>
    /\ LET q == query[c]
           kept == Visible(FirstHits(reply, EngineLimit(q)), q.allow) IN
       query' = [query EXCEPT ![c].at = "done", ![c].reply = reply, ![c].hits = FirstHits(kept, q.limit)]
    /\ UNCHANGED <<searchTick, lastStart, lookups>>

SearchTick ==
    /\ searchTick <= MaxSearchTicks /\ searchTick' = searchTick + 1 /\ UNCHANGED <<lastStart, lookups, query>>

SearchNext ==
    \/ \E c \in SearchCall:
         \/ \E max \in 0..(HardMax + 1), allow \in SUBSET SearchDomain: AskQuery(c, max, allow)
         \/ RejectQuery(c) \/ PaceRead(c) \/ PaceWoken(c) \/ PaceCancelled(c) \/ EngineFails(c) \/ EngineEmpty(c)
         \/ \E r \in SearchReply: EngineAnswers(c, r)
    \/ SearchTick

SearchSpec == SearchInit /\ [][SearchNext]_searchVars
------------------------------------------------------------------------------
\* A caller gets the best hits it may see: every one it gets is public and within its
\* allowlist, none of the engine's first HardMax that it may see is withheld from a filtered
\* query while there is room, and the engine's order is kept (search.go, Query).
HitsAsAsked ==
    SearchTypeOK /\ \A c \in SearchCall: query[c].at = "done" =>
      LET q == query[c]
          seen == FirstHits(q.reply, IF q.allow = {} THEN q.limit ELSE HardMax)
          may == {i \in DOMAIN seen: seen[i].public /\ (q.allow = {} \/ seen[i].domain \in q.allow)} IN
      /\ Len(q.hits) <= q.limit
      /\ \E pos \in [1..Len(q.hits) -> may]:
           /\ \A i \in DOMAIN q.hits: q.hits[i] = seen[pos[i]]
           /\ \A i, j \in DOMAIN q.hits: i < j => pos[i] < pos[j]
           /\ Len(q.hits) < q.limit => \A k \in may: \E i \in DOMAIN q.hits: pos[i] = k

\* paced.go says "lookups run one at a time with a gap between them".  The code does not
\* hold this: wait computes the time left under the lock and sets paced.last under it again
\* after the timer, so callers that read the same last wake together.
SearchesSpaced == \A i \in 1..(Len(lookups) - 1): lookups[i + 1] >= lookups[i] + SearchPace
==============================================================================
