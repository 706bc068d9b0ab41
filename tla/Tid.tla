-------------------------------- MODULE Tid --------------------------------
(***************************************************************************)
(* plugins/tid: the sync job collects a household's daily readings from    *)
(* the utility's portal, stores them in one transaction, records the sync, *)
(* announces it and asks the model for an insight; two durable subscribers *)
(* stamp the newest rows with the event that announced them; GET /summary  *)
(* and GET /history read the tables back.                                  *)
(*                                                                         *)
(* A day is its number in a small calendar.  A reading carries its usage   *)
(* and, for the five optional columns, one cost (summed over agreements    *)
(* like the peaks) and one temperature (kept once like the others).        *)
(***************************************************************************)
EXTENDS Naturals, Integers, Sequences, FiniteSets, FiniteSetsExt, Functions

CONSTANTS
    MonthLength,    \* the calendar: how long each of its months is
    MonthsPerYear,  \* how many months back the same month last year is
    PortalReply,    \* what the portal may answer during one collection
    BandEdges,      \* bandEdges
    RecentSpan,     \* insightRecentDays, also the windows' length
    BaselineDays,   \* days a band needs before it counts as a baseline
    CentsPerKWh,    \* settings.CentsPerKWh
    TidAttempts,    \* MaxAttempts of the job
    MaxSyncs        \* sync jobs, scheduled or asked for (bound)

\* The days of the first m months.
DaysUpTo[m \in 0..Len(MonthLength)] == IF m = 0 THEN 0 ELSE DaysUpTo[m - 1] + MonthLength[m]
Total == DaysUpTo[Len(MonthLength)]
TidDay == 1..Total
Absent == -1        \* nil, NULL

FirstOf(m) == 1 + DaysUpTo[m - 1]
MonthOf(d) == IF d < 1 THEN 0 ELSE Max({m \in DOMAIN MonthLength: FirstOf(m) <= d})
DayOfMonth(d) == d - FirstOf(MonthOf(d)) + 1

\* time.AddDate(0, k, 0): the day number is kept and what a shorter month
\* lacks runs over into the next one.
AddMonths(d, k) ==
    IF MonthOf(d) + k < 1 THEN 0 ELSE FirstOf(MonthOf(d) + k) + DayOfMonth(d) - 1

TidReading == [kwh: Nat \cup {Absent}, cost: Int, temp: Int]
UsageItem == [day: Int, kwh: Nat \cup {Absent}, cost: Int, temp: Int]
TidBill == [range: Nat \X Nat, items: Seq(UsageItem), peak: Int]

ASSUME TidConstants ==
    /\ MonthLength \in Seq(Nat \ {0}) /\ MonthsPerYear \in Nat \ {0}
    /\ RecentSpan \in Nat \ {0} /\ BaselineDays \in Nat \ {0}
    /\ CentsPerKWh \in Nat /\ TidAttempts \in Nat \ {0} /\ MaxSyncs \in Nat
    /\ \A reply \in PortalReply: reply \in Seq([electric: BOOLEAN, dg: BOOLEAN, bills: Seq(TidBill)])

VARIABLES
    today,      \* the clock, in localZone
    sync,       \* the sync job: where it is, its arguments, its attempt and what it holds
    synced,     \* sync jobs so far
    readings,   \* tid_readings
    billing,    \* tid_billing_periods with their tid_period_readings
    syncRows,   \* tid_syncs
    insights,   \* tid_insights: the event each is stamped with
    news,       \* the plugin's events on the log
    stamped,    \* the cursors of the subscribers syncs and insights
    prompt,     \* the comparisons the last insight was asked about
    summary,    \* a GET /summary between its queries, then its page
    committed   \* the collection the last commit stored

tidVars == <<today, sync, synced, readings, billing, syncRows, insights, news, stamped, prompt, summary, committed>>

----------------------------------------------------------------------------
(* Collecting. *)

NoReading == [kwh |-> Absent, cost |-> Absent, temp |-> Absent]

Added(total, v) == IF v = Absent THEN total ELSE IF total = Absent THEN v ELSE total + v
KeptFirst(total, v) == IF total = Absent THEN v ELSE total

\* readingFromMap: an item without a day or without a usage is no reading.
IsReading(i) == i.day # Absent /\ i.kwh # Absent

AddReading(r, i) == [kwh |-> Added(r.kwh, i.kwh), cost |-> Added(r.cost, i.cost), temp |-> KeptFirst(r.temp, i.temp)]

\* mergeDays: one reading per day, to which its items are added in their order.
MergeItems(table, items) ==
    LET merged[n \in 0..Len(items)] ==
            IF n = 0 THEN table
            ELSE IF IsReading(items[n]) THEN [merged[n - 1] EXCEPT ![items[n].day] = AddReading(@, items[n])]
            ELSE merged[n - 1]
    IN  merged[Len(items)]

DaysOf(table) == {d \in DOMAIN table: table[d].kwh # Absent}

\* electricAgreements, preferredAgreements: the positions of those collected.
Agreements(reply) ==
    LET electric == {a \in DOMAIN reply: reply[a].electric}
        dg == {a \in electric: reply[a].dg}
    IN  IF dg = {} THEN electric ELSE dg

\* billPeriods: each range once; only the newest, which comes first, without history.
BillPeriods(bills, history) ==
    {p \in DOMAIN bills: (\A q \in 1..(p - 1): bills[q].range # bills[p].range) /\ (history \/ p = 1)}

Largest(kws) == IF kws = {} THEN Absent ELSE Max(kws)

\* The agreement and the bill of each usage request of a collection.
Usages(reply, history) ==
    UNION {{a} \X BillPeriods(reply[a].bills, history): a \in Agreements(reply)}
BillAt(reply, u) == reply[u[1]].bills[u[2]]
UsagesOf(reply, history, range) == {u \in Usages(reply, history): BillAt(reply, u).range = range}

\* The items of some usages, merged in the order of the requests.
MergeBills(table, bills, wanted) ==
    LET merged[p \in 0..Len(bills)] ==
            IF p = 0 THEN table
            ELSE IF p \in wanted THEN MergeItems(merged[p - 1], bills[p].items) ELSE merged[p - 1]
    IN  merged[Len(bills)]
MergeDays(reply, usages) ==
    LET merged[a \in 0..Len(reply)] ==
            IF a = 0 THEN [d \in TidDay |-> NoReading]
            ELSE MergeBills(merged[a - 1], reply[a].bills, {p \in DOMAIN reply[a].bills: <<a, p>> \in usages})
    IN  merged[Len(reply)]

CollectedPeriod(reply, usages) ==
    [days |-> MergeDays(reply, usages), peak |-> Largest({BillAt(reply, u).peak: u \in usages})]

\* collect: everything is merged over every agreement and period, and once
\* more per range; any gap the code treats as an error ends the collection.
Collect(reply, history) ==
    LET all == MergeDays(reply, Usages(reply, history))
    IN  IF Agreements(reply) = {} THEN [error |-> "permanent"]
        ELSE IF \E a \in Agreements(reply): reply[a].bills = <<>> THEN [error |-> "retry"]
        ELSE IF DaysOf(all) = {} THEN [error |-> "permanent"]
        ELSE [error |-> "none", readings |-> all,
              periods |-> [r \in {BillAt(reply, u).range: u \in Usages(reply, history)} |->
                               CollectedPeriod(reply, UsagesOf(reply, history, r))]]

----------------------------------------------------------------------------
(* Storing. *)

CoalescedNever(new, old) == new                     \* mutant: the columns are overwritten
Coalesced(new, old) == IF new = Absent THEN old ELSE new

UsageAdded(new, old) == Added(old, new)             \* mutant: the usage is accumulated
Usage(new, old) == new

\* The upsert of tid_readings.
UpsertDay(old, new) ==
    IF new.kwh = Absent THEN old
    ELSE [kwh |-> Usage(new.kwh, old.kwh), cost |-> Coalesced(new.cost, old.cost), temp |-> Coalesced(new.temp, old.temp)]

\* The upsert of tid_period_readings: of the optional columns only the
\* temperatures survive a collection that lacks them.
UpsertPeriodDay(old, new) ==
    IF new.kwh = Absent THEN old
    ELSE [new EXCEPT !.temp = Coalesced(new.temp, old.temp)]

NoPeriod == [days |-> [d \in TidDay |-> NoReading], peak |-> Absent]

UpsertPeriods(collected) ==
    [r \in DOMAIN billing \cup DOMAIN collected |->
        LET old == IF r \in DOMAIN billing THEN billing[r] ELSE NoPeriod
        IN  IF r \notin DOMAIN collected THEN old
            ELSE [days |-> [d \in TidDay |-> UpsertPeriodDay(old.days[d], collected[r].days[d])],
                  peak |-> Coalesced(collected[r].peak, old.peak)]]

InsertedAll(days) == Cardinality(days)              \* mutant: every stored day counts as new
Inserted(days) == Cardinality(days \ DaysOf(readings))

\* syncedPayload: the newest day and the newest day that has usage.
Payload(table) ==
    [latest |-> Max(DaysOf(table)),
     settled |-> Largest({d \in DaysOf(table): table[d].kwh > 0}),
     today |-> IF today \in DaysOf(table) THEN table[today].kwh ELSE Absent,
     yesterday |-> IF today - 1 \in DaysOf(table) THEN table[today - 1].kwh ELSE Absent]

----------------------------------------------------------------------------
(* The arithmetic laid out in the insight's prompt. *)

\* dayTemp, temperatureBands, expectedKWh.
Band(t) == Cardinality({i \in DOMAIN BandEdges: BandEdges[i] <= t})
Bands(days) ==
    [b \in 0..Len(BandEdges) |->
        {d \in days: readings[d].temp # Absent /\ readings[d].kwh > 0 /\ Band(readings[d].temp) = b}]
HasBaseline(days, d) ==
    readings[d].temp # Absent /\ Cardinality(Bands(days)[Band(readings[d].temp)]) >= BaselineDays

KWhOf(days) == FoldFunctionOnSet(+, 0, [d \in days |-> readings[d].kwh], days)

\* windowStats and partialMonthStats over the days they are given.
Stats(days, history) ==
    [days |-> Cardinality(days), kwh |-> KWhOf(days),
     temps |-> Cardinality({d \in days: readings[d].temp # Absent}),
     matched |-> {d \in days: HasBaseline(history, d) /\ readings[d].kwh > 0}]

\* writeWindows: this window, the one before and the same one last year.
Windows(stored) ==
    LET back(end) == {d \in stored: end - RecentSpan < d /\ d <= end}
    IN  [w \in 1..3 |-> Stats(back(<<today, today - RecentSpan, AddMonths(today, -MonthsPerYear)>>[w]), stored)]

\* writeMonthToDate: the months its three rows are about.
RowMonths == [i \in 1..3 |-> MonthOf(AddMonths(today, <<0, -1, -MonthsPerYear>>[i]))]
MonthToDate(stored) ==
    LET mine == {DayOfMonth(d): d \in {x \in stored: MonthOf(x) = MonthOf(today)}}
    IN  IF mine = {} THEN <<>>
        ELSE [i \in 1..3 |-> [month |-> RowMonths[i],
                              stats |-> Stats({d \in stored: MonthOf(d) = RowMonths[i] /\ DayOfMonth(d) <= Max(mine)}, stored)]]

\* monthlyStats: the cost of a month is given when every day of it has one.
MonthlyStats(stored) ==
    [m \in {MonthOf(d): d \in stored} |->
        LET days == {d \in stored: MonthOf(d) = m}
        IN  [kwh |-> KWhOf(days), days |-> Cardinality(days),
             cost |-> IF \A d \in days: readings[d].cost # Absent
                      THEN FoldFunctionOnSet(+, 0, [d \in days |-> readings[d].cost], days) ELSE Absent]]

InsightPrompt(stored) ==
    [asked |-> today, months |-> MonthlyStats(stored), rows |-> MonthToDate(stored), windows |-> Windows(stored)]
NoPrompt == [asked |-> 0, months |-> <<>>, rows |-> <<>>, windows |-> <<>>]

----------------------------------------------------------------------------
(* The job. *)

Nothing == [at |-> "idle", history |-> FALSE, attempt |-> 0, coll |-> [error |-> "none"], fresh |-> 0]

TidInit ==
    /\ today \in TidDay /\ sync = Nothing /\ synced = 0
    /\ readings = [d \in TidDay |-> NoReading] /\ billing = <<>>
    /\ syncRows = <<>> /\ insights = <<>> /\ news = <<>> /\ stamped = [syncs |-> 0, insights |-> 0]
    /\ prompt = NoPrompt /\ summary = [at |-> "none"] /\ committed = [error |-> "none"]

DayRow(status) == [status |-> status, event |-> 0]

\* The job ends, or is queued for another attempt while it has one left.
Failed(permanent) ==
    IF permanent \/ sync.attempt >= TidAttempts THEN Nothing
    ELSE [sync EXCEPT !.at = "collect", !.attempt = @ + 1, !.coll = [error |-> "none"], !.fresh = 0]

\* The schedule, POST /sync, POST /history/sync.
EnqueueSync(history) ==
    /\ sync.at = "idle" /\ synced < MaxSyncs
    /\ synced' = synced + 1
    /\ sync' = [Nothing EXCEPT !.at = "collect", !.history = history, !.attempt = 1]
    /\ UNCHANGED <<today, readings, billing, syncRows, insights, news, stamped, prompt, summary, committed>>

\* A failed sync leaves its row where the database took it.
RecordFailed ==
    /\ \/ syncRows' = Append(syncRows, DayRow("failed"))
       \/ UNCHANGED syncRows
    /\ UNCHANGED <<today, synced, readings, billing, insights, news, stamped, prompt, summary, committed>>

\* collect: a request fails, the settings are missing, or the portal answers.
TidCollectFails(permanent) ==
    /\ sync.at = "collect"
    /\ sync' = Failed(permanent)
    /\ RecordFailed

CollectAnswers(reply) ==
    /\ sync.at = "collect"
    /\ LET c == Collect(reply, sync.history)
       IN  /\ sync' = IF c.error = "none" THEN [sync EXCEPT !.at = "store", !.coll = c] ELSE Failed(c.error = "permanent")
           /\ IF c.error = "none"
              THEN UNCHANGED <<today, synced, readings, billing, syncRows, insights, news, stamped, prompt, summary, committed>>
              ELSE RecordFailed

\* upsertReadings: one transaction, which commits whole or not at all.
UpsertReadings ==
    /\ sync.at = "store"
    /\ readings' = [d \in TidDay |-> UpsertDay(readings[d], sync.coll.readings[d])]
    /\ billing' = UpsertPeriods(sync.coll.periods)
    /\ sync' = [sync EXCEPT !.at = "record", !.fresh = Inserted(DaysOf(sync.coll.readings))]
    /\ committed' = sync.coll
    /\ UNCHANGED <<today, synced, syncRows, insights, news, stamped, prompt, summary>>

UpsertFails ==
    /\ sync.at = "store"
    /\ sync' = Failed(FALSE)
    /\ RecordFailed

RecordSync ==
    /\ sync.at = "record"
    /\ syncRows' = Append(syncRows, DayRow("ok"))
    /\ sync' = [sync EXCEPT !.at = "synced"]
    /\ UNCHANGED <<today, synced, readings, billing, insights, news, stamped, prompt, summary, committed>>

PublishSynced ==
    /\ sync.at = "synced"
    /\ news' = Append(news, [name |-> "synced", days |-> Payload(sync.coll.readings), rows |-> Cardinality(DaysOf(sync.coll.readings))])
    /\ sync' = [sync EXCEPT !.at = IF sync.fresh > 0 THEN "alert" ELSE "insight"]
    /\ UNCHANGED <<today, synced, readings, billing, syncRows, insights, stamped, prompt, summary, committed>>

PublishAlert ==
    /\ sync.at = "alert"
    /\ news' = Append(news, [name |-> "alert", days |-> Payload(sync.coll.readings), rows |-> sync.fresh])
    /\ sync' = [sync EXCEPT !.at = "insight"]
    /\ UNCHANGED <<today, synced, readings, billing, syncRows, insights, stamped, prompt, summary, committed>>

\* A step after the commit fails, or the attempt is lost with the process or
\* with its lease: the job runs again from the start.
AttemptFails ==
    /\ sync.at \in {"collect", "store", "record", "synced", "alert", "insight", "tell"}
    /\ sync' = Failed(FALSE)
    /\ UNCHANGED <<today, synced, readings, billing, syncRows, insights, news, stamped, prompt, summary, committed>>

\* writeInsight: too few days or a failed call leave the job done without one.
WriteInsight ==
    LET stored == {d \in DaysOf(readings): d <= today}
        recent == {d \in stored: today - RecentSpan < d}
    IN  /\ sync.at = "insight"
        /\ \/ /\ Cardinality(recent) < 3
              /\ sync' = Nothing
              /\ UNCHANGED <<insights, prompt>>
           \/ /\ Cardinality(recent) >= 3
              /\ prompt' = InsightPrompt(stored)
              /\ \/ insights' = Append(insights, 0) /\ sync' = [sync EXCEPT !.at = "tell"]
                 \/ UNCHANGED insights /\ sync' = Nothing
        /\ UNCHANGED <<today, synced, readings, billing, syncRows, news, stamped, summary, committed>>

\* The last step of writeInsight: whether its event is published or not, the
\* job is done.
PublishInsight ==
    /\ sync.at = "tell"
    /\ \/ news' = Append(news, [name |-> "insight", days |-> <<>>, rows |-> 0])
       \/ UNCHANGED news
    /\ sync' = Nothing
    /\ UNCHANGED <<today, synced, readings, billing, syncRows, insights, stamped, prompt, summary, committed>>

----------------------------------------------------------------------------
(* The subscribers and the pages. *)

NextNews(name, after) ==
    LET due == {i \in DOMAIN news: i > after /\ news[i].name = name}
    IN  IF due = {} THEN 0 ELSE Min(due)

\* onSynced: the newest row takes the event, unless it has one.
OnSynced ==
    LET e == NextNews("synced", stamped.syncs)
    IN  /\ e # 0
        /\ stamped' = [stamped EXCEPT !.syncs = e]
        /\ syncRows' = [i \in DOMAIN syncRows |->
                           IF i = Len(syncRows) /\ syncRows[i].event = 0 THEN [syncRows[i] EXCEPT !.event = e] ELSE syncRows[i]]
        /\ UNCHANGED <<today, sync, synced, readings, billing, insights, news, prompt, summary, committed>>

OnInsight ==
    LET e == NextNews("insight", stamped.insights)
    IN  /\ e # 0
        /\ stamped' = [stamped EXCEPT !.insights = e]
        /\ insights' = [i \in DOMAIN insights |-> IF i = Len(insights) /\ insights[i] = 0 THEN e ELSE insights[i]]
        /\ UNCHANGED <<today, sync, synced, readings, billing, syncRows, news, prompt, summary, committed>>

\* estimateCost: what is billed of this month, else the rate.
EstimateCost(days, month) ==
    LET billed == {d \in days: MonthOf(d) = MonthOf(today) /\ readings[d].cost # Absent}
    IN  CASE billed # {} -> FoldFunctionOnSet(+, 0, [d \in billed |-> readings[d].cost], billed)
          [] billed = {} /\ (CentsPerKWh = 0 \/ month = 0) -> Absent
          [] OTHER -> month * CentsPerKWh

PeriodTotal ==
    IF DOMAIN billing = {} THEN 0
    ELSE LET latest == billing[CHOOSE r \in DOMAIN billing: \A q \in DOMAIN billing: q[1] <= r[1]]
         IN  FoldFunctionOnSet(+, 0, [d \in DaysOf(latest.days) |-> latest.days[d].kwh], DaysOf(latest.days))

\* summary: the queries on the readings come first ...
SummaryReads ==
    LET stored == DaysOf(readings)
        month(m) == KWhOf({d \in stored: MonthOf(d) = m})
        days == {d \in stored: today - RecentSpan < d /\ d <= today}
    IN  /\ summary.at # "reading" /\ synced > 0
        /\ summary' = [at |-> "reading", month |-> month(MonthOf(today)), last |-> month(MonthOf(today) - 1),
                       lastYear |-> month(MonthOf(today) - MonthsPerYear), period |-> PeriodTotal,
                       days |-> days,
                       peak |-> LET top == {d \in days: readings[d].kwh > 0 /\ \A q \in days: readings[q].kwh <= readings[d].kwh}
                                IN  Largest(top),
                       cost |-> EstimateCost(days, month(MonthOf(today)))]
        /\ UNCHANGED <<today, sync, synced, readings, billing, syncRows, insights, news, stamped, prompt, committed>>

\* ... and latestInsight, latestSync and latestEventID last.
SummaryEnds ==
    LET newest(s) == IF s = <<>> THEN 0 ELSE s[Len(s)]
        row == IF syncRows = <<>> THEN DayRow("none") ELSE syncRows[Len(syncRows)]
    IN  /\ summary.at = "reading"
        /\ summary' = [at |-> "shown", days |-> summary.days, month |-> summary.month,
                       status |-> row.status, event |-> Max({row.event, newest(insights)})]
        /\ UNCHANGED <<today, sync, synced, readings, billing, syncRows, insights, news, stamped, prompt, committed>>

DayPasses ==
    /\ today < Total /\ sync.at = "idle" /\ synced > 0
    /\ today' = today + 1
    /\ UNCHANGED <<sync, synced, readings, billing, syncRows, insights, news, stamped, prompt, summary, committed>>

SyncSteps ==
    \/ \E h \in BOOLEAN: EnqueueSync(h)
    \/ \E p \in BOOLEAN: TidCollectFails(p)
    \/ \E r \in PortalReply: CollectAnswers(r)
    \/ UpsertReadings \/ UpsertFails \/ RecordSync \/ PublishSynced \/ PublishAlert
    \/ WriteInsight \/ PublishInsight \/ AttemptFails

TidNext ==
    \/ SyncSteps \/ OnSynced \/ OnInsight \/ SummaryReads \/ SummaryEnds \/ DayPasses

TidSpec == TidInit /\ [][TidNext]_tidVars

----------------------------------------------------------------------------
(* Properties. *)

\* The type of the state.
TidTypeOK ==
    /\ today \in TidDay /\ synced \in 0..MaxSyncs
    /\ sync.at \in {"idle", "collect", "store", "record", "synced", "alert", "insight", "tell"}
    /\ sync.attempt \in 0..TidAttempts
    /\ \A d \in TidDay: /\ readings[d].kwh \in Nat \cup {Absent}
                        /\ readings[d].cost \in Int /\ readings[d].temp \in Int
    /\ stamped.syncs <= Len(news) /\ stamped.insights <= Len(news)

\* However often a sync is retried, its alerts together announce no day twice:
\* what upsertReadings counts as inserted is what the table gained.
Announced == UNION {{i} \X (1..news[i].rows): i \in {j \in DOMAIN news: news[j].name = "alert"}}
DaysAlertedOnce == Cardinality(Announced) <= Cardinality(DaysOf(readings))

\* The upsert of upsertReadings forgets nothing: a cost or a temperature once
\* known survives a collection that lacks it, and storing the collection that
\* was stored last, as the second attempt of a job does, changes no table.
SyncKeepsReadings ==
    [][/\ \A d \in TidDay: /\ readings[d].cost # Absent => readings'[d].cost # Absent
                           /\ readings[d].temp # Absent => readings'[d].temp # Absent
       /\ (sync.at = "store" /\ sync'.at = "record" /\ committed' = committed)
            => (readings' = readings /\ billing' = billing)]_tidVars

\* A sync, however often it is retried, announces a day once and forgets nothing.
TidHolds == [](TidTypeOK /\ DaysAlertedOnce) /\ SyncKeepsReadings

\* writeMonthToDate promises this month, the previous month and the same month
\* of last year: three different months.  On the last days of a long month
\* AddDate(0, -1, 0) stays in it.
MonthsAreCompared ==
    Len(prompt.rows) = 3 => prompt.rows[2].month # prompt.rows[1].month

\* Every day the sync stored as new is announced, unless the job still runs.  It is
\* not when the attempt that stored it ends before its alert: the next one counts
\* nothing as new.
NewDaysAlerted ==
    sync.at = "idle" =>
      (DaysOf(readings) # {} => \E i \in DOMAIN news: news[i].name = "alert")

\* A summary that names the event of a sync holds what that sync announced.  It may
\* not: its queries are no transaction, and the event may stamp a later sync's row.
SummaryCoversEvent ==
    summary.at = "shown" =>
      (summary.event # 0 /\ news[summary.event].name = "synced"
         => news[summary.event].days.latest \in summary.days \cup {d \in TidDay: d > today})
=============================================================================
