--------------------------- MODULE Notifications ---------------------------
(***************************************************************************)
(* notifications/*.go: rules turn events into notifications, a throttled   *)
(* rule collects the events of one window into one notification, and one   *)
(* worker loop delivers the sends of what is ready to external channels.   *)
(*                                                                         *)
(* Time is the phase of each window and of each send.  Times are compared  *)
(* as RFC3339Nano strings, which drop trailing zeros and therefore do not  *)
(* order instants that share a prefix: in the phase "ending" a comparison  *)
(* with the window's end may go either way.                                *)
(***************************************************************************)
EXTENDS Naturals, FiniteSets

CONSTANTS
    NotifyRule,     \* rules
    AlertRule,      \* the seeded rule new channels are attached to
    NotifyChannel,  \* channels other than the inbox
    InboxChannel,
    MaxEvents,      \* events on the log (bound)
    NotifyAttempts, \* maxAttempts
    MaxUnsure,      \* crashes and lost results (bound)
    MaxEdits        \* changes from the UI (bound)

ASSUME NotifyConstants ==
    /\ AlertRule \in NotifyRule /\ InboxChannel \notin NotifyChannel
    /\ MaxEvents \in Nat /\ NotifyAttempts \in Nat \ {0} /\ MaxUnsure \in Nat /\ MaxEdits \in Nat

VARIABLES
    rules,      \* core_notification_rules
    chans,      \* core_notification_channels, the inbox apart
    edits,      \* changes from the UI so far
    putRule,    \* a PutRule between its validation and its transaction
    handled,    \* the durable subscriber's cursor
    notes,      \* core_notifications with their sources and their window, by rule and first event
    sends,      \* core_notification_sends, by notification and channel
    courier,    \* the delivery loop: idle, or the send it has claimed and how far it is
    matched,    \* (rule, event) pairs that passed match, where and rendering
    delivered,  \* how often the far side accepted a send
    unsure      \* results that never reached the row, per send

notifyVars == <<rules, chans, edits, putRule, handled, notes, sends, courier, matched, delivered, unsure>>

NotifyEvent == 1..MaxEvents
NoteId == NotifyRule \X NotifyEvent
SendId == NoteId \X NotifyChannel
NoRule == [on |-> FALSE, channels |-> {}, throttle |-> FALSE, exists |-> FALSE]
RuleRow == [on: BOOLEAN, channels: SUBSET (NotifyChannel \cup {InboxChannel}), throttle: BOOLEAN, exists: BOOLEAN]
NoNote == [sources |-> {}, collapsed |-> 0, window |-> "closed", ready |-> FALSE, inbox |-> FALSE, read |-> FALSE]
NoteRow == [sources: SUBSET NotifyEvent, collapsed: 0..MaxEvents, window: {"open", "ending", "closed"},
            ready: BOOLEAN, inbox: BOOLEAN, read: BOOLEAN]
NoSend == [state |-> "none", attempts |-> 0, wait |-> FALSE]
SendRow == [state: {"none", "pending", "retry_wait", "sending", "sent", "failed"},
            attempts: 0..(NotifyAttempts + 1), wait: BOOLEAN]
Idle == [at |-> "idle"]

\* The type of the state.
NotifyTypeOK ==
    /\ rules \in [NotifyRule -> RuleRow]
    /\ chans \in [NotifyChannel -> {"absent", "off", "on"}]
    /\ putRule = {} \/ \E r \in NotifyRule, row \in RuleRow: putRule = {<<r, row>>}
    /\ handled \in 0..MaxEvents /\ edits \in 0..MaxEdits
    /\ notes \in [NoteId -> NoteRow]
    /\ sends \in [SendId -> SendRow]
    /\ courier = Idle \/ (courier.at \in {"claimed", "accepted", "refused", "rejected"} /\ courier.send \in SendId)
    /\ matched \subseteq NoteId
    /\ delivered \in [SendId -> Nat] /\ unsure \in [SendId -> Nat]

Exists(n) == notes[n].sources # {}
Ended(s) == sends[s].state \in {"sent", "failed"}
Doubts == Cardinality({d \in SendId \X (1..MaxUnsure): d[2] <= unsure[d[1]]})
------------------------------------------------------------------------------
(* Start and the administrator.                                            *)

\* seedDefaults fills an empty rules table, at every start.
Seeded(rs) ==
    IF \E r \in NotifyRule: rs[r].exists THEN rs
    ELSE [rs EXCEPT ![AlertRule] = [on |-> TRUE, channels |-> {InboxChannel}, throttle |-> FALSE, exists |-> TRUE]]

\* New on the database an earlier process left: any channels, and the rules an administrator
\* can have made of them.
NotifyInit ==
    /\ chans \in [NotifyChannel -> {"absent", "off", "on"}]
    /\ rules \in {Seeded(rs): rs \in [NotifyRule ->
                   {NoRule} \cup {row \in RuleRow: row.exists /\ \A c \in row.channels \cap NotifyChannel: chans[c] # "absent"}]}
    /\ putRule = {} /\ handled = 0 /\ edits = 0
    /\ notes = [n \in NoteId |-> NoNote]
    /\ sends = [s \in SendId |-> NoSend]
    /\ courier = Idle /\ matched = {}
    /\ delivered = [s \in SendId |-> 0] /\ unsure = [s \in SendId |-> 0]

\* normalizeRule asks for at least one channel, and that every channel exists.
NormalizeRule(r, row) ==
    /\ putRule = {}
    /\ row.exists /\ row.channels # {}
    /\ \A c \in row.channels \cap NotifyChannel: chans[c] # "absent"
    /\ putRule' = {<<r, row>>}
    /\ edits < MaxEdits /\ edits' = edits + 1
    /\ UNCHANGED <<rules, chans, handled, notes, sends, courier, matched, delivered, unsure>>

\* The transaction of PutRule, on channels checked before it.
PutRule ==
    /\ \E p \in putRule: rules' = [rules EXCEPT ![p[1]] = p[2]]
    /\ putRule' = {}
    /\ UNCHANGED <<edits, chans, handled, notes, sends, courier, matched, delivered, unsure>>

DeleteRule(r) ==
    /\ rules[r].exists
    /\ rules' = [rules EXCEPT ![r] = NoRule]
    /\ edits < MaxEdits /\ edits' = edits + 1
    /\ UNCHANGED <<chans, putRule, handled, notes, sends, courier, matched, delivered, unsure>>

\* attachToPluginAlert: a new enabled channel joins the seeded rule, if that still exists.
AttachToPluginAlert(c) ==
    IF rules[AlertRule].exists THEN [rules EXCEPT ![AlertRule].channels = @ \cup {c}] ELSE rules

PutChannel(c, on) ==
    /\ chans' = [chans EXCEPT ![c] = IF on THEN "on" ELSE "off"]
    /\ rules' = IF chans[c] = "absent" /\ on THEN AttachToPluginAlert(c) ELSE rules
    /\ edits < MaxEdits /\ edits' = edits + 1
    /\ UNCHANGED <<putRule, handled, notes, sends, courier, matched, delivered, unsure>>

\* detachChannelFromRules, which may leave a rule without channels.
DetachChannel(c) == [r \in NotifyRule |-> [rules[r] EXCEPT !.channels = @ \ {c}]]

DeleteChannel(c) ==
    /\ chans[c] # "absent"
    /\ chans' = [chans EXCEPT ![c] = "absent"]
    /\ rules' = DetachChannel(c)
    /\ edits < MaxEdits /\ edits' = edits + 1
    /\ UNCHANGED <<putRule, handled, notes, sends, courier, matched, delivered, unsure>>

\* Only what the inbox shows can be marked.
MarkRead(n, read) ==
    /\ Exists(n) /\ notes[n].inbox /\ notes[n].ready
    /\ notes' = [notes EXCEPT ![n].read = read]
    /\ edits < MaxEdits /\ edits' = edits + 1
    /\ UNCHANGED <<rules, chans, putRule, handled, sends, courier, matched, delivered, unsure>>
------------------------------------------------------------------------------
(* handleEvent, one transaction with the subscriber's cursor.              *)

\* A window the query still finds open; at its very end that is not certain.
WindowFound(n, atEnd) ==
    Exists(n) /\ (notes[n].window = "open" \/ (notes[n].window = "ending" /\ atEnd))

\* The newest window of the rule, if it is still open.
WindowOf(r, atEnd) ==
    LET own == {n \in NoteId: n[1] = r /\ WindowFound(n, atEnd)} IN
    {n \in own: \A m \in own: m[2] <= n[2]}

\* applyImmediate: a notification that is ready at once.
Immediate(r, e) ==
    [sources |-> {e}, collapsed |-> 0, window |-> "closed", ready |-> TRUE,
     inbox |-> InboxChannel \in rules[r].channels, read |-> FALSE]

\* applyThrottled without an open window: a notification that is ready when its window ends.
OpenWindow(r, e) == [Immediate(r, e) EXCEPT !.window = "open", !.ready = FALSE]

Fresh(r, e) == IF rules[r].throttle THEN OpenWindow(r, e) ELSE Immediate(r, e)

\* mutant: the event joins the window without being counted
AttachedUncounted(n, e) == [notes[n] EXCEPT !.sources = @ \cup {e}]

\* attachThrottle counts the event before it renders, so a failed rendering keeps it counted.
Attached(n, e) == [notes[n] EXCEPT !.sources = @ \cup {e}, !.collapsed = @ + 1]

\* insertSends: one pending send per enabled channel of the rule, the inbox apart.
InsertSends(r) == {c \in rules[r].channels \cap NotifyChannel: chans[c] = "on"}

EnabledRules == {r \in NotifyRule: rules[r].exists /\ rules[r].on}

\* What applyRule makes of event e: M are the enabled rules that match it, B those whose
\* templates do not render it.
HandleEvent(M, B, atEnd) ==
    LET e == handled + 1
        joins == {n \in NoteId: n[1] \in M /\ n \in WindowOf(n[1], rules[n[1]].throttle /\ atEnd)
                                /\ rules[n[1]].throttle}
        opens == {<<r, e>>: r \in M \ (B \cup {n[1]: n \in joins})}
    IN  /\ handled < MaxEvents
        /\ handled' = e
        /\ notes' = [n \in NoteId |-> IF n \in joins THEN Attached(n, e)
                                      ELSE IF n \in opens THEN Fresh(n[1], e) ELSE notes[n]]
        /\ sends' = [s \in SendId |-> IF s[1] \in opens /\ s[2] \in InsertSends(s[1][1])
                                      THEN [NoSend EXCEPT !.state = "pending"] ELSE sends[s]]
        /\ matched' = matched \cup {<<r, e>>: r \in M \ (B \ {n[1]: n \in joins})}
        /\ UNCHANGED <<edits, rules, chans, putRule, courier, delivered, unsure>>

\* Time: a window reaches its end, and passes it.
WindowEnds(n) ==
    /\ Exists(n) /\ notes[n].window # "closed"
    /\ notes' = [notes EXCEPT ![n].window = IF @ = "open" THEN "ending" ELSE "closed"]
    /\ UNCHANGED <<edits, rules, chans, putRule, handled, sends, courier, matched, delivered, unsure>>
------------------------------------------------------------------------------
(* The delivery loop.                                                      *)

\* mutant: the window's end is not looked at
AvailableAlways(n) == Exists(n)

\* available_at <= now, by the string comparison.
Available(n) == notes[n].window # "open"

\* releaseOneWindow: ready_published is set, with its event.
ReleaseOneWindow(n) ==
    /\ courier = Idle
    /\ Exists(n) /\ ~notes[n].ready /\ Available(n)
    /\ notes' = [notes EXCEPT ![n].ready = TRUE]
    /\ UNCHANGED <<edits, rules, chans, putRule, handled, sends, courier, matched, delivered, unsure>>

\* mutant: a send whose worker died is not taken over
ClaimableFresh(s) ==
    /\ notes[s[1]].ready /\ Available(s[1])
    /\ sends[s].state \in {"pending", "retry_wait"} /\ ~sends[s].wait

\* mutant: whether the notification was released is not asked
ClaimableEarly(s) == sends[s].state \in {"pending", "retry_wait", "sending"} /\ ~sends[s].wait

\* What claimOne selects: due sends, and those whose lease has run out.
Claimable(s) ==
    /\ notes[s[1]].ready /\ Available(s[1])
    /\ sends[s].state \in {"pending", "retry_wait", "sending"} /\ ~sends[s].wait

ClaimOne(s) ==
    /\ courier = Idle /\ Claimable(s)
    /\ sends' = [sends EXCEPT ![s].state = "sending", ![s].wait = TRUE]
    /\ courier' = [at |-> "claimed", send |-> s]
    /\ UNCHANGED <<edits, rules, chans, putRule, handled, notes, matched, delivered, unsure>>

\* channelFor refuses a channel that is gone or off, for good.
ChannelFor(c) == chans[c] = "on"

\* What the far side's answer means, per kind of channel; "none" is no answer at all, a token
\* that cannot be had included, "cut" a connection lost after the far side accepted.
HttpAnswer == {"2xx", "4xx", "410", "429", "5xx", "none", "cut"}
NtfySend(answer) ==
    CASE answer = "2xx" -> "accepted" [] answer = "cut" -> "lost"
      [] answer \in {"4xx", "410"} -> "rejected" [] OTHER -> "refused"
WebPushSend(answer) ==
    CASE answer \in {"4xx", "410"} -> "rejected" [] OTHER -> NtfySend(answer)
CloudflareSend(answer) ==
    CASE answer = "2xx" -> "accepted" [] answer = "cut" -> "lost"
      [] answer \in {"4xx", "410"} -> "rejected" [] OTHER -> "refused"

\* The SMTP step that fails: no STARTTLS and bad authentication are final, a refused
\* recipient is tried again, and a failing QUIT hides an accepted message.
SmtpStep == {"dial", "starttls", "auth", "mail", "rcpt", "data", "quit", "done"}
EmailSend(step) ==
    CASE step = "done" -> "accepted" [] step = "quit" -> "lost"
      [] step \in {"starttls", "auth"} -> "rejected" [] OTHER -> "refused"

SendResults ==
    (UNION {{NtfySend(a), WebPushSend(a), CloudflareSend(a)}: a \in HttpAnswer})
    \cup {EmailSend(a): a \in SmtpStep}

\* claimOne after its transaction: the channel is looked up and asked to send.
Send(result) ==
    /\ courier.at = "claimed"
    /\ LET s == courier.send IN
       IF ~ChannelFor(s[2])
       THEN courier' = [courier EXCEPT !.at = "rejected"] /\ UNCHANGED <<delivered, unsure>>
       ELSE /\ result = "lost" => Doubts < MaxUnsure
            /\ courier' = [courier EXCEPT !.at = IF result = "lost" THEN "refused" ELSE result]
            /\ delivered' = IF result \in {"accepted", "lost"} THEN [delivered EXCEPT ![s] = @ + 1] ELSE delivered
            /\ unsure' = IF result = "lost" THEN [unsure EXCEPT ![s] = @ + 1] ELSE unsure
    /\ UNCHANGED <<edits, rules, chans, putRule, handled, notes, sends, matched>>

\* completeSend, with the event it publishes.
CompleteSend ==
    /\ courier.at = "accepted"
    /\ sends' = [sends EXCEPT ![courier.send] = [state |-> "sent", attempts |-> @.attempts + 1, wait |-> FALSE]]
    /\ courier' = Idle
    /\ UNCHANGED <<edits, rules, chans, putRule, handled, notes, matched, delivered, unsure>>

\* failSend: another attempt after a backoff, until the attempts are used up.
FailSend ==
    /\ courier.at \in {"refused", "rejected"}
    /\ LET s == courier.send
           next == sends[s].attempts + 1
           final == courier.at = "rejected" \/ next >= NotifyAttempts
       IN  sends' = [sends EXCEPT ![s] = [state |-> IF final THEN "failed" ELSE "retry_wait",
                                          attempts |-> next, wait |-> ~final]]
    /\ courier' = Idle
    /\ UNCHANGED <<edits, rules, chans, putRule, handled, notes, matched, delivered, unsure>>

\* The process dies, or the transaction that records the result fails: the row stays
\* 'sending' under its lease.  The next start seeds an empty rules table.
ResultLost ==
    /\ courier # Idle /\ Doubts < MaxUnsure
    /\ unsure' = [unsure EXCEPT ![courier.send] = @ + 1]
    /\ courier' = Idle /\ rules' = Seeded(rules) /\ putRule' = {}
    /\ UNCHANGED <<edits, chans, handled, notes, sends, matched, delivered>>

\* Time: the backoff of a retry or the lease of a send runs out.
WaitEnds(s) ==
    /\ sends[s].wait /\ (courier # Idle => courier.send # s)
    /\ sends' = [sends EXCEPT ![s].wait = FALSE]
    /\ UNCHANGED <<edits, rules, chans, putRule, handled, notes, courier, matched, delivered, unsure>>
------------------------------------------------------------------------------
NotifyWork ==
    \/ \E n \in NoteId: ReleaseOneWindow(n)
    \/ \E s \in SendId: ClaimOne(s)
    \/ \E result \in SendResults: Send(result)
    \/ CompleteSend \/ FailSend

NotifyTime ==
    \/ \E n \in NoteId: WindowEnds(n)
    \/ \E s \in SendId: WaitEnds(s)

NotifyAdmin ==
    \/ \E r \in NotifyRule: DeleteRule(r) \/ \E row \in RuleRow: NormalizeRule(r, row)
    \/ PutRule
    \/ \E c \in NotifyChannel: DeleteChannel(c) \/ \E on \in BOOLEAN: PutChannel(c, on)
    \/ \E n \in NoteId, read \in BOOLEAN: MarkRead(n, read)

NotifyNext ==
    \/ NotifyWork \/ NotifyTime \/ NotifyAdmin \/ ResultLost
    \/ \E M \in SUBSET EnabledRules:
         \E B \in SUBSET M, atEnd \in BOOLEAN: HandleEvent(M, B, atEnd)

\* The loop keeps running, every Send returns, and time passes.
NotifyFairness == WF_notifyVars(NotifyWork) /\ WF_notifyVars(NotifyTime)

NotifySpec == NotifyInit /\ [][NotifyNext]_notifyVars /\ NotifyFairness
------------------------------------------------------------------------------
\* Every event a rule matched is a source of exactly one notification of that rule
\* whatever happens to the rule, the throttle window and the channels meanwhile, the count
\* shown is the number of further sources, and an event joins a notification already
\* released only while its window is ending (handler.go, applyImmediate, applyThrottled,
\* attachThrottle).
EventsAccounted ==
    /\ \A m \in matched: Cardinality({n \in NoteId: n[1] = m[1] /\ m[2] \in notes[n].sources}) = 1
    /\ \A n \in NoteId: Exists(n) => notes[n].collapsed = Cardinality(notes[n].sources) - 1
    /\ \A n \in NoteId: notes[n].window = "open" => ~notes[n].ready

\* What is delivered was released; a send reaches the far side once, and once more for
\* every result that was lost; a send marked sent was accepted, and a send that failed
\* with no result lost was not (deliver.go, claimOne, completeSend, failSend).
DeliveryHonest ==
    \A s \in SendId:
        /\ delivered[s] > 0 => notes[s[1]].ready
        /\ delivered[s] <= 1 + unsure[s]
        /\ sends[s].state = "sent" => delivered[s] > 0
        /\ sends[s].state = "failed" /\ unsure[s] = 0 => delivered[s] = 0

\* Every send ends as sent or failed, whatever becomes of its rule, its channel and the
\* worker that claimed it (deliver.go, claimUntilEmpty).
SendsEnd == \A s \in SendId: sends[s].state = "pending" ~> Ended(s)

\* Every matched event is told once, and what was told is recorded truthfully.
NotifySafe == NotifyTypeOK /\ EventsAccounted /\ DeliveryHonest
==============================================================================
