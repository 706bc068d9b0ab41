-------------------------------- MODULE Push --------------------------------
(***************************************************************************)
(* Live delivery (push/push.go, conn.go, sse.go), one topic of one plugin. *)
(* Clients connect and leave, slow ones are dropped, disabling the plugin  *)
(* closes them all.  The plugin is told when the topic gains its first     *)
(* subscriber and when it loses its last: Open and Close each end in a     *)
(* reconcile, which captures the topic's state, waits for its lock and     *)
(* calls the plugin while it holds it.  The state of a topic nobody        *)
(* watches is thrown away, and made anew for the next client.              *)
(***************************************************************************)
EXTENDS Naturals, FiniteSets

CONSTANTS
    Conn,           \* connections, each used once
    OutBuffer,      \* messages a connection may lag behind
    MaxConns,       \* connections a plugin may hold
    NoConn

ASSUME PushConstants ==
    /\ OutBuffer \in Nat \ {0} /\ MaxConns \in Nat \ {0}
    /\ IsFiniteSet(Conn) /\ NoConn \notin Conn \cup (Conn \X {"open", "close"})

VARIABLES
    pushOn,     \* policy admits the plugin
    watching,   \* the plugin has set a watcher
    current,    \* the topicState the map holds for the topic, 0 for none
    members,    \* connections of each topicState
    joined,     \* topicStates that are fed
    jmu,        \* topicState -> the reconcile that holds its lock, or NoConn
    open,       \* progress of Open per connection
    closing,    \* progress of Close per connection
    rec,        \* the topicState each reconcile has captured, 0 for none
    out,        \* messages queued per connection
    feeding     \* the plugin's own view: it feeds the topic

pushVars == <<pushOn, watching, current, members, joined, jmu, open, closing, rec, out, feeding>>

Obj == 1..Cardinality(Conn)
Part == {"open", "close"}
Calls == {"captured", "joining", "leaving"}

\* The type of the state.
PushTypeOK ==
    /\ pushOn \in BOOLEAN /\ watching \in BOOLEAN /\ feeding \in BOOLEAN
    /\ current \in 0..Cardinality(Conn)
    /\ members \in [Obj -> SUBSET Conn]
    /\ joined \subseteq Obj
    /\ jmu \in [Obj -> (Conn \X Part) \cup {NoConn}]
    /\ open \in [Conn -> {"new", "admitted", "listed", "reconcile", "done", "refused"} \cup Calls]
    /\ closing \in [Conn -> {"no", "due", "reconcile", "done"} \cup Calls]
    /\ rec \in [Conn \X Part -> 0..Cardinality(Conn)]
    /\ out \in [Conn -> 0..(OutBuffer + 1)]

PushInit ==
    /\ pushOn = TRUE /\ watching \in BOOLEAN /\ feeding = FALSE
    /\ current = 0
    /\ members = [o \in Obj |-> {}] /\ joined = {} /\ jmu = [o \in Obj |-> NoConn]
    /\ open = [c \in Conn |-> "new"] /\ closing = [c \in Conn |-> "no"]
    /\ rec = [r \in Conn \X Part |-> 0]
    /\ out = [c \in Conn |-> 0]

Listed == {c \in Conn: open[c] \notin {"new", "admitted", "refused"} /\ closing[c] \in {"no", "due"}}
Progress(r) == IF r[2] = "open" THEN open[r[1]] ELSE closing[r[1]]
SetProgress(r, to) ==
    IF r[2] = "open" THEN open' = [open EXCEPT ![r[1]] = to] /\ UNCHANGED closing
                     ELSE closing' = [closing EXCEPT ![r[1]] = to] /\ UNCHANGED open

\* The channel a connection gets holds at least its opening frames.
Capacity == IF OutBuffer < 2 THEN 2 ELSE OutBuffer

\* deliver: a full channel closes its connection in the background.
Delivered(cs) == [c \in Conn |-> IF c \in cs /\ out[c] < Capacity THEN out[c] + 1 ELSE out[c]]
Dropped(cs) == [c \in Conn |-> IF c \in cs /\ out[c] = Capacity /\ closing[c] = "no"
                               THEN "due" ELSE closing[c]]
------------------------------------------------------------------------------
(* Open and Close.                                                         *)

\* Open asks policy.
OpenAdmitted(c) ==
    /\ open[c] = "new"
    /\ open' = [open EXCEPT ![c] = IF pushOn THEN "admitted" ELSE "refused"]
    /\ UNCHANGED <<pushOn, watching, current, members, joined, jmu, closing, rec, out, feeding>>

FreshObj == CHOOSE o \in Obj: members[o] = {} /\ o \notin joined /\ o # current
                /\ jmu[o] = NoConn /\ \A r \in Conn \X Part: rec[r] # o

\* The connection is listed and joins the topic's state, which is made if there is none;
\* the ready frame is queued.
OpenListed(c) ==
    /\ open[c] = "admitted"
    /\ IF Cardinality(Listed) >= MaxConns
       THEN open' = [open EXCEPT ![c] = "refused"] /\ UNCHANGED <<current, members, out>>
       ELSE LET o == IF current = 0 THEN FreshObj ELSE current IN
            /\ current' = o
            /\ members' = [members EXCEPT ![o] = @ \cup {c}]
            /\ open' = [open EXCEPT ![c] = "listed"]
            /\ out' = [out EXCEPT ![c] = 1]
    /\ UNCHANGED <<pushOn, watching, joined, jmu, closing, rec, feeding>>

\* Resync: a topic that is being fed is announced to this connection alone.
OpenResync(c) ==
    /\ open[c] = "listed"
    /\ open' = [open EXCEPT ![c] = "reconcile"]
    /\ out' = IF current # 0 /\ current \in joined /\ closing[c] \in {"no", "due"}
              THEN Delivered({c}) ELSE out
    /\ UNCHANGED <<pushOn, watching, current, members, joined, jmu, closing, rec, feeding>>

\* The client goes away, or the transport cannot write to it.
ClientLeaves(c) ==
    /\ open[c] = "done" /\ closing[c] = "no"
    /\ closing' = [closing EXCEPT ![c] = "due"]
    /\ UNCHANGED <<pushOn, watching, current, members, joined, jmu, open, rec, out, feeding>>

\* Close, once: the connection leaves the topic and its channel is closed.
Close(c) ==
    /\ closing[c] = "due"
    /\ closing' = [closing EXCEPT ![c] = "reconcile"]
    /\ members' = [o \in Obj |-> members[o] \ {c}]
    /\ out' = [out EXCEPT ![c] = 0]
    /\ UNCHANGED <<pushOn, watching, current, joined, jmu, open, rec, feeding>>
------------------------------------------------------------------------------
(* reconcile.                                                              *)

\* The state of the topic is captured; without one there is nothing to do.
Capture(r) ==
    /\ Progress(r) = "reconcile"
    /\ IF current = 0 THEN SetProgress(r, "done") /\ UNCHANGED rec
       ELSE SetProgress(r, "captured") /\ rec' = [rec EXCEPT ![r] = current]
    /\ UNCHANGED <<pushOn, watching, current, members, joined, jmu, out, feeding>>

\* mutant: the topic's lock is not taken across the call
LockFreeAlways(o) == TRUE

LockFree(o) == jmu[o] = NoConn

\* With the lock, the demand is read and the plugin is called if it changed.
Converge(r) ==
    LET o == rec[r] IN
    /\ Progress(r) = "captured"
    /\ LockFree(o)
    /\ \/ /\ members[o] # {} /\ o \notin joined /\ watching
          /\ jmu' = [jmu EXCEPT ![o] = r]
          /\ SetProgress(r, "joining")
          /\ UNCHANGED <<joined, rec>>
       \/ /\ members[o] = {} /\ o \in joined
          /\ jmu' = [jmu EXCEPT ![o] = r]
          /\ joined' = joined \ {o}
          /\ SetProgress(r, "leaving")
          /\ UNCHANGED rec
       \/ /\ ~ (members[o] # {} /\ o \notin joined /\ watching)
          /\ ~ (members[o] = {} /\ o \in joined)
          /\ SetProgress(r, "done")
          /\ rec' = [rec EXCEPT ![r] = 0]
          /\ UNCHANGED <<jmu, joined>>
    /\ UNCHANGED <<pushOn, watching, current, members, out, feeding>>

\* Join returns; when it failed the connections are told that the topic is unavailable.
JoinReturns(r) ==
    LET o == rec[r] IN
    /\ Progress(r) = "joining"
    /\ jmu' = [jmu EXCEPT ![o] = NoConn]
    /\ rec' = [rec EXCEPT ![r] = 0]
    /\ \/ /\ joined' = joined \cup {o} /\ feeding' = TRUE
          /\ SetProgress(r, "done")
          /\ UNCHANGED out
       \/ /\ UNCHANGED <<joined, feeding>>
          /\ SetProgress(r, "done")
          /\ out' = Delivered(IF current = 0 THEN {} ELSE members[current])
    /\ UNCHANGED <<pushOn, watching, current, members>>

\* mutant: the entry is dropped whatever connections have come meanwhile
ForgetAlways(o) == 0

\* Leave has returned: the entry of a topic nobody watches is dropped.
Forget(o) == IF current = o /\ members[o] = {} THEN 0 ELSE current

LeaveReturns(r) ==
    LET o == rec[r] IN
    /\ Progress(r) = "leaving"
    /\ jmu' = [jmu EXCEPT ![o] = NoConn]
    /\ rec' = [rec EXCEPT ![r] = 0]
    /\ feeding' = FALSE
    /\ current' = Forget(o)
    /\ SetProgress(r, "done")
    /\ UNCHANGED <<pushOn, watching, members, joined, out>>
------------------------------------------------------------------------------
(* Publishing, reading, the plugin's switch.                               *)

\* Publish, Available and Unavailable reach the connections of the topic.
PublishPush ==
    /\ pushOn
    /\ current # 0 /\ members[current] # {}
    /\ out' = Delivered(members[current])
    /\ closing' = Dropped(members[current])
    /\ UNCHANGED <<pushOn, watching, current, members, joined, jmu, open, rec, feeding>>

\* The transport writes one message.
Transport(c) ==
    /\ out[c] > 0
    /\ out' = [out EXCEPT ![c] = @ - 1]
    /\ UNCHANGED <<pushOn, watching, current, members, joined, jmu, open, closing, rec, feeding>>

\* The plugin is disabled: the connections listed now are closed.
DisablePush ==
    /\ pushOn
    /\ pushOn' = FALSE
    /\ closing' = [c \in Conn |-> IF c \in Listed THEN "due" ELSE closing[c]]
    /\ UNCHANGED <<watching, current, members, joined, jmu, open, rec, out, feeding>>

PushNext ==
    \/ \E c \in Conn: \/ OpenAdmitted(c) \/ OpenListed(c) \/ OpenResync(c)
                      \/ ClientLeaves(c) \/ Close(c) \/ Transport(c)
    \/ \E r \in Conn \X Part: Capture(r) \/ Converge(r) \/ JoinReturns(r) \/ LeaveReturns(r)
    \/ PublishPush
    \/ DisablePush

PushSpec == PushInit /\ [][PushNext]_pushVars
------------------------------------------------------------------------------
InCall == {r \in Conn \X Part: Progress(r) \in {"joining", "leaving"}}

\* The plugin sees Join and Leave strictly alternate and never overlap, however the
\* connections that caused them interleave and although the topic's state is thrown away
\* and made anew.
JoinLeaveAlternate ==
    /\ Cardinality(InCall) <= 1
    /\ \A r \in InCall: feeding = (Progress(r) = "leaving")

\* When no Open or Close is under way the topic is fed exactly if somebody watches it,
\* unless the plugin has no watcher or its Join failed; and a connection that is listed
\* belongs to the state the map holds.
DemandMet ==
    (\A r \in Conn \X Part: Progress(r) \in {"new", "done", "refused", "no"}) =>
        /\ feeding = (current # 0 /\ current \in joined)
        /\ feeding => members[current] # {}
        /\ \A c \in Listed: current # 0 /\ c \in members[current]

\* The plugin is told of its watchers in order, and in the end correctly (conn.go).
PushSafe == PushTypeOK /\ JoinLeaveAlternate /\ DemandMet
=============================================================================
