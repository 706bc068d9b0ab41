----------------------------- MODULE MCDelivery -----------------------------
(***************************************************************************)
(* An instance for TLC of the path of an event to its readers: the durable *)
(* subscription of one process that crashes, closes and rewinds, and the   *)
(* stream with the screen that joins it to its snapshot.  The two share    *)
(* nothing but the log, so a behaviour exercises one of them, chosen       *)
(* initially, while the other rests in its initial state.                  *)
(***************************************************************************)
EXTENDS EventLog, EventStream

VARIABLE focus

(* One subscriber, of what the plugin watch publishes: its pattern matches   *)
(* neither the core's other events nor the announcement of a pause.          *)
CONSTANTS Digest, Hit, Miss
MCMatching == [s \in Subs |-> {Hit}]

deliveryVars == <<eventVars, streamVars, focus>>

DeliveryInit == focus \in {"log", "stream"} /\ EventsInit /\ StreamInit

Alone(f) ==
    /\ focus = f /\ UNCHANGED focus
    /\ f # "log" => UNCHANGED eventVars
    /\ f # "stream" => UNCHANGED streamVars

(* Bound: the cursor of a behaviour is rewound or resumed, not both. *)
RewoundOrResumed == count'.resets = 0 \/ count'.resumes = 0

DeliveryNext ==
    \/ Alone("log") /\ EventsNext /\ RewoundOrResumed
    \/ Alone("stream") /\ StreamNext

(* Fairness of EventLog: an action of the component in focus. *)
LogFairness ==
    /\ \A p \in Procs, s \in Subs :
          /\ WF_eventVars(focus = "log" /\ Dispatch(p, s))
          /\ WF_eventVars(focus = "log" /\ (\E start \in CursorStarts : Subscribe(p, s, start)))
    /\ \A s \in Subs : /\ WF_eventVars(focus = "log" /\ LeaseExpires(s))
                       /\ WF_eventVars(focus = "log" /\ RetryDue(s))

StreamFairness ==
    /\ WF_streamVars(focus = "stream" /\ Bootstrap)
    /\ WF_streamVars(focus = "stream" /\ StartStream)
    /\ WF_streamVars(focus = "stream" /\ OpenStream)
    /\ WF_streamVars(focus = "stream" /\ SendBatch)
    /\ WF_streamVars(focus = "stream" /\ Reconnect)
    /\ WF_streamVars(focus = "stream" /\ Receive)
    /\ WF_streamVars(focus = "stream" /\ Ask)
    /\ WF_streamVars(focus = "stream" /\ ServeData)
    /\ WF_streamVars(focus = "stream" /\ ServeTail)
    /\ WF_streamVars(focus = "stream" /\ Install)

DeliverySpec ==
    DeliveryInit /\ [][DeliveryNext]_deliveryVars /\ LogFairness /\ StreamFairness
=============================================================================
