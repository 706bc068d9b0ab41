------------------------------- MODULE MCCore -------------------------------
(***************************************************************************)
(* An instance for TLC of the parts of the core that are checked for what  *)
(* they never do: two processes on one event log, cron, patterns, the      *)
(* migrations, the blobs, the plugin host, the push hub, the credentials   *)
(* and the routes of the AI gateway.  They share no state here; a          *)
(* behaviour exercises one of them, chosen initially, while the others     *)
(* rest in one initial state.                                              *)
(***************************************************************************)
EXTENDS EventLog, Cron, EventPattern, Migrations, Blobs, PluginHost, Push,
        Credentials, AIRoutes, TLC

VARIABLE focus

(* One subscriber, of what the plugin watch publishes: its pattern matches   *)
(* neither the core's other events nor the announcement of a pause.          *)
CONSTANTS Digest, Hit, Miss
MCMatching == [s \in Subs |-> {Hit}]
ProcSymmetry == Permutations(Procs)

(* Binaries of one owner: releases that append, one that edited a migration *)
(* after it was applied, one that dropped it, one that is out of order, and *)
(* one whose migration does not belong to it.                               *)
Migration(v, sum, creates) == [version |-> v, sum |-> sum, creates |-> creates]
First == Migration(1, "a", {"t1"})
Second == Migration(2, "b", {"t2"})
MCBinaries ==
    { <<First>>, <<First, Second>>, <<Migration(1, "edited", {"t1"}), Second>>,
      <<Second>>, <<Second, First>>, <<First, Migration(3, "c", {"foreign"})>>,
      <<First, Second, Migration(4, "d", {"t4"})>> }

Foci == {"log", "cron", "pattern", "migrations", "blobs", "host", "push", "credentials", "routes"}

(* The one initial state in which a component rests that is not in focus. *)
Resting ==
    /\ focus # "pattern" => pattern = <<Many>> /\ event = [i \in 1..2 |-> CHOOSE s \in Segments : TRUE]
    /\ focus # "host" => /\ \A p \in HostPlugin : wanted[p] /\ cfgRow[p] = CHOOSE v \in CfgValue : TRUE
                         /\ \A r \in HttpRequest : request[r].plugin = CHOOSE p \in HostPlugin : TRUE
    /\ focus # "push" => watching
    /\ focus # "credentials" => activeKey = CHOOSE k \in MasterKey : TRUE

CoreInit ==
    /\ focus \in Foci
    /\ EventsInit /\ CronInit /\ PatternInit /\ MigrationsInit /\ BlobsInit
    /\ HostInit /\ PushInit /\ CredInit /\ AIRouteInit
    /\ Resting

Alone(f) ==
    /\ focus = f /\ UNCHANGED focus
    /\ f # "log" => UNCHANGED eventVars
    /\ f # "cron" => UNCHANGED cronVars
    /\ f # "pattern" => UNCHANGED patternVars
    /\ f # "migrations" => UNCHANGED migrationVars
    /\ f # "blobs" => UNCHANGED blobVars
    /\ f # "host" => UNCHANGED hostVars
    /\ f # "push" => UNCHANGED pushVars
    /\ f # "credentials" => UNCHANGED credVars
    /\ f # "routes" => UNCHANGED aiRouteVars

(* Bound: a subscription of a behaviour is closed or resumed, not both. *)
ClosedOrResumed == count'.closings = 0 \/ count'.resumes = 0

(* Bound: administrators change the routes one after the other. *)
RoutesAlone == alone /\ AIRouteNext

CoreNext ==
    \/ Alone("log") /\ EventsNext /\ ClosedOrResumed
    \/ Alone("cron") /\ CronNext
    \/ Alone("pattern") /\ PatternNext
    \/ Alone("migrations") /\ MigrationsNext
    \/ Alone("blobs") /\ BlobsNext
    \/ Alone("host") /\ HostNext
    \/ Alone("push") /\ PushNext
    \/ Alone("credentials") /\ CredNext
    \/ Alone("routes") /\ RoutesAlone

CoreSpec == CoreInit /\ [][CoreNext]_<<eventVars, cronVars, patternVars, migrationVars, blobVars,
                                      hostVars, pushVars, credVars, aiRouteVars, focus>>
=============================================================================
