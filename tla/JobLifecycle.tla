---------------------------- MODULE JobLifecycle ----------------------------
(***************************************************************************)
(* What the job queue promises the rest of the system, without leases,     *)
(* fences, goroutines or processes: the life of each job as its row shows  *)
(* it, and the limits a definition sets.  Jobs implements it.              *)
(***************************************************************************)
EXTENDS Integers, FiniteSets

CONSTANTS Ids, Defs, MaxAttempts, Concurrency

VARIABLES state, attempt, def

vars == <<state, attempt, def>>

Active == {"running", "cancel_requested"}
Waiting == {"pending", "retry_wait"}
Terminal == {"succeeded", "failed", "dead", "cancelled"}

Init ==
    /\ state = [j \in Ids |-> "none"]
    /\ attempt = [j \in Ids |-> 0]
    /\ def \in [Ids -> Defs]

Become(j, s) == state' = [state EXCEPT ![j] = s]

(* A job is admitted once, under one definition. *)
Enqueue(j) ==
    /\ state[j] = "none"
    /\ Become(j, "pending")
    /\ attempt' = attempt
    /\ \E d \in Defs : def' = [def EXCEPT ![j] = d]

(* An attempt starts when one is left and its definition has a free slot;  *)
(* a running job starts again when its worker was lost.                    *)
Begin(j) ==
    /\ state[j] \in Waiting \cup {"running"}
    /\ attempt[j] < MaxAttempts[def[j]]
    /\ Cardinality({i \in Ids \ {j} : state[i] \in Active /\ def[i] = def[j]})
          < Concurrency[def[j]]
    /\ Become(j, "running")
    /\ attempt' = [attempt EXCEPT ![j] = @ + 1]
    /\ def' = def

(* A failed attempt is retried only while attempts are left. *)
Retry(j) ==
    /\ state[j] \in Active
    /\ attempt[j] < MaxAttempts[def[j]]
    /\ Become(j, "retry_wait")
    /\ UNCHANGED <<attempt, def>>

(* A cancel ends a waiting job and is a request to a running one. *)
RequestCancel(j) ==
    /\ state[j] \in Active
    /\ Become(j, "cancel_requested")
    /\ UNCHANGED <<attempt, def>>

(* A waiting job ends only by being cancelled, a running one by any result. *)
End(j) ==
    /\ \/ state[j] \in Waiting /\ Become(j, "cancelled")
       \/ state[j] \in Active /\ \E s \in Terminal : Become(j, s)
    /\ UNCHANGED <<attempt, def>>

(* Retention removes finished jobs only. *)
Sweep(j) ==
    /\ state[j] \in Terminal
    /\ Become(j, "swept")
    /\ UNCHANGED <<attempt, def>>

Next ==
    \E j \in Ids :
        Enqueue(j) \/ Begin(j) \/ Retry(j) \/ RequestCancel(j) \/ End(j) \/ Sweep(j)

Spec == Init /\ [][Next]_vars
=============================================================================
