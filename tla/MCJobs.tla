------------------------------- MODULE MCJobs -------------------------------
(* Jobs for TLC: one plugin with one definition. *)
EXTENDS Jobs, TLC

CONSTANTS p1, d1

MCPluginOf == [d \in Defs |-> p1]
MCTwo == [d \in Defs |-> 2]
MCOne == [d \in Defs |-> 1]
=============================================================================
