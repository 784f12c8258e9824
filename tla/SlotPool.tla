------------------------------ MODULE SlotPool ------------------------------
(***************************************************************************)
(* What the cap on interactive runs promises, without semaphore, counter,  *)
(* threads or sessions: every node has Capacity slots, a job takes one at  *)
(* most once, and a node that restarts has all its slots free again.       *)
(***************************************************************************)
EXTENDS Integers, FiniteSets

CONSTANTS Node, Job, Capacity

VARIABLES
  held,   \* [Node -> SUBSET Job], the jobs that have a slot
  past    \* [Node -> SUBSET Job], the jobs that will not get one (again)

poolVars == <<held, past>>

PoolInit ==
  /\ held = [n \in Node |-> {}]
  /\ past = [n \in Node |-> {}]

Take(n, j) ==
  /\ j \notin held[n] \cup past[n]
  /\ Cardinality(held[n]) < Capacity
  /\ held' = [held EXCEPT ![n] = @ \cup {j}]
  /\ UNCHANGED past

GiveBack(n, j) ==
  /\ j \in held[n]
  /\ held' = [held EXCEPT ![n] = @ \ {j}]
  /\ past' = [past EXCEPT ![n] = @ \cup {j}]

(* Everything the node ran, and perhaps calls still waiting, are gone.     *)
NodeRestarts(n) ==
  /\ held' = [held EXCEPT ![n] = {}]
  /\ \E gone \in SUBSET Job :
       /\ held[n] \subseteq gone
       /\ past' = [past EXCEPT ![n] = @ \cup gone]

PoolNext ==
  \E n \in Node :
    \/ NodeRestarts(n)
    \/ \E j \in Job : Take(n, j) \/ GiveBack(n, j)

PoolSpec == PoolInit /\ [][PoolNext]_poolVars
=============================================================================
