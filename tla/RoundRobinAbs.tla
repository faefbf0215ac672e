----------------------------- MODULE RoundRobinAbs -----------------------------
(***************************************************************************)
(* What the scheduler promises: round robin over a queue without pointers, *)
(* slices or statuses.  The env at the head of the queue is the one that   *)
(* runs; it goes to the tail when its turn ends, leaves the queue when it  *)
(* blocks or exits, and envs that become runnable join at the tail, so no  *)
(* env is ever overtaken by one that arrived later.                        *)
(***************************************************************************)
EXTENDS Sequences, Naturals

CONSTANTS Env, None

VARIABLES
  ready,     (* the runnable envs, in the order in which they will run     *)
  running    (* the env that has the CPU; None before the first dispatch   *)
             (* and after the machine has stopped                          *)

absVars == <<ready, running>>

Queued == {ready[i] : i \in DOMAIN ready}

AbsInit == ready = <<>> /\ running = None

\* Envs made at boot, before anything runs, go to the front.
AbsBoot ==
  /\ running = None
  /\ \E e \in Env \ Queued : ready' = <<e>> \o ready
  /\ UNCHANGED running

AbsDispatch ==
  /\ running = None /\ ready # <<>>
  /\ running' = Head(ready)
  /\ UNCHANGED ready

AbsArrive ==
  /\ running # None
  /\ \E e \in Env \ Queued : ready' = Append(ready, e)
  /\ UNCHANGED running

AbsRotate ==
  /\ running # None
  /\ ready' = Append(Tail(ready), Head(ready))
  /\ running' = Head(ready')

AbsLeave ==
  /\ running # None
  /\ ready' = Tail(ready)
  /\ running' = IF ready' = <<>> THEN None ELSE Head(ready')

AbsNext == AbsBoot \/ AbsDispatch \/ AbsArrive \/ AbsRotate \/ AbsLeave

AbsSpec == AbsInit /\ [][AbsNext]_absVars
================================================================================
