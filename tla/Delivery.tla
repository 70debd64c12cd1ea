------------------------------ MODULE Delivery ------------------------------
(***************************************************************************)
(* What the dispatcher of a gateway promises, whatever its backlog, passes *)
(* and timers: an item is run for an agent by one dispatch at a time, it   *)
(* is marked as delivered by a completed run or by the agent that has read *)
(* it, and the mark of a message is never taken back but by a crash, which *)
(* goes back to the marks that were saved.                                 *)
(***************************************************************************)
EXTENDS Naturals

CONSTANTS
  Keys,      \* pairs of an item and an agent
  MsgKeys    \* those of messages

VARIABLES
  running,   \* keys being dispatched
  runs,      \* per key: dispatches the agent completed
  marked,    \* keys marked as delivered
  saved      \* the marks that survive a crash

Init ==
  /\ running = {}
  /\ runs = [k \in Keys |-> 0]
  /\ marked = {}
  /\ saved = {}

\* What a dispatch that begins, fails or repeats another may take back.
Kept == marked \intersect MsgKeys

\* The next dispatch begins, or none does.  base: what is running besides.
Begin(base) ==
  \/ running' = base
  \/ \E k \in Keys \ base : running' = base \union {k}

\* A dispatch begins out of nothing.
Take ==
  /\ Begin(running)
  /\ Kept \subseteq marked' /\ marked' \subseteq marked
  /\ UNCHANGED <<runs, saved>>

\* A dispatch completes, and marks its item unless that was deleted.
Complete(k) ==
  /\ k \in running
  /\ runs' = [runs EXCEPT ![k] = @ + 1]
  /\ Begin(running \ {k})
  /\ Kept \subseteq marked' /\ marked' \subseteq marked \union {k}
  /\ UNCHANGED saved

\* A dispatch fails.
GiveBack(k) ==
  /\ k \in running
  /\ Begin(running \ {k})
  /\ Kept \subseteq marked' /\ marked' \subseteq marked
  /\ UNCHANGED <<runs, saved>>

\* The agent has read a message by itself.
Acknowledge(k) ==
  /\ k \in MsgKeys
  /\ marked' = marked \union {k}
  /\ UNCHANGED <<running, runs, saved>>

Save ==
  /\ saved' = marked
  /\ UNCHANGED <<running, runs, marked>>

CrashAndRestart ==
  /\ running' = {}
  /\ marked' = saved
  /\ UNCHANGED <<runs, saved>>

Next ==
  \/ Take \/ Save \/ CrashAndRestart
  \/ \E k \in Keys : Complete(k) \/ GiveBack(k) \/ Acknowledge(k)

vars == <<running, runs, marked, saved>>

Spec == Init /\ [][Next]_vars
=============================================================================
