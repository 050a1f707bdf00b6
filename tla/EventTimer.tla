----------------------------- MODULE EventTimer -----------------------------
(***************************************************************************)
(* What the callers of Scheduler::addEvent and Scheduler::stopEvent count  *)
(* on: an event fires once, at its time or later, unless it was stopped    *)
(* before.  Scheduler.tla is shown to implement this.                      *)
(***************************************************************************)
EXTENDS Naturals

CONSTANTS
  Tasks,      (* the events                                                *)
  MinTicks    (* no event is due earlier than this after its creation      *)

VARIABLES
  now,        (* the clock                                                 *)
  due,        (* the time each event is asked for, 0 before it is          *)
  state       (* what became of each event                                 *)

vars == <<now, due, state>>

Init ==
  /\ now = 0
  /\ due = [t \in Tasks |-> 0]
  /\ state = [t \in Tasks |-> "idle"]

Becomes(t, s) == state' = [state EXCEPT ![t] = s] /\ UNCHANGED <<now, due>>

\* An event is created for a time at least MinTicks away.
Create(t) ==
  /\ due[t] = 0
  /\ due' = [due EXCEPT ![t] = due'[t]]
  /\ due'[t] >= now + MinTicks
  /\ UNCHANGED <<now, state>>

Accept(t) == due[t] # 0 /\ state[t] = "idle" /\ Becomes(t, "pending")
Refuse(t) == due[t] # 0 /\ state[t] = "idle" /\ Becomes(t, "refused")
Cancel(t) == state[t] = "pending" /\ Becomes(t, "cancelled")
Fire(t)   == state[t] = "pending" /\ due[t] <= now /\ Becomes(t, "fired")

\* The service closes: what is pending never fires.
Close ==
  /\ state' = [t \in Tasks |-> IF state[t] = "pending" THEN "lost" ELSE state[t]]
  /\ UNCHANGED <<now, due>>

Tick == now' = now + 1 /\ UNCHANGED <<due, state>>

Next ==
  \/ \E t \in Tasks : Create(t) \/ Accept(t) \/ Refuse(t) \/ Cancel(t) \/ Fire(t)
  \/ Close
  \/ Tick

Spec == Init /\ [][Next]_vars
=============================================================================
