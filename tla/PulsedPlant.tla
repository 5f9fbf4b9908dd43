----------------------------- MODULE PulsedPlant -----------------------------
(***************************************************************************)
(* What Simulation::step expects of its plants: each tick every plant is   *)
(* driven once, by the references and by the pulses of that tick.  Nothing *)
(* of an earlier tick is left, and no tick is skipped.                     *)
(***************************************************************************)
EXTENDS Integers

CONSTANTS Tol, Car(_)  \* the cars of a configuration

VARIABLES
  conf,    \* the configuration
  due,     \* whether the plants have yet to be driven in this tick
  asked,   \* per car, the tick, its inputs and its pulses
  served   \* per car, what its plant was driven with last

Faithful(a, s) ==
  /\ s.at = a.at
  /\ s.triggers = a.triggers
  /\ s.inputs["ff0"] = a.inputs["ff0"] /\ s.inputs["ff1"] = a.inputs["ff1"]
  /\ a.inputs["velocity"] - s.inputs["velocity"] \in -Tol .. Tol
  /\ s.gains = "documented"

Init == due = FALSE

Ask ==
  /\ ~due /\ due'
  /\ UNCHANGED <<conf, served>>

Serve ==
  /\ due /\ ~due'
  /\ \A v \in Car(conf) : Faithful(asked[v], served'[v])
  /\ UNCHANGED <<conf, asked>>

\* A new run of the program drives nothing.
Next == Ask \/ Serve

Spec == Init /\ [][Next]_<<conf, due, asked, served>>
=============================================================================
