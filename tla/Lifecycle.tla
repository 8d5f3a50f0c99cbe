----------------------------- MODULE Lifecycle -----------------------------
(***************************************************************************)
(* What newprober promises the client that adds and deletes tests: a test  *)
(* is accepted, then probed by exactly one object of one worker, and after *)
(* its deletion it stops and never runs again.                             *)
(***************************************************************************)
CONSTANT Test

VARIABLE phase \* phase[t]: where test t stands

Phases == {"absent", "pending", "running", "stopping", "gone"}

Init == phase \in [Test -> {"absent", "pending"}]

Move(t, from, to) ==
    /\ phase[t] = from
    /\ phase' = [phase EXCEPT ![t] = to]

Submit(t) == Move(t, "absent", "pending")
Start(t) == Move(t, "pending", "running")
Delete(t) == Move(t, "pending", "stopping") \/ Move(t, "running", "stopping")
Stop(t) == Move(t, "stopping", "gone")

Next == \E t \in Test : Submit(t) \/ Start(t) \/ Delete(t) \/ Stop(t)

Spec == Init /\ [][Next]_phase

\* A test that was accepted starts, unless it is deleted first; a test that
\* was deleted stops.
Responsive ==
    \A t \in Test : /\ phase[t] = "pending" ~> phase[t] # "pending"
                    /\ phase[t] = "stopping" ~> phase[t] = "gone"
=============================================================================
