---------------------------- MODULE AsyncEngine ----------------------------
(***************************************************************************)
(* What the driver and the tasks rely on in an I/O engine (trait EngineImpl *)
(* of engine/mod.rs): an operation that was started finishes, some time, in *)
(* the outside world, and its request is completed once, on the engine's    *)
(* thread, after it has finished.                                           *)
(***************************************************************************)
CONSTANT Reqs  \* addresses of requests

VARIABLE op    \* of each request: "idle", "started" or "finished"

Init == op = [r \in Reqs |-> "idle"]

Move(r, from, to) ==
  /\ op[r] = from
  /\ op' = [op EXCEPT ![r] = to]

Start(r) == Move(r, "idle", "started")

Finish(r) == Move(r, "started", "finished")

Complete(r) == Move(r, "finished", "idle")

Next == \E r \in Reqs : Start(r) \/ Finish(r) \/ Complete(r)

(* Operations are neither lost, nor completed twice, nor completed early. *)
Spec == Init /\ [][Next]_op

(* The engine completes what has finished; when an operation finishes is up *)
(* to the outside world.                                                    *)
FairSpec == Spec /\ \A r \in Reqs : WF_op(Complete(r))
=============================================================================
