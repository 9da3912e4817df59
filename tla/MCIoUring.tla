----------------------------- MODULE MCIoUring -----------------------------
(* Model-checking instance of the io_uring engine. *)
EXTENDS IoUring

(* The kernels the engine tells apart: before 5.11, since then, since 5.18  *)
(* and since 6.1; the oldest also with a debug build.                       *)
On(features, debug) ==
  [ext_arg |-> "ext_arg" \in features, submit_all |-> "submit_all" \in features,
   defer_taskrun |-> "defer_taskrun" \in features, overflow_checks |-> debug]

Kernels ==
  {On({}, TRUE), On({}, FALSE), On({"ext_arg"}, FALSE),
   On({"ext_arg", "submit_all"}, FALSE),
   On({"ext_arg", "submit_all", "defer_taskrun"}, FALSE)}

(* The state without the contents of ring slots that hold no entry: nothing *)
(* reads those before they are written again.                               *)
Slots(slots, positions) ==
  [i \in {p % Cardinality(DOMAIN slots) : p \in positions} |-> slots[i]]

View ==
  <<Slots(sqes, Window(sq_khead, sq_tail)), Slots(cqes, Unread), platform,
    sq_tail, sq_ktail, sq_khead, to_submit, to_complete, cq_khead, cq_ktail,
    overflow, kernelVars, taskVars, pc, call, ev, running>>
=============================================================================
