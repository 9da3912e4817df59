------------------------------ MODULE MCEngine ------------------------------
(* Model-checking instance of the composed engine. *)
EXTENDS Engine

(* The newest kernel. *)
Kernels ==
  {[ext_arg |-> TRUE, submit_all |-> TRUE, defer_taskrun |-> TRUE,
    overflow_checks |-> FALSE]}

(* The entries at some positions of a ring, by their distance from its head. *)
Entries(slots, head, positions) ==
  [d \in {Distance(head, i) : i \in positions} |->
     slots[((head + d) % IndexSpace) % Cardinality(DOMAIN slots)]]

(* The state without the contents of ring slots that hold no entry, which   *)
(* nothing reads before they are written again, and with ring indices       *)
(* relative to the head of their ring: without overflow checks the engine   *)
(* and the kernel only ever compare and advance indices.  That they wrap    *)
(* around correctly is what the run of IoUring checks.                      *)
View ==
  <<platform,
    Entries(sqes, sq_khead, Window(sq_khead, sq_tail)),
    Distance(sq_khead, sq_ktail), Distance(cq_khead, cq_ktail),
    Entries(cqes, cq_khead, Unread),
    IF running THEN <<Distance(cq_khead, ev.head), Distance(ev.head, ev.tail)>>
               ELSE <<>>,
    [call EXCEPT !.seen = 0],
    to_submit, to_complete, overflow, kernelVars, taskVars, pc, running, wakeVars>>
=============================================================================
