------------------------------- MODULE Waker -------------------------------
(***************************************************************************)
(* What a waker promises, as the callers of the WakerVTable in driver.rs    *)
(* see it: a request is prepared on the runtime's thread, woken once from   *)
(* any thread, and then completed once on the runtime's thread.             *)
(*                                                                         *)
(* Nothing is said of queues, of the event fd or of the io_uring poll that  *)
(* carry a wake across threads.  Module Wake has those, and implements this *)
(* specification.                                                          *)
(***************************************************************************)
CONSTANT Reqs    \* the requests that can be prepared for a wake

VARIABLE status  \* of each request: "free", "prepared" or "woken"

Init == status = [r \in Reqs |-> "free"]

Move(r, from, to) ==
  /\ status[r] = from
  /\ status' = [status EXCEPT ![r] = to]

Prepare(r) == Move(r, "free", "prepared")

Wake(r) == Move(r, "prepared", "woken")

Complete(r) == Move(r, "woken", "free")

Next == \E r \in Reqs : Prepare(r) \/ Wake(r) \/ Complete(r)

(* The order of the three steps, and that none is repeated or left out. *)
Spec == Init /\ [][Next]_status

(* Only the completion of a woken request is promised to happen. *)
FairSpec == Spec /\ \A r \in Reqs : WF_status(Complete(r))
=============================================================================
