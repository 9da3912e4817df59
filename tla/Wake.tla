-------------------------------- MODULE Wake --------------------------------
(***************************************************************************)
(* Waking the runtime's thread from other threads: prepare_wake, wake,      *)
(* process_wake and poll_wake of the io_uring engine (engine/uring/         *)
(* engine.rs), as block_on_thread_safe uses them for work on the thread     *)
(* pool (ops/blocking.rs), and the teardown of the engine.                  *)
(*                                                                         *)
(* The runtime's thread and the pool's threads share wake_queue, under a    *)
(* mutex, and the event fd.  A critical section is one step.  The event fd  *)
(* is polled through io_uring with a one-shot poll whose request is         *)
(* event_request.  Its counter is abstracted to "is it above zero", which   *)
(* is all a poll and a read of it can tell apart below 2^64 - 1.            *)
(***************************************************************************)
EXTENDS Naturals, Sequences, FiniteSets

CONSTANTS
  Reqs,       \* requests that tasks block on until another thread wakes them
  Threads,    \* number of threads in the thread pool
  MaxResume,  \* MAX_RESUME, requests taken from the queue under one lock
  MaxExpected \* bound: how far expected_wakes may grow during process_wake

ASSUME WakeAssumption ==
  /\ IsFiniteSet(Reqs)
  /\ Threads \in Nat \ {0}
  /\ MaxResume \in Nat \ {0}
  /\ MaxExpected \in Nat

VARIABLES
  expected_wakes,  \* IoUring::expected_wakes
  wake_queue,      \* IoUring::wake_queue
  event_fd,        \* is the counter of IoUring::event_fd above zero
  armed,           \* polls of the event fd submitted and not yet completed
  fired,           \* completed polls whose callback has not run
  pc,              \* where the runtime's thread is
  batch,           \* process_wake: requests taken and not yet completed
  woken,           \* process_wake: requests completed by this call
  req,             \* of each request, how far its wake has come
  signalling,      \* threads in wake() past the unlock, before the write
  wake_failed      \* did a wake() fail, which aborts the process

vars == <<expected_wakes, wake_queue, event_fd, armed, fired, pc, batch, woken,
          req, signalling, wake_failed>>

pollVars == <<armed, fired>>
localVars == <<batch, woken>>

(* "run": tasks run, or the loop is parked; "drain": at the top of          *)
(* process_wake's loop; "complete": about to complete the batch; "resumed": *)
(* a completed request's task is running; "rearm": past the loop; "abort":  *)
(* reading the event fd failed; "dropped": the engine is gone.              *)
Pcs == {"run", "drain", "complete", "resumed", "rearm", "abort", "dropped"}

(* "submitted": prepared, the work waits for a thread; "working": a thread  *)
(* runs it; "woken": wake() has queued it, its task has not resumed.        *)
ReqStates == {"free", "submitted", "working", "woken"}

Working == {r \in Reqs : req[r] = "working"}
Blocked == {r \in Reqs : req[r] # "free"}

Init ==
  /\ expected_wakes = 0
  /\ wake_queue = <<>>
  /\ event_fd = FALSE
  /\ armed = 0
  /\ fired = 0
  /\ pc = "run"
  /\ batch = <<>>
  /\ woken = 0
  /\ req = [r \in Reqs |-> "free"]
  /\ signalling = 0
  /\ wake_failed = FALSE

-----------------------------------------------------------------------------
(* The runtime's thread.                                                    *)

(* poll_wake(), when cond holds. *)
PollWakeIf(cond) ==
  /\ armed' = IF cond THEN armed + 1 ELSE armed
  /\ UNCHANGED fired

(* A task hands work to the pool and blocks: what prepare_wake() counts,    *)
(* and start_work().                                                        *)
ExpectWake(r) ==
  /\ pc \in {"run", "resumed"}
  /\ req[r] = "free"
  /\ expected_wakes < MaxExpected
  /\ expected_wakes' = expected_wakes + 1
  /\ req' = [req EXCEPT ![r] = "submitted"]
  /\ UNCHANGED <<wake_queue, event_fd, pc, localVars, signalling, wake_failed>>

(* Mutant: poll on every prepare. *)
PrepareWakeAlwaysPolls(r) == ExpectWake(r) /\ PollWakeIf(TRUE)

(* The same with prepare_wake()'s poll of the event fd, which is made for   *)
(* the first expected wake only.                                            *)
PrepareWake(r) == ExpectWake(r) /\ PollWakeIf(expected_wakes' = 1)

(* Mutant: the flags are compared wrongly and always take the cold path. *)
ProcessWakeMiscompares ==
  /\ pc = "run"
  /\ fired > 0
  /\ fired' = fired - 1
  /\ armed' = armed + 1
  /\ UNCHANGED <<expected_wakes, wake_queue, event_fd, pc, localVars, req,
                 signalling, wake_failed>>

(* process_wake() begins. *)
BeginWake ==
  /\ pc = "run"
  /\ pc' = "drain"
  /\ woken' = 0
  /\ UNCHANGED <<expected_wakes, wake_queue, event_fd, batch, req, signalling,
                 wake_failed>>

(* run_events() completes event_request with the single flag In. *)
ProcessWake ==
  /\ fired > 0
  /\ fired' = fired - 1
  /\ UNCHANGED armed
  /\ BeginWake

(* run_events() completes event_request with other flags and no Error:      *)
(* process_wake_cold() polls again and leaves the queue alone.              *)
ProcessWakeCold ==
  /\ pc = "run"
  /\ fired > 0
  /\ fired' = fired - 1
  /\ armed' = armed + 1
  /\ UNCHANGED <<expected_wakes, wake_queue, event_fd, pc, localVars, req,
                 signalling, wake_failed>>

(* One locked section of process_wake: take at most MAX_RESUME requests,    *)
(* or, when the queue is empty, read the non-blocking event fd with the     *)
(* lock held and leave the loop.  Reading a zero counter is EAGAIN, on      *)
(* which expect_nounwind aborts.                                            *)
Drain ==
  /\ pc = "drain"
  /\ IF wake_queue = <<>>
     THEN /\ event_fd' = FALSE
          /\ pc' = IF event_fd THEN "rearm" ELSE "abort"
          /\ UNCHANGED <<wake_queue, batch>>
     ELSE LET n == Len(wake_queue)
              k == IF n < MaxResume THEN n ELSE MaxResume
          IN  /\ batch' = SubSeq(wake_queue, 1, k)
              /\ wake_queue' = SubSeq(wake_queue, k + 1, n)
              /\ pc' = "complete"
              /\ UNCHANGED event_fd
  /\ UNCHANGED <<expected_wakes, pollVars, woken, req, signalling, wake_failed>>

(* Request::complete of the next request of the batch: its task resumes. *)
CompleteNext ==
  /\ pc \in {"complete", "resumed"}
  /\ batch # <<>>
  /\ req' = [req EXCEPT ![Head(batch)] = "free"]
  /\ batch' = Tail(batch)
  /\ woken' = woken + 1
  /\ pc' = "resumed"
  /\ UNCHANGED <<expected_wakes, wake_queue, event_fd, pollVars, signalling,
                 wake_failed>>

(* The batch is done: around the loop. *)
NextBatch ==
  /\ pc = "resumed"
  /\ batch = <<>>
  /\ pc' = "drain"
  /\ UNCHANGED <<expected_wakes, wake_queue, event_fd, pollVars, localVars, req,
                 signalling, wake_failed>>

(* The end of process_wake settles the count by the number of requests      *)
(* that it has completed.                                                   *)
SettleWakes(completed) ==
  /\ pc = "rearm"
  /\ expected_wakes' = expected_wakes - completed
  /\ pc' = "run"
  /\ UNCHANGED <<wake_queue, event_fd, localVars, req, signalling, wake_failed>>

(* Mutant: forget to poll again. *)
RearmForgets == SettleWakes(woken) /\ PollWakeIf(FALSE)

(* Then it polls again when wakes are still expected, those of requests     *)
(* prepared by resumed tasks included.                                      *)
Rearm == SettleWakes(woken) /\ PollWakeIf(expected_wakes' # 0)

(* IoUring::has_work, of which the polls are the part seen here. *)
HasWork == armed + fired > 0

(* The runtime is dropped: no task is left and Driver::exit saw has_work()  *)
(* false.  IoUring's fields are dropped in order, event_fd before the       *)
(* thread pool.                                                             *)
DropEngine ==
  /\ pc = "run"
  /\ Blocked = {}
  /\ ~HasWork
  /\ pc' = "dropped"
  /\ UNCHANGED <<expected_wakes, wake_queue, event_fd, pollVars, localVars, req,
                 signalling, wake_failed>>

-----------------------------------------------------------------------------
(* The pool's threads and the kernel.                                       *)

(* A thread that is in no other work takes the work of r. *)
StartWork(r) ==
  /\ req[r] = "submitted"
  /\ Cardinality(Working) + signalling < Threads
  /\ req' = [req EXCEPT ![r] = "working"]
  /\ UNCHANGED <<expected_wakes, wake_queue, event_fd, pollVars, pc, localVars,
                 signalling, wake_failed>>

(* Mutant: emptiness is tested after the push. *)
WakePushTestsLate(r) ==
  /\ req[r] = "working"
  /\ req' = [req EXCEPT ![r] = "woken"]
  /\ wake_queue' = Append(wake_queue, r)
  /\ signalling' = IF wake_queue' = <<>> THEN signalling + 1 ELSE signalling
  /\ UNCHANGED <<expected_wakes, event_fd, pollVars, pc, localVars, wake_failed>>

(* The work is done and wake() runs: its locked section.  The event fd is   *)
(* to be written when the queue was empty, after the unlock.                *)
WakePush(r) ==
  /\ req[r] = "working"
  /\ req' = [req EXCEPT ![r] = "woken"]
  /\ wake_queue' = Append(wake_queue, r)
  /\ signalling' = IF wake_queue = <<>> THEN signalling + 1 ELSE signalling
  /\ UNCHANGED <<expected_wakes, event_fd, pollVars, pc, localVars, wake_failed>>

(* wake() writes the event fd.  Once the fd is closed the write fails, and  *)
(* the waker in driver.rs aborts the process.                               *)
WakeSignal ==
  /\ signalling > 0
  /\ signalling' = signalling - 1
  /\ event_fd' = (event_fd \/ pc # "dropped")
  /\ wake_failed' = (wake_failed \/ pc = "dropped")
  /\ UNCHANGED <<expected_wakes, wake_queue, pollVars, pc, localVars, req>>

(* The kernel completes a poll of the readable event fd. *)
PollFires ==
  /\ armed > 0
  /\ event_fd
  /\ armed' = armed - 1
  /\ fired' = fired + 1
  /\ UNCHANGED <<expected_wakes, wake_queue, event_fd, pc, localVars, req,
                 signalling, wake_failed>>

(* The runtime is gone and no thread is left in wake(). *)
Terminated ==
  /\ pc = "dropped"
  /\ signalling = 0
  /\ UNCHANGED vars

-----------------------------------------------------------------------------
Next ==
  \/ \E r \in Reqs : PrepareWake(r)
  \/ ProcessWake
  \/ ProcessWakeCold
  \/ Drain
  \/ CompleteNext
  \/ NextBatch
  \/ Rearm
  \/ DropEngine
  \/ \E r \in Reqs : StartWork(r)
  \/ \E r \in Reqs : WakePush(r)
  \/ WakeSignal
  \/ PollFires
  \/ Terminated

(* The event loop keeps calling run_events() and the calls it makes return; *)
(* the pool's threads are scheduled; the kernel completes a poll of a       *)
(* readable fd, and does not report odd flags for ever.                     *)
Fairness ==
  /\ SF_vars(ProcessWake)
  /\ WF_vars(Drain)
  /\ WF_vars(CompleteNext)
  /\ WF_vars(NextBatch)
  /\ WF_vars(Rearm)
  /\ \A r \in Reqs : WF_vars(StartWork(r)) /\ WF_vars(WakePush(r))
  /\ WF_vars(WakeSignal)
  /\ WF_vars(PollFires)

Spec == Init /\ [][Next]_vars
FairSpec == Spec /\ Fairness

-----------------------------------------------------------------------------
(* Properties.                                                              *)

(* The state of the wake protocol is well typed: in particular              *)
(* expected_wakes - woken in process_wake never goes below zero.            *)
TypeOK ==
  /\ expected_wakes \in Nat
  /\ wake_queue \in Seq(Reqs)
  /\ event_fd \in BOOLEAN
  /\ armed \in Nat
  /\ fired \in Nat
  /\ pc \in Pcs
  /\ batch \in Seq(Reqs)
  /\ woken \in Nat
  /\ req \in [Reqs -> ReqStates]
  /\ signalling \in Nat
  /\ wake_failed \in BOOLEAN

(* There is one poll of the event fd while wakes are expected, be it with   *)
(* the kernel or completed and not yet run, and none when none is expected  *)
(* or while process_wake, the callback of that poll, is running: two would  *)
(* share event_request, which is one request.                               *)
SinglePoll ==
  armed + fired = IF pc = "run" /\ expected_wakes > 0 THEN 1 ELSE 0

(* process_wake never finds the event fd unreadable: "Failed to read event  *)
(* fd" cannot abort the process, whatever late write()s of earlier wakes    *)
(* did to the counter.                                                      *)
ReadNeverBlocks == pc # "abort"

(* A queued request cannot be forgotten: unless process_wake is about to    *)
(* look at the queue again, the event fd is readable or a thread in wake()  *)
(* is still to write it.                                                    *)
NoStrandedWake ==
  wake_queue # <<>> =>
    event_fd \/ signalling > 0 \/ pc \in {"drain", "complete", "resumed"}

(* Between two rounds of the event loop has_work() is true exactly while a  *)
(* task is blocked on another thread: Driver::exit neither returns (and the *)
(* runtime is not freed) under a request that will still be completed, nor  *)
(* waits on a poll that nobody will ever satisfy.                           *)
HasWorkIffBlocked == pc = "run" => (HasWork <=> Blocked # {})

(* wake() never fails: driver.rs unwraps it with expect_nounwind("Fatal     *)
(* error: failed to wake I/O engine").                                      *)
WakeNeverFails == ~wake_failed

(* The waker's contract: queue, event fd and poll together implement it.    *)
WakerStatus ==
  [r \in Reqs |-> CASE req[r] = "free" -> "free"
                    [] req[r] = "woken" -> "woken"
                    [] OTHER -> "prepared"]

Contract == INSTANCE Waker WITH status <- WakerStatus

(* Wakes are neither lost, nor duplicated, nor invented: Request::complete  *)
(* in process_wake runs for a request that wake() has queued, once.         *)
ImplementsWaker == Contract!Spec

(* The same, and every woken request is completed in the end. *)
ImplementsFairWaker == Contract!FairSpec
=============================================================================
