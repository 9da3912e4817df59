------------------------------- MODULE Engine -------------------------------
(***************************************************************************)
(* The io_uring engine as one piece: the rings of module IoUring carry the  *)
(* poll of the event fd that module Wake takes for granted.  The poll is an *)
(* operation like any other, whose request is event_request.  It waits in   *)
(* the submission ring, goes through the kernel's lists and may overflow;   *)
(* process_wake is its callback, run by run_events() among others, and the  *)
(* tasks it resumes start operations and may fill the submission ring.      *)
(*                                                                         *)
(* Steps of the wake protocol that leave the polls alone are Wake's.  The   *)
(* steps that poll, or that a completed poll brings about, are built here   *)
(* from the rings.  Left to module Wake: polls that complete with flags     *)
(* other than In, and the teardown of the engine.  Left to module IoUring:  *)
(* cancels, kernels without EXT_ARG, and builds with overflow checks.       *)
(***************************************************************************)
EXTENDS IoUring

CONSTANTS
  Event,       \* the address of IoUring::event_request
  Tasks,       \* tasks that block until another thread wakes them
  Threads,     \* number of threads in the thread pool
  MaxResume,   \* MAX_RESUME
  MaxExpected  \* bound: how far expected_wakes may grow

ASSUME EngineAssumption ==
  /\ Event \in Reqs
  /\ IsFiniteSet(Tasks)
  /\ Threads \in Nat \ {0}
  /\ MaxResume \in Nat \ {0}
  /\ MaxExpected \in Nat

VARIABLES
  expected_wakes, wake_queue, event_fd, batch, woken, req, signalling,
  wake_failed,  \* as in module Wake
  wake_pc       \* pc of module Wake: where process_wake is

wakeVars == <<expected_wakes, wake_queue, event_fd, batch, woken, req, signalling,
              wake_failed, wake_pc>>
engineVars == <<vars, wakeVars>>

(* Polls of the event fd that the kernel has not completed, and completed   *)
(* ones whose callback has not run.                                         *)
Armed == InSq(Event) + inflight[Event]
Fired == InKernel(Event) - inflight[Event] + InCq(Unread, Event)

Wakes == INSTANCE Wake WITH
           Reqs <- Tasks, armed <- Armed, fired <- Fired, pc <- wake_pc

EngineInit ==
  /\ Init
  /\ platform.ext_arg /\ ~platform.overflow_checks
  /\ Wakes!Init

-----------------------------------------------------------------------------
(* Control is with tasks, or with the loop they gave it back to. *)
InTask == wake_pc \in {"run", "resumed"}

(* A task starts an operation. *)
TaskStep ==
  /\ InTask
  /\ \E r \in Reqs \ {Event} : StartOp(r)
  /\ UNCHANGED wakeVars

(* The kernel, and the engine's thread in calls that run no callback. *)
RingStep ==
  /\ \/ SubmitRest
     \/ SubmitSome
     \/ SubmitFails
     \/ FlushOverflow
     \/ FlushReturns
     \/ \E u \in UserData : (u = Event => event_fd) /\ Finish(u)
     \/ \E u \in UserData : RunTaskWork(u)
     \/ Stopped
  /\ UNCHANGED wakeVars

(* Driver::exit. *)
ExitStep ==
  /\ Exit \/ ExitReturns
  /\ UNCHANGED wakeVars

(* run_events() completes an entry: event_request's callback is             *)
(* process_wake.                                                            *)
Callback ==
  IF Event \in pending /\ Event \notin pending'
  THEN Wakes!BeginWake
  ELSE UNCHANGED wakeVars

(* The event loop, when process_wake is not on the stack. *)
LoopStep ==
  /\ wake_pc = "run"
  /\ NextEvent \/ WorkReturns \/ \E wait \in Waits : Work(wait)
  /\ Callback

(* poll_wake() *)
PollWake ==
  /\ StartAsync(IoSqe(Event))
  /\ pending' = pending \cup {Event}
  /\ UNCHANGED <<platform, sq_khead, cqVars, cq_khead, kernelVars, cancelling,
                 exiting, ev, running>>

PollWakeIf(cond) ==
  IF cond THEN PollWake
  ELSE UNCHANGED <<platform, sqVars, to_submit, to_complete, cqVars, cq_khead,
                   kernelVars, pending, cancelling, exiting, pc, call, ev, running>>

(* prepare_wake() and start_work(), of a task that runs.  They do not ask   *)
(* whether the driver exits.                                                *)
PrepareWake(t) ==
  /\ TasksRun
  /\ exiting => forced < MaxForced
  /\ Wakes!ExpectWake(t)
  /\ PollWakeIf(expected_wakes' = 1)
  /\ forced' = IF exiting THEN forced + 1 ELSE forced

(* process_wake, between its calls of Request::complete.  It goes on when   *)
(* the task it has resumed is back from a flush.                            *)
ProcessWake ==
  /\ pc = "callback"
  /\ UNCHANGED vars
  /\ Wakes!Drain \/ Wakes!CompleteNext \/ Wakes!NextBatch

(* Mutants: the count is looked at before it is settled; not at all. *)
RearmStale ==
  /\ pc = "callback"
  /\ PollWakeIf(expected_wakes # 0)
  /\ Wakes!SettleWakes(woken)
  /\ UNCHANGED forced

RearmForgets ==
  /\ pc = "callback"
  /\ PollWakeIf(FALSE)
  /\ Wakes!SettleWakes(woken)
  /\ UNCHANGED forced

(* Its end. *)
Rearm ==
  /\ pc = "callback"
  /\ Wakes!SettleWakes(woken)
  /\ PollWakeIf(expected_wakes' # 0)
  /\ UNCHANGED forced

(* The pool's threads. *)
PoolStep ==
  /\ UNCHANGED vars
  /\ \/ \E t \in Tasks : Wakes!StartWork(t) \/ Wakes!WakePush(t)
     \/ Wakes!WakeSignal

EngineNext ==
  \/ TaskStep
  \/ RingStep
  \/ ExitStep
  \/ LoopStep
  \/ \E t \in Tasks : PrepareWake(t)
  \/ ProcessWake
  \/ Rearm
  \/ PoolStep

(* What the engine's thread is bound to do, see Thread in module IoUring. *)
EngineThread ==
  \/ (SubmitRest \/ FlushReturns \/ ExitReturns) /\ UNCHANGED wakeVars
  \/ /\ wake_pc = "run"
     /\ \/ NextEvent
        \/ Satisfied /\ WorkReturns
        \/ Due /\ \E wait \in Waits : Work(wait)
     /\ Callback
  \/ ProcessWake
  \/ Rearm

(* Besides, calls of io_uring_enter do what they were asked to, operations  *)
(* end, the poll when the event fd is readable, and threads run.            *)
EngineFairness ==
  /\ WF_engineVars(EngineThread)
  /\ WF_engineVars(Kernel /\ UNCHANGED wakeVars)
  /\ \A u \in UserData :
       WF_engineVars((u = Event => event_fd) /\ Finish(u) /\ UNCHANGED wakeVars)
  /\ WF_engineVars(PoolStep)

EngineSpec == EngineInit /\ [][EngineNext]_engineVars /\ EngineFairness

-----------------------------------------------------------------------------
(* Properties.                                                              *)

(* The rings keep what module Wake assumes of the polls: a poll that was    *)
(* submitted completes once, when the event fd is readable, and runs        *)
(* process_wake, whatever the state of the rings is when poll_wake() is     *)
(* called, from a task, a callback or the end of process_wake itself.       *)
ImplementsWake == Wakes!Spec

(* Driver::exit does not return under a task that another thread will still *)
(* wake: its poll is what keeps has_work() true.                            *)
ExitWaitsForWakes ==
  [][exiting /\ ~exiting' => Wakes!Blocked = {}]_engineVars

(* A task that was woken resumes, through a ring that may be full, whose    *)
(* completions overflow or wait for task work, unless tasks fill the        *)
(* submission ring again and again.                                         *)
WokenResumes ==
  \A t \in Tasks : []<>RingFilled \/ []<>(req[t] # "woken" \/ Dead)
=============================================================================
