------------------------------- MODULE Driver -------------------------------
(***************************************************************************)
(* The driver (driver.rs): timers, the loop that block_on runs until its    *)
(* task is done, and exit.  The I/O engine below it is module AsyncEngine,  *)
(* which IoUring implements; has_work() is exact by IoUring!CountersExact.  *)
(*                                                                         *)
(* Everything runs on one thread.  Tasks have control in the callbacks of   *)
(* timers and operations ("user"), where they may start and cancel timers,  *)
(* start operations and let the clock advance.  The clock also advances     *)
(* while the loop is parked.  The driver's own steps take no time.          *)
(***************************************************************************)
EXTENDS Integers

CONSTANTS
  Reqs,       \* addresses of requests
  U64Max,     \* largest expiry time and largest clock value
  Hour,       \* the timeout of a park without timers
  MaxStarts   \* bound: timers and operations started by tasks

ASSUME DriverAssumption == U64Max \in Nat /\ Hour \in Nat /\ MaxStarts \in Nat

VARIABLES
  now,       \* the monotonic clock
  timers,    \* Driver::timers
  exiting,   \* Driver::exiting
  op,        \* the engine's operations, see AsyncEngine
  sleeping,  \* requests that wait for a timer
  handle,    \* expire in the cancel closure that a sleeping task holds
  main,      \* block_on's task has not finished: block() of block_while
  loop,      \* the loop that runs: "block_while" or "exit"
  pc,        \* see Pcs
  ret,       \* where the callback that runs returns to
  tnow,      \* local now of run_timers()
  ran,       \* local ran of run_timers()
  timeout,   \* what run_timers() returned
  wake_at,   \* when a parked loop wakes up by itself
  events,    \* requests of the completion entries being run
  starts,    \* timers and operations started so far
  due        \* history: when a sleep was to end by what the task asked for,
             \* a number of any size

taskVars == <<sleeping, handle, due, main, starts>>
localVars == <<tnow, ran, timeout, wake_at, events>>
vars == <<now, timers, exiting, op, taskVars, loop, pc, ret, localVars>>

Engine == INSTANCE AsyncEngine

Times == 0..U64Max
Timeout == [expire : Times, request : Reqs]

(* "user": tasks run; "begin", "timers": run_timers() at its start and in   *)
(* its loop; "check": run_timers() returned; "parked": in work(); "events": *)
(* work() completes requests; "drain": exit() completes timers; "done":     *)
(* block_on() returned; "dropping": drop() interrupted the workers;         *)
(* "exited": exit() returned; "dropped": drop() returned; "panicked": a     *)
(* task panicked in timeout().                                              *)
Pcs == {"user", "begin", "timers", "check", "parked", "events", "drain", "done",
        "dropping", "exited", "dropped", "panicked"}

(* Where callbacks return to; "block_on" is the first run of its task. *)
Returns == {"block_on", "timers", "events", "drain", "dropping"}

(* BTreeSet::first: the order is by expiry, then by the request's address,  *)
(* which can be any.                                                        *)
Firsts == {t \in timers : \A s \in timers : t.expire <= s.expire}

SaturatingSub(a, b) == IF a > b THEN a - b ELSE 0

HasWork == \E r \in Reqs : op[r] # "idle"

(* block_on has started its task, which runs until it blocks. *)
Init ==
  /\ now = 0
  /\ timers = {}
  /\ exiting = FALSE
  /\ Engine!Init
  /\ sleeping = {}
  /\ handle = [r \in Reqs |-> 0]
  /\ main = TRUE
  /\ loop = "block_while"
  /\ pc = "user"
  /\ ret = "block_on"
  /\ tnow = 0 /\ ran = FALSE /\ timeout = 0 /\ wake_at = 0 /\ events = {}
  /\ starts = 0
  /\ due = [r \in Reqs |-> 0]

-----------------------------------------------------------------------------
(* Tasks.                                                                   *)

Free(r) == r \notin sleeping /\ op[r] = "idle"

CallTask(from) == pc' = "user" /\ ret' = from

(* queue_timer(), and the task blocks with a closure to cancel it. *)
QueueTimer(r, expire) ==
  /\ timers' = timers \cup {[expire |-> expire, request |-> r]}
  /\ sleeping' = sleeping \cup {r}
  /\ handle' = [handle EXCEPT ![r] = expire]

(* The task asks for a sleep until expire, or of that length. *)
Asks(r, expire, abs) == due' = [due EXCEPT ![r] = IF abs THEN expire ELSE now + expire]

(* Mutant: check_exiting() is left out. *)
StartTimerUnchecked(r, expire, abs) ==
  /\ pc = "user"
  /\ Free(r)
  /\ starts < MaxStarts
  /\ starts' = starts + 1
  /\ abs \/ now + expire <= U64Max
  /\ QueueTimer(r, IF abs THEN expire ELSE now + expire)
  /\ Asks(r, expire, abs)
  /\ UNCHANGED <<now, exiting, op, main, loop, pc, ret, localVars>>

(* Mutant: the sum wraps around. *)
StartTimerWraps(r, expire, abs) ==
  /\ pc = "user"
  /\ Free(r)
  /\ ~exiting
  /\ starts < MaxStarts
  /\ starts' = starts + 1
  /\ QueueTimer(r, IF abs THEN expire ELSE (now + expire) % (U64Max + 1))
  /\ Asks(r, expire, abs)
  /\ UNCHANGED <<now, exiting, op, main, loop, pc, ret, localVars>>

(* Mutant: the closure keeps the relative time. *)
StartTimerStaleHandle(r, expire, abs) ==
  /\ pc = "user"
  /\ Free(r)
  /\ ~exiting
  /\ starts < MaxStarts
  /\ starts' = starts + 1
  /\ abs \/ now + expire <= U64Max
  /\ timers' = timers \cup
       {[expire |-> IF abs THEN expire ELSE now + expire, request |-> r]}
  /\ sleeping' = sleeping \cup {r}
  /\ handle' = [handle EXCEPT ![r] = expire]
  /\ Asks(r, expire, abs)
  /\ UNCHANGED <<now, exiting, op, main, loop, pc, ret, localVars>>

(* timeout(expire, flags): while exiting it fails at once and changes       *)
(* nothing; a relative time is added to the clock.                          *)
StartTimer(r, expire, abs) ==
  /\ pc = "user"
  /\ Free(r)
  /\ ~exiting
  /\ starts < MaxStarts
  /\ starts' = starts + 1
  /\ abs \/ now + expire <= U64Max
  /\ QueueTimer(r, IF abs THEN expire ELSE now + expire)
  /\ Asks(r, expire, abs)
  /\ UNCHANGED <<now, exiting, op, main, loop, pc, ret, localVars>>

(* timeout() without Abs: the sum does not fit and expect() panics. *)
StartTimerPanics(r, expire) ==
  /\ pc = "user"
  /\ Free(r)
  /\ ~exiting
  /\ now + expire > U64Max
  /\ pc' = "panicked"
  /\ UNCHANGED <<now, timers, exiting, op, taskVars, loop, ret, localVars>>

(* cancel_timer(): the timer is taken out and its request completed.  When  *)
(* it is not found, NotFound is returned and nothing changes.               *)
CancelTimer(r) ==
  LET timer == [expire |-> handle[r], request |-> r]
  IN  /\ pc = "user"
      /\ r \in sleeping
      /\ timer \in timers
      /\ timers' = timers \ {timer}
      /\ sleeping' = sleeping \ {r}
      /\ UNCHANGED <<now, exiting, op, handle, due, main, starts, loop, pc, ret,
                     localVars>>

(* The driver passes an operation on to the engine. *)
EngineTask(r) == Engine!Start(r)

(* A task starts an operation: only a forced one, close(), passes while     *)
(* exiting.                                                                 *)
StartOp(r, force) ==
  /\ pc = "user"
  /\ Free(r)
  /\ force \/ ~exiting
  /\ starts < MaxStarts
  /\ starts' = starts + 1
  /\ EngineTask(r)
  /\ UNCHANGED <<now, timers, exiting, sleeping, handle, due, main, loop, pc,
                 ret, localVars>>

(* block_on's task finishes. *)
MainFinishes ==
  /\ pc = "user"
  /\ main
  /\ main' = FALSE
  /\ UNCHANGED <<now, timers, exiting, op, sleeping, handle, due, starts, loop,
                 pc, ret, localVars>>

(* All tasks are blocked or done: the callback returns.  block_while() is   *)
(* not called when the task of block_on() finishes without blocking.        *)
CallbackReturns ==
  /\ pc = "user"
  /\ pc' = IF ret # "block_on" THEN ret ELSE IF main THEN "begin" ELSE "done"
  /\ UNCHANGED <<now, timers, exiting, op, taskVars, loop, ret, localVars>>

(* The outside world. *)
Tick ==
  /\ pc \in {"user", "parked"}
  /\ now < U64Max
  /\ now' = now + 1
  /\ UNCHANGED <<timers, exiting, op, taskVars, loop, pc, ret, localVars>>

FinishOp(r) ==
  /\ Engine!Finish(r)
  /\ UNCHANGED <<now, timers, exiting, taskVars, loop, pc, ret, localVars>>

-----------------------------------------------------------------------------
(* run_timers()                                                             *)

RunTimers ==
  /\ pc = "begin"
  /\ tnow' = now
  /\ ran' = FALSE
  /\ timeout' = Hour
  /\ pc' = "timers"
  /\ UNCHANGED <<now, timers, exiting, op, taskVars, loop, ret, wake_at, events>>

(* timer_complete(): t leaves the set and its task runs. *)
TimerComplete(t, from) ==
  /\ timers' = timers \ {t}
  /\ sleeping' = sleeping \ {t.request}
  /\ CallTask(from)

(* The first timer has expired. *)
TimerExpires ==
  /\ pc = "timers"
  /\ \E t \in Firsts :
       /\ t.expire <= tnow
       /\ TimerComplete(t, "timers")
  /\ ran' = TRUE
  /\ UNCHANGED <<now, exiting, op, handle, due, main, starts, loop, tnow, timeout,
                 wake_at, events>>

(* Mutant: the clock is not read again after timers ran. *)
TimersStaleClock ==
  /\ pc = "timers"
  /\ \/ timers = {} /\ UNCHANGED timeout
     \/ \E t \in Firsts :
          /\ t.expire > tnow
          /\ timeout' = SaturatingSub(t.expire, tnow)
  /\ pc' = "check"
  /\ UNCHANGED <<now, timers, exiting, op, taskVars, loop, ret, tnow, ran, wake_at,
                 events>>

(* No timer has: run_timers() returns how long to wait for the first, by a  *)
(* clock read after the last callback.                                      *)
TimersDone ==
  /\ pc = "timers"
  /\ \/ timers = {} /\ UNCHANGED timeout
     \/ \E t \in Firsts :
          /\ t.expire > tnow
          /\ timeout' = SaturatingSub(t.expire, IF ran THEN now ELSE tnow)
  /\ pc' = "check"
  /\ UNCHANGED <<now, timers, exiting, op, taskVars, loop, ret, tnow, ran, wake_at,
                 events>>

-----------------------------------------------------------------------------
(* block_while() and exit()                                                 *)

Park ==
  /\ pc' = "parked"
  /\ wake_at' = now + timeout
  /\ UNCHANGED exiting

(* Mutant: block() is not called between run_timers() and park(). *)
CheckBlindly ==
  /\ pc = "check"
  /\ \/ loop = "exit" /\ ~HasWork /\ exiting' = FALSE /\ pc' = "exited"
        /\ UNCHANGED wake_at
     \/ (loop = "exit" => HasWork) /\ Park
  /\ UNCHANGED <<now, timers, op, taskVars, loop, ret, tnow, ran, timeout, events>>

(* run_timers() returned: the loop ends or parks. *)
Check ==
  /\ pc = "check"
  /\ \/ loop = "block_while" /\ ~main /\ pc' = "done" /\ UNCHANGED <<exiting, wake_at>>
     \/ loop = "exit" /\ ~HasWork /\ exiting' = FALSE /\ pc' = "exited"
        /\ UNCHANGED wake_at
     \/ (IF loop = "exit" THEN HasWork ELSE main) /\ Park
  /\ UNCHANGED <<now, timers, op, taskVars, loop, ret, tnow, ran, timeout, events>>

Finished == {r \in Reqs : op[r] = "finished"}

(* work() returns from the kernel: with completions, because of its         *)
(* timeout, or interrupted by a signal.                                     *)
Unpark ==
  /\ pc = "parked"
  /\ events' = Finished
  /\ pc' = "events"
  /\ UNCHANGED <<now, timers, exiting, op, taskVars, loop, ret, tnow, ran, timeout,
                 wake_at>>

WakesUp == Finished # {} \/ now >= wake_at

(* work() completes a request. *)
EventCompletes ==
  /\ pc = "events"
  /\ \E r \in events :
       /\ Engine!Complete(r)
       /\ events' = events \ {r}
  /\ CallTask("events")
  /\ UNCHANGED <<now, timers, exiting, taskVars, loop, tnow, ran, timeout, wake_at>>

(* park() returned. *)
Parked ==
  /\ pc = "events"
  /\ events = {}
  /\ pc' = IF loop = "block_while" /\ ~main THEN "done" ELSE "begin"
  /\ UNCHANGED <<now, timers, exiting, op, taskVars, loop, ret, localVars>>

(* block_on() is called again. *)
BlockOn ==
  /\ pc = "done"
  /\ main' = TRUE
  /\ CallTask("block_on")
  /\ UNCHANGED <<now, timers, exiting, op, sleeping, handle, due, starts, loop,
                 localVars>>

(* The runtime is dropped: drop() interrupts its workers, which run, and    *)
(* calls exit(), again and again until there are none (module Runtime).     *)
Drop ==
  /\ pc \in {"done", "exited"}
  /\ CallTask("dropping")
  /\ UNCHANGED <<now, timers, exiting, op, taskVars, loop, localVars>>

(* drop() returns when there are no workers; every task that is blocked     *)
(* outside of block_on() belongs to one.                                    *)
DropReturns ==
  /\ pc \in {"done", "exited"}
  /\ sleeping = {} /\ ~HasWork
  /\ pc' = "dropped"
  /\ UNCHANGED <<now, timers, exiting, op, taskVars, loop, ret, localVars>>

Exit ==
  /\ pc = "dropping"
  /\ exiting' = TRUE
  /\ loop' = "exit"
  /\ pc' = "drain"
  /\ UNCHANGED <<now, timers, op, taskVars, ret, localVars>>

(* The first loop of exit(): all timers are completed with an error. *)
DrainTimer ==
  /\ pc = "drain"
  /\ \E t \in Firsts : TimerComplete(t, "drain")
  /\ UNCHANGED <<now, exiting, op, handle, due, main, starts, loop, localVars>>

Drained ==
  /\ pc = "drain"
  /\ timers = {}
  /\ pc' = "begin"
  /\ UNCHANGED <<now, timers, exiting, op, taskVars, loop, ret, localVars>>

Stopped ==
  /\ pc \in {"dropped", "panicked"}
  /\ UNCHANGED vars

Next ==
  \/ \E r \in Reqs, expire \in Times, abs \in BOOLEAN : StartTimer(r, expire, abs)
  \/ \E r \in Reqs, expire \in Times : StartTimerPanics(r, expire)
  \/ \E r \in Reqs, force \in BOOLEAN : StartOp(r, force)
  \/ \E r \in Reqs : CancelTimer(r) \/ FinishOp(r)
  \/ MainFinishes \/ CallbackReturns \/ Tick
  \/ RunTimers \/ TimerExpires \/ TimersDone
  \/ Check \/ Unpark \/ EventCompletes \/ Parked
  \/ BlockOn \/ Drop \/ DropReturns \/ Exit \/ DrainTimer \/ Drained
  \/ Stopped

(* The thread runs, tasks give control back, and the kernel returns from    *)
(* work() when it has completions or its timeout has passed.                *)
Fairness ==
  /\ WF_vars(CallbackReturns)
  /\ WF_vars(RunTimers) /\ WF_vars(TimerExpires) /\ WF_vars(TimersDone)
  /\ WF_vars(Check) /\ WF_vars(WakesUp /\ Unpark) /\ WF_vars(EventCompletes)
  /\ WF_vars(Parked) /\ WF_vars(Exit) /\ WF_vars(DrainTimer) /\ WF_vars(Drained)

Spec == Init /\ [][Next]_vars
FairSpec == Spec /\ Fairness

-----------------------------------------------------------------------------
(* Properties.                                                              *)

(* A task that sleeps has one timer, under the time its cancel closure      *)
(* holds, and only sleeping tasks have timers: a timer is completed once,   *)
(* by expiry, by cancel or by exit, and cancelling before that finds it.    *)
TimersMatchSleepers ==
  timers = {[expire |-> handle[r], request |-> r] : r \in sleeping}

(* A sleep that run_timers() ends has lasted as long as the task asked for, *)
(* although the sum in timeout() may not fit a u64, and whatever timers     *)
(* callbacks set and cancel meanwhile.  Others end by cancel or exit.       *)
SleepsLongEnough ==
  [][pc = "timers" => \A r \in sleeping \ sleeping' : due[r] <= now]_vars

(* A parked loop wakes up for the first timer: the time that callbacks of   *)
(* run_timers() took is not slept again.                                    *)
NeverOversleeps ==
  pc = "parked" => \A t \in timers : wake_at <= t.expire \/ wake_at <= now

(* block_while() does not park once its task is done, be it finished by a   *)
(* timer, just before park(), or by a completion in it.                     *)
NoParkWhenDone == pc = "parked" /\ loop = "block_while" => main

(* block_on() returns once its task has finished, be it in the first run,   *)
(* in a timer's callback, after which no completion may ever arrive, or in  *)
(* one of several completions; unless a task panics.                        *)
BlockOnReturns ==
  loop = "block_while" /\ ~main
    ~> pc \in {"done", "dropped", "panicked"} \/ loop = "exit"

(* exit() returns with no timer set and no operation on its way, although   *)
(* tasks run, and start others, while it completes them.                    *)
ExitLeavesNothing ==
  [][exiting /\ ~exiting' => timers = {} /\ sleeping = {} /\ ~HasWork]_vars

(* A timer whose time has come is completed, by run_timers() or exit(),     *)
(* unless control leaves the driver: block_on() returns or a task panics.   *)
DueTimerCompletes ==
  \A r \in Reqs :
    r \in sleeping /\ handle[r] <= now
      ~> r \notin sleeping \/ pc \in {"done", "dropped", "panicked"}
=============================================================================
