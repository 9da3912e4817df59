------------------------------ MODULE IoUring ------------------------------
(***************************************************************************)
(* The io_uring engine (engine/uring/engine.rs): the submission and the     *)
(* completion ring, the counters to_submit and to_complete, and the event   *)
(* loop's use of them: start_async, flush, submit_and_wait with its         *)
(* fallback for kernels without EXT_ARG, run_events, cancel, has_work.      *)
(*                                                                         *)
(* The engine runs on one thread; the kernel is the other process and acts  *)
(* between any two of its steps.  Tasks run where the engine hands control  *)
(* to them: outside of work() and in the callbacks of run_events.  The      *)
(* kernel is external: what it does is read off the engine's use of it.     *)
(***************************************************************************)
EXTENDS Integers, Sequences, FiniteSets

CONSTANTS
  Reqs,            \* addresses of requests, the user_data of operations
  NoOp,            \* the static NO_OP request: cancels and compat timeouts
  SqEntries,       \* params.sq_entries (0x100)
  CqEntries,       \* params.cq_entries (0x2000)
  IndexSpace,      \* ring indices are u32: 2^32
  Platforms,       \* the kernels and builds to run on, see platform
  KernelFails,     \* may io_uring_enter fail for lack of memory
  Waits,           \* the values timeout != 0 takes: {FALSE} when timers
                   \* are due all the time, else BOOLEAN
  MayExit,         \* is Driver::exit called in this instance
  MaxNoOps,        \* bound: NO_OP operations queued or in the kernel
  MaxForced        \* bound: operations started during one Driver::exit

ASSUME IoUringAssumption ==
  /\ NoOp \notin Reqs
  /\ SqEntries \in Nat /\ SqEntries >= 2
  /\ CqEntries \in Nat /\ CqEntries >= SqEntries
  /\ IndexSpace \in Nat /\ IndexSpace > CqEntries
  /\ IndexSpace % SqEntries = 0 /\ IndexSpace % CqEntries = 0
  /\ Platforms \subseteq [ext_arg : BOOLEAN, submit_all : BOOLEAN,
                          defer_taskrun : BOOLEAN, overflow_checks : BOOLEAN]
  /\ {KernelFails, MayExit} \subseteq BOOLEAN
  /\ Waits \subseteq BOOLEAN
  /\ MaxNoOps \in Nat /\ MaxForced \in Nat

UserData == Reqs \cup {NoOp}

(* A submission entry: its user_data, and the request it is to cancel. *)
Sqe == [data : UserData, cancels : UserData]
IoSqe(r) == [data |-> r, cancels |-> NoOp]
CancelSqe(r) == [data |-> NoOp, cancels |-> r]
TimeoutSqe == [data |-> NoOp, cancels |-> NoOp]

VARIABLES
  platform,     \* IoUring::features, as far as the engine looks at them:
                \* Feature::ExtArg, SetupFlag::SubmitAll and DeferTaskrun;
                \* and whether the build has arithmetic overflow checks
  \* the submission ring
  sqes,         \* the entries, by slot
  sq_tail,      \* SubmissionQueue::tail
  sq_ktail,     \* the tail the kernel sees, *ktail
  sq_khead,     \* the kernel's head
  to_submit,    \* IoUring::to_submit
  to_complete,  \* IoUring::to_complete
  \* the completion ring
  cqes,         \* user_data of the entries, by slot
  cq_khead,     \* the head the kernel sees, *khead
  cq_ktail,     \* the kernel's tail, *ktail
  \* the kernel
  inflight,     \* operations in progress, by user_data
  taskwork,     \* finished ones whose entry waits for task work to run
  overflow,     \* entries that found the completion ring full
  doomed,       \* requests in flight that a cancel operation has hit
  \* the tasks
  pending,      \* requests that were started and not completed
  cancelling,   \* pending requests whose cancellation was asked for
  exiting,      \* Driver::exiting
  forced,       \* operations started while exiting
  \* the engine's thread
  pc,           \* see Pcs
  call,         \* locals of enter() and of its caller
  ev,           \* locals head and tail of run_events()
  running       \* is run_events() on the stack

sqVars == <<sqes, sq_tail, sq_ktail, sq_khead>>
cqVars == <<cqes, cq_ktail, overflow>>
kernelVars == <<inflight, taskwork, doomed>>
taskVars == <<pending, cancelling, exiting, forced>>
vars == <<platform, sqVars, to_submit, to_complete, cqVars, cq_khead, kernelVars,
          taskVars, pc, call, ev, running>>

(* "tasks": tasks or the driver's loop run, outside of work(); "callback":  *)
(* tasks run in a callback of run_events; "enter": about to call            *)
(* io_uring_enter; "kernel": in it, after submission; "events": in          *)
(* run_events; "abort": a fatal error; "unwound": a panic.                  *)
Pcs == {"tasks", "callback", "enter", "kernel", "events", "abort", "unwound"}

Dead == pc \in {"abort", "unwound"}

Idle == [left |-> 0, min |-> 0, get_events |-> FALSE, from |-> "tasks", seen |-> 0]
NoEvents == [head |-> 0, tail |-> 0]

Inc(i) == (i + 1) % IndexSpace
Distance(from, to) == (to - from) % IndexSpace

(* The ring positions from one index up to, and without, another. *)
Window(from, to) == {(from + k) % IndexSpace : k \in 0..(Distance(from, to) - 1)}

Init ==
  /\ platform \in Platforms
  /\ sqes = [i \in 0..(SqEntries - 1) |-> TimeoutSqe]
  /\ sq_tail = 0 /\ sq_ktail = 0 /\ sq_khead = 0
  /\ to_submit = 0 /\ to_complete = 0
  /\ cqes = [i \in 0..(CqEntries - 1) |-> NoOp]
  /\ cq_khead = 0 /\ cq_ktail = 0
  /\ inflight = [u \in UserData |-> 0]
  /\ taskwork = [u \in UserData |-> 0]
  /\ overflow = <<>>
  /\ doomed = {}
  /\ pending = {} /\ cancelling = {}
  /\ exiting = FALSE /\ forced = 0
  /\ pc = "tasks"
  /\ call = Idle
  /\ ev = NoEvents
  /\ running = FALSE

-----------------------------------------------------------------------------
(* The completion ring, from the kernel's side.                             *)

CqCount == Distance(cq_khead, cq_ktail)

(* The kernel writes an entry, or keeps it when the ring is full or others  *)
(* are kept already; CqOverflow is flagged while it keeps any.              *)
Post(u) ==
  IF overflow = <<>> /\ CqCount < CqEntries
  THEN /\ cqes' = [cqes EXCEPT ![cq_ktail % CqEntries] = u]
       /\ cq_ktail' = Inc(cq_ktail)
       /\ UNCHANGED overflow
  ELSE /\ overflow' = Append(overflow, u)
       /\ UNCHANGED <<cqes, cq_ktail>>

NeedsFlush == overflow # <<>>

TaskRun == \E u \in UserData : taskwork[u] > 0

(* Mutant: the TaskRun flag is not looked at. *)
NeedsEnterOverflowOnly == NeedsFlush

NeedsEnter == NeedsFlush \/ TaskRun

(* Entries for u in the submission ring, and operations and kept entries    *)
(* for u in the kernel.                                                     *)
InSq(u) == Cardinality({i \in Window(sq_khead, sq_tail) :
                          sqes[i % SqEntries].data = u})
InKernel(u) == inflight[u] + taskwork[u]
                 + Cardinality({i \in DOMAIN overflow : overflow[i] = u})

-----------------------------------------------------------------------------
(* Submission.                                                              *)

(* The beginning of enter(): sync() publishes the tail, and all n queued    *)
(* operations count as outstanding before the kernel has seen them.         *)
Enter(n, tail, locals) ==
  /\ sq_ktail' = tail
  /\ to_submit' = 0
  /\ to_complete' = to_complete + n
  /\ call' = [locals EXCEPT !.left = n]
  /\ pc' = "enter"

(* flush(), which asks for completions only to get the kept ones out. *)
Flush(n, tail, from) ==
  Enter(n, tail, [Idle EXCEPT !.get_events = NeedsFlush, !.from = from,
                              !.seen = cq_ktail])

PushOk == ~(platform.overflow_checks /\ sq_tail = IndexSpace - 1)

(* Mutant: the newest entry is submitted first. *)
PushNewestFirst(e) ==
  /\ PushOk
  /\ sqes' = [sqes EXCEPT ![sq_tail % SqEntries] = sqes[sq_ktail % SqEntries],
                          ![sq_ktail % SqEntries] = e]
  /\ sq_tail' = Inc(sq_tail)

Push(e) ==
  /\ PushOk
  /\ sqes' = [sqes EXCEPT ![sq_tail % SqEntries] = e]
  /\ sq_tail' = Inc(sq_tail)

(* Mutant: the ring is flushed one entry too late. *)
StartAsyncLateFlush(e) ==
  /\ Push(e)
  /\ IF to_submit < SqEntries
     THEN /\ to_submit' = to_submit + 1
          /\ UNCHANGED <<sq_ktail, to_complete, call, pc>>
     ELSE Flush(to_submit + 1, sq_tail', pc)

(* start_async(): push an entry, and flush a ring that it has filled. *)
StartAsync(e) ==
  /\ Push(e)
  /\ IF to_submit + 1 < SqEntries
     THEN /\ to_submit' = to_submit + 1
          /\ UNCHANGED <<sq_ktail, to_complete, call, pc>>
     ELSE Flush(to_submit + 1, sq_tail', pc)

TasksRun == pc \in {"tasks", "callback"}

(* A task starts an operation and blocks on it.  check_exiting() lets only  *)
(* close() through while the driver exits.                                  *)
StartOp(r) ==
  /\ TasksRun
  /\ r \notin pending
  /\ exiting => forced < MaxForced
  /\ StartAsync(IoSqe(r))
  /\ pending' = pending \cup {r}
  /\ forced' = IF exiting THEN forced + 1 ELSE forced
  /\ UNCHANGED <<platform, sq_khead, cqVars, cq_khead, kernelVars, cancelling,
                 exiting, ev, running>>

(* cancel(): an operation of its own, whose completion nobody waits for.    *)
(* The cancelled request stays pending until its own completion.            *)
Cancel(r) ==
  /\ TasksRun
  /\ r \in pending \ cancelling
  /\ InSq(NoOp) + InKernel(NoOp) < MaxNoOps
  /\ StartAsync(CancelSqe(r))
  /\ cancelling' = cancelling \cup {r}
  /\ UNCHANGED <<platform, sq_khead, cqVars, cq_khead, kernelVars, pending,
                 exiting, forced, ev, running>>

(* The k entries the kernel takes next, in order. *)
Taken(k) == [i \in 1..k |-> sqes[(sq_khead + i - 1) % SqEntries]]

(* io_uring_enter() takes k entries.  A cancel operation hits its target    *)
(* when that is in flight, be it taken just before.                         *)
Take(k) ==
  LET es == Taken(k)
  IN  /\ sq_khead' = (sq_khead + k) % IndexSpace
      /\ inflight' = [u \in UserData |->
           inflight[u] + Cardinality({i \in 1..k : es[i].data = u})]
      /\ doomed' = doomed \cup
           {r \in Reqs : \E i \in 1..k :
              /\ es[i].cancels = r
              /\ inflight[r] > 0 \/ \E j \in 1..(i - 1) : es[j].data = r}

(* All entries are taken.  With GetEvents the call goes on to wait. *)
SubmitRest ==
  /\ pc = "enter"
  /\ Take(call.left)
  /\ call' = [call EXCEPT !.left = 0]
  /\ pc' = "kernel"
  /\ UNCHANGED <<platform, sqes, sq_tail, sq_ktail, to_submit, to_complete,
                 cqVars, cq_khead, taskwork, taskVars, ev, running>>

(* Only some are taken.  Without SubmitAll the kernel stops at an entry it  *)
(* rejects and enter() goes around its loop; with it, memory has run out.   *)
SubmitSome ==
  /\ pc = "enter"
  /\ platform.submit_all => KernelFails
  /\ \E k \in 1..(call.left - 1) :
       /\ Take(k)
       /\ call' = [call EXCEPT !.left = @ - k]
  /\ pc' = IF platform.submit_all THEN "abort" ELSE "enter"
  /\ UNCHANGED <<platform, sqes, sq_tail, sq_ktail, to_submit, to_complete,
                 cqVars, cq_khead, taskwork, taskVars, ev, running>>

(* io_uring_enter() fails before it takes any: fatal to the driver. *)
SubmitFails ==
  /\ pc = "enter"
  /\ KernelFails
  /\ call.left > 0
  /\ pc' = "abort"
  /\ UNCHANGED <<platform, sqVars, to_submit, to_complete, cqVars, cq_khead,
                 kernelVars, taskVars, call, ev, running>>

-----------------------------------------------------------------------------
(* The kernel.                                                              *)

(* An operation finishes.  In a call of io_uring_enter its entry is posted  *)
(* at once; otherwise that may have to wait for task work.                  *)
Finish(u) ==
  /\ inflight[u] > 0
  /\ inflight' = [inflight EXCEPT ![u] = @ - 1]
  /\ doomed' = doomed \ {u}
  /\ IF platform.defer_taskrun /\ pc # "kernel"
     THEN /\ taskwork' = [taskwork EXCEPT ![u] = @ + 1]
          /\ UNCHANGED cqVars
     ELSE /\ Post(u)
          /\ UNCHANGED taskwork
  /\ UNCHANGED <<platform, sqVars, to_submit, to_complete, cq_khead, taskVars,
                 pc, call, ev, running>>

(* Task work runs in a call that asks for completions. *)
RunTaskWork(u) ==
  /\ pc = "kernel"
  /\ call.get_events
  /\ taskwork[u] > 0
  /\ taskwork' = [taskwork EXCEPT ![u] = @ - 1]
  /\ Post(u)
  /\ UNCHANGED <<platform, sqVars, to_submit, to_complete, cq_khead, inflight,
                 doomed, taskVars, pc, call, ev, running>>

(* So do kept entries get into the ring, as far as there is room. *)
FlushOverflow ==
  /\ pc = "kernel"
  /\ call.get_events
  /\ overflow # <<>>
  /\ CqCount < CqEntries
  /\ cqes' = [cqes EXCEPT ![cq_ktail % CqEntries] = Head(overflow)]
  /\ cq_ktail' = Inc(cq_ktail)
  /\ overflow' = Tail(overflow)
  /\ UNCHANGED <<platform, sqVars, to_submit, to_complete, cq_khead, kernelVars,
                 taskVars, pc, call, ev, running>>

(* io_uring_enter() may return: it has done what it was asked to. *)
CanReturn ==
  /\ pc = "kernel"
  /\ call.get_events => ~TaskRun /\ (overflow = <<>> \/ CqCount = CqEntries)

(* It has not to wait, or what it waits for has come.  Otherwise it returns *)
(* when its timeout passes or a signal interrupts it; with nothing left to  *)
(* submit, enter() takes these errors for success.                          *)
Satisfied == CqCount >= call.min

-----------------------------------------------------------------------------
(* Completion.                                                              *)

(* Request::complete(): the request's task runs; NO_OP's callback is empty. *)
Complete(u) ==
  /\ pending' = pending \ {u}
  /\ cancelling' = cancelling \ {u}
  /\ pc' = IF u = NoOp THEN "events" ELSE "callback"

(* Mutant: the entries are counted as they are at the end, not in one go.   *)
RunEventsUncounted ==
  IF CqCount = 0
  THEN /\ pc' = "tasks"
       /\ UNCHANGED <<to_complete, pending, cancelling, ev, running>>
  ELSE LET last == (cq_ktail - 1) % IndexSpace
       IN  /\ to_complete' = to_complete - 1
           /\ ev' = [head |-> cq_khead, tail |-> last]
           /\ running' = TRUE
           /\ Complete(cqes[last % CqEntries])

(* run_events() on what read_ring() returned: settle to_complete for all    *)
(* entries, and complete the last one first, its slot kept.                 *)
RunEvents ==
  IF CqCount = 0
  THEN /\ pc' = "tasks"
       /\ UNCHANGED <<to_complete, pending, cancelling, ev, running>>
  ELSE LET last == (cq_ktail - 1) % IndexSpace
       IN  /\ to_complete' = to_complete - CqCount
           /\ ev' = [head |-> cq_khead, tail |-> last]
           /\ running' = TRUE
           /\ Complete(cqes[last % CqEntries])

(* Mutant: the slot of the entry that was completed first is not released. *)
NextEventKeepsLast ==
  /\ pc \in {"events", "callback"}
  /\ cq_khead' = IF ev.head # ev.tail THEN Inc(ev.head) ELSE ev.head
  /\ IF ev.head # ev.tail
     THEN /\ ev' = [ev EXCEPT !.head = Inc(@)]
          /\ Complete(cqes[ev.head % CqEntries])
          /\ UNCHANGED running
     ELSE /\ ev' = NoEvents
          /\ running' = FALSE
          /\ pc' = "tasks"
          /\ UNCHANGED <<pending, cancelling>>
  /\ UNCHANGED <<platform, sqVars, to_submit, to_complete, cqVars, kernelVars,
                 exiting, forced, call>>

(* The callback returns and run_events() goes on: with the next entry in    *)
(* order, its slot released before its callback, or to its end, where the   *)
(* slot of the last entry is released too.                                  *)
NextEvent ==
  /\ pc \in {"events", "callback"}
  /\ cq_khead' = Inc(ev.head)
  /\ IF ev.head # ev.tail
     THEN /\ ev' = [ev EXCEPT !.head = Inc(@)]
          /\ Complete(cqes[ev.head % CqEntries])
          /\ UNCHANGED running
     ELSE /\ ev' = NoEvents
          /\ running' = FALSE
          /\ pc' = "tasks"
          /\ UNCHANGED <<pending, cancelling>>
  /\ UNCHANGED <<platform, sqVars, to_submit, to_complete, cqVars, kernelVars,
                 exiting, forced, call>>

-----------------------------------------------------------------------------
(* The event loop.                                                          *)

(* Mutant: queued operations are not looked at. *)
HasWorkSubmittedOnly == to_complete # 0

(* IoUring::has_work() *)
HasWork == to_complete # 0 \/ to_submit # 0

(* work(timeout), called by the driver's loops when tasks are done running; *)
(* wait is timeout # 0.  Driver::exit calls it only while there is work.    *)
Work(wait) ==
  /\ pc = "tasks"
  /\ exiting => HasWork
  /\ IF to_submit = 0 /\ (CqCount # 0 \/ (~NeedsEnter /\ ~wait))
     THEN /\ RunEvents
          /\ UNCHANGED <<sq_ktail, to_submit, call>>
     ELSE /\ IF platform.ext_arg
             THEN Enter(to_submit, sq_tail,
                        [Idle EXCEPT !.min = IF wait THEN 1 ELSE 0,
                                     !.get_events = TRUE, !.from = "work"])
             ELSE Flush(to_submit, sq_tail, "compat")
          /\ UNCHANGED <<pending, cancelling, ev, running>>
  /\ UNCHANGED <<platform, sqes, sq_tail, sq_khead, cqVars, cq_khead, kernelVars,
                 exiting, forced>>

(* enter() returned to push_flush(), and start_async() to its task. *)
FlushReturns ==
  /\ CanReturn
  /\ call.from \in {"tasks", "callback"}
  /\ pc' = call.from
  /\ call' = Idle
  /\ UNCHANGED <<platform, sqVars, to_submit, to_complete, cqVars, cq_khead,
                 kernelVars, taskVars, ev, running>>

(* enter() returned to submit_and_wait(), or flush() to its compat version  *)
(* and brought completions: read_ring() and run_events().                   *)
WorkReturns ==
  /\ CanReturn
  /\ \/ call.from = "work"
     \/ call.from = "compat" /\ cq_ktail # call.seen
  /\ RunEvents
  /\ call' = Idle
  /\ UNCHANGED <<platform, sqVars, to_submit, cqVars, cq_khead, kernelVars,
                 exiting, forced>>

(* submit_and_wait_compat(): flush() brought nothing.  A timeout operation  *)
(* is queued to bound the wait, and enter() waits without a timeout.        *)
CompatWait ==
  /\ CanReturn
  /\ call.from = "compat" /\ cq_ktail = call.seen
  /\ inflight[NoOp] < MaxNoOps
  /\ Push(TimeoutSqe)
  /\ Enter(1, sq_tail', [Idle EXCEPT !.min = 1, !.get_events = TRUE,
                                     !.from = "work"])
  /\ UNCHANGED <<platform, sq_khead, cqVars, cq_khead, kernelVars, taskVars, ev,
                 running>>

(* SubmissionQueue::push() computes tail + 1, which panics at the end of    *)
(* the index space when overflow checks are on.                             *)
PushPanics ==
  /\ \/ TasksRun
     \/ CanReturn /\ call.from = "compat" /\ cq_ktail = call.seen
  /\ ~PushOk
  /\ pc' = "unwound"
  /\ UNCHANGED <<platform, sqVars, to_submit, to_complete, cqVars, cq_khead,
                 kernelVars, taskVars, call, ev, running>>

(* Driver::exit begins. *)
Exit ==
  /\ MayExit
  /\ pc = "tasks"
  /\ ~exiting
  /\ exiting' = TRUE
  /\ forced' = 0
  /\ UNCHANGED <<platform, sqVars, to_submit, to_complete, cqVars, cq_khead,
                 kernelVars, pending, cancelling, pc, call, ev, running>>

(* Driver::exit returns. *)
ExitReturns ==
  /\ pc = "tasks"
  /\ exiting
  /\ ~HasWork
  /\ exiting' = FALSE
  /\ forced' = 0
  /\ UNCHANGED <<platform, sqVars, to_submit, to_complete, cqVars, cq_khead,
                 kernelVars, pending, cancelling, pc, call, ev, running>>

(* The process has been aborted, or a panic unwinds out of the engine. *)
Stopped ==
  /\ Dead
  /\ UNCHANGED vars

-----------------------------------------------------------------------------
Next ==
  \/ \E r \in Reqs : StartOp(r) \/ Cancel(r)
  \/ PushPanics
  \/ SubmitRest
  \/ SubmitSome
  \/ SubmitFails
  \/ \E u \in UserData : Finish(u) \/ RunTaskWork(u)
  \/ FlushOverflow
  \/ NextEvent
  \/ \E wait \in Waits : Work(wait)
  \/ FlushReturns
  \/ WorkReturns
  \/ CompatWait
  \/ Exit
  \/ ExitReturns
  \/ Stopped

(* There is something to do for work(), be its timeout zero or not. *)
Due == to_submit # 0 \/ CqCount # 0 \/ NeedsEnter

(* The engine's thread goes on, and tasks give control back to the loop.    *)
(* The loop may call work() with a timeout of zero for ever, to no effect   *)
(* while nothing is due; that it waits is not assumed.                      *)
Thread ==
  \/ SubmitRest
  \/ NextEvent
  \/ Due /\ \E wait \in Waits : Work(wait)
  \/ FlushReturns
  \/ Satisfied /\ WorkReturns
  \/ CompatWait
  \/ pc = "kernel" /\ PushPanics
  \/ ExitReturns

(* A call of io_uring_enter does what it was asked to. *)
Kernel == FlushOverflow \/ \E u \in UserData : RunTaskWork(u)

Fairness == WF_vars(Thread) /\ WF_vars(Kernel)

(* Every operation ends: timeouts and cancels by themselves, the others     *)
(* because the tasks that wait for them were interrupted.                   *)
OpsEnd == \A u \in UserData : WF_vars(Finish(u))

Spec == Init /\ [][Next]_vars
FairSpec == Spec /\ Fairness
EndingSpec == FairSpec /\ OpsEnd

-----------------------------------------------------------------------------
(* Properties.                                                              *)

(* Completion entries posted after run_events() read the ring, or all when  *)
(* it is not running: those that to_complete still counts.                  *)
Ahead == Window(IF running THEN Inc(ev.tail) ELSE cq_khead, cq_ktail)

(* Completion entries whose callback has not run. *)
Unread == Ahead \cup (IF running THEN Window(ev.head, ev.tail) ELSE {})

InCq(window, u) == Cardinality({i \in window : cqes[i % CqEntries] = u})

(* A request that a task waits for is in one place: an entry of the         *)
(* submission ring, the kernel, or an entry of the completion ring that was *)
(* not completed; one that no task waits for is nowhere.  So no entry is    *)
(* overwritten by a ring that wraps, and run_events() completes each once,  *)
(* with the last one first and the others while the kernel refills slots.   *)
OnePlace ==
  \A r \in Reqs :
    InSq(r) + InKernel(r) + InCq(Unread, r) = IF r \in pending THEN 1 ELSE 0

(* The operations on their way, those with the same user_data numbered.     *)
OnTheirWay ==
  UNION {{u} \X (1..(InSq(u) + InKernel(u) + InCq(Ahead, u))) : u \in UserData}

(* to_submit and to_complete together count the operations on their way,    *)
(* NO_OPs included, at every step, although enter() adds to to_complete     *)
(* before the kernel takes anything and run_events() subtracts before it    *)
(* completes anything: the subtraction never goes below zero, and           *)
(* has_work() is exact when Driver::exit looks at it.                       *)
CountersExact ==
  /\ to_submit >= 0 /\ to_complete >= 0
  /\ to_submit + to_complete = Cardinality(OnTheirWay)

(* A cancel operation only ever hits the operation it was meant for, not a  *)
(* later one whose request has the same address, though it is submitted     *)
(* late and its target may complete, and start again, before that.          *)
CancelHitsItsTarget == doomed \subseteq cancelling

(* When Driver::exit returns no operation is on its way and no request is   *)
(* waited for, although callbacks of the last round may have started some.  *)
ExitLeavesNothing ==
  [][exiting /\ ~exiting' =>
       \A u \in UserData : InSq(u) + InKernel(u) + InCq(Unread, u) = 0]_vars

(* Driver::exit returns when every operation ends, or the process does.     *)
(* Without EXT_ARG it need not: the comment in submit_and_wait_compat()     *)
(* says that "the application may hang indefinitely when trying to exit".   *)
ExitTerminates == exiting /\ platform.ext_arg ~> ~exiting \/ Dead

(* The engine's contract: the rings and the kernel's lists implement it.    *)
Op(r) ==
  IF inflight[r] > 0 \/ InSq(r) > 0 THEN "started"
  ELSE IF InKernel(r) + InCq(Unread, r) > 0 THEN "finished"
  ELSE "idle"

Contract == INSTANCE AsyncEngine WITH op <- [r \in Reqs |-> Op(r)]

(* Every operation is started, finishes in the kernel and is completed in   *)
(* that order, whatever ring or list it is in on the way.                   *)
ImplementsEngine == Contract!Spec

(* What the kernel has finished is completed in the end, be its entry kept  *)
(* back by an overflow or by deferred task work, and even when timers are   *)
(* due all the time and work() never waits; unless tasks fill the           *)
(* submission ring again and again: then work() may always find to_submit   *)
(* zero and completions ready, and does not ask for the deferred ones.      *)
RingFilled == pc = "enter" /\ call.from \in {"tasks", "callback"}
FinishedDelivered ==
  \A r \in Reqs :
    []<>RingFilled \/ []<>(Op(r) # "finished" \/ Dead)
=============================================================================
