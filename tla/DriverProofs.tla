--------------------------- MODULE DriverProofs ----------------------------
(***************************************************************************)
(* Proofs about the driver's loops and timers (module Driver) and about     *)
(* what fs/ does on top of them: files (module File) and listings (module   *)
(* ReadDir).  The three have no state in common; each part starts with the  *)
(* invariant of its module.                                                 *)
(***************************************************************************)
EXTENDS Driver, File, ReadDir, TLAPS

-----------------------------------------------------------------------------
(***************************************************************************)
(* The driver keeps its timers and loops right, for every set of requests,  *)
(* clock range and number of timers.                                        *)
(***************************************************************************)

(* The types of the variables. *)
TypeOK ==
  /\ now \in Times
  /\ timers \subseteq Timeout
  /\ exiting \in BOOLEAN
  /\ op \in [Reqs -> {"idle", "started", "finished"}]
  /\ sleeping \subseteq Reqs
  /\ handle \in [Reqs -> Times]
  /\ main \in BOOLEAN
  /\ loop \in {"block_while", "exit"}
  /\ pc \in Pcs
  /\ ret \in Returns
  /\ tnow \in Times
  /\ ran \in BOOLEAN
  /\ timeout \in Nat /\ wake_at \in Nat
  /\ events \subseteq Reqs
  /\ starts \in 0..MaxStarts

(* The local now of run_timers() is not ahead of the clock, and is the      *)
(* clock until a timer's callback has run.                                  *)
ClockRead ==
  /\ tnow <= now
  /\ pc = "timers" /\ ~ran => tnow = now
  /\ pc = "user" /\ ret = "timers" => ran

(* What run_timers() returned does not reach beyond the first timer. *)
TimeoutReaches ==
  pc = "check" => \A t \in timers : now + timeout <= t.expire \/ timeout = 0

(* Once exit() has completed all timers there are no others. *)
ExitingHasNoTimers ==
  exiting => timers = {} \/ pc = "drain" \/ (pc = "user" /\ ret = "drain")

(* The inductive invariant. *)
IInv ==
  /\ TypeOK
  /\ TimersMatchSleepers
  /\ NeverOversleeps
  /\ NoParkWhenDone
  /\ ClockRead
  /\ TimeoutReaches
  /\ ExitingHasNoTimers

(* The conjuncts of IInv that speak of control and of the clock. *)
Rest == NeverOversleeps /\ NoParkWhenDone /\ ClockRead /\ TimeoutReaches
          /\ ExitingHasNoTimers

USE DriverAssumption

-----------------------------------------------------------------------------
(* A timer that is in the set belongs to the sleeper it names, and taking   *)
(* it out leaves the timers of the others.                                  *)
LEMMA TakeTimer ==
  ASSUME TypeOK, TimersMatchSleepers, NEW t \in timers,
         timers' = timers \ {t}, sleeping' = sleeping \ {t.request},
         UNCHANGED handle
  PROVE  TimersMatchSleepers' /\ timers' \subseteq Timeout
                              /\ sleeping' \subseteq Reqs
<1>1. PICK r \in sleeping : t = [expire |-> handle[r], request |-> r]
  BY DEF TimersMatchSleepers
<1>2. t.request = r
  BY <1>1
<1>3. \A q \in sleeping : [expire |-> handle[q], request |-> q] = t => q = r
  BY <1>1
<1>4. timers' = {[expire |-> handle[q], request |-> q] : q \in sleeping \ {r}}
  BY <1>1, <1>3 DEF TimersMatchSleepers
<1> QED
  BY <1>2, <1>4 DEF TimersMatchSleepers, TypeOK

(* A new timer is that of its sleeper. *)
LEMMA AddTimer ==
  ASSUME TypeOK, TimersMatchSleepers, NEW r \in Reqs, r \notin sleeping,
         NEW expire \in Times, QueueTimer(r, expire)
  PROVE  TimersMatchSleepers' /\ timers' \subseteq Timeout
                              /\ sleeping' \subseteq Reqs
                              /\ handle' \in [Reqs -> Times]
<1>1. \A q \in sleeping : handle'[q] = handle[q]
  BY DEF QueueTimer, TypeOK
<1>2. handle'[r] = expire
  BY DEF QueueTimer, TypeOK
<1>3. {[expire |-> handle'[q], request |-> q] : q \in sleeping'}
        = {[expire |-> handle[q], request |-> q] : q \in sleeping}
            \cup {[expire |-> expire, request |-> r]}
  BY <1>1, <1>2 DEF QueueTimer
<1> QED
  BY <1>3 DEF TimersMatchSleepers, QueueTimer, TypeOK, Timeout

(* Steps that leave timers, sleepers and handles alone. *)
LEMMA KeepTimers ==
  ASSUME TypeOK, TimersMatchSleepers, UNCHANGED <<timers, sleeping, handle>>
  PROVE  TimersMatchSleepers' /\ timers' \subseteq Timeout
                              /\ sleeping' \subseteq Reqs
                              /\ handle' \in [Reqs -> Times]
BY DEF TimersMatchSleepers, TypeOK

-----------------------------------------------------------------------------
(* The invariant holds of Driver::new() and a first block_on(). *)
LEMMA InitInv == Init => IInv
<1> SUFFICES ASSUME Init PROVE IInv
  OBVIOUS
<1>1. TypeOK
  <2>1. {exiting, main, ran} \subseteq BOOLEAN
    BY Zenon DEF Init
  <2>2. op \in [Reqs -> {"idle", "started", "finished"}]
    BY DEF Init, Engine!Init
  <2>3. /\ {now, tnow} \subseteq Times /\ handle \in [Reqs -> Times]
        /\ {timeout, wake_at} \subseteq Nat /\ starts \in 0..MaxStarts
    BY DEF Init, Times
  <2>4. /\ loop \in {"block_while", "exit"} /\ pc \in Pcs /\ ret \in Returns
        /\ timers \subseteq Timeout /\ sleeping \subseteq Reqs
        /\ events \subseteq Reqs
    BY DEF Init, Pcs, Returns
  <2> QED
    BY <2>1, <2>2, <2>3, <2>4 DEF TypeOK
<1>2. TimersMatchSleepers
  BY DEF Init, TimersMatchSleepers
<1> QED
  BY <1>1, <1>2 DEF Init, IInv, NeverOversleeps, NoParkWhenDone, ClockRead,
                    TimeoutReaches, ExitingHasNoTimers

(* timeout() queues the timer its cancel closure names. *)
LEMMA StartTimerInv ==
  ASSUME IInv, NEW r \in Reqs, NEW expire \in Times, NEW abs \in BOOLEAN,
         StartTimer(r, expire, abs)
  PROVE  IInv'
<1> USE DEF IInv
<1> DEFINE at == IF abs THEN expire ELSE now + expire
<1>1. at \in Times
  BY DEF StartTimer, TypeOK, Times
<1>2. TimersMatchSleepers' /\ timers' \subseteq Timeout /\ sleeping' \subseteq Reqs
        /\ handle' \in [Reqs -> Times]
  <2> HIDE DEF at
  <2>1. QueueTimer(r, at)
    BY DEF StartTimer, at
  <2> QED
    BY <1>1, <2>1, AddTimer DEF StartTimer, Free
<1>3. TypeOK'
  BY <1>2 DEF StartTimer, TypeOK, localVars
<1>4. Rest'
  BY DEF StartTimer, localVars, Rest, TypeOK, NeverOversleeps, NoParkWhenDone,
         ClockRead, TimeoutReaches, ExitingHasNoTimers
<1> QED
  BY <1>2, <1>3, <1>4 DEF Rest

(* cancel_timer() takes it out and completes it. *)
LEMMA CancelTimerInv ==
  ASSUME IInv, NEW r \in Reqs, CancelTimer(r)
  PROVE  IInv'
<1> USE DEF IInv
<1> DEFINE t == [expire |-> handle[r], request |-> r]
<1>1. TimersMatchSleepers' /\ timers' \subseteq Timeout /\ sleeping' \subseteq Reqs
  BY TakeTimer, t \in timers, t.request = r DEF CancelTimer
<1>2. TypeOK'
  BY <1>1 DEF CancelTimer, TypeOK, localVars
<1>3. Rest'
  BY DEF CancelTimer, localVars, Rest, TypeOK, NeverOversleeps, NoParkWhenDone,
         ClockRead, TimeoutReaches, ExitingHasNoTimers
<1> QED
  BY <1>1, <1>2, <1>3 DEF Rest

(* Completing a timer ends the sleep of its task, and runs it. *)
LEMMA TimerCompleteInv ==
  ASSUME TypeOK, TimersMatchSleepers, NEW t \in timers, NEW back \in Returns,
         TimerComplete(t, back), UNCHANGED handle
  PROVE  /\ TimersMatchSleepers' /\ timers' \subseteq Timeout
         /\ sleeping' \subseteq Reqs /\ pc' = "user" /\ ret' = back
BY TakeTimer DEF TimerComplete, CallTask

(* run_timers() completes a timer. *)
LEMMA TimerExpiresInv == IInv /\ TimerExpires => IInv'
<1> SUFFICES ASSUME IInv, TimerExpires PROVE IInv'
  OBVIOUS
<1> USE DEF IInv
<1>1. PICK t \in Firsts : t.expire <= tnow /\ TimerComplete(t, "timers")
  BY DEF TimerExpires
<1>2. /\ TimersMatchSleepers' /\ timers' \subseteq Timeout
      /\ sleeping' \subseteq Reqs /\ pc' = "user" /\ ret' = "timers"
  BY <1>1, TimerCompleteInv DEF Firsts, Returns, TimerExpires
<1>3. TypeOK'
  BY <1>2 DEF TimerExpires, TypeOK, Pcs, Returns
<1>4. Rest'
  BY <1>1, <1>2 DEF TimerExpires, TimerComplete, Rest, TypeOK, NeverOversleeps,
    NoParkWhenDone, ClockRead, TimeoutReaches, ExitingHasNoTimers
<1> QED
  BY <1>2, <1>3, <1>4 DEF Rest

(* exit() completes a timer. *)
LEMMA DrainTimerInv == IInv /\ DrainTimer => IInv'
<1> SUFFICES ASSUME IInv, DrainTimer PROVE IInv'
  OBVIOUS
<1> USE DEF IInv
<1>1. PICK t \in Firsts : TimerComplete(t, "drain")
  BY DEF DrainTimer
<1>2. /\ TimersMatchSleepers' /\ timers' \subseteq Timeout
      /\ sleeping' \subseteq Reqs /\ pc' = "user" /\ ret' = "drain"
  BY <1>1, TimerCompleteInv DEF Firsts, Returns, DrainTimer
<1>3. TypeOK'
  BY <1>2 DEF DrainTimer, TypeOK, Pcs, Returns, localVars
<1>4. Rest'
  BY <1>2 DEF DrainTimer, Rest, TypeOK, NeverOversleeps, NoParkWhenDone, ClockRead,
    TimeoutReaches, ExitingHasNoTimers, localVars
<1> QED
  BY <1>2, <1>3, <1>4 DEF Rest

(* run_timers() returns how long to wait for the first timer, from now on. *)
LEMMA TimersDoneInv == IInv /\ TimersDone => IInv'
<1> SUFFICES ASSUME IInv, TimersDone PROVE IInv'
  OBVIOUS
<1> USE DEF IInv
<1>1. TimersMatchSleepers'
  BY KeepTimers DEF TimersDone, taskVars
<1>2. timeout' \in Nat /\ TimeoutReaches'
  <2>1. CASE timers = {} /\ UNCHANGED timeout
    BY <2>1 DEF TimersDone, TimeoutReaches, TypeOK
  <2>2. CASE \E t \in Firsts :
               /\ t.expire > tnow
               /\ timeout' = SaturatingSub(t.expire, IF ran THEN now ELSE tnow)
    <3>1. PICK t \in Firsts : timeout' = SaturatingSub(t.expire, IF ran THEN now ELSE tnow)
      BY <2>2
    <3>2. (IF ran THEN now ELSE tnow) = now
      BY DEF ClockRead, TimersDone
    <3>3. t \in Timeout /\ now \in Nat /\ \A s \in timers : t.expire <= s.expire
      BY DEF Firsts, TypeOK, Times
    <3>4. t.expire \in Nat /\ \A s \in timers : s.expire \in Nat
      BY <3>3 DEF Timeout, Times, TypeOK
    <3>5. timeout' = IF t.expire > now THEN t.expire - now ELSE 0
      BY <3>1, <3>2 DEF SaturatingSub
    <3>6. timeout' \in Nat
      BY <3>3, <3>4, <3>5
    <3>7. \A s \in timers : now + timeout' <= s.expire \/ timeout' = 0
      BY <3>3, <3>4, <3>5
    <3> QED
      BY <3>6, <3>7 DEF TimersDone, TimeoutReaches
  <2> QED
    BY <2>1, <2>2 DEF TimersDone
<1>3. TypeOK'
  BY <1>2 DEF TimersDone, TypeOK, Pcs, taskVars
<1>4. NeverOversleeps' /\ NoParkWhenDone' /\ ClockRead' /\ ExitingHasNoTimers'
  BY DEF TimersDone, TypeOK, NeverOversleeps, NoParkWhenDone, ClockRead,
    ExitingHasNoTimers, taskVars
<1> QED
  BY <1>1, <1>2, <1>3, <1>4

(* The loop parks no longer than run_timers() said, or ends. *)
LEMMA CheckInv == IInv /\ Check => IInv'
<1> SUFFICES ASSUME IInv, Check PROVE IInv'
  OBVIOUS
<1> USE DEF IInv
<1>1. TimersMatchSleepers'
  BY KeepTimers DEF Check, taskVars
<1>2. wake_at' \in Nat
  BY DEF Check, Park, TypeOK, Times
<1>7. exiting' \in BOOLEAN
  BY Zenon DEF Check, Park, TypeOK
<1>3. TypeOK'
  BY <1>2, <1>7 DEF Check, Park, TypeOK, Pcs, taskVars
<1>4. NeverOversleeps'
  <2>1. now \in Nat /\ \A t \in timers : t.expire \in Nat
    BY DEF TypeOK, Timeout, Times
  <2> QED
    BY <2>1 DEF Check, Park, NeverOversleeps, TimeoutReaches, TypeOK
<1>5. NoParkWhenDone'
  BY DEF Check, Park, NoParkWhenDone, taskVars
<1>6. ClockRead' /\ TimeoutReaches' /\ ExitingHasNoTimers'
  BY DEF Check, Park, ClockRead, TimeoutReaches, ExitingHasNoTimers, TypeOK
<1> QED
  BY <1>1, <1>3, <1>4, <1>5, <1>6

(* Time passes: a parked loop is not later for it. *)
LEMMA TickInv == IInv /\ Tick => IInv'
<1> SUFFICES ASSUME IInv, Tick PROVE IInv'
  OBVIOUS
<1> USE DEF IInv
<1>1. TimersMatchSleepers'
  BY KeepTimers DEF Tick, taskVars
<1>2. TypeOK'
  BY DEF Tick, TypeOK, Times, taskVars, localVars
<1>3. NeverOversleeps'
  <2>1. now \in Nat /\ \A t \in timers : t.expire \in Nat
    BY DEF TypeOK, Timeout, Times
  <2> QED
    BY <2>1 DEF Tick, NeverOversleeps, TypeOK, localVars
<1>4. NoParkWhenDone' /\ ClockRead' /\ TimeoutReaches' /\ ExitingHasNoTimers'
  BY DEF Tick, TypeOK, Times, NoParkWhenDone, ClockRead, TimeoutReaches,
    ExitingHasNoTimers, taskVars, localVars
<1> QED
  BY <1>1, <1>2, <1>3, <1>4

(* The steps of tasks and of the engine that involve no timer. *)
LEMMA TaskStepInv ==
  ASSUME IInv,
         \/ \E r \in Reqs, expire \in Times : StartTimerPanics(r, expire)
         \/ \E r \in Reqs, force \in BOOLEAN : StartOp(r, force)
         \/ \E r \in Reqs : FinishOp(r)
         \/ MainFinishes
         \/ CallbackReturns
         \/ EventCompletes
  PROVE  IInv'
<1> USE DEF IInv, taskVars, localVars
<1>1. TimersMatchSleepers'
  BY KeepTimers DEF StartTimerPanics, StartOp, FinishOp, MainFinishes,
    CallbackReturns, EventCompletes
<1>2. op' \in [Reqs -> {"idle", "started", "finished"}]
  <2>1. CASE \E r \in Reqs, force \in BOOLEAN : StartOp(r, force)
    BY <2>1, Zenon DEF StartOp, EngineTask, Engine!Start, Engine!Move, TypeOK
  <2>2. CASE \E r \in Reqs : FinishOp(r)
    BY <2>2, Zenon DEF FinishOp, Engine!Finish, Engine!Move, TypeOK
  <2>3. CASE EventCompletes
    BY <2>3, ZenonT(40) DEF EventCompletes, Engine!Complete, Engine!Move, TypeOK
  <2>4. CASE \/ \E r \in Reqs, expire \in Times : StartTimerPanics(r, expire)
             \/ MainFinishes \/ CallbackReturns
    BY <2>4 DEF StartTimerPanics, MainFinishes, CallbackReturns, TypeOK
  <2> QED
    BY <2>1, <2>2, <2>3, <2>4, Zenon
<1>3. pc' \in Pcs /\ ret' \in Returns /\ main' \in BOOLEAN
  <2>1. CASE \/ \E r \in Reqs, expire \in Times : StartTimerPanics(r, expire)
             \/ MainFinishes \/ CallbackReturns
    BY <2>1, ZenonT(40) DEF StartTimerPanics, MainFinishes, CallbackReturns, TypeOK, Pcs, Returns
  <2>2. CASE \/ \E r \in Reqs, force \in BOOLEAN : StartOp(r, force)
             \/ \E r \in Reqs : FinishOp(r)
             \/ EventCompletes
    BY <2>2 DEF StartOp, FinishOp, EventCompletes, CallTask, TypeOK, Pcs, Returns
  <2> QED
    BY <2>1, <2>2, Zenon
<1>4. TypeOK'
  BY <1>2, <1>3 DEF StartTimerPanics, StartOp, FinishOp, MainFinishes,
    CallbackReturns, EventCompletes, TypeOK
<1>5. Rest'
  BY DEF StartTimerPanics, StartOp, FinishOp, MainFinishes, CallbackReturns,
    EventCompletes, CallTask, Rest, TypeOK, Returns, NeverOversleeps,
    NoParkWhenDone, ClockRead, TimeoutReaches, ExitingHasNoTimers
<1> QED
  BY <1>1, <1>4, <1>5, ZenonT(40) DEF Rest

(* The steps of the loops that involve no timer. *)
LEMMA LoopStepInv ==
  ASSUME IInv,
         \/ RunTimers \/ Unpark \/ Parked
         \/ BlockOn \/ Drop \/ DropReturns \/ Exit \/ Drained
         \/ Stopped \/ UNCHANGED vars
  PROVE  IInv'
<1> USE DEF IInv, taskVars, localVars
<1>1. TimersMatchSleepers'
  BY KeepTimers, Zenon DEF RunTimers, Unpark, Parked, BlockOn, Drop, DropReturns, Exit,
    Drained, Stopped, vars
<1>2. pc' \in Pcs /\ ret' \in Returns /\ events' \subseteq Reqs
  BY Zenon DEF RunTimers, Unpark, Parked, BlockOn, Drop, DropReturns, Exit, Drained,
    Stopped, vars, CallTask, Finished, TypeOK, Pcs, Returns
<1>3. exiting' \in BOOLEAN /\ main' \in BOOLEAN /\ ran' \in BOOLEAN
  BY Zenon DEF RunTimers, Unpark, Parked, BlockOn, Drop, DropReturns, Exit, Drained,
    Stopped, vars, TypeOK
<1>4. TypeOK'
  BY <1>2, <1>3, Zenon DEF RunTimers, Unpark, Parked, BlockOn, Drop, DropReturns, Exit,
    Drained, Stopped, vars, TypeOK
<1>5. Rest'
  <2> USE DEF Rest, TypeOK, Times, NeverOversleeps, NoParkWhenDone, ClockRead,
              TimeoutReaches, ExitingHasNoTimers
  <2>1. CASE RunTimers \/ Unpark \/ Parked
    <3>1. CASE RunTimers
      BY <3>1 DEF RunTimers
    <3>2. CASE Unpark
      BY <3>2 DEF Unpark
    <3>3. CASE Parked
      BY <3>3 DEF Parked
    <3> QED
      BY <2>1, <3>1, <3>2, <3>3, Zenon
  <2>2. CASE BlockOn \/ Drop \/ DropReturns
    <3>1. CASE BlockOn
      BY <3>1 DEF BlockOn, CallTask
    <3>2. CASE Drop
      BY <3>2 DEF Drop, CallTask
    <3>3. CASE DropReturns
      BY <3>3 DEF DropReturns
    <3> QED
      BY <2>2, <3>1, <3>2, <3>3, Zenon
  <2>3. CASE Exit \/ Drained
    BY <2>3, Zenon DEF Exit, Drained, CallTask
  <2>4. CASE Stopped \/ UNCHANGED vars
    BY <2>4 DEF Stopped, vars
  <2> QED
    BY <2>1, <2>2, <2>3, <2>4, Zenon
<1> QED
  BY <1>1, <1>4, <1>5, Zenon DEF Rest

(* Every step preserves the invariant. *)
LEMMA NextInv == IInv /\ [Next]_vars => IInv'
<1> SUFFICES ASSUME IInv, [Next]_vars PROVE IInv'
  OBVIOUS
<1> QED
  BY StartTimerInv, CancelTimerInv, TimerExpiresInv, DrainTimerInv, TimersDoneInv,
     CheckInv, TickInv, TaskStepInv, LoopStepInv DEF Next

(* All that IInv says holds in every reachable state. *)
THEOREM Invariance == Spec => []IInv
BY InitInv, NextInv, PTL DEF Spec

(* Every sleeping task has its one timer, and only those have: a timer is   *)
(* completed once, and cancel_timer() finds what was not completed.         *)
THEOREM TimersMatchSleepersHolds == Spec => []TimersMatchSleepers
<1>1. IInv => TimersMatchSleepers
  BY DEF IInv
<1> QED
  BY <1>1, Invariance, PTL

(* park() returns in time for the first timer. *)
THEOREM NeverOversleepsHolds == Spec => []NeverOversleeps
<1>1. IInv => NeverOversleeps
  BY DEF IInv
<1> QED
  BY <1>1, Invariance, PTL

(* block_while() never parks once its task is done. *)
THEOREM NoParkWhenDoneHolds == Spec => []NoParkWhenDone
<1>1. IInv => NoParkWhenDone
  BY DEF IInv
<1> QED
  BY <1>1, Invariance, PTL

(* The time a task asked for is the one its timer is set to: no sum that   *)
(* does not fit a u64 gets into the set.                                    *)
AsAsked == due = handle

LEMMA AlwaysAsAsked == Spec => []AsAsked
<1>1. Init => AsAsked
  BY Zenon DEF Init, AsAsked
<1>2. ASSUME AsAsked, [Next]_vars PROVE AsAsked'
  <2> USE DEF AsAsked
  <2>1. ASSUME NEW r \in Reqs, NEW expire \in Times, NEW abs \in BOOLEAN,
               StartTimer(r, expire, abs)
        PROVE  AsAsked'
    BY <1>2, <2>1, Zenon DEF StartTimer, QueueTimer, Asks
  <2>2. CASE UNCHANGED <<due, handle>>
    BY <1>2, <2>2
  <2> QED
    BY <1>2, <2>1, <2>2, Zenon DEF Next, vars, taskVars, StartTimerPanics, CancelTimer,
      StartOp, FinishOp, MainFinishes, CallbackReturns, Tick, RunTimers, TimerExpires,
      TimersDone, Check, Unpark, EventCompletes, Parked, BlockOn, Drop, DropReturns,
      Exit, DrainTimer, Drained, Stopped
<1> QED
  BY <1>1, <1>2, PTL DEF Spec

LEMMA AtMost ==
  ASSUME NEW a \in Nat, NEW b \in Nat, NEW c \in Nat, a <= b, b <= c
  PROVE  a <= c
  OBVIOUS

(* run_timers() ends no sleep before the time that the task asked for, for  *)
(* any range of the clock, relative and absolute times, and whatever timers *)
(* its callbacks set and cancel.                                            *)
THEOREM SleepsLongEnoughHolds == Spec => SleepsLongEnough
<1>1. ASSUME IInv, AsAsked, [Next]_vars, pc = "timers",
             NEW r \in sleeping \ sleeping'
      PROVE  due[r] <= now
  <2> USE DEF IInv, taskVars, localVars
  <2>1. TimerExpires
    BY <1>1, Zenon DEF Next, vars, StartTimer, StartTimerPanics, CancelTimer, StartOp,
      FinishOp, MainFinishes, CallbackReturns, Tick, RunTimers, TimersDone, Check,
      Unpark, EventCompletes, Parked, BlockOn, Drop, DropReturns, Exit, DrainTimer,
      Drained, Stopped
  <2>2. PICK t \in timers : t.expire <= tnow /\ sleeping' = sleeping \ {t.request}
    BY <2>1 DEF TimerExpires, TimerComplete, Firsts
  <2>3. PICK q \in sleeping : t = [expire |-> handle[q], request |-> q]
    BY <1>1 DEF TimersMatchSleepers
  <2>4. q = r /\ t.expire = due[r]
    BY <1>1, <2>2, <2>3 DEF AsAsked
  <2>5. t.expire \in Nat /\ tnow \in Nat /\ now \in Nat
    BY <1>1 DEF TypeOK, Timeout, Times
  <2>6. tnow <= now
    BY <1>1 DEF ClockRead
  <2>7. t.expire <= now
    BY <2>2, <2>5, <2>6, AtMost, Zenon
  <2> QED
    BY <2>4, <2>7, Zenon
<1>2. IInv /\ AsAsked /\ [Next]_vars =>
        [pc = "timers" => \A r \in sleeping \ sleeping' : due[r] <= now]_vars
  BY <1>1
<1> QED
  BY <1>2, Invariance, AlwaysAsAsked, PTL DEF Spec, SleepsLongEnough

(* exit() returns with no timer, no sleeper and no operation left. *)
THEOREM ExitLeavesNothingHolds == Spec => ExitLeavesNothing
<1>1. ASSUME IInv, [Next]_vars, exiting, ~exiting'
      PROVE  timers = {} /\ sleeping = {} /\ ~HasWork
  <2> USE DEF IInv, taskVars, localVars
  <2>1. Check
    BY <1>1, Zenon DEF Next, vars, StartTimer, StartTimerPanics, CancelTimer, StartOp,
      FinishOp, MainFinishes, CallbackReturns, Tick, RunTimers, TimerExpires,
      TimersDone, Unpark, EventCompletes, Parked, BlockOn, Drop, DropReturns, Exit,
      DrainTimer, Drained, Stopped
  <2>2. pc = "check" /\ ~HasWork
    BY <1>1, <2>1, Zenon DEF Check, Park
  <2>3. timers = {}
    BY <1>1, <2>2 DEF ExitingHasNoTimers
  <2>4. sleeping = {}
    BY <1>1, <2>3, Zenon DEF TimersMatchSleepers
  <2> QED
    BY <2>2, <2>3, <2>4, Zenon
<1>2. IInv /\ [Next]_vars =>
        [exiting /\ ~exiting' => timers = {} /\ sleeping = {} /\ ~HasWork]_vars
  BY <1>1
<1> QED
  BY <1>2, Invariance, PTL DEF Spec, ExitLeavesNothing

HIDE DriverAssumption

-----------------------------------------------------------------------------
(***************************************************************************)
(* File's reads, writes and seeks are cancel safe (CancelSafe), and read()  *)
(* returns zero at the end of the file only (ZeroIsEnd), for files and      *)
(* buffers of any size.                                                     *)
(*                                                                         *)
(* CancelSafe is about the bytes callers were told of, the code has an      *)
(* offset: the invariant ties one to the other.  ZeroIsEnd needs that an    *)
(* operation's zero stays explained until it is returned: the interrupt it  *)
(* came from is still there, or the file has not grown.                     *)
(***************************************************************************)

FileTypeOK ==
  /\ offset \in Nat /\ size \in Nat /\ from \in Nat
  /\ req \in [kind : {"none", "read", "write", "seek"}, at : Int, len : Nat]
  /\ res \in Nat \cup {Pending, Failed}
  /\ log \in Seq(Nat)

FileInv ==
  /\ FileTypeOK
  /\ CancelSafe
  /\ offset = from + Len(log)
  /\ req.kind = "none" => req = Idle /\ res = Pending
  /\ req.kind = "read" /\ res = 0 => req.at >= size \/ interrupted
  /\ ZeroIsEnd

LEMMA InitFileInv == FileInit => FileInv
PROOF
  <1> SUFFICES ASSUME FileInit PROVE FileInv
    OBVIOUS
  <1>1. FileTypeOK
    BY FileAssumption DEF FileInit, FileTypeOK, Idle
  <1>2. CancelSafe /\ offset = from + Len(log)
    BY DEF FileInit, CancelSafe, Idle
  <1>3. ZeroIsEnd
    BY DEF FileInit, ZeroIsEnd
  <1> QED BY <1>1, <1>2, <1>3 DEF FileInit, FileInv, Idle

LEMMA JoinAt ==
  ASSUME NEW s \in Seq(Nat), NEW t \in Seq(Nat), NEW i \in Int, i - Len(s) \in 1..Len(t)
  PROVE  (s \o t)[i] = t[i - Len(s)]
  OBVIOUS

(* n bytes more, from where the others have led to. *)
LEMMA LogGrows ==
  ASSUME NEW s \in Seq(Nat), NEW first \in Nat, NEW n \in Nat,
         \A i \in 1..Len(s) : s[i] = first + i - 1
  PROVE  LET more == s \o [i \in 1..n |-> first + Len(s) + i - 1]
         IN  /\ more \in Seq(Nat)
             /\ Len(more) = Len(s) + n
             /\ \A i \in 1..Len(more) : more[i] = first + i - 1
PROOF
  <1> DEFINE new == [i \in 1..n |-> first + Len(s) + i - 1]
             more == s \o new
  <1>1. \A i \in 1..n : first + Len(s) + i - 1 \in Nat
    OBVIOUS
  <1>2. new \in Seq(Nat) /\ Len(new) = n
    BY <1>1
  <1>3. more \in Seq(Nat) /\ Len(more) = Len(s) + n
    BY <1>2
  <1>4. ASSUME NEW i \in 1..Len(more)
        PROVE  more[i] = first + i - 1
    <2>1. CASE i <= Len(s)
      BY <1>2, <2>1
    <2>2. CASE i > Len(s)
      <3>1. i - Len(s) \in 1..n
        BY <1>3, <2>2
      <3>2. more[i] = new[i - Len(s)]
        BY <1>2, <2>2, <3>1, JoinAt
      <3> QED BY <3>1, <3>2
    <2> QED BY <2>1, <2>2
  <1> QED BY <1>3, <1>4

LEMMA NextFileInv == FileInv /\ [FileNext]_fileVars => FileInv'
PROOF
  <1> SUFFICES ASSUME FileInv, [FileNext]_fileVars PROVE FileInv'
    BY Zenon
  <1> USE FileAssumption DEF FileInv, FileTypeOK, CancelSafe, ZeroIsEnd
  <1>1. ASSUME NEW kind \in {"read", "write"}, NEW len \in 1..MaxLen,
               Transfer(kind, len)
        PROVE  FileInv'
    BY <1>1, SMTT(40) DEF Transfer, Idle, Pending
  <1>2. CASE TransferReturns
    <2> DEFINE fails == res = Failed \/ (res = 0 /\ interrupted)
               n == IF fails THEN 0 ELSE res
    <2>1. /\ n \in Nat /\ req.at = from + Len(log)
          /\ log' = log \o [i \in 1..n |-> from + Len(log) + i - 1]
          /\ offset' = offset + n /\ from' = from
          /\ req' = Idle /\ res' = Pending
          /\ UNCHANGED <<size, interrupted>>
      BY <1>2, Zenon DEF TransferReturns, TransferResult, Pending
    <2>2. /\ log' \in Seq(Nat) /\ Len(log') = Len(log) + n
          /\ \A i \in 1..Len(log') : log'[i] = from + i - 1
      BY <2>1, LogGrows, SMTT(40)
    <2>3. ~(~fails /\ n = 0 /\ req.kind = "read" /\ req.at < size)
      BY DEF Failed
    <2>4. ~eof'
      BY <1>2, <2>3, Zenon DEF TransferReturns, TransferResult
    <2> QED BY <2>1, <2>2, <2>4, SMTT(40) DEF Idle, Pending
  <1>3. ASSUME NEW pos \in 0..MaxSize, SeekNow(pos)
        PROVE  FileInv'
    BY <1>3 DEF SeekNow, SeekTo, Idle
  <1>4. ASSUME NEW rel \in {-1, 0}, SeekEnd(rel)
        PROVE  FileInv'
    BY <1>4 DEF SeekEnd, Idle
  <1>5. CASE SeekEndReturns
    <2>1. CASE res = Failed \/ res + req.at < 0
      BY <1>5, <2>1, SMTT(40) DEF SeekEndReturns, Idle, Pending
    <2>2. CASE ~(res = Failed \/ res + req.at < 0)
      <3>1. /\ SeekTo(res + req.at) /\ res + req.at \in Nat
            /\ req' = Idle /\ res' = Pending /\ UNCHANGED <<size, interrupted, eof>>
        BY <1>5, <2>2 DEF SeekEndReturns, Failed, Pending
      <3> QED BY <3>1 DEF SeekTo, Idle
    <2> QED BY <2>1, <2>2, Zenon
  <1>6. CASE OpReads
    <2>1. CASE req.at < size
      <3>1. PICK n \in 1..req.len : req.at + n <= size /\ Finishes(n)
        BY <1>6, <2>1, Zenon DEF OpReads
      <3> QED BY <1>6, <3>1, SMTT(40) DEF OpReads, Finishes, Idle
    <2>2. CASE ~(req.at < size)
      BY <1>6, <2>2 DEF OpReads, Finishes, Idle
    <2> QED BY <2>1, <2>2, Zenon
  <1>7. CASE OpWrites
    BY <1>7, SMTT(40) DEF OpWrites, Finishes, Idle
  <1>8. CASE OpQueries
    BY <1>8, SMTT(40) DEF OpQueries, Finishes, Idle
  <1>9. CASE OpFails
    <2>1. UNCHANGED <<offset, size, interrupted, req, from, log, eof>>
      BY <1>9, Zenon DEF OpFails, Finishes
    <2>2. req.kind # "none"
      BY <1>9, Zenon DEF OpFails, Finishes
    <2>3. CASE res' = Failed
      BY <2>1, <2>2, <2>3 DEF Failed
    <2>4. CASE res' = 0 /\ interrupted
      BY <2>1, <2>2, <2>4, Zenon
    <2> QED BY <1>9, <2>3, <2>4, Zenon DEF OpFails, Finishes
  <1>10. CASE Interrupt \/ TakeInterrupt
    <2>1. interrupted' \/ (req.kind = "none" /\ req' = req)
      BY <1>10 DEF Interrupt, TakeInterrupt, Idle
    <2>2. UNCHANGED <<offset, size, req, res, from, log, eof>>
      BY <1>10, Zenon DEF Interrupt, TakeInterrupt
    <2> QED BY <2>1, <2>2, Zenon
  <1>11. CASE UNCHANGED fileVars
    BY <1>11 DEF fileVars
  <1> QED
    BY <1>1, <1>2, <1>3, <1>4, <1>5, <1>6, <1>7, <1>8, <1>9, <1>10, <1>11, Zenon DEF FileNext

LEMMA FileInvHolds == FileSpec => []FileInv
PROOF
  BY InitFileInv, NextFileInv, PTL DEF FileSpec

(* File's read, write and seek are cancel safe: a caller that goes on after *)
(* errors and interrupts misses no byte and meets none twice.               *)
THEOREM CancelSafeHolds == FileSpec => []CancelSafe
PROOF
  <1>1. FileInv => CancelSafe
    BY DEF FileInv
  <1> QED BY <1>1, FileInvHolds, PTL

(* File::read returns zero at the end of the file only: an interrupt is     *)
(* told apart by check_interrupt_if_zero().                                 *)
THEOREM ZeroIsEndHolds == FileSpec => []ZeroIsEnd
PROOF
  <1>1. FileInv => ZeroIsEnd
    BY DEF FileInv
  <1> QED BY <1>1, FileInvHolds, PTL

-----------------------------------------------------------------------------
(***************************************************************************)
(* ReadDir's next() returns every entry once and in order (EveryEntryOnce), *)
(* for directories and blocks of any size.  The invariant says where the    *)
(* listing is: the cached entries and the kernel's are the last ones of the *)
(* directory, in order, and a block is read only when none is cached.       *)
(***************************************************************************)

(* The entries that next() has not got to. *)
Left == Len(cached) + Len(unread)

InOrder == \A i, j \in DOMAIN returned : i < j => returned[i] < returned[j]

Listing ==
  /\ cached \in Seq(Nat) /\ unread \in Seq(Nat) /\ returned \in Seq(Nat)
  /\ Left <= Entries
  /\ \A i \in 1..Len(cached) : cached[i] = Entries - Left + i
  /\ \A i \in 1..Len(unread) : unread[i] = Entries - Len(unread) + i
  /\ InOrder
  /\ Elems(returned) = (1..(Entries - Left)) \ Dots
  /\ is_eof => Left = 0

DirInv ==
  /\ Listing
  /\ work \in {"queued", "running", "intr"} => cached = <<>> /\ stage = "suspended"

LEMMA ElemsOfRun ==
  ASSUME NEW s \in Seq(Nat), NEW a \in Nat, \A i \in 1..Len(s) : s[i] = a + i
  PROVE  Elems(s) = (a + 1)..(a + Len(s))
PROOF
  <1>1. ASSUME NEW e \in (a + 1)..(a + Len(s)) PROVE e \in Elems(s)
    <2>1. e - a \in 1..Len(s) /\ a + (e - a) = e
      OBVIOUS
    <2>2. DOMAIN s = 1..Len(s)
      OBVIOUS
    <2> QED BY <2>1, <2>2, Zenon DEF Elems
  <1>2. ASSUME NEW i \in DOMAIN s PROVE s[i] \in (a + 1)..(a + Len(s))
    <2>1. i \in 1..Len(s)
      OBVIOUS
    <2> QED BY <2>1
  <1> QED BY <1>1, <1>2 DEF Elems

LEMMA ListingIsEveryEntryOnce ==
  ASSUME Entries \in Nat, Listing
  PROVE  EveryEntryOnce
PROOF
  <1>1. /\ Len(cached) \in Nat /\ Len(unread) \in Nat /\ Left \in Nat /\ Left <= Entries
        /\ Left = Len(cached) + Len(unread)
    BY DEF Listing, Left
  <1> DEFINE a == Entries - Left
             b == Entries - Len(unread)
  <1>0. /\ a \in Nat /\ \A i \in 1..Len(cached) : cached[i] = a + i
        /\ b \in Nat /\ \A i \in 1..Len(unread) : unread[i] = b + i
        /\ cached \in Seq(Nat) /\ unread \in Seq(Nat)
    BY <1>1 DEF Listing
  <1> HIDE DEF a, b
  <1>2. Elems(cached) = (a + 1)..(a + Len(cached))
    BY <1>0, ElemsOfRun
  <1>3. Elems(unread) = (b + 1)..(b + Len(unread))
    BY <1>0, ElemsOfRun
  <1>4. Elems(returned) = (1..(Entries - Left)) \ Dots
    BY DEF Listing
  <1>5. ASSUME NEW e
        PROVE  e \in 1..(Entries - Left) <=>
                 e \in (1..Entries) \ (Elems(cached) \cup Elems(unread))
    BY <1>1, <1>2, <1>3 DEF a, b
  <1>6. Elems(returned) =
          (1..Entries) \ (Dots \cup Elems(cached) \cup Elems(unread))
    BY <1>4, <1>5
  <1>7. is_eof => Elems(returned) = (1..Entries) \ Dots
    <2> SUFFICES ASSUME is_eof PROVE Entries - Left = Entries
      BY <1>4
    <2> QED BY DEF Listing
  <1> QED BY <1>6, <1>7 DEF Listing, InOrder, EveryEntryOnce

LEMMA InitDir == Entries \in Nat /\ DirInit => DirInv
PROOF
  <1> SUFFICES ASSUME Entries \in Nat, DirInit PROVE DirInv
    OBVIOUS
  <1>1. /\ unread \in Seq(Nat) /\ Len(unread) = Entries
        /\ \A i \in 1..Entries : unread[i] = i
    BY DEF DirInit, All
  <1>2. /\ cached = <<>> /\ returned = <<>> /\ work = "none"
        /\ Len(cached) = 0 /\ cached \in Seq(Nat) /\ returned \in Seq(Nat)
    BY DEF DirInit
  <1>3. ~is_eof
    BY DEF DirInit
  <1>4. Left = Entries
    BY <1>1, <1>2 DEF Left
  <1>5. Elems(returned) = {}
    BY <1>2 DEF Elems
  <1>6. 1..(Entries - Left) = {}
    BY <1>4
  <1>7. InOrder
    BY <1>2 DEF InOrder
  <1>8. /\ Left <= Entries
        /\ \A i \in 1..Len(cached) : cached[i] = Entries - Left + i
        /\ \A i \in 1..Len(unread) : unread[i] = Entries - Len(unread) + i
    BY <1>1, <1>2, <1>4
  <1>9. Listing
    BY <1>1, <1>2, <1>3, <1>5, <1>6, <1>7, <1>8, Zenon DEF Listing
  <1> QED BY <1>2, <1>9 DEF DirInv

(* next() takes the first cached entry: it is the next one of the directory. *)
LEMMA HeadTaken ==
  ASSUME Entries \in Nat, Listing, cached # <<>>, cached' = Tail(cached), UNCHANGED unread
  PROVE  /\ Head(cached) = Entries - Left + 1 /\ Head(cached) \in Nat
         /\ Left \in Nat /\ Left > 0 /\ Left <= Entries
         /\ cached' \in Seq(Nat) /\ Left' = Left - 1
         /\ \A i \in 1..Len(cached') : cached'[i] = Entries - Left' + i
PROOF
  <1>1. /\ cached \in Seq(Nat) /\ Len(unread) \in Nat /\ Len(cached) \in Nat
        /\ Left = Len(cached) + Len(unread) /\ Left <= Entries
        /\ \A i \in 1..Len(cached) : cached[i] = Entries - Left + i
    BY DEF Listing, Left
  <1>2. Len(cached) > 0 /\ Head(cached) = cached[1]
    BY <1>1
  <1>3. /\ cached' \in Seq(Nat) /\ Len(cached') = Len(cached) - 1
        /\ \A i \in 1..Len(cached') : cached'[i] = cached[i + 1]
    BY <1>1, <1>2
  <1>4. Left' = Left - 1
    BY <1>1, <1>3 DEF Left
  <1>5. Head(cached) = Entries - Left + 1
    BY <1>1, <1>2
  <1>6. ASSUME NEW i \in 1..Len(cached')
        PROVE  cached'[i] = Entries - Left' + i
    <2>1. i + 1 \in 1..Len(cached) /\ cached'[i] = cached[i + 1]
      BY <1>1, <1>3
    <2>2. cached[i + 1] = Entries - Left + (i + 1)
      BY <1>1, <2>1, Zenon
    <2> QED BY <1>1, <1>4, <2>1, <2>2
  <1> QED BY <1>1, <1>2, <1>3, <1>4, <1>5, <1>6

LEMMA OneMore ==
  ASSUME NEW e \in Nat, NEW l \in Nat, l > 0, l <= e
  PROVE  (1..(e - (l - 1))) = (1..(e - l)) \cup {e - l + 1} /\ l - 1 <= e
  OBVIOUS

LEMMA NextEntryDir ==
  ASSUME Entries \in Nat, DirInv, NextEntry
  PROVE  DirInv'
PROOF
  <1> DEFINE h == Head(cached)
  <1>1. /\ stage = "next" /\ ~is_eof /\ cached # <<>> /\ h \notin Dots
        /\ returned' = Append(returned, h) /\ cached' = Tail(cached)
        /\ UNCHANGED <<unread, is_eof, work>>
    BY DEF NextEntry
  <1>2. /\ h = Entries - Left + 1 /\ h \in Nat
        /\ Left \in Nat /\ Left > 0 /\ Left <= Entries
        /\ cached' \in Seq(Nat) /\ Left' = Left - 1
        /\ \A i \in 1..Len(cached') : cached'[i] = Entries - Left' + i
    BY <1>1, HeadTaken DEF DirInv
  <1> HIDE DEF h
  <1>3. /\ returned \in Seq(Nat) /\ InOrder
        /\ Elems(returned) = (1..(Entries - Left)) \ Dots
    BY DEF DirInv, Listing
  <1> DEFINE n == Len(returned)
  <1>4. /\ returned' \in Seq(Nat) /\ n \in Nat /\ DOMAIN returned = 1..n
        /\ DOMAIN returned' = 1..(n + 1) /\ returned'[n + 1] = h
        /\ \A i \in 1..n : returned'[i] = returned[i]
    BY <1>1, <1>2, <1>3
  <1>5. \A i \in 1..n : returned[i] \in 1..(Entries - Left)
    BY <1>3, <1>4, Zenon DEF Elems
  <1> HIDE DEF n
  <1>6. InOrder'
    <2> SUFFICES ASSUME NEW i \in 1..(n + 1), NEW j \in 1..(n + 1), i < j
                 PROVE  returned'[i] < returned'[j]
      BY <1>4, Zenon DEF InOrder
    <2>1. i \in 1..n
      BY <1>4
    <2>2. CASE j = n + 1
      BY <1>2, <1>4, <1>5, <2>1, <2>2
    <2>3. CASE j \in 1..n
      BY <1>3, <1>4, <2>1, <2>3, Zenon DEF InOrder
    <2> QED BY <1>4, <2>2, <2>3
  <1>7. Elems(returned') = Elems(returned) \cup {h}
    <2>1. 1..(n + 1) = (1..n) \cup {n + 1}
      BY <1>4
    <2> QED BY <1>4, <2>1 DEF Elems
  <1>8. (1..(Entries - Left')) = (1..(Entries - Left)) \cup {h}
    BY <1>2, OneMore, Zenon
  <1>9. Elems(returned)' = (1..(Entries - Left')) \ Dots
    BY <1>1, <1>3, <1>7, <1>8, Zenon DEF Elems
  <1>10. Left' <= Entries
    BY <1>2
  <1>11. Listing'
    BY <1>1, <1>2, <1>4, <1>6, <1>9, <1>10 DEF DirInv, Listing
  <1> QED BY <1>1, <1>11 DEF DirInv

LEMMA SkipDotDir ==
  ASSUME Entries \in Nat, DirInv, SkipDot
  PROVE  DirInv'
PROOF
  <1> DEFINE h == Head(cached)
  <1>1. /\ stage = "next" /\ ~is_eof /\ cached # <<>> /\ h \in Dots /\ cached' = Tail(cached)
        /\ UNCHANGED <<unread, is_eof, work, returned>>
    BY Zenon DEF SkipDot
  <1>2. /\ h = Entries - Left + 1
        /\ Left \in Nat /\ Left > 0 /\ Left <= Entries
        /\ cached' \in Seq(Nat) /\ Left' = Left - 1
        /\ \A i \in 1..Len(cached') : cached'[i] = Entries - Left' + i
    BY <1>1, HeadTaken, Zenon DEF DirInv
  <1> HIDE DEF h
  <1>3. (1..(Entries - Left')) = (1..(Entries - Left)) \cup {h} /\ Left' <= Entries
    BY <1>2, OneMore, Zenon
  <1>4. Elems(returned)' = (1..(Entries - Left')) \ Dots
    BY <1>1, <1>3, ZenonT(40) DEF DirInv, Listing, Elems
  <1>5. Listing'
    BY <1>1, <1>2, <1>3, <1>4 DEF DirInv, Listing, InOrder
  <1> QED BY <1>1, <1>5, Zenon DEF DirInv

LEMMA SameListing ==
  ASSUME Listing, UNCHANGED <<cached, unread, returned>>, is_eof' => Left = 0
  PROVE  Listing'
PROOF
  <1>1. Left' = Left /\ (InOrder <=> InOrder') /\ Elems(returned)' = Elems(returned)
    BY Zenon DEF Left, InOrder, Elems
  <1> QED BY <1>1, ZenonT(40) DEF Listing

(* A sequence is cut in two. *)
LEMMA Cut ==
  ASSUME NEW s \in Seq(Nat), NEW n \in 1..Len(s)
  PROVE  /\ SubSeq(s, 1, n) \in Seq(Nat) /\ Len(SubSeq(s, 1, n)) = n
         /\ \A i \in 1..n : SubSeq(s, 1, n)[i] = s[i]
         /\ SubSeq(s, n + 1, Len(s)) \in Seq(Nat)
         /\ Len(SubSeq(s, n + 1, Len(s))) = Len(s) - n
         /\ \A i \in 1..(Len(s) - n) : SubSeq(s, n + 1, Len(s))[i] = s[n + i]
PROOF
  <1>1. /\ SubSeq(s, 1, n) \in Seq(Nat) /\ Len(SubSeq(s, 1, n)) = n
        /\ \A i \in 1..n : SubSeq(s, 1, n)[i] = s[i]
    OBVIOUS
  <1>2. /\ SubSeq(s, n + 1, Len(s)) \in Seq(Nat)
        /\ Len(SubSeq(s, n + 1, Len(s))) = Len(s) - n
    OBVIOUS
  <1>3. \A i \in 1..(Len(s) - n) : SubSeq(s, n + 1, Len(s))[i] = s[n + i]
    OBVIOUS
  <1> QED BY <1>1, <1>2, <1>3, Zenon

(* The places of its second part. *)
LEMMA InRest ==
  ASSUME NEW e \in Nat, NEW l \in Nat, NEW n \in 1..l, NEW i \in 1..(l - n)
  PROVE  n + i \in 1..l /\ e - l + (n + i) = e - (l - n) + i
  OBVIOUS

LEMMA ReadDirInv ==
  ASSUME Entries \in Nat, Block \in Nat, DirInv, ReadFromFd
  PROVE  DirInv'
PROOF
  <1>1. /\ cached = <<>> /\ work' = "ran" /\ UNCHANGED returned
        /\ unread \in Seq(Nat) /\ Len(unread) \in Nat /\ Len(cached) = 0
        /\ Left = Len(unread) /\ Left <= Entries
        /\ \A i \in 1..Len(unread) : unread[i] = Entries - Len(unread) + i
        /\ Elems(returned) = (1..(Entries - Left)) \ Dots /\ InOrder
        /\ returned \in Seq(Nat)
    BY DEF ReadFromFd, DirInv, Listing, Left
  <1>2. CASE unread = <<>>
    <2>1. UNCHANGED <<cached, unread>> /\ is_eof' = TRUE
      BY <1>2, Zenon DEF ReadFromFd
    <2>2. Left' = Left /\ Left = 0
      BY <1>1, <1>2, <2>1, Zenon DEF Left
    <2>3. Listing'
      BY <1>1, <2>1, <2>2, SameListing, Zenon DEF DirInv
    <2> QED BY <1>1, <2>3, Zenon DEF DirInv
  <1>3. CASE unread # <<>>
    <2>1. PICK n \in 1..Block :
            /\ n <= Len(unread)
            /\ cached' = SubSeq(unread, 1, n)
            /\ unread' = SubSeq(unread, n + 1, Len(unread))
      BY <1>3, Zenon DEF ReadFromFd
    <2>2. n \in Nat /\ n \in 1..Len(unread)
      BY <1>1, <2>1
    <2>3. /\ cached' \in Seq(Nat) /\ Len(cached') = n
          /\ \A i \in 1..n : cached'[i] = unread[i]
          /\ unread' \in Seq(Nat) /\ Len(unread') = Len(unread) - n
          /\ \A i \in 1..Len(unread') : unread'[i] = unread[n + i]
      <3>1. /\ cached' \in Seq(Nat) /\ Len(cached') = n
            /\ \A i \in 1..n : cached'[i] = unread[i]
        BY <1>1, <2>1, <2>2, Cut, Zenon
      <3>2. /\ unread' \in Seq(Nat) /\ Len(unread') = Len(unread) - n
            /\ \A i \in 1..(Len(unread) - n) : unread'[i] = unread[n + i]
        BY <1>1, <2>1, <2>2, Cut, Zenon
      <3> QED BY <3>1, <3>2, Zenon
    <2>4. Left' = Left
      <3>1. Left' = n + (Len(unread) - n)
        BY <2>3, Zenon DEF Left
      <3>2. n + (Len(unread) - n) = Len(unread)
        BY <1>1, <2>2
      <3> QED BY <1>1, <3>1, <3>2, Zenon
    <2>5. \A i \in 1..Len(cached') : cached'[i] = Entries - Left' + i
      <3>1. 1..n \subseteq 1..Len(unread)
        BY <1>1, <2>2
      <3> QED BY <1>1, <2>3, <2>4, <3>1, Zenon
    <2>6. ASSUME NEW i \in 1..Len(unread')
          PROVE  unread'[i] = Entries - Len(unread') + i
      <3>1. /\ n + i \in 1..Len(unread)
            /\ Entries - Len(unread) + (n + i) = Entries - Len(unread') + i
        <4>1. i \in 1..(Len(unread) - n) /\ Len(unread') = Len(unread) - n
          BY <2>3, Zenon
        <4>2. /\ n + i \in 1..Len(unread)
              /\ Entries - Len(unread) + (n + i) = Entries - (Len(unread) - n) + i
          <5>1. Len(unread) \in Nat
            BY <1>1, Zenon
          <5> QED BY <2>2, <4>1, <5>1, InRest
        <4> QED BY <4>1, <4>2, Zenon
      <3> QED BY <1>1, <2>3, <3>1, Zenon
    <2>7. is_eof' => Left' = 0
      BY <1>3, <2>4, Zenon DEF DirInv, Listing, ReadFromFd
    <2>8. Listing'
      <3>1. InOrder' /\ Elems(returned)' = Elems(returned) /\ returned' = returned
        BY <1>1, Zenon DEF InOrder, Elems
      <3> QED BY <1>1, <2>3, <2>4, <2>5, <2>6, <2>7, <3>1, ZenonT(40) DEF Listing
    <2> QED BY <1>1, <2>8, Zenon DEF DirInv
  <1> QED BY <1>2, <1>3, Zenon

LEMMA NextDir ==
  Entries \in Nat /\ Block \in Nat /\ DirInv /\ [DirNext]_readDirVars => DirInv'
PROOF
  <1> SUFFICES ASSUME Entries \in Nat, Block \in Nat, DirInv, [DirNext]_readDirVars
               PROVE  DirInv'
    BY Zenon
  <1>1. CASE UNCHANGED <<cached, unread, returned, is_eof>>
    <2>0. Listing /\ (is_eof' => Left = 0)
      BY <1>1, Zenon DEF DirInv, Listing
    <2>1. Listing'
      BY <1>1, <2>0, SameListing, Zenon
    <2>2. CASE Call \/ NextNone \/ RunBlocking \/ RunBlockingReturns
      BY <1>1, <2>1, <2>2, Zenon
      DEF Call, NextNone, RunBlocking, RunBlockingReturns, DirInv
    <2>3. CASE \/ StartWork \/ ReadInterrupted \/ Retry \/ ReadFails
               \/ InterruptListing \/ TakeListingInterrupt \/ UNCHANGED readDirVars
      BY <1>1, <2>1, <2>3, Zenon
      DEF StartWork, ReadInterrupted, Retry, ReadFails, InterruptListing,
          TakeListingInterrupt, readDirVars, DirInv
    <2> QED BY <2>2, <2>3, NextEntryDir, SkipDotDir, ReadDirInv, Zenon DEF DirNext
  <1>2. CASE \/ Call \/ NextNone \/ RunBlocking \/ RunBlockingReturns
             \/ StartWork \/ ReadInterrupted \/ Retry \/ ReadFails
             \/ InterruptListing \/ TakeListingInterrupt \/ UNCHANGED readDirVars
    <2>1. UNCHANGED <<cached, unread, returned, is_eof>>
      BY <1>2, Zenon DEF Call, NextNone, RunBlocking, RunBlockingReturns,
          StartWork, ReadInterrupted, Retry, ReadFails, InterruptListing,
          TakeListingInterrupt, readDirVars, dirVars
    <2> QED BY <1>1, <2>1, Zenon
  <1> QED BY <1>2, NextEntryDir, SkipDotDir, ReadDirInv DEF DirNext

(* A listing returns every entry of the directory but "." and ".." once and *)
(* in order, and None after the last one only, whatever the sizes of the    *)
(* directory and of the blocks, and wherever the task is interrupted: the   *)
(* pool's thread fills an empty cache, and what it has read stays there     *)
(* when next() returns an interrupt.                                        *)
THEOREM EveryEntryOnceHolds == DirSpec => []EveryEntryOnce
PROOF
  <1>1. DirInit => DirInv
    BY ReadDirAssumption, InitDir
  <1>2. DirInv /\ [DirNext]_readDirVars => DirInv'
    BY ReadDirAssumption, NextDir
  <1>3. DirInv => EveryEntryOnce
    BY ReadDirAssumption, ListingIsEveryEntryOnce DEF DirInv
  <1> QED BY <1>1, <1>2, <1>3, PTL DEF DirSpec
=============================================================================
