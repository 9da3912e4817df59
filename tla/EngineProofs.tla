---------------------------- MODULE EngineProofs ----------------------------
(***************************************************************************)
(* Proofs about module Engine, the composition of IoUring and Wake, for     *)
(* rings of any size and any number of requests, tasks and threads.         *)
(*                                                                         *)
(* The invariants of IoUringProofs and of WakeProofs need each other:       *)
(* poll_wake() may use event_request because the wake protocol has no other *)
(* poll of it, and there is no other because the rings complete each poll   *)
(* once.  They are proved by one induction.                                 *)
(***************************************************************************)
EXTENDS Engine, IoUringProofs, FiniteSetTheorems

-----------------------------------------------------------------------------
(* The facts about finite sets that the proofs about the rings start from.  *)

LEMMA CountingHolds == Counting
PROOF
  <1>1. \A S : IsFiniteSet(S) =>
          /\ Cardinality(S) \in Nat /\ (Cardinality(S) = 0 <=> S = {})
          /\ ExistsBijection(1..Cardinality(S), S)
    BY FS_CardinalityType, FS_EmptySet, ZenonT(40)
  <1>2. \A S, T : IsFiniteSet(S) /\ T \subseteq S => IsFiniteSet(T)
    BY FS_Subset, Zenon
  <1>3. \A S, T : IsFiniteSet(S) /\ ExistsBijection(S, T) =>
          IsFiniteSet(T) /\ Cardinality(T) = Cardinality(S)
    BY FS_Bijection, Zenon
  <1>4. \A S, T : IsFiniteSet(S) /\ IsFiniteSet(T) /\ S \cap T = {} =>
          /\ IsFiniteSet(S \cup T)
          /\ Cardinality(S \cup T) = Cardinality(S) + Cardinality(T)
    <2> SUFFICES ASSUME NEW S, NEW T, IsFiniteSet(S), IsFiniteSet(T), S \cap T = {}
                 PROVE  /\ IsFiniteSet(S \cup T)
                        /\ Cardinality(S \cup T) = Cardinality(S) + Cardinality(T)
      OBVIOUS
    <2>1. /\ IsFiniteSet(S \cup T)
          /\ Cardinality(S \cup T) =
               Cardinality(S) + Cardinality(T) - Cardinality(S \cap T)
      BY FS_Union, ZenonT(40)
    <2>2. Cardinality(S \cap T) = 0
      BY FS_EmptySet, ZenonT(40)
    <2>3. Cardinality(S) \in Nat /\ Cardinality(T) \in Nat
      BY FS_CardinalityType, ZenonT(40)
    <2> QED BY <2>1, <2>2, <2>3
  <1>5. \A S, x : IsFiniteSet(S) /\ x \notin S =>
          IsFiniteSet(S \cup {x}) /\ Cardinality(S \cup {x}) = Cardinality(S) + 1
    BY FS_AddElement, ZenonT(40)
  <1>6. \A a, b \in Int :
          IsFiniteSet(a..b) /\ Cardinality(a..b) = IF a > b THEN 0 ELSE b - a + 1
    BY FS_Interval, Zenon
  <1>7. IsFiniteSet({}) /\ Cardinality({}) = 0
    BY FS_EmptySet, ZenonT(40)
  <1> QED BY <1>1, <1>2, <1>3, <1>4, <1>5, <1>6, <1>7, Zenon DEF Counting

-----------------------------------------------------------------------------
(* The theorems about the rings.                                            *)

LEMMA IInvHolds == Spec => []IInv
PROOF
  BY CountingHolds, InitInv, NextInv, PTL DEF Spec

(* Every request that a task waits for is in exactly one place, and one     *)
(* that no task waits for is nowhere: start_async(), io_uring_enter(), the  *)
(* kernel's lists and run_events(), which completes the last entry first    *)
(* and releases slots while callbacks run, lose and duplicate nothing, for  *)
(* rings of any size and however often their indices wrap.                  *)
THEOREM OnePlaceHolds == Spec => []OnePlace
PROOF
  <1>1. IInv => OnePlace
    BY Zenon DEF IInv
  <1> QED BY <1>1, IInvHolds, PTL

(* to_submit and to_complete count the operations on their way at every     *)
(* step, for rings of any size and any number of requests: enter() counts   *)
(* before the kernel takes anything, run_events() subtracts all it has read *)
(* before it completes any, and the subtraction never goes below zero.      *)
THEOREM CountersExactHolds == Spec => []CountersExact
PROOF
  <1>1. IInv => CountersExact
    BY Zenon DEF IInv, Counted
  <1> QED BY <1>1, IInvHolds, PTL

(* A cancel operation only hits the operation it was queued for: cancel()   *)
(* and start_async() put it behind its target in the ring, and a request is *)
(* completed, so that its address can be used again, only when it is        *)
(* neither in the ring nor in flight.                                       *)
THEOREM CancelHitsItsTargetHolds == Spec => []CancelHitsItsTarget
PROOF
  <1>1. IInv => CancelHitsItsTarget
    BY DEF IInv, CancelInv, Doomed, CancelHitsItsTarget
  <1> QED BY <1>1, IInvHolds, PTL

(* When Driver::exit returns, which it does as soon as has_work() is false, *)
(* no operation is in a ring or in the kernel, those that callbacks of the  *)
(* last round started and NO_OPs included: what it looks at is two          *)
(* counters, and they are exact.                                            *)
THEOREM ExitLeavesNothingHolds == Spec => ExitLeavesNothing
PROOF
  <1>1. ASSUME IInv, [Next]_vars
        PROVE  [exiting /\ ~exiting' =>
                  \A u \in UserData : InSq(u) + InKernel(u) + InCq(Unread, u) = 0]_vars
    <2> SUFFICES ASSUME exiting, ~exiting', NEW u \in UserData
                 PROVE  InSq(u) + InKernel(u) + InCq(Unread, u) = 0
      OBVIOUS
    <2>1. pc = "tasks" /\ ~HasWork
      BY <1>1, OnlyExitReturns, Zenon DEF ExitReturns
    <2> QED BY <1>1, <2>1, NoWork, ZenonT(40) DEF IInv
  <1> QED BY <1>1, IInvHolds, PTL DEF Spec, ExitLeavesNothing

(* The rings and the kernel's lists implement the contract that the driver  *)
(* and the tasks rely on: every operation is started, finishes in the       *)
(* kernel and is completed, in that order and once, whichever entry of      *)
(* run_events() comes first, and a cancel completes nothing by itself.      *)
THEOREM ImplementsEngineHolds == Spec => ImplementsEngine
PROOF
  <1>1. IInv => RingInv /\ OnePlace
    BY DEF IInv
  <1>2. Init => Contract!Init
    BY CountingHolds, InitEngine, ZenonT(40)
  <1>3. RingInv /\ OnePlace /\ (RingInv /\ OnePlace)' /\ [Next]_vars
          => [Contract!Next]_([r \in Reqs |-> Op(r)])
    BY NextMoves, MovesEngine, ZenonT(40) DEF Ops
  <1> QED BY <1>1, <1>2, <1>3, IInvHolds, PTL DEF Spec, ImplementsEngine, Contract!Spec

-----------------------------------------------------------------------------
(* The polls of the event fd in the rings.                                  *)

LEMMA EventIn == Event \in Reqs /\ Event \in UserData /\ Event # NoOp
PROOF
  BY EngineAssumption, IoUringAssumption, Zenon DEF UserData

LEMMA Polls ==
  ASSUME RingInv
  PROVE  /\ Armed = Active(Event) /\ Armed \in Nat
         /\ Fired = Place(Event) - Active(Event) /\ Fired \in Nat
         /\ InCq(Unread, Event) >= 1 => Fired > 0
         /\ Place(Event) \in Nat
PROOF
  <1>1. /\ InSq(Event) \in Nat /\ Kept(Event) \in Nat /\ InCq(Unread, Event) \in Nat
        /\ InKernel(Event) = inflight[Event] + taskwork[Event] + Kept(Event)
        /\ inflight[Event] \in Nat /\ taskwork[Event] \in Nat
    BY EventIn, CountTypes, ZenonT(40)
  <1> QED BY <1>1 DEF Armed, Fired, Active, Place

LEMMA PollsNext ==
  RingInv' => Armed' = Active(Event)' /\ Fired' = Place(Event)' - Active(Event)'
PROOF
  <1>1. RingInv => Armed = Active(Event) /\ Fired = Place(Event) - Active(Event)
    BY Polls, ZenonT(40)
  <1>2. RingInv' => (Armed = Active(Event) /\ Fired = Place(Event) - Active(Event))'
    BY <1>1, PTL
  <1> QED BY <1>2, ZenonT(40)

(* A step that leaves the poll where it is. *)
LEMMA SamePolls ==
  ASSUME RingInv, RingInv', Place(Event)' = Place(Event), Active(Event)' = Active(Event)
  PROVE  UNCHANGED <<Armed, Fired>>
PROOF
  BY Polls, PollsNext, Zenon

LEMMA QuietPolls ==
  ASSUME RingInv, RingInv', Quiet
  PROVE  UNCHANGED <<Armed, Fired, running>>
PROOF
  <1>1. Place(Event)' = Place(Event) /\ InSq(Event)' = InSq(Event)
    BY SamePlaces, Zenon DEF Quiet
  <1>2. Active(Event)' = Active(Event)
    BY <1>1, Zenon DEF Active, Quiet
  <1> QED BY <1>1, <1>2, SamePolls, Zenon DEF Quiet

(* An operation is started: the poll, or another one. *)
LEMMA StartsPolls ==
  ASSUME RingInv, NEW r \in Reqs, Starts(r)
  PROVE  /\ Armed' = Armed + One(r = Event)
         /\ UNCHANGED <<Fired, running>>
PROOF
  <1>1. /\ Push(IoSqe(r)) /\ ~Submitting
        /\ UNCHANGED <<sq_khead, cqes, cq_ktail, overflow, cq_khead, inflight, taskwork, ev,
                       running>>
    BY Zenon DEF Starts, StartAsync, TasksRun, Submitting, cqVars, kernelVars
  <1>2. IoSqe(r) \in Sqe /\ IoSqe(r).data = r
    BY DEF IoSqe, Sqe, UserData
  <1>3. Place(Event)' = Place(Event) + One(Event = r)
    BY <1>1, <1>2, EventIn, PushPlaces, Zenon
  <1>4. InSq(Event)' = InSq(Event) + One(Event = r)
    BY <1>1, <1>2, PushCount
  <1>5. InSq(Event) \in Nat /\ inflight[Event] \in Nat /\ One(Event = r) \in Nat
    BY EventIn, CountTypes, Zenon DEF One
  <1>6. Active(Event)' = Active(Event) + One(Event = r) /\ Active(Event) \in Nat
    <2>1. Active(Event)' = InSq(Event)' + inflight[Event]
      BY <1>1, Zenon DEF Active
    <2> QED BY <1>4, <1>5, <2>1 DEF Active
  <1>7. RingInv'
    BY NextRing, Zenon
  <1>8. One(r = Event) = One(Event = r)
    BY Zenon DEF One
  <1>9. /\ Armed = Active(Event) /\ Fired = Place(Event) - Active(Event)
        /\ Place(Event) \in Nat
    BY Polls, Zenon
  <1>10. Armed' = Active(Event)' /\ Fired' = Place(Event)' - Active(Event)'
    BY <1>7, PollsNext, Zenon
  <1> QED BY <1>1, <1>3, <1>5, <1>6, <1>8, <1>9, <1>10

(* The kernel completes the poll, or moves it without completing it. *)
LEMMA FinishPolls ==
  ASSUME RingInv, NEW v \in UserData, Finish(v)
  PROVE  /\ Armed' = Armed - One(v = Event)
         /\ Fired' = Fired + One(v = Event)
         /\ v = Event => Armed > 0
PROOF
  <1>1. /\ Place(Event)' = Place(Event) /\ InSq(Event)' = InSq(Event)
        /\ inflight'[Event] = inflight[Event] - One(Event = v)
    BY EventIn, FinishCount, Zenon
  <1>2. /\ InSq(Event) \in Nat /\ inflight[Event] \in Nat /\ One(Event = v) \in Nat
        /\ One(v = Event) = One(Event = v)
    BY EventIn, CountTypes, Zenon DEF One
  <1>3. Active(Event)' = Active(Event) - One(Event = v) /\ Active(Event) \in Nat
    <2>1. Active(Event)' = InSq(Event)' + inflight'[Event]
      BY DEF Active
    <2> QED BY <1>1, <1>2, <2>1 DEF Active
  <1>4. v = Event => Active(Event) > 0
    BY <1>2 DEF Finish, Active
  <1>5. RingInv'
    BY NextRing, Zenon DEF Next
  <1>6. /\ Armed = Active(Event) /\ Fired = Place(Event) - Active(Event)
        /\ Place(Event) \in Nat
    BY Polls, Zenon
  <1>7. Armed' = Active(Event)' /\ Fired' = Place(Event)' - Active(Event)'
    BY <1>5, PollsNext, Zenon
  <1> QED BY <1>1, <1>2, <1>3, <1>4, <1>6, <1>7

LEMMA KernelPolls ==
  ASSUME RingInv, RingInv',
         SubmitRest \/ SubmitSome \/ FlushOverflow \/ \E u \in UserData : RunTaskWork(u)
  PROVE  UNCHANGED <<Armed, Fired>>
PROOF
  <1>1. /\ Place(Event)' = Place(Event)
        /\ InSq(Event)' + inflight'[Event] = InSq(Event) + inflight[Event]
    BY EventIn, SubmitCount, FlushOverflowCount, RunTaskWorkCount, Zenon
  <1>2. Active(Event)' = Active(Event)
    BY <1>1, Zenon DEF Active
  <1> QED BY <1>1, <1>2, SamePolls, Zenon

(* run_events() completes an entry: event_request's, or another one. *)
LEMMA CompletePolls ==
  ASSUME RingInv, OnePlace, RingInv', NEW v \in UserData, Complete(v),
         InCq(Unread, v) >= 1, UNCHANGED inflight,
         \A u \in UserData : Place(u)' = Place(u) - One(u = v) /\ InSq(u)' = InSq(u)
  PROVE  /\ UNCHANGED Armed /\ Fired' = Fired - One(v = Event)
         /\ v = Event => Fired > 0 /\ running'
         /\ v = Event <=> Event \in pending /\ Event \notin pending'
PROOF
  <1>1. Place(Event)' = Place(Event) - One(Event = v) /\ InSq(Event)' = InSq(Event)
    BY EventIn, ZenonT(40)
  <1>2. Active(Event)' = Active(Event)
    BY <1>1, ZenonT(40) DEF Active
  <1>3. /\ Armed = Active(Event) /\ Fired = Place(Event) - Active(Event)
        /\ Place(Event) \in Nat /\ Armed \in Nat /\ Fired \in Nat
        /\ v = Event => Fired > 0
    BY Polls, ZenonT(40)
  <1>4. Armed' = Active(Event)' /\ Fired' = Place(Event)' - Active(Event)'
    BY PollsNext, ZenonT(40)
  <1>5. One(v = Event) = One(Event = v) /\ One(Event = v) \in Nat
    BY Zenon DEF One
  <1>6. UNCHANGED Armed /\ Fired' = Fired - One(v = Event)
    BY <1>1, <1>2, <1>3, <1>4, <1>5
  <1>7. v \in Reqs => v \in pending
    BY CompletePlace, Zenon
  <1>8. v = Event => running'
    BY EventIn, Zenon DEF Complete, RingInv, Stack
  <1> QED BY <1>3, <1>6, <1>7, <1>8, EventIn, Zenon DEF Complete

(* What the event loop does to the poll. *)
LEMMA LoopPolls ==
  ASSUME RingInv, OnePlace, RingInv', NextEvent \/ Reads \/ Quiet
  PROVE  \/ /\ Event \in pending /\ Event \notin pending'
            /\ Fired > 0 /\ Fired' = Fired - 1 /\ UNCHANGED Armed
            /\ running'
         \/ /\ ~(Event \in pending /\ Event \notin pending')
            /\ UNCHANGED <<Armed, Fired>>
PROOF
  <1>1. Fired \in Nat
    BY Polls, Zenon
  <1>2. ASSUME NEW v \in UserData, Complete(v), InCq(Unread, v) >= 1, UNCHANGED inflight,
               \A u \in UserData : Place(u)' = Place(u) - One(u = v) /\ InSq(u)' = InSq(u)
        PROVE  \/ /\ Event \in pending /\ Event \notin pending'
                  /\ Fired > 0 /\ Fired' = Fired - 1 /\ UNCHANGED Armed
                  /\ running'
               \/ /\ ~(Event \in pending /\ Event \notin pending')
                  /\ UNCHANGED <<Armed, Fired>>
    <2>1. /\ UNCHANGED Armed /\ Fired' = Fired - One(v = Event)
          /\ v = Event => Fired > 0 /\ running'
          /\ v = Event <=> Event \in pending /\ Event \notin pending'
      BY <1>2, CompletePolls, Zenon
    <2> QED BY <1>1, <2>1 DEF One
  <1>3. ASSUME UNCHANGED <<pending, inflight>>,
               Place(Event)' = Place(Event), InSq(Event)' = InSq(Event)
        PROVE  /\ ~(Event \in pending /\ Event \notin pending')
               /\ UNCHANGED <<Armed, Fired>>
    <2>1. Active(Event)' = Active(Event)
      BY <1>3, Zenon DEF Active
    <2> QED BY <1>3, <2>1, SamePolls, Zenon
  <1>4. CASE NextEvent
    <2>1. UNCHANGED inflight
      BY <1>4, Zenon DEF NextEvent, kernelVars
    <2> QED BY <1>2, <1>3, <1>4, <2>1, NextEventCount, EventIn, Zenon
  <1>5. CASE Reads
    <2>1. CASE CqCount = 0
      <3>1. UNCHANGED <<pending, ev, running, inflight>>
        BY <1>5, <2>1, Zenon DEF Reads, RunEvents
      <3>2. Place(Event)' = Place(Event) /\ InSq(Event)' = InSq(Event)
        BY <1>5, <3>1, SamePlaces, Zenon DEF Reads
      <3> QED BY <1>3, <3>1, <3>2, Zenon
    <2>2. CASE CqCount # 0
      BY <1>2, <1>5, <2>2, RunEventsCount, Zenon DEF Reads
    <2> QED BY <2>1, <2>2, Zenon
  <1>6. CASE Quiet
    BY <1>6, QuietPolls, ZenonT(40) DEF Quiet
  <1> QED BY <1>4, <1>5, <1>6, Zenon

(* A request is polled for when it is nowhere in the rings. *)
LEMMA NoPoll ==
  ASSUME IInv, Armed + Fired = 0
  PROVE  Event \notin pending
PROOF
  <1>1. Place(Event) = One(Event \in pending)
    BY EventIn, PlaceIs, ZenonT(40) DEF IInv
  <1>2. Armed + Fired = Place(Event)
    BY Polls DEF IInv
  <1> QED BY <1>1, <1>2 DEF One

(* poll_wake() when there is no poll, and not calling it. *)
LEMMA PollWakeStarts ==
  ASSUME IInv, TasksRun, Event \notin pending, PollWake
  PROVE  IInv' /\ Moves /\ Armed' = Armed + 1 /\ UNCHANGED <<Fired, running>>
PROOF
  <1>1. Starts(Event)
    BY DEF PollWake, Starts
  <1>2. RingInv'
    BY <1>1, EventIn, NextRing, Zenon DEF IInv
  <1>3. Moves
    BY <1>1, EventIn, ZenonT(40) DEF Moves
  <1>4. IInv'
    BY <1>2, <1>3, MovesPlace, MovesCancel, MovesCounted, Zenon DEF IInv
  <1>5. Armed' = Armed + One(Event = Event) /\ UNCHANGED <<Fired, running>>
    BY <1>1, EventIn, StartsPolls, Zenon DEF IInv
  <1> QED BY <1>3, <1>4, <1>5, Zenon DEF One

LEMMA NoPollWake ==
  ASSUME IInv,
         UNCHANGED <<platform, sqVars, to_submit, to_complete, cqVars, cq_khead,
                     kernelVars, pending, cancelling, exiting, pc, call, ev, running>>
  PROVE  IInv' /\ Moves /\ UNCHANGED <<Armed, Fired, running>>
PROOF
  <1>1. RingInv'
    BY ZenonT(40) DEF IInv, RingInv, TypeOK, SqSize, CqSize, CqCount, Stack, Submitting, sqVars,
           cqVars, kernelVars
  <1>2. Quiet
    BY Zenon DEF Quiet, sqVars, cqVars, kernelVars
  <1>3. Moves
    BY <1>2, ZenonT(40) DEF Moves
  <1>4. IInv'
    BY <1>1, <1>3, MovesPlace, MovesCancel, MovesCounted, Zenon DEF IInv
  <1> QED BY <1>1, <1>2, <1>3, <1>4, QuietPolls, Zenon DEF IInv

-----------------------------------------------------------------------------
(* Each step of the composed engine keeps the invariant of the rings, is a  *)
(* step of theirs, and is a step of the wake protocol, or none of it.       *)

(* process_wake is a callback: while it is on the stack so is run_events(). *)
Nested == wake_pc # "run" => running

(* What the rings need of the wake protocol. *)
Coupled == IInv /\ Nested /\ expected_wakes \in Nat /\ Wakes!SinglePoll

WakeStep == Wakes!Next \/ UNCHANGED Wakes!vars

LEMMA NoWakeStep == UNCHANGED <<Armed, Fired, wakeVars>> => UNCHANGED Wakes!vars
PROOF
  BY DEF wakeVars, Wakes!vars

LEMMA TaskStepWakes ==
  ASSUME Coupled, TaskStep
  PROVE  IInv' /\ Moves /\ WakeStep /\ Nested'
PROOF
  <1>1. PICK r \in Reqs \ {Event} : StartOp(r)
    BY DEF TaskStep
  <1>2. IInv' /\ Moves
    BY <1>1, NextInv, NextMoves, Zenon DEF Coupled, IInv, Next
  <1>3. UNCHANGED <<Armed, Fired, running>>
    <2>1. Armed' = Armed + One(r = Event) /\ UNCHANGED <<Fired, running>>
      BY <1>1, StartOpStarts, StartsPolls, Zenon DEF Coupled, IInv
    <2>2. Armed \in Nat
      BY Polls, ZenonT(40) DEF Coupled, IInv
    <2> QED BY <1>1, <2>1, <2>2 DEF One
  <1>4. UNCHANGED Wakes!vars
    BY <1>3, NoWakeStep, Zenon DEF TaskStep
  <1> QED BY <1>2, <1>3, <1>4, Zenon DEF TaskStep, WakeStep, Coupled, Nested, wakeVars

LEMMA RingStepWakes ==
  ASSUME Coupled, RingStep
  PROVE  IInv' /\ Moves /\ WakeStep /\ Nested'
PROOF
  <1>1. IInv' /\ Moves
    <2>1. Next
      BY ZenonT(40) DEF RingStep, Next
    <2> QED BY <2>1, NextInv, NextMoves, Zenon DEF Coupled, IInv
  <1>2. RingInv /\ RingInv'
    BY <1>1, ZenonT(40) DEF Coupled, IInv
  <1>3. Nested'
    <2>1. UNCHANGED running
      BY DEF RingStep, SubmitRest, SubmitSome, SubmitFails, FlushOverflow, FlushReturns,
             Finish, RunTaskWork, Stopped, vars
    <2> QED BY <2>1, Zenon DEF Coupled, Nested, RingStep, wakeVars
  <1>4. ASSUME NEW u \in UserData, u = Event => event_fd, Finish(u)
        PROVE  WakeStep
    <2>1. /\ Armed' = Armed - One(u = Event) /\ Fired' = Fired + One(u = Event)
          /\ u = Event => Armed > 0
      BY <1>2, <1>4, FinishPolls, Zenon
    <2>2. Armed \in Nat /\ Fired \in Nat
      BY <1>2, Polls, Zenon
    <2>3. CASE u = Event
      <3>1. Armed > 0 /\ Armed' = Armed - 1 /\ Fired' = Fired + 1 /\ event_fd
        BY <1>4, <2>1, <2>3, Zenon DEF One
      <3>2. Wakes!PollFires
        BY <3>1, ZenonT(40) DEF RingStep, wakeVars, Wakes!PollFires, Wakes!localVars
      <3> QED BY <3>2, ZenonT(40) DEF WakeStep, Wakes!Next
    <2>4. CASE u # Event
      BY <2>1, <2>2, <2>4, NoWakeStep DEF One, RingStep, WakeStep
    <2> QED BY <2>3, <2>4, Zenon
  <1>5. ASSUME UNCHANGED <<Armed, Fired>> PROVE WakeStep
    BY <1>5, NoWakeStep, Zenon DEF RingStep, WakeStep
  <1>6. ASSUME SubmitRest \/ SubmitSome \/ FlushOverflow
                 \/ \E u \in UserData : RunTaskWork(u)
        PROVE  WakeStep
    BY <1>2, <1>5, <1>6, KernelPolls, Zenon
  <1>7. ASSUME SubmitFails \/ FlushReturns \/ Stopped PROVE WakeStep
    <2>1. Quiet
      BY <1>7, OtherSteps, Zenon DEF FlushReturns, Quiet, sqVars, cqVars, kernelVars, taskVars
    <2> QED BY <1>2, <1>5, <2>1, QuietPolls, Zenon
  <1> QED BY <1>1, <1>3, <1>4, <1>6, <1>7, Zenon DEF RingStep

LEMMA ExitStepWakes ==
  ASSUME Coupled, ExitStep
  PROVE  IInv' /\ Moves /\ WakeStep /\ Nested'
PROOF
  <1>1. IInv' /\ Moves
    BY NextInv, NextMoves, Zenon DEF Coupled, IInv, ExitStep, Next
  <1>2. Quiet
    BY OtherSteps, ZenonT(40) DEF ExitStep
  <1>3. UNCHANGED <<Armed, Fired, running>>
    BY <1>1, <1>2, QuietPolls, Zenon DEF Coupled, IInv
  <1> QED BY <1>1, <1>3, NoWakeStep, Zenon DEF ExitStep, WakeStep, Coupled, Nested, wakeVars

LEMMA LoopStepWakes ==
  ASSUME Coupled, LoopStep
  PROVE  IInv' /\ Moves /\ WakeStep /\ Nested'
PROOF
  <1>1. IInv' /\ Moves
    BY NextInv, NextMoves, ZenonT(40) DEF Coupled, IInv, LoopStep, Next
  <1>2. RingInv /\ OnePlace /\ RingInv'
    BY <1>1, ZenonT(40) DEF Coupled, IInv
  <1>3. NextEvent \/ Reads \/ Quiet
    BY <1>2, WorkSteps, ReturnSteps, Zenon DEF LoopStep
  <1>4. CASE /\ Event \in pending /\ Event \notin pending'
             /\ Fired > 0 /\ Fired' = Fired - 1 /\ UNCHANGED Armed
             /\ running'
    <2>1. Wakes!ProcessWake
      BY <1>4, ZenonT(40) DEF LoopStep, Callback, Wakes!BeginWake, Wakes!ProcessWake
    <2> QED BY <1>1, <1>4, <2>1, Zenon DEF WakeStep, Wakes!Next, Nested
  <1>5. CASE /\ ~(Event \in pending /\ Event \notin pending')
             /\ UNCHANGED <<Armed, Fired>>
    <2>1. UNCHANGED wakeVars
      BY <1>5, ZenonT(40) DEF LoopStep, Callback
    <2>2. Nested'
      BY <2>1, ZenonT(40) DEF LoopStep, Nested, wakeVars
    <2> QED BY <1>1, <1>5, <2>1, <2>2, NoWakeStep, Zenon DEF WakeStep
  <1> QED BY <1>2, <1>3, <1>4, <1>5, LoopPolls, Zenon

LEMMA PrepareWakeWakes ==
  ASSUME Coupled, NEW t \in Tasks, PrepareWake(t)
  PROVE  IInv' /\ Moves /\ WakeStep /\ Nested'
PROOF
  <1>1. /\ TasksRun /\ Wakes!ExpectWake(t)
        /\ expected_wakes' = expected_wakes + 1 /\ wake_pc' = wake_pc
    BY DEF PrepareWake, Wakes!ExpectWake
  <1>2. CASE expected_wakes' = 1
    <2>1. Armed + Fired = 0
      <3>1. expected_wakes = 0
        BY <1>1, <1>2 DEF Coupled
      <3> QED BY <3>1 DEF Coupled, Wakes!SinglePoll
    <2>2. PollWake
      BY <1>2, ZenonT(40) DEF PrepareWake, PollWakeIf
    <2>3. IInv' /\ Moves /\ Armed' = Armed + 1 /\ UNCHANGED <<Fired, running>>
      BY <1>1, <2>1, <2>2, NoPoll, PollWakeStarts, Zenon DEF Coupled
    <2>4. Wakes!PrepareWake(t)
      BY <1>1, <1>2, <2>3, Zenon DEF Wakes!PrepareWake, Wakes!PollWakeIf
    <2> QED BY <1>1, <2>3, <2>4, Zenon DEF WakeStep, Wakes!Next, Coupled, Nested
  <1>3. CASE expected_wakes' # 1
    <2>1. UNCHANGED <<platform, sqVars, to_submit, to_complete, cqVars, cq_khead,
                      kernelVars, pending, cancelling, exiting, pc, call, ev, running>>
      BY <1>3, Zenon DEF PrepareWake, PollWakeIf
    <2>2. IInv' /\ Moves /\ UNCHANGED <<Armed, Fired, running>>
      BY <2>1, NoPollWake, Zenon DEF Coupled
    <2>3. Wakes!PrepareWake(t)
      BY <1>1, <1>3, <2>2, Zenon DEF Wakes!PrepareWake, Wakes!PollWakeIf
    <2> QED BY <1>1, <2>2, <2>3, Zenon DEF WakeStep, Wakes!Next, Coupled, Nested
  <1> QED BY <1>2, <1>3, Zenon

LEMMA RearmWakes ==
  ASSUME Coupled, Rearm
  PROVE  IInv' /\ Moves /\ WakeStep /\ Nested'
PROOF
  <1>1. TasksRun /\ Wakes!SettleWakes(woken) /\ wake_pc = "rearm" /\ wake_pc' = "run"
    BY DEF Rearm, TasksRun, Wakes!SettleWakes
  <1>2. CASE expected_wakes' # 0
    <2>1. Armed + Fired = 0
      BY <1>1, ZenonT(40) DEF Coupled, Wakes!SinglePoll
    <2>2. PollWake
      BY <1>2, ZenonT(40) DEF Rearm, PollWakeIf
    <2>3. IInv' /\ Moves /\ Armed' = Armed + 1 /\ UNCHANGED <<Fired, running>>
      BY <1>1, <2>1, <2>2, NoPoll, PollWakeStarts, Zenon DEF Coupled
    <2>4. Wakes!Rearm
      BY <1>1, <1>2, <2>3, Zenon DEF Wakes!Rearm, Wakes!PollWakeIf
    <2> QED BY <1>1, <2>3, <2>4, Zenon DEF WakeStep, Wakes!Next, Nested
  <1>3. CASE expected_wakes' = 0
    <2>1. UNCHANGED <<platform, sqVars, to_submit, to_complete, cqVars, cq_khead,
                      kernelVars, pending, cancelling, exiting, pc, call, ev, running>>
      BY <1>3, ZenonT(40) DEF Rearm, PollWakeIf
    <2>2. IInv' /\ Moves /\ UNCHANGED <<Armed, Fired, running>>
      BY <2>1, NoPollWake, Zenon DEF Coupled
    <2>3. Wakes!Rearm
      BY <1>1, <1>3, <2>2, Zenon DEF Wakes!Rearm, Wakes!PollWakeIf
    <2> QED BY <1>1, <2>2, <2>3, Zenon DEF WakeStep, Wakes!Next, Nested
  <1> QED BY <1>2, <1>3, Zenon

LEMMA StillWakes ==
  ASSUME Coupled, UNCHANGED vars
  PROVE  IInv' /\ Moves /\ UNCHANGED <<Armed, Fired, running>>
PROOF
  BY NoPollWake, Zenon DEF Coupled, vars, taskVars

LEMMA ProcessWakeWakes ==
  ASSUME Coupled, ProcessWake
  PROVE  IInv' /\ Moves /\ WakeStep /\ Nested'
PROOF
  <1>1. IInv' /\ Moves /\ UNCHANGED <<Armed, Fired, running>>
    BY StillWakes, Zenon DEF ProcessWake
  <1>2. wake_pc # "run"
    BY ZenonT(40) DEF ProcessWake, Wakes!Drain, Wakes!CompleteNext, Wakes!NextBatch
  <1> QED BY <1>1, <1>2, Zenon DEF ProcessWake, WakeStep, Wakes!Next, Coupled, Nested

LEMMA PoolStepWakes ==
  ASSUME Coupled, PoolStep
  PROVE  IInv' /\ Moves /\ WakeStep /\ Nested'
PROOF
  <1>1. IInv' /\ Moves /\ UNCHANGED <<Armed, Fired, running>>
    BY StillWakes, ZenonT(40) DEF PoolStep
  <1>2. UNCHANGED wake_pc
    BY Zenon DEF PoolStep, Wakes!StartWork, Wakes!WakePush, Wakes!WakeSignal
  <1> QED BY <1>1, <1>2, Zenon DEF PoolStep, WakeStep, Wakes!Next, Coupled, Nested

LEMMA EngineNextWakes ==
  ASSUME Coupled, [EngineNext]_engineVars
  PROVE  IInv' /\ Moves /\ WakeStep /\ Nested'
PROOF
  <1>1. CASE UNCHANGED engineVars
    <2>1. IInv' /\ Moves /\ UNCHANGED <<Armed, Fired, running>> /\ UNCHANGED wakeVars
      BY <1>1, StillWakes, Zenon DEF engineVars
    <2> QED BY <2>1, NoWakeStep, Zenon DEF WakeStep, Coupled, Nested, wakeVars
  <1> QED BY <1>1, TaskStepWakes, RingStepWakes, ExitStepWakes, LoopStepWakes,
             PrepareWakeWakes, ProcessWakeWakes, RearmWakes, PoolStepWakes, Zenon
          DEF EngineNext

LEMMA OnlyExitReturnsHere ==
  ASSUME [EngineNext]_engineVars, exiting, ~exiting'
  PROVE  ExitReturns
PROOF
  <1>1. ASSUME UNCHANGED exiting PROVE FALSE
    BY <1>1, ZenonT(40)
  <1>2. ASSUME [Next]_vars PROVE ExitReturns
    BY <1>2, OnlyExitReturns, Zenon
  <1>3. ASSUME TaskStep \/ RingStep \/ ExitStep \/ LoopStep PROVE ExitReturns
    <2>1. Next
      BY <1>3, Zenon DEF TaskStep, RingStep, ExitStep, LoopStep, Next
    <2> QED BY <1>2, <2>1, Zenon
  <1>4. ASSUME ProcessWake \/ PoolStep \/ UNCHANGED engineVars PROVE ExitReturns
    <2>1. UNCHANGED vars
      BY <1>4, Zenon DEF ProcessWake, PoolStep, engineVars
    <2> QED BY <1>2, <2>1, Zenon
  <1>5. ASSUME Rearm \/ \E t \in Tasks : PrepareWake(t) PROVE FALSE
    BY <1>1, <1>5, ZenonT(40) DEF Rearm, PrepareWake, PollWakeIf, PollWake
  <1> QED BY <1>3, <1>4, <1>5, Zenon DEF EngineNext

-----------------------------------------------------------------------------
(* The theorems about the composed engine.                                  *)

WP == INSTANCE WakeProofs WITH
        Reqs <- Tasks, armed <- Armed, fired <- Fired, pc <- wake_pc

(* The inductive invariant of the composed engine. *)
EInv == IInv /\ Nested /\ WP!IInv

LEMMA WakeConstants == WP!WakeAssumption
PROOF
  BY EngineAssumption, ZenonT(40) DEF WP!WakeAssumption, IsFiniteSet, WP!IsFiniteSet

LEMMA EInvCoupled == EInv => Coupled
PROOF
  BY Zenon DEF EInv, Coupled, WP!IInv, WP!TypeOK, WP!SinglePoll, Wakes!SinglePoll

LEMMA InitEInv == EngineInit => EInv
PROOF
  <1> SUFFICES ASSUME EngineInit PROVE EInv
    BY ZenonT(40)
  <1>1. IInv
    BY CountingHolds, InitInv, Zenon DEF EngineInit
  <1>2. WP!Init /\ Nested
    BY Zenon DEF EngineInit, Wakes!Init, WP!Init, Nested
  <1>3. WP!IInv
    BY <1>2, WakeConstants, WP!InitIInv, Zenon
  <1> QED BY <1>1, <1>2, <1>3, Zenon DEF EInv

LEMMA WakeStepIs == WakeStep => [WP!Next]_(WP!vars)
PROOF
  <1>1. UNCHANGED Wakes!vars => UNCHANGED WP!vars
    BY Zenon DEF Wakes!vars, WP!vars
  <1> USE DEF Wakes!pollVars, WP!pollVars, Wakes!localVars, WP!localVars
  <1>2. ASSUME NEW t \in Tasks, Wakes!PrepareWake(t) PROVE WP!PrepareWake(t)
    BY <1>2, Zenon DEF Wakes!PrepareWake, Wakes!ExpectWake, Wakes!PollWakeIf,
                WP!PrepareWake, WP!ExpectWake, WP!PollWakeIf
  <1>3. Wakes!ProcessWake => WP!ProcessWake
    BY ZenonT(40) DEF Wakes!ProcessWake, Wakes!BeginWake, WP!ProcessWake, WP!BeginWake
  <1>4. Wakes!ProcessWakeCold => WP!ProcessWakeCold
    BY Zenon DEF Wakes!ProcessWakeCold, WP!ProcessWakeCold
  <1>5. Wakes!Drain => WP!Drain
    BY ZenonT(40) DEF Wakes!Drain, WP!Drain
  <1>6. Wakes!CompleteNext => WP!CompleteNext
    BY ZenonT(40) DEF Wakes!CompleteNext, WP!CompleteNext
  <1>7. Wakes!NextBatch => WP!NextBatch
    BY Zenon DEF Wakes!NextBatch, WP!NextBatch
  <1>8. Wakes!Rearm => WP!Rearm
    BY Zenon DEF Wakes!Rearm, Wakes!SettleWakes, Wakes!PollWakeIf,
           WP!Rearm, WP!SettleWakes, WP!PollWakeIf
  <1>9. Wakes!DropEngine => WP!DropEngine
    BY Zenon DEF Wakes!DropEngine, Wakes!Blocked, Wakes!HasWork,
           WP!DropEngine, WP!Blocked, WP!HasWork
  <1>10. ASSUME NEW t \in Tasks, Wakes!StartWork(t) PROVE WP!StartWork(t)
    BY <1>10, Zenon DEF Wakes!StartWork, Wakes!Working, Wakes!Cardinality,
                 WP!StartWork, WP!Working, WP!Cardinality
  <1>11. ASSUME NEW t \in Tasks, Wakes!WakePush(t) PROVE WP!WakePush(t)
    BY <1>11, Zenon DEF Wakes!WakePush, WP!WakePush
  <1>12. Wakes!WakeSignal => WP!WakeSignal
    BY Zenon DEF Wakes!WakeSignal, WP!WakeSignal
  <1>13. Wakes!PollFires => WP!PollFires
    BY Zenon DEF Wakes!PollFires, WP!PollFires
  <1>14. Wakes!Terminated => WP!Terminated
    BY <1>1, Zenon DEF Wakes!Terminated, WP!Terminated
  <1> QED BY <1>1, <1>2, <1>3, <1>4, <1>5, <1>6, <1>7, <1>8, <1>9, <1>10, <1>11, <1>12,
             <1>13, <1>14, Zenon
          DEF WakeStep, Wakes!Next, WP!Next

LEMMA NextEInv == EInv /\ [EngineNext]_engineVars => EInv'
PROOF
  <1> SUFFICES ASSUME EInv, [EngineNext]_engineVars PROVE EInv'
    BY ZenonT(40)
  <1>1. IInv' /\ WakeStep /\ Nested'
    BY EInvCoupled, EngineNextWakes, Zenon
  <1>2. WP!IInv /\ [WP!Next]_(WP!vars) => WP!IInv'
    BY WakeConstants, WP!NextIInv, Zenon
  <1>3. WP!IInv'
    BY <1>1, <1>2, WakeStepIs, Zenon DEF EInv
  <1> QED BY <1>1, <1>3, Zenon DEF EInv

LEMMA EInvHolds == EngineSpec => []EInv
PROOF
  BY InitEInv, NextEInv, PTL DEF EngineSpec

(* The rings implement what the wake protocol takes for granted: a poll     *)
(* that poll_wake() starts, from a task, from a callback or at the end of   *)
(* process_wake, is submitted once, completes once, when the event fd is    *)
(* readable, and then runs process_wake, be the submission ring full at     *)
(* that moment, the completion ring overflown or task work deferred.        *)
THEOREM ImplementsWakeHolds == EngineSpec => ImplementsWake
PROOF
  <1>1. EngineInit => Wakes!Init
    BY Zenon DEF EngineInit
  <1>2. EInv /\ [EngineNext]_engineVars => [Wakes!Next]_(Wakes!vars)
    BY EInvCoupled, EngineNextWakes, Zenon DEF WakeStep
  <1> QED BY <1>1, <1>2, EInvHolds, PTL DEF EngineSpec, ImplementsWake, Wakes!Spec

(* Driver::exit does not return while a task waits for another thread: it   *)
(* returns between two rounds of the event loop, when to_submit and         *)
(* to_complete are zero, and the poll that prepare_wake() or process_wake   *)
(* left behind for that task is among what they count.                      *)
THEOREM ExitWaitsForWakesHolds == EngineSpec => ExitWaitsForWakes
PROOF
  <1>1. ASSUME EInv, [EngineNext]_engineVars
        PROVE  [exiting /\ ~exiting' => Wakes!Blocked = {}]_engineVars
    <2> SUFFICES ASSUME exiting, ~exiting' PROVE Wakes!Blocked = {}
      BY ZenonT(40)
    <2>1. pc = "tasks" /\ ~HasWork
      BY <1>1, OnlyExitReturnsHere, Zenon DEF ExitReturns
    <2>2. Place(Event) = 0
      BY <1>1, <2>1, EventIn, NoWork, ZenonT(40) DEF EInv, IInv, Place
    <2>3. Armed + Fired = 0
      BY <1>1, <2>2, Polls DEF EInv, IInv
    <2>4. wake_pc = "run"
      BY <1>1, <2>1, Zenon DEF EInv, Nested, IInv, RingInv, Stack
    <2>5. WP!IInv => WP!HasWorkIffBlocked
      BY WakeConstants, WP!IInvHasWork, Zenon
    <2>6. WP!Blocked = {}
      BY <1>1, <2>3, <2>4, <2>5 DEF EInv, WP!HasWorkIffBlocked, WP!HasWork
    <2> QED BY <2>6, Zenon DEF WP!Blocked, Wakes!Blocked
  <1> QED BY <1>1, EInvHolds, PTL DEF EngineSpec, ExitWaitsForWakes

(* With event_request among the operations, and process_wake among the      *)
(* callbacks, nothing is lost or duplicated in the rings and the counters   *)
(* stay exact.                                                              *)
THEOREM ComposedRings == EngineSpec => [](OnePlace /\ CountersExact)
PROOF
  <1>1. EInv => OnePlace /\ CountersExact
    BY ZenonT(40) DEF EInv, IInv, Counted
  <1> QED BY <1>1, EInvHolds, PTL

(* The composed engine implements the contract of the engine as well: the   *)
(* poll is an operation like any other.                                     *)
THEOREM ComposedImplementsEngine == EngineSpec => ImplementsEngine
PROOF
  <1>1. EInv => RingInv /\ OnePlace
    BY ZenonT(40) DEF EInv, IInv
  <1>2. EngineInit => Contract!Init
    BY CountingHolds, InitEngine, Zenon DEF EngineInit
  <1>3. EInv /\ [EngineNext]_engineVars => Moves
    BY EInvCoupled, EngineNextWakes, Zenon
  <1>4. RingInv /\ OnePlace /\ (RingInv /\ OnePlace)' /\ Moves
          => [Contract!Next]_([r \in Reqs |-> Op(r)])
    BY MovesEngine, Zenon DEF Ops
  <1> QED BY <1>1, <1>2, <1>3, <1>4, EInvHolds, PTL
          DEF EngineSpec, ImplementsEngine, Contract!Spec

(* It implements the contract of the waker, by way of the wake protocol:    *)
(* through the rings, too, every prepared request is woken and completed in *)
(* that order, once.                                                        *)
THEOREM ComposedImplementsWaker == EngineSpec => Wakes!ImplementsWaker
PROOF
  <1>1. WP!Spec => WP!ImplementsWaker
    BY WakeConstants, WP!WakeImplementsWaker, PTL
  <1>2. EngineInit => WP!Init
    BY ZenonT(40) DEF EngineInit, Wakes!Init, WP!Init
  <1>3. EInv /\ [EngineNext]_engineVars => [WP!Next]_(WP!vars)
    BY EInvCoupled, EngineNextWakes, WakeStepIs, Zenon
  <1>4. EngineSpec => WP!Spec
    BY <1>2, <1>3, EInvHolds, PTL DEF EngineSpec, WP!Spec
  <1>5. WP!ImplementsWaker => Wakes!ImplementsWaker
    BY PTL DEF WP!ImplementsWaker, WP!WakerStatus, WP!Contract!Spec, WP!Contract!Init,
               WP!Contract!Next, WP!Contract!Prepare, WP!Contract!Wake,
               WP!Contract!Complete, WP!Contract!Move,
               Wakes!ImplementsWaker, Wakes!WakerStatus, Wakes!Contract!Spec,
               Wakes!Contract!Init, Wakes!Contract!Next, Wakes!Contract!Prepare,
               Wakes!Contract!Wake, Wakes!Contract!Complete, Wakes!Contract!Move
  <1> QED BY <1>1, <1>4, <1>5, PTL
=============================================================================
