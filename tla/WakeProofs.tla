----------------------------- MODULE WakeProofs -----------------------------
(***************************************************************************)
(* Proofs about module Wake, for every set of requests, every number of    *)
(* threads and every MAX_RESUME.                                           *)
(***************************************************************************)
EXTENDS Wake, FiniteSetTheorems, TLAPS

(* A request is on its way to process_wake in one place only, and then it   *)
(* is woken.                                                                *)
OnePlace ==
  /\ \A i \in 1..Len(wake_queue) : req[wake_queue[i]] = "woken"
  /\ \A i \in 1..Len(batch) : req[batch[i]] = "woken"
  /\ \A i, j \in 1..Len(wake_queue) : i # j => wake_queue[i] # wake_queue[j]
  /\ \A i, j \in 1..Len(batch) : i # j => batch[i] # batch[j]
  /\ \A i \in 1..Len(batch), j \in 1..Len(wake_queue) : batch[i] # wake_queue[j]
  /\ pc \notin {"complete", "resumed"} => batch = <<>>

(* expected_wakes counts the blocked tasks, and during process_wake also    *)
(* the tasks it has resumed so far.  So a task that process_wake resumes    *)
(* finds the count above zero, and its prepare_wake does not poll.          *)
Counted ==
  /\ expected_wakes =
       Cardinality(Blocked)
         + (IF pc \in {"drain", "complete", "resumed", "rearm"} THEN woken ELSE 0)
  /\ pc = "resumed" => woken > 0

(* From the moment the poll completes until process_wake reads the event    *)
(* fd, the event fd stays readable: nobody else reads it.                   *)
Readable == fired > 0 \/ pc \in {"drain", "complete", "resumed"} => event_fd

DroppedIsQuiet == pc = "dropped" => Blocked = {}

(* The inductive invariant. *)
IInv ==
  /\ TypeOK
  /\ OnePlace
  /\ Counted
  /\ SinglePoll
  /\ Readable
  /\ ReadNeverBlocks
  /\ NoStrandedWake
  /\ DroppedIsQuiet

-----------------------------------------------------------------------------
(* The blocked requests can be counted. *)
LEMMA BlockedFinite ==
  /\ IsFiniteSet(Blocked)
  /\ Cardinality(Blocked) \in Nat
  /\ Cardinality(Blocked) = 0 <=> Blocked = {}
<1>1. IsFiniteSet(Blocked)
  BY FS_Subset, WakeAssumption DEF Blocked
<1> QED
  BY <1>1, FS_CardinalityType, FS_EmptySet

(* A request that leaves or enters "free" changes the count by one. *)
LEMMA BlockedChanges ==
  ASSUME TypeOK, NEW r \in Reqs, NEW s \in ReqStates,
         req' = [req EXCEPT ![r] = s]
  PROVE  /\ req[r] = "free" /\ s # "free" =>
              Cardinality(Blocked') = Cardinality(Blocked) + 1
         /\ req[r] # "free" /\ s = "free" =>
              Cardinality(Blocked') = Cardinality(Blocked) - 1
         /\ req[r] # "free" /\ s # "free" => Blocked' = Blocked
<1>1. ASSUME req[r] = "free", s # "free"
      PROVE  Cardinality(Blocked') = Cardinality(Blocked) + 1
  <2>1. Blocked' = Blocked \cup {r} /\ r \notin Blocked
    BY <1>1 DEF Blocked, TypeOK
  <2> QED
    BY <2>1, BlockedFinite, FS_AddElement, Zenon
<1>2. ASSUME req[r] # "free", s = "free"
      PROVE  Cardinality(Blocked') = Cardinality(Blocked) - 1
  <2>1. Blocked' = Blocked \ {r} /\ r \in Blocked
    BY <1>2 DEF Blocked, TypeOK
  <2> QED
    BY <2>1, BlockedFinite, FS_RemoveElement, Zenon
<1>3. ASSUME req[r] # "free", s # "free"
      PROVE  Blocked' = Blocked
  BY <1>3 DEF Blocked, TypeOK
<1> QED
  BY <1>1, <1>2, <1>3

(* The invariant holds initially. *)
LEMMA InitIInv == Init => IInv
<1> SUFFICES ASSUME Init PROVE IInv
  OBVIOUS
<1>1. Blocked = {}
  BY DEF Init, Blocked
<1>2. Cardinality(Blocked) = 0
  BY <1>1, FS_EmptySet
<1>3. TypeOK
  <2>1. event_fd \in BOOLEAN /\ wake_failed \in BOOLEAN
    BY Zenon DEF Init
  <2>2. wake_queue \in Seq(Reqs) /\ batch \in Seq(Reqs)
    BY DEF Init
  <2>3. req \in [Reqs -> ReqStates] /\ pc \in Pcs
    BY DEF Init, ReqStates, Pcs
  <2> QED
    BY <2>1, <2>2, <2>3 DEF Init, TypeOK
<1>4. OnePlace
  BY DEF Init, OnePlace
<1>5. Counted
  BY <1>2 DEF Init, Counted
<1> QED
  BY <1>1, <1>3, <1>4, <1>5
  DEF Init, IInv, SinglePoll, Readable, ReadNeverBlocks, NoStrandedWake,
      DroppedIsQuiet

-----------------------------------------------------------------------------
(* One lemma per action. *)

(* prepare_wake(). *)
LEMMA PrepareWakeIInv ==
  ASSUME IInv, NEW r \in Reqs, PrepareWake(r) PROVE IInv'
<1> USE DEF IInv
<1>1. TypeOK'
  BY DEF TypeOK, PrepareWake, ExpectWake, PollWakeIf, localVars, ReqStates
<1>2. Cardinality(Blocked') = Cardinality(Blocked) + 1
  BY BlockedChanges, Zenon DEF PrepareWake, ExpectWake, ReqStates
<1>3. OnePlace'
  BY DEF OnePlace, TypeOK, PrepareWake, ExpectWake, localVars
<1>4. Counted'
  BY <1>2, BlockedFinite, SMTT(40)
  DEF Counted, TypeOK, PrepareWake, ExpectWake, localVars
<1>5. SinglePoll'
  <2>1. pc = "resumed" => expected_wakes > 0
    BY BlockedFinite DEF Counted, TypeOK
  <2>2. /\ expected_wakes' = expected_wakes + 1
        /\ pc' = pc /\ pc \in {"run", "resumed"}
        /\ fired' = fired
        /\ expected_wakes = 0 => armed' = armed + 1
        /\ expected_wakes # 0 => armed' = armed
    BY DEF PrepareWake, ExpectWake, PollWakeIf, TypeOK
  <2> QED
    BY <2>1, <2>2 DEF SinglePoll, TypeOK
<1> QED
  BY <1>1, <1>3, <1>4, <1>5
  DEF PrepareWake, ExpectWake, PollWakeIf, Readable, ReadNeverBlocks,
      NoStrandedWake, DroppedIsQuiet, TypeOK

(* process_wake() starts. *)
LEMMA ProcessWakeIInv ==
  ASSUME IInv, ProcessWake PROVE IInv'
<1> USE DEF IInv
<1>1. TypeOK'
  BY DEF TypeOK, ProcessWake, BeginWake, Pcs
<1>2. Blocked' = Blocked
  BY DEF Blocked, ProcessWake, BeginWake
<1>3. OnePlace'
  BY DEF OnePlace, ProcessWake, BeginWake
<1>4. Counted'
  BY <1>2, BlockedFinite DEF Counted, ProcessWake, BeginWake
<1>5. SinglePoll'
  BY DEF SinglePoll, TypeOK, ProcessWake, BeginWake
<1> QED
  BY <1>1, <1>3, <1>4, <1>5
  DEF ProcessWake, BeginWake, Readable, ReadNeverBlocks, NoStrandedWake,
      DroppedIsQuiet, TypeOK

(* process_wake_cold(). *)
LEMMA ProcessWakeColdIInv ==
  ASSUME IInv, ProcessWakeCold PROVE IInv'
<1> USE DEF IInv
<1>1. TypeOK'
  BY DEF TypeOK, ProcessWakeCold, localVars
<1>2. Blocked' = Blocked
  BY DEF Blocked, ProcessWakeCold
<1>3. OnePlace' /\ Counted'
  BY <1>2 DEF OnePlace, Counted, ProcessWakeCold, localVars
<1>4. SinglePoll'
  BY DEF SinglePoll, TypeOK, ProcessWakeCold
<1> QED
  BY <1>1, <1>2, <1>3, <1>4
  DEF ProcessWakeCold, Readable, ReadNeverBlocks, NoStrandedWake,
      DroppedIsQuiet, TypeOK

(* The locked section of process_wake(). *)
LEMMA DrainIInv ==
  ASSUME IInv, Drain PROVE IInv'
<1> USE DEF IInv
<1>1. Blocked' = Blocked
  BY DEF Blocked, Drain
<1>2. batch = <<>>
  BY DEF OnePlace, Drain
<1>3. CASE wake_queue = <<>>
  <2>1. event_fd /\ pc' = "rearm" /\ UNCHANGED <<wake_queue, batch>>
    BY <1>3 DEF Drain, Readable
  <2>2. TypeOK'
    BY <2>1, Zenon DEF TypeOK, Drain, Pcs, pollVars
  <2>3. OnePlace' /\ Counted'
    BY <1>1, <1>2, <2>1 DEF OnePlace, Counted, Drain
  <2>4. SinglePoll'
    BY <2>1 DEF SinglePoll, Drain, pollVars
  <2> QED
    BY <1>3, <2>1, <2>2, <2>3, <2>4
    DEF Drain, Readable, ReadNeverBlocks, NoStrandedWake, DroppedIsQuiet,
        SinglePoll, pollVars, TypeOK
<1>4. CASE wake_queue # <<>>
  <2> DEFINE n == Len(wake_queue)
             k == IF n < MaxResume THEN n ELSE MaxResume
  <2>1. /\ batch' = SubSeq(wake_queue, 1, k)
        /\ wake_queue' = SubSeq(wake_queue, k + 1, n)
        /\ pc' = "complete"
        /\ UNCHANGED event_fd
    BY <1>4 DEF Drain
  <2>2. n \in Nat /\ k \in 1..n
    BY <1>4, WakeAssumption DEF TypeOK
  <2> HIDE DEF n, k
  <2>3. /\ batch' \in Seq(Reqs)
        /\ Len(batch') = k
        /\ \A i \in 1..k : batch'[i] = wake_queue[i]
    BY <2>1, <2>2 DEF TypeOK, n
  <2>4. /\ wake_queue' \in Seq(Reqs)
        /\ Len(wake_queue') = n - k
        /\ \A i \in 1..(n - k) : wake_queue'[i] = wake_queue[k + i]
    BY <2>1, <2>2 DEF TypeOK, n
  <2>5. TypeOK'
    BY <2>1, <2>3, <2>4, Zenon DEF TypeOK, Drain, Pcs, pollVars
  <2>6. OnePlace'
    <3>1. \A i \in 1..(n - k) : k + i \in 1..n
      BY <2>2
    <3>2. \A i \in 1..k : i \in 1..n
      BY <2>2
    <3>3. req' = req
      BY DEF Drain
    <3> QED
      BY <2>1, <2>2, <2>3, <2>4, <3>1, <3>2, <3>3, SMTT(40) DEF OnePlace, n
  <2>7. Counted'
    BY <1>1, <2>1 DEF Counted, Drain
  <2>8. SinglePoll'
    BY <2>1 DEF SinglePoll, Drain, pollVars
  <2> QED
    BY <2>1, <2>5, <2>6, <2>7, <2>8, Zenon
    DEF Drain, Readable, ReadNeverBlocks, NoStrandedWake, DroppedIsQuiet,
        pollVars, TypeOK
<1> QED
  BY <1>3, <1>4

(* Request::complete() in process_wake(). *)
LEMMA CompleteNextIInv ==
  ASSUME IInv, CompleteNext PROVE IInv'
<1> USE DEF IInv
<1> DEFINE r == Head(batch)
<1>1. /\ r \in Reqs
      /\ r = batch[1]
      /\ Len(batch) \in Nat \ {0}
      /\ req[r] = "woken"
  BY DEF CompleteNext, TypeOK, OnePlace
<1>2. /\ Tail(batch) \in Seq(Reqs)
      /\ Len(Tail(batch)) = Len(batch) - 1
      /\ \A i \in 1..(Len(batch) - 1) : Tail(batch)[i] = batch[i + 1]
  BY <1>1 DEF CompleteNext, TypeOK
<1>3. req' = [req EXCEPT ![r] = "free"] /\ batch' = Tail(batch)
  BY DEF CompleteNext
<1>4. Cardinality(Blocked') = Cardinality(Blocked) - 1
  BY <1>1, <1>3, BlockedChanges, Zenon DEF ReqStates
<1>5. TypeOK'
  BY <1>1, <1>2, <1>3 DEF TypeOK, CompleteNext, Pcs, ReqStates, pollVars
<1>6. OnePlace'
  <2> HIDE DEF r
  <2>1. \A i \in 1..(Len(batch) - 1) : i + 1 \in 1..Len(batch) /\ i + 1 # 1
    BY <1>1
  <2>2. \A q \in Reqs : q # r => req'[q] = req[q]
    BY <1>3 DEF TypeOK
  <2>3. \A i \in 1..Len(wake_queue) :
          wake_queue[i] \in Reqs /\ wake_queue[i] # r
    BY <1>1 DEF OnePlace, TypeOK
  <2>4. \A i \in 1..Len(batch') : batch'[i] \in Reqs /\ batch'[i] # r
    BY <1>1, <1>2, <1>3, <2>1 DEF OnePlace
  <2>5. wake_queue' = wake_queue /\ pc' = "resumed"
    BY DEF CompleteNext
  <2> QED
    BY <1>1, <1>2, <1>3, <2>1, <2>2, <2>3, <2>4, <2>5 DEF OnePlace
<1>7. Counted'
  BY <1>4, BlockedFinite DEF Counted, CompleteNext, TypeOK
<1>8. SinglePoll'
  BY DEF SinglePoll, CompleteNext, pollVars
<1> QED
  BY <1>5, <1>6, <1>7, <1>8
  DEF CompleteNext, Readable, ReadNeverBlocks, NoStrandedWake, DroppedIsQuiet,
      pollVars, TypeOK

(* process_wake() goes around its loop. *)
LEMMA NextBatchIInv ==
  ASSUME IInv, NextBatch PROVE IInv'
<1> USE DEF IInv
<1>1. Blocked' = Blocked
  BY DEF Blocked, NextBatch
<1>2. TypeOK'
  BY DEF TypeOK, NextBatch, Pcs, pollVars, localVars
<1>3. OnePlace' /\ Counted' /\ SinglePoll'
  BY <1>1 DEF OnePlace, Counted, SinglePoll, NextBatch, pollVars, localVars
<1> QED
  BY <1>2, <1>3
  DEF NextBatch, Readable, ReadNeverBlocks, NoStrandedWake, DroppedIsQuiet,
      pollVars, TypeOK

(* The end of process_wake(). *)
LEMMA RearmIInv ==
  ASSUME IInv, Rearm PROVE IInv'
<1> USE DEF IInv
<1>1. Blocked' = Blocked
  BY DEF Blocked, Rearm, SettleWakes
<1>2. expected_wakes' = Cardinality(Blocked) /\ expected_wakes' \in Nat
  BY BlockedFinite DEF Rearm, SettleWakes, Counted, TypeOK
<1>3. TypeOK'
  BY <1>2 DEF TypeOK, Rearm, SettleWakes, PollWakeIf, Pcs, localVars
<1>4. OnePlace' /\ Counted'
  BY <1>1, <1>2, BlockedFinite
  DEF OnePlace, Counted, Rearm, SettleWakes, localVars
<1>5. SinglePoll'
  BY <1>2 DEF SinglePoll, TypeOK, Rearm, SettleWakes, PollWakeIf
<1> QED
  BY <1>3, <1>4, <1>5
  DEF Rearm, SettleWakes, PollWakeIf, Readable, ReadNeverBlocks, NoStrandedWake,
      DroppedIsQuiet, TypeOK

(* The engine is dropped. *)
LEMMA DropEngineIInv ==
  ASSUME IInv, DropEngine PROVE IInv'
<1> USE DEF IInv
<1>1. Blocked' = Blocked
  BY DEF Blocked, DropEngine
<1>2. TypeOK'
  BY DEF TypeOK, DropEngine, Pcs, pollVars, localVars
<1>3. OnePlace' /\ Counted'
  <2>1. /\ pc = "run" /\ pc' = "dropped"
        /\ UNCHANGED <<expected_wakes, wake_queue, batch, req, woken>>
    BY Zenon DEF DropEngine, localVars
  <2>2. OnePlace'
    BY <2>1 DEF OnePlace
  <2>3. Counted'
    BY <1>1, <2>1 DEF Counted
  <2> QED
    BY <2>2, <2>3
<1>4. SinglePoll'
  BY DEF SinglePoll, DropEngine, HasWork, TypeOK, pollVars
<1> QED
  BY <1>1, <1>2, <1>3, <1>4
  DEF DropEngine, Readable, ReadNeverBlocks, NoStrandedWake, DroppedIsQuiet,
      pollVars, TypeOK

(* A thread of the pool takes work. *)
LEMMA StartWorkIInv ==
  ASSUME IInv, NEW r \in Reqs, StartWork(r) PROVE IInv'
<1> USE DEF IInv
<1>1. Blocked' = Blocked
  BY BlockedChanges, Zenon DEF StartWork, ReqStates
<1>2. TypeOK'
  BY DEF TypeOK, StartWork, ReqStates, pollVars, localVars
<1>3. OnePlace'
  BY DEF OnePlace, TypeOK, StartWork, localVars
<1>4. Counted' /\ SinglePoll'
  BY <1>1 DEF Counted, SinglePoll, StartWork, pollVars, localVars
<1> QED
  BY <1>1, <1>2, <1>3, <1>4, Zenon
  DEF StartWork, Readable, ReadNeverBlocks, NoStrandedWake, DroppedIsQuiet,
      pollVars, TypeOK

(* The locked section of wake(). *)
LEMMA WakePushIInv ==
  ASSUME IInv, NEW r \in Reqs, WakePush(r) PROVE IInv'
<1> USE DEF IInv
<1>1. Blocked' = Blocked
  BY BlockedChanges, Zenon DEF WakePush, ReqStates
<1>2. TypeOK'
  BY DEF TypeOK, WakePush, ReqStates, pollVars, localVars
<1>3. OnePlace'
  <2> DEFINE n == Len(wake_queue)
  <2>1. /\ n \in Nat
        /\ Len(wake_queue') = n + 1
        /\ \A i \in 1..n : wake_queue'[i] = wake_queue[i]
        /\ wake_queue'[n + 1] = r
    BY DEF TypeOK, WakePush
  <2>2. \A i \in 1..(n + 1) : i \in 1..n \/ i = n + 1
    BY <2>1
  <2>3. /\ \A i \in 1..n : wake_queue[i] \in Reqs /\ wake_queue[i] # r
        /\ \A i \in 1..Len(batch) : batch[i] \in Reqs /\ batch[i] # r
    BY DEF TypeOK, OnePlace, WakePush
  <2>4. /\ \A q \in Reqs : q # r => req'[q] = req[q]
        /\ req'[r] = "woken"
        /\ UNCHANGED <<batch, pc>>
    BY Zenon DEF TypeOK, WakePush, localVars
  <2> HIDE DEF n
  <2>5. \A i \in 1..(n + 1) : req'[wake_queue'[i]] = "woken"
    BY <2>1, <2>2, <2>3, <2>4 DEF OnePlace, n
  <2>6. \A i, j \in 1..(n + 1) : i # j => wake_queue'[i] # wake_queue'[j]
    BY <2>1, <2>2, <2>3, ZenonT(40) DEF OnePlace, n
  <2>7. \A i \in 1..Len(batch), j \in 1..(n + 1) : batch[i] # wake_queue'[j]
    BY <2>1, <2>2, <2>3, ZenonT(40) DEF OnePlace, n
  <2> QED
    BY <2>1, <2>3, <2>4, <2>5, <2>6, <2>7 DEF OnePlace
<1>4. Counted' /\ SinglePoll'
  BY <1>1 DEF Counted, SinglePoll, WakePush, pollVars, localVars
<1>5. NoStrandedWake'
  BY DEF NoStrandedWake, WakePush, TypeOK
<1> QED
  BY <1>1, <1>2, <1>3, <1>4, <1>5
  DEF WakePush, Readable, ReadNeverBlocks, DroppedIsQuiet, pollVars, TypeOK

(* The write of wake(). *)
LEMMA WakeSignalIInv ==
  ASSUME IInv, WakeSignal PROVE IInv'
<1> USE DEF IInv
<1>1. Blocked' = Blocked
  BY DEF Blocked, WakeSignal
<1>2. TypeOK'
  BY DEF TypeOK, WakeSignal, pollVars, localVars
<1>3. OnePlace' /\ Counted' /\ SinglePoll'
  BY <1>1 DEF OnePlace, Counted, SinglePoll, WakeSignal, pollVars, localVars
<1>4. pc = "dropped" => wake_queue = <<>>
  <2>1. ASSUME wake_queue # <<>> PROVE Blocked # {}
    <3>1. 1 \in 1..Len(wake_queue) /\ wake_queue[1] \in Reqs
      BY <2>1 DEF TypeOK
    <3> QED
      BY <3>1 DEF OnePlace, Blocked
  <2> QED
    BY <2>1, Zenon DEF DroppedIsQuiet
<1>5. NoStrandedWake'
  BY <1>4, Zenon DEF NoStrandedWake, WakeSignal
<1> QED
  BY <1>1, <1>2, <1>3, <1>5, Zenon
  DEF WakeSignal, Readable, ReadNeverBlocks, DroppedIsQuiet, pollVars, TypeOK

(* The poll completes. *)
LEMMA PollFiresIInv ==
  ASSUME IInv, PollFires PROVE IInv'
<1> USE DEF IInv
<1>1. Blocked' = Blocked
  BY DEF Blocked, PollFires
<1>2. TypeOK'
  BY DEF TypeOK, PollFires, localVars
<1>3. OnePlace' /\ Counted'
  BY <1>1 DEF OnePlace, Counted, PollFires, localVars
<1>4. SinglePoll'
  BY DEF SinglePoll, TypeOK, PollFires
<1> QED
  BY <1>1, <1>2, <1>3, <1>4
  DEF PollFires, Readable, ReadNeverBlocks, NoStrandedWake, DroppedIsQuiet

-----------------------------------------------------------------------------
(* Every step of the protocol preserves the invariant. *)
LEMMA NextIInv == IInv /\ [Next]_vars => IInv'
<1> SUFFICES ASSUME IInv, [Next]_vars PROVE IInv'
  BY Zenon
<1>1. CASE UNCHANGED vars
  BY <1>1
  DEF vars, IInv, TypeOK, OnePlace, Counted, Blocked, SinglePoll, Readable,
      ReadNeverBlocks, NoStrandedWake, DroppedIsQuiet
<1>2. CASE Terminated
  BY <1>1, <1>2 DEF Terminated
<1> QED
  BY <1>1, <1>2, PrepareWakeIInv, ProcessWakeIInv, ProcessWakeColdIInv,
     DrainIInv, CompleteNextIInv, NextBatchIInv, RearmIInv, DropEngineIInv,
     StartWorkIInv, WakePushIInv, WakeSignalIInv, PollFiresIInv, Zenon
  DEF Next

(* The inductive invariant holds of the wake protocol of engine.rs. *)
THEOREM Invariance == Spec => []IInv
  BY InitIInv, NextIInv, PTL DEF Spec

(* The state of prepare_wake, wake and process_wake stays well typed; in    *)
(* particular expected_wakes - woken never underflows.                      *)
THEOREM TypeCorrect == Spec => []TypeOK
<1>1. IInv => TypeOK
  BY DEF IInv
<1> QED
  BY Invariance, <1>1, PTL

(* There is never a second poll on event_request, and always one while      *)
(* wakes are expected.                                                      *)
THEOREM SinglePollHolds == Spec => []SinglePoll
<1>1. IInv => SinglePoll
  BY DEF IInv
<1> QED
  BY Invariance, <1>1, PTL

(* process_wake never aborts on reading the event fd. *)
THEOREM ReadNeverBlocksHolds == Spec => []ReadNeverBlocks
<1>1. IInv => ReadNeverBlocks
  BY DEF IInv
<1> QED
  BY Invariance, <1>1, PTL

(* No request queued by wake() is stranded. *)
THEOREM NoStrandedWakeHolds == Spec => []NoStrandedWake
<1>1. IInv => NoStrandedWake
  BY DEF IInv
<1> QED
  BY Invariance, <1>1, PTL

LEMMA IInvHasWork == IInv => HasWorkIffBlocked
  BY BlockedFinite
  DEF IInv, HasWorkIffBlocked, Counted, SinglePoll, HasWork, TypeOK

(* has_work() is true exactly while a task waits for another thread, so     *)
(* that Driver::exit neither leaves it behind nor waits for nothing.        *)
THEOREM HasWorkIffBlockedHolds == Spec => []HasWorkIffBlocked
  BY Invariance, IInvHasWork, PTL

(* The detailed protocol implements the waker's contract: each request goes *)
(* through prepare, wake and completion in that order, one of each.         *)
THEOREM WakeImplementsWaker == Spec => ImplementsWaker
<1>1. Init => Contract!Init
  BY Zenon DEF Init, Contract!Init, WakerStatus
<1>2. IInv /\ [Next]_vars => [Contract!Next]_WakerStatus
  <2> SUFFICES ASSUME IInv, [Next]_vars
               PROVE  Contract!Next \/ UNCHANGED WakerStatus
    OBVIOUS
  <2> USE DEF IInv, TypeOK
  <2>1. ASSUME NEW r \in Reqs, PrepareWake(r) PROVE Contract!Prepare(r)
    BY <2>1, Zenon
    DEF PrepareWake, ExpectWake, Contract!Prepare, Contract!Move, WakerStatus
  <2>2. ASSUME NEW r \in Reqs, WakePush(r) PROVE Contract!Wake(r)
    BY <2>2, Zenon DEF WakePush, Contract!Wake, Contract!Move, WakerStatus
  <2>3. ASSUME NEW r \in Reqs, StartWork(r) PROVE UNCHANGED WakerStatus
    BY <2>3, Zenon DEF StartWork, WakerStatus
  <2>4. ASSUME CompleteNext PROVE Contract!Complete(Head(batch))
    <3>1. Head(batch) \in Reqs /\ req[Head(batch)] = "woken"
      BY <2>4 DEF CompleteNext, OnePlace
    <3> QED
      BY <2>4, <3>1, Zenon
      DEF CompleteNext, Contract!Complete, Contract!Move, WakerStatus
  <2>5. CompleteNext => Head(batch) \in Reqs
    BY DEF CompleteNext
  <2>6. UNCHANGED req => UNCHANGED WakerStatus
    BY DEF WakerStatus
  <2> QED
    BY <2>1, <2>2, <2>3, <2>4, <2>5, <2>6, Zenon
    DEF Next, vars, Contract!Next, ProcessWake, BeginWake, ProcessWakeCold,
        Drain, NextBatch, Rearm, SettleWakes, DropEngine, WakeSignal, PollFires, Terminated
<1> QED
  BY <1>1, <1>2, Invariance, PTL DEF Spec, ImplementsWaker, Contract!Spec
=============================================================================
