--------------------------- MODULE IoUringProofs ----------------------------
(***************************************************************************)
(* Proofs about module IoUring, for rings of any size, any number of        *)
(* requests, every platform and a kernel that may run out of memory.        *)
(*                                                                         *)
(* The inductive invariant IInv has four parts, each inductive relative to  *)
(* the ones before it.  The first two, RingInv and OnePlace, are the        *)
(* subject of modules RingProofs and PlaceProofs.  CancelInv is about the   *)
(* order of the entries in the submission ring, Counted about the engine's  *)
(* counters.                                                                *)
(***************************************************************************)
EXTENDS PlaceProofs

-----------------------------------------------------------------------------
(* Sums of counts.                                                          *)

LEMMA Regroup ==
  \A a, b \in Nat, d \in Int : a + (b - d) = (a + b) - d /\ (a + d) + b = (a + b) + d
PROOF
  OBVIOUS

(* Where one of five counts is not zero and the sum is one, that is all.    *)
LEMMA OnlyOne ==
  \A a, b, c, d, e \in Nat, p \in {0, 1} :
    a + b + c + d + e = p /\ b > 0 => p = 1 /\ a + b = 1
PROOF
  OBVIOUS

-----------------------------------------------------------------------------
(* The invariant.                                                           *)

(* A cancel operation that waits in the submission ring is for a request    *)
(* that is still being cancelled, or finds nothing to cancel: its target is *)
(* not in flight, nor ahead of it in the ring.                              *)
Queued ==
  \A i \in Window(sq_khead, sq_tail), r \in Reqs :
    sqes[i % SqEntries].cancels = r =>
      \/ r \in cancelling
      \/ /\ inflight[r] = 0
         /\ \A j \in Window(sq_khead, i) : sqes[j % SqEntries].data # r

(* What a cancel operation has hit is in flight, and being cancelled. *)
Doomed == \A r \in doomed : r \in Reqs /\ r \in cancelling /\ inflight[r] > 0

CancelInv == cancelling \subseteq pending /\ Queued /\ Doomed

(* OnTheirWay is finite although Reqs need not be: the rings and the        *)
(* kernel's lists hold what was started so far.                             *)
Counted == IsFiniteSet(OnTheirWay) /\ CountersExact

IInv == RingInv /\ OnePlace /\ CancelInv /\ Counted

-----------------------------------------------------------------------------
(* Cancel operations.                                                       *)

LEMMA InitCancel == Init => CancelInv
PROOF
  <1> SUFFICES ASSUME Init PROVE CancelInv
    OBVIOUS
  <1>1. Window(sq_khead, sq_tail) = {}
    <2>1. 0 \in Index
      BY Constants DEF Index
    <2> QED BY <2>1, WindowEmpty, Zenon DEF Init
  <1> QED BY <1>1 DEF Init, CancelInv, Queued, Doomed

LEMMA MovesCancel == RingInv /\ OnePlace /\ CancelInv /\ Moves => CancelInv'
PROOF
  (* The positions before one of a window are positions of the window. *)
  <1>Before.
    ASSUME NEW a \in Index, NEW b \in Index, NEW i \in Window(a, b)
    PROVE  Window(a, i) \subseteq Window(a, b)
    BY <1>Before, WindowWithout
  <1>Push.
    ASSUME RingInv, CancelInv, NEW e \in Sqe, Push(e), ~Submitting,
           e.cancels \in Reqs => e.cancels \in cancelling',
           cancelling \subseteq cancelling', cancelling' \subseteq pending',
           UNCHANGED <<sq_khead, inflight, doomed>>
    PROVE  CancelInv'
    <2> USE <1>Push
    <2> Counting
      BY DEF RingInv
    <2> DEFINE W == Window(sq_khead, sq_tail)
    <2>1. /\ Window(sq_khead, sq_tail') = W \cup {sq_tail}
          /\ sqes'[sq_tail % SqEntries] = e
          /\ \A i \in W : sqes'[i % SqEntries] = sqes[i % SqEntries]
      BY PushRing
    <2>2. sq_khead \in Index /\ sq_tail \in Index
      BY DEF RingInv, TypeOK
    <2>3. ASSUME NEW i \in W, NEW r \in Reqs, sqes'[i % SqEntries].cancels = r
          PROVE  \/ r \in cancelling'
                 \/ /\ inflight[r] = 0
                    /\ \A j \in Window(sq_khead, i) : sqes'[j % SqEntries].data # r
      <3>1. Window(sq_khead, i) \subseteq W
        BY <2>2, <1>Before, Zenon
      <3>2. \/ r \in cancelling
            \/ /\ inflight[r] = 0
               /\ \A j \in Window(sq_khead, i) : sqes[j % SqEntries].data # r
        BY <2>1, <2>3 DEF CancelInv, Queued
      <3> QED BY <2>1, <3>1, <3>2, Zenon
    <2>4. Queued'
      <3> SUFFICES ASSUME NEW i \in W \cup {sq_tail}, NEW r \in Reqs,
                          sqes'[i % SqEntries].cancels = r
                   PROVE  \/ r \in cancelling'
                          \/ /\ inflight[r] = 0
                             /\ \A j \in Window(sq_khead, i) :
                                  sqes'[j % SqEntries].data # r
        BY <2>1 DEF Queued
      <3>1. CASE i = sq_tail
        BY <2>1, <3>1, Zenon
      <3>2. CASE i \in W
        BY <2>3, <3>2
      <3> QED BY <3>1, <3>2, Zenon
    <2>5. Doomed'
      BY DEF CancelInv, Doomed
    <2> QED BY <2>4, <2>5 DEF CancelInv
  <1>Starts.
    ASSUME RingInv, CancelInv, NEW r \in Reqs, Starts(r)
    PROVE  CancelInv'
    <2> USE <1>Starts
    <2>1. /\ pending' = pending \cup {r} /\ Push(IoSqe(r)) /\ ~Submitting
          /\ UNCHANGED <<sq_khead, inflight, doomed, cancelling>>
      BY DEF Starts, StartAsync, TasksRun, Submitting, kernelVars
    <2>2. IoSqe(r) \in Sqe /\ IoSqe(r).cancels = NoOp
      BY DEF IoSqe, Sqe, UserData
    <2>3. cancelling' \subseteq pending'
      BY <2>1 DEF CancelInv
    <2> QED BY <2>1, <2>2, <2>3, <1>Push, IoUringAssumption, ZenonT(40)
  <1>Cancel.
    ASSUME RingInv, CancelInv, NEW r \in Reqs, Cancel(r)
    PROVE  CancelInv'
    <2> USE <1>Cancel
    <2>1. /\ r \in pending /\ cancelling' = cancelling \cup {r}
          /\ Push(CancelSqe(r)) /\ ~Submitting
          /\ UNCHANGED <<sq_khead, inflight, doomed, pending>>
      BY DEF Cancel, StartAsync, TasksRun, Submitting, kernelVars
    <2>2. CancelSqe(r) \in Sqe /\ CancelSqe(r).cancels = r
      BY DEF CancelSqe, Sqe, UserData
    <2>3. cancelling' \subseteq pending'
      BY <2>1 DEF CancelInv
    <2> QED BY <2>1, <2>2, <2>3, <1>Push, ZenonT(40)
  <1>CompatWait.
    ASSUME RingInv, CancelInv, CompatWait
    PROVE  CancelInv'
    <2> USE <1>CompatWait
    <2>1. /\ Push(TimeoutSqe) /\ ~Submitting
          /\ UNCHANGED <<sq_khead, inflight, doomed, pending, cancelling>>
      BY DEF CompatWait, CanReturn, Submitting, kernelVars, taskVars
    <2>2. TimeoutSqe \in Sqe /\ TimeoutSqe.cancels = NoOp
      BY DEF TimeoutSqe, Sqe, UserData
    <2>3. cancelling' \subseteq pending'
      BY <2>1 DEF CancelInv
    <2> QED BY <2>1, <2>2, <2>3, <1>Push, IoUringAssumption, ZenonT(40)
  (* The kernel takes entries: a cancel among them hits what is in flight or  *)
  (* is taken before it, and that is still being cancelled.                   *)
  <1>Take.
    ASSUME RingInv, CancelInv, NEW k \in 0..Distance(sq_khead, sq_tail), Take(k),
           UNCHANGED <<sqes, sq_tail, pending, cancelling>>
    PROVE  CancelInv'
    <2> USE <1>Take
    <2> Counting
      BY DEF RingInv
    <2> DEFINE A == Window(sq_khead, sq_khead')
               B == Window(sq_khead', sq_tail)
               es == Taken(k)
    <2>0. TypeOK /\ sq_khead \in Index /\ sq_tail \in Index
          /\ inflight \in [UserData -> Nat]
      BY DEF RingInv, TypeOK
    <2>1. /\ sq_khead' \in Index /\ Distance(sq_khead, sq_khead') = k
          /\ Window(sq_khead, sq_tail) = A \cup B /\ A \cap B = {}
          /\ Distance(sq_khead', sq_tail) = Distance(sq_khead, sq_tail) - k
      BY <2>0, TakeRing
    <2> DEFINE T(r) == {i \in 1..k : es[i].data = r}
               new(r) == Cardinality(T(r))
    <2>2. ASSUME NEW r \in Reqs
          PROVE  /\ inflight'[r] = inflight[r] + new(r)
                 /\ new(r) \in Nat /\ (new(r) = 0 <=> T(r) = {})
                 /\ inflight[r] \in Nat
      <3>1. inflight'[r] = inflight[r] + new(r)
        BY DEF Take, UserData
      <3>2. new(r) \in Nat /\ (new(r) = 0 <=> T(r) = {})
        <4>1. k \in Int
          OBVIOUS
        <4>2. IsFiniteSet(1..k)
          BY <4>1, IntervalCount
        <4>3. T(r) \subseteq 1..k
          OBVIOUS
        <4> HIDE DEF T
        <4> QED BY <4>2, <4>3, PartFinite
      <3>3. inflight[r] \in Nat
        BY <2>0 DEF UserData
      <3> HIDE DEF new, T
      <3> QED BY <3>1, <3>2, <3>3, ZenonT(40)
    <2> HIDE DEF new
    \* the position that the i-th entry is taken from
    <2> DEFINE at(i) == (sq_khead + i - 1) % IndexSpace
    <2>3. ASSUME NEW i \in 1..k
          PROVE  /\ at(i) \in Window(sq_khead, sq_tail) /\ at(i) \in A
                 /\ Distance(sq_khead, at(i)) = i - 1
                 /\ es[i] = sqes[at(i) % SqEntries]
      <3>1. at(i) \in Index /\ Distance(sq_khead, at(i)) = i - 1
            /\ es[i] = sqes[at(i) % SqEntries]
        BY <2>0, TakenEntry
      <3>2. i - 1 < k
        OBVIOUS
      <3> HIDE DEF at
      <3>3. at(i) \in A
        BY <2>0, <2>1, <3>1, <3>2, WindowIs
      <3> QED BY <2>1, <3>1, <3>3, Zenon
    <2> HIDE DEF at
    <2>4. ASSUME NEW i \in 1..k, NEW j \in 1..(i - 1)
          PROVE  at(j) \in Window(sq_khead, at(i))
      <3>1. at(i) \in Index /\ at(j) \in Index
        BY <2>0, <2>3, WindowCount
      <3>2. Distance(sq_khead, at(j)) < Distance(sq_khead, at(i))
        BY <2>3
      <3> QED BY <2>0, <3>1, <3>2, WindowIs, ZenonT(40)
    <2>5. ASSUME NEW i \in B
          PROVE  A \subseteq Window(sq_khead, i) /\ Window(sq_khead', i) \subseteq Window(sq_khead, i)
      <3>1. i \in Index /\ Distance(sq_khead', i) < Distance(sq_khead', sq_tail)
        BY <2>0, <2>1, WindowIs, ZenonT(40)
      <3>2. /\ Distance(sq_khead, i) \in Index /\ Distance(sq_khead', i) \in Index
            /\ Distance(sq_khead, sq_tail) \in Index
            /\ Distance(sq_khead', sq_tail) \in Index
        BY <2>0, <2>1, <3>1, DistanceIs, Zenon
      <3>3. k <= Distance(sq_khead, i)
        <4>1. i \notin A
          BY <2>1, Zenon
        <4>2. ~(Distance(sq_khead, i) < k)
          BY <2>0, <2>1, <3>1, <4>1, WindowIs, ZenonT(40)
        <4> QED BY <3>2, <4>2, Constants DEF Index
      <3> QED BY <2>0, <2>1, <3>1, <3>3, WindowCut
    <2>6. Queued'
      <3> SUFFICES ASSUME NEW i \in B, NEW r \in Reqs, sqes[i % SqEntries].cancels = r,
                          r \notin cancelling
                   PROVE  /\ inflight'[r] = 0
                          /\ \A j \in Window(sq_khead', i) : sqes[j % SqEntries].data # r
        BY Zenon DEF Queued
      <3>1. /\ inflight[r] = 0
            /\ \A j \in Window(sq_khead, i) : sqes[j % SqEntries].data # r
        BY <2>1, Zenon DEF CancelInv, Queued
      <3>2. T(r) = {}
        BY <2>3, <2>5, <3>1, ZenonT(40)
      <3> HIDE DEF T
      <3>3. inflight'[r] = 0
        BY <2>2, <3>1, <3>2
      <3> QED BY <2>5, <3>1, <3>3, Zenon
    <2>7. Doomed'
      <3> SUFFICES ASSUME NEW r \in doomed'
                   PROVE  r \in Reqs /\ r \in cancelling /\ inflight'[r] > 0
        BY DEF Doomed
      <3>1. CASE r \in doomed
        <4>1. r \in Reqs /\ r \in cancelling /\ inflight[r] > 0
          BY <3>1 DEF CancelInv, Doomed
        <4> HIDE DEF T
        <4> QED BY <2>2, <4>1
      <3>2. CASE r \notin doomed
        <4>1. r \in Reqs /\ \E i \in 1..k :
                /\ es[i].cancels = r
                /\ inflight[r] > 0 \/ \E j \in 1..(i - 1) : es[j].data = r
          BY <3>2 DEF Take
        <4>2. PICK i \in 1..k :
                /\ es[i].cancels = r
                /\ inflight[r] > 0 \/ \E j \in 1..(i - 1) : es[j].data = r
          BY <4>1, Zenon
        <4> HIDE DEF es
        <4>3. r \in cancelling
          <5> SUFFICES ASSUME r \notin cancelling PROVE FALSE
            OBVIOUS
          <5>1. /\ inflight[r] = 0
                /\ \A j \in Window(sq_khead, at(i)) : sqes[j % SqEntries].data # r
            BY <2>3, <4>1, <4>2, Zenon DEF CancelInv, Queued
          <5>2. PICK j \in 1..(i - 1) : es[j].data = r
            BY <4>2, <5>1
          <5>3. j \in 1..k
            OBVIOUS
          <5> QED BY <2>3, <2>4, <5>1, <5>2, <5>3, Zenon
        <4>4. inflight'[r] > 0
          <5>1. CASE inflight[r] > 0
            <6> HIDE DEF T
            <6> QED BY <2>2, <4>1, <5>1
          <5>2. CASE ~(inflight[r] > 0)
            <6>1. PICK j \in 1..(i - 1) : es[j].data = r
              BY <4>2, <5>2
            <6>2. j \in T(r)
              BY <6>1
            <6>3. T(r) # {}
              BY <6>2
            <6> HIDE DEF T
            <6> QED BY <2>2, <4>1, <6>3
          <5> QED BY <5>1, <5>2, Zenon
        <4> QED BY <4>1, <4>3, <4>4, Zenon
      <3> QED BY <3>1, <3>2, Zenon
    <2> QED BY <2>6, <2>7 DEF CancelInv
  <1>Submit.
    ASSUME RingInv, CancelInv, SubmitRest \/ SubmitSome
    PROVE  CancelInv'
    <2> USE <1>Submit
    <2>1. /\ pc = "enter" /\ UNCHANGED <<sqes, sq_tail, pending, cancelling>>
          /\ Take(call.left) \/ \E k \in 1..(call.left - 1) : Take(k)
      BY DEF SubmitRest, SubmitSome, taskVars
    <2>2. /\ Distance(sq_khead, sq_tail) = call.left /\ call.left \in Nat
      BY <2>1 DEF RingInv, TypeOK, SqSize, Submitting, Calls
    <2>3. PICK k \in 0..Distance(sq_khead, sq_tail) : Take(k)
      BY <2>1, <2>2
    <2> QED BY <2>1, <2>3, <1>Take, Zenon
  <1>Finish.
    ASSUME RingInv, CancelInv, NEW v \in UserData, Finish(v)
    PROVE  CancelInv'
    <2> USE <1>Finish
    <2>1. /\ doomed' = doomed \ {v} /\ inflight' = [inflight EXCEPT ![v] = @ - 1]
          /\ inflight[v] > 0
          /\ UNCHANGED <<sqes, sq_tail, sq_khead, pending, cancelling>>
      BY DEF Finish, sqVars, taskVars
    <2>2. inflight \in [UserData -> Nat]
      BY DEF RingInv, TypeOK
    <2>3. \A u \in UserData : u # v => inflight'[u] = inflight[u]
      BY <2>1, <2>2
    <2>4. \A r \in Reqs : inflight[r] = 0 => inflight'[r] = 0
      BY <2>1, <2>2, <2>3 DEF UserData
    <2>5. Queued'
      BY <2>1, <2>4, ZenonT(40) DEF CancelInv, Queued
    <2>6. Doomed'
      BY <2>1, <2>3, Zenon DEF CancelInv, Doomed, UserData
    <2> QED BY <2>1, <2>5, <2>6, Zenon DEF CancelInv
  (* A request that completes is nowhere any more, so that a cancel operation *)
  (* still in the ring finds nothing.                                         *)
  <1>Complete.
    ASSUME RingInv, CancelInv, NEW v \in UserData, Complete(v),
           v \in Reqs => InSq(v) = 0 /\ inflight[v] = 0,
           UNCHANGED <<sqes, sq_tail, sq_khead, inflight, doomed>>
    PROVE  CancelInv'
    <2> USE <1>Complete
    <2>1. pending' = pending \ {v} /\ cancelling' = cancelling \ {v}
      BY DEF Complete
    <2>2. v \in Reqs => \A j \in Window(sq_khead, sq_tail) : sqes[j % SqEntries].data # v
      BY CountTypes, Zenon
    <2>3. sq_khead \in Index /\ sq_tail \in Index
      BY DEF RingInv, TypeOK
    <2>4. Queued'
      <3> SUFFICES ASSUME NEW i \in Window(sq_khead, sq_tail), NEW r \in Reqs,
                          sqes[i % SqEntries].cancels = r, r \notin cancelling'
                   PROVE  /\ inflight[r] = 0
                          /\ \A j \in Window(sq_khead, i) : sqes[j % SqEntries].data # r
        BY DEF Queued
      <3>1. Window(sq_khead, i) \subseteq Window(sq_khead, sq_tail)
        BY <2>3, <1>Before, Zenon
      <3>2. CASE r \notin cancelling
        BY <3>2, Zenon DEF CancelInv, Queued
      <3>3. CASE r = v
        BY <2>2, <3>1, <3>3, Zenon
      <3> QED BY <2>1, <3>2, <3>3, Zenon
    <2>5. Doomed'
      BY <2>1 DEF CancelInv, Doomed
    <2> QED BY <2>1, <2>4, <2>5, Zenon DEF CancelInv
  <1>Same.
    ASSUME CancelInv,
           UNCHANGED <<sqes, sq_tail, sq_khead, inflight, doomed, pending, cancelling>>
    PROVE  CancelInv'
    BY <1>Same DEF CancelInv, Queued, Doomed
  <1>Kernel.
    ASSUME RingInv, CancelInv, KernelStep
    PROVE  CancelInv'
    <2> USE <1>Kernel
    <2>1. ASSUME NEW u \in UserData, RunTaskWork(u)
          PROVE  CancelInv'
      BY <2>1, <1>Same, Zenon DEF RunTaskWork, sqVars, taskVars
    <2>2. CASE FlushOverflow
      BY <2>2, <1>Same, Zenon DEF FlushOverflow, sqVars, kernelVars, taskVars
    <2> QED BY <2>1, <2>2, <1>Submit, <1>Finish, Zenon DEF KernelStep
  <1>NextEvent.
    ASSUME RingInv, OnePlace, CancelInv, NextEvent
    PROVE  CancelInv'
    <2> USE <1>NextEvent
    <2>1. UNCHANGED <<sqes, sq_tail, sq_khead, inflight, doomed>>
      BY DEF NextEvent, sqVars, kernelVars
    <2>2. ASSUME NEW v \in UserData, Complete(v), InCq(Unread, v) >= 1,
                 \A u \in UserData : Place(u)' = Place(u) - One(u = v)
          PROVE  CancelInv'
      BY <2>1, <2>2, CompletePlace, <1>Complete, ZenonT(40)
    <2> QED BY <2>1, <2>2, NextEventCount, <1>Same, ZenonT(40)
  <1>Reads.
    ASSUME RingInv, OnePlace, CancelInv, Reads
    PROVE  CancelInv'
    <2> USE <1>Reads
    <2> Counting
      BY DEF RingInv
    <2>1. UNCHANGED <<sqes, sq_tail, sq_khead, inflight, doomed>>
      BY Zenon DEF Reads
    <2>2. CASE CqCount = 0
      BY <2>1, <2>2, <1>Same, ZenonT(40) DEF Reads, RunEvents
    <2>3. CASE CqCount # 0
      <3>1. ASSUME NEW v \in UserData, Complete(v), InCq(Unread, v) >= 1,
                   \A u \in UserData : Place(u)' = Place(u) - One(u = v)
            PROVE  CancelInv'
        BY <2>1, <3>1, CompletePlace, <1>Complete, ZenonT(40)
      <3> QED BY <2>3, <3>1, RunEventsCount, ZenonT(40) DEF Reads
    <2> QED BY <2>2, <2>3, ZenonT(40)
  <1>1. ASSUME CancelInv, Quiet PROVE CancelInv'
    BY <1>1, <1>Same, ZenonT(40) DEF Quiet
  <1> QED BY <1>1, <1>Starts, <1>Cancel, <1>CompatWait, <1>Kernel,
             <1>NextEvent, <1>Reads, ZenonT(40)
          DEF Moves

-----------------------------------------------------------------------------
(* The counters.                                                            *)

(* Pairs that number low[u] things for every u, and as many more as W holds *)
(* of that kind: all of W is counted.                                       *)
Pairs(U, n) == UNION {{u} \X (1..n[u]) : u \in U}

LEMMA PairIn ==
  ASSUME NEW U, NEW n, NEW x
  PROVE  x \in Pairs(U, n) <=> \E u \in U : \E k \in 1..n[u] : x = <<u, k>>
PROOF
  BY DEF Pairs

Ways == [u \in UserData |-> Way(u)]

LEMMA OnTheirWayIs == OnTheirWay = Pairs(UserData, Ways)
PROOF
  <1>1. \A u \in UserData : Ways[u] = InSq(u) + InKernel(u) + InCq(Ahead, u)
    BY Zenon DEF Ways, Way
  <1> QED BY <1>1 DEF OnTheirWay, Pairs

LEMMA InitCounted == Counting /\ Init => Counted
PROOF
  <1> SUFFICES ASSUME Counting, Init PROVE Counted
    OBVIOUS
  <1>1. \A u \in UserData : Way(u) = 0
    <2> SUFFICES ASSUME NEW u \in UserData PROVE Way(u) = 0
      OBVIOUS
    <2>1. Window(sq_khead, sq_tail) = {} /\ Window(cq_khead, cq_ktail) = {}
      <3>1. 0 \in Index
        BY Constants DEF Index
      <3> QED BY <3>1, WindowEmpty DEF Init
    <2>2. InSq(u) = 0
      BY <2>1, Zenon DEF InSq, Counting
    <2>3. InCq(Ahead, u) = 0
      <3>1. Ahead = {}
        BY <2>1, Zenon DEF Ahead, Init
      <3> QED BY <3>1 DEF InCq, Counting
    <2>4. InKernel(u) = 0
      <3>1. {i \in DOMAIN overflow : overflow[i] = u} = {}
        BY DEF Init
      <3> QED BY <3>1 DEF InKernel, Init, Counting
    <2> QED BY <2>2, <2>3, <2>4 DEF Way
  <1>2. OnTheirWay = {}
    <2> SUFFICES ASSUME NEW x \in OnTheirWay PROVE FALSE
      OBVIOUS
    <2>1. \E u \in UserData : \E k \in 1..Ways[u] : x = <<u, k>>
      BY OnTheirWayIs, PairIn
    <2> QED BY <1>1, <2>1 DEF Ways
  <1> QED BY <1>2 DEF Counted, CountersExact, Init, Counting

(* all counts what low counts, and the elements of W by their kinds. *)
MoreByKind(U, W, kind, low, all) ==
  \A u \in U : all[u] = low[u] + Cardinality({i \in W : kind[i] = u})

LEMMA MovesCounted == RingInv /\ Counted /\ Moves => Counted'
PROOF
  <1>CountByKind.
    ASSUME Counting, NEW U, NEW W, IsFiniteSet(W), NEW kind \in [W -> U],
           NEW low \in [U -> Nat], NEW all \in [U -> Nat],
           MoreByKind(U, W, kind, low, all), IsFiniteSet(Pairs(U, all))
    PROVE  /\ IsFiniteSet(Pairs(U, low))
           /\ Cardinality(Pairs(U, all)) = Cardinality(Pairs(U, low)) + Cardinality(W)
    <2> USE <1>CountByKind
    <2> DEFINE Of(u) == {i \in W : kind[i] = u}
               c(u) == Cardinality(Of(u))
               f(u) == CHOOSE h : h \in Bijection(1..c(u), Of(u))
               b(u) == [i \in Of(u) |-> CHOOSE n \in 1..c(u) : f(u)[n] = i]
               High == Pairs(U, all) \ Pairs(U, low)
               g == [i \in W |-> <<kind[i], low[kind[i]] + b(kind[i])[i]>>]
    <2>1. ASSUME NEW u \in U
          PROVE  /\ c(u) \in Nat /\ low[u] \in Nat /\ all[u] = low[u] + c(u)
                 /\ b(u) \in [Of(u) -> 1..c(u)]
                 /\ \A i, j \in Of(u) : b(u)[i] = b(u)[j] => i = j
                 /\ \A n \in 1..c(u) : \E i \in Of(u) : b(u)[i] = n
      <3>1. IsFiniteSet(Of(u)) /\ c(u) \in Nat
        <4>1. Of(u) \subseteq W
          OBVIOUS
        <4> HIDE DEF Of
        <4> QED BY <4>1, PartFinite
      <3>2. low[u] \in Nat /\ all[u] = low[u] + c(u)
        BY Zenon DEF MoreByKind
      <3> HIDE DEF Of
      <3>3. f(u) \in Bijection(1..c(u), Of(u))
        BY <3>1 DEF ExistsBijection, Counting
      <3> HIDE DEF c, f
      <3>4. /\ f(u) \in [1..c(u) -> Of(u)]
            /\ \A n, m \in 1..c(u) : f(u)[n] = f(u)[m] => n = m
            /\ \A i \in Of(u) : \E n \in 1..c(u) : f(u)[n] = i
        <4> DEFINE S == 1..c(u)
                   T == Of(u)
                   h == f(u)
        <4>1. h \in Bijection(S, T)
          BY <3>3
        <4> HIDE DEF S, T, h
        <4>2. /\ h \in [S -> T]
              /\ \A n, m \in S : h[n] = h[m] => n = m
              /\ \A i \in T : \E n \in S : h[n] = i
          BY <4>1 DEF Bijection, Injection, IsInjective, Surjection
        <4> QED BY <4>2 DEF S, T, h
      <3>5. ASSUME NEW i \in Of(u)
            PROVE  b(u)[i] \in 1..c(u) /\ f(u)[b(u)[i]] = i
        BY <3>4, Zenon
      <3>6. /\ b(u) \in [Of(u) -> 1..c(u)]
            /\ \A i, j \in Of(u) : b(u)[i] = b(u)[j] => i = j
        BY <3>5, Zenon
      <3>7. ASSUME NEW n \in 1..c(u) PROVE \E i \in Of(u) : b(u)[i] = n
        <4>1. f(u)[n] \in Of(u)
          BY <3>4, Zenon
        <4> QED BY <3>4, <3>5, <4>1
      <3> QED BY <3>1, <3>2, <3>6, <3>7, Zenon
    <2>2. ASSUME NEW i \in W
          PROVE  /\ kind[i] \in U /\ i \in Of(kind[i])
                 /\ g[i] = <<kind[i], low[kind[i]] + b(kind[i])[i]>>
      OBVIOUS
    <2>3. ASSUME NEW u \in U, NEW i \in Of(u)
          PROVE  i \in W /\ kind[i] = u
      OBVIOUS
    <2> HIDE DEF Of, b, c, g
    <2>4. Pairs(U, low) \subseteq Pairs(U, all)
      <3> SUFFICES ASSUME NEW u \in U, NEW n \in 1..low[u]
                   PROVE  <<u, n>> \in Pairs(U, all)
        BY PairIn
      <3>1. n \in 1..all[u]
        BY <2>1
      <3> QED BY <3>1, PairIn, Zenon
    <2>5. ASSUME NEW x
          PROVE  x \in High <=> \E u \in U : \E n \in 1..c(u) : x = <<u, low[u] + n>>
      <3>1. ASSUME x \in High
            PROVE  \E u \in U : \E n \in 1..c(u) : x = <<u, low[u] + n>>
        <4>0. PICK u \in U : \E k \in 1..all[u] : x = <<u, k>>
          BY <3>1, PairIn
        <4>1. PICK k \in 1..all[u] : x = <<u, k>>
          BY <4>0
        <4>2. k \notin 1..low[u]
          BY <3>1, <4>1, PairIn, Zenon
        <4>3. k - low[u] \in 1..c(u) /\ k = low[u] + (k - low[u])
          BY <2>1, <4>1, <4>2
        <4> QED BY <4>1, <4>3, Zenon
      <3>2. ASSUME NEW u \in U, NEW n \in 1..c(u), x = <<u, low[u] + n>>
            PROVE  x \in High
        <4>1. low[u] + n \in 1..all[u] /\ low[u] + n \notin 1..low[u]
          BY <2>1
        <4> QED BY <3>2, <4>1, PairIn
      <3> QED BY <3>1, <3>2, Zenon
    <2>6. g \in [W -> High]
      <3>1. ASSUME NEW i \in W PROVE g[i] \in High
        <4>1. b(kind[i])[i] \in 1..c(kind[i])
          BY <2>1, <2>2
        <4> HIDE DEF High
        <4> QED BY <2>2, <2>5, <4>1, Zenon
      <3> QED BY <3>1, Zenon DEF g
    <2>7. ASSUME NEW i \in W, NEW j \in W, g[i] = g[j] PROVE i = j
      <3>1. kind[i] = kind[j] /\ low[kind[i]] + b(kind[i])[i] = low[kind[j]] + b(kind[j])[j]
        BY <2>2, <2>7
      <3>2. /\ b(kind[i])[i] \in 1..c(kind[i]) /\ b(kind[i])[j] \in 1..c(kind[i])
            /\ low[kind[i]] \in Nat /\ c(kind[i]) \in Nat
        BY <2>1, <2>2, <3>1, Zenon
      <3>3. b(kind[i])[i] = b(kind[i])[j]
        BY <3>1, <3>2
      <3> QED BY <2>1, <2>2, <3>1, <3>3, Zenon
    <2>8. ASSUME NEW x \in High PROVE \E i \in W : g[i] = x
      <3>0. PICK u \in U : \E n \in 1..c(u) : x = <<u, low[u] + n>>
        BY <2>5, Zenon
      <3>1. PICK n \in 1..c(u) : x = <<u, low[u] + n>>
        BY <3>0, ZenonT(40)
      <3>2. PICK i \in Of(u) : b(u)[i] = n
        BY <2>1
      <3> QED BY <2>2, <2>3, <3>1, <3>2, Zenon
    <2>9. ExistsBijection(W, High)
      <3> HIDE DEF High
      <3>1. g \in Bijection(W, High)
        BY <2>6, <2>7, <2>8, ZenonT(40) DEF Bijection, Injection, IsInjective, Surjection
      <3> QED BY <3>1, ZenonT(40) DEF ExistsBijection
    <2>10. IsFiniteSet(High) /\ Cardinality(High) = Cardinality(W)
      BY <2>9, SameCount, ZenonT(40)
    <2>11. IsFiniteSet(Pairs(U, low))
      BY <2>4, PartFinite, ZenonT(40)
    <2>12. Pairs(U, all) = Pairs(U, low) \cup High /\ Pairs(U, low) \cap High = {}
      BY <2>4
    <2> HIDE DEF High
    <2> QED BY <2>10, <2>11, <2>12, DisjointCount, Zenon
  <1>OnTheirWayNext.
    OnTheirWay' = Pairs(UserData, Ways')
    <2>1. \A u \in UserData : Ways'[u] = (InSq(u) + InKernel(u) + InCq(Ahead, u))'
      BY Zenon DEF Ways, Way
    <2> QED BY <2>1 DEF OnTheirWay, Pairs
  <1>WaysType.
    ASSUME RingInv
    PROVE  Ways \in [UserData -> Nat]
    BY <1>WaysType, PlaceParts, ZenonT(40) DEF Ways
  <1>SameWays.
    ASSUME \A u \in UserData : Way(u)' = Way(u)
    PROVE  OnTheirWay' = OnTheirWay
    <2> USE <1>SameWays
    <2>1. Ways' = Ways
      BY Zenon DEF Ways
    <2> QED BY <2>1, OnTheirWayIs, <1>OnTheirWayNext, ZenonT(40)
  (* One more operation, and one more that is counted. *)
  <1>Push.
    ASSUME RingInv, Counted, NEW e \in Sqe, Push(e), ~Submitting,
           UNCHANGED <<sq_khead, cqes, cq_ktail, overflow, cq_khead, inflight, taskwork, ev,
                       running>>,
           to_submit' >= 0, to_complete' >= 0, to_submit' \in Int, to_complete' \in Int,
           to_submit' + to_complete' = to_submit + to_complete + 1
    PROVE  Counted'
    <2> USE <1>Push
    <2> Counting
      BY DEF RingInv
    <2> DEFINE d == e.data
               new == <<d, Way(d) + 1>>
    <2>1. d \in UserData
      BY Zenon DEF Sqe
    <2>2. \A u \in UserData : Way(u)' = Way(u) + One(u = d) /\ Way(u) \in Nat
      BY PushPlaces, PlaceParts
    <2>3. /\ \A u \in UserData : Ways[u] = Way(u)
          /\ \A u \in UserData : Ways'[u] = Way(u)'
      BY Zenon DEF Ways
    <2>4. ASSUME NEW u \in UserData, NEW k
          PROVE  k \in 1..Ways'[u] <=> k \in 1..Ways[u] \/ (u = d /\ k = Way(d) + 1)
      <3>1. Ways'[u] = Ways[u] + One(u = d) /\ Ways[u] \in Nat /\ Ways[u] = Way(u)
        BY <2>2, <2>3, Zenon
      <3>2. CASE u = d
        BY <3>1, <3>2 DEF One
      <3>3. CASE u # d
        BY <3>1, <3>3 DEF One
      <3> QED BY <3>2, <3>3, Zenon
    <2> HIDE DEF d
    <2>5. OnTheirWay' = OnTheirWay \cup {new}
      <3>1. ASSUME NEW x
            PROVE  x \in OnTheirWay' <=> x \in OnTheirWay \/ x = new
        <4>1. x \in OnTheirWay' <=> \E u \in UserData : \E k \in 1..Ways'[u] : x = <<u, k>>
          BY <1>OnTheirWayNext, PairIn
        <4>2. x \in OnTheirWay <=> \E u \in UserData : \E k \in 1..Ways[u] : x = <<u, k>>
          BY OnTheirWayIs, PairIn
        <4> QED BY <2>1, <2>4, <4>1, <4>2, Zenon
      <3> QED BY <3>1, Zenon
    <2>6. new \notin OnTheirWay
      <3>1. new \in OnTheirWay => \E u \in UserData : \E k \in 1..Ways[u] : new = <<u, k>>
        BY OnTheirWayIs, PairIn
      <3>2. ~(Way(d) + 1 \in 1..Ways[d])
        BY <2>1, <2>2, <2>3
      <3> QED BY <3>1, <3>2, ZenonT(40)
    <2>7. /\ IsFiniteSet(OnTheirWay')
          /\ Cardinality(OnTheirWay') = Cardinality(OnTheirWay) + 1
      <3> HIDE DEF new
      <3> QED BY <2>5, <2>6, AddCount, ZenonT(40) DEF Counted
    <2>8. to_submit + to_complete = Cardinality(OnTheirWay)
      BY DEF Counted, CountersExact
    <2> QED BY <2>7, <2>8, ZenonT(40) DEF Counted, CountersExact
  <1>StartAsync.
    ASSUME RingInv, Counted, NEW e \in Sqe, TasksRun, StartAsync(e),
           UNCHANGED <<sq_khead, cqes, cq_ktail, overflow, cq_khead, inflight, taskwork, ev,
                       running>>
    PROVE  Counted'
    <2> USE <1>StartAsync
    <2>1. Push(e) /\ ~Submitting
      BY ZenonT(40) DEF StartAsync, TasksRun, Submitting
    <2>2. to_submit \in Nat /\ to_complete \in Int /\ to_complete >= 0
      BY DEF RingInv, TypeOK, Counted, CountersExact
    <2>3. \/ to_submit' = to_submit + 1 /\ to_complete' = to_complete
          \/ to_submit' = 0 /\ to_complete' = to_complete + (to_submit + 1)
      BY DEF StartAsync, Flush, Enter
    <2>4. /\ to_submit' >= 0 /\ to_complete' >= 0
          /\ to_submit' \in Int /\ to_complete' \in Int
          /\ to_submit' + to_complete' = to_submit + to_complete + 1
      BY <2>2, <2>3
    <2> QED BY <2>1, <2>4, <1>Push, Zenon
  <1>Start.
    ASSUME RingInv, Counted, NEW r \in Reqs, Starts(r) \/ Cancel(r)
    PROVE  Counted'
    <2> USE <1>Start
    <2>1. IoSqe(r) \in Sqe /\ CancelSqe(r) \in Sqe
      BY ZenonT(40) DEF IoSqe, CancelSqe, Sqe, UserData
    <2>2. /\ StartAsync(IoSqe(r)) \/ StartAsync(CancelSqe(r))
          /\ UNCHANGED <<sq_khead, cqes, cq_ktail, overflow, cq_khead, inflight, taskwork,
                         ev, running>>
      BY Zenon DEF Starts, Cancel, cqVars, kernelVars
    <2>3. TasksRun
      BY Zenon DEF Starts, Cancel
    <2> QED BY <2>1, <2>2, <2>3, <1>StartAsync, Zenon
  <1>CompatWait.
    ASSUME RingInv, Counted, CompatWait
    PROVE  Counted'
    <2> USE <1>CompatWait
    <2>1. /\ Push(TimeoutSqe) /\ ~Submitting /\ pc = "kernel"
          /\ UNCHANGED <<sq_khead, cqes, cq_ktail, overflow, cq_khead, inflight, taskwork, ev,
                         running>>
      BY ZenonT(40) DEF CompatWait, CanReturn, Submitting, cqVars, kernelVars
    <2>2. to_submit = 0 /\ to_complete \in Int /\ to_complete >= 0
      BY <2>1, ZenonT(40) DEF RingInv, TypeOK, SqSize, Counted, CountersExact
    <2>3. to_submit' = 0 /\ to_complete' = to_complete + 1
      BY ZenonT(40) DEF CompatWait, Enter
    <2>4. TimeoutSqe \in Sqe
      BY DEF TimeoutSqe, Sqe, UserData
    <2>5. /\ to_submit' >= 0 /\ to_complete' >= 0
          /\ to_submit' \in Int /\ to_complete' \in Int
          /\ to_submit' + to_complete' = to_submit + to_complete + 1
      BY <2>2, <2>3
    <2> QED BY <2>1, <2>4, <2>5, <1>Push, ZenonT(40)
  <1>Same.
    ASSUME Counted, \A u \in UserData : Way(u)' = Way(u),
           to_submit' >= 0, to_complete' >= 0,
           to_submit' + to_complete' = to_submit + to_complete
    PROVE  Counted'
    <2> USE <1>Same
    <2>1. OnTheirWay' = OnTheirWay
      BY <1>SameWays
    <2> QED BY <2>1 DEF Counted, CountersExact
  <1>Kernel.
    ASSUME RingInv, Counted, KernelStep
    PROVE  Counted'
    <2> USE <1>Kernel
    <2>1. to_submit >= 0 /\ to_complete >= 0
      BY DEF Counted, CountersExact
    <2> QED BY <2>1, KernelCount, <1>Same, ZenonT(40)
  <1>NextEvent.
    ASSUME RingInv, Counted, NextEvent
    PROVE  Counted'
    <2> USE <1>NextEvent
    <2>1. \A u \in UserData : Way(u)' = Way(u)
      BY NextEventCount
    <2>2. UNCHANGED <<to_submit, to_complete>>
      BY DEF NextEvent
    <2>3. to_submit >= 0 /\ to_complete >= 0
      BY DEF Counted, CountersExact
    <2> QED BY <2>1, <2>2, <2>3, <1>Same, Zenon
  <1>Quiet.
    ASSUME RingInv, Counted, Quiet
    PROVE  Counted'
    <2> USE <1>Quiet
    <2>1. \A u \in UserData : Way(u)' = Way(u)
      BY SamePlaces, ZenonT(40) DEF Quiet
    <2>2. to_submit \in Nat /\ to_complete \in Int /\ to_complete >= 0
      BY DEF RingInv, TypeOK, Counted, CountersExact
    <2>3. \/ UNCHANGED <<to_submit, to_complete>>
          \/ to_submit' = 0 /\ to_complete' = to_complete + to_submit
      BY DEF Quiet
    <2>4. /\ to_submit' >= 0 /\ to_complete' >= 0
          /\ to_submit' + to_complete' = to_submit + to_complete
      BY <2>2, <2>3
    <2> QED BY <2>1, <2>4, <1>Same, Zenon
  (* run_events() subtracts the whole ring at once: as many operations are    *)
  (* not on their way any more.                                               *)
  <1>Reads.
    ASSUME RingInv, Counted, Reads
    PROVE  Counted'
    <2> USE <1>Reads
    <2> Counting
      BY ZenonT(40) DEF RingInv
    <2>1. to_submit = 0 /\ to_submit' = 0 /\ to_complete \in Int /\ to_complete >= 0
      BY DEF RingInv, TypeOK, Counted, CountersExact, Reads
    <2>2. CASE CqCount = 0
      <3>1. UNCHANGED <<to_complete, ev, running>>
        BY <2>2, ZenonT(40) DEF Reads, RunEvents
      <3>2. \A u \in UserData : Way(u)' = Way(u)
        BY <3>1, SamePlaces, ZenonT(40) DEF Reads
      <3>3. to_submit' >= 0 /\ to_complete' >= 0
            /\ to_submit' + to_complete' = to_submit + to_complete
        BY <2>1, <3>1
      <3> QED BY <3>2, <3>3, <1>Same, Zenon
    <2>3. CASE CqCount # 0
      <3> DEFINE W == Window(cq_khead, cq_ktail)
                 kind == [i \in W |-> cqes[i % CqEntries]]
      <3>1. to_complete' = to_complete - CqCount
        BY <2>3, ZenonT(40) DEF Reads, RunEvents
      <3>2. IsFiniteSet(W) /\ Cardinality(W) = CqCount /\ CqCount \in Nat
        <4>1. cq_khead \in Index /\ cq_ktail \in Index
          BY DEF RingInv, TypeOK
        <4>2. CqCount \in Index
          BY <4>1, DistanceIs, Zenon DEF CqCount
        <4> QED BY <4>1, <4>2, WindowCount, Constants DEF CqCount, Index
      <3>3. kind \in [W -> UserData]
        BY SlotType
      <3>4. \A u \in UserData : Way(u)' = InSq(u) + InKernel(u)
        BY <2>3, RunEventsCount, Zenon DEF Reads
      <3>5. Ahead = W
        BY UnreadIs, Zenon DEF Reads
      <3>6. ASSUME NEW u \in UserData
            PROVE  /\ Ways[u] = Ways'[u] + Cardinality({i \in W : kind[i] = u})
                   /\ Ways'[u] \in Nat
        <4>1. InCq(Ahead, u) = Cardinality({i \in W : kind[i] = u})
          BY <3>5, Zenon DEF InCq
        <4>2. InSq(u) \in Nat /\ InKernel(u) \in Nat
          BY CountTypes, Zenon
        <4>3. Ways[u] = InSq(u) + InKernel(u) + InCq(Ahead, u)
          BY DEF Ways, Way
        <4>4. Ways'[u] = InSq(u) + InKernel(u)
          BY <3>4 DEF Ways
        <4> QED BY <4>1, <4>2, <4>3, <4>4
      <3>7. Ways' \in [UserData -> Nat]
        BY <3>6, Zenon DEF Ways
      <3>8. /\ IsFiniteSet(OnTheirWay')
            /\ Cardinality(OnTheirWay) = Cardinality(OnTheirWay') + Cardinality(W)
        <4> DEFINE all == Ways
                   low == Ways'
        <4>1. IsFiniteSet(Pairs(UserData, all)) /\ all \in [UserData -> Nat]
          BY OnTheirWayIs, <1>WaysType DEF Counted
        <4>2. low \in [UserData -> Nat]
          BY <3>7, Zenon
        <4>3. MoreByKind(UserData, W, kind, low, all)
          BY <3>6, ZenonT(40) DEF MoreByKind
        <4> HIDE DEF W, kind, all, low
        <4>4. /\ IsFiniteSet(Pairs(UserData, low))
              /\ Cardinality(Pairs(UserData, all)) =
                   Cardinality(Pairs(UserData, low)) + Cardinality(W)
          BY <3>2, <3>3, <4>1, <4>2, <4>3, <1>CountByKind
        <4> QED BY <4>4, OnTheirWayIs, <1>OnTheirWayNext, Zenon DEF all, low
      <3>9. Cardinality(OnTheirWay') \in Nat
        BY <3>8, Zenon DEF Counting
      <3>10. to_complete = Cardinality(OnTheirWay)
        BY <2>1 DEF Counted, CountersExact
      <3>11. to_complete' = Cardinality(OnTheirWay')
        BY <3>1, <3>2, <3>8, <3>9, <3>10
      <3> HIDE DEF W
      <3> QED BY <2>1, <3>8, <3>9, <3>11 DEF Counted, CountersExact
    <2> QED BY <2>2, <2>3, ZenonT(40)
  <1> QED BY <1>Start, <1>CompatWait, <1>Kernel, <1>NextEvent,
             <1>Reads, <1>Quiet, Zenon
          DEF Moves

-----------------------------------------------------------------------------
(* Driver::exit.                                                            *)

LEMMA NoWork ==
  ASSUME RingInv, Counted, pc = "tasks", ~HasWork, NEW u \in UserData
  PROVE  InSq(u) + InKernel(u) + InCq(Unread, u) = 0
PROOF
  <1>1. ~running
    BY Zenon DEF RingInv, Stack
  <1>2. Unread = Ahead
    BY <1>1, UnreadIs, Zenon
  <1>3. Cardinality(OnTheirWay) = 0
    BY DEF HasWork, Counted, CountersExact
  <1>4. OnTheirWay = {}
    BY <1>3, Zenon DEF Counted, RingInv, Counting
  <1>5. Way(u) \in Nat /\ Ways[u] = Way(u)
    BY PlaceParts DEF Ways
  <1>6. ~(Way(u) >= 1)
    <2> SUFFICES ASSUME Way(u) >= 1 PROVE FALSE
      OBVIOUS
    <2>1. 1 \in 1..Ways[u]
      BY <1>5
    <2>2. <<u, 1>> \in OnTheirWay
      BY <2>1, OnTheirWayIs, PairIn, Zenon
    <2> QED BY <1>4, <2>2
  <1>7. Way(u) = 0
    BY <1>5, <1>6
  <1> QED BY <1>2, <1>7, Zenon DEF Way

LEMMA OnlyExitReturns ==
  ASSUME [Next]_vars, exiting, ~exiting'
  PROVE  ExitReturns
PROOF
  <1>1. ASSUME UNCHANGED exiting PROVE FALSE
    BY <1>1
  <1>2. ASSUME NEW r \in Reqs, StartOp(r) \/ Cancel(r) PROVE FALSE
    BY <1>1, <1>2, Zenon DEF StartOp, Cancel
  <1>3. ASSUME PushPanics \/ SubmitRest \/ SubmitSome \/ SubmitFails PROVE FALSE
    BY <1>1, <1>3, Zenon DEF PushPanics, SubmitRest, SubmitSome, SubmitFails, taskVars
  <1>4. ASSUME NEW u \in UserData, Finish(u) \/ RunTaskWork(u) PROVE FALSE
    BY <1>1, <1>4, Zenon DEF Finish, RunTaskWork, taskVars
  <1>5. ASSUME FlushOverflow \/ NextEvent \/ FlushReturns PROVE FALSE
    BY <1>1, <1>5, Zenon DEF FlushOverflow, NextEvent, FlushReturns, taskVars
  <1>6. ASSUME NEW wait \in Waits, Work(wait) PROVE FALSE
    BY <1>1, <1>6 DEF Work
  <1>7. ASSUME WorkReturns \/ CompatWait \/ Exit PROVE FALSE
    BY <1>1, <1>7, Zenon DEF WorkReturns, CompatWait, Exit, taskVars
  <1>8. ASSUME Stopped \/ UNCHANGED vars PROVE FALSE
    BY <1>1, <1>8, Zenon DEF Stopped, vars, taskVars
  <1> QED BY <1>2, <1>3, <1>4, <1>5, <1>6, <1>7, <1>8, Zenon DEF Next

-----------------------------------------------------------------------------
(* The engine's contract.                                                   *)

(* A request that is not waited for is idle; one that is, started as long   *)
(* as it is in the submission ring or in flight.                            *)
Active(r) == InSq(r) + inflight[r]

Stage(r) ==
  IF r \notin pending THEN "idle" ELSE IF Active(r) > 0 THEN "started" ELSE "finished"

Ops == [r \in Reqs |-> Op(r)]

LEMMA OpIs == RingInv /\ OnePlace => \A r \in Reqs : Op(r) = Stage(r)
PROOF
  <1> SUFFICES ASSUME RingInv, OnePlace, NEW r \in Reqs PROVE Op(r) = Stage(r)
    OBVIOUS
  <1>1. r \in UserData
    BY Zenon DEF UserData
  <1>2. /\ InSq(r) \in Nat /\ Kept(r) \in Nat /\ InCq(Unread, r) \in Nat
        /\ InKernel(r) = inflight[r] + taskwork[r] + Kept(r)
        /\ inflight[r] \in Nat /\ taskwork[r] \in Nat
    BY <1>1, CountTypes, Zenon
  <1>3. InSq(r) + InKernel(r) + InCq(Unread, r) = IF r \in pending THEN 1 ELSE 0
    BY Zenon DEF OnePlace
  <1> QED BY <1>2, <1>3 DEF Op, Stage, Active

LEMMA MovesEngine ==
  RingInv /\ OnePlace /\ (RingInv /\ OnePlace)' /\ Moves => [Contract!Next]_Ops
PROOF
  <1>OpNext.
    (RingInv /\ OnePlace)' => \A r \in Reqs : Op(r)' = Stage(r)'
    <2>1. (RingInv /\ OnePlace)' => (\A r \in Reqs : Op(r) = Stage(r))'
      BY OpIs, PTL
    <2> QED BY <2>1
  <1>StageNext.
    ASSUME NEW r, r \in pending' <=> r \in pending, Active(r)' = Active(r)
    PROVE  Stage(r)' = Stage(r)
    <2> USE <1>StageNext
    <2>1. Stage(r)' = IF r \notin pending' THEN "idle"
                      ELSE IF Active(r)' > 0 THEN "started" ELSE "finished"
      BY DEF Stage
    <2> QED BY <2>1, ZenonT(40) DEF Stage
  <1>OpsStay.
    ASSUME RingInv, OnePlace, (RingInv /\ OnePlace)', UNCHANGED pending,
           \A r \in Reqs : Active(r)' = Active(r)
    PROVE  UNCHANGED Ops
    <2> USE <1>OpsStay
    <2>1. \A r \in Reqs : Stage(r)' = Stage(r)
      BY <1>StageNext, Zenon
    <2>2. \A r \in Reqs : Op(r)' = Op(r)
      BY <2>1, OpIs, <1>OpNext, ZenonT(40)
    <2> QED BY <2>2, ZenonT(40) DEF Ops
  <1>OpsMove.
    ASSUME RingInv, OnePlace, (RingInv /\ OnePlace)', NEW v \in Reqs,
           \A r \in Reqs \ {v} : /\ r \in pending' <=> r \in pending
                                 /\ Active(r)' = Active(r)
    PROVE  /\ Ops[v] = Stage(v)
           /\ Ops' = [Ops EXCEPT ![v] = Stage(v)']
    <2> USE <1>OpsMove
    <2>1. \A r \in Reqs \ {v} : Stage(r)' = Stage(r)
      BY <1>StageNext, Zenon
    <2>2. /\ \A r \in Reqs \ {v} : Op(r)' = Op(r)
          /\ Op(v)' = Stage(v)' /\ Op(v) = Stage(v)
      BY <2>1, OpIs, <1>OpNext, ZenonT(40)
    <2> QED BY <2>2, Zenon DEF Ops
  <1>Starts.
    ASSUME RingInv, OnePlace, (RingInv /\ OnePlace)', NEW v \in Reqs, Starts(v)
    PROVE  Contract!Start(v)
    <2> USE <1>Starts
    <2>1. /\ v \notin pending /\ pending' = pending \cup {v}
          /\ Push(IoSqe(v)) /\ ~Submitting /\ UNCHANGED <<sq_khead, inflight>>
      BY Zenon DEF Starts, StartAsync, TasksRun, Submitting, kernelVars
    <2>2. IoSqe(v) \in Sqe /\ IoSqe(v).data = v
      BY Zenon DEF IoSqe, Sqe, UserData
    <2>3. \A u : InSq(u)' = InSq(u) + One(u = v)
      BY <2>1, <2>2, PushCount
    <2>4. \A u \in Reqs : InSq(u) \in Nat /\ inflight[u] \in Nat
      BY CountTypes, Zenon DEF UserData
    <2>5. \A u \in Reqs : Active(u)' = Active(u) + One(u = v)
      <3> SUFFICES ASSUME NEW u \in Reqs
                   PROVE  Active(u)' = Active(u) + One(u = v)
        OBVIOUS
      <3>1. One(u = v) \in Nat
        BY DEF One
      <3>2. Active(u)' = InSq(u)' + inflight[u]
        BY <2>1, Zenon DEF Active
      <3>3. (InSq(u) + One(u = v)) + inflight[u] = (InSq(u) + inflight[u]) + One(u = v)
        BY <2>4, <3>1, Regroup
      <3> QED BY <2>3, <3>2, <3>3, Zenon DEF Active
    <2>6. \A r \in Reqs \ {v} : /\ r \in pending' <=> r \in pending
                                /\ Active(r)' = Active(r)
      BY <2>1, <2>4, <2>5 DEF One, Active
    <2>7. Active(v)' > 0
      BY <2>4, <2>5 DEF One, Active
    <2>8. Stage(v) = "idle" /\ Stage(v)' = "started"
      BY <2>1, <2>7, Zenon DEF Stage
    <2>9. Ops[v] = "idle" /\ Ops' = [Ops EXCEPT ![v] = "started"]
      BY <2>6, <2>8, <1>OpsMove, Zenon
    <2> QED BY <2>9, ZenonT(40) DEF Ops, Contract!Start, Contract!Move
  <1>NoOp.
    ASSUME RingInv, OnePlace, (RingInv /\ OnePlace)', NEW e \in Sqe, e.data = NoOp,
           Push(e), ~Submitting, UNCHANGED <<sq_khead, inflight, pending>>
    PROVE  UNCHANGED Ops
    <2> USE <1>NoOp
    <2>1. ASSUME NEW r \in Reqs PROVE Active(r)' = Active(r)
      <3>1. InSq(r)' = InSq(r) + One(r = NoOp) /\ InSq(r) \in Nat
        BY PushCount, CountTypes, Zenon
      <3>2. One(r = NoOp) = 0
        BY IoUringAssumption, Zenon DEF One
      <3>3. InSq(r)' = InSq(r)
        BY <3>1, <3>2
      <3> QED BY <3>3, Zenon DEF Active
    <2> QED BY <2>1, <1>OpsStay, Zenon
  <1>Cancel.
    ASSUME RingInv, OnePlace, (RingInv /\ OnePlace)',
           CompatWait \/ \E r \in Reqs : Cancel(r)
    PROVE  UNCHANGED Ops
    <2> USE <1>Cancel
    <2>1. CASE CompatWait
      <3>1. /\ Push(TimeoutSqe) /\ ~Submitting
            /\ UNCHANGED <<sq_khead, inflight, pending>>
        BY <2>1, ZenonT(40) DEF CompatWait, CanReturn, Submitting, kernelVars, taskVars
      <3>2. TimeoutSqe \in Sqe /\ TimeoutSqe.data = NoOp
        BY DEF TimeoutSqe, Sqe, UserData
      <3> QED BY <3>1, <3>2, <1>NoOp, Zenon
    <2>2. ASSUME NEW r \in Reqs, Cancel(r) PROVE UNCHANGED Ops
      <3>1. /\ Push(CancelSqe(r)) /\ ~Submitting
            /\ UNCHANGED <<sq_khead, inflight, pending>>
        BY <2>2, ZenonT(40) DEF Cancel, StartAsync, TasksRun, Submitting, kernelVars
      <3>2. CancelSqe(r) \in Sqe /\ CancelSqe(r).data = NoOp
        BY DEF CancelSqe, Sqe, UserData
      <3> QED BY <3>1, <3>2, <1>NoOp, Zenon
    <2> QED BY <2>1, <2>2, Zenon
  <1>Finish.
    ASSUME RingInv, OnePlace, (RingInv /\ OnePlace)', NEW v \in UserData, Finish(v)
    PROVE  (v \in Reqs /\ Contract!Finish(v)) \/ UNCHANGED Ops
    <2> USE <1>Finish
    <2>1. inflight[v] > 0 /\ UNCHANGED pending
      BY Zenon DEF Finish, taskVars
    <2>2. ASSUME NEW u \in UserData
          PROVE  /\ Active(u)' = Active(u) - One(u = v)
                 /\ InSq(u) \in Nat /\ inflight[u] \in Nat
      <3>1. InSq(u)' = InSq(u) /\ inflight'[u] = inflight[u] - One(u = v)
        BY FinishCount, Zenon
      <3>2. InSq(u) \in Nat /\ inflight[u] \in Nat
        BY CountTypes, Zenon
      <3>3. One(u = v) \in Int
        BY DEF One
      <3>4. Active(u)' = InSq(u)' + inflight'[u]
        BY Zenon DEF Active
      <3>5. InSq(u) + (inflight[u] - One(u = v)) = (InSq(u) + inflight[u]) - One(u = v)
        BY <3>2, <3>3, Regroup, Zenon
      <3> QED BY <3>1, <3>2, <3>4, <3>5, Zenon DEF Active
    <2>3. \A u \in UserData \ {v} : Active(u)' = Active(u)
      BY <2>2 DEF One, Active
    <2>4. CASE v = NoOp
      <3>1. \A r \in Reqs : Active(r)' = Active(r)
        BY <2>3, <2>4, IoUringAssumption, ZenonT(40) DEF UserData
      <3> QED BY <2>1, <3>1, <1>OpsStay, Zenon
    <2>5. CASE v \in Reqs
      <3>1. /\ InSq(v) \in Nat /\ Kept(v) \in Nat /\ InCq(Unread, v) \in Nat
            /\ inflight[v] \in Nat /\ taskwork[v] \in Nat
        BY CountTypes, Zenon
      <3>2. Place(v) = InSq(v) + inflight[v] + taskwork[v] + Kept(v) + InCq(Unread, v)
        BY PlaceParts, ZenonT(40)
      <3>3. Place(v) = One(v \in pending)
        BY <2>5, PlaceIs
      <3>4. One(v \in pending) \in {0, 1}
        BY Zenon DEF One
      <3>5. One(v \in pending) = 1 /\ Active(v) = 1
        BY <2>1, <3>1, <3>2, <3>3, <3>4, OnlyOne DEF Active
      <3>6. v \in pending
        BY <3>5 DEF One
      <3>7. Active(v)' = 0
        BY <2>2, <3>5 DEF One
      <3>8. Stage(v) = "started" /\ Stage(v)' = "finished"
        BY <2>1, <3>5, <3>6, <3>7 DEF Stage
      <3>9. \A r \in Reqs \ {v} : /\ r \in pending' <=> r \in pending
                                  /\ Active(r)' = Active(r)
        BY <2>1, <2>3 DEF UserData
      <3>10. Ops[v] = "started" /\ Ops' = [Ops EXCEPT ![v] = "finished"]
        BY <2>5, <3>8, <3>9, <1>OpsMove, Zenon
      <3> QED BY <2>5, <3>10, Zenon DEF Ops, Contract!Finish, Contract!Move
    <2> QED BY <2>4, <2>5, Zenon DEF UserData
  <1>Kernel.
    ASSUME RingInv, OnePlace, (RingInv /\ OnePlace)', KernelStep
    PROVE  (\E r \in Reqs : Contract!Finish(r)) \/ UNCHANGED Ops
    <2> USE <1>Kernel
    <2>1. UNCHANGED pending
      BY KernelCount
    <2>2. CASE SubmitRest \/ SubmitSome
      <3>1. \A r \in Reqs : Active(r)' = Active(r)
        BY <2>2, SubmitCount DEF Active, UserData
      <3> QED BY <2>1, <3>1, <1>OpsStay, Zenon
    <2>3. ASSUME FlushOverflow \/ \E u \in UserData : RunTaskWork(u)
          PROVE  UNCHANGED Ops
      <3>1. \A r \in Reqs : InSq(r)' = InSq(r) /\ inflight'[r] = inflight[r]
        BY <2>3, RunTaskWorkCount, FlushOverflowCount, Zenon DEF UserData
      <3>2. \A r \in Reqs : Active(r)' = Active(r)
        BY <3>1 DEF Active
      <3> QED BY <2>1, <3>2, <1>OpsStay, Zenon
    <2> QED BY <2>2, <2>3, <1>Finish, Zenon DEF KernelStep
  <1>Complete.
    ASSUME RingInv, OnePlace, (RingInv /\ OnePlace)', NEW v \in UserData, Complete(v),
           InCq(Unread, v) >= 1, UNCHANGED inflight,
           \A u \in UserData : Place(u)' = Place(u) - One(u = v) /\ InSq(u)' = InSq(u)
    PROVE  (v \in Reqs /\ Contract!Complete(v)) \/ UNCHANGED Ops
    <2> USE <1>Complete
    <2>1. pending' = pending \ {v}
      BY ZenonT(40) DEF Complete
    <2>2. \A r \in Reqs : Active(r)' = Active(r)
      BY DEF Active, UserData
    <2>3. CASE v = NoOp
      <3>1. pending' = pending
        <4>1. pending \subseteq Reqs
          BY DEF RingInv, TypeOK
        <4> QED BY <2>1, <2>3, <4>1, IoUringAssumption, Zenon
      <3> QED BY <2>2, <3>1, <1>OpsStay, Zenon
    <2>4. CASE v \in Reqs
      <3>1. v \in pending /\ InSq(v) = 0 /\ inflight[v] = 0
        BY <2>4, CompletePlace, Zenon
      <3>2. Stage(v) = "finished" /\ Stage(v)' = "idle"
        BY <2>1, <3>1 DEF Stage, Active
      <3>3. \A r \in Reqs \ {v} : /\ r \in pending' <=> r \in pending
                                  /\ Active(r)' = Active(r)
        BY <2>1, <2>2, Zenon
      <3>4. Ops[v] = "finished" /\ Ops' = [Ops EXCEPT ![v] = "idle"]
        BY <2>4, <3>2, <3>3, <1>OpsMove, Zenon
      <3> QED BY <2>4, <3>4, Zenon DEF Ops, Contract!Complete, Contract!Move
    <2> QED BY <2>3, <2>4, Zenon DEF UserData
  <1>Quiet.
    ASSUME RingInv, OnePlace, (RingInv /\ OnePlace)', UNCHANGED <<pending, inflight>>,
           \A u \in UserData : InSq(u)' = InSq(u)
    PROVE  UNCHANGED Ops
    <2> USE <1>Quiet
    <2>1. \A r \in Reqs : Active(r)' = Active(r)
      BY DEF Active, UserData
    <2> QED BY <2>1, <1>OpsStay, Zenon
  <1>Events.
    ASSUME RingInv, OnePlace, (RingInv /\ OnePlace)', NextEvent \/ Reads
    PROVE  (\E r \in Reqs : Contract!Complete(r)) \/ UNCHANGED Ops
    <2> USE <1>Events
    <2>1. UNCHANGED inflight
      BY DEF NextEvent, Reads, kernelVars
    <2>2. ASSUME NEW v \in UserData, Complete(v), InCq(Unread, v) >= 1,
                 \A u \in UserData :
                   Place(u)' = Place(u) - One(u = v) /\ InSq(u)' = InSq(u)
          PROVE  (\E r \in Reqs : Contract!Complete(r)) \/ UNCHANGED Ops
      BY <2>1, <2>2, <1>Complete, Zenon
    <2>3. CASE NextEvent
      <3>1. CASE UNCHANGED pending /\ \A u \in UserData : InSq(u)' = InSq(u)
        BY <2>1, <3>1, <1>Quiet, Zenon
      <3>2. CASE \E v \in UserData :
                   /\ Complete(v)
                   /\ InCq(Unread, v) >= 1
                   /\ \A u \in UserData : /\ Place(u)' = Place(u) - One(u = v)
                                          /\ Way(u)' = Way(u)
                                          /\ InSq(u)' = InSq(u)
        BY <2>2, <3>2, ZenonT(40)
      <3> QED BY <2>3, <3>1, <3>2, NextEventCount, Zenon
    <2>4. CASE Reads
      <3>1. CASE CqCount = 0
        <4>1. UNCHANGED <<pending, ev, running>>
          BY <2>4, <3>1, Zenon DEF Reads, RunEvents
        <4>2. \A u \in UserData : InSq(u)' = InSq(u)
          BY <2>4, <4>1, SamePlaces, Zenon DEF Reads
        <4> QED BY <2>1, <4>1, <4>2, <1>Quiet, Zenon
      <3>2. CASE CqCount # 0
        BY <2>2, <2>4, <3>2, RunEventsCount, ZenonT(40) DEF Reads
      <3> QED BY <3>1, <3>2
    <2> QED BY <2>3, <2>4, ZenonT(40)
  <1> SUFFICES ASSUME RingInv, OnePlace, (RingInv /\ OnePlace)', Moves
               PROVE  Contract!Next \/ UNCHANGED Ops
    OBVIOUS
  <1>1. ASSUME Quiet PROVE UNCHANGED Ops
    <2>1. \A u \in UserData : InSq(u)' = InSq(u)
      BY <1>1, SamePlaces, ZenonT(40) DEF Quiet
    <2> QED BY <1>1, <2>1, <1>Quiet, Zenon DEF Quiet
  <1> QED BY <1>1, <1>Starts, <1>Cancel, <1>Kernel, <1>Events, ZenonT(40)
          DEF Moves, Contract!Next

LEMMA InitEngine == Counting /\ Init => Contract!Init
PROOF
  <1> SUFFICES ASSUME Counting, Init PROVE Contract!Init
    OBVIOUS
  <1>1. RingInv /\ OnePlace
    BY InitRing, InitOnePlace, ZenonT(40)
  <1>2. \A r \in Reqs : Op(r) = "idle"
    BY <1>1, OpIs, ZenonT(40) DEF Stage, Init
  <1> QED BY <1>2 DEF Contract!Init

-----------------------------------------------------------------------------
(* The theorems.                                                            *)

LEMMA InitInv == Counting /\ Init => IInv
PROOF
  BY InitRing, InitOnePlace, InitCancel, InitCounted, ZenonT(40) DEF IInv

LEMMA NextInv == IInv /\ [Next]_vars => IInv'
PROOF
  BY NextRing, NextMoves, MovesPlace, MovesCancel, MovesCounted, ZenonT(40) DEF IInv

=============================================================================
