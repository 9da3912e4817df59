---------------------------- MODULE PlaceProofs ----------------------------
(***************************************************************************)
(* Proofs about where the operations of module IoUring are.                 *)
(*                                                                         *)
(* With the rings in order (module RingProofs), their entries can be        *)
(* counted: Place(u) and Way(u) say how many there are of u, and each step  *)
(* moves them from one place to the next.  From the counts follows that     *)
(* OnePlace is inductive relative to RingInv.                               *)
(***************************************************************************)
EXTENDS RingProofs

Kept(u) == Cardinality({i \in DOMAIN overflow : overflow[i] = u})

One(cond) == IF cond THEN 1 ELSE 0

(* Where u is, in all, and what of that the counters count. *)
Place(u) == InSq(u) + InKernel(u) + InCq(Unread, u)
Way(u) == InSq(u) + InKernel(u) + InCq(Ahead, u)

(* The places of u, and those in the kernel, part by part, before and after *)
(* a step.                                                                  *)
Sums(u) ==
  /\ InSq(u) \in Nat /\ InKernel(u) \in Nat
  /\ InCq(Unread, u) \in Nat /\ InCq(Ahead, u) \in Nat
  /\ Place(u) = InSq(u) + InKernel(u) + InCq(Unread, u)
  /\ Way(u) = InSq(u) + InKernel(u) + InCq(Ahead, u)
  /\ Place(u)' = InSq(u)' + InKernel(u)' + InCq(Unread, u)'
  /\ Way(u)' = InSq(u)' + InKernel(u)' + InCq(Ahead, u)'

KernelSum(u) ==
  /\ inflight[u] \in Nat /\ taskwork[u] \in Nat /\ Kept(u) \in Nat
  /\ InKernel(u) = inflight[u] + taskwork[u] + Kept(u)
  /\ InKernel(u)' = inflight'[u] + taskwork'[u] + Kept(u)'

LEMMA OneType == \A c : One(c) \in {0, 1}
PROOF
  BY Zenon DEF One

(* What leaves the operations in flight or the task work is posted. *)
LEMMA PostedPlaces ==
  ASSUME NEW u, NEW v, Sums(u), KernelSum(u), InSq(u)' = InSq(u),
         \/ inflight'[u] = inflight[u] - One(u = v) /\ taskwork'[u] = taskwork[u]
         \/ inflight'[u] = inflight[u] /\ taskwork'[u] = taskwork[u] - One(u = v),
         \/ /\ Kept(u)' = Kept(u)
            /\ InCq(Unread, u)' = InCq(Unread, u) + One(u = v)
            /\ InCq(Ahead, u)' = InCq(Ahead, u) + One(u = v)
         \/ /\ Kept(u)' = Kept(u) + One(u = v)
            /\ InCq(Unread, u)' = InCq(Unread, u)
            /\ InCq(Ahead, u)' = InCq(Ahead, u)
  PROVE  Place(u)' = Place(u) /\ Way(u)' = Way(u)
PROOF
  <1>1. One(u = v) \in {0, 1}
    BY OneType
  <1>2. inflight'[u] + taskwork'[u] = inflight[u] + taskwork[u] - One(u = v)
        /\ inflight'[u] \in Int /\ taskwork'[u] \in Int
    BY <1>1 DEF KernelSum
  <1>3. CASE /\ Kept(u)' = Kept(u)
             /\ InCq(Unread, u)' = InCq(Unread, u) + One(u = v)
             /\ InCq(Ahead, u)' = InCq(Ahead, u) + One(u = v)
    <2>1. InKernel(u)' = InKernel(u) - One(u = v)
      BY <1>2, <1>1, <1>3 DEF KernelSum
    <2> QED BY <1>1, <1>3, <2>1 DEF Sums
  <1>4. CASE /\ Kept(u)' = Kept(u) + One(u = v)
             /\ InCq(Unread, u)' = InCq(Unread, u)
             /\ InCq(Ahead, u)' = InCq(Ahead, u)
    <2>1. InKernel(u)' = InKernel(u)
      BY <1>2, <1>1, <1>4 DEF KernelSum
    <2> QED BY <1>4, <2>1 DEF Sums
  <1> QED BY <1>3, <1>4

(* What leaves the operations in flight becomes task work. *)
LEMMA DeferredPlaces ==
  ASSUME NEW u, NEW v, Sums(u), KernelSum(u), InSq(u)' = InSq(u), Kept(u)' = Kept(u),
         inflight'[u] = inflight[u] - One(u = v), taskwork'[u] = taskwork[u] + One(u = v),
         InCq(Unread, u)' = InCq(Unread, u), InCq(Ahead, u)' = InCq(Ahead, u)
  PROVE  Place(u)' = Place(u) /\ Way(u)' = Way(u)
PROOF
  <1>1. One(u = v) \in {0, 1}
    BY OneType
  <1>2. InKernel(u)' = InKernel(u)
    BY <1>1 DEF KernelSum
  <1> QED BY <1>2 DEF Sums

(* A kept entry goes into the ring. *)
LEMMA FlushedPlaces ==
  ASSUME NEW u, NEW v, Sums(u), KernelSum(u), InSq(u)' = InSq(u),
         inflight'[u] = inflight[u], taskwork'[u] = taskwork[u],
         Kept(u)' = Kept(u) - One(u = v),
         InCq(Unread, u)' = InCq(Unread, u) + One(u = v),
         InCq(Ahead, u)' = InCq(Ahead, u) + One(u = v)
  PROVE  Place(u)' = Place(u) /\ Way(u)' = Way(u)
PROOF
  <1>1. One(u = v) \in {0, 1}
    BY OneType
  <1>2. InKernel(u)' = InKernel(u) - One(u = v)
    BY <1>1 DEF KernelSum
  <1> QED BY <1>1, <1>2 DEF Sums

(* What leaves the submission ring is in flight. *)
LEMMA SubmittedPlaces ==
  ASSUME NEW u, Sums(u), KernelSum(u),
         InSq(u)' \in Nat, inflight'[u] \in Nat,
         InSq(u)' + inflight'[u] = InSq(u) + inflight[u],
         taskwork'[u] = taskwork[u], Kept(u)' = Kept(u),
         InCq(Unread, u)' = InCq(Unread, u), InCq(Ahead, u)' = InCq(Ahead, u)
  PROVE  Place(u)' = Place(u) /\ Way(u)' = Way(u)
PROOF
  <1>1. InSq(u)' + InKernel(u)' = InSq(u) + InKernel(u) /\ InKernel(u)' \in Nat
    BY DEF KernelSum, Sums
  <1> QED BY <1>1 DEF Sums

(* An entry more in the submission ring. *)
LEMMA PushedPlaces ==
  ASSUME NEW u, NEW v, Sums(u), InSq(u)' = InSq(u) + One(u = v),
         InKernel(u)' = InKernel(u),
         InCq(Unread, u)' = InCq(Unread, u), InCq(Ahead, u)' = InCq(Ahead, u)
  PROVE  /\ Place(u)' = Place(u) + One(u = v)
         /\ Way(u)' = Way(u) + One(u = v)
PROOF
  <1>1. One(u = v) \in {0, 1}
    BY OneType
  <1> QED BY <1>1 DEF Sums

(* An entry less in the completion ring, not ahead of run_events(). *)
LEMMA CompletedPlaces ==
  ASSUME NEW u, NEW v, Sums(u), InSq(u)' = InSq(u), InKernel(u)' = InKernel(u),
         InCq(Unread, u)' = InCq(Unread, u) - One(u = v)
  PROVE  /\ Place(u)' = Place(u) - One(u = v)
         /\ InCq(Ahead, u)' = InCq(Ahead, u) => Way(u)' = Way(u)
         /\ InCq(Ahead, u)' = 0 => Way(u)' = InSq(u) + InKernel(u)
PROOF
  <1>1. One(u = v) \in {0, 1}
    BY OneType
  <1>2. Place(u)' = Place(u) - One(u = v)
    BY <1>1 DEF Sums
  <1>3. InCq(Ahead, u)' = InCq(Ahead, u) => Way(u)' = Way(u)
    BY DEF Sums
  <1>4. InCq(Ahead, u)' = 0 => Way(u)' = InSq(u) + InKernel(u)
    BY DEF Sums
  <1> QED BY <1>2, <1>3, <1>4

(* What has one place, in the completion ring, is nowhere else. *)
LEMMA OnlyUnread ==
  ASSUME NEW u, Sums(u), KernelSum(u), Place(u) \in {0, 1}, InCq(Unread, u) >= 1
  PROVE  Place(u) = 1 /\ InSq(u) = 0 /\ inflight[u] = 0
PROOF
  <1>1. Place(u) = 1 /\ InSq(u) = 0 /\ InKernel(u) = 0
    BY DEF Sums
  <1>2. inflight[u] = 0
    BY <1>1 DEF KernelSum
  <1> QED BY <1>1, <1>2

-----------------------------------------------------------------------------
(* The counts of each place.                                                *)

(* The entries that were not completed. *)
LEMMA UnreadIs ==
  ASSUME RingInv
  PROVE  /\ ~running => Unread = Window(cq_khead, cq_ktail) /\ Ahead = Unread
         /\ running => /\ Unread = Window(cq_khead, cq_ktail) \ {ev.tail}
                       /\ Ahead = Window(Inc(ev.tail), cq_ktail)
                       /\ Unread = Window(cq_khead, ev.tail) \cup Ahead
         /\ Ahead \subseteq Unread
         /\ Unread \subseteq Window(cq_khead, cq_ktail)
         /\ cq_khead \in Index /\ cq_ktail \in Index
PROOF
  <1>1. cq_khead \in Index /\ cq_ktail \in Index
    BY DEF RingInv, TypeOK
  <1>2. CASE ~running
    BY <1>1, <1>2 DEF Unread, Ahead
  <1>3. CASE running
    <2>1. ev.head = cq_khead /\ ev.tail \in Window(cq_khead, cq_ktail)
      BY <1>3 DEF RingInv, CqSize
    <2>2. Window(cq_khead, cq_ktail) \ {ev.tail}
            = Window(cq_khead, ev.tail) \cup Window(Inc(ev.tail), cq_ktail)
      BY <1>1, <2>1, WindowWithout
    <2> QED BY <1>1, <1>3, <2>1, <2>2 DEF Unread, Ahead
  <1> QED BY <1>2, <1>3

LEMMA CountTypes ==
  ASSUME RingInv, NEW u
  PROVE  /\ InSq(u) \in Nat /\ Kept(u) \in Nat
         /\ InCq(Unread, u) \in Nat /\ InCq(Ahead, u) \in Nat
         /\ u \in UserData => /\ InKernel(u) = inflight[u] + taskwork[u] + Kept(u)
                              /\ InKernel(u) \in Nat
                              /\ inflight[u] \in Nat /\ taskwork[u] \in Nat
         /\ InSq(u) = 0 <=> \A i \in Window(sq_khead, sq_tail) :
                              sqes[i % SqEntries].data # u
PROOF
  <1> Counting
    BY DEF RingInv
  <1>1. /\ sq_khead \in Index /\ sq_tail \in Index
        /\ overflow \in Seq(UserData)
        /\ inflight \in [UserData -> Nat] /\ taskwork \in [UserData -> Nat]
    BY DEF RingInv, TypeOK
  <1>2. InSq(u) \in Nat /\ (InSq(u) = 0 <=> \A i \in Window(sq_khead, sq_tail) :
                                              sqes[i % SqEntries].data # u)
    <2> DEFINE T == {i \in Window(sq_khead, sq_tail) : sqes[i % SqEntries].data = u}
    <2>1. IsFiniteSet(Window(sq_khead, sq_tail))
      BY <1>1, WindowCount
    <2>2. Cardinality(T) \in Nat /\ (Cardinality(T) = 0 <=> T = {})
      <3>1. T \subseteq Window(sq_khead, sq_tail)
        OBVIOUS
      <3> HIDE DEF T
      <3> QED BY <2>1, <3>1, PartFinite
    <2>3. InSq(u) = Cardinality(T)
      BY DEF InSq
    <2> QED BY <2>2, <2>3
  <1>3. Kept(u) \in Nat
    <2> DEFINE T == {i \in DOMAIN overflow : overflow[i] = u}
    <2>1. IsFiniteSet(DOMAIN overflow)
      <3>1. DOMAIN overflow = 1..Len(overflow) /\ Len(overflow) \in Int
        BY <1>1
      <3>2. IsFiniteSet(1..Len(overflow))
        BY <3>1, IntervalCount
      <3> QED BY <3>1, <3>2
    <2>2. T \subseteq DOMAIN overflow
      OBVIOUS
    <2>3. Kept(u) = Cardinality(T)
      BY DEF Kept
    <2> HIDE DEF T
    <2> QED BY <2>1, <2>2, <2>3, PartFinite
  <1>4. IsFiniteSet(Window(cq_khead, cq_ktail))
    BY UnreadIs, WindowCount
  <1>5. ASSUME NEW W, W \subseteq Window(cq_khead, cq_ktail)
        PROVE  InCq(W, u) \in Nat
    <2> DEFINE T == {i \in W : cqes[i % CqEntries] = u}
    <2>1. T \subseteq Window(cq_khead, cq_ktail)
      BY <1>5
    <2>2. InCq(W, u) = Cardinality(T)
      BY DEF InCq
    <2> HIDE DEF T
    <2> QED BY <1>4, <2>1, <2>2, PartFinite
  <1>6. InCq(Unread, u) \in Nat /\ InCq(Ahead, u) \in Nat
    BY <1>5, UnreadIs
  <1>7. ASSUME u \in UserData
        PROVE  /\ InKernel(u) = inflight[u] + taskwork[u] + Kept(u)
               /\ InKernel(u) \in Nat
               /\ inflight[u] \in Nat /\ taskwork[u] \in Nat
    <2>1. inflight[u] \in Nat /\ taskwork[u] \in Nat
      BY <1>1, <1>7
    <2>2. InKernel(u) = inflight[u] + taskwork[u] + Kept(u)
      BY DEF InKernel, Kept
    <2> QED BY <1>3, <2>1, <2>2
  <1> QED BY <1>2, <1>3, <1>6, <1>7

(* A pushed entry is one more of its kind. *)
LEMMA PushCount ==
  ASSUME RingInv, NEW e \in Sqe, Push(e), ~Submitting, UNCHANGED sq_khead, NEW u
  PROVE  InSq(u)' = InSq(u) + One(u = e.data)
PROOF
  <1> Counting
    BY DEF RingInv
  <1> DEFINE W == Window(sq_khead, sq_tail)
             T == {i \in W : sqes[i % SqEntries].data = u}
             T1 == {i \in W \cup {sq_tail} : sqes'[i % SqEntries].data = u}
  <1>1. /\ sq_tail \notin W
        /\ Window(sq_khead, sq_tail') = W \cup {sq_tail}
        /\ sqes'[sq_tail % SqEntries] = e
        /\ \A i \in W : sqes'[i % SqEntries] = sqes[i % SqEntries]
    BY PushRing
  <1>2. InSq(u) = Cardinality(T) /\ InSq(u)' = Cardinality(T1)
    BY <1>1 DEF InSq
  <1>3. IsFiniteSet(T) /\ Cardinality(T) \in Nat
    <2>1. IsFiniteSet(W)
      BY WindowCount DEF RingInv, TypeOK
    <2>2. T \subseteq W
      OBVIOUS
    <2> HIDE DEF T, W
    <2> QED BY <2>1, <2>2, PartFinite
  <1>4. sq_tail \notin T
    BY <1>1, Zenon
  <1>5. T1 = IF u = e.data THEN T \cup {sq_tail} ELSE T
    BY <1>1
  <1> HIDE DEF T, T1, W
  <1>6. Cardinality(T \cup {sq_tail}) = Cardinality(T) + 1
    BY <1>3, <1>4, AddCount
  <1> QED BY <1>2, <1>3, <1>5, <1>6 DEF One

(* The entry at a position of the submission ring, as the kernel takes it. *)
LEMMA TakenEntry ==
  ASSUME TypeOK, NEW k \in 0..Distance(sq_khead, sq_tail), NEW i \in 1..k
  PROVE  /\ (sq_khead + i - 1) % IndexSpace \in Index
         /\ Distance(sq_khead, (sq_khead + i - 1) % IndexSpace) = i - 1
         /\ Taken(k)[i] = sqes[((sq_khead + i - 1) % IndexSpace) % SqEntries]
PROOF
  <1>1. sq_khead \in Index /\ Distance(sq_khead, sq_tail) \in Index
    BY DistanceIs DEF TypeOK
  <1>2. i - 1 \in Index /\ sq_khead \in Int /\ i \in Int
    BY <1>1, Constants DEF Index
  <1> DEFINE x == sq_khead + i - 1
             p == x % IndexSpace
  <1>3. x \in 0..(2 * IndexSpace - 1)
    BY <1>1, <1>2, Constants DEF Index
  <1>4. p = (IF x < IndexSpace THEN x ELSE x - IndexSpace) /\ p \in Index
    <2>1. p = IF x < IndexSpace THEN x ELSE x - IndexSpace
      BY <1>3, OneTurn, Constants
    <2> HIDE DEF x, p
    <2> QED BY <1>3, <2>1, Constants DEF Index
  <1>5. Distance(sq_khead, p) = i - 1
    <2>1. Distance(sq_khead, p) = IF sq_khead <= p THEN p - sq_khead
                                  ELSE p - sq_khead + IndexSpace
      BY <1>1, <1>4, DistanceIs
    <2> HIDE DEF p
    <2> QED BY <1>1, <1>2, <1>4, <2>1, Constants DEF Index
  <1>6. p % SqEntries = x % SqEntries
    BY <1>3, SlotOf, Constants
  <1>7. Taken(k)[i] = sqes[x % SqEntries]
    BY DEF Taken
  <1> QED BY <1>4, <1>5, <1>6, <1>7, Zenon

(* What the kernel takes is in flight. *)
LEMMA TakeCount ==
  ASSUME RingInv, NEW k \in 0..Distance(sq_khead, sq_tail), Take(k),
         UNCHANGED <<sqes, sq_tail>>, NEW u \in UserData
  PROVE  /\ InSq(u)' + inflight'[u] = InSq(u) + inflight[u]
         /\ InSq(u)' \in Nat /\ inflight'[u] \in Nat
PROOF
  <1> Counting
    BY DEF RingInv
  <1> DEFINE A == Window(sq_khead, sq_khead')
             B == Window(sq_khead', sq_tail)
             P == {i \in A : sqes[i % SqEntries].data = u}
             Q == {i \in B : sqes[i % SqEntries].data = u}
             T == {i \in 1..k : Taken(k)[i].data = u}
             f == [i \in T |-> (sq_khead + i - 1) % IndexSpace]
  <1>0. TypeOK /\ sq_khead \in Index /\ sq_tail \in Index
        /\ inflight \in [UserData -> Nat]
    BY DEF RingInv, TypeOK
  <1>1. /\ sq_khead' \in Index /\ Distance(sq_khead, sq_khead') = k
        /\ Window(sq_khead, sq_tail) = A \cup B /\ A \cap B = {}
    BY <1>0, TakeRing
  <1>2. IsFiniteSet(P) /\ IsFiniteSet(Q) /\ Cardinality(P) \in Nat /\ Cardinality(Q) \in Nat
    <2>1. IsFiniteSet(A) /\ IsFiniteSet(B)
      BY <1>0, <1>1, WindowCount
    <2>2. P \subseteq A /\ Q \subseteq B
      OBVIOUS
    <2> HIDE DEF A, B, P, Q
    <2> QED BY <2>1, <2>2, PartFinite
  <1>3. P \cap Q = {}
    BY <1>1
  <1>4. InSq(u) = Cardinality(P \cup Q)
    <2>1. {i \in A \cup B : sqes[i % SqEntries].data = u} = P \cup Q
      OBVIOUS
    <2> QED BY <1>1, <2>1, Zenon DEF InSq
  <1>5. InSq(u)' = Cardinality(Q)
    BY DEF InSq
  <1>6. Cardinality(P \cup Q) = Cardinality(P) + Cardinality(Q)
    <2> HIDE DEF P, Q
    <2> QED BY <1>2, <1>3, DisjointCount, Zenon
  <1>7. IsFiniteSet(T)
    <2>1. k \in Int
      OBVIOUS
    <2>2. IsFiniteSet(1..k)
      BY <2>1, IntervalCount
    <2>3. T \subseteq 1..k
      OBVIOUS
    <2> HIDE DEF T
    <2> QED BY <2>2, <2>3, PartFinite, Zenon
  <1>8. Cardinality(T) = Cardinality(P)
    <2>1. ASSUME NEW i \in T
          PROVE  f[i] \in P /\ Distance(sq_khead, f[i]) = i - 1
      <3>1. /\ f[i] \in Index /\ Distance(sq_khead, f[i]) = i - 1
            /\ sqes[f[i] % SqEntries].data = u
        BY <1>0, TakenEntry
      <3>2. i - 1 < k
        OBVIOUS
      <3>3. f[i] \in A
        BY <1>0, <1>1, <3>1, <3>2, WindowIs
      <3>4. ASSUME NEW x \in A, sqes[x % SqEntries].data = u
            PROVE  x \in P
        BY <3>4
      <3> HIDE DEF A, P, f
      <3> QED BY <3>1, <3>3, <3>4, ZenonT(40)
    <2>2. ASSUME NEW p \in P
          PROVE  \E i \in T : f[i] = p
      <3> DEFINE i == Distance(sq_khead, p) + 1
      <3>1. p \in Index /\ Distance(sq_khead, p) < k /\ sqes[p % SqEntries].data = u
        BY <1>0, <1>1, WindowIs
      <3>2. Distance(sq_khead, p) \in Index
        BY <1>0, <3>1, DistanceIs
      <3>3. Distance(sq_khead, p) = IF sq_khead <= p THEN p - sq_khead
                                    ELSE p - sq_khead + IndexSpace
        BY <1>0, <3>1, DistanceIs, Zenon
      <3>4. i \in 1..k
        BY <3>1, <3>2, Constants DEF Index
      <3>5. sq_khead + i - 1 = p \/ sq_khead + i - 1 = p + IndexSpace
        BY <1>0, <3>1, <3>2, <3>3, Constants DEF Index
      <3>6. (sq_khead + i - 1) % IndexSpace = p
        <4>1. p \in Int /\ p < IndexSpace /\ 0 <= p
          BY <3>1, Constants DEF Index
        <4>2. p % IndexSpace = p
          BY <4>1, OneTurn, Constants
        <4>3. (p + IndexSpace) % IndexSpace = p
          BY <4>1, OneTurn, Constants
        <4> QED BY <3>5, <4>2, <4>3
      <3>7. Taken(k)[i].data = u
        BY <1>0, <3>1, <3>4, <3>6, TakenEntry, Zenon
      <3> HIDE DEF i
      <3> QED BY <3>4, <3>6, <3>7, Zenon
    <2> HIDE DEF f, T, P, A, B, Q
    <2>3. f \in [T -> P]
      BY <2>1 DEF f
    <2>4. ASSUME NEW i \in T, NEW j \in T, f[i] = f[j]
          PROVE  i = j
      <3>1. i \in Int /\ j \in Int
        BY DEF T
      <3> QED BY <2>1, <2>4, <3>1
    <2>5. f \in Bijection(T, P)
      BY <2>2, <2>3, <2>4 DEF Bijection, Injection, Surjection, IsInjective
    <2>6. ExistsBijection(T, P)
      BY <2>5 DEF ExistsBijection
    <2> QED BY <1>7, <2>6, SameCount, Zenon
  <1>9. inflight'[u] = inflight[u] + Cardinality(T)
    BY DEF Take
  <1> HIDE DEF P, Q, T
  <1>10. inflight[u] \in Nat
    BY <1>0, Zenon
  <1> QED BY <1>2, <1>4, <1>5, <1>6, <1>8, <1>9, <1>10

(* An entry that is added to the completion ring. *)
LEMMA PushCqCount ==
  ASSUME RingInv, NEW v \in UserData, CqCount < CqEntries,
         cqes' = [cqes EXCEPT ![cq_ktail % CqEntries] = v],
         cq_ktail' = Inc(cq_ktail), UNCHANGED <<cq_khead, ev, running>>, NEW u
  PROVE  /\ InCq(Unread, u)' = InCq(Unread, u) + One(u = v)
         /\ InCq(Ahead, u)' = InCq(Ahead, u) + One(u = v)
PROOF
  <1> Counting
    BY DEF RingInv
  <1> DEFINE W == Window(cq_khead, cq_ktail)
             a == IF running THEN Inc(ev.tail) ELSE cq_khead
  <1>1. /\ cq_ktail \notin W
        /\ cqes'[cq_ktail % CqEntries] = v
        /\ \A i \in W : cqes'[i % CqEntries] = cqes[i % CqEntries]
    BY PushCq, Zenon
  <1>2. /\ cq_khead \in Index /\ cq_ktail \in Index
        /\ Ahead \subseteq Unread /\ Unread \subseteq W
    BY UnreadIs
  <1>3. a \in Index /\ Distance(a, cq_ktail) <= CqCount
    <2>1. CqCount \in Int /\ CqCount = Distance(cq_khead, cq_ktail)
      BY <1>2, DistanceIs, Constants DEF CqCount, Index
    <2>2. CASE running
      <3>1. ev.tail \in W
        BY <2>2 DEF RingInv, CqSize
      <3>2. Inc(ev.tail) \in Index /\ Distance(Inc(ev.tail), cq_ktail) <= CqCount
        BY <1>2, <2>1, <3>1, WindowWithout
      <3> QED BY <2>2, <3>2
    <2>3. CASE ~running
      BY <1>2, <2>1, <2>3
    <2> QED BY <2>2, <2>3
  <1>4. Window(a, cq_ktail') = Window(a, cq_ktail) \cup {cq_ktail}
    <2> HIDE DEF a
    <2>1. CqCount \in Index /\ Distance(a, cq_ktail) \in Index
      BY <1>2, <1>3, DistanceIs DEF CqCount
    <2>2. Distance(a, cq_ktail) < IndexSpace - 1
      BY <1>3, <2>1, Constants DEF Index
    <2> QED BY <1>2, <1>3, <2>2, WindowGrows
  <1>5. Ahead' = Ahead \cup {cq_ktail} /\ Unread' = Unread \cup {cq_ktail}
    BY <1>4 DEF Ahead, Unread
  <1>6. ASSUME NEW S, S \subseteq W
        PROVE  Cardinality({i \in S \cup {cq_ktail} : cqes'[i % CqEntries] = u})
                 = InCq(S, u) + One(u = v)
    <2> DEFINE T == {i \in S : cqes[i % CqEntries] = u}
               T1 == {i \in S \cup {cq_ktail} : cqes'[i % CqEntries] = u}
    <2>1. IsFiniteSet(T) /\ Cardinality(T) \in Nat
      <3>1. IsFiniteSet(W)
        BY <1>2, WindowCount
      <3>2. T \subseteq W
        BY <1>6
      <3> HIDE DEF T, W
      <3> QED BY <3>1, <3>2, PartFinite
    <2>2. cq_ktail \notin T
      BY <1>1, <1>6, Zenon
    <2>3. T1 = IF u = v THEN T \cup {cq_ktail} ELSE T
      BY <1>1, <1>6
    <2>4. InCq(S, u) = Cardinality(T)
      BY DEF InCq
    <2> HIDE DEF T, T1
    <2>5. Cardinality(T \cup {cq_ktail}) = Cardinality(T) + 1
      BY <2>1, <2>2, AddCount
    <2>6. Cardinality(T1) = InCq(S, u) + One(u = v)
      BY <2>1, <2>3, <2>4, <2>5 DEF One
    <2> QED BY <2>6 DEF T1
  <1>7. /\ InCq(Unread, u)' =
             Cardinality({i \in Unread \cup {cq_ktail} : cqes'[i % CqEntries] = u})
        /\ InCq(Ahead, u)' =
             Cardinality({i \in Ahead \cup {cq_ktail} : cqes'[i % CqEntries] = u})
    BY <1>5 DEF InCq
  <1> HIDE DEF W
  <1>8. Ahead \subseteq W
    BY <1>2
  <1> QED BY <1>2, <1>6, <1>7, <1>8

LEMMA KeptAppend ==
  ASSUME Counting, overflow \in Seq(UserData), NEW v \in UserData,
         overflow' = Append(overflow, v), NEW u
  PROVE  Kept(u)' = Kept(u) + One(u = v)
PROOF
  <1> DEFINE n == Len(overflow)
             T == {i \in DOMAIN overflow : overflow[i] = u}
             T1 == {i \in DOMAIN overflow' : overflow'[i] = u}
  <1>1. n \in Nat /\ DOMAIN overflow = 1..n /\ DOMAIN overflow' = 1..(n + 1)
    OBVIOUS
  <1>2. overflow'[n + 1] = v /\ \A i \in 1..n : overflow'[i] = overflow[i]
    OBVIOUS
  <1>3. IsFiniteSet(T) /\ Cardinality(T) \in Nat
    <2>1. T \subseteq 1..n /\ n \in Int
      BY <1>1
    <2>2. IsFiniteSet(1..n)
      BY <2>1, IntervalCount
    <2> HIDE DEF T
    <2> QED BY <2>1, <2>2, PartFinite, Zenon
  <1>4. n + 1 \notin T
    BY <1>1
  <1>5. T1 = IF u = v THEN T \cup {n + 1} ELSE T
    <2> HIDE DEF n
    <2>1. 1..(n + 1) = 1..n \cup {n + 1} /\ n + 1 \notin 1..n
      BY <1>1
    <2>2. T = {i \in 1..n : overflow[i] = u}
          /\ T1 = {i \in 1..n \cup {n + 1} : overflow'[i] = u}
      BY <1>1, <2>1
    <2> HIDE DEF T, T1
    <2> QED BY <1>2, <2>1, <2>2, Zenon
  <1>6. Kept(u) = Cardinality(T) /\ Kept(u)' = Cardinality(T1)
    BY DEF Kept
  <1> HIDE DEF T, T1, n
  <1>7. Cardinality(T \cup {n + 1}) = Cardinality(T) + 1
    BY <1>3, <1>4, AddCount, Zenon
  <1> QED BY <1>3, <1>5, <1>6, <1>7 DEF One

LEMMA KeptTail ==
  ASSUME Counting, overflow \in Seq(UserData), overflow # <<>>,
         overflow' = Tail(overflow), NEW u
  PROVE  Kept(u)' = Kept(u) - One(u = Head(overflow))
PROOF
  <1> DEFINE n == Len(overflow)
             T == {i \in DOMAIN overflow : overflow[i] = u}
             T1 == {i \in DOMAIN overflow' : overflow'[i] = u}
             f == [i \in T1 |-> i + 1]
  <1>1. /\ n \in Nat /\ n >= 1 /\ DOMAIN overflow = 1..n
        /\ DOMAIN overflow' = 1..(n - 1)
    OBVIOUS
  <1>2. /\ \A i \in 1..(n - 1) : overflow'[i] = overflow[i + 1]
        /\ Head(overflow) = overflow[1]
    OBVIOUS
  <1>3. IsFiniteSet(T) /\ Cardinality(T) \in Nat /\ IsFiniteSet(T1)
    <2>1. T \subseteq 1..n /\ T1 \subseteq 1..(n - 1) /\ n \in Int /\ n - 1 \in Int
      BY <1>1
    <2>2. IsFiniteSet(1..n) /\ IsFiniteSet(1..(n - 1))
      BY <2>1, IntervalCount
    <2> HIDE DEF T, T1
    <2> QED BY <2>1, <2>2, PartFinite, Zenon
  <1>4. f \in Bijection(T1, T \ {1})
    <2>1. ASSUME NEW i \in T1
          PROVE  f[i] = i + 1 /\ i + 1 \in T \ {1}
      BY <1>1, <1>2
    <2>2. ASSUME NEW j \in T \ {1}
          PROVE  \E i \in T1 : f[i] = j
      <3>1. j \in 2..n /\ overflow[j] = u
        BY <1>1
      <3>2. j - 1 \in 1..(n - 1) /\ (j - 1) + 1 = j
        BY <1>1, <3>1
      <3>3. overflow'[j - 1] = u
        BY <1>2, <3>1, <3>2
      <3>4. j - 1 \in T1
        BY <1>1, <3>2, <3>3
      <3> QED BY <3>2, <3>4
    <2>3. T1 \subseteq Int
      BY <1>1
    <2> HIDE DEF T, T1, n
    <2>4. \A i, j \in T1 : f[i] = f[j] => i = j
      BY <2>3
    <2>5. f \in [T1 -> T \ {1}]
      BY <2>1
    <2> QED BY <2>2, <2>4, <2>5 DEF Bijection, Injection, Surjection, IsInjective
  <1>5. Cardinality(T \ {1}) = Cardinality(T1)
    <2> HIDE DEF f, T, T1
    <2>1. ExistsBijection(T1, T \ {1})
      BY <1>4, Zenon DEF ExistsBijection
    <2> QED BY <1>3, <2>1, SameCount
  <1>6. Kept(u) = Cardinality(T) /\ Kept(u)' = Cardinality(T1)
    BY DEF Kept
  <1>7. 1 \in T <=> u = Head(overflow)
    BY <1>1, <1>2
  <1> HIDE DEF T, T1, n
  <1>8. Cardinality(T \ {1}) = IF 1 \in T THEN Cardinality(T) - 1 ELSE Cardinality(T)
    BY <1>3, RemoveCount, Zenon
  <1> QED BY <1>3, <1>5, <1>6, <1>7, <1>8 DEF One

LEMMA PlaceParts ==
  ASSUME RingInv, NEW u \in UserData
  PROVE  /\ Place(u) = InSq(u) + inflight[u] + taskwork[u] + Kept(u) + InCq(Unread, u)
         /\ Way(u) = InSq(u) + inflight[u] + taskwork[u] + Kept(u) + InCq(Ahead, u)
         /\ Place(u) \in Nat /\ Way(u) \in Nat
PROOF
  <1>1. Place(u) = InSq(u) + InKernel(u) + InCq(Unread, u)
    BY DEF Place
  <1>2. Way(u) = InSq(u) + InKernel(u) + InCq(Ahead, u)
    BY Zenon DEF Way
  <1>3. /\ InSq(u) \in Nat /\ InKernel(u) \in Nat
        /\ InCq(Unread, u) \in Nat /\ InCq(Ahead, u) \in Nat
    BY CountTypes, ZenonT(40)
  <1>4. /\ InKernel(u) = inflight[u] + taskwork[u] + Kept(u)
        /\ inflight[u] \in Nat /\ taskwork[u] \in Nat /\ Kept(u) \in Nat
    BY CountTypes
  <1>5. Place(u) \in Nat /\ Way(u) \in Nat
    BY <1>1, <1>2, <1>3
  <1>6. Place(u) = InSq(u) + inflight[u] + taskwork[u] + Kept(u) + InCq(Unread, u)
    BY <1>1, <1>3, <1>4
  <1>7. Way(u) = InSq(u) + inflight[u] + taskwork[u] + Kept(u) + InCq(Ahead, u)
    BY <1>2, <1>3, <1>4
  <1> QED BY <1>5, <1>6, <1>7

LEMMA SumsHold ==
  ASSUME RingInv, NEW u \in UserData
  PROVE  Sums(u) /\ KernelSum(u)
PROOF
  <1>1. /\ InSq(u) \in Nat /\ InKernel(u) \in Nat /\ InCq(Unread, u) \in Nat
        /\ InCq(Ahead, u) \in Nat /\ inflight[u] \in Nat /\ taskwork[u] \in Nat
        /\ Kept(u) \in Nat
    BY CountTypes, Zenon
  <1>2. Sums(u)
    BY <1>1, Zenon DEF Sums, Place, Way
  <1>3. KernelSum(u)
    BY <1>1, ZenonT(40) DEF KernelSum, InKernel, Kept
  <1> QED BY <1>2, <1>3, Zenon

(* The entry of a finished operation goes into the ring or is kept. *)
LEMMA PostCount ==
  ASSUME RingInv, NEW v \in UserData, Post(v), UNCHANGED <<cq_khead, ev, running>>,
         NEW u
  PROVE  \/ /\ Kept(u)' = Kept(u)
            /\ InCq(Unread, u)' = InCq(Unread, u) + One(u = v)
            /\ InCq(Ahead, u)' = InCq(Ahead, u) + One(u = v)
         \/ /\ Kept(u)' = Kept(u) + One(u = v)
            /\ InCq(Unread, u)' = InCq(Unread, u)
            /\ InCq(Ahead, u)' = InCq(Ahead, u)
PROOF
  <1> Counting
    BY DEF RingInv
  <1>1. CASE overflow = <<>> /\ CqCount < CqEntries
    <2>1. /\ cqes' = [cqes EXCEPT ![cq_ktail % CqEntries] = v]
          /\ cq_ktail' = Inc(cq_ktail) /\ overflow' = overflow
      BY <1>1 DEF Post
    <2>2. Kept(u)' = Kept(u)
      BY <2>1 DEF Kept
    <2> QED BY <1>1, <2>1, <2>2, PushCqCount, ZenonT(40)
  <1>2. CASE ~(overflow = <<>> /\ CqCount < CqEntries)
    <2>1. overflow' = Append(overflow, v) /\ UNCHANGED <<cqes, cq_ktail>>
      BY <1>2 DEF Post
    <2>2. overflow \in Seq(UserData)
      BY DEF RingInv, TypeOK
    <2>3. Kept(u)' = Kept(u) + One(u = v)
      BY <2>1, <2>2, KeptAppend
    <2>4. InCq(Unread, u)' = InCq(Unread, u) /\ InCq(Ahead, u)' = InCq(Ahead, u)
      BY <2>1, Zenon DEF InCq, Unread, Ahead
    <2> QED BY <2>3, <2>4
  <1> QED BY <1>1, <1>2

LEMMA FinishCount ==
  ASSUME RingInv, NEW v \in UserData, Finish(v), NEW u \in UserData
  PROVE  /\ Place(u)' = Place(u) /\ Way(u)' = Way(u) /\ InSq(u)' = InSq(u)
         /\ inflight'[u] = inflight[u] - One(u = v)
PROOF
  <1>1. /\ inflight' = [inflight EXCEPT ![v] = @ - 1]
        /\ UNCHANGED <<sqes, sq_tail, sq_khead, cq_khead, ev, running>>
    BY DEF Finish, sqVars
  <1>2. InSq(u)' = InSq(u)
    BY <1>1 DEF InSq
  <1>3. Sums(u) /\ KernelSum(u)
    BY SumsHold
  <1>4. /\ inflight \in [UserData -> Nat] /\ taskwork \in [UserData -> Nat]
    BY DEF RingInv, TypeOK
  <1>5. inflight'[u] = inflight[u] - One(u = v)
    BY <1>1, <1>4 DEF One
  <1>7. CASE platform.defer_taskrun /\ pc # "kernel"
    <2>1. taskwork' = [taskwork EXCEPT ![v] = @ + 1] /\ UNCHANGED <<cqes, cq_ktail, overflow>>
      BY <1>7 DEF Finish, cqVars
    <2>2. taskwork'[u] = taskwork[u] + One(u = v)
      BY <1>4, <2>1 DEF One
    <2>3. Kept(u)' = Kept(u) /\ InCq(Unread, u)' = InCq(Unread, u)
          /\ InCq(Ahead, u)' = InCq(Ahead, u)
      BY <1>1, <2>1, Zenon DEF Kept, InCq, Unread, Ahead
    <2> QED BY <1>2, <1>3, <1>5, <2>2, <2>3, DeferredPlaces, Zenon
  <1>8. CASE ~(platform.defer_taskrun /\ pc # "kernel")
    <2>1. Post(v) /\ taskwork' = taskwork
      BY <1>8, ZenonT(40) DEF Finish
    <2>2. \/ /\ Kept(u)' = Kept(u)
             /\ InCq(Unread, u)' = InCq(Unread, u) + One(u = v)
             /\ InCq(Ahead, u)' = InCq(Ahead, u) + One(u = v)
          \/ /\ Kept(u)' = Kept(u) + One(u = v)
             /\ InCq(Unread, u)' = InCq(Unread, u)
             /\ InCq(Ahead, u)' = InCq(Ahead, u)
      BY <1>1, <2>1, PostCount
    <2>3. taskwork'[u] = taskwork[u]
      BY <2>1
    <2> QED BY <1>2, <1>3, <1>5, <2>2, <2>3, PostedPlaces, Zenon
  <1> QED BY <1>7, <1>8, ZenonT(40)

LEMMA RunTaskWorkCount ==
  ASSUME RingInv, NEW v \in UserData, RunTaskWork(v), NEW u \in UserData
  PROVE  /\ Place(u)' = Place(u) /\ Way(u)' = Way(u) /\ InSq(u)' = InSq(u)
         /\ inflight'[u] = inflight[u]
PROOF
  <1>1. /\ taskwork' = [taskwork EXCEPT ![v] = @ - 1] /\ Post(v)
        /\ UNCHANGED <<sqes, sq_tail, sq_khead, cq_khead, ev, running, inflight>>
    BY DEF RunTaskWork, sqVars
  <1>2. InSq(u)' = InSq(u)
    BY <1>1 DEF InSq
  <1>3. Sums(u) /\ KernelSum(u)
    BY SumsHold
  <1>4. taskwork'[u] = taskwork[u] - One(u = v)
    <2>1. taskwork \in [UserData -> Nat]
      BY ZenonT(40) DEF RingInv, TypeOK
    <2> QED BY <1>1, <2>1 DEF One
  <1>6. \/ /\ Kept(u)' = Kept(u)
           /\ InCq(Unread, u)' = InCq(Unread, u) + One(u = v)
           /\ InCq(Ahead, u)' = InCq(Ahead, u) + One(u = v)
        \/ /\ Kept(u)' = Kept(u) + One(u = v)
           /\ InCq(Unread, u)' = InCq(Unread, u)
           /\ InCq(Ahead, u)' = InCq(Ahead, u)
    BY <1>1, PostCount
  <1>7. inflight'[u] = inflight[u]
    BY <1>1, Zenon
  <1> QED BY <1>2, <1>3, <1>4, <1>6, <1>7, PostedPlaces, Zenon

LEMMA FlushOverflowCount ==
  ASSUME RingInv, FlushOverflow, NEW u \in UserData
  PROVE  /\ Place(u)' = Place(u) /\ Way(u)' = Way(u) /\ InSq(u)' = InSq(u)
         /\ inflight'[u] = inflight[u]
PROOF
  <1> Counting
    BY Zenon DEF RingInv
  <1>0. overflow \in Seq(UserData) /\ overflow # <<>>
    BY DEF RingInv, TypeOK, FlushOverflow
  <1> PICK v \in UserData : v = Head(overflow)
    BY <1>0
  <1>1. /\ overflow # <<>> /\ CqCount < CqEntries
        /\ cqes' = [cqes EXCEPT ![cq_ktail % CqEntries] = v]
        /\ cq_ktail' = Inc(cq_ktail) /\ overflow' = Tail(overflow)
        /\ UNCHANGED <<sqes, sq_tail, sq_khead, cq_khead, inflight, taskwork, ev, running>>
    BY DEF FlushOverflow, sqVars, kernelVars
  <1>3. InSq(u)' = InSq(u)
    BY <1>1 DEF InSq
  <1>4. Kept(u)' = Kept(u) - One(u = v)
    BY <1>0, <1>1, KeptTail
  <1>5. /\ InCq(Unread, u)' = InCq(Unread, u) + One(u = v)
        /\ InCq(Ahead, u)' = InCq(Ahead, u) + One(u = v)
    BY <1>1, PushCqCount, Zenon
  <1>6. Sums(u) /\ KernelSum(u)
    BY SumsHold
  <1>7. inflight'[u] = inflight[u] /\ taskwork'[u] = taskwork[u]
    BY <1>1
  <1> QED BY <1>3, <1>4, <1>5, <1>6, <1>7, FlushedPlaces, Zenon

LEMMA SubmitCount ==
  ASSUME RingInv, SubmitRest \/ SubmitSome, NEW u \in UserData
  PROVE  /\ Place(u)' = Place(u) /\ Way(u)' = Way(u)
         /\ InSq(u)' + inflight'[u] = InSq(u) + inflight[u]
         /\ InSq(u)' \in Nat /\ inflight'[u] \in Nat
PROOF
  <1>1. /\ pc = "enter"
        /\ UNCHANGED <<sqes, sq_tail, cqes, cq_ktail, overflow, cq_khead, taskwork, ev,
                       running>>
    BY Zenon DEF SubmitRest, SubmitSome, cqVars
  <1>2. TypeOK /\ Distance(sq_khead, sq_tail) = call.left /\ call.left \in Nat
    BY <1>1 DEF RingInv, SqSize, Submitting, TypeOK, Calls
  <1>3. PICK k \in 0..Distance(sq_khead, sq_tail) : Take(k)
    <2>1. CASE SubmitRest
      BY <1>2, <2>1 DEF SubmitRest
    <2>2. CASE SubmitSome
      BY <1>2, <2>2 DEF SubmitSome
    <2> QED BY <2>1, <2>2
  <1>4. /\ InSq(u)' + inflight'[u] = InSq(u) + inflight[u]
        /\ InSq(u)' \in Nat /\ inflight'[u] \in Nat
    BY <1>1, <1>3, TakeCount, Zenon
  <1>5. Kept(u)' = Kept(u) /\ InCq(Unread, u)' = InCq(Unread, u)
        /\ InCq(Ahead, u)' = InCq(Ahead, u) /\ taskwork'[u] = taskwork[u]
    BY <1>1 DEF Kept, InCq, Unread, Ahead
  <1>6. Sums(u) /\ KernelSum(u)
    BY SumsHold, Zenon
  <1> QED BY <1>4, <1>5, <1>6, SubmittedPlaces, Zenon

LEMMA PushPlaces ==
  ASSUME RingInv, NEW e \in Sqe, Push(e), ~Submitting,
         UNCHANGED <<sq_khead, cqes, cq_ktail, overflow, cq_khead, inflight, taskwork, ev,
                     running>>,
         NEW u \in UserData
  PROVE  /\ Place(u)' = Place(u) + One(u = e.data)
         /\ Way(u)' = Way(u) + One(u = e.data)
PROOF
  <1>1. InSq(u)' = InSq(u) + One(u = e.data)
    BY PushCount, Zenon
  <1>2. Kept(u)' = Kept(u) /\ InCq(Unread, u)' = InCq(Unread, u)
        /\ InCq(Ahead, u)' = InCq(Ahead, u)
    BY DEF Kept, InCq, Unread, Ahead
  <1>3. Sums(u)
    BY SumsHold, Zenon
  <1>4. InKernel(u)' = InKernel(u)
    BY Zenon DEF InKernel
  <1> QED BY <1>1, <1>2, <1>3, <1>4, PushedPlaces

(* Steps that move nothing. *)
LEMMA SamePlaces ==
  ASSUME UNCHANGED <<sqes, sq_tail, sq_khead, cqes, cq_ktail, overflow, cq_khead,
                     inflight, taskwork, ev, running>>,
         NEW u
  PROVE  /\ Place(u)' = Place(u) /\ Way(u)' = Way(u) /\ InSq(u)' = InSq(u)
PROOF
  BY Zenon DEF Place, Way, InSq, InKernel, InCq, Unread, Ahead

(* An entry less. *)
LEMMA RemoveCqCount ==
  ASSUME Counting, NEW S, IsFiniteSet(S), NEW x \in S, NEW u
  PROVE  /\ InCq(S \ {x}, u) = InCq(S, u) - One(u = cqes[x % CqEntries])
         /\ InCq(S, u) \in Nat
         /\ u = cqes[x % CqEntries] => InCq(S, u) >= 1
PROOF
  <1> DEFINE T == {i \in S : cqes[i % CqEntries] = u}
             T1 == {i \in S \ {x} : cqes[i % CqEntries] = u}
  <1>1. InCq(S, u) = Cardinality(T) /\ InCq(S \ {x}, u) = Cardinality(T1)
    BY DEF InCq
  <1>2. T1 = T \ {x} /\ (x \in T <=> u = cqes[x % CqEntries]) /\ T \subseteq S
    OBVIOUS
  <1> HIDE DEF T, T1
  <1>3. IsFiniteSet(T) /\ Cardinality(T) \in Nat /\ (Cardinality(T) = 0 <=> T = {})
    BY <1>2, PartFinite, Zenon
  <1>4. Cardinality(T1) = IF x \in T THEN Cardinality(T) - 1 ELSE Cardinality(T)
    BY <1>2, <1>3, RemoveCount
  <1> QED BY <1>1, <1>2, <1>3, <1>4 DEF One

LEMMA UnreadFinite ==
  ASSUME RingInv
  PROVE  IsFiniteSet(Unread) /\ IsFiniteSet(Window(cq_khead, cq_ktail))
PROOF
  <1> Counting
    BY DEF RingInv
  <1>1. IsFiniteSet(Window(cq_khead, cq_ktail)) /\ Unread \subseteq Window(cq_khead, cq_ktail)
    BY UnreadIs, WindowCount, Zenon
  <1> QED BY <1>1, PartFinite, Zenon

(* The entry whose request a step of run_events() completes. *)
LEMMA SlotType ==
  ASSUME RingInv, NEW i \in Window(cq_khead, cq_ktail)
  PROVE  cqes[i % CqEntries] \in UserData
PROOF
  <1>1. i \in Int
    BY UnreadIs, WindowIs, Constants DEF Index
  <1>2. i % CqEntries \in 0..(CqEntries - 1)
    BY <1>1, Constants, Division, Zenon
  <1> QED BY <1>2, Zenon DEF RingInv, TypeOK

LEMMA RunEventsCount ==
  ASSUME RingInv, RunEvents, CqCount # 0, ~running,
         UNCHANGED <<sqes, sq_tail, sq_khead, cqes, cq_ktail, overflow, cq_khead,
                     inflight, taskwork>>
  PROVE  \E v \in UserData :
           /\ Complete(v)
           /\ InCq(Unread, v) >= 1
           /\ \A u \in UserData : /\ Place(u)' = Place(u) - One(u = v)
                                  /\ Way(u)' = InSq(u) + InKernel(u)
                                  /\ InSq(u)' = InSq(u)
PROOF
  <1> Counting
    BY Zenon DEF RingInv
  <1> DEFINE last == (cq_ktail - 1) % IndexSpace
             v == cqes[last % CqEntries]
             W == Window(cq_khead, cq_ktail)
  <1>1. /\ ev' = [head |-> cq_khead, tail |-> last] /\ running' = TRUE
        /\ Complete(v)
    BY Zenon DEF RunEvents
  <1>2. cq_khead \in Index /\ cq_ktail \in Index /\ Unread = W
    BY UnreadIs, Zenon
  <1>3. last \in W /\ Inc(last) = cq_ktail
    BY <1>2, LastOfWindow, Zenon DEF CqCount
  <1> HIDE DEF last
  <1>4. Window(cq_ktail, cq_ktail) = {}
    BY <1>2, WindowEmpty
  <1>5. W \ {last} = Window(cq_khead, last) \cup Window(Inc(last), cq_ktail)
    BY <1>2, <1>3, WindowWithout, Zenon
  <1>6. Ahead' = {} /\ Unread' = W \ {last}
    BY <1>1, <1>3, <1>4, <1>5, Zenon DEF Ahead, Unread
  <1>7. IsFiniteSet(W) /\ v \in UserData
    BY <1>3, UnreadFinite, SlotType
  <1> HIDE DEF W
  <1>8. ASSUME NEW u \in UserData
        PROVE  /\ Place(u)' = Place(u) - One(u = v)
               /\ Way(u)' = InSq(u) + InKernel(u)
               /\ InSq(u)' = InSq(u)
    <2>1. InSq(u)' = InSq(u) /\ InKernel(u)' = InKernel(u)
      BY Zenon DEF InSq, InKernel
    <2>2. InCq(Unread, u)' = InCq(W \ {last}, u)
      BY <1>6 DEF InCq
    <2>3. /\ InCq(W \ {last}, u) = InCq(W, u) - One(u = v)
          /\ InCq(W, u) \in Nat
      BY <1>3, <1>7, RemoveCqCount, Zenon
    <2>4. InCq(Ahead, u)' = 0
      <3>1. InCq(Ahead, u)' = Cardinality({})
        BY <1>6, Zenon DEF InCq
      <3> QED BY <3>1, Zenon DEF Counting
    <2>5. Sums(u) /\ InCq(Unread, u) = InCq(W, u)
      BY <1>2, SumsHold, Zenon
    <2>6. InCq(Unread, u)' = InCq(Unread, u) - One(u = v)
      BY <2>2, <2>3, <2>5, Zenon
    <2> HIDE DEF v
    <2> QED BY <2>1, <2>4, <2>5, <2>6, CompletedPlaces, Zenon
  <1>9. InCq(Unread, v) >= 1
    BY <1>2, <1>3, <1>7, RemoveCqCount, Zenon
  <1> HIDE DEF v
  <1> QED BY <1>1, <1>7, <1>8, <1>9, Zenon

(* run_events() goes on with an entry, or ends. *)
LEMMA NextEventCount ==
  ASSUME RingInv, NextEvent
  PROVE  \/ \E v \in UserData :
              /\ Complete(v)
              /\ InCq(Unread, v) >= 1
              /\ \A u \in UserData : /\ Place(u)' = Place(u) - One(u = v)
                                     /\ Way(u)' = Way(u)
                                     /\ InSq(u)' = InSq(u)
         \/ /\ UNCHANGED <<pending, cancelling>>
            /\ \A u \in UserData : /\ Place(u)' = Place(u)
                                   /\ Way(u)' = Way(u)
                                   /\ InSq(u)' = InSq(u)
PROOF
  <1> Counting
    BY DEF RingInv
  <1> DEFINE h == ev.head
             v == cqes[h % CqEntries]
  <1>1. /\ pc \in {"events", "callback"} /\ cq_khead' = Inc(h)
        /\ UNCHANGED <<sqes, sq_tail, sq_khead, cqes, cq_ktail, overflow, inflight, taskwork>>
    BY Zenon DEF NextEvent, sqVars, cqVars, kernelVars
  <1>2. /\ running /\ h = cq_khead /\ ev.tail \in Window(cq_khead, cq_ktail)
        /\ cq_khead \in Index /\ cq_ktail \in Index
        /\ ev \in [head : Index, tail : Index]
    BY <1>1, Zenon DEF RingInv, Stack, CqSize, TypeOK
  <1>3. /\ Ahead = Window(Inc(ev.tail), cq_ktail)
        /\ Unread = Window(h, ev.tail) \cup Ahead
    BY <1>2, UnreadIs
  <1>4. ev.tail \in Index /\ Window(h, ev.tail) \cap Ahead = {}
    BY <1>2, <1>3, WindowWithout, Zenon
  <1>5. \A u \in UserData : InSq(u)' = InSq(u) /\ InKernel(u)' = InKernel(u)
    BY <1>1, Zenon DEF InSq, InKernel
  <1>6. CASE h # ev.tail
    <2>1. /\ ev' = [ev EXCEPT !.head = Inc(@)] /\ Complete(v) /\ running' = running
      BY <1>6 DEF NextEvent
    <2>2. ev'.head = Inc(h) /\ ev'.tail = ev.tail
      BY <1>2, <2>1, Zenon
    <2>3. /\ Window(h, ev.tail) = {h} \cup Window(Inc(h), ev.tail)
          /\ h \notin Window(Inc(h), ev.tail)
      BY <1>2, <1>4, <1>6, WindowShrinks, Zenon
    <2>4. Ahead' = Ahead /\ Unread' = Unread \ {h} /\ h \in Unread
      <3>1. Ahead' = Ahead
        BY <1>1, <1>2, <2>1, <2>2, ZenonT(40) DEF Ahead
      <3>2. Unread' = Window(Inc(h), ev.tail) \cup Ahead
        BY <1>2, <2>1, <2>2, <3>1, ZenonT(40) DEF Unread
      <3> QED BY <1>3, <1>4, <2>3, <3>1, <3>2, ZenonT(40)
    <2>5. IsFiniteSet(Unread) /\ v \in UserData
      BY <2>4, UnreadFinite, UnreadIs, SlotType
    <2>6. ASSUME NEW u \in UserData
          PROVE  Place(u)' = Place(u) - One(u = v) /\ Way(u)' = Way(u)
      <3>1. InCq(Unread, u)' = InCq(Unread \ {h}, u) /\ InCq(Ahead, u)' = InCq(Ahead, u)
        BY <1>1, <2>4, Zenon DEF InCq
      <3>2. /\ InCq(Unread \ {h}, u) = InCq(Unread, u) - One(u = v)
            /\ InCq(Unread, u) \in Nat
        BY <2>4, <2>5, RemoveCqCount, ZenonT(40)
      <3>3. Sums(u)
        BY SumsHold
      <3>4. InCq(Unread, u)' = InCq(Unread, u) - One(u = v)
        BY <3>1, <3>2, Zenon
      <3> HIDE DEF v
      <3> QED BY <1>5, <3>1, <3>3, <3>4, CompletedPlaces, Zenon
    <2>7. InCq(Unread, v) >= 1
      BY <2>4, <2>5, RemoveCqCount, Zenon
    <2> HIDE DEF v
    <2> QED BY <1>5, <2>1, <2>5, <2>6, <2>7, ZenonT(40)
  <1>7. CASE h = ev.tail
    <2>1. ~running' /\ UNCHANGED <<pending, cancelling>>
      BY <1>7 DEF NextEvent
    <2>2. Window(h, ev.tail) = {}
      BY <1>4, <1>7, WindowEmpty, Zenon
    <2>3. Ahead' = Ahead /\ Unread' = Unread
      BY <1>1, <1>3, <1>7, <2>1, <2>2, Zenon DEF Ahead, Unread
    <2>4. \A u \in UserData : Place(u)' = Place(u) /\ Way(u)' = Way(u)
      BY <1>1, <1>5, <2>3, Zenon DEF Place, Way, InCq
    <2> QED BY <1>5, <2>1, <2>4, Zenon
  <1> QED BY <1>6, <1>7, Zenon

-----------------------------------------------------------------------------
(* Every request is in one place.                                           *)

LEMMA PlaceIs ==
  ASSUME OnePlace, NEW r \in Reqs
  PROVE  Place(r) = One(r \in pending)
PROOF
  BY DEF OnePlace, Place, One

LEMMA OnePlaceNext ==
  ASSUME \A r \in Reqs : Place(r)' = One(r \in pending')
  PROVE  OnePlace'
PROOF
  BY DEF OnePlace, Place, One

(* An entry is completed once: its request is pending, and nowhere else. *)
LEMMA CompletePlace ==
  ASSUME RingInv, OnePlace, NEW v \in UserData, Complete(v), InCq(Unread, v) >= 1,
         \A u \in UserData : Place(u)' = Place(u) - One(u = v)
  PROVE  /\ OnePlace'
         /\ v \in Reqs => /\ v \in pending
                          /\ InSq(v) = 0 /\ inflight[v] = 0
PROOF
  <1>1. pending' = pending \ {v}
    BY DEF Complete
  <1>2. ASSUME v \in Reqs
        PROVE  v \in pending /\ InSq(v) = 0 /\ inflight[v] = 0 /\ Place(v) = 1
    <2>2. Sums(v) /\ KernelSum(v)
      BY SumsHold, Zenon
    <2>3. Place(v) = One(v \in pending)
      BY <1>2, PlaceIs, Zenon
    <2>4. One(v \in pending) \in {0, 1}
      BY OneType, Zenon
    <2>5. Place(v) = 1 /\ InSq(v) = 0 /\ inflight[v] = 0
      BY <2>2, <2>3, <2>4, OnlyUnread, Zenon
    <2> QED BY <2>3, <2>5 DEF One
  <1>3. ASSUME NEW r \in Reqs
        PROVE  Place(r)' = One(r \in pending')
    <2>1. Place(r)' = Place(r) - One(r = v) /\ Place(r) = One(r \in pending)
      BY PlaceIs, Zenon DEF UserData
    <2>2. CASE r = v
      BY <1>1, <1>2, <2>1, <2>2 DEF One
    <2>3. CASE r # v
      BY <1>1, <2>1, <2>3 DEF One
    <2> QED BY <2>2, <2>3, Zenon
  <1>4. OnePlace'
    BY <1>3, OnePlaceNext, Zenon
  <1> QED BY <1>2, <1>4, Zenon

LEMMA InitOnePlace == Counting /\ Init => OnePlace
PROOF
  <1> SUFFICES ASSUME Counting, Init, NEW r \in Reqs
               PROVE  InSq(r) + InKernel(r) + InCq(Unread, r) = 0
    BY Zenon DEF Init, OnePlace
  <1>0. Cardinality({}) = 0
    BY DEF Counting
  <1>1. Window(0, 0) = {}
    <2>1. 0 \in Index
      BY Constants DEF Index
    <2> QED BY <2>1, WindowEmpty, Zenon
  <1>2. Unread = {}
    BY <1>1 DEF Init, Unread, Ahead
  <1>3. InSq(r) = 0
    <2>1. {i \in Window(sq_khead, sq_tail) : sqes[i % SqEntries].data = r} = {}
      BY <1>1, Zenon DEF Init
    <2> QED BY <2>1, <1>0, Zenon DEF InSq
  <1>4. InKernel(r) = 0
    <2>1. {i \in DOMAIN overflow : overflow[i] = r} = {}
      BY DEF Init
    <2>2. inflight[r] = 0 /\ taskwork[r] = 0
      BY DEF Init, UserData
    <2> QED BY <2>1, <2>2, <1>0 DEF InKernel
  <1>5. InCq(Unread, r) = 0
    <2>1. {i \in Unread : cqes[i % CqEntries] = r} = {}
      BY <1>2
    <2> QED BY <2>1, <1>0, Zenon DEF InCq
  <1> QED BY <1>3, <1>4, <1>5

(* The kernel moves operations on, and none of them gets lost. *)
KernelStep ==
  \/ SubmitRest
  \/ SubmitSome
  \/ \E u \in UserData : Finish(u) \/ RunTaskWork(u)
  \/ FlushOverflow

LEMMA KernelCount ==
  ASSUME RingInv, KernelStep
  PROVE  /\ \A u \in UserData : Place(u)' = Place(u) /\ Way(u)' = Way(u)
         /\ UNCHANGED <<to_submit, to_complete, pending, cancelling, exiting, running>>
PROOF
  <1>1. ASSUME NEW u \in UserData
        PROVE  Place(u)' = Place(u) /\ Way(u)' = Way(u)
    BY SubmitCount, FinishCount, RunTaskWorkCount, FlushOverflowCount, ZenonT(40) DEF KernelStep
  <1>2. UNCHANGED <<to_submit, to_complete, pending, cancelling, exiting, running>>
    BY DEF KernelStep, SubmitRest, SubmitSome, Finish, RunTaskWork, FlushOverflow, taskVars
  <1> QED BY <1>1, <1>2, Zenon

(* run_events() begins, called by work(). *)
Reads ==
  /\ RunEvents /\ ~running /\ to_submit = 0
  /\ UNCHANGED <<sqes, sq_tail, sq_khead, to_submit, cqes, cq_ktail, overflow,
                 cq_khead, inflight, taskwork, doomed, exiting>>

(* A step that moves no operation; enter() has it count as submitted. *)
Quiet ==
  /\ UNCHANGED <<sqes, sq_tail, sq_khead, cqes, cq_ktail, overflow, cq_khead,
                 inflight, taskwork, doomed, ev, running, pending, cancelling>>
  /\ \/ UNCHANGED <<to_submit, to_complete>>
     \/ to_submit' = 0 /\ to_complete' = to_complete + to_submit

LEMMA WorkSteps ==
  ASSUME RingInv, NEW wait \in Waits, Work(wait)
  PROVE  Reads \/ Quiet
PROOF
  <1>1. /\ pc = "tasks"
        /\ UNCHANGED <<sqes, sq_tail, sq_khead, cqes, cq_ktail, overflow, cq_khead,
                       inflight, taskwork, doomed, exiting>>
    BY DEF Work, kernelVars, cqVars
  <1>2. ~running
    BY <1>1, Zenon DEF RingInv, Stack
  <1>3. CASE to_submit = 0 /\ (CqCount # 0 \/ (~NeedsEnter /\ ~wait))
    <2>1. RunEvents /\ UNCHANGED to_submit
      BY <1>3, Zenon DEF Work
    <2> QED BY <1>1, <1>2, <1>3, <2>1, Zenon DEF Reads
  <1>4. CASE ~(to_submit = 0 /\ (CqCount # 0 \/ (~NeedsEnter /\ ~wait)))
    <2>1. UNCHANGED <<ev, running, pending, cancelling>>
      BY <1>4 DEF Work
    <2>2. to_submit' = 0 /\ to_complete' = to_complete + to_submit
      BY <1>4 DEF Work, Flush, Enter
    <2> QED BY <1>1, <2>1, <2>2, Zenon DEF Quiet
  <1> QED BY <1>3, <1>4

LEMMA ReturnSteps ==
  ASSUME RingInv, FlushReturns \/ WorkReturns
  PROVE  Reads \/ Quiet
PROOF
  <1>1. CASE FlushReturns
    BY <1>1, Zenon DEF FlushReturns, Quiet, sqVars, cqVars, kernelVars, taskVars
  <1>2. CASE WorkReturns
    <2>1. /\ pc = "kernel" /\ call.from \in {"work", "compat"} /\ RunEvents
          /\ UNCHANGED <<sqes, sq_tail, sq_khead, to_submit, cqes, cq_ktail, overflow,
                         cq_khead, inflight, taskwork, doomed, exiting>>
      BY <1>2 DEF WorkReturns, CanReturn, sqVars, cqVars, kernelVars
    <2>2. ~running /\ to_submit = 0
      BY <2>1, Zenon DEF RingInv, Stack, SqSize
    <2> QED BY <2>1, <2>2, ZenonT(40) DEF Reads
  <1> QED BY <1>1, <1>2, Zenon

LEMMA OtherSteps ==
  ASSUME PushPanics \/ SubmitFails \/ Exit \/ ExitReturns \/ Stopped \/ UNCHANGED vars
  PROVE  Quiet
PROOF
  BY DEF PushPanics, SubmitFails, Exit, ExitReturns, Stopped, vars, sqVars, cqVars,
         kernelVars, taskVars, Quiet

(* What a step can be, as far as the places of operations go. *)
Moves ==
  \/ \E r \in Reqs : Starts(r) \/ Cancel(r)
  \/ CompatWait
  \/ KernelStep
  \/ NextEvent
  \/ Reads
  \/ Quiet

LEMMA NextMoves ==
  ASSUME RingInv, [Next]_vars
  PROVE  Moves
PROOF
  BY StartOpStarts, WorkSteps, ReturnSteps, OtherSteps, Zenon DEF Next, KernelStep, Moves

LEMMA MovesPlace == RingInv /\ OnePlace /\ Moves => OnePlace'
PROOF
  <1>SameOne.
    ASSUME OnePlace, \A u \in UserData : Place(u)' = Place(u), UNCHANGED pending
    PROVE  OnePlace'
    <2> USE <1>SameOne
    <2>1. \A r \in Reqs : Place(r)' = One(r \in pending')
      BY PlaceIs DEF UserData
    <2> QED BY <2>1, OnePlaceNext, ZenonT(40)
  <1>Starts.
    ASSUME RingInv, OnePlace, NEW r \in Reqs, Starts(r)
    PROVE  OnePlace'
    <2> USE <1>Starts
    <2>1. /\ r \notin pending /\ pending' = pending \cup {r} /\ Push(IoSqe(r)) /\ ~Submitting
          /\ UNCHANGED <<sq_khead, cqes, cq_ktail, overflow, cq_khead, inflight, taskwork, ev,
                         running>>
      BY Zenon DEF Starts, StartAsync, TasksRun, Submitting, cqVars, kernelVars
    <2>2. IoSqe(r) \in Sqe /\ IoSqe(r).data = r
      BY Zenon DEF IoSqe, Sqe, UserData
    <2>3. ASSUME NEW q \in Reqs
          PROVE  Place(q)' = One(q \in pending')
      <3>1. Place(q)' = Place(q) + One(q = r)
        BY <2>1, <2>2, PushPlaces DEF UserData
      <3>2. Place(q) = One(q \in pending)
        BY PlaceIs, Zenon
      <3> QED BY <2>1, <3>1, <3>2 DEF One
    <2> QED BY <2>3, OnePlaceNext, Zenon
  (* Cancels and timeouts are NO_OPs. *)
  <1>NoOp.
    ASSUME RingInv, OnePlace, NEW e \in Sqe, e.data = NoOp, Push(e), ~Submitting,
           UNCHANGED <<sq_khead, cqes, cq_ktail, overflow, cq_khead, inflight, taskwork, ev,
                       running, pending>>
    PROVE  OnePlace'
    <2> USE <1>NoOp
    <2>1. ASSUME NEW q \in Reqs
          PROVE  Place(q)' = One(q \in pending')
      <3>1. Place(q)' = Place(q) + One(q = NoOp)
        BY PushPlaces, Zenon DEF UserData
      <3>2. Place(q) = One(q \in pending) /\ q # NoOp
        BY PlaceIs, IoUringAssumption
      <3> QED BY <3>1, <3>2 DEF One
    <2> QED BY <2>1, OnePlaceNext, Zenon
  <1>Cancel.
    ASSUME RingInv, OnePlace, NEW r \in Reqs, Cancel(r)
    PROVE  OnePlace'
    <2> USE <1>Cancel
    <2>1. /\ Push(CancelSqe(r)) /\ ~Submitting
          /\ UNCHANGED <<sq_khead, cqes, cq_ktail, overflow, cq_khead, inflight, taskwork, ev,
                         running, pending>>
      BY Zenon DEF Cancel, StartAsync, TasksRun, Submitting, cqVars, kernelVars
    <2>2. CancelSqe(r) \in Sqe /\ CancelSqe(r).data = NoOp
      BY Zenon DEF CancelSqe, Sqe, UserData
    <2> QED BY <2>1, <2>2, <1>NoOp, Zenon
  <1>CompatWait.
    ASSUME RingInv, OnePlace, CompatWait
    PROVE  OnePlace'
    <2> USE <1>CompatWait
    <2>1. /\ Push(TimeoutSqe) /\ ~Submitting
          /\ UNCHANGED <<sq_khead, cqes, cq_ktail, overflow, cq_khead, inflight, taskwork, ev,
                         running, pending>>
      BY DEF CompatWait, CanReturn, Submitting, cqVars, kernelVars, taskVars
    <2>2. TimeoutSqe \in Sqe /\ TimeoutSqe.data = NoOp
      BY DEF TimeoutSqe, Sqe, UserData
    <2> QED BY <2>1, <2>2, <1>NoOp, Zenon
  <1>Kernel.
    ASSUME RingInv, OnePlace, KernelStep
    PROVE  OnePlace'
    BY <1>Kernel, KernelCount, <1>SameOne, Zenon
  (* The entries of one call of run_events(). *)
  <1>RunEvents.
    ASSUME RingInv, OnePlace, RunEvents, ~running,
           UNCHANGED <<sqes, sq_tail, sq_khead, cqes, cq_ktail, overflow, cq_khead,
                       inflight, taskwork>>
    PROVE  OnePlace'
    <2> USE <1>RunEvents
    <2>1. CASE CqCount = 0
      <3>1. UNCHANGED <<pending, ev, running>>
        BY <2>1, Zenon DEF RunEvents
      <3>2. \A u \in UserData : Place(u)' = Place(u)
        BY <3>1, SamePlaces, Zenon
      <3> QED BY <3>1, <3>2, <1>SameOne, Zenon
    <2>2. CASE CqCount # 0
      BY <2>2, RunEventsCount, CompletePlace, Zenon
    <2> QED BY <2>1, <2>2, Zenon
  <1>NextEvent.
    ASSUME RingInv, OnePlace, NextEvent
    PROVE  OnePlace'
    BY <1>NextEvent, NextEventCount, CompletePlace, <1>SameOne, Zenon
  <1>Quiet.
    ASSUME OnePlace, Quiet
    PROVE  OnePlace'
    <2> USE <1>Quiet
    <2>1. \A u \in UserData : Place(u)' = Place(u)
      BY SamePlaces, Zenon DEF Quiet
    <2> QED BY <2>1, <1>SameOne, Zenon DEF Quiet
  <1>Reads.
    ASSUME RingInv, OnePlace, Reads
    PROVE  OnePlace'
    BY <1>Reads, <1>RunEvents DEF Reads
  <1> QED BY <1>Starts, <1>Cancel, <1>CompatWait, <1>Kernel, <1>NextEvent,
             <1>Reads, <1>Quiet, ZenonT(40)
          DEF Moves

=============================================================================
