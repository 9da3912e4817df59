---------------------------- MODULE RingProofs ------------------------------
(***************************************************************************)
(* Proofs about the rings of module IoUring, of any size and for every      *)
(* platform: where their entries are.                                       *)
(*                                                                         *)
(* RingInv is the arithmetic of the two rings: indices that wrap, the       *)
(* window of positions between two of them, and how many entries it holds.  *)
(* It shows that a slot is only ever written when no entry of the window is *)
(* in it.                                                                   *)
(***************************************************************************)
EXTENDS IoUring, Functions, TLAPS

Index == 0..(IndexSpace - 1)

Callers == {"tasks", "callback", "work", "compat"}

Calls == [left : Nat, min : Nat, get_events : BOOLEAN, from : Callers, seen : Index]

TypeOK ==
  /\ platform \in [ext_arg : BOOLEAN, submit_all : BOOLEAN,
                   defer_taskrun : BOOLEAN, overflow_checks : BOOLEAN]
  /\ sqes \in [0..(SqEntries - 1) -> Sqe]
  /\ sq_tail \in Index /\ sq_khead \in Index
  /\ to_submit \in Nat /\ to_complete \in Int
  /\ cqes \in [0..(CqEntries - 1) -> UserData]
  /\ cq_khead \in Index /\ cq_ktail \in Index
  /\ inflight \in [UserData -> Nat] /\ taskwork \in [UserData -> Nat]
  /\ overflow \in Seq(UserData)
  /\ pending \subseteq Reqs
  /\ exiting \in BOOLEAN /\ running \in BOOLEAN
  /\ pc \in Pcs
  /\ call \in Calls
  /\ ev \in [head : Index, tail : Index]

(* The submission ring holds what to_submit counts or, in a call of         *)
(* io_uring_enter, what the call is to submit.                              *)
Submitting == pc \in {"enter", "abort"}

SqSize ==
  /\ Distance(sq_khead, sq_tail) = to_submit + IF Submitting THEN call.left ELSE 0
  /\ to_submit < SqEntries
  /\ Submitting => to_submit = 0 /\ call.left <= SqEntries
  /\ pc = "kernel" => to_submit = 0

(* The completion ring is not overfull, and while run_events() runs its     *)
(* head is the ring's and its tail an entry that is still there.            *)
CqSize ==
  /\ CqCount <= CqEntries
  /\ running => ev.head = cq_khead /\ ev.tail \in Window(cq_khead, cq_ktail)

(* When run_events() is on the stack. *)
Stack ==
  /\ pc = "tasks" => ~running
  /\ pc \in {"events", "callback"} => running
  /\ pc \in {"enter", "kernel"} => (running <=> call.from = "callback")

(* What the proofs need to know about finite sets.  It goes with the        *)
(* invariant: only module EngineProofs, where it is shown that it holds,    *)
(* has to take in the library's theorems on finite sets.                    *)
Counting ==
  /\ \A S : IsFiniteSet(S) =>
       /\ Cardinality(S) \in Nat /\ (Cardinality(S) = 0 <=> S = {})
       /\ ExistsBijection(1..Cardinality(S), S)
  /\ \A S, T : IsFiniteSet(S) /\ T \subseteq S => IsFiniteSet(T)
  /\ \A S, T : IsFiniteSet(S) /\ ExistsBijection(S, T) =>
       IsFiniteSet(T) /\ Cardinality(T) = Cardinality(S)
  /\ \A S, T : IsFiniteSet(S) /\ IsFiniteSet(T) /\ S \cap T = {} =>
       IsFiniteSet(S \cup T) /\ Cardinality(S \cup T) = Cardinality(S) + Cardinality(T)
  /\ \A S, x : IsFiniteSet(S) /\ x \notin S =>
       IsFiniteSet(S \cup {x}) /\ Cardinality(S \cup {x}) = Cardinality(S) + 1
  /\ \A a, b \in Int :
       IsFiniteSet(a..b) /\ Cardinality(a..b) = IF a > b THEN 0 ELSE b - a + 1
  /\ IsFiniteSet({}) /\ Cardinality({}) = 0

RingInv == Counting /\ TypeOK /\ SqSize /\ CqSize /\ Stack

LEMMA PartFinite ==
  ASSUME Counting, NEW S, IsFiniteSet(S), NEW T, T \subseteq S
  PROVE  IsFiniteSet(T) /\ Cardinality(T) \in Nat /\ (Cardinality(T) = 0 <=> T = {})
PROOF
  <1>1. IsFiniteSet(T)
    BY DEF Counting
  <1> QED BY <1>1, Zenon DEF Counting

LEMMA DisjointCount ==
  ASSUME Counting, NEW S, IsFiniteSet(S), NEW T, IsFiniteSet(T), S \cap T = {}
  PROVE  /\ IsFiniteSet(S \cup T)
         /\ Cardinality(S \cup T) = Cardinality(S) + Cardinality(T)
PROOF
  BY Zenon DEF Counting

LEMMA AddCount ==
  ASSUME Counting, NEW S, IsFiniteSet(S), NEW x, x \notin S
  PROVE  IsFiniteSet(S \cup {x}) /\ Cardinality(S \cup {x}) = Cardinality(S) + 1
PROOF
  BY Zenon DEF Counting

LEMMA RemoveCount ==
  ASSUME Counting, NEW S, IsFiniteSet(S), NEW x
  PROVE  Cardinality(S \ {x}) = IF x \in S THEN Cardinality(S) - 1 ELSE Cardinality(S)
PROOF
  <1>1. CASE x \in S
    <2> DEFINE T == S \ {x}
    <2>1. S = T \cup {x} /\ x \notin T /\ T \subseteq S
      BY <1>1
    <2> HIDE DEF T
    <2>2. IsFiniteSet(T) /\ Cardinality(T) \in Nat
      BY <2>1, PartFinite
    <2>3. Cardinality(S) = Cardinality(T) + 1
      BY <2>1, <2>2, AddCount
    <2> QED BY <1>1, <2>2, <2>3 DEF T
  <1>2. CASE x \notin S
    <2>1. S \ {x} = S
      BY <1>2
    <2> QED BY <1>2, <2>1
  <1> QED BY <1>1, <1>2

LEMMA SameCount ==
  ASSUME Counting, NEW S, IsFiniteSet(S), NEW T, ExistsBijection(S, T)
  PROVE  IsFiniteSet(T) /\ Cardinality(T) = Cardinality(S)
PROOF
  BY DEF Counting

LEMMA IntervalCount ==
  ASSUME Counting, NEW a \in Int, NEW b \in Int
  PROVE  IsFiniteSet(a..b) /\ Cardinality(a..b) = IF a > b THEN 0 ELSE b - a + 1
PROOF
  BY Zenon DEF Counting

LEMMA Constants ==
  /\ IndexSpace \in Nat \ {0} /\ IndexSpace >= 2
  /\ SqEntries \in Nat \ {0} /\ SqEntries < IndexSpace /\ IndexSpace % SqEntries = 0
  /\ CqEntries \in Nat \ {0} /\ CqEntries < IndexSpace /\ IndexSpace % CqEntries = 0
PROOF
  BY IoUringAssumption

(* Division by a positive number. *)
LEMMA Division ==
  ASSUME NEW d \in Nat \ {0}, NEW a \in Int
  PROVE  /\ a % d \in 0..(d - 1)
         /\ a \div d \in Int
         /\ a = d * (a \div d) + (a % d)
PROOF
  OBVIOUS

LEMMA Distributes ==
  ASSUME NEW d \in Int, NEW x \in Int, NEW y \in Int
  PROVE  d * (x + y) = d * x + d * y /\ d * (x - y) = d * x - d * y
PROOF
  OBVIOUS

(* A multiple that is less than one step away from zero is zero. *)
LEMMA SmallMultiple ==
  ASSUME NEW d \in Nat \ {0}, NEW t \in Int, -d < d * t, d * t < d
  PROVE  d * t = 0
PROOF
  <1>1. ASSUME t >= 1 PROVE d * t >= d
    BY <1>1
  <1>2. ASSUME t <= -1 PROVE d * t <= -d
    BY <1>2
  <1>3. t = 0 => d * t = 0
    OBVIOUS
  <1>4. d * t \in Int
    OBVIOUS
  <1> QED BY <1>1, <1>2, <1>3, <1>4

(* What the modulo operator computes, around one turn of the index space. *)
LEMMA OneTurn ==
  ASSUME NEW a \in Int, -IndexSpace <= a, a < 2 * IndexSpace
  PROVE  a % IndexSpace = IF a < 0 THEN a + IndexSpace
                          ELSE IF a < IndexSpace THEN a
                          ELSE a - IndexSpace
PROOF
  <1> DEFINE N == IndexSpace
             q == a \div N
  <1>1. N \in Nat \ {0}
    BY Constants
  <1>2. a % N \in 0..(N - 1) /\ q \in Int /\ a = N * q + (a % N)
    BY <1>1, Division
  <1>3. CASE a < 0
    <2>1. q = -1
      BY <1>1, <1>2, <1>3
    <2> QED BY <1>1, <1>2, <1>3, <2>1
  <1>4. CASE 0 <= a /\ a < N
    <2>1. q = 0
      BY <1>1, <1>2, <1>4
    <2> QED BY <1>1, <1>2, <1>4, <2>1
  <1>5. CASE N <= a
    <2>1. q = 1
      BY <1>1, <1>2, <1>5
    <2> QED BY <1>1, <1>2, <1>5, <2>1
  <1> QED BY <1>1, <1>3, <1>4, <1>5

LEMMA DistanceIs ==
  ASSUME NEW a \in Index, NEW b \in Index
  PROVE  /\ Distance(a, b) = IF a <= b THEN b - a ELSE b - a + IndexSpace
         /\ Distance(a, b) \in Index
PROOF
  BY Constants, OneTurn DEF Distance, Index

LEMMA IncIs ==
  ASSUME NEW a \in Index
  PROVE  /\ Inc(a) = IF a = IndexSpace - 1 THEN 0 ELSE a + 1
         /\ Inc(a) \in Index
PROOF
  BY Constants, OneTurn DEF Inc, Index

(* A position is in the window when it is closer to its start than its end. *)
LEMMA WindowIs ==
  ASSUME NEW a \in Index, NEW b \in Index
  PROVE  Window(a, b) = {i \in Index : Distance(a, i) < Distance(a, b)}
PROOF
  <1>1. ASSUME NEW i \in Window(a, b)
        PROVE  i \in Index /\ Distance(a, i) < Distance(a, b)
    <2>1. PICK k \in 0..(Distance(a, b) - 1) : i = (a + k) % IndexSpace
      BY DEF Window
    <2>2. k \in Index /\ k < Distance(a, b)
      <3>1. Distance(a, b) \in Index
        BY DistanceIs
      <3> QED BY <2>1, <3>1, Constants DEF Index
    <2>3. i = IF a + k < IndexSpace THEN a + k ELSE a + k - IndexSpace
      BY <2>1, <2>2, Constants, OneTurn DEF Index
    <2>4. i \in Index
      BY <2>2, <2>3, Constants DEF Index
    <2>5. Distance(a, i) = IF a <= i THEN i - a ELSE i - a + IndexSpace
      BY <2>4, DistanceIs
    <2>6. Distance(a, i) = k
      BY <2>2, <2>3, <2>4, <2>5, Constants DEF Index
    <2> QED BY <2>2, <2>4, <2>6
  <1>2. ASSUME NEW i \in Index, Distance(a, i) < Distance(a, b)
        PROVE  i \in Window(a, b)
    <2> DEFINE k == Distance(a, i)
    <2>1. Distance(a, b) \in Index /\ k \in Index
      BY DistanceIs
    <2>2. k \in 0..(Distance(a, b) - 1)
      BY <1>2, <2>1, Constants DEF Index
    <2>3. k = IF a <= i THEN i - a ELSE i - a + IndexSpace
      BY DistanceIs
    <2>4. (a + k) % IndexSpace = i
      BY <2>1, <2>3, OneTurn, Constants DEF Index
    <2> QED BY <2>2, <2>4 DEF Window
  <1> QED BY <1>1, <1>2

LEMMA WindowCount ==
  ASSUME Counting, NEW a \in Index, NEW b \in Index
  PROVE  /\ IsFiniteSet(Window(a, b))
         /\ Cardinality(Window(a, b)) = Distance(a, b)
         /\ Window(a, b) \subseteq Index
PROOF
  <1> DEFINE n == Distance(a, b)
             f == [k \in 0..(n - 1) |-> (a + k) % IndexSpace]
  <1>1. n \in Index
    BY DistanceIs
  <1>2. IsFiniteSet(0..(n - 1)) /\ Cardinality(0..(n - 1)) = n
    <2>1. n \in Int /\ n - 1 \in Int /\ n >= 0
      BY <1>1, Constants DEF Index
    <2> HIDE DEF n
    <2> QED BY <2>1, IntervalCount
  <1>3. f \in Bijection(0..(n - 1), Window(a, b))
    <2>1. f \in [0..(n - 1) -> Window(a, b)]
      BY DEF Window
    <2>2. ASSUME NEW k \in 0..(n - 1), NEW l \in 0..(n - 1), f[k] = f[l]
          PROVE  k = l
      <3> HIDE DEF n
      <3>1. k \in Index /\ l \in Index
        BY <1>1, Constants DEF Index
      <3>2. /\ f[k] = IF a + k < IndexSpace THEN a + k ELSE a + k - IndexSpace
            /\ f[l] = IF a + l < IndexSpace THEN a + l ELSE a + l - IndexSpace
        BY <3>1, OneTurn, Constants DEF Index
      <3> QED BY <2>2, <3>1, <3>2, Constants DEF Index
    <2>3. \A i \in Window(a, b) : \E k \in 0..(n - 1) : f[k] = i
      BY DEF Window
    <2> QED BY <2>1, <2>2, <2>3 DEF Bijection, Injection, Surjection, IsInjective
  <1>4. ExistsBijection(0..(n - 1), Window(a, b))
    BY <1>3 DEF ExistsBijection
  <1>5. IsFiniteSet(Window(a, b)) /\ Cardinality(Window(a, b)) = n
    BY <1>2, <1>4, SameCount
  <1> QED BY <1>5, WindowIs

LEMMA WindowEmpty ==
  ASSUME NEW a \in Index
  PROVE  Window(a, a) = {} /\ Distance(a, a) = 0
PROOF
  <1>1. Distance(a, a) = 0
    BY DistanceIs, Constants DEF Index
  <1> QED BY <1>1 DEF Window

(* A window grows at its end, shrinks at its start, and is cut in two. *)
LEMMA WindowGrows ==
  ASSUME NEW a \in Index, NEW b \in Index, Distance(a, b) < IndexSpace - 1
  PROVE  /\ Window(a, Inc(b)) = Window(a, b) \cup {b}
         /\ b \notin Window(a, b)
         /\ Distance(a, Inc(b)) = Distance(a, b) + 1
PROOF
  <1>1. Inc(b) \in Index /\ Inc(b) = IF b = IndexSpace - 1 THEN 0 ELSE b + 1
    BY IncIs
  <1>2. Distance(a, Inc(b)) = Distance(a, b) + 1
    <2>1. /\ Distance(a, b) = IF a <= b THEN b - a ELSE b - a + IndexSpace
          /\ Distance(a, Inc(b)) = IF a <= Inc(b) THEN Inc(b) - a
                                   ELSE Inc(b) - a + IndexSpace
      BY <1>1, DistanceIs
    <2> QED BY <1>1, <2>1, Constants DEF Index
  <1>3. ASSUME NEW i \in Index
        PROVE  Distance(a, i) < Distance(a, b) + 1
                 <=> Distance(a, i) < Distance(a, b) \/ i = b
    <2>1. /\ Distance(a, b) = IF a <= b THEN b - a ELSE b - a + IndexSpace
          /\ Distance(a, i) = IF a <= i THEN i - a ELSE i - a + IndexSpace
      BY DistanceIs
    <2> QED BY <2>1, Constants DEF Index
  <1>4. /\ Window(a, b) = {i \in Index : Distance(a, i) < Distance(a, b)}
        /\ Window(a, Inc(b)) = {i \in Index : Distance(a, i) < Distance(a, Inc(b))}
    BY <1>1, WindowIs
  <1>5. Distance(a, b) \in Int
    BY DistanceIs, Constants DEF Index
  <1> QED BY <1>2, <1>3, <1>4, <1>5

LEMMA WindowCut ==
  ASSUME NEW a \in Index, NEW b \in Index, NEW c \in Index,
         Distance(a, c) <= Distance(a, b)
  PROVE  /\ Window(a, b) = Window(a, c) \cup Window(c, b)
         /\ Window(a, c) \cap Window(c, b) = {}
         /\ Distance(c, b) = Distance(a, b) - Distance(a, c)
PROOF
  <1>0. /\ Distance(a, b) = IF a <= b THEN b - a ELSE b - a + IndexSpace
        /\ Distance(a, c) = IF a <= c THEN c - a ELSE c - a + IndexSpace
        /\ Distance(c, b) = IF c <= b THEN b - c ELSE b - c + IndexSpace
    BY DistanceIs
  <1>1. Distance(c, b) = Distance(a, b) - Distance(a, c)
    BY <1>0, Constants DEF Index
  <1>2. ASSUME NEW i \in Index
        PROVE  /\ Distance(a, i) < Distance(a, b) <=>
                    Distance(a, i) < Distance(a, c) \/ Distance(c, i) < Distance(c, b)
               /\ ~(Distance(a, i) < Distance(a, c) /\ Distance(c, i) < Distance(c, b))
    <2>1. /\ Distance(a, i) = IF a <= i THEN i - a ELSE i - a + IndexSpace
          /\ Distance(c, i) = IF c <= i THEN i - c ELSE i - c + IndexSpace
      BY DistanceIs
    <2> QED BY <1>0, <2>1, Constants DEF Index
  <1> QED BY <1>1, <1>2, WindowIs

LEMMA WindowShrinks ==
  ASSUME NEW a \in Index, NEW b \in Index, a # b
  PROVE  /\ Window(a, b) = {a} \cup Window(Inc(a), b)
         /\ a \notin Window(Inc(a), b)
         /\ Distance(Inc(a), b) = Distance(a, b) - 1
PROOF
  <1>1. Inc(a) \in Index /\ Inc(a) = IF a = IndexSpace - 1 THEN 0 ELSE a + 1
    BY IncIs
  <1>2. Distance(Inc(a), b) = Distance(a, b) - 1
    <2>1. /\ Distance(a, b) = IF a <= b THEN b - a ELSE b - a + IndexSpace
          /\ Distance(Inc(a), b) = IF Inc(a) <= b THEN b - Inc(a)
                                   ELSE b - Inc(a) + IndexSpace
      BY <1>1, DistanceIs
    <2> QED BY <1>1, <2>1, Constants DEF Index
  <1>3. ASSUME NEW i \in Index
        PROVE  /\ Distance(a, i) < Distance(a, b) <=>
                    i = a \/ Distance(Inc(a), i) < Distance(Inc(a), b)
               /\ ~(i = a /\ Distance(Inc(a), i) < Distance(Inc(a), b))
    <2>1. /\ Distance(a, i) = IF a <= i THEN i - a ELSE i - a + IndexSpace
          /\ Distance(a, b) = IF a <= b THEN b - a ELSE b - a + IndexSpace
          /\ Distance(Inc(a), i) = IF Inc(a) <= i THEN i - Inc(a)
                                   ELSE i - Inc(a) + IndexSpace
          /\ Distance(Inc(a), b) = IF Inc(a) <= b THEN b - Inc(a)
                                   ELSE b - Inc(a) + IndexSpace
      BY <1>1, DistanceIs
    <2> QED BY <1>1, <2>1, Constants DEF Index
  <1> QED BY <1>1, <1>2, <1>3, WindowIs

LEMMA WindowWithout ==
  ASSUME NEW a \in Index, NEW b \in Index, NEW c \in Window(a, b)
  PROVE  /\ Window(a, b) \ {c} = Window(a, c) \cup Window(Inc(c), b)
         /\ Window(a, c) \cap Window(Inc(c), b) = {}
         /\ Inc(c) \in Index /\ c \in Index
         /\ Distance(a, c) < Distance(a, b)
         /\ Distance(Inc(c), b) <= Distance(a, b)
PROOF
  <1>1. c \in Index /\ Distance(a, c) < Distance(a, b)
    BY WindowIs
  <1>2. Distance(a, c) \in Int /\ Distance(a, b) \in Int
    BY <1>1, DistanceIs, Constants DEF Index
  <1>3. /\ Window(a, b) = Window(a, c) \cup Window(c, b)
        /\ Window(a, c) \cap Window(c, b) = {}
        /\ Distance(c, b) = Distance(a, b) - Distance(a, c)
    BY <1>1, <1>2, WindowCut
  <1>4. c # b
    BY <1>1, <1>2
  <1>5. /\ Window(c, b) = {c} \cup Window(Inc(c), b) /\ c \notin Window(Inc(c), b)
        /\ Distance(Inc(c), b) = Distance(c, b) - 1
    BY <1>1, <1>4, WindowShrinks
  <1>6. Distance(Inc(c), b) <= Distance(a, b)
    <2>1. Distance(a, c) \in Index
      BY <1>1, DistanceIs
    <2> QED BY <1>2, <1>3, <1>5, <2>1, Constants DEF Index
  <1> QED BY <1>1, <1>3, <1>5, <1>6, IncIs

LEMMA LastOfWindow ==
  ASSUME NEW a \in Index, NEW b \in Index, Distance(a, b) # 0
  PROVE  LET last == (b - 1) % IndexSpace
         IN  /\ last \in Window(a, b)
             /\ Inc(last) = b
PROOF
  <1> DEFINE last == (b - 1) % IndexSpace
  <1>1. last = (IF b = 0 THEN IndexSpace - 1 ELSE b - 1) /\ last \in Index
    BY OneTurn, Constants DEF Index
  <1> HIDE DEF last
  <1>2. Inc(last) = b
    BY <1>1, IncIs, Constants DEF Index
  <1>3. Distance(a, last) < Distance(a, b)
    <2>1. /\ Distance(a, b) = IF a <= b THEN b - a ELSE b - a + IndexSpace
          /\ Distance(a, last) = IF a <= last THEN last - a
                                 ELSE last - a + IndexSpace
      BY <1>1, DistanceIs
    <2> QED BY <1>1, <2>1, Constants DEF Index
  <1>4. last \in Window(a, b)
    BY <1>1, <1>3, WindowIs
  <1> QED BY <1>2, <1>4 DEF last

(* A ring whose size divides the index space has a slot for each position   *)
(* of a window that is no longer than the ring.                             *)
LEMMA Slots ==
  ASSUME NEW E \in Nat \ {0}, IndexSpace % E = 0,
         NEW a \in Index, NEW b \in Index, Distance(a, b) <= E,
         NEW i \in Window(a, b), NEW j \in Window(a, b), i % E = j % E
  PROVE  i = j
PROOF
  <1> DEFINE N == IndexSpace
             m == N \div E
             p == i \div E
             q == j \div E
             di == Distance(a, i)
             dj == Distance(a, j)
  <1>1. i \in Index /\ j \in Index /\ di < Distance(a, b) /\ dj < Distance(a, b)
    BY WindowIs
  <1>2. N \in Int /\ i \in Int /\ j \in Int
    BY <1>1, Constants DEF Index
  <1>3. m \in Int /\ N = E * m
    BY <1>2, Division
  <1>4. /\ p \in Int /\ i = E * p + (i % E) /\ i % E \in Int
        /\ q \in Int /\ j = E * q + (j % E)
    BY <1>2, Division
  <1>5. /\ di = IF a <= i THEN i - a ELSE i - a + N
        /\ dj = IF a <= j THEN j - a ELSE j - a + N
        /\ Distance(a, b) \in Index
    BY <1>1, DistanceIs
  <1> HIDE DEF m, p, q, di, dj
  <1>6. \E t \in Int : di - dj = E * t
    <2>1. i - j = E * (p - q)
      BY <1>2, <1>4, Distributes
    <2>2. i - j + N = E * ((p - q) + m)
      BY <1>2, <1>3, <1>4, <2>1, Distributes
    <2>3. i - j - N = E * ((p - q) - m)
      BY <1>2, <1>3, <1>4, <2>1, Distributes
    <2>4. di - dj = i - j \/ di - dj = i - j + N \/ di - dj = i - j - N
      BY <1>1, <1>5, Constants DEF Index
    <2>5. p - q \in Int /\ (p - q) + m \in Int /\ (p - q) - m \in Int
      BY <1>3, <1>4
    <2> QED BY <2>1, <2>2, <2>3, <2>4, <2>5, Zenon
  <1>7. PICK t \in Int : di - dj = E * t
    BY <1>6, Zenon
  <1>8. di \in Nat /\ dj \in Nat /\ di < E /\ dj < E
    BY <1>1, <1>5, Constants DEF Index
  <1>9. di = dj
    <2>1. -E < E * t /\ E * t < E
      BY <1>7, <1>8
    <2>2. E * t = 0
      BY <2>1, SmallMultiple
    <2> QED BY <1>7, <1>8, <2>2
  <1> QED BY <1>1, <1>5, <1>9, Constants DEF Index

(* The slot of a position is the same in the ring and in the index space. *)
LEMMA SlotOf ==
  ASSUME NEW E \in Nat \ {0}, IndexSpace % E = 0, NEW x \in 0..(2 * IndexSpace - 1)
  PROVE  /\ (x % IndexSpace) % E = x % E
         /\ x % E \in 0..(E - 1)
PROOF
  <1> DEFINE N == IndexSpace
             m == N \div E
             y == x - N
             p == y \div E
  <1>1. N \in Int /\ x \in Int /\ y \in Int
    BY Constants
  <1>2. m \in Int /\ N = E * m
    BY <1>1, Division
  <1>3. p \in Int /\ y = E * p + (y % E) /\ y % E \in 0..(E - 1)
    BY <1>1, Division, Zenon
  <1> HIDE DEF m, p
  <1>4. x = E * (p + m) + (y % E)
    <2>1. E * (p + m) = E * p + E * m
      BY <1>2, <1>3, Distributes
    <2> QED BY <1>1, <1>2, <1>3, <2>1
  <1>5. x % E = y % E
    <2> DEFINE q == x \div E
               t == q - (p + m)
    <2>1. q \in Int /\ x = E * q + (x % E) /\ x % E \in 0..(E - 1)
      BY <1>1, Division
    <2> HIDE DEF q
    <2>2. t \in Int /\ E * t = E * q - E * (p + m)
      BY <1>2, <1>3, <2>1, Distributes
    <2> HIDE DEF t
    <2>3. E * q \in Int /\ E * (p + m) \in Int
      BY <1>2, <1>3, <2>1
    <2>4. E * t = (y % E) - (x % E)
      BY <1>1, <1>3, <1>4, <2>1, <2>2, <2>3
    <2>5. E * t = 0
      <3>1. -E < E * t /\ E * t < E
        BY <1>3, <2>1, <2>4
      <3> QED BY <2>2, <3>1, SmallMultiple
    <2> QED BY <1>3, <2>1, <2>4, <2>5
  <1>6. x % N = x \/ x % N = x - N
    BY OneTurn, Constants
  <1>7. x % E \in 0..(E - 1)
    BY <1>1, Division
  <1> QED BY <1>5, <1>6, <1>7

-----------------------------------------------------------------------------
(* The rings keep to their sizes.                                           *)

LEMMA IdleCall == Idle \in Calls /\ NoEvents \in [head : Index, tail : Index]
PROOF
  BY Constants DEF Idle, NoEvents, Calls, Callers, Index

LEMMA InitRing == Counting /\ Init => RingInv
PROOF
  <1> SUFFICES ASSUME Counting, Init PROVE RingInv
    OBVIOUS
  <1>1. 0 \in Index /\ Distance(0, 0) = 0
    <2>1. 0 \in Index
      BY Constants DEF Index
    <2> QED BY <2>1, DistanceIs
  <1>2. TypeOK
    <2>1. TimeoutSqe \in Sqe
      BY DEF TimeoutSqe, Sqe, UserData
    <2>2. /\ platform \in [ext_arg : BOOLEAN, submit_all : BOOLEAN,
                           defer_taskrun : BOOLEAN, overflow_checks : BOOLEAN]
          /\ exiting \in BOOLEAN /\ running \in BOOLEAN
      BY IoUringAssumption, Zenon DEF Init
    <2>3. /\ inflight \in [UserData -> Nat] /\ taskwork \in [UserData -> Nat]
          /\ overflow \in Seq(UserData) /\ pending \subseteq Reqs
          /\ to_submit \in Nat /\ to_complete \in Int /\ pc \in Pcs
      BY DEF Init, Pcs
    <2>4. /\ sqes \in [0..(SqEntries - 1) -> Sqe]
          /\ cqes \in [0..(CqEntries - 1) -> UserData]
      BY <2>1 DEF Init, UserData
    <2> QED BY <1>1, <2>2, <2>3, <2>4, IdleCall DEF Init, TypeOK
  <1>3. SqSize
    BY <1>1, Constants DEF Init, SqSize, Submitting
  <1>4. CqSize /\ Stack
    BY <1>1, Constants DEF Init, CqSize, CqCount, Stack
  <1> QED BY <1>2, <1>3, <1>4 DEF RingInv

(* One more entry fits the submission ring, and gets a slot of its own. *)
LEMMA PushRing ==
  ASSUME RingInv, NEW e \in Sqe, Push(e), ~Submitting
  PROVE  /\ sqes' \in [0..(SqEntries - 1) -> Sqe]
         /\ sq_tail' \in Index
         /\ sq_tail \notin Window(sq_khead, sq_tail)
         /\ Window(sq_khead, sq_tail') = Window(sq_khead, sq_tail) \cup {sq_tail}
         /\ Distance(sq_khead, sq_tail') = to_submit + 1
         /\ sqes'[sq_tail % SqEntries] = e
         /\ \A i \in Window(sq_khead, sq_tail) :
              sqes'[i % SqEntries] = sqes[i % SqEntries]
PROOF
  <1>1. /\ sq_khead \in Index /\ sq_tail \in Index
        /\ sqes \in [0..(SqEntries - 1) -> Sqe]
        /\ to_submit \in Nat
    BY DEF RingInv, TypeOK
  <1>2. Distance(sq_khead, sq_tail) = to_submit /\ to_submit < SqEntries
    BY <1>1 DEF RingInv, SqSize
  <1>3. /\ sqes' = [sqes EXCEPT ![sq_tail % SqEntries] = e]
        /\ sq_tail' = Inc(sq_tail)
    BY DEF Push
  <1>4. to_submit < IndexSpace - 1
    BY <1>1, <1>2, Constants
  <1>5. /\ Window(sq_khead, sq_tail') = Window(sq_khead, sq_tail) \cup {sq_tail}
        /\ sq_tail \notin Window(sq_khead, sq_tail)
        /\ Distance(sq_khead, sq_tail') = to_submit + 1
    BY <1>1, <1>2, <1>3, <1>4, WindowGrows
  <1>6. sq_tail' \in Index
    BY <1>1, <1>3, IncIs
  <1>7. sq_tail % SqEntries \in 0..(SqEntries - 1)
    <2>1. sq_tail \in Int
      BY <1>1, Constants DEF Index
    <2> QED BY <2>1, Constants, Division
  <1>8. ASSUME NEW i \in Window(sq_khead, sq_tail)
        PROVE  i % SqEntries # sq_tail % SqEntries
    <2>1. to_submit + 1 <= SqEntries
      BY <1>1, <1>2, Constants
    <2>2. i \in Window(sq_khead, sq_tail') /\ sq_tail \in Window(sq_khead, sq_tail')
      BY <1>5
    <2>3. i # sq_tail
      BY <1>5
    <2> QED BY <1>1, <1>5, <1>6, <2>1, <2>2, <2>3, Slots, Constants
  <1>9. ASSUME NEW i \in Window(sq_khead, sq_tail)
        PROVE  sqes'[i % SqEntries] = sqes[i % SqEntries]
    <2>1. i \in Int
      BY <1>1, WindowIs, Constants DEF Index
    <2>2. i % SqEntries \in 0..(SqEntries - 1)
      BY <2>1, Constants, Division
    <2> QED BY <1>1, <1>3, <1>8, <2>2
  <1> QED BY <1>1, <1>3, <1>5, <1>6, <1>7, <1>9

(* What StartOp does, and also poll_wake() in module Engine. *)
Starts(r) ==
  /\ TasksRun
  /\ r \notin pending
  /\ StartAsync(IoSqe(r))
  /\ pending' = pending \cup {r}
  /\ UNCHANGED <<platform, sq_khead, cqVars, cq_khead, kernelVars, cancelling,
                 exiting, ev, running>>

LEMMA StartOpStarts == \A r \in Reqs : StartOp(r) => Starts(r)
PROOF
  BY DEF StartOp, Starts

(* The kernel takes entries off the submission ring's start. *)
LEMMA TakeRing ==
  ASSUME Counting, TypeOK, NEW k \in 0..Distance(sq_khead, sq_tail), Take(k)
  PROVE  /\ sq_khead' \in Index
         /\ inflight' \in [UserData -> Nat]
         /\ Distance(sq_khead, sq_khead') = k
         /\ Distance(sq_khead', sq_tail) = Distance(sq_khead, sq_tail) - k
         /\ Window(sq_khead, sq_tail) =
              Window(sq_khead, sq_khead') \cup Window(sq_khead', sq_tail)
         /\ Window(sq_khead, sq_khead') \cap Window(sq_khead', sq_tail) = {}
PROOF
  <1> DEFINE n == Distance(sq_khead, sq_tail)
  <1>1. sq_khead \in Index /\ sq_tail \in Index /\ n \in Index
    BY DistanceIs DEF TypeOK
  <1>2. sq_khead' = (sq_khead + k) % IndexSpace
    BY DEF Take
  <1> HIDE DEF n
  <1>3. k \in Index
    BY <1>1, Constants DEF Index, n
  <1>4. /\ sq_khead' = IF sq_khead + k < IndexSpace THEN sq_khead + k
                       ELSE sq_khead + k - IndexSpace
        /\ sq_khead' \in Index
    <2>1. sq_khead' = IF sq_khead + k < IndexSpace THEN sq_khead + k
                      ELSE sq_khead + k - IndexSpace
      BY <1>1, <1>2, <1>3, OneTurn, Constants DEF Index
    <2> QED BY <1>1, <1>3, <2>1, Constants DEF Index
  <1>5. Distance(sq_khead, sq_khead') = k
    <2>1. Distance(sq_khead, sq_khead') =
            IF sq_khead <= sq_khead' THEN sq_khead' - sq_khead
            ELSE sq_khead' - sq_khead + IndexSpace
      BY <1>1, <1>4, DistanceIs
    <2> QED BY <1>1, <1>3, <1>4, <2>1, Constants DEF Index
  <1>6. k <= Distance(sq_khead, sq_tail)
    BY <1>1, Constants DEF Index, n
  <1>7. inflight' \in [UserData -> Nat]
    <2>1. ASSUME NEW u \in UserData
          PROVE  Cardinality({i \in 1..k : Taken(k)[i].data = u}) \in Nat
      <3>1. IsFiniteSet(1..k)
        BY <1>3, IntervalCount, Constants DEF Index
      <3> DEFINE T == {i \in 1..k : Taken(k)[i].data = u}
      <3>2. T \in SUBSET (1..k)
        OBVIOUS
      <3> HIDE DEF T
      <3>3. IsFiniteSet(T)
        BY <3>1, <3>2, PartFinite, Zenon
      <3>4. Cardinality(T) \in Nat
        BY <3>1, <3>2, PartFinite, Zenon
      <3> QED BY <3>4 DEF T
    <2>2. inflight' = [u \in UserData |->
            inflight[u] + Cardinality({i \in 1..k : Taken(k)[i].data = u})]
      BY DEF Take
    <2>3. inflight \in [UserData -> Nat]
      BY DEF TypeOK
    <2> QED BY <2>1, <2>2, <2>3
  <1> QED BY <1>1, <1>4, <1>5, <1>6, <1>7, WindowCut

(* The kernel adds an entry to the completion ring's end, if there is room. *)
LEMMA PushCq ==
  ASSUME RingInv, NEW u \in UserData, CqCount < CqEntries,
         cqes' = [cqes EXCEPT ![cq_ktail % CqEntries] = u],
         cq_ktail' = Inc(cq_ktail)
  PROVE  /\ cqes' \in [0..(CqEntries - 1) -> UserData]
         /\ cq_ktail' \in Index
         /\ cq_ktail \notin Window(cq_khead, cq_ktail)
         /\ Window(cq_khead, cq_ktail') = Window(cq_khead, cq_ktail) \cup {cq_ktail}
         /\ Distance(cq_khead, cq_ktail') = CqCount + 1
         /\ cqes'[cq_ktail % CqEntries] = u
         /\ \A i \in Window(cq_khead, cq_ktail) :
              cqes'[i % CqEntries] = cqes[i % CqEntries]
PROOF
  <1>1. /\ cq_khead \in Index /\ cq_ktail \in Index
        /\ cqes \in [0..(CqEntries - 1) -> UserData]
    BY DEF RingInv, TypeOK
  <1>2. CqCount = Distance(cq_khead, cq_ktail) /\ CqCount \in Index
    BY <1>1, DistanceIs DEF CqCount
  <1>3. Distance(cq_khead, cq_ktail) < IndexSpace - 1
    BY <1>2, Constants DEF Index
  <1>4. /\ Window(cq_khead, cq_ktail') = Window(cq_khead, cq_ktail) \cup {cq_ktail}
        /\ cq_ktail \notin Window(cq_khead, cq_ktail)
        /\ Distance(cq_khead, cq_ktail') = CqCount + 1
    BY <1>1, <1>2, <1>3, WindowGrows
  <1>5. cq_ktail' \in Index
    BY <1>1, IncIs
  <1>6. cq_ktail % CqEntries \in 0..(CqEntries - 1)
    <2>1. cq_ktail \in Int
      BY <1>1, Constants DEF Index
    <2> QED BY <2>1, Constants, Division
  <1>7. ASSUME NEW i \in Window(cq_khead, cq_ktail)
        PROVE  i % CqEntries # cq_ktail % CqEntries
    <2>1. Distance(cq_khead, cq_ktail') <= CqEntries
      BY <1>2, <1>4, Constants DEF Index
    <2>2. i \in Window(cq_khead, cq_ktail') /\ cq_ktail \in Window(cq_khead, cq_ktail')
      BY <1>4
    <2>3. i # cq_ktail
      BY <1>4
    <2> QED BY <1>1, <1>5, <2>1, <2>2, <2>3, Slots, Constants
  <1>8. ASSUME NEW i \in Window(cq_khead, cq_ktail)
        PROVE  cqes'[i % CqEntries] = cqes[i % CqEntries]
    <2>1. i \in Int
      BY <1>1, WindowIs, Constants DEF Index
    <2>2. i % CqEntries \in 0..(CqEntries - 1)
      BY <2>1, Constants, Division
    <2> QED BY <1>1, <1>7, <2>2
  <1> QED BY <1>1, <1>4, <1>5, <1>6, <1>8

LEMMA NextRing ==
  RingInv /\ ([Next]_vars \/ \E r \in Reqs : Starts(r)) => RingInv'
PROOF
  <1>EnterCall.
    ASSUME NEW n \in Nat, NEW tail, NEW locals \in Calls, Enter(n, tail, locals)
    PROVE  /\ call' \in Calls /\ call'.left = n /\ call'.from = locals.from
           /\ to_submit' = 0 /\ to_complete' = to_complete + n /\ pc' = "enter"
    BY <1>EnterCall DEF Enter, Calls
  <1>FlushCall.
    ASSUME TypeOK, NEW n \in Nat, NEW tail, NEW f \in Callers, Flush(n, tail, f)
    PROVE  /\ call' \in Calls /\ call'.left = n /\ call'.from = f
           /\ to_submit' = 0 /\ to_complete' = to_complete + n /\ pc' = "enter"
    <2> USE <1>FlushCall
    <2> DEFINE locals == [Idle EXCEPT !.get_events = NeedsFlush, !.from = f,
                                      !.seen = cq_ktail]
    <2>1. NeedsFlush \in BOOLEAN /\ cq_ktail \in Index
      BY DEF NeedsFlush, TypeOK
    <2>2. locals \in Calls /\ locals.from = f
      BY <2>1, IdleCall, Zenon DEF Calls
    <2>3. Enter(n, tail, locals)
      BY DEF Flush
    <2> HIDE DEF locals
    <2> QED BY <2>2, <2>3, <1>EnterCall
  <1>WorkCall.
    ASSUME NEW n \in Nat, NEW tail, NEW m \in Nat,
           Enter(n, tail, [Idle EXCEPT !.min = m, !.get_events = TRUE, !.from = "work"])
    PROVE  /\ call' \in Calls /\ call'.left = n /\ call'.from = "work"
           /\ to_submit' = 0 /\ to_complete' = to_complete + n /\ pc' = "enter"
    <2> USE <1>WorkCall
    <2> DEFINE locals == [Idle EXCEPT !.min = m, !.get_events = TRUE, !.from = "work"]
    <2>1. locals \in Calls /\ locals.from = "work"
      BY IdleCall, Zenon DEF Calls, Callers
    <2>2. Enter(n, tail, locals)
      OBVIOUS
    <2> HIDE DEF locals
    <2> QED BY <2>1, <2>2, <1>EnterCall
  <1>StartAsync.
    ASSUME RingInv, NEW e \in Sqe, TasksRun, StartAsync(e), pending' \subseteq Reqs,
           UNCHANGED <<platform, sq_khead, cqVars, cq_khead, inflight, taskwork,
                       exiting, ev, running>>
    PROVE  RingInv'
    <2> USE <1>StartAsync
    <2>1. ~Submitting /\ Push(e)
      BY DEF TasksRun, Submitting, StartAsync
    <2>2. /\ sqes' \in [0..(SqEntries - 1) -> Sqe] /\ sq_tail' \in Index
          /\ Distance(sq_khead, sq_tail') = to_submit + 1
      BY <2>1, PushRing, Zenon
    <2>3. to_submit \in Nat /\ to_submit < SqEntries /\ to_complete \in Int /\ TypeOK
      BY DEF RingInv, SqSize, TypeOK
    <2>4. CASE to_submit + 1 < SqEntries
      <3>1. to_submit' = to_submit + 1 /\ UNCHANGED <<to_complete, call, pc>>
        BY <2>4 DEF StartAsync
      <3>2. TypeOK'
        BY <2>2, <2>3, <3>1 DEF TypeOK, cqVars
      <3>3. SqSize'
        BY <2>1, <2>2, <2>3, <2>4, <3>1 DEF SqSize, Submitting, TasksRun
      <3>4. CqSize' /\ Stack'
        BY <3>1 DEF RingInv, CqSize, CqCount, Stack, cqVars
      <3> QED BY <3>2, <3>3, <3>4 DEF RingInv
    <2>5. CASE ~(to_submit + 1 < SqEntries)
      <3>1. pc \in Callers
        BY DEF TasksRun, Callers
      <3>2. Flush(to_submit + 1, sq_tail', pc) /\ to_submit + 1 \in Nat
        BY <2>3, <2>5 DEF StartAsync
      <3>3. /\ call' \in Calls /\ call'.left = to_submit + 1 /\ call'.from = pc
            /\ to_submit' = 0 /\ to_complete' = to_complete + (to_submit + 1)
            /\ pc' = "enter"
        BY <2>3, <3>1, <3>2, <1>FlushCall, Zenon
      <3>4. TypeOK'
        BY <2>2, <2>3, <3>3 DEF TypeOK, cqVars, Pcs
      <3>5. SqSize'
        BY <2>2, <2>3, <3>3, Constants DEF SqSize, Submitting
      <3>6. CqSize'
        BY DEF RingInv, CqSize, CqCount, cqVars
      <3>7. Stack'
        BY <3>3 DEF RingInv, Stack, TasksRun
      <3> QED BY <3>4, <3>5, <3>6, <3>7 DEF RingInv
    <2> QED BY <2>4, <2>5
  <1>Starts.
    ASSUME RingInv, NEW r \in Reqs, Starts(r)
    PROVE  RingInv'
    <2> USE <1>Starts
    <2>1. IoSqe(r) \in Sqe
      BY DEF IoSqe, Sqe, UserData
    <2>2. pending' \subseteq Reqs
      BY DEF Starts, RingInv, TypeOK
    <2> QED BY <2>1, <2>2, <1>StartAsync DEF Starts, kernelVars
  <1>Cancel.
    ASSUME RingInv, NEW r \in Reqs, Cancel(r)
    PROVE  RingInv'
    <2> USE <1>Cancel
    <2>1. CancelSqe(r) \in Sqe
      BY DEF CancelSqe, Sqe, UserData
    <2>2. pending' \subseteq Reqs
      BY DEF Cancel, RingInv, TypeOK
    <2> QED BY <2>1, <2>2, <1>StartAsync DEF Cancel, kernelVars
  <1>SubmitRest.
    ASSUME RingInv, SubmitRest
    PROVE  RingInv'
    <2> USE <1>SubmitRest
    <2> Counting
      BY DEF RingInv
    <2>1. /\ pc = "enter" /\ Take(call.left)
          /\ call' = [call EXCEPT !.left = 0] /\ pc' = "kernel"
          /\ UNCHANGED <<platform, sqes, sq_tail, to_submit, to_complete, cqVars,
                         cq_khead, taskwork, pending, exiting, ev, running>>
      BY DEF SubmitRest, taskVars
    <2>2. TypeOK /\ to_submit = 0 /\ Distance(sq_khead, sq_tail) = call.left
      BY <2>1 DEF RingInv, SqSize, Submitting, TypeOK, Calls
    <2>3. call.left \in 0..Distance(sq_khead, sq_tail)
      BY <2>2 DEF TypeOK, Calls
    <2>4. /\ sq_khead' \in Index /\ inflight' \in [UserData -> Nat]
          /\ Distance(sq_khead', sq_tail) = Distance(sq_khead, sq_tail) - call.left
      BY <2>1, <2>2, <2>3, TakeRing
    <2>5. call' \in Calls /\ call'.from = call.from
      BY <2>1, <2>2, Zenon DEF TypeOK, Calls
    <2>6. TypeOK'
      BY <2>1, <2>2, <2>4, <2>5 DEF TypeOK, cqVars, Pcs
    <2>7. SqSize'
      <3>1. call.left \in Nat
        BY <2>2 DEF TypeOK, Calls
      <3> QED BY <2>1, <2>2, <2>4, <3>1, Constants DEF SqSize, Submitting
    <2>8. CqSize' /\ Stack'
      BY <2>1, <2>5 DEF RingInv, CqSize, CqCount, Stack, cqVars
    <2> QED BY <2>6, <2>7, <2>8 DEF RingInv
  <1>SubmitSome.
    ASSUME RingInv, SubmitSome
    PROVE  RingInv'
    <2> USE <1>SubmitSome
    <2> Counting
      BY DEF RingInv
    <2>1. /\ pc = "enter" /\ pc' \in {"abort", "enter"}
          /\ UNCHANGED <<platform, sqes, sq_tail, to_submit, to_complete, cqVars,
                         cq_khead, taskwork, pending, exiting, ev, running>>
      BY DEF SubmitSome, taskVars
    <2>2. PICK k \in 1..(call.left - 1) :
            Take(k) /\ call' = [call EXCEPT !.left = @ - k]
      BY Zenon DEF SubmitSome
    <2>3. /\ TypeOK /\ to_submit = 0 /\ call.left \in Nat /\ call.left <= SqEntries
          /\ Distance(sq_khead, sq_tail) = call.left
      BY <2>1 DEF RingInv, SqSize, Submitting, TypeOK, Calls
    <2>4. k \in 0..Distance(sq_khead, sq_tail)
      BY <2>3
    <2>5. /\ sq_khead' \in Index /\ inflight' \in [UserData -> Nat]
          /\ Distance(sq_khead', sq_tail) = call.left - k
      BY <2>2, <2>3, <2>4, TakeRing
    <2>6. call.left - k \in Nat
      BY <2>3
    <2>7. call' \in Calls /\ call'.from = call.from /\ call'.left = call.left - k
      BY <2>2, <2>3, <2>6, Zenon DEF TypeOK, Calls
    <2>8. TypeOK'
      BY <2>1, <2>3, <2>5, <2>7, ZenonT(40) DEF TypeOK, cqVars, Pcs
    <2>9. SqSize'
      BY <2>1, <2>3, <2>5, <2>6, <2>7, Constants DEF SqSize, Submitting
    <2>10. CqSize' /\ Stack'
      BY <2>1, <2>7 DEF RingInv, CqSize, CqCount, Stack, cqVars
    <2> QED BY <2>8, <2>9, <2>10 DEF RingInv
  <1>PushCqSize.
    ASSUME RingInv, NEW u \in UserData, CqCount < CqEntries,
           cqes' = [cqes EXCEPT ![cq_ktail % CqEntries] = u],
           cq_ktail' = Inc(cq_ktail), UNCHANGED <<cq_khead, ev, running>>
    PROVE  CqSize'
    <2> USE <1>PushCqSize
    <2>1. /\ Window(cq_khead, cq_ktail') = Window(cq_khead, cq_ktail) \cup {cq_ktail}
          /\ Distance(cq_khead, cq_ktail') = CqCount + 1
      BY PushCq, Zenon
    <2>2. CqCount \in Int
      BY DistanceIs, Constants DEF RingInv, TypeOK, CqCount, Index
    <2>3. CqCount' <= CqEntries
      BY <2>1, <2>2, Constants DEF CqCount
    <2>4. running => ev.head = cq_khead /\ ev.tail \in Window(cq_khead, cq_ktail)
      BY DEF RingInv, CqSize
    <2> QED BY <2>1, <2>3, <2>4 DEF CqSize
  <1>Post.
    ASSUME RingInv, NEW u \in UserData, Post(u), UNCHANGED <<cq_khead, ev, running>>
    PROVE  /\ cqes' \in [0..(CqEntries - 1) -> UserData]
           /\ cq_ktail' \in Index
           /\ overflow' \in Seq(UserData)
           /\ CqSize'
    <2> USE <1>Post
    <2>1. /\ cqes \in [0..(CqEntries - 1) -> UserData]
          /\ cq_ktail \in Index /\ overflow \in Seq(UserData)
      BY DEF RingInv, TypeOK
    <2>2. CASE overflow = <<>> /\ CqCount < CqEntries
      <3>1. /\ cqes' = [cqes EXCEPT ![cq_ktail % CqEntries] = u]
            /\ cq_ktail' = Inc(cq_ktail) /\ overflow' = overflow
        BY <2>2 DEF Post
      <3> QED BY <2>1, <2>2, <3>1, PushCq, <1>PushCqSize, Zenon
    <2>3. CASE ~(overflow = <<>> /\ CqCount < CqEntries)
      <3>1. overflow' = Append(overflow, u) /\ UNCHANGED <<cqes, cq_ktail>>
        BY <2>3 DEF Post
      <3>2. overflow' \in Seq(UserData)
        BY <2>1, <3>1
      <3>3. CqSize'
        BY <3>1 DEF RingInv, CqSize, CqCount
      <3> QED BY <2>1, <3>1, <3>2, <3>3
    <2> QED BY <2>2, <2>3
  <1>Finish.
    ASSUME RingInv, NEW u \in UserData, Finish(u)
    PROVE  RingInv'
    <2> USE <1>Finish
    <2>1. /\ inflight[u] > 0 /\ inflight' = [inflight EXCEPT ![u] = @ - 1]
          /\ UNCHANGED <<platform, sqes, sq_tail, sq_khead, to_submit, to_complete,
                         cq_khead, pending, exiting, pc, call, ev, running>>
      BY DEF Finish, sqVars, taskVars
    <2>2. inflight' \in [UserData -> Nat]
      <3>1. inflight \in [UserData -> Nat]
        BY DEF RingInv, TypeOK
      <3>2. inflight[u] - 1 \in Nat
        BY <2>1, <3>1
      <3> QED BY <2>1, <3>1, <3>2
    <2>3. /\ taskwork' \in [UserData -> Nat] /\ cqes' \in [0..(CqEntries - 1) -> UserData]
          /\ cq_ktail' \in Index /\ overflow' \in Seq(UserData) /\ CqSize'
      <3>0. taskwork \in [UserData -> Nat]
        BY DEF RingInv, TypeOK
      <3>1. CASE platform.defer_taskrun /\ pc # "kernel"
        <4>1. taskwork' = [taskwork EXCEPT ![u] = @ + 1]
              /\ UNCHANGED <<cqes, cq_ktail, overflow>>
          BY <3>1 DEF Finish, cqVars
        <4>2. taskwork' \in [UserData -> Nat]
          <5>1. taskwork[u] + 1 \in Nat
            BY <3>0
          <5> QED BY <3>0, <4>1, <5>1
        <4>3. CqSize'
          BY <2>1, <4>1 DEF RingInv, CqSize, CqCount
        <4> QED BY <4>1, <4>2, <4>3, Zenon DEF RingInv, TypeOK
      <3>2. CASE ~(platform.defer_taskrun /\ pc # "kernel")
        <4>1. Post(u) /\ UNCHANGED taskwork
          BY <3>2, Zenon DEF Finish
        <4> QED BY <2>1, <3>0, <4>1, <1>Post
      <3> QED BY <3>1, <3>2
    <2>4. TypeOK'
      BY <2>1, <2>2, <2>3, Zenon DEF RingInv, TypeOK
    <2>5. SqSize' /\ Stack'
      BY <2>1 DEF RingInv, SqSize, Submitting, Stack
    <2> QED BY <2>3, <2>4, <2>5, Zenon DEF RingInv
  <1>RunTaskWork.
    ASSUME RingInv, NEW u \in UserData, RunTaskWork(u)
    PROVE  RingInv'
    <2> USE <1>RunTaskWork
    <2>1. /\ taskwork[u] > 0 /\ taskwork' = [taskwork EXCEPT ![u] = @ - 1] /\ Post(u)
          /\ UNCHANGED <<platform, sqes, sq_tail, sq_khead, to_submit, to_complete,
                         cq_khead, inflight, pending, exiting, pc, call, ev, running>>
      BY DEF RunTaskWork, sqVars, taskVars
    <2>2. taskwork' \in [UserData -> Nat]
      <3>1. taskwork \in [UserData -> Nat]
        BY DEF RingInv, TypeOK
      <3>2. taskwork[u] - 1 \in Nat
        BY <2>1, <3>1
      <3> QED BY <2>1, <3>1, <3>2
    <2>3. /\ cqes' \in [0..(CqEntries - 1) -> UserData]
          /\ cq_ktail' \in Index /\ overflow' \in Seq(UserData) /\ CqSize'
      BY <2>1, <1>Post, Zenon
    <2>4. TypeOK'
      BY <2>1, <2>2, <2>3, ZenonT(40) DEF RingInv, TypeOK
    <2>5. SqSize' /\ Stack'
      BY <2>1 DEF RingInv, SqSize, Submitting, Stack
    <2> QED BY <2>3, <2>4, <2>5, Zenon DEF RingInv
  <1>FlushOverflow.
    ASSUME RingInv, FlushOverflow
    PROVE  RingInv'
    <2> USE <1>FlushOverflow
    <2>1. /\ overflow # <<>> /\ CqCount < CqEntries
          /\ cqes' = [cqes EXCEPT ![cq_ktail % CqEntries] = Head(overflow)]
          /\ cq_ktail' = Inc(cq_ktail) /\ overflow' = Tail(overflow)
          /\ UNCHANGED <<platform, sqes, sq_tail, sq_khead, to_submit, to_complete,
                         cq_khead, inflight, taskwork, pending, exiting, pc, call, ev,
                         running>>
      BY Zenon DEF FlushOverflow, sqVars, taskVars, kernelVars
    <2>2. Head(overflow) \in UserData /\ overflow' \in Seq(UserData)
      BY <2>1 DEF RingInv, TypeOK
    <2>3. /\ cqes' \in [0..(CqEntries - 1) -> UserData] /\ cq_ktail' \in Index /\ CqSize'
      BY <2>1, <2>2, PushCq, <1>PushCqSize, Zenon
    <2>4. TypeOK'
      BY <2>1, <2>2, <2>3, ZenonT(40) DEF RingInv, TypeOK
    <2>5. SqSize' /\ Stack'
      BY <2>1 DEF RingInv, SqSize, Submitting, Stack
    <2> QED BY <2>3, <2>4, <2>5, Zenon DEF RingInv
  (* run_events() on a ring that holds entries: the last one is completed,    *)
  (* and stays in its slot.                                                   *)
  <1>RunEvents.
    ASSUME RingInv, RunEvents, pc \in {"tasks", "kernel"}, ~running, call' \in Calls,
           UNCHANGED <<platform, sqes, sq_tail, sq_khead, to_submit, cqVars, cq_khead,
                       inflight, taskwork, exiting>>
    PROVE  RingInv'
    <2> USE <1>RunEvents
    <2>1. TypeOK /\ to_submit \in Nat /\ cq_khead \in Index /\ cq_ktail \in Index
      BY DEF RingInv, TypeOK
    <2>2. pc' \in {"tasks", "events", "callback"}
      BY Zenon DEF RunEvents, Complete
    <2>3. SqSize'
      BY <2>1, <2>2 DEF RingInv, SqSize, Submitting
    <2>4. CASE CqCount = 0
      <3>1. pc' = "tasks" /\ UNCHANGED <<to_complete, pending, ev, running>>
        BY <2>4, Zenon DEF RunEvents
      <3>2. TypeOK'
        BY <2>1, <3>1, Zenon DEF TypeOK, cqVars, Pcs
      <3>3. CqSize' /\ Stack'
        BY <3>1 DEF RingInv, CqSize, CqCount, Stack, cqVars
      <3> QED BY <2>3, <3>2, <3>3, Zenon DEF RingInv
    <2>5. CASE CqCount # 0
      <3> DEFINE last == (cq_ktail - 1) % IndexSpace
      <3>1. /\ to_complete' = to_complete - CqCount
            /\ ev' = [head |-> cq_khead, tail |-> last]
            /\ running' = TRUE
            /\ Complete(cqes[last % CqEntries])
        BY <2>5 DEF RunEvents
      <3>2. last \in Window(cq_khead, cq_ktail) /\ last \in Index
        <4>1. Distance(cq_khead, cq_ktail) # 0
          BY <2>5 DEF CqCount
        <4>2. last \in Window(cq_khead, cq_ktail)
          BY <2>1, <4>1, LastOfWindow, Zenon
        <4> QED BY <2>1, <4>2, WindowIs
      <3> HIDE DEF last
      <3>3. pending' \subseteq Reqs /\ pc' \in {"events", "callback"}
        BY <2>1, <3>1, Zenon DEF Complete, TypeOK
      <3>4. to_complete' \in Int
        <4>1. CqCount \in Int /\ to_complete \in Int
          BY <2>1, DistanceIs, Constants DEF CqCount, Index, TypeOK
        <4> QED BY <3>1, <4>1
      <3>5. TypeOK'
        <4>1. running' \in BOOLEAN
          BY <3>1, Zenon
        <4>2. ev' \in [head : Index, tail : Index] /\ pc' \in Pcs
          BY <2>1, <3>1, <3>2, <3>3, Zenon DEF Pcs
        <4> QED BY <2>1, <3>3, <3>4, <4>1, <4>2, Zenon DEF TypeOK, cqVars
      <3>6. CqSize'
        <4>1. CqCount' <= CqEntries
          BY Zenon DEF RingInv, CqSize, CqCount, cqVars
        <4>2. ev'.head = cq_khead /\ ev'.tail = last
          BY <3>1, Zenon
        <4> QED BY <3>2, <4>1, <4>2, Zenon DEF CqSize, cqVars
      <3>7. Stack'
        BY <3>1, <3>3 DEF Stack
      <3> QED BY <2>3, <3>5, <3>6, <3>7, ZenonT(40) DEF RingInv
    <2> QED BY <2>4, <2>5, ZenonT(40)
  <1>NextEvent.
    ASSUME RingInv, NextEvent
    PROVE  RingInv'
    <2> USE <1>NextEvent
    <2>1. /\ pc \in {"events", "callback"} /\ cq_khead' = Inc(ev.head)
          /\ UNCHANGED <<platform, sqes, sq_tail, sq_khead, to_submit, to_complete, cqes,
                         cq_ktail, overflow, inflight, taskwork, exiting, call>>
      BY DEF NextEvent, sqVars, cqVars, kernelVars
    <2>2. TypeOK /\ running /\ ev.head = cq_khead /\ ev.tail \in Window(cq_khead, cq_ktail)
      BY <2>1, Zenon DEF RingInv, Stack, CqSize
    <2>3. /\ cq_khead \in Index /\ cq_ktail \in Index /\ CqCount <= CqEntries
          /\ CqCount = Distance(cq_khead, cq_ktail) /\ CqCount \in Int
          /\ to_submit \in Nat /\ cq_khead' \in Index
      BY <2>1, <2>2, DistanceIs, IncIs, Constants
      DEF RingInv, TypeOK, CqSize, CqCount, Index
    <2>4. cq_khead # cq_ktail
      <3>1. Window(cq_khead, cq_khead) = {}
        BY <2>3, WindowEmpty, Zenon
      <3> QED BY <2>2, <3>1
    <2>5. /\ Window(cq_khead, cq_ktail) = {cq_khead} \cup Window(cq_khead', cq_ktail)
          /\ Distance(cq_khead', cq_ktail) = CqCount - 1
      BY <2>1, <2>2, <2>3, <2>4, WindowShrinks, Zenon
    <2>6. CqCount' <= CqEntries
      BY <2>1, <2>3, <2>5, Constants DEF CqCount
    <2>7. pc' \in {"tasks", "events", "callback"}
      BY DEF NextEvent, Complete
    <2>8. SqSize'
      BY <2>1, <2>3, <2>7 DEF RingInv, SqSize, Submitting
    <2>9. CASE ev.head # ev.tail
      <3>1. ev' = [ev EXCEPT !.head = Inc(@)] /\ Complete(cqes[ev.head % CqEntries])
            /\ running' = running
        BY <2>9 DEF NextEvent
      <3>2. /\ ev' \in [head : Index, tail : Index]
            /\ ev'.head = cq_khead' /\ ev'.tail = ev.tail
        BY <2>1, <2>2, <2>3, <3>1, Zenon DEF TypeOK
      <3>3. pending' \subseteq Reqs /\ pc' \in {"events", "callback"}
        BY <2>2, <3>1 DEF Complete, TypeOK
      <3>4. TypeOK'
        <4>1. pc' \in Pcs
          BY <3>3, ZenonT(40) DEF Pcs
        <4> QED BY <2>1, <2>2, <2>3, <3>1, <3>2, <3>3, <4>1 DEF TypeOK
      <3>5. CqSize'
        BY <2>1, <2>2, <2>5, <2>6, <2>9, <3>2 DEF CqSize
      <3>6. Stack'
        BY <2>2, <3>1, <3>3 DEF Stack
      <3> QED BY <2>8, <3>4, <3>5, <3>6 DEF RingInv
    <2>10. CASE ev.head = ev.tail
      <3>1. ev' = NoEvents /\ ~running' /\ running' \in BOOLEAN /\ pc' = "tasks"
            /\ UNCHANGED pending
        BY <2>10, Zenon DEF NextEvent
      <3>2. TypeOK'
        <4>1. pc' \in Pcs
          BY <3>1 DEF Pcs
        <4> QED BY <2>1, <2>2, <2>3, <3>1, <4>1, IdleCall, Zenon DEF TypeOK
      <3>3. CqSize' /\ Stack'
        BY <2>6, <3>1 DEF CqSize, Stack
      <3> QED BY <2>8, <3>2, <3>3 DEF RingInv
    <2> QED BY <2>9, <2>10
  <1>Work.
    ASSUME RingInv, NEW wait \in Waits, Work(wait)
    PROVE  RingInv'
    <2> USE <1>Work
    <2>1. /\ pc = "tasks"
          /\ UNCHANGED <<platform, sqes, sq_tail, sq_khead, cqVars, cq_khead, inflight,
                         taskwork, exiting>>
      BY Zenon DEF Work, kernelVars
    <2>2. /\ TypeOK /\ ~running /\ to_submit \in Nat /\ to_submit < SqEntries
          /\ Distance(sq_khead, sq_tail) = to_submit /\ to_complete \in Int
      BY <2>1 DEF RingInv, Stack, TypeOK, SqSize, Submitting
    <2>3. CASE to_submit = 0 /\ (CqCount # 0 \/ (~NeedsEnter /\ ~wait))
      <3>1. RunEvents /\ UNCHANGED <<to_submit, call>>
        BY <2>3, Zenon DEF Work
      <3>2. call' \in Calls
        BY <2>2, <3>1 DEF TypeOK
      <3> QED BY <2>1, <2>2, <3>1, <3>2, <1>RunEvents
    <2>4. CASE ~(to_submit = 0 /\ (CqCount # 0 \/ (~NeedsEnter /\ ~wait)))
      <3>1. /\ call' \in Calls /\ call'.left = to_submit /\ call'.from \in {"work", "compat"}
            /\ to_submit' = 0 /\ to_complete' = to_complete + to_submit /\ pc' = "enter"
        <4>1. CASE platform.ext_arg
          <5> DEFINE m == IF wait THEN 1 ELSE 0
          <5>1. m \in Nat /\ Enter(to_submit, sq_tail,
                  [Idle EXCEPT !.min = m, !.get_events = TRUE, !.from = "work"])
            BY <2>4, <4>1, Zenon DEF Work
          <5> HIDE DEF m
          <5> QED BY <2>2, <5>1, <1>WorkCall, Zenon
        <4>2. CASE ~platform.ext_arg
          <5>1. Flush(to_submit, sq_tail, "compat") /\ "compat" \in Callers
            BY <2>4, <4>2 DEF Work, Callers
          <5> QED BY <2>2, <5>1, <1>FlushCall
        <4> QED BY <4>1, <4>2, Zenon
      <3>2. UNCHANGED <<pending, ev, running>>
        BY <2>4, Zenon DEF Work
      <3>3. TypeOK'
        BY <2>1, <2>2, <3>1, <3>2 DEF TypeOK, cqVars, Pcs
      <3>4. SqSize'
        BY <2>1, <2>2, <3>1, Constants DEF SqSize, Submitting
      <3>5. CqSize'
        BY <2>1, <3>2, Zenon DEF RingInv, CqSize, CqCount, cqVars
      <3>6. Stack'
        BY <2>2, <3>1, <3>2 DEF Stack
      <3> QED BY <3>3, <3>4, <3>5, <3>6 DEF RingInv
    <2> QED BY <2>3, <2>4
  <1>FlushReturns.
    ASSUME RingInv, FlushReturns
    PROVE  RingInv'
    <2> USE <1>FlushReturns
    <2>1. /\ pc = "kernel" /\ call.from \in {"tasks", "callback"} /\ pc' = call.from
          /\ call' = Idle
          /\ UNCHANGED <<platform, sqes, sq_tail, sq_khead, to_submit, to_complete, cqes,
                         cq_ktail, overflow, cq_khead, inflight, taskwork, pending,
                         exiting, ev, running>>
      BY Zenon DEF FlushReturns, CanReturn, sqVars, cqVars, kernelVars, taskVars
    <2>2. TypeOK'
      BY <2>1, IdleCall, Zenon DEF RingInv, TypeOK, Pcs
    <2>3. SqSize' /\ CqSize'
      BY <2>1, Zenon DEF RingInv, SqSize, Submitting, CqSize, CqCount
    <2>4. Stack'
      BY <2>1 DEF RingInv, Stack
    <2> QED BY <2>2, <2>3, <2>4, Zenon DEF RingInv
  <1>WorkReturns.
    ASSUME RingInv, WorkReturns
    PROVE  RingInv'
    <2> USE <1>WorkReturns
    <2>1. pc = "kernel" /\ call.from \in {"work", "compat"} /\ RunEvents /\ call' = Idle
          /\ UNCHANGED <<platform, sqes, sq_tail, sq_khead, to_submit, cqVars, cq_khead,
                         inflight, taskwork, exiting>>
      BY DEF WorkReturns, CanReturn, sqVars, kernelVars
    <2>2. ~running
      BY <2>1 DEF RingInv, Stack
    <2> QED BY <2>1, <2>2, IdleCall, <1>RunEvents, Zenon
  <1>CompatWait.
    ASSUME RingInv, CompatWait
    PROVE  RingInv'
    <2> USE <1>CompatWait
    <2>1. /\ pc = "kernel" /\ call.from = "compat" /\ Push(TimeoutSqe)
          /\ Enter(1, sq_tail', [Idle EXCEPT !.min = 1, !.get_events = TRUE,
                                             !.from = "work"])
          /\ UNCHANGED <<platform, sq_khead, cqes, cq_ktail, overflow, cq_khead,
                         inflight, taskwork, pending, exiting, ev, running>>
      BY DEF CompatWait, CanReturn, cqVars, kernelVars, taskVars
    <2>2. TypeOK /\ to_submit = 0 /\ ~running /\ ~Submitting
      BY <2>1 DEF RingInv, SqSize, Stack, Submitting
    <2>3. TimeoutSqe \in Sqe
      BY DEF TimeoutSqe, Sqe, UserData
    <2>4. /\ sqes' \in [0..(SqEntries - 1) -> Sqe] /\ sq_tail' \in Index
          /\ Distance(sq_khead, sq_tail') = 1
      BY <2>1, <2>2, <2>3, PushRing
    <2>5. /\ call' \in Calls /\ call'.left = 1 /\ call'.from = "work"
          /\ to_submit' = 0 /\ to_complete' = to_complete + 1 /\ pc' = "enter"
      <3>1. 1 \in Nat
        OBVIOUS
      <3> QED BY <2>1, <3>1, <1>WorkCall, Zenon
    <2>6. TypeOK'
      BY <2>1, <2>2, <2>4, <2>5 DEF TypeOK, Pcs
    <2>7. SqSize'
      BY <2>1, <2>4, <2>5, Constants DEF SqSize, Submitting
    <2>8. CqSize' /\ Stack'
      BY <2>1, <2>2, <2>5 DEF RingInv, CqSize, CqCount, Stack
    <2> QED BY <2>6, <2>7, <2>8 DEF RingInv
  (* Steps that leave the rings, the kernel and the calls alone. *)
  <1>Other.
    ASSUME RingInv,
           PushPanics \/ SubmitFails \/ Exit \/ ExitReturns \/ Stopped \/ UNCHANGED vars
    PROVE  RingInv'
    <2> USE <1>Other
    <2>1. UNCHANGED <<platform, sqes, sq_tail, sq_khead, to_submit, to_complete, cqes,
                      cq_ktail, overflow, cq_khead, inflight, taskwork, pending, call,
                      ev, running>>
      BY Zenon DEF PushPanics, SubmitFails, Exit, ExitReturns, Stopped, vars, sqVars, cqVars,
             kernelVars, taskVars
    <2>2. \/ pc' = pc
          \/ pc \in {"tasks", "callback", "kernel"} /\ pc' = "unwound"
          \/ pc = "enter" /\ pc' = "abort"
      BY Zenon DEF PushPanics, SubmitFails, Exit, ExitReturns, Stopped, vars, TasksRun, CanReturn
    <2>3. exiting' \in BOOLEAN
      BY Zenon DEF PushPanics, SubmitFails, Exit, ExitReturns, Stopped, vars, taskVars, RingInv,
             TypeOK
    <2>4. TypeOK'
      <3>1. pc' \in Pcs
        BY <2>2, Zenon DEF RingInv, TypeOK, Pcs
      <3> QED BY <2>1, <2>3, <3>1, Zenon DEF RingInv, TypeOK
    <2>5. SqSize'
      BY <2>1, <2>2, Zenon DEF RingInv, SqSize, Submitting
    <2>6. CqSize' /\ Stack'
      BY <2>1, <2>2 DEF RingInv, CqSize, CqCount, Stack
    <2> QED BY <2>4, <2>5, <2>6, Zenon DEF RingInv
  <1> QED BY StartOpStarts, <1>Starts, <1>Cancel, <1>SubmitRest, <1>SubmitSome, <1>Finish,
             <1>RunTaskWork, <1>FlushOverflow, <1>NextEvent, <1>Work, <1>FlushReturns,
             <1>WorkReturns, <1>CompatWait, <1>Other, Zenon
          DEF Next

=============================================================================
