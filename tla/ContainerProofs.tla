--------------------------- MODULE ContainerProofs ---------------------------
(***************************************************************************)
(* The ring queue, the hash table and the list keep what they promise, for *)
(* any sizes, values and hashes.  None of the promises is inductive: each  *)
(* is proved from an invariant that says where the elements, the entries   *)
(* of a key or the nodes are.                                              *)
(***************************************************************************)
EXTENDS Containers, SequenceTheorems, WellFoundedInduction, TLAPS

-----------------------------------------------------------------------------
(* The ring queue.                                                          *)

\* Going round: at most once for indices that are.
LEMMA OnceRound ==
    ASSUME NEW m \in Nat \ {0}, NEW i \in 0..2 * m - 1
    PROVE  i % m = IF i < m THEN i ELSE i - m
  <1>1. CASE i < m
    BY <1>1
  <1>2. CASE i >= m
    BY <1>2
  <1> QED BY <1>1, <1>2

\* The place of the element i behind the front.
Place(i) == IF front_ + i < Size + 1 THEN front_ + i ELSE front_ + i - (Size + 1)

RingType ==
    /\ data_ \in [0..Size -> RingVal]
    /\ front_ \in 0..Size /\ rear_ \in 0..Size /\ size_ \in 0..Size
    /\ waiting \in Seq(RingVal) /\ Len(waiting) = size_
    /\ pushes \in Nat /\ spoilt \in BOOLEAN

\* rear_ is the last of size_ places from the front on.
RingFull ==
    ~ spoilt =>
        /\ rear_ = IF front_ + size_ = 0 THEN Size ELSE Place(size_ - 1)
        /\ \A i \in 1..size_ : data_[Place(i - 1)] = waiting[i]

\* Before the first round is over the last place has not been written: the
\* elements end where the pushes did.
FirstRound ==
    pushes <= Size => /\ ~ spoilt
                      /\ rear_ = (IF pushes = 0 THEN Size ELSE pushes - 1)
                      /\ front_ + size_ = pushes

\* Padding never spoils anything.
OnPadding == covered = {} => ~ spoilt

RingInv == RingType /\ RingFull /\ FirstRound /\ OnPadding

LEMMA RingInitInv == Q!Init => RingInv
  <1> SUFFICES ASSUME Q!Init PROVE RingInv
    OBVIOUS
  <1>1. Size \in Nat \ {0}
    BY ContainerAssumption
  <1> QED BY <1>1 DEF Q!Init, Q!max_size_, RingInv, RingType, RingFull, FirstRound, OnPadding, Place

LEMMA AfterIs ==
    ASSUME NEW i \in 0..Size PROVE Q!After(i) = (IF i = Size THEN 0 ELSE i + 1)
  <1>1. Size \in Nat \ {0}
    BY ContainerAssumption
  <1>2. Size + 1 \in Nat \ {0} /\ i + 1 \in 0..2 * (Size + 1) - 1
    BY <1>1
  <1>3. (i + 1) % (Size + 1) = IF i + 1 < Size + 1 THEN i + 1 ELSE i + 1 - (Size + 1)
    BY <1>2, OnceRound
  <1> QED BY <1>1, <1>3 DEF Q!After, Q!max_size_

\* Only the last place changes with the numbers, and only where it covers some.
LEMMA BeneathIs ==
    ASSUME NEW places \in [0..Size -> RingVal], NEW numbers, NEW d \in Q!Beneath(places, numbers)
    PROVE  /\ d \in [0..Size -> RingVal]
           /\ \A k \in 0..Size : k # Size => d[k] = places[k]
           /\ covered = {} => d = places
  <1>1. CASE numbers \cap covered = {}
    BY <1>1 DEF Q!Beneath
  <1>2. CASE numbers \cap covered # {}
    <2>1. PICK v \in RingVal : d = [places EXCEPT ![Size] = v]
      BY <1>2 DEF Q!Beneath
    <2> QED BY <1>2, <2>1
  <1> QED BY <1>1, <1>2

\* An element in the last place is one of those LastWaits looks at.
LEMMA LastIsSeen ==
    ASSUME NEW f \in 0..Size + 1, NEW n \in 0..Size, NEW i \in 0..n - 1,
           f + i = Size \/ f + i = 2 * Size + 1
    PROVE  Q!LastWaits(f, n)
  <1>1. Size \in Nat \ {0}
    BY ContainerAssumption
  <1> DEFINE j == f + i
  <1>2. j \in 0..2 * (Size + 1) - 1 /\ (j = Size \/ j = 2 * Size + 1)
    BY <1>1
  <1> HIDE DEF j
  <1>3. j % (Size + 1) = Size
    BY <1>1, <1>2, OnceRound
  <1>4. (f + i) % Q!max_size_ = Size
    BY <1>3 DEF j, Q!max_size_
  <1> QED BY <1>4 DEF Q!LastWaits

\* And LastWaits sees no other.
LEMMA SeenIsLast ==
    ASSUME NEW f \in 0..Size + 1, NEW n \in 0..Size, Q!LastWaits(f, n)
    PROVE  \E i \in 0..n - 1 : f + i = Size \/ f + i = 2 * Size + 1
  <1>1. Size \in Nat \ {0}
    BY ContainerAssumption
  <1>2. PICK i \in 0..n - 1 : (f + i) % Q!max_size_ = Size
    BY DEF Q!LastWaits
  <1> DEFINE j == f + i
  <1>3. j \in 0..2 * (Size + 1) - 1
    BY <1>1
  <1>4. j % (Size + 1) = Size
    BY <1>2 DEF Q!max_size_
  <1> HIDE DEF j
  <1>5. j = Size \/ j = 2 * Size + 1
    BY <1>1, <1>3, <1>4, OnceRound
  <1> QED BY <1>5 DEF j

LEMMA PushKeeps ==
    ASSUME RingInv, ~ spoilt, NEW v \in RingVal, Q!push(v) PROVE RingInv'
  <1>1. Size \in Nat /\ Size >= 1
    BY ContainerAssumption
  <1>2. CASE UNCHANGED ringVars
    BY <1>2 DEF ringVars, RingInv, RingType, RingFull, FirstRound, OnPadding, Place
  <1>3. CASE ~ Q!full
    <2> DEFINE r == Q!After(rear_)
               w == [data_ EXCEPT ![r] = v]
               numbers == IF r = Size THEN {"size_"} ELSE {"rear_", "size_"}
    <2>1. /\ rear_' = r /\ data_' \in Q!Beneath(w, numbers)
          /\ size_' = size_ + 1 /\ front_' = front_ /\ covered' = covered
          /\ waiting' = Append(waiting, v) /\ pushes' = pushes + 1
      BY <1>3 DEF Q!push
    <2>spoils. \E overwrites \in {FALSE, r = Size /\ covered # {}} :
             spoilt' = \/ overwrites
                       \/ data_'[Size] # w[Size] /\ Q!LastWaits(front_, size_ + 1)
      BY <1>3 DEF Q!push
    <2>2. size_ < Size /\ size_ \in Nat /\ front_ \in 0..Size /\ rear_ \in 0..Size
      BY <1>1, <1>3 DEF Q!full, Q!max_size_, RingInv, RingType
    <2>3. r = (IF rear_ = Size THEN 0 ELSE rear_ + 1) /\ r \in 0..Size
      BY <1>1, <2>2, AfterIs
    <2>written. w \in [0..Size -> RingVal] /\ w[r] = v /\ \A k \in 0..Size : k # r => w[k] = data_[k]
      BY <2>3 DEF RingInv, RingType
    <2> HIDE DEF r, w, numbers
    <2>beneath. /\ data_' \in [0..Size -> RingVal]
                /\ \A k \in 0..Size : k # Size => data_'[k] = w[k]
                /\ covered = {} => data_' = w
      BY <2>1, <2>written, BeneathIs
    <2>4. RingType'
      <3>1. front_' \in 0..Size
        BY <2>1, <2>2
      <3>2. size_' \in 0..Size /\ rear_' \in 0..Size
        BY <1>1, <2>1, <2>2, <2>3
      <3>3. spoilt' \in BOOLEAN
        BY <2>spoils
      <3>4. waiting' \in Seq(RingVal) /\ Len(waiting') = size_' /\ pushes' \in Nat
        BY <2>1 DEF RingInv, RingType
      <3> QED BY <3>1, <3>2, <2>beneath, <3>3, <3>4 DEF RingType
    <2>5. RingFull'
      <3> SUFFICES ASSUME ~ spoilt'
                   PROVE  /\ rear_' = (IF front_ + size_' = 0 THEN Size ELSE Place(size_' - 1))
                          /\ \A i \in 1..size_' : data_'[Place(i - 1)] = waiting'[i]
        BY <2>1 DEF RingFull, Place
      <3>1. ~ (data_'[Size] # w[Size] /\ Q!LastWaits(front_, size_ + 1))
        BY <2>spoils
      <3>2. /\ size_ = Len(waiting)
            /\ rear_ = IF front_ + size_ = 0 THEN Size ELSE Place(size_ - 1)
            /\ \A i \in 1..size_ : data_[Place(i - 1)] = waiting[i]
        BY DEF RingInv, RingFull, RingType
      <3>3. r = Place(size_)
        <4>1. rear_ = IF front_ + size_ = 0 THEN Size ELSE Place(size_ - 1)
          BY <3>2
        <4> QED BY <4>1, <1>1, <2>2, <2>3 DEF Place
      <3>4. waiting \in Seq(RingVal) /\ v \in RingVal
        BY DEF RingInv, RingType
      <3>5. /\ Len(waiting') = size_ + 1 /\ waiting'[size_ + 1] = v
            /\ \A i \in 1..size_ : waiting'[i] = waiting[i]
        BY <2>1, <3>2, <3>4
      <3>6. \A i \in 1..size_ : Place(i - 1) # r /\ Place(i - 1) \in 0..Size
        BY <1>1, <2>2, <3>3 DEF Place
      <3>9. ASSUME NEW i \in 1..size_ + 1 PROVE data_'[Place(i - 1)] = w[Place(i - 1)]
        <4>1. Place(i - 1) \in 0..Size /\ i - 1 \in 0..size_ /\ size_ + 1 \in 0..Size
          BY <1>1, <2>2 DEF Place
        <4>2. CASE Place(i - 1) = Size
          <5>1. front_ + (i - 1) = Size \/ front_ + (i - 1) = 2 * Size + 1
            BY <1>1, <2>2, <4>1, <4>2 DEF Place
          <5>2. i - 1 \in 0..(size_ + 1) - 1 /\ front_ \in 0..Size + 1
            BY <1>1, <2>2, <4>1
          <5>3. Q!LastWaits(front_, size_ + 1)
            BY <4>1, <5>1, <5>2, LastIsSeen
          <5>4. data_'[Size] = w[Size]
            BY <3>1, <5>3, Zenon
          <5> QED BY <4>2, <5>4, Zenon
        <4> QED BY <4>1, <4>2, <2>beneath
      <3>7. ASSUME NEW i \in 1..size_ + 1 PROVE data_'[Place(i - 1)] = waiting'[i]
        <4>1. CASE i = size_ + 1
          <5>1. Place(i - 1) = r
            BY <2>2, <3>3, <4>1
          <5> QED BY <3>5, <3>9, <4>1, <5>1, <2>written
        <4>2. CASE i # size_ + 1
          <5>1. i \in 1..size_
            BY <2>1, <2>2, <4>2
          <5>2. w[Place(i - 1)] = data_[Place(i - 1)]
            BY <2>written, <3>6, <5>1
          <5> QED BY <3>2, <3>5, <3>9, <5>1, <5>2
        <4> QED BY <4>1, <4>2
      <3>8. front_ + size_' # 0 /\ size_' - 1 = size_
        BY <2>1, <2>2
      <3> QED BY <2>1, <3>3, <3>7, <3>8
    <2>6. FirstRound'
      <3> SUFFICES ASSUME pushes' <= Size
                   PROVE  /\ ~ spoilt' /\ rear_' = (IF pushes' = 0 THEN Size ELSE pushes' - 1)
                          /\ front_' + size_' = pushes'
        BY DEF FirstRound
      <3>1. pushes \in Nat /\ pushes' = pushes + 1 /\ pushes <= Size
        BY <1>1, <2>1 DEF RingInv, RingType
      <3>2. front_ + size_ = pushes /\ rear_ = IF pushes = 0 THEN Size ELSE pushes - 1
        BY <3>1 DEF RingInv, FirstRound
      <3>3. r = pushes /\ r < Size
        BY <1>1, <2>3, <3>1, <3>2
      <3>4. ~ Q!LastWaits(front_, size_ + 1)
        <4>1. size_ + 1 \in 0..Size /\ front_ \in 0..Size + 1
          BY <1>1, <2>2
        <4>2. \A i \in 0..(size_ + 1) - 1 : front_ + i # Size /\ front_ + i # 2 * Size + 1
          BY <1>1, <2>1, <2>2, <3>1, <3>2
        <4> QED BY <4>1, <4>2, SeenIsLast
      <3>5. ~ spoilt'
        <4>1. (r = Size /\ covered # {}) = FALSE
          BY <1>1, <3>3
        <4> QED BY <2>spoils, <3>4, <4>1, Zenon
      <3> QED BY <2>1, <2>2, <3>1, <3>2, <3>3, <3>5
    <2>7. OnPadding'
      <3> SUFFICES ASSUME covered = {} PROVE ~ spoilt'
        BY <2>1, Zenon DEF OnPadding
      <3>1. data_'[Size] = w[Size]
        BY <2>beneath, Zenon
      <3>2. (r = Size /\ covered # {}) = FALSE
        BY Zenon
      <3> QED BY <2>spoils, <3>1, <3>2, Zenon
    <2> QED BY <2>4, <2>5, <2>6, <2>7 DEF RingInv
  <1> QED BY <1>2, <1>3 DEF Q!push, Q!ringVars, ringVars

LEMMA PopKeeps ==
    ASSUME RingInv, ~ spoilt, Q!pop PROVE RingInv'
  <1>1. Size \in Nat /\ Size >= 1
    BY ContainerAssumption
  <1>2. CASE UNCHANGED ringVars
    BY <1>2 DEF ringVars, RingInv, RingType, RingFull, FirstRound, OnPadding, Place
  <1>3. CASE size_ > 0
    <2> DEFINE g == Q!After(front_)
               w == Tail(waiting)
    <2>1. /\ front_' = g /\ size_' = size_ - 1 /\ waiting' = w
          /\ data_' \in Q!Beneath(data_, {"front_", "size_"})
          /\ rear_' = rear_ /\ pushes' = pushes /\ covered' = covered
          /\ spoilt' = (data_'[Size] # data_[Size] /\ Q!LastWaits(front_ + 1, size_ - 1))
      BY <1>3 DEF Q!pop
    <2>2. /\ size_ \in 1..Size /\ front_ \in 0..Size /\ rear_ \in 0..Size
          /\ waiting \in Seq(RingVal) /\ Len(waiting) = size_
          /\ data_ \in [0..Size -> RingVal]
      BY <1>1, <1>3 DEF RingInv, RingType
    <2>beneath. /\ data_' \in [0..Size -> RingVal]
                /\ \A k \in 0..Size : k # Size => data_'[k] = data_[k]
                /\ covered = {} => data_' = data_
      BY <2>1, <2>2, BeneathIs
    <2>3. g = (IF front_ = Size THEN 0 ELSE front_ + 1) /\ g \in 0..Size
      BY <1>1, <2>2, AfterIs
    <2>4. /\ w \in Seq(RingVal) /\ Len(w) = size_ - 1
          /\ \A i \in 1..size_ - 1 : w[i] = waiting[i + 1]
      <3>1. waiting # << >>
        BY <2>2
      <3> QED BY <3>1, <2>2, HeadTailProperties
    <2> HIDE DEF g, w
    <2>5. RingType'
      <3>1. front_' \in 0..Size /\ rear_' \in 0..Size /\ size_' \in 0..Size
        BY <1>1, <2>1, <2>2, <2>3
      <3>2. waiting' \in Seq(RingVal) /\ Len(waiting') = size_'
        BY <2>1, <2>4
      <3>3. pushes' \in Nat /\ spoilt' \in BOOLEAN
        BY <2>1 DEF RingInv, RingType
      <3> QED BY <3>1, <3>2, <3>3, <2>beneath DEF RingType
    <2> DEFINE P(i) == IF g + i < Size + 1 THEN g + i ELSE g + i - (Size + 1)
    <2>6. RingFull'
      <3> SUFFICES ASSUME ~ spoilt'
                   PROVE  /\ rear_ = IF g + (size_ - 1) = 0 THEN Size ELSE P(size_ - 1 - 1)
                          /\ \A i \in 1..size_ - 1 : data_'[P(i - 1)] = w[i]
        BY <2>1 DEF RingFull, Place
      <3>1. /\ rear_ = IF front_ + size_ = 0 THEN Size ELSE Place(size_ - 1)
            /\ \A i \in 1..size_ : data_[Place(i - 1)] = waiting[i]
        BY DEF RingInv, RingFull
      <3>2. \A i \in 0..size_ - 2 : P(i) = Place(i + 1)
        BY <1>1, <2>1, <2>2, <2>3 DEF Place
      <3>3. rear_ = IF g + (size_ - 1) = 0 THEN Size ELSE P(size_ - 1 - 1)
        BY <1>1, <2>1, <2>2, <2>3, <3>1 DEF Place
      <3> HIDE DEF P
      <3>4. ASSUME NEW i \in 1..size_ - 1 PROVE data_'[P(i - 1)] = w[i]
        <4>1. i - 1 \in 0..size_ - 2 /\ (i - 1) + 1 = i /\ i + 1 \in 1..size_ /\ (i + 1) - 1 = i
          BY <2>2
        <4>2. P(i - 1) = Place(i)
          BY <4>1, <3>2
        <4>3. data_[Place(i)] = waiting[i + 1]
          BY <4>1, <3>1
        <4>4. data_'[Place(i)] = data_[Place(i)]
          <5>1. Place(i) \in 0..Size
            BY <1>1, <2>2 DEF Place
          <5>2. CASE Place(i) = Size
            <6>1. (front_ + 1) + (i - 1) = Size \/ (front_ + 1) + (i - 1) = 2 * Size + 1
              BY <1>1, <2>2, <5>2 DEF Place
            <6>2. /\ i - 1 \in 0..(size_ - 1) - 1 /\ front_ + 1 \in 0..Size + 1
                  /\ size_ - 1 \in 0..Size
              BY <1>1, <2>2
            <6>3. Q!LastWaits(front_ + 1, size_ - 1)
              BY <6>1, <6>2, LastIsSeen
            <6>4. data_'[Size] = data_[Size]
              BY <2>1, <6>3, Zenon
            <6> QED BY <5>2, <6>4, Zenon
          <5> QED BY <5>1, <5>2, <2>beneath
        <4> QED BY <4>2, <4>3, <4>4, <2>4
      <3> QED BY <3>3, <3>4
    <2>7. FirstRound'
      <3> SUFFICES ASSUME pushes <= Size
                   PROVE  /\ ~ spoilt' /\ rear_ = (IF pushes = 0 THEN Size ELSE pushes - 1)
                          /\ g + (size_ - 1) = pushes
        BY <2>1 DEF FirstRound
      <3>1. /\ front_ + size_ = pushes /\ pushes \in Nat
            /\ rear_ = (IF pushes = 0 THEN Size ELSE pushes - 1)
        BY DEF RingInv, RingType, FirstRound
      <3>2. g = front_ + 1
        BY <1>1, <2>2, <2>3, <3>1
      <3>3. ~ Q!LastWaits(front_ + 1, size_ - 1)
        <4>1. size_ - 1 \in 0..Size /\ front_ + 1 \in 0..Size + 1
          BY <1>1, <2>2
        <4>2. \A i \in 0..(size_ - 1) - 1 :
                 (front_ + 1) + i # Size /\ (front_ + 1) + i # 2 * Size + 1
          BY <1>1, <2>2, <3>1
        <4> QED BY <4>1, <4>2, SeenIsLast
      <3>4. ~ spoilt'
        BY <2>1, <3>3, Zenon
      <3>5. g + (size_ - 1) = pushes
        BY <2>2, <3>1, <3>2
      <3> QED BY <3>1, <3>4, <3>5
    <2>8. OnPadding'
      <3> SUFFICES ASSUME covered = {} PROVE ~ spoilt'
        BY <2>1, Zenon DEF OnPadding
      <3>1. data_'[Size] = data_[Size]
        BY <2>beneath, Zenon
      <3> QED BY <2>1, <3>1, Zenon
    <2> QED BY <2>5, <2>6, <2>7, <2>8 DEF RingInv
  <1> QED BY <1>2, <1>3 DEF Q!pop, Q!ringVars, ringVars

LEMMA RingNext == RingInv /\ [Q!Next]_ringVars => RingInv'
  <1> SUFFICES ASSUME RingInv, [Q!Next]_ringVars PROVE RingInv'
    OBVIOUS
  <1>1. ASSUME ~ spoilt, Q!pop PROVE RingInv'
    BY <1>1, PopKeeps
  <1>2. ASSUME ~ spoilt, NEW v \in RingVal, Q!push(v) PROVE RingInv'
    BY <1>2, PushKeeps
  <1>3. CASE UNCHANGED ringVars
    BY <1>3 DEF ringVars, RingInv, RingType, RingFull, FirstRound, OnPadding, Place
  <1> QED BY <1>1, <1>2, <1>3 DEF Q!Next

\* The invariant says what operator[] and back return.
LEMMA RingInOrder == RingInv => QueueInOrder
  <1> SUFFICES ASSUME RingInv PROVE QueueInOrder
    OBVIOUS
  <1>1. /\ Size \in Nat \ {0} /\ front_ \in 0..Size /\ size_ \in 0..Size
        /\ waiting \in Seq(RingVal) /\ Len(waiting) = size_
    BY ContainerAssumption DEF RingInv, RingType
  <1>2. covered = {} \/ pushes <= Size => ~ spoilt
    BY DEF RingInv, FirstRound, OnPadding
  <1>3. ASSUME ~ spoilt
        PROVE  /\ \A i \in DOMAIN waiting : Q!At(i - 1) = waiting[i]
               /\ waiting # << >> => data_[rear_] = waiting[Len(waiting)]
    <2>1. /\ rear_ = IF front_ + size_ = 0 THEN Size ELSE Place(size_ - 1)
          /\ \A i \in 1..size_ : data_[Place(i - 1)] = waiting[i]
      BY <1>3 DEF RingInv, RingFull
    <2>2. ASSUME NEW i \in DOMAIN waiting PROVE Q!At(i - 1) = waiting[i]
      <3>1. i \in 1..size_ /\ Size + 1 \in Nat \ {0} /\ front_ + (i - 1) \in 0..2 * (Size + 1) - 1
        BY <1>1
      <3> DEFINE j == front_ + (i - 1)
      <3> HIDE DEF j
      <3>2. j % (Size + 1) = IF j < Size + 1 THEN j ELSE j - (Size + 1)
        BY <3>1, OnceRound DEF j
      <3>3. (front_ + (i - 1)) % (Size + 1) = Place(i - 1)
        <4>1. Place(i - 1) = IF j < Size + 1 THEN j ELSE j - (Size + 1)
          BY <1>1, <3>1 DEF Place, j
        <4>2. j % (Size + 1) = Place(i - 1)
          BY <3>2, <4>1
        <4> QED BY <4>2 DEF j
      <3> QED BY <3>1, <3>3, <2>1 DEF Q!At, Q!max_size_
    <2>3. ASSUME waiting # << >> PROVE data_[rear_] = waiting[Len(waiting)]
      <3>1. size_ \in 1..size_ /\ front_ + size_ # 0
        BY <1>1, <2>3, EmptySeq
      <3> QED BY <3>1, <1>1, <2>1
    <2> QED BY <2>2, <2>3
  <1> QED BY <1>1, <1>2, <1>3 DEF QueueInOrder, Q!InOrder

\* The queue is first in, first out, round after round, until an element behind
\* the array and a number that lies there change each other (ring_queue.h:105);
\* where that place is padding they never do, and for no type of element before
\* more than Size pushes.
THEOREM QueueServesInOrder == Q!Spec => []QueueInOrder
  <1>1. Q!Init => RingInv
    BY RingInitInv
  <1>2. RingInv /\ [Q!Next]_ringVars => RingInv'
    BY RingNext
  <1>3. RingInv => QueueInOrder
    BY RingInOrder
  <1> QED BY <1>1, <1>2, <1>3, PTL DEF Q!Spec, Q!ringVars, ringVars

-----------------------------------------------------------------------------
(* The hash table.                                                          *)

\* Division with remainder.
LEMMA DivMod ==
    ASSUME NEW n \in Nat \ {0}, NEW h \in Nat
    PROVE  /\ h \div n \in Nat /\ h % n \in 0..n-1 /\ h = n * (h \div n) + (h % n)
  OBVIOUS
\* The remainder is the only one.
LEMMA OneRemainder ==
    ASSUME NEW n \in Nat \ {0}, NEW a \in Nat, NEW b \in Nat, NEW r \in 0..n-1, NEW s \in 0..n-1,
           n * a + r = n * b + s
    PROVE  r = s
  <1>1. CASE a = b
    BY <1>1
  <1>2. CASE a < b
    <2>1. n * (b - a) = r - s
      OBVIOUS
    <2>2. b - a >= 1
      BY <1>2
    <2>3. n * (b - a) >= n
      BY <2>2
    <2> QED BY <2>1, <2>3
  <1>3. CASE b < a
    <2>1. n * (a - b) = s - r
      OBVIOUS
    <2>2. a - b >= 1
      BY <1>3
    <2>3. n * (a - b) >= n
      BY <2>2
    <2> QED BY <2>1, <2>3
  <1> QED BY <1>1, <1>2, <1>3
\* With twice the buckets a hash stays where it is or moves up by the buckets there were.
LEMMA TwiceTheBuckets ==
    ASSUME NEW n \in Nat \ {0}, NEW h \in Nat
    PROVE  /\ h % n \in 0..n-1 
           /\ h % (2 * n) = h % n \/ h % (2 * n) = (h % n) + n
  <1> DEFINE a == h \div n
             b == h \div (2 * n)
             r == h % n
             s == h % (2 * n)
  <1>1. a \in Nat /\ r \in 0..n-1 /\ h = n * a + r
    BY DivMod
  <1>2. b \in Nat /\ s \in 0..2*n-1 /\ h = (2 * n) * b + s
    <2>1. 2 * n \in Nat \ {0}
      OBVIOUS
    <2> QED BY <2>1, DivMod
  <1> HIDE DEF a, b, r, s
  <1>3. 2 * b \in Nat /\ 2 * b + 1 \in Nat /\ (2 * n) * b = n * (2 * b) /\ n * (2 * b + 1) = n * (2 * b) + n
    BY <1>2
  <1>4. CASE s < n
    <2>1. n * a + r = n * (2 * b) + s /\ s \in 0..n-1
      BY <1>1, <1>2, <1>3, <1>4
    <2>2. r = s
      BY <2>1, <1>1, <1>3, OneRemainder
    <2> QED BY <2>2, <1>1 DEF r, s
  <1>5. CASE s >= n
    <2>1. n * a + r = n * (2 * b + 1) + (s - n) /\ s - n \in 0..n-1
      BY <1>1, <1>2, <1>3, <1>5
    <2>2. r = s - n
      BY <2>1, <1>1, <1>3, OneRemainder
    <2> QED BY <2>2, <1>1, <1>2 DEF r, s
  <1> QED BY <1>2, <1>4, <1>5

Entry == [key : HashKey, val : HashVal]

\* The first entry of k in the chain c has the value x.
Has(c, k, x) ==
    \E i \in DOMAIN c : c[i].key = k /\ c[i].val = x /\ \A j \in 1..i - 1 : c[j].key # k

Lacks(c, k) == \A i \in DOMAIN c : c[i].key # k

\* What hset makes of the chain.
Put(c, k, v) ==
    IF H!Found(c, k) = {} THEN <<[key |-> k, val |-> v]>> \o c
    ELSE [j \in DOMAIN c |->
            IF j \in H!Found(c, k) THEN [c[j] EXCEPT !.val = v] ELSE c[j]]

LEMMA FoundIs ==
    ASSUME NEW c \in Seq(Entry), NEW k
    PROVE  /\ Lacks(c, k) => H!Found(c, k) = {}
           /\ \A x : Has(c, k, x) =>
                /\ H!Found(c, k) # {}
                /\ c[CHOOSE i \in H!Found(c, k) : TRUE].val = x
  <1>1. Lacks(c, k) => H!Found(c, k) = {}
    BY DEF Lacks, H!Found
  <1>2. ASSUME NEW x, Has(c, k, x)
        PROVE  /\ H!Found(c, k) # {} /\ c[CHOOSE i \in H!Found(c, k) : TRUE].val = x
    <2>1. PICK i \in DOMAIN c : c[i].key = k /\ c[i].val = x /\ \A j \in 1..i - 1 : c[j].key # k
      BY <1>2 DEF Has
    <2>2. i \in H!Found(c, k)
      BY <2>1 DEF H!Found
    <2>3. \A j \in H!Found(c, k) : j = i
      <3>1. SUFFICES ASSUME NEW j \in H!Found(c, k), j # i PROVE FALSE
        OBVIOUS
      <3>2. /\ j \in 1..Len(c) /\ i \in 1..Len(c) /\ Len(c) \in Nat
            /\ c[j].key = k /\ \A l \in 1..j - 1 : c[l].key # k
        BY DEF H!Found
      <3>3. j \in 1..i - 1 \/ i \in 1..j - 1
        BY <3>1, <3>2
      <3> QED BY <2>1, <3>2, <3>3
    <2> QED BY <2>1, <2>2, <2>3
  <1> QED BY <1>1, <1>2

LEMMA PutChain ==
    ASSUME NEW c \in Seq(Entry), NEW k \in HashKey, NEW v \in HashVal
    PROVE  /\ Put(c, k, v) \in Seq(Entry) /\ Has(Put(c, k, v), k, v)
           /\ \A o : o # k =>
                /\ Lacks(c, o) => Lacks(Put(c, k, v), o)
                /\ \A x : Has(c, o, x) => Has(Put(c, k, v), o, x)
  <1> DEFINE e == [key |-> k, val |-> v]
             d == Put(c, k, v)
  <1>1. e \in Entry /\ e.key = k /\ e.val = v
    BY DEF Entry
  <1>2. Len(c) \in Nat /\ DOMAIN c = 1..Len(c)
    OBVIOUS
  <1>3. CASE H!Found(c, k) = {}
    <2>1. d = <<e>> \o c
      BY <1>3 DEF Put
    <2>2. <<e>> \in Seq(Entry) /\ Len(<<e>>) = 1 /\ <<e>>[1] = e
      BY <1>1
    <2> HIDE DEF d, e
    <2>3. /\ d \in Seq(Entry) /\ Len(d) = Len(c) + 1 /\ DOMAIN d = 1..Len(c) + 1
          /\ d[1] = e /\ \A i \in 1..Len(c) : d[i + 1] = c[i]
      BY <1>2, <2>1, <2>2
    <2>4. Has(d, k, v)
      <3>1. 1 \in DOMAIN d /\ d[1].key = k /\ d[1].val = v /\ \A j \in 1..1 - 1 : d[j].key # k
        BY <1>1, <1>2, <2>3
      <3> QED BY <3>1 DEF Has
    <2>5. ASSUME NEW o, o # k, NEW i \in DOMAIN d, d[i].key = o
          PROVE  i - 1 \in DOMAIN c /\ d[i] = c[i - 1]
      <3>1. i # 1 /\ i \in 1..Len(c) + 1
        BY <1>1, <2>3, <2>5
      <3>2. i - 1 \in 1..Len(c) /\ (i - 1) + 1 = i
        BY <1>2, <3>1
      <3> QED BY <3>2, <1>2, <2>3
    <2>6. ASSUME NEW o, o # k, Lacks(c, o) PROVE Lacks(d, o)
      BY <2>5, <2>6 DEF Lacks
    <2>7. ASSUME NEW o, o # k, NEW x, Has(c, o, x) PROVE Has(d, o, x)
      <3>1. PICK i \in DOMAIN c : c[i].key = o /\ c[i].val = x /\ \A j \in 1..i - 1 : c[j].key # o
        BY <2>7 DEF Has
      <3>2. i \in Nat /\ i + 1 \in DOMAIN d /\ d[i + 1] = c[i]
        BY <1>2, <2>3
      <3>3. ASSUME NEW j \in 1..(i + 1) - 1 PROVE d[j].key # o
        <4>1. j \in DOMAIN d /\ (j - 1 \in DOMAIN c => j - 1 \in 1..i - 1)
          BY <1>2, <2>3, <3>2
        <4> QED BY <4>1, <2>5, <2>7, <3>1
      <3>4. d[i + 1].key = o /\ d[i + 1].val = x
        BY <3>1, <3>2
      <3> QED BY <3>2, <3>3, <3>4 DEF Has
    <2> QED BY <2>3, <2>4, <2>6, <2>7 DEF d
  <1>4. CASE H!Found(c, k) # {}
    <2>1. d = [j \in DOMAIN c |-> IF j \in H!Found(c, k) THEN [c[j] EXCEPT !.val = v] ELSE c[j]]
      BY <1>4 DEF Put
    <2>2. ASSUME NEW j \in DOMAIN c
          PROVE  /\ d[j] \in Entry /\ d[j].key = c[j].key
                 /\ d[j].val = IF j \in H!Found(c, k) THEN v ELSE c[j].val
      <3>1. c[j] \in Entry
        BY <1>2
      <3>2. d[j] = IF j \in H!Found(c, k) THEN [c[j] EXCEPT !.val = v] ELSE c[j]
        BY <2>1
      <3> HIDE DEF d
      <3> QED BY <3>1, <3>2 DEF Entry
    <2>3. DOMAIN d = DOMAIN c /\ d \in Seq(Entry)
      <3>1. DOMAIN d = DOMAIN c /\ d = [j \in 1..Len(c) |-> d[j]]
        BY <1>2, <2>1
      <3> HIDE DEF d
      <3>2. \A j \in 1..Len(c) : d[j] \in Entry
        BY <1>2, <2>2
      <3> QED BY <1>2, <3>1, <3>2
    <2> HIDE DEF d
    <2>4. Has(d, k, v)
      <3>1. PICK i \in H!Found(c, k) : TRUE
        BY <1>4
      <3>2. i \in DOMAIN c /\ c[i].key = k /\ \A j \in 1..i - 1 : c[j].key # k
        BY <3>1 DEF H!Found
      <3>3. \A j \in 1..i - 1 : j \in DOMAIN c
        BY <1>2, <3>2
      <3> QED BY <2>2, <2>3, <3>1, <3>2, <3>3 DEF Has
    <2>5. ASSUME NEW o, o # k, Lacks(c, o) PROVE Lacks(d, o)
      BY <2>2, <2>3, <2>5 DEF Lacks
    <2>6. ASSUME NEW o, o # k, NEW x, Has(c, o, x) PROVE Has(d, o, x)
      <3>1. PICK i \in DOMAIN c : c[i].key = o /\ c[i].val = x /\ \A j \in 1..i - 1 : c[j].key # o
        BY <2>6 DEF Has
      <3>2. i \notin H!Found(c, k)
        BY <2>6, <3>1 DEF H!Found
      <3>3. \A j \in 1..i - 1 : j \in DOMAIN c
        BY <1>2, <3>1
      <3> QED BY <2>2, <2>3, <3>1, <3>2, <3>3 DEF Has
    <2> QED BY <2>3, <2>4, <2>5, <2>6 DEF d
  <1> QED BY <1>3, <1>4

\* What is known of a key last set to x when there were w buckets.
KeyOK(t, k, w, x) ==
    /\ w \in 0..Len(t) /\ (w = 0 => x = NOVAL)
    /\ IF w # 0 /\ Hashed[k] % w = Hashed[k] % Len(t) THEN Has(t[H!Index(t, k)], k, x)
       ELSE Lacks(t[H!Index(t, k)], k)

TableType(t) == t \in Seq(Seq(Entry)) /\ Len(t) # 0

HashInv ==
    /\ TableType(htable_)
    /\ latest \in [HashKey -> HashVal \cup {NOVAL}] /\ where \in [HashKey -> Nat]
    /\ \A k \in HashKey : KeyOK(htable_, k, where[k], latest[k])

LEMMA IndexIs ==
    ASSUME NEW t, TableType(t), NEW k \in HashKey
    PROVE  /\ Len(t) \in Nat \ {0} /\ Hashed[k] \in Nat
           /\ Hashed[k] % Len(t) \in 0..Len(t) - 1
           /\ H!Index(t, k) = (Hashed[k] % Len(t)) + 1
           /\ H!Index(t, k) \in DOMAIN t /\ t[H!Index(t, k)] \in Seq(Entry)
  <1>1. Len(t) \in Nat \ {0} /\ Hashed[k] \in Nat
    BY ContainerAssumption DEF TableType
  <1>2. Hashed[k] % Len(t) \in 0..Len(t) - 1
    BY <1>1, DivMod
  <1>3. H!Index(t, k) = (Hashed[k] % Len(t)) + 1
    BY DEF H!Index, H!Buckets
  <1>4. H!Index(t, k) \in 1..Len(t)
    BY <1>1, <1>2, <1>3
  <1> QED BY <1>1, <1>2, <1>3, <1>4 DEF TableType

\* Growing loses keys, and leaves nothing of them where they are looked for.
LEMMA ResizeKeeps ==
    ASSUME NEW t, TableType(t)
    PROVE  /\ TableType(H!Resize(t))
           /\ \A k \in HashKey : \A w, x : KeyOK(t, k, w, x) => KeyOK(H!Resize(t), k, w, x)
  <1> DEFINE n == Len(t)
             u == H!Resize(t)
             e == [i \in 1..n |-> << >>]
  <1>1. n \in Nat \ {0} /\ t \in Seq(Seq(Entry))
    BY DEF TableType
  <1>2. e \in Seq(Seq(Entry)) /\ Len(e) = n /\ \A i \in 1..n : e[i] = << >>
    <2>1. << >> \in Seq(Entry)
      OBVIOUS
    <2> QED BY <1>1, <2>1
  <1>3. u = t \o e
    BY DEF H!Resize, H!Buckets
  <1> HIDE DEF e, u
  <1>4. /\ u \in Seq(Seq(Entry)) /\ Len(u) = 2 * n
        /\ \A i \in 1..n : u[i] = t[i] /\ u[i + n] = << >>
    <2>1. /\ u \in Seq(Seq(Entry)) /\ Len(u) = n + n
          /\ \A i \in 1..n + n : u[i] = IF i <= n THEN t[i] ELSE e[i - n]
      <3> DEFINE C == Seq(Entry)
      <3>1. t \in Seq(C) /\ e \in Seq(C) /\ Len(t) = n /\ Len(e) = n
        BY <1>1, <1>2
      <3> HIDE DEF C, n
      <3>2. /\ t \o e \in Seq(C) /\ Len(t \o e) = Len(t) + Len(e)
            /\ \A i \in 1..Len(t) + Len(e) :
                 (t \o e)[i] = IF i <= Len(t) THEN t[i] ELSE e[i - Len(t)]
        BY <3>1, ConcatProperties
      <3> QED BY <3>1, <3>2, <1>3 DEF C
    <2>2. ASSUME NEW i \in 1..n PROVE u[i] = t[i] /\ u[i + n] = << >>
      <3>1. i \in 1..n + n /\ i <= n /\ i + n \in 1..n + n /\ ~ (i + n <= n) /\ (i + n) - n = i
        BY <1>1
      <3> QED BY <3>1, <2>1, <1>2
    <2>3. Len(u) = 2 * n
      BY <1>1, <2>1
    <2> HIDE DEF n
    <2> QED BY <2>1, <2>2, <2>3
  <1>5. TableType(u)
    BY <1>1, <1>4 DEF TableType
  <1>6. ASSUME NEW k \in HashKey, NEW w, NEW x, KeyOK(t, k, w, x) PROVE KeyOK(u, k, w, x)
    <2> DEFINE h == Hashed[k]
    <2>1. /\ h \in Nat /\ h % n \in 0..n - 1
          /\ H!Index(t, k) = (h % n) + 1 /\ H!Index(u, k) = (h % (2 * n)) + 1
      BY <1>4, <1>5, IndexIs
    <2>2. w \in 0..n /\ (w = 0 => x = NOVAL) /\ w \in 0..2 * n /\ w \in Nat
      BY <1>1, <1>6 DEF KeyOK
    <2>3. h % (2 * n) = h % n \/ h % (2 * n) = (h % n) + n
      BY <1>1, <2>1, TwiceTheBuckets
    <2> DEFINE r == h % n
               s == h % (2 * n)
    <2>4. CASE s = r
      <3>1. u[H!Index(u, k)] = t[H!Index(t, k)]
        <4> HIDE DEF r, s
        <4>1. r + 1 \in 1..n
          <5>1. r \in 0..n - 1
            BY <2>1 DEF r
          <5> QED BY <5>1, <1>1
        <4>2. H!Index(t, k) = r + 1 /\ H!Index(u, k) = r + 1
          BY <2>1, <2>4 DEF r, s
        <4> QED BY <4>1, <4>2, <1>4
      <3> QED BY <3>1, <2>2, <2>4, <1>4, <1>6 DEF KeyOK
    <2>5. CASE s = r + n
      <3>1. u[H!Index(u, k)] = << >>
        <4> HIDE DEF r, s
        <4>1. r \in 0..n - 1
          BY <2>1 DEF r
        <4>2. r + 1 \in 1..n /\ (r + n) + 1 = (r + 1) + n
          BY <1>1, <4>1
        <4>3. H!Index(u, k) = (r + 1) + n
          BY <4>2, <2>1, <2>5 DEF r, s
        <4> QED BY <4>2, <4>3, <1>4
      <3>2. ASSUME w # 0 PROVE h % w # s
        <4>1. h % w \in 0..w - 1
          BY <2>1, <2>2, <3>2, DivMod
        <4> HIDE DEF s, r, h
        <4>2. r \in Nat
          BY <1>1, <2>1 DEF r
        <4> QED BY <4>1, <4>2, <2>2, <2>5, <1>1
      <3>3. Lacks(u[H!Index(u, k)], k)
        BY <3>1 DEF Lacks
      <3> QED BY <3>2, <3>3, <2>2, <1>4 DEF KeyOK
    <2> QED BY <2>3, <2>4, <2>5
  <1> QED BY <1>5, <1>6 DEF u

\* Setting a key keeps what is known of the others.
LEMMA SetKeeps ==
    ASSUME NEW t, TableType(t), NEW k \in HashKey, NEW v \in HashVal
    PROVE  LET u == [t EXCEPT ![H!Index(t, k)] = Put(@, k, v)]
           IN  /\ TableType(u) /\ KeyOK(u, k, Len(t), v)
               /\ \A o \in HashKey \ {k} : \A w, x : KeyOK(t, o, w, x) => KeyOK(u, o, w, x)
  <1> DEFINE b == H!Index(t, k)
             d == Put(t[b], k, v)
             u == [t EXCEPT ![b] = Put(@, k, v)]
  <1>1. /\ Len(t) \in Nat \ {0} /\ b \in DOMAIN t /\ t[b] \in Seq(Entry)
    BY IndexIs
  <1>2. /\ d \in Seq(Entry) /\ Has(d, k, v)
        /\ \A o : o # k =>
             /\ Lacks(t[b], o) => Lacks(d, o)
             /\ \A x : Has(t[b], o, x) => Has(d, o, x)
    BY <1>1, PutChain
  <1> HIDE DEF d, b
  <1>3. /\ u \in Seq(Seq(Entry)) /\ Len(u) = Len(t) /\ u[b] = d
        /\ \A i \in DOMAIN t : i # b => u[i] = t[i]
    BY <1>1, <1>2 DEF TableType, d
  <1> HIDE DEF u
  <1>4. TableType(u)
    BY <1>1, <1>3 DEF TableType
  <1>5. \A o : H!Index(u, o) = H!Index(t, o)
    BY <1>3 DEF H!Index, H!Buckets
  <1>6. KeyOK(u, k, Len(t), v)
    BY <1>1, <1>2, <1>3, <1>5 DEF KeyOK, b
  <1>7. ASSUME NEW o \in HashKey \ {k}, NEW w, NEW x, KeyOK(t, o, w, x) PROVE KeyOK(u, o, w, x)
    <2>1. H!Index(t, o) \in DOMAIN t
      BY IndexIs
    <2>2. /\ Lacks(t[H!Index(t, o)], o) => Lacks(u[H!Index(u, o)], o)
          /\ Has(t[H!Index(t, o)], o, x) => Has(u[H!Index(u, o)], o, x)
      BY <2>1, <1>2, <1>3, <1>5
    <2> QED BY <2>2, <1>3, <1>7 DEF KeyOK
  <1> QED BY <1>4, <1>6, <1>7 DEF u, b

LEMMA HashNext ==
    ASSUME HashInv, NEW k \in HashKey, NEW v \in HashVal, H!hset(k, v) PROVE HashInv'
  <1> DEFINE t == IF H!Crowded THEN H!Resize(htable_) ELSE htable_
             u == [t EXCEPT ![H!Index(t, k)] = Put(@, k, v)]
  <1>1. /\ TableType(htable_)
        /\ latest \in [HashKey -> HashVal \cup {NOVAL}] /\ where \in [HashKey -> Nat]
        /\ \A o \in HashKey : KeyOK(htable_, o, where[o], latest[o])
    BY DEF HashInv
  <1>2. TableType(t) /\ \A o \in HashKey : KeyOK(t, o, where[o], latest[o])
    BY <1>1, ResizeKeeps
  <1>3. /\ htable_' = u
        /\ where' = [where EXCEPT ![k] = Len(t)] /\ latest' = [latest EXCEPT ![k] = v]
    BY DEF H!hset, H!Buckets, Put
  <1> HIDE DEF t
  <1>4. /\ TableType(u) /\ KeyOK(u, k, Len(t), v)
        /\ \A o \in HashKey \ {k} : KeyOK(u, o, where[o], latest[o])
    BY <1>2, SetKeeps
  <1> HIDE DEF u
  <1>5. ASSUME NEW o \in HashKey PROVE KeyOK(u, o, where'[o], latest'[o])
    BY <1>1, <1>3, <1>4
  <1>6. Len(t) \in Nat
    BY <1>2 DEF TableType
  <1>7. /\ latest' \in [HashKey -> HashVal \cup {NOVAL}] /\ where' \in [HashKey -> Nat]
    BY <1>1, <1>3, <1>6
  <1> QED BY <1>3, <1>4, <1>5, <1>7 DEF HashInv

LEMMA HashInitInv == H!Init => HashInv
  <1> SUFFICES ASSUME H!Init PROVE HashInv
    OBVIOUS
  <1>1. FirstBuckets \in Nat \ {0} /\ << >> \in Seq(Entry)
    BY ContainerAssumption
  <1>2. /\ htable_ = [i \in 1..FirstBuckets |-> << >>]
        /\ latest = [k \in HashKey |-> NOVAL] /\ where = [k \in HashKey |-> 0]
    BY DEF H!Init
  <1>3. TableType(htable_) /\ \A i \in DOMAIN htable_ : htable_[i] = << >>
    BY <1>1, <1>2 DEF TableType
  <1>4. ASSUME NEW k \in HashKey PROVE KeyOK(htable_, k, where[k], latest[k])
    <2>1. H!Index(htable_, k) \in DOMAIN htable_ /\ Len(htable_) \in Nat
      BY <1>3, IndexIs
    <2>2. Lacks(htable_[H!Index(htable_, k)], k)
      BY <1>3, <2>1 DEF Lacks
    <2>3. where[k] = 0 /\ latest[k] = NOVAL
      BY <1>2
    <2> HIDE DEF H!Index
    <2> QED BY <2>1, <2>2, <2>3 DEF KeyOK
  <1>5. latest \in [HashKey -> HashVal \cup {NOVAL}] /\ where \in [HashKey -> Nat]
    BY <1>2
  <1> QED BY <1>3, <1>4, <1>5 DEF HashInv

LEMMA HashShowsLatest == HashInv => HashNeverStale
  <1> SUFFICES ASSUME HashInv, NEW k \in HashKey
               PROVE  H!hget(k) = IF latest[k] # NOVAL
                                     /\ Hashed[k] % where[k] = Hashed[k] % H!Buckets(htable_)
                                  THEN latest[k] ELSE NOVAL
    BY DEF HashNeverStale, H!NeverStale
  <1> DEFINE c == htable_[H!Index(htable_, k)]
  <1>1. TableType(htable_) /\ KeyOK(htable_, k, where[k], latest[k])
    BY DEF HashInv
  <1>2. c \in Seq(Entry)
    BY <1>1, IndexIs
  <1>3. H!hget(k) = IF H!Found(c, k) = {} THEN NOVAL
                    ELSE c[CHOOSE i \in H!Found(c, k) : TRUE].val
    BY DEF H!hget
  <1> HIDE DEF c
  <1>4. CASE where[k] # 0 /\ Hashed[k] % where[k] = Hashed[k] % Len(htable_)
    <2>1. Has(c, k, latest[k])
      BY <1>1, <1>4 DEF KeyOK, c
    <2>2. H!hget(k) = latest[k]
      BY <2>1, <1>2, <1>3, FoundIs
    <2> QED BY <2>2, <1>4 DEF H!Buckets
  <1>5. CASE ~ (where[k] # 0 /\ Hashed[k] % where[k] = Hashed[k] % Len(htable_))
    <2>1. Lacks(c, k) /\ (where[k] = 0 => latest[k] = NOVAL)
      BY <1>1, <1>5 DEF KeyOK, c
    <2>2. H!hget(k) = NOVAL
      BY <2>1, <1>2, <1>3, FoundIs
    <2> QED BY <2>1, <2>2, <1>5 DEF H!Buckets
  <1> QED BY <1>4, <1>5

\* The hash table shows the value a key was last set to, or nothing when the
\* buckets added since moved its place: never an older value.
THEOREM HashShowsNothingOld == H!Spec => []HashNeverStale
  <1>1. H!Init => HashInv
    BY HashInitInv
  <1>2. HashInv /\ [H!Next]_hashVars => HashInv'
    <2> SUFFICES ASSUME HashInv, [H!Next]_hashVars PROVE HashInv'
      OBVIOUS
    <2>1. ASSUME NEW k \in HashKey, NEW v \in HashVal, H!hset(k, v) PROVE HashInv'
      BY <2>1, HashNext
    <2>2. CASE UNCHANGED hashVars
      BY <2>2 DEF hashVars, HashInv
    <2> QED BY <2>1, <2>2 DEF H!Next
  <1>3. HashInv => HashNeverStale
    BY HashShowsLatest
  <1> QED BY <1>1, <1>2, <1>3, PTL DEF H!Spec, H!hashVars, hashVars

-----------------------------------------------------------------------------
(* The list.                                                                *)

\* A nonempty set of natural numbers has a least element.
LEMMA LeastElement ==
    ASSUME NEW S \in SUBSET Nat, S # {}
    PROVE  \E i \in S : \A j \in S : i <= j
  <1> DEFINE Less == {p \in Nat \X Nat : p[1] < p[2]}
  <1>1. IsWellFoundedOn(Less, Nat)
    BY NatLessThanWellFounded DEF OpToRel
  <1>2. S \subseteq Nat
    OBVIOUS
  <1>3. \E i \in S : \A j \in S : <<j, i>> \notin Less
    <2> HIDE DEF Less
    <2> QED BY <1>1, <1>2, WFMin
  <1>4. PICK i \in S : \A j \in S : <<j, i>> \notin Less
    BY <1>3
  <1>5. ASSUME NEW j \in S PROVE i <= j
    <2>1. <<j, i>> \notin Less
      BY <1>4
    <2> QED BY <2>1, <1>2
  <1> QED BY <1>5

\* Induction over the natural numbers, for a set instead of a formula.
LEMMA Upward ==
    ASSUME NEW S, 0 \in S, \A n \in Nat : n \in S => n + 1 \in S
    PROVE  \A n \in Nat : n \in S
  <1> SUFFICES ASSUME Nat \ S # {} PROVE FALSE
    OBVIOUS
  <1>1. PICK n \in Nat \ S : \A k \in Nat \ S : n <= k
    BY LeastElement
  <1>2. n # 0 /\ n - 1 \in Nat /\ n - 1 \notin Nat \ S
    BY <1>1
  <1> QED BY <1>2

\* Induction down from n to 1.
LEMMA Downward ==
    ASSUME NEW n \in Nat, NEW S, n \in S, \A i \in 1..n - 1 : i + 1 \in S => i \in S
    PROVE  \A i \in 1..n : i \in S
  <1> DEFINE D == {d \in Nat : d < n => n - d \in S}
  <1>1. 0 \in D
    OBVIOUS
  <1>2. ASSUME NEW d \in Nat, d \in D PROVE d + 1 \in D
    <2> SUFFICES ASSUME d + 1 < n PROVE n - (d + 1) \in S
      OBVIOUS
    <2>1. n - (d + 1) \in 1..n - 1 /\ (n - (d + 1)) + 1 = n - d /\ n - d \in S
      BY <1>2
    <2> QED BY <2>1
  <1>3. \A d \in Nat : d \in D
    <2> HIDE DEF D
    <2> QED BY <1>1, <1>2, Upward
  <1>4. ASSUME NEW i \in 1..n PROVE i \in S
    <2>1. n - i \in Nat /\ n - i < n /\ n - (n - i) = i
      OBVIOUS
    <2> QED BY <2>1, <1>3
  <1> QED BY <1>4

\* RemoveAt entry by entry.
LEMMA RemoveAtEntries ==
    ASSUME NEW S, NEW list \in Seq(S), NEW k \in 1..Len(list)
    PROVE  RemoveAt(list, k) =
              [j \in 1..Len(list) - 1 |-> IF j < k THEN list[j] ELSE list[j + 1]]
  <1> DEFINE N == Len(list)
             a == SubSeq(list, 1, k - 1)
             b == SubSeq(list, k + 1, N)
             r == RemoveAt(list, k)
  <1>1. N \in Nat /\ k \in Nat /\ k <= N /\ 1 <= k /\ DOMAIN list = 1..N
    OBVIOUS
  <1>2. /\ a \in Seq(S) /\ Len(a) = k - 1
        /\ \A j \in 1..k - 1 : a[j] = list[j]
    BY <1>1
  <1>3. /\ b \in Seq(S) /\ Len(b) = N - k
        /\ \A j \in 1..N - k : b[j] = list[k + j]
    <2>1. k + 1 \in 1..N + 1 /\ N - (k + 1) + 1 = N - k
      BY <1>1
    <2>2. /\ b \in Seq(S) /\ Len(b) = N - k
          /\ \A j \in 1..N - k : b[j] = list[(k + 1) + j - 1]
      <3> DEFINE h == k + 1
      <3>1. b = SubSeq(list, h, N) /\ h \in 1..N + 1 /\ N - h + 1 = N - k
        BY <2>1
      <3> HIDE DEF h, b
      <3>2. /\ b \in Seq(S) /\ Len(b) = N - h + 1
            /\ \A j \in 1..N - h + 1 : b[j] = list[h + j - 1]
        <4>1. h \in Int /\ N \in Int /\ \A i \in h..N : list[i] \in S
          BY <3>1, <1>1
        <4>2. Len(b) = IF h <= N THEN N - h + 1 ELSE 0
          BY <4>1, <3>1, SubSeqProperties
        <4>3. b \in Seq(S) /\ \A j \in 1..N - h + 1 : b[j] = list[h + j - 1]
          BY <4>1, <3>1, SubSeqProperties
        <4> QED BY <4>1, <4>2, <4>3, <3>1, <1>1
      <3> QED BY <3>1, <3>2 DEF h
    <2>3. \A j \in 1..N - k : (k + 1) + j - 1 = k + j
      BY <1>1
    <2> QED BY <2>2, <2>3
  <1>4. r = a \o b
    BY DEF RemoveAt
  <1> HIDE DEF a, b, r, N
  <1>5. /\ r \in Seq(S) /\ Len(r) = Len(a) + Len(b)
        /\ \A j \in 1..Len(a) + Len(b) :
               r[j] = IF j <= Len(a) THEN a[j] ELSE b[j - Len(a)]
    <2>1. a \in Seq(S) /\ b \in Seq(S)
      BY <1>2, <1>3
    <2> QED BY <2>1, <1>4, ConcatProperties
  <1>6. r \in Seq(S) /\ Len(r) = N - 1
    BY <1>1, <1>2, <1>3, <1>5
  <1>7. ASSUME NEW j \in 1..N - 1
        PROVE  r[j] = IF j < k THEN list[j] ELSE list[j + 1]
    <2>1. CASE j < k
      BY <2>1, <1>1, <1>2, <1>3, <1>5
    <2>2. CASE ~ (j < k)
      <3>1. /\ j - (k - 1) \in 1..N - k /\ k + (j - (k - 1)) = j + 1
            /\ j \in 1..Len(a) + Len(b) /\ ~ (j <= Len(a)) /\ j - Len(a) = j - (k - 1)
        BY <2>2, <1>1, <1>2, <1>3
      <3>2. r[j] = b[j - (k - 1)]
        BY <3>1, <1>5
      <3> QED BY <3>1, <3>2, <2>2, <1>3
    <2> QED BY <2>1, <2>2
  <1>8. r = [j \in 1..N - 1 |-> r[j]]
    BY <1>1, <1>6
  <1> QED
    BY <1>7, <1>8 DEF r, N

LEMMA MinIs ==
    ASSUME NEW S \in SUBSET Nat, S # {}
    PROVE  Min(S) \in S /\ \A j \in S : Min(S) <= j
  <1>1. \E i \in S : \A j \in S : i <= j
    BY LeastElement
  <1> QED BY <1>1 DEF Min

\* n steps along links, as the nodes g[1] to g[n].
LEMMA StepsAre ==
    ASSUME NEW m \in Nat, NEW links, NEW g, g[0] = L!NIL,
           \A i \in 1..m : g[i] = links[g[i - 1]]
    PROVE  \A i \in 1..m : L!Steps(links, m)[i] = g[i]
  <1> DEFINE Body(h, i) == IF i = 0 THEN L!NIL ELSE links[h[i - 1]]
             at == CHOOSE h : h = [i \in 0..m |-> Body(h, i)]
             g0 == [i \in 0..m |-> g[i]]
  <1>1. g0 = [i \in 0..m |-> Body(g0, i)]
    <2>1. ASSUME NEW i \in 0..m PROVE g0[i] = Body(g0, i)
      <3>1. i # 0 => i \in 1..m /\ i - 1 \in 0..m
        OBVIOUS
      <3> QED BY <3>1
    <2>2. [i \in 0..m |-> g0[i]] = [i \in 0..m |-> Body(g0, i)]
      <3> HIDE DEF g0, Body
      <3> QED BY <2>1
    <2>3. g0 = [i \in 0..m |-> g0[i]]
      OBVIOUS
    <2> QED BY <2>2, <2>3
  <1>2. at = [i \in 0..m |-> Body(at, i)]
    <2>1. \E h : h = [i \in 0..m |-> Body(h, i)]
      <3> HIDE DEF g0, Body
      <3> QED BY <1>1
    <2> HIDE DEF Body
    <2> QED BY <2>1
  <1>3. L!Steps(links, m) = [i \in 1..m |-> at[i]]
    BY DEF L!Steps
  <1>4. \A i \in 0..m : at[i] = Body(at, i)
    <2> HIDE DEF at, Body
    <2> QED BY <1>2
  <1> HIDE DEF at
  <1> DEFINE K == {i \in Nat : i <= m => at[i] = g[i]}
  <1>5. 0 \in K
    BY <1>4
  <1>6. ASSUME NEW i \in Nat, i \in K PROVE i + 1 \in K
    <2> SUFFICES ASSUME i + 1 <= m PROVE at[i + 1] = g[i + 1]
      OBVIOUS
    <2>1. i + 1 \in 1..m /\ (i + 1) - 1 = i /\ i + 1 # 0 /\ i + 1 \in 0..m /\ i <= m
      OBVIOUS
    <2>2. at[i + 1] = links[at[i]]
      BY <1>4, <2>1
    <2>3. at[i] = g[i]
      BY <1>6, <2>1
    <2> QED BY <2>1, <2>2, <2>3
  <1>7. \A i \in Nat : i \in K
    <2> HIDE DEF K
    <2> QED BY <1>5, <1>6, Upward
  <1> QED BY <1>3, <1>7

\* The list p is kept by the nodes l, with the links r between them: s[1] to s[n],
\* each once, and nil before and behind them.
Circle(r, l, p, s) ==
    /\ s \in [0..Len(p) + 1 -> L!ListNode \cup {L!NIL}]
    /\ s[0] = L!NIL /\ s[Len(p) + 1] = L!NIL
    /\ \A i \in 1..Len(p) : s[i] \in l /\ r.val[s[i]] = p[i]
    /\ \A i, j \in 1..Len(p) : s[i] = s[j] => i = j
    /\ \A x \in l : \E i \in 1..Len(p) : s[i] = x
    /\ \A i \in 0..Len(p) : r.next[s[i]] = s[i + 1] /\ r.pre[s[i + 1]] = s[i]

LinksType(r) ==
    LET at == L!ListNode \cup {L!NIL}
    IN  r \in [val : [at -> ListVal \cup {L!NIL}], pre : [at -> at], next : [at -> at]]

ListInv ==
    /\ LinksType(ring) /\ live \subseteq L!ListNode /\ pushed \in Seq(ListVal)
    /\ \A x \in L!ListNode \ live : ring.next[x] = L!NIL
    /\ \E s : Circle(ring, live, pushed, s)

LEMMA NilIsNoNode == L!NIL = 0 /\ L!NIL \notin L!ListNode /\ L!ListNode = 1..ListSize /\ ListSize \in Nat
  BY ContainerAssumption DEF L!NIL, L!ListNode

\* Where v is in the list from i on, and the node of the first place.
Hits(p, v, i) == {j \in i..Len(p) : p[j] = v}

FirstHit(p, s, v, i) == IF Hits(p, v, i) = {} THEN L!NIL ELSE s[Min(Hits(p, v, i))]

LEMMA FirstHitStep ==
    ASSUME NEW p \in Seq(ListVal), NEW s, NEW v
    PROVE  /\ FirstHit(p, s, v, Len(p) + 1) = L!NIL
           /\ \A i \in 1..Len(p) :
                FirstHit(p, s, v, i) = IF p[i] = v THEN s[i] ELSE FirstHit(p, s, v, i + 1)
  <1>1. Len(p) \in Nat
    OBVIOUS
  <1>2. Hits(p, v, Len(p) + 1) = {}
    BY <1>1 DEF Hits
  <1>3. ASSUME NEW i \in 1..Len(p)
        PROVE  FirstHit(p, s, v, i) = IF p[i] = v THEN s[i] ELSE FirstHit(p, s, v, i + 1)
    <2>1. CASE p[i] = v
      <3>1. i \in Hits(p, v, i) /\ Hits(p, v, i) \in SUBSET Nat /\ \A j \in Hits(p, v, i) : i <= j
        BY <1>1, <2>1 DEF Hits
      <3>2. Min(Hits(p, v, i)) \in Hits(p, v, i) /\ Min(Hits(p, v, i)) <= i
        BY <3>1, MinIs
      <3>3. Min(Hits(p, v, i)) = i
        <4>1. i <= Min(Hits(p, v, i)) /\ Min(Hits(p, v, i)) \in Nat
          BY <3>1, <3>2
        <4> QED BY <4>1, <3>2
      <3> QED BY <2>1, <3>1, <3>3 DEF FirstHit
    <2>2. CASE p[i] # v
      <3>1. ASSUME NEW j PROVE j \in Hits(p, v, i) <=> j \in Hits(p, v, i + 1)
        <4>1. j \in i..Len(p) /\ j # i <=> j \in i + 1..Len(p)
          BY <1>1
        <4> QED BY <4>1, <2>2 DEF Hits
      <3>2. Hits(p, v, i) = Hits(p, v, i + 1)
        BY <3>1
      <3> QED BY <2>2, <3>2 DEF FirstHit
    <2> QED BY <2>1, <2>2
  <1> QED BY <1>2, <1>3 DEF FirstHit

\* search returns the first node with v, and nil where there is none.
LEMMA SearchIsFirstHit ==
    ASSUME ListInv, NEW s, Circle(ring, live, pushed, s), NEW v
    PROVE  L!search(v) = FirstHit(pushed, s, v, 1)
  <1> DEFINE At == L!ListNode \cup {L!NIL}
             n == Len(pushed)
             F(h, x) == IF x = L!NIL \/ ring.val[x] = v THEN x ELSE h[ring.next[x]]
             from == CHOOSE h : h = [x \in At |-> F(h, x)]
             hit(i) == FirstHit(pushed, s, v, i)
             g == [x \in At |->
                     IF x = L!NIL THEN x
                     ELSE IF x \in live THEN hit(CHOOSE i \in 1..n : s[i] = x)
                     ELSE IF ring.val[x] = v THEN x ELSE L!NIL]
  <1>1. /\ n \in Nat /\ pushed \in Seq(ListVal) /\ L!NIL \notin L!ListNode
        /\ live \subseteq L!ListNode
        /\ \A x \in L!ListNode \ live : ring.next[x] = L!NIL
    BY NilIsNoNode DEF ListInv
  <1>2. /\ s[0] = L!NIL /\ s[n + 1] = L!NIL
        /\ \A i \in 1..n : s[i] \in live /\ ring.val[s[i]] = pushed[i] /\ s[i] # L!NIL
        /\ \A i, j \in 1..n : s[i] = s[j] => i = j
        /\ \A x \in live : \E i \in 1..n : s[i] = x
        /\ \A i \in 0..n : ring.next[s[i]] = s[i + 1]
    BY <1>1 DEF Circle
  <1>3. hit(n + 1) = L!NIL /\ \A i \in 1..n : hit(i) = IF pushed[i] = v THEN s[i] ELSE hit(i + 1)
    BY <1>1, FirstHitStep
  <1> HIDE DEF hit
  <1>4. \A i \in 1..n + 1 : g[s[i]] = hit(i)
    <2>1. ASSUME NEW i \in 1..n PROVE g[s[i]] = hit(i)
      <3>1. (CHOOSE j \in 1..n : s[j] = s[i]) = i
        BY <1>2
      <3>2. s[i] \in At /\ s[i] # L!NIL /\ s[i] \in live
        BY <1>1, <1>2
      <3> QED BY <3>1, <3>2
    <2>2. g[s[n + 1]] = hit(n + 1)
      BY <1>2, <1>3
    <2> HIDE DEF g
    <2> QED BY <2>1, <2>2, <1>1
  <1>5. ASSUME NEW x \in At PROVE g[x] = F(g, x)
    <2>1. CASE x = L!NIL
      BY <2>1
    <2>2. CASE x # L!NIL /\ x \notin live
      <3>1. ring.next[x] = L!NIL /\ g[L!NIL] = L!NIL
        BY <1>1, <2>2
      <3>2. g[x] = IF ring.val[x] = v THEN x ELSE L!NIL
        BY <2>2
      <3> HIDE DEF g
      <3> QED BY <2>2, <3>1, <3>2
    <2>3. CASE x \in live
      <3>1. PICK i \in 1..n : s[i] = x
        BY <1>2, <2>3
      <3>2. /\ x # L!NIL /\ ring.val[x] = pushed[i] /\ ring.next[x] = s[i + 1]
            /\ i \in 1..n + 1 /\ i + 1 \in 1..n + 1 /\ i \in 0..n
        BY <1>1, <1>2, <3>1
      <3>3. g[x] = hit(i) /\ g[s[i + 1]] = hit(i + 1)
        BY <1>4, <3>1, <3>2
      <3> HIDE DEF g
      <3> QED BY <1>3, <3>1, <3>2, <3>3
    <2> QED BY <2>1, <2>2, <2>3
  <1>6. g = [x \in At |-> F(g, x)]
    <2>1. [x \in At |-> g[x]] = [x \in At |-> F(g, x)]
      <3> HIDE DEF g, F, At
      <3> QED BY <1>5
    <2>2. g = [x \in At |-> g[x]]
      OBVIOUS
    <2> QED BY <2>1, <2>2
  <1>7. from = [x \in At |-> F(from, x)]
    <2>1. \E h : h = [x \in At |-> F(h, x)]
      <3> HIDE DEF g, F, At
      <3> QED BY <1>6
    <2> HIDE DEF F, At
    <2> QED BY <2>1
  <1>8. L!search(v) = from[ring.next[L!NIL]]
    BY DEF L!search
  <1>9. \A x \in At : from[x] = F(from, x)
    <2> HIDE DEF from, F
    <2> QED BY <1>7
  <1> HIDE DEF from
  <1> DEFINE K == {i \in 1..n + 1 : from[s[i]] = hit(i)}
  <1>10. n + 1 \in K
    <2>1. from[L!NIL] = L!NIL
      BY <1>9
    <2> QED BY <2>1, <1>1, <1>2, <1>3
  <1>11. ASSUME NEW i \in 1..n + 1 - 1, i + 1 \in K PROVE i \in K
    <2>1. i \in 1..n /\ i \in 0..n /\ i \in 1..n + 1
      BY <1>1
    <2>2. s[i] \in At /\ s[i] # L!NIL /\ ring.val[s[i]] = pushed[i] /\ ring.next[s[i]] = s[i + 1]
      BY <1>1, <1>2, <2>1
    <2>3. from[s[i]] = IF pushed[i] = v THEN s[i] ELSE from[s[i + 1]]
      BY <2>2, <1>9
    <2>4. from[s[i + 1]] = hit(i + 1)
      BY <1>11
    <2>5. from[s[i]] = hit(i)
      BY <2>1, <2>3, <2>4, <1>3
    <2> QED BY <2>1, <2>5
  <1>12. \A i \in 1..n + 1 : i \in K
    <2> HIDE DEF K
    <2> QED BY <1>1, <1>10, <1>11, Downward
  <1>13. from[s[1]] = hit(1) /\ ring.next[L!NIL] = s[1]
    <2>1. 1 \in 1..n + 1 /\ 0 \in 0..n /\ 0 + 1 = 1
      BY <1>1
    <2> QED BY <2>1, <1>2, <1>12
  <1> QED BY <1>8, <1>13 DEF hit

\* A link or a value written keeps the type.
LEMMA LinkWritten ==
    ASSUME NEW r, LinksType(r), NEW x \in L!ListNode \cup {L!NIL}
    PROVE  /\ \A y \in L!ListNode \cup {L!NIL} :
                LinksType([r EXCEPT !.next[x] = y]) /\ LinksType([r EXCEPT !.pre[x] = y])
           /\ \A v \in ListVal \cup {L!NIL} : LinksType([r EXCEPT !.val[x] = v])
  BY DEF LinksType

\* What push writes, and what that is link by link.
Pushed(r, x, v, first) ==
    [r EXCEPT !.val[x] = v, !.next[x] = first, !.pre[x] = L!NIL,
              !.pre[first] = x, !.next[L!NIL] = x]

LEMMA PushWrites ==
    ASSUME NEW r, LinksType(r), NEW x \in L!ListNode, NEW v \in ListVal,
           NEW first \in L!ListNode \cup {L!NIL}, first # x
    PROVE  LET u == Pushed(r, x, v, first)
           IN  /\ LinksType(u)
               /\ \A y \in L!ListNode \cup {L!NIL} :
                    /\ u.val[y] = IF y = x THEN v ELSE r.val[y]
                    /\ u.next[y] = IF y = L!NIL THEN x ELSE IF y = x THEN first ELSE r.next[y]
                    /\ u.pre[y] = IF y = first THEN x ELSE IF y = x THEN L!NIL ELSE r.pre[y]
  <1> DEFINE At == L!ListNode \cup {L!NIL}
             u == Pushed(r, x, v, first)
  <1>1. /\ r \in [val : [At -> ListVal \cup {L!NIL}], pre : [At -> At], next : [At -> At]]
        /\ x \in At /\ first \in At /\ L!NIL \in At /\ x # L!NIL
    BY NilIsNoNode DEF LinksType
  <1> HIDE DEF At
  <1>2. /\ u.val = [r.val EXCEPT ![x] = v]
        /\ u.next = [[r.next EXCEPT ![x] = first] EXCEPT ![L!NIL] = x]
        /\ u.pre = [[r.pre EXCEPT ![x] = L!NIL] EXCEPT ![first] = x]
    <2>1. u.val = [r.val EXCEPT ![x] = v]
      BY <1>1 DEF Pushed
    <2>2. u.next = [[r.next EXCEPT ![x] = first] EXCEPT ![L!NIL] = x]
      BY <1>1 DEF Pushed
    <2>3. u.pre = [[r.pre EXCEPT ![x] = L!NIL] EXCEPT ![first] = x]
      BY <1>1 DEF Pushed
    <2> QED BY <2>1, <2>2, <2>3
  <1> HIDE DEF u
  <1>3. /\ r.val \in [At -> ListVal \cup {L!NIL}] /\ r.pre \in [At -> At] /\ r.next \in [At -> At]
    BY <1>1
  <1>4. LinksType(u)
    <2> DEFINE r1 == [r EXCEPT !.val[x] = v]
               r2 == [r1 EXCEPT !.next[x] = first]
               r3 == [r2 EXCEPT !.pre[x] = L!NIL]
               r4 == [r3 EXCEPT !.pre[first] = x]
               r5 == [r4 EXCEPT !.next[L!NIL] = x]
    <2>1. u = r5
      BY DEF u, Pushed
    <2>2. LinksType(r1)
      BY <1>1, LinkWritten DEF At
    <2> HIDE DEF r1
    <2>3. LinksType(r2)
      BY <2>2, <1>1, LinkWritten DEF At
    <2> HIDE DEF r2
    <2>4. LinksType(r3)
      BY <2>3, <1>1, LinkWritten DEF At
    <2> HIDE DEF r3
    <2>5. LinksType(r4)
      BY <2>4, <1>1, LinkWritten DEF At
    <2> HIDE DEF r4
    <2>6. LinksType(r5)
      BY <2>5, <1>1, LinkWritten DEF At
    <2> HIDE DEF r5
    <2> QED BY <2>1, <2>6
  <1>5. ASSUME NEW y \in At
        PROVE  /\ u.val[y] = IF y = x THEN v ELSE r.val[y]
               /\ u.next[y] = IF y = L!NIL THEN x ELSE IF y = x THEN first ELSE r.next[y]
               /\ u.pre[y] = IF y = first THEN x ELSE IF y = x THEN L!NIL ELSE r.pre[y]
    BY <1>1, <1>2, <1>3
  <1> QED BY <1>4, <1>5 DEF u, At

\* A node more: before the others.
LEMMA PushKeepsList ==
    ASSUME ListInv, NEW v \in ListVal, L!push(v) PROVE ListInv'
  <1> DEFINE At == L!ListNode \cup {L!NIL}
             n == Len(pushed)
             first == ring.next[L!NIL]
  <1>1. PICK s : Circle(ring, live, pushed, s)
    BY DEF ListInv
  <1>2. PICK x \in L!ListNode \ live :
          /\ live' = live \cup {x}
          /\ ring' = Pushed(ring, x, v, first)
    BY DEF L!push, Pushed
  <1>3. pushed' = <<v>> \o pushed
    BY DEF L!push
  <1>4. /\ LinksType(ring) /\ live \subseteq L!ListNode /\ pushed \in Seq(ListVal) /\ n \in Nat
        /\ \A y \in L!ListNode \ live : ring.next[y] = L!NIL
        /\ L!NIL \notin L!ListNode /\ x # L!NIL /\ L!NIL \notin live
    BY NilIsNoNode DEF ListInv
  <1>5. /\ s \in [0..n + 1 -> At] /\ s[0] = L!NIL /\ s[n + 1] = L!NIL
        /\ \A i \in 1..n : s[i] \in live /\ ring.val[s[i]] = pushed[i]
        /\ \A i, j \in 1..n : s[i] = s[j] => i = j
        /\ \A y \in live : \E i \in 1..n : s[i] = y
        /\ \A i \in 0..n : ring.next[s[i]] = s[i + 1] /\ ring.pre[s[i + 1]] = s[i]
    BY <1>1 DEF Circle
  <1>6. first = s[1] /\ first \in At /\ first # x
    <2>1. 0 \in 0..n /\ 0 + 1 = 1 /\ 1 \in 0..n + 1
      BY <1>4
    <2>2. first = s[1] /\ s[1] \in At
      BY <2>1, <1>5
    <2>3. s[1] = L!NIL \/ s[1] \in live
      <3>1. 1 = n + 1 \/ 1 \in 1..n
        BY <1>4
      <3> QED BY <3>1, <1>5
    <2> QED BY <2>2, <2>3, <1>4
  <1> HIDE DEF first
  <1>7. /\ LinksType(ring')
        /\ \A y \in At :
             /\ ring'.val[y] = IF y = x THEN v ELSE ring.val[y]
             /\ ring'.next[y] = IF y = L!NIL THEN x ELSE IF y = x THEN first ELSE ring.next[y]
             /\ ring'.pre[y] = IF y = first THEN x ELSE IF y = x THEN L!NIL ELSE ring.pre[y]
    BY <1>2, <1>4, <1>6, PushWrites
  <1>8. /\ pushed' \in Seq(ListVal) /\ Len(pushed') = n + 1
        /\ pushed'[1] = v /\ \A i \in 1..n : pushed'[i + 1] = pushed[i]
    BY <1>3, <1>4
  <1> DEFINE t == [i \in 0..n + 2 |-> IF i = 0 THEN L!NIL ELSE IF i = 1 THEN x ELSE s[i - 1]]
  <1>9. /\ t[0] = L!NIL /\ t[1] = x /\ t[(n + 1) + 1] = L!NIL
        /\ \A i \in 1..n + 1 : t[i + 1] = s[i]
    <2>1. 0 \in 0..n + 2 /\ 1 \in 0..n + 2
      BY <1>4
    <2>2. ASSUME NEW i \in 1..n + 1 PROVE t[i + 1] = s[i]
      <3>1. i + 1 \in 0..n + 2 /\ i + 1 # 0 /\ i + 1 # 1 /\ (i + 1) - 1 = i
        BY <1>4
      <3> QED BY <3>1
    <2>3. n + 1 \in 1..n + 1
      BY <1>4
    <2>4. t[0] = L!NIL /\ t[1] = x
      BY <2>1
    <2> HIDE DEF t
    <2> QED BY <2>2, <2>3, <2>4, <1>5
  <1>10. t \in [0..(n + 1) + 1 -> At]
    <2>1. ASSUME NEW i \in 0..n + 2 PROVE t[i] \in At
      <3>1. i = 0 \/ i = 1 \/ (i - 1 \in 0..n + 1 /\ i # 0 /\ i # 1)
        BY <1>4
      <3> QED BY <3>1, <1>5
    <2>2. t = [i \in 0..n + 2 |-> t[i]] /\ (n + 1) + 1 = n + 2
      BY <1>4
    <2> HIDE DEF t
    <2> QED BY <2>1, <2>2
  <1> HIDE DEF t
  <1>11. \A i \in 1..n : s[i] \in At /\ s[i] # x /\ s[i] # L!NIL
    BY <1>4, <1>5
  \* Of the places of t, the first and the others.
  <1>12. ASSUME NEW i \in 1..n + 1 PROVE i = 1 \/ (i # 1 /\ i - 1 \in 1..n /\ t[i] = s[i - 1])
    <2>1. i = 1 \/ (i # 1 /\ i - 1 \in 1..n /\ i - 1 \in 1..n + 1 /\ (i - 1) + 1 = i)
      BY <1>4
    <2> QED BY <2>1, <1>9
  <1>13. ASSUME NEW i \in 1..n + 1
         PROVE  t[i] \in live' /\ ring'.val[t[i]] = pushed'[i]
    <2>1. CASE i = 1
      BY <2>1, <1>2, <1>7, <1>8, <1>9
    <2>2. CASE i # 1
      <3>1. i - 1 \in 1..n /\ t[i] = s[i - 1] /\ (i - 1) + 1 = i
        BY <2>2, <1>12
      <3>2. pushed'[i] = pushed[i - 1]
        BY <3>1, <1>8
      <3> QED BY <3>1, <3>2, <1>2, <1>5, <1>7, <1>11
    <2> QED BY <2>1, <2>2
  <1>14. ASSUME NEW i \in 1..n + 1, NEW j \in 1..n + 1, t[i] = t[j] PROVE i = j
    <2>1. CASE i = 1 \/ j = 1
      BY <2>1, <1>9, <1>11, <1>12, <1>14
    <2>2. CASE i # 1 /\ j # 1
      <3>1. i - 1 = j - 1
        <4> DEFINE a == i - 1
                   b == j - 1
        <4>1. a \in 1..n /\ b \in 1..n /\ t[i] = s[a] /\ t[j] = s[b]
          BY <2>2, <1>12
        <4> HIDE DEF a, b
        <4>2. \A c, d \in 1..n : s[c] = s[d] => c = d
          BY <1>5
        <4>3. s[a] = s[b]
          BY <4>1, <1>14
        <4>4. a = b
          BY <4>1, <4>2, <4>3
        <4> QED BY <4>4 DEF a, b
      <3> QED BY <3>1
    <2> QED BY <2>1, <2>2
  <1>15. ASSUME NEW y \in live' PROVE \E i \in 1..n + 1 : t[i] = y
    <2>1. CASE y = x
      <3>1. 1 \in 1..n + 1
        BY <1>4
      <3> QED BY <3>1, <2>1, <1>9
    <2>2. CASE y \in live
      <3>1. PICK i \in 1..n : s[i] = y
        BY <2>2, <1>5
      <3>2. i + 1 \in 1..n + 1 /\ i \in 1..n + 1
        BY <1>4
      <3> QED BY <3>1, <3>2, <1>9
    <2> QED BY <2>1, <2>2, <1>2
  <1>16. ASSUME NEW i \in 0..n + 1
         PROVE  ring'.next[t[i]] = t[i + 1] /\ ring'.pre[t[i + 1]] = t[i]
    <2>1. CASE i = 0
      <3>1. t[i] = L!NIL /\ t[i + 1] = x
        BY <2>1, <1>9
      <3> QED BY <3>1, <1>2, <1>4, <1>6, <1>7
    <2>2. CASE i = 1
      <3>1. t[i] = x /\ t[i + 1] = first
        <4>1. 1 \in 1..n + 1
          BY <1>4
        <4> QED BY <4>1, <2>2, <1>6, <1>9
      <3> QED BY <3>1, <1>2, <1>4, <1>6, <1>7
    <2>3. CASE i # 0 /\ i # 1
      <3>1. i \in 1..n + 1 /\ i - 1 \in 1..n /\ i - 1 \in 0..n /\ (i - 1) + 1 = i
        BY <2>3, <1>4
      <3>2. t[i] = s[i - 1] /\ t[i + 1] = s[i]
        BY <2>3, <3>1, <1>9, <1>12
      <3>3. ring.next[s[i - 1]] = s[i] /\ ring.pre[s[i]] = s[i - 1]
        BY <3>1, <1>5
      <3>4. s[i] # x /\ s[i] # first /\ s[i] \in At
        <4>1. CASE i \in 1..n
          <5>1. 1 \in 1..n
            BY <4>1, <1>4
          <5> QED BY <4>1, <5>1, <2>3, <1>5, <1>6, <1>11
        <4>2. CASE i = n + 1
          <5>1. 1 \in 1..n
            BY <4>2, <2>3, <1>4
          <5> QED BY <4>2, <5>1, <1>4, <1>5, <1>6, <1>11
        <4> QED BY <3>1, <1>4, <4>1, <4>2
      <3> QED BY <3>1, <3>2, <3>3, <3>4, <1>7, <1>11
    <2> QED BY <2>1, <2>2, <2>3
  <1>17. Circle(ring', live', pushed', t)
    <2> HIDE DEF n
    <2> QED BY <1>8, <1>9, <1>10, <1>13, <1>14, <1>15, <1>16 DEF Circle
  <1>18. live' \subseteq L!ListNode /\ \A y \in L!ListNode \ live' : ring'.next[y] = L!NIL
    BY <1>2, <1>4, <1>7
  <1> QED BY <1>7, <1>8, <1>17, <1>18 DEF ListInv

\* What del writes where it finds x, link by link.
Removed(r, x) ==
    L!Freed([r EXCEPT !.next[r.pre[x]] = r.next[x], !.pre[r.next[x]] = r.pre[x]], x)

LEMMA DelWrites ==
    ASSUME NEW r, LinksType(r), NEW x \in L!ListNode
    PROVE  LET u == Removed(r, x)
           IN  /\ LinksType(u)
               /\ \A y \in L!ListNode \cup {L!NIL} :
                    /\ u.val[y] = IF y = x THEN L!NIL ELSE r.val[y]
                    /\ u.next[y] = IF y = x THEN L!NIL
                                   ELSE IF y = r.pre[x] THEN r.next[x] ELSE r.next[y]
                    /\ u.pre[y] = IF y = x THEN L!NIL
                                  ELSE IF y = r.next[x] THEN r.pre[x] ELSE r.pre[y]
  <1> DEFINE At == L!ListNode \cup {L!NIL}
             u == Removed(r, x)
             a == r.pre[x]
             b == r.next[x]
  <1>1. /\ r \in [val : [At -> ListVal \cup {L!NIL}], pre : [At -> At], next : [At -> At]]
        /\ x \in At /\ L!NIL \in At
    BY DEF LinksType
  <1> HIDE DEF At
  <1>2. a \in At /\ b \in At
    BY <1>1
  <1> HIDE DEF a, b
  <1> DEFINE w == [r EXCEPT !.next[a] = b, !.pre[b] = a]
  <1>3. u = [w EXCEPT !.val[x] = L!NIL, !.pre[x] = L!NIL, !.next[x] = L!NIL]
    BY DEF Removed, L!Freed, a, b
  <1>4. LinksType(u)
    <2> DEFINE r1 == [r EXCEPT !.next[a] = b]
               r2 == [r1 EXCEPT !.pre[b] = a]
               r3 == [r2 EXCEPT !.val[x] = L!NIL]
               r4 == [r3 EXCEPT !.pre[x] = L!NIL]
               r5 == [r4 EXCEPT !.next[x] = L!NIL]
    <2>1. u = r5
      BY <1>3
    <2>2. LinksType(r1)
      BY <1>2, LinkWritten DEF At
    <2> HIDE DEF r1
    <2>3. LinksType(r2)
      BY <2>2, <1>2, LinkWritten DEF At
    <2> HIDE DEF r2
    <2>4. LinksType(r3)
      BY <2>3, <1>1, LinkWritten DEF At
    <2> HIDE DEF r3
    <2>5. LinksType(r4)
      BY <2>4, <1>1, LinkWritten DEF At
    <2> HIDE DEF r4
    <2>6. LinksType(r5)
      BY <2>5, <1>1, LinkWritten DEF At
    <2> HIDE DEF r5
    <2> QED BY <2>1, <2>6
  <1>5. w.val = r.val /\ w.next = [r.next EXCEPT ![a] = b] /\ w.pre = [r.pre EXCEPT ![b] = a]
        /\ w.next \in [At -> At] /\ w.pre \in [At -> At]
        /\ DOMAIN w = {"val", "pre", "next"}
    BY <1>1, <1>2
  <1> HIDE DEF w, u
  <1>6. /\ u.val = [w.val EXCEPT ![x] = L!NIL]
        /\ u.next = [w.next EXCEPT ![x] = L!NIL]
        /\ u.pre = [w.pre EXCEPT ![x] = L!NIL]
    BY <1>3, <1>5
  <1>7. ASSUME NEW y \in At
        PROVE  /\ u.val[y] = IF y = x THEN L!NIL ELSE r.val[y]
               /\ u.next[y] = IF y = x THEN L!NIL ELSE IF y = a THEN b ELSE r.next[y]
               /\ u.pre[y] = IF y = x THEN L!NIL ELSE IF y = b THEN a ELSE r.pre[y]
    BY <1>1, <1>5, <1>6
  <1> QED BY <1>4, <1>7 DEF u, a, b, At

\* RemoveFirst by the first of the hits.
LEMMA RemoveFirstIs ==
    ASSUME NEW p \in Seq(ListVal), NEW v
    PROVE  L!RemoveFirst(p, v) = IF Hits(p, v, 1) = {} THEN p ELSE RemoveAt(p, Min(Hits(p, v, 1)))
  <1>1. (\E i \in 1..Len(p) : p[i] = v) <=> Hits(p, v, 1) # {}
    BY DEF Hits
  <1>2. L!SelectInSeq(p, LAMBDA w : w = v) = IF Hits(p, v, 1) # {} THEN Min(Hits(p, v, 1)) ELSE 0
    BY DEF L!SelectInSeq, Hits, L!Min, Min
  <1> QED BY <1>1, <1>2 DEF L!RemoveFirst, L!RemoveAt, RemoveAt

\* A node less: the first with the value, if there is one.
LEMMA DelKeepsList ==
    ASSUME ListInv, NEW v \in ListVal, L!del(v) PROVE ListInv'
  <1> DEFINE At == L!ListNode \cup {L!NIL}
             n == Len(pushed)
             k == Min(Hits(pushed, v, 1))
  <1>1. PICK s : Circle(ring, live, pushed, s)
    BY DEF ListInv
  <1>2. /\ LinksType(ring) /\ live \subseteq L!ListNode /\ pushed \in Seq(ListVal) /\ n \in Nat
        /\ \A y \in L!ListNode \ live : ring.next[y] = L!NIL
        /\ L!NIL \notin L!ListNode
    BY NilIsNoNode DEF ListInv
  <1>3. /\ s \in [0..n + 1 -> At] /\ s[0] = L!NIL /\ s[n + 1] = L!NIL
        /\ \A i \in 1..n : s[i] \in live /\ ring.val[s[i]] = pushed[i]
        /\ \A i, j \in 1..n : s[i] = s[j] => i = j
        /\ \A y \in live : \E i \in 1..n : s[i] = y
        /\ \A i \in 0..n : ring.next[s[i]] = s[i + 1] /\ ring.pre[s[i + 1]] = s[i]
    BY <1>1 DEF Circle
  <1>4. L!search(v) = FirstHit(pushed, s, v, 1)
    BY <1>1, SearchIsFirstHit
  <1>5. pushed' = IF Hits(pushed, v, 1) = {} THEN pushed ELSE RemoveAt(pushed, k)
    BY <1>2, RemoveFirstIs DEF L!del
  <1>6. CASE Hits(pushed, v, 1) = {}
    <2>1. pushed' = pushed /\ L!search(v) = L!NIL
      BY <1>4, <1>5, <1>6 DEF FirstHit
    <2>2. ring' = ring /\ live' = live
      BY <2>1 DEF L!del
    <2> QED BY <2>1, <2>2, <1>1, <1>2 DEF ListInv
  <1>7. CASE Hits(pushed, v, 1) # {}
    <2> DEFINE x == s[k]
    <2>1. k \in 1..n
      <3>1. Hits(pushed, v, 1) \in SUBSET Nat /\ Hits(pushed, v, 1) \subseteq 1..n
        BY <1>2 DEF Hits
      <3>2. k \in Hits(pushed, v, 1)
        BY <3>1, <1>7, MinIs
      <3> QED BY <3>1, <3>2
    <2> HIDE DEF k
    <2>2. x \in live /\ x \in L!ListNode /\ x # L!NIL /\ L!search(v) = x
      BY <2>1, <1>2, <1>3, <1>4, <1>7 DEF FirstHit, k
    <2>3. ring' = Removed(ring, x) /\ live' = live \ {x}
      <3> HIDE DEF x
      <3> QED BY <2>2 DEF L!del, L!Unlink, Removed
    <2>4. k - 1 \in 0..n /\ k \in 0..n /\ (k - 1) + 1 = k /\ k + 1 \in 1..n + 1 /\ k \in Nat
      BY <2>1, <1>2
    <2>5. ring.pre[x] = s[k - 1] /\ ring.next[x] = s[k + 1]
      BY <2>4, <1>3
    <2>6. /\ LinksType(ring')
          /\ \A y \in At :
               /\ ring'.val[y] = IF y = x THEN L!NIL ELSE ring.val[y]
               /\ ring'.next[y] = IF y = x THEN L!NIL
                                  ELSE IF y = s[k - 1] THEN s[k + 1] ELSE ring.next[y]
               /\ ring'.pre[y] = IF y = x THEN L!NIL
                                 ELSE IF y = s[k + 1] THEN s[k - 1] ELSE ring.pre[y]
      BY <2>2, <2>3, <2>5, <1>2, DelWrites
    <2>7. pushed' = [j \in 1..n - 1 |-> IF j < k THEN pushed[j] ELSE pushed[j + 1]]
      BY <2>1, <1>2, <1>5, <1>7, RemoveAtEntries
    <2>8. pushed' \in Seq(ListVal) /\ Len(pushed') = n - 1
      <3>1. n - 1 \in Nat
        BY <2>1, <1>2
      <3>2. \A j \in 1..n - 1 : (IF j < k THEN pushed[j] ELSE pushed[j + 1]) \in ListVal
        BY <2>1, <1>2
      <3> QED BY <3>1, <3>2, <2>7
    <2> DEFINE t == [j \in 0..n |-> IF j < k THEN s[j] ELSE s[j + 1]]
    <2>9. \A j \in 0..n : t[j] = IF j < k THEN s[j] ELSE s[j + 1]
      OBVIOUS
    <2>10. t \in [0..n -> At]
      <3>1. ASSUME NEW j \in 0..n PROVE t[j] \in At
        <4>1. j \in 0..n + 1 /\ j + 1 \in 0..n + 1
          BY <1>2
        <4> QED BY <4>1, <2>9, <1>3
      <3>2. t = [j \in 0..n |-> t[j]]
        OBVIOUS
      <3> HIDE DEF t
      <3> QED BY <3>1, <3>2
    <2> HIDE DEF t
    <2>11. t[0] = L!NIL /\ t[n] = L!NIL
      <3>1. 0 \in 0..n /\ 0 < k /\ n \in 0..n /\ ~ (n < k)
        <4>1. 0 \in 0..n /\ 0 < k /\ n \in 0..n
          BY <2>1, <1>2
        <4>2. k = n => s[n + 1] = L!NIL
          BY <1>3
        <4> QED BY <4>1, <2>1, <1>2
      <3> QED BY <3>1, <2>9, <1>3
    \* No node is met twice, nil only at the ends.
    <2>12. /\ \A i \in 1..n : s[i] \in At /\ s[i] # L!NIL
           /\ \A i, j \in 0..n : s[i] = s[j] => i = j
           /\ \A i, j \in 1..n + 1 : s[i] = s[j] => i = j
      <3>1. \A i \in 1..n : s[i] \in At /\ s[i] # L!NIL
        BY <1>2, <1>3
      <3>2. \A i \in 0..n : i = 0 \/ i \in 1..n
        BY <1>2
      <3>3. \A i \in 1..n + 1 : i = n + 1 \/ i \in 1..n
        BY <1>2
      <3>4. \A i, j \in 0..n : s[i] = s[j] => i = j
        BY <1>3, <3>1, <3>2
      <3>5. \A i, j \in 1..n + 1 : s[i] = s[j] => i = j
        BY <1>3, <3>1, <3>3
      <3> QED BY <3>1, <3>4, <3>5
    \* Each place of t is a place of s.
    <2> DEFINE Old(i) == IF i < k THEN i ELSE i + 1
    <2>13. ASSUME NEW i \in 1..n - 1
           PROVE  Old(i) \in 1..n /\ Old(i) # k /\ t[i] = s[Old(i)] /\ pushed'[i] = pushed[Old(i)]
      <3>1. i \in 0..n /\ Old(i) \in 1..n /\ Old(i) # k
        BY <1>2, <2>1
      <3> QED BY <3>1, <2>7, <2>9
    <2> HIDE DEF Old
    <2>14. ASSUME NEW i \in 1..n - 1 PROVE t[i] \in live' /\ ring'.val[t[i]] = pushed'[i]
      <3>1. Old(i) \in 1..n /\ Old(i) # k /\ k \in 1..n
        BY <2>1, <2>13
      <3>2. s[Old(i)] # x /\ s[Old(i)] \in live /\ s[Old(i)] \in At
        BY <3>1, <1>3, <2>12
      <3> HIDE DEF x
      <3>3. ring'.val[s[Old(i)]] = ring.val[s[Old(i)]]
        BY <3>2, <2>6
      <3> QED BY <3>1, <3>2, <3>3, <1>3, <2>3, <2>13
    <2>15. ASSUME NEW i \in 1..n - 1, NEW j \in 1..n - 1, t[i] = t[j] PROVE i = j
      <3>1. Old(i) = Old(j)
        <4>1. Old(i) \in 1..n /\ Old(j) \in 1..n /\ s[Old(i)] = s[Old(j)]
          BY <2>13, <2>15
        <4>2. \A c, d \in 1..n : s[c] = s[d] => c = d
          BY <1>3
        <4> QED BY <4>1, <4>2
      <3> QED BY <3>1, <2>1 DEF Old
    <2>16. ASSUME NEW y \in live' PROVE \E i \in 1..n - 1 : t[i] = y
      <3>1. y \in live /\ y # x
        BY <2>3
      <3>2. PICK j \in 1..n : s[j] = y
        BY <3>1, <1>3
      <3>3. j # k
        BY <3>1, <3>2
      <3> DEFINE i == IF j < k THEN j ELSE j - 1
      <3>4. i \in 1..n - 1 /\ Old(i) = j
        BY <3>3, <2>1, <1>2 DEF Old
      <3> HIDE DEF i
      <3> QED BY <3>2, <3>4, <2>13
    <2>17. ASSUME NEW i \in 0..n - 1
           PROVE  ring'.next[t[i]] = t[i + 1] /\ ring'.pre[t[i + 1]] = t[i]
      <3>1. i \in Nat /\ i \in 0..n /\ i + 1 \in 0..n /\ i + 1 \in 1..n + 1 /\ (i + 1) + 1 = i + 2
        BY <2>1, <1>2
      <3>2. ring.next[s[i]] = s[i + 1] /\ ring.pre[s[i + 1]] = s[i]
        BY <3>1, <1>3
      <3>3. ring.next[s[i + 1]] = s[i + 2] /\ ring.pre[s[i + 2]] = s[i + 1]
        BY <3>1, <1>3
      <3>4. s[i] \in At /\ s[i + 1] \in At /\ s[i + 2] \in At
        <4>1. i \in 0..n + 1 /\ i + 1 \in 0..n + 1 /\ i + 2 \in 0..n + 1
          BY <3>1, <1>2
        <4> QED BY <4>1, <1>3
      <3>5. CASE i + 1 < k
        <4>1. t[i] = s[i] /\ t[i + 1] = s[i + 1]
          BY <3>1, <3>5, <2>1, <2>9
        <4>2. i # k /\ i + 1 # k /\ i # k - 1 /\ i + 1 # k + 1
          BY <3>1, <3>5, <2>4
        <4>3. s[i] # s[k] /\ s[i + 1] # s[k] /\ s[i] # s[k - 1] /\ s[i + 1] # s[k + 1]
          BY <3>1, <4>2, <2>4, <2>12
        <4> QED BY <4>1, <4>3, <3>2, <3>4, <2>6
      <3>6. CASE i + 1 = k
        <4>1. t[i] = s[k - 1] /\ t[i + 1] = s[k + 1]
          <5>1. i = k - 1 /\ i < k /\ ~ (i + 1 < k) /\ (i + 1) + 1 = k + 1
            BY <3>1, <3>6, <2>4
          <5> QED BY <5>1, <3>1, <2>9
        <4>2. k - 1 # k /\ k + 1 # k /\ k \in 1..n + 1
          BY <2>4
        <4>3. s[k - 1] # s[k] /\ s[k + 1] # s[k]
          BY <4>2, <2>4, <2>12
        <4>4. s[k - 1] \in At /\ s[k + 1] \in At
          <5>1. k - 1 \in 0..n + 1 /\ k + 1 \in 0..n + 1
            BY <2>4
          <5> QED BY <5>1, <1>3
        <4> QED BY <4>1, <4>3, <4>4, <2>6
      <3>7. CASE k < i + 1
        <4>1. t[i] = s[i + 1] /\ t[i + 1] = s[i + 2]
          BY <3>1, <3>7, <2>4, <2>9
        <4>2. /\ i + 1 # k /\ i + 2 # k /\ i + 1 # k - 1 /\ i + 2 # k + 1
              /\ i + 2 \in 1..n + 1 /\ k \in 1..n + 1
          BY <3>1, <3>7, <2>4, <1>2
        <4>3. s[i + 1] # s[k] /\ s[i + 2] # s[k] /\ s[i + 1] # s[k - 1] /\ s[i + 2] # s[k + 1]
          BY <3>1, <4>2, <2>4, <2>12
        <4> QED BY <4>1, <4>3, <3>3, <3>4, <2>6
      <3> QED BY <3>1, <3>5, <3>6, <3>7, <2>4
    <2>18. Circle(ring', live', pushed', t)
      <3>1. (n - 1) + 1 = n
        BY <1>2
      <3> HIDE DEF n, x
      <3> QED BY <3>1, <2>8, <2>10, <2>11, <2>14, <2>15, <2>16, <2>17 DEF Circle
    <2>19. live' \subseteq L!ListNode /\ \A y \in L!ListNode \ live' : ring'.next[y] = L!NIL
      <3>1. live' \subseteq L!ListNode
        BY <2>3, <1>2
      <3>2. ASSUME NEW y \in L!ListNode \ live' PROVE ring'.next[y] = L!NIL
        <4>1. CASE y = x
          BY <4>1, <2>2, <2>6
        <4>2. CASE y # x
          <5>1. y \notin live /\ y \in At /\ ring.next[y] = L!NIL /\ y # L!NIL
            BY <4>2, <2>3, <1>2
          <5>2. s[k - 1] # y
            <6>1. k - 1 = 0 \/ k - 1 \in 1..n
              BY <2>4
            <6> QED BY <6>1, <5>1, <1>3
          <5> QED BY <4>2, <5>1, <5>2, <2>6
        <4> QED BY <4>1, <4>2
      <3> QED BY <3>1, <3>2
    <2> HIDE DEF x
    <2> QED BY <2>6, <2>8, <2>18, <2>19 DEF ListInv
  <1> QED BY <1>6, <1>7

LEMMA ListInitInv == L!Init => ListInv
  <1> SUFFICES ASSUME L!Init PROVE ListInv
    OBVIOUS
  <1> DEFINE At == L!ListNode \cup {L!NIL}
             s == [i \in 0..1 |-> L!NIL]
  <1>1. /\ live = {} /\ pushed = << >>
        /\ ring = [val |-> [y \in At |-> L!NIL], pre |-> [y \in At |-> L!NIL],
                   next |-> [y \in At |-> L!NIL]]
    BY DEF L!Init, L!Links
  <1>2. /\ LinksType(ring) /\ pushed \in Seq(ListVal) /\ Len(pushed) = 0
        /\ \A y \in At : ring.next[y] = L!NIL /\ ring.pre[y] = L!NIL
    BY <1>1 DEF LinksType
  <1>3. Circle(ring, live, pushed, s)
    <2>1. s \in [0..1 -> At] /\ s[0] = L!NIL /\ s[1] = L!NIL
      OBVIOUS
    <2> HIDE DEF s
    <2>2. \A i \in 1..0 : FALSE
      OBVIOUS
    <2>3. \A i \in 0..0 : i = 0 /\ i + 1 = 1
      OBVIOUS
    <2>4. \A i \in 0..0 : ring.next[s[i]] = s[i + 1] /\ ring.pre[s[i + 1]] = s[i]
      BY <1>2, <2>1, <2>3
    <2>5. 0 + 1 = 1
      OBVIOUS
    <2> QED BY <1>1, <1>2, <2>1, <2>2, <2>4, <2>5 DEF Circle
  <1> HIDE DEF s
  <1> QED BY <1>1, <1>2, <1>3 DEF ListInv

LEMMA ListIsRound == ListInv => ListBothWaysRound
  <1> SUFFICES ASSUME ListInv PROVE ListBothWaysRound
    OBVIOUS
  <1> DEFINE n == Len(pushed)
             f == L!Steps(ring.next, n + 1)
             b == L!Steps(ring.pre, n + 1)
  <1>1. PICK s : Circle(ring, live, pushed, s)
    BY DEF ListInv
  <1>2. n \in Nat /\ n + 1 \in Nat
    BY DEF ListInv
  <1>3. /\ s[0] = L!NIL /\ s[n + 1] = L!NIL
        /\ \A i \in 1..n : s[i] \in live /\ ring.val[s[i]] = pushed[i]
        /\ \A y \in live : \E i \in 1..n : s[i] = y
        /\ \A i \in 0..n : ring.next[s[i]] = s[i + 1] /\ ring.pre[s[i + 1]] = s[i]
    BY <1>1 DEF Circle
  <1>4. \A i \in 1..n + 1 : f[i] = s[i]
    <2>1. ASSUME NEW i \in 1..n + 1 PROVE s[i] = ring.next[s[i - 1]]
      <3>1. i - 1 \in 0..n /\ (i - 1) + 1 = i
        BY <1>2
      <3> QED BY <3>1, <1>3
    <2> HIDE DEF n
    <2> QED BY <2>1, <1>2, <1>3, StepsAre
  <1> DEFINE g == [i \in 0..n + 1 |-> s[n + 1 - i]]
  <1>5. \A i \in 1..n + 1 : b[i] = g[i]
    <2>1. g[0] = L!NIL
      BY <1>2, <1>3
    <2>2. ASSUME NEW i \in 1..n + 1 PROVE g[i] = ring.pre[g[i - 1]]
      <3> DEFINE j == n + 1 - i
      <3>1. j \in 0..n /\ n + 1 - (i - 1) = j + 1 /\ i \in 0..n + 1 /\ i - 1 \in 0..n + 1
        BY <1>2
      <3>2. g[i] = s[j] /\ g[i - 1] = s[j + 1]
        BY <3>1
      <3> HIDE DEF j, g
      <3> QED BY <3>1, <3>2, <1>3
    <2> HIDE DEF g, n
    <2> QED BY <2>1, <2>2, <1>2, StepsAre
  <1>6. f[n + 1] = L!NIL /\ b[n + 1] = L!NIL
    <2>1. n + 1 \in 1..n + 1 /\ n + 1 \in 0..n + 1 /\ n + 1 - (n + 1) = 0
      BY <1>2
    <2>2. g[n + 1] = L!NIL
      BY <2>1, <1>3
    <2> HIDE DEF f, b, g, n
    <2> QED BY <2>1, <2>2, <1>3, <1>4, <1>5
  <1> HIDE DEF f, b
  <1>7. {f[i] : i \in 1..n} = live
    <2>1. \A i \in 1..n : f[i] = s[i]
      BY <1>2, <1>4
    <2> HIDE DEF n
    <2> QED BY <2>1, <1>3
  <1>8. ASSUME NEW i \in 1..n PROVE ring.val[f[i]] = pushed[i] /\ b[i] = f[n + 1 - i]
    <2>1. i \in 1..n + 1 /\ n + 1 - i \in 1..n + 1 /\ i \in 0..n + 1
      BY <1>2
    <2>2. g[i] = s[n + 1 - i]
      BY <2>1
    <2> HIDE DEF g, n
    <2> QED BY <2>1, <2>2, <1>3, <1>4, <1>5
  <1> QED BY <1>6, <1>7, <1>8 DEF ListBothWaysRound, L!BothWaysRound, f, b

\* The list is what was pushed and not deleted, last pushed first, and meets the
\* nodes in use, each once and no freed one, whichever way it is gone round.
THEOREM ListMeetsItsNodes == L!Spec => []ListBothWaysRound
  <1>1. L!Init => ListInv
    BY ListInitInv
  <1>2. ListInv /\ [L!Next]_listVars => ListInv'
    <2> SUFFICES ASSUME ListInv, [L!Next]_listVars PROVE ListInv'
      OBVIOUS
    <2>1. ASSUME NEW v \in ListVal, L!push(v) PROVE ListInv'
      BY <2>1, PushKeepsList
    <2>2. ASSUME NEW v \in ListVal, L!del(v) PROVE ListInv'
      BY <2>2, DelKeepsList
    <2>3. CASE UNCHANGED listVars
      BY <2>3 DEF listVars, ListInv
    <2> QED BY <2>1, <2>2, <2>3 DEF L!Next
  <1>3. ListInv => ListBothWaysRound
    BY ListIsRound
  <1> QED BY <1>1, <1>2, <1>3, PTL DEF L!Spec, L!listVars, listVars
=============================================================================
