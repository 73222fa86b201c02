------------------------------ MODULE RingQueue ------------------------------
(***************************************************************************)
(* ring_queue.h: the indices go round max_size_ = Size + 1 places, of which*)
(* data_ has Size.  What lies behind data_ is padding or, by the type of   *)
(* the elements, the numbers declared after it: an element written there   *)
(* overwrites them, and where they change it changes with them.  How the   *)
(* program goes on from such a change (spoilt) is not followed.            *)
(***************************************************************************)
EXTENDS Integers, Sequences

CONSTANTS Size, RingVal, MaxPush    \* bound: pushes

max_size_ == Size + 1

VARIABLES
    data_,      \* places 0..Size, the last one behind the array
    front_, rear_, size_,
    covered,    \* the numbers that share bytes with place Size
    waiting,    \* history: what a queue of Size places would hold
    pushes,     \* history: calls of push that wrote
    spoilt      \* history: a number or a waiting element was changed by the other

ringVars == <<data_, front_, rear_, size_, covered, waiting, pushes, spoilt>>

\* No number, or the first of them; the longest elements reach max_size_ and
\* beyond, which no operation changes.
Layouts == {{}, {"front_"}, {"front_", "rear_"}, {"front_", "rear_", "size_"}}

Init ==
    /\ covered \in Layouts
    /\ data_ \in [0..Size -> RingVal]
    /\ front_ = 0 /\ size_ = 0 /\ rear_ = max_size_ - 1
    /\ waiting = << >> /\ pushes = 0 /\ spoilt = FALSE

fullLate == size_ = max_size_

full == size_ = max_size_ - 1

After(i) == (i + 1) % max_size_

\* What a change of numbers makes of the places: any part of a number may lie
\* in the last one, where it is covered.
Beneath(places, numbers) ==
    IF numbers \cap covered = {} THEN {places}
    ELSE {[places EXCEPT ![Size] = v] : v \in RingVal}

\* One of n elements from the first on waits in the last place.
LastWaits(first, n) == \E i \in 0..n - 1 : (first + i) % max_size_ = Size

push(v) ==
    \/ full /\ UNCHANGED ringVars
    \/ /\ ~ full /\ pushes < MaxPush
       /\ rear_' = After(rear_) /\ size_' = size_ + 1
       /\ LET at      == After(rear_)
              written == [data_ EXCEPT ![at] = v]
          IN  /\ data_' \in Beneath(written, IF at = Size THEN {"size_"} ELSE {"rear_", "size_"})
              /\ \E overwrites \in {FALSE, at = Size /\ covered # {}} :
                    spoilt' = \/ overwrites
                              \/ data_'[Size] # written[Size] /\ LastWaits(front_, size_ + 1)
       /\ waiting' = Append(waiting, v) /\ pushes' = pushes + 1
       /\ UNCHANGED <<front_, covered>>

pop ==
    \/ size_ = 0 /\ UNCHANGED ringVars
    \/ /\ size_ > 0
       /\ front_' = After(front_) /\ size_' = size_ - 1
       /\ data_' \in Beneath(data_, {"front_", "size_"})
       /\ spoilt' = (data_'[Size] # data_[Size] /\ LastWaits(front_ + 1, size_ - 1))
       /\ waiting' = Tail(waiting)
       /\ UNCHANGED <<rear_, covered, pushes>>

\* operator[]
At(i) == data_[(front_ + i) % max_size_]

Next == ~ spoilt /\ (pop \/ \E v \in RingVal : push(v))

Spec == Init /\ [][Next]_ringVars

-----------------------------------------------------------------------------
\* Round any number of times, the queue shows what was pushed and not popped, in
\* that order and never more than Size, as long as no element in the place behind
\* the array and no number that lies there was changed by the other: for ever
\* where that place is padding, and up to the first Size pushes for any type of
\* element.  After those one push in max_size_ goes there.
InOrder ==
    /\ ~ spoilt =>
        /\ size_ = Len(waiting) /\ size_ <= Size
        /\ \A i \in DOMAIN waiting : At(i - 1) = waiting[i]
        /\ waiting # << >> => data_[rear_] = waiting[Len(waiting)]
    /\ covered = {} \/ pushes <= Size => ~ spoilt
=============================================================================
