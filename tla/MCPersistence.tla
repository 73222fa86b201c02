---------------------------- MODULE MCPersistence ----------------------------
(***************************************************************************)
(* TLC instance of Persistence: write a is in the first piece of every     *)
(* snapshot, write b in the second.                                        *)
(***************************************************************************)
EXTENDS Persistence, TLC

CONSTANTS a, b

MCSlot == a :> 1 @@ b :> 2

Symmetry == Permutations(Pid)

\* Constraint: every property of the run is about behaviours without a race, so
\* a state in which one began is not followed further; the run
\* persistence_race goes on from there.
NoRace == ~ raced

\* A server that is started once and never stops: what fairness alone brings
\* about.
StaysUp ==
    \/ main = NONE /\ \E p \in Pid : Start(p)
    \/ \E p \in Pid : OnIdle(p) \/ SaveStep(p)
    \/ \E w \in Write : Set(w)
    \/ TimePasses \/ OnTick

StaysUpSpec == Init /\ [][StaysUp]_vars /\ Fairness
=============================================================================
