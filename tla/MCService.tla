------------------------------ MODULE MCService ------------------------------
(***************************************************************************)
(* TLC instance of Service: two keys, each on a server of its own, and     *)
(* positions that wrap after two connections.                              *)
(***************************************************************************)
EXTENDS Service, TLC

CONSTANTS x, y

MCAsks == {<<"set", x>>, <<"get", x>>, <<"get", y>>}

MCHash == (x :> 4) @@ (y :> 6)

Symmetry == Permutations(Client)

\* Bound on the requests of all clients together; the key without sets is only
\* asked for in a first request, for an answer from the other server to come
\* late; and nothing is looked at beyond the step that mixes positions up, as
\* no property promises answers there.
CONSTANT MaxAll

Bounds ==
    /\ \A c \in Client : \A d \in Client \ {c} : cli[c].n + cli[d].n <= MaxAll
    /\ \A c \in Client : cli[c].n > 1 => cli[c].req.key = x
    /\ ~ mixed
=============================================================================
