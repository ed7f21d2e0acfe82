----------------------------- MODULE MCFootage -----------------------------
EXTENDS Footage, TLC

(* DELETE requests differ in nothing but their name.                       *)
DeleterSymmetry == Permutations(Deleters)

(* A week of two days of three instants; the zones are that of the clock   *)
(* and one whose clock goes forward by an instant in the middle of it.     *)
MCOffset == [utc |-> [t \in 0..5 |-> 0], summer |-> [t \in 0..5 |-> IF t < 3 THEN 0 ELSE 1]]

Nights == [days |-> {1}, start |-> 2, end |-> 1]
Mornings == [days |-> {0, 1}, start |-> 0, end |-> 2]
LegacyNights == [start |-> 2, end |-> 1]

MCSites ==
    {[working |-> None, legacy |-> None, zone |-> "utc"],
     [working |-> None, legacy |-> LegacyNights, zone |-> "summer"],
     [working |-> Nights, legacy |-> None, zone |-> "summer"]}

MCUpdates ==
    {[working |-> None], [working |-> Mornings], [working |-> Nights],
     [zone |-> "utc"], [working |-> Mornings, zone |-> "summer"]}

All == [from |-> <<"time", 0>>, to |-> <<"time", 5>>]

MCRequests ==
    {[kind |-> "list", ascending |-> a, limit |-> 2] @@ All : a \in BOOLEAN}
    \cup {[kind |-> "review", ascending |-> FALSE, limit |-> 2] @@ All}
    \cup {[kind |-> "latest"] @@ All}
    \cup {[kind |-> "sample", ascending |-> TRUE, count |-> n] @@ All : n \in {1, 4}}
    \cup {[kind |-> "sample", ascending |-> FALSE, count |-> 3,
           from |-> <<"date", 0>>, to |-> <<"date", 0>>],
          [kind |-> "sample", ascending |-> TRUE, count |-> 2, from |-> None, to |-> None]}
    \cup {[kind |-> "frames", budget |-> b] @@ All : b \in {2, 3}}

MCBatches == {<<4>>, <<4, 1>>}
=============================================================================
