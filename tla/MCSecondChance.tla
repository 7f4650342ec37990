---------------------------- MODULE MCSecondChance ----------------------------
(* Instances of SecondChance for TLC.  In row 1 the order of the proxies is *)
(* p1, p2, p3, p4.  New hash fields put the flow in row 2: its first two    *)
(* are p3, p4 (MCHash, disjoint from row 1) or p3, p1 (MCHashShared, whose  *)
(* secondary is the primary of row 1).                                      *)
EXTENDS SecondChance, TLC

CONSTANTS p1, p2, p3, p4

Row1 == p1 :> 10 @@ p2 :> 20 @@ p3 :> 30 @@ p4 :> 40
Hashes(row2) == [r \in 1..2 |-> [p \in Proxies |-> IF r = 1 THEN Row1[p] ELSE row2[p]]]
MCHash == Hashes(p3 :> 11 @@ p4 :> 21 @@ p1 :> 31 @@ p2 :> 41)
MCHashShared == Hashes(p3 :> 11 @@ p1 :> 21 @@ p2 :> 31 @@ p4 :> 41)

MCRowOf == [f \in Flows |-> [old |-> 1, new |-> 2]]
Symmetry == Permutations(Directors)
=============================================================================
