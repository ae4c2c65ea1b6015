-------------------------- MODULE MCAccountLeases --------------------------
(* Instances of AccountLeases: two instances of the program.        *)
EXTENDS AccountLeases, TLC

CONSTANTS r1, r2, r3, i1, i2, a, b

MCHome == [r \in Requests |-> IF r = r2 THEN i2 ELSE i1]
OneHome == [r \in Requests |-> i1]
MCLimit == [x \in Accounts |-> IF x = a THEN 1 ELSE 2]
Symmetry == {f \in Permutations(Requests) : \A r \in Requests : Home[f[r]] = Home[r]}
=============================================================================
