---------------------------- MODULE MCResources ----------------------------
(* Resources for TLC: the bodies of PATCH the clients send, and symmetry.   *)
EXTENDS Resources, TLC

CONSTANTS n1, n2, s1, s2, s3

SetName(n) == [name |-> n, add |-> {}, remove |-> {}]
Add(s)     == [name |-> NoName, add |-> {s}, remove |-> {}]
Remove(s)  == [name |-> NoName, add |-> {}, remove |-> {s}]

\* One patch of each column, and one that a full or an empty list refuses.
OnePatches == {SetName(n2), Add(s2), Remove(s1)}

\* The one patch of a run about locks.
AddPatch == {Add(s2)}

NoPatches == {}

ActorSymmetry == Permutations(Workers) \cup Permutations(Users)
TableSymmetry == Permutations(Users) \cup Permutations(Analyses)
=============================================================================
