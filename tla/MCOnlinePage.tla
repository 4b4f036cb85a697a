---------------------------- MODULE MCOnlinePage ----------------------------
(***************************************************************************)
(* OnlinePage for TLC: token pairs, accounts, profile ids and skills are   *)
(* interchangeable.                                                        *)
(***************************************************************************)
EXTENDS OnlinePage, TLC

IdSymmetry == Permutations(Token) \cup Permutations(User)
              \cup Permutations(Profile) \cup Permutations(Skill)
=============================================================================
