------------------------------ MODULE MCDeploy ------------------------------
(***************************************************************************)
(* Deploy for TLC: two releases, of which the second drops a job and adds  *)
(* two that sort around the others.                                        *)
(***************************************************************************)
EXTENDS Deploy, TLC

MCJobs == <<{20, 30, 40}, {10, 30, 35, 40}>>

MCWorlds == [version : 0..Latest, events : {{"crash"}, {"failure", "crash"}}]

BoxSymmetry == Permutations(Container)
=============================================================================
