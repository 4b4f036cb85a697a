---------------------------- MODULE MCOfflinePage ----------------------------
(* Two jobs over four skills, and a fifth skill no job asks for: one job can *)
(* lack three preferred skills, the other three required ones, so that both  *)
(* lists are split over two phases.  One skill has no resource of its own.   *)
EXTENDS OfflinePage

MCJob ==
    {[title |-> "backend",  required |-> <<1>>,       preferred |-> <<2, 3, 4>>],
     [title |-> "frontend", required |-> <<2, 3, 4>>, preferred |-> <<1>>]}

MCResource ==
    <<[name |-> <<"course", 1>>,  skill |-> 1], [name |-> <<"book", 2>>,   skill |-> 2],
      [name |-> <<"course", 3>>, skill |-> 3]>>
=============================================================================
