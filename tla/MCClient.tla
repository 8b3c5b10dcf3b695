------------------------------- MODULE MCClient -------------------------------
(* Instances of the client loop: two servers, of which 0 is the one every  *)
(* client takes for the master at first.                                   *)
EXTENDS Client

MCNode == {0, 1}

(* The master of the configuration file is another than 0. *)
OtherMaster == <<1>>

(* So it is here, where the master moves as well, and moves back, while    *)
(* requests are under way.                                                 *)
MovingMaster == <<1, 0, 1>>
===============================================================================
