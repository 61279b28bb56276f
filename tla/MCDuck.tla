------------------------------- MODULE MCDuck -------------------------------
(***************************************************************************)
(* An instance of Duck for TLC: two exports of two artifacts each, one of  *)
(* which they share, and three requests.                                   *)
(***************************************************************************)
EXTENDS Duck

MCFiles == [e \in {"e1", "e2"} |-> IF e = "e1" THEN <<"facts1", "codes">> ELSE <<"facts2", "codes">>]
=============================================================================
