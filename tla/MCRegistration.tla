----------------------------- MODULE MCRegistration -----------------------------
(* Two addresses whose owners want one number. *)
EXTENDS Registration

CONSTANT p1
SameNumber == [e \in Emails |-> p1]
=================================================================================
