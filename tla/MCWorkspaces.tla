------------------------------ MODULE MCWorkspaces -----------------------------
(* Two accounts, their default tenants and a self-service one. *)
EXTENDS InstanceControl, TLC

Symmetry == Permutations(Requests)
===============================================================================
