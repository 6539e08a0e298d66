------------------------------- MODULE MCAudit -------------------------------
(* Events are interchangeable. *)
EXTENDS AuditChain, TLC

Symmetry == Permutations(Events)
=============================================================================
