------------------------------ MODULE MCQuota ------------------------------
(* Instances of Quota for TLC. *)
EXTENDS Quota, TLC

\* Two capped types that share a row, and one without a cap.
MCTypes == {"text", "image", "video"}
MCCap == [t \in MCTypes |-> CASE t = "text" -> 2 [] t = "image" -> 1 [] OTHER -> 0]

Symmetry == Permutations(Requests)
=============================================================================
