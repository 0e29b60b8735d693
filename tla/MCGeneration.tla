---------------------------- MODULE MCGeneration ----------------------------
(* Instances of Generation for TLC. *)
EXTENDS Generation, TLC

CONSTANTS r1, r2, r3

MCTypes == {"text", "image", "video"}
MCCap == [t \in MCTypes |-> IF t = "video" THEN 0 ELSE 1]
MCChain == <<"gemini", "stub">>

\* An image, which opens the day's row, or what is not counted, and two texts
\* that compete for a cap of one.
MCAsks == [r \in Requests |-> IF r = r1 THEN {"image", "video", "upload"} ELSE {"text"}]

Symmetry == Permutations({r2, r3})
=============================================================================
