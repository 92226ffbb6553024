---------------------------- MODULE MCFairParts ----------------------------
(* Two contents of one size, two images, two embedders, two downloads.     *)
EXTENDS FairParts

\* All contents of one size: only the mtime tells two writes apart.
SameSizes == [c \in Content |-> 1]
\* Renames are told as two halves.
HalvesOnly == {[size |-> SameSizes, paired |-> FALSE]}
=============================================================================
