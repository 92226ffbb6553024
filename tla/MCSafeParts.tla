---------------------------- MODULE MCSafeParts ----------------------------
(***************************************************************************)
(* An instance of SafeParts for TLC: two process identifiers, a child and  *)
(* another one that was killed and is still dying behind it; one model for *)
(* the scheduler; a root with two paths; two drains of three threads.      *)
(***************************************************************************)
EXTENDS SafeParts, TLC

CONSTANTS p1, p2, d1, d2, t1, t2, t3

Two == {p1, p2}
Symmetry == Permutations(Pid)

\* What another installation left: a name, one closed and one open interval.
MCForeign ==
    {[name |-> 2, updated |-> 1,
      member |-> [t \in 0..MaxTime |-> IF t = 0 THEN 1 ELSE IF t = 1 THEN Still ELSE No]]}

\* All contents of one size: only the mtime tells two writes apart.
SameSizes == [c \in Content |-> 1]
OwnSizes  == [c \in Content |-> IF c = "x" THEN 1 ELSE 2]

\* Renames are told as two halves; or as a pair, of contents of one size or not.
AllWorlds == {[size |-> SameSizes, paired |-> FALSE],
              [size |-> SameSizes, paired |-> TRUE], [size |-> OwnSizes, paired |-> TRUE]}
=============================================================================
