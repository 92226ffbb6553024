--------------------------- MODULE MCQuitBarrier ---------------------------
(* Two tasks, one that waits for the interactive lane and one behind it     *)
(* that also restores the watchers; one command.  Pause starts off: the     *)
(* command toggles it.                                                      *)
EXTENDS QuitBarrier, TLC

CONSTANTS t1, t2, c1
Lanes == (t1 :> 0) @@ (t2 :> 5)

MCInit == Init /\ ~paused
MCSpec == MCInit /\ [][Next]_vars /\ Fairness
=============================================================================
