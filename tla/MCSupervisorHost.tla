-------------------------- MODULE MCSupervisorHost --------------------------
(* The host of one role: two targets to switch between and two process
   identifiers, a child and one dying behind it.  After the first plan the
   plan changes twice; or once, while the runtime is restarted, or while the
   program ends or is killed and is launched again. *)
EXTENDS SupervisorHost, TLC

CONSTANTS p1, p2, modelA, modelB
Two  == {p1, p2}
Both == {modelA, modelB}
Installed == {"installed"}

Replanned  == [plans |-> 0, restarts |-> MaxRestarts, launches |-> MaxLaunches]
Restarted  == [plans |-> 1, restarts |-> 0, launches |-> MaxLaunches]
Relaunched == [plans |-> 1, restarts |-> MaxRestarts, launches |-> 0]

MCInit ==
  /\ Init
  /\ plan = modelA /\ desired = None /\ current = None
  /\ owner = [p \in Pid |-> None]
  /\ call = [c \in Caller |-> Nothing]
  /\ stop = FALSE /\ ticker = "run" /\ late = {}
  /\ used \in {Replanned, Restarted, Relaunched}
MCSpec == MCInit /\ [][HostNext]_hvars /\ HostFairness
=============================================================================
