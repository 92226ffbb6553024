--------------------------- MODULE SupervisorHost ---------------------------
(***************************************************************************)
(* One role (ASR or LLM) of the desktop's supervisor host: the plan        *)
(* convergence that replaces one target by another, the thread that ticks  *)
(* the machine and walks it down at shutdown, the restart command, the     *)
(* process's exit or death, and the next launch's sweep of children.json.  *)
(*                                                                         *)
(* A role is one mutex: what a thread does under it is one step.  The      *)
(* `stopping` flag is read before the mutex is taken, so that read is a    *)
(* step of its own.  The other role shares only children.json with this    *)
(* one, and the two write it under a mutex of its own.                     *)
(***************************************************************************)
EXTENDS Supervisor

CONSTANTS
  Target,        \* what a plan may run: a model and its launch arguments
  MaxPlans,      \* bound: changes of the plan
  MaxRestarts,   \* bound: uses of "restart runtime"
  MaxLaunches    \* bound: launches of the program after the first

ASSUME TargetAssumption == None \notin Target
ASSUME HostBounds ==
  MaxPlans \in Nat /\ MaxRestarts \in Nat /\ MaxLaunches \in Nat

VARIABLES
  plan,      \* the target the runtime plan asks for, or None
  desired,   \* SupervisorRole.desired
  current,   \* the target of SupervisorRole.current
  owner,     \* the target each child process runs
  call,      \* call[c]: what caller c does between the flag and the mutex
  stop,      \* SupervisorHost.stop
  ticker,    \* the tick thread: run, close, done; "off" when the program is
  late,      \* history: callers that shutdown gave up on, and that outlive the tick thread
  used       \* plan changes, restarts and launches so far

role  == <<plan, desired, current>>
host  == <<call, stop, ticker, late, used>>
hvars == <<svars, role, owner, host>>

Caller == {"apply", "restart"}
Nothing == "nothing"      \* the caller is not in a call
AnyTarget == Target \union {None}

HostTypeOK ==
  /\ TypeOK
  /\ plan \in AnyTarget /\ desired \in AnyTarget /\ current \in AnyTarget
  /\ owner \in [Pid -> AnyTarget]
  /\ call \in [Caller -> AnyTarget \union {Nothing}]
  /\ stop \in BOOLEAN
  /\ ticker \in {"run", "close", "done", "off"}
  /\ late \subseteq Caller
  /\ used \in [plans : 0 .. MaxPlans, restarts : 0 .. MaxRestarts,
               launches : 0 .. MaxLaunches]

HostInit ==
  /\ Init
  /\ plan \in AnyTarget /\ desired = None /\ current = None
  /\ owner = [p \in Pid |-> None]
  /\ call = [c \in Caller |-> Nothing]
  /\ stop = FALSE /\ ticker = "run" /\ late = {}
  /\ used = [plans |-> 0, restarts |-> 0, launches |-> 0]

\* A child that this step spawned runs the target the step leaves in the slot.
Own ==
  owner' = [p \in Pid |-> IF proc'[p] = "run" /\ proc[p] = "free"
                          THEN current' ELSE owner[p]]

-----------------------------------------------------------------------------
(* converge_role and retire_superseded. *)

\* A machine for target d, spawned at once.
Build(d) ==
  /\ current' = d /\ want' = TRUE /\ gate' = "installed"
  /\ Spawn(proc, Fresh, BackoffBase)
  /\ recent' = [i \in DOMAIN recent |-> 0] /\ owed' = FALSE
  /\ UNCHANGED <<told, stale, inflight>>

\* The slot is empty: its machine is gone.
Vacate ==
  /\ current' = None /\ want' = FALSE /\ gate' = "notConfigured"
  /\ state' = "notConfigured" /\ phase' = "none"
  /\ lapse' = Fresh /\ delay' = BackoffBase /\ timer' = 0 /\ probe' = "none"

\* The same target is still wanted: the gate is installed, and a machine that
\* has stopped is spawned again; any other goes on as it is.
Rearm ==
  /\ gate' = "installed" /\ want' = TRUE
  /\ IF state \in Idle THEN Spawn(proc, lapse, delay) /\ UNCHANGED <<told, stale>>
     ELSE UNCHANGED state /\ Keep
  /\ UNCHANGED <<current, inflight>>
  /\ Past

\* Mutant: the old target is left to itself.
RetireNever ==
  /\ want' = FALSE /\ UNCHANGED state /\ Keep
  /\ UNCHANGED <<current, gate, inflight>>
  /\ Past

\* Another target, or none: a machine with a child starts to stop, or goes on
\* stopping, and keeps the slot.
Retire ==
  /\ want' = FALSE /\ Halt
  /\ UNCHANGED <<current, gate, inflight>>
  /\ Past

\* A machine without a child stops at once and gives up the slot.
Replace(d) ==
  IF d = None
  THEN /\ Vacate /\ child' = None /\ reg' = None
       /\ UNCHANGED <<voice, inflight, proc, past>>
  ELSE Build(d)

Converge(d) ==
  /\ desired' = d
  /\ IF current # None /\ d = current THEN Rearm
     ELSE IF state \in {"starting", "ready", "stopping"} THEN Retire
     ELSE IF current = None /\ d = None
          THEN UNCHANGED <<svars, current>>
          ELSE Replace(d)
  /\ Own

-----------------------------------------------------------------------------
(* The callers: the plan loop and the restart command. *)

On == ticker # "off"

\* The flag is read before the role's mutex is taken.
Enter(c) ==
  /\ On /\ ~stop /\ call[c] = Nothing
  /\ c = "restart" => used.restarts < MaxRestarts
  /\ call' = [call EXCEPT ![c] = plan]
  /\ used' = IF c = "restart" THEN [used EXCEPT !.restarts = @ + 1] ELSE used
  /\ UNCHANGED <<svars, role, owner, stop, ticker, late>>

\* Caller c is back; the tick thread, while it runs, sees to what c did.
Return(c) ==
  /\ call' = [call EXCEPT ![c] = Nothing]
  /\ late' = IF ticker = "done" THEN late ELSE late \ {c}

Apply ==
  /\ call["apply"] # Nothing
  /\ Converge(call["apply"])
  /\ Return("apply")
  /\ UNCHANGED <<plan, stop, ticker, used>>

\* Mutant: the restart does not look at what the role should run.
RestartAnyRole ==
  /\ call["restart"] # Nothing
  /\ IF current # None THEN RestartRuntime ELSE UNCHANGED svars
  /\ Return("restart")
  /\ UNCHANGED <<role, stop, ticker, used>>
  /\ Own

\* Only a role that still runs what is desired is restarted.
RestartRole ==
  /\ call["restart"] # Nothing
  /\ IF desired # None /\ desired = current THEN RestartRuntime ELSE UNCHANGED svars
  /\ Return("restart")
  /\ UNCHANGED <<role, stop, ticker, used>>
  /\ Own

Replan ==
  /\ On /\ used.plans < MaxPlans /\ used' = [used EXCEPT !.plans = @ + 1]
  /\ plan' \in AnyTarget \ {plan}
  /\ UNCHANGED <<svars, desired, current, owner, call, stop, ticker, late>>

-----------------------------------------------------------------------------
(* The tick thread. *)

\* A tick; a machine whose target is superseded is dropped once it stopped.
TickRun ==
  /\ ticker = "run" /\ ~stop /\ current # None
  /\ \/ Tick /\ UNCHANGED current /\ (state' = "stopped" => desired = current)
     \/ /\ desired # current /\ state = "stopping" /\ Exited
        /\ phase \in {"term", "reap"}
        /\ Vacate /\ child' = None /\ reg' = None /\ proc' = Reaped
        /\ UNCHANGED <<voice, inflight, past>>
  /\ Own
  /\ UNCHANGED <<plan, desired, host>>

\* The flag: the machine is told to stop, and then ticked until it has.
Close ==
  /\ ticker = "run" /\ stop /\ ticker' = "close"
  /\ IF current # None THEN Stop ELSE UNCHANGED svars
  /\ UNCHANGED <<role, owner, call, stop, late, used>>

TickClose ==
  /\ ticker = "close" /\ current # None /\ state \notin {"notConfigured", "stopped"}
  /\ Tick
  /\ UNCHANGED <<role, host>>
  /\ Own

Closed ==
  /\ ticker = "close"
  /\ current = None \/ state \in {"notConfigured", "stopped"}
  /\ ticker' = "done"
  /\ UNCHANGED <<svars, role, owner, call, stop, late, used>>

-----------------------------------------------------------------------------
(* The program's end and its next launch. *)

\* Mutant: the callers are not waited for.
ShutdownAtOnce ==
  /\ On /\ ~stop /\ stop' = TRUE
  /\ UNCHANGED <<svars, role, owner, call, ticker, late, used>>

\* App::shutdown waits for the callers at the finalization gate, three seconds
\* at most, and then goes on, with the callers that are still in their call.
Shutdown ==
  /\ On /\ ~stop /\ stop' = TRUE
  /\ late' = {c \in Caller : call[c] # Nothing}
  /\ UNCHANGED <<svars, role, owner, call, ticker, used>>

\* The program exits when the ticker is done or the bounded wait is over, or
\* it dies.  On macOS its children live on.
Exits ==
  /\ On /\ used.launches < MaxLaunches
  /\ ticker' = "off" /\ late' = {}
  /\ call' = [c \in Caller |-> Nothing]
  /\ Vacate /\ child' = None /\ desired' = None
  /\ endpoint' = None /\ told' = FALSE /\ stale' = FALSE /\ inflight' = FALSE
  /\ UNCHANGED <<proc, reg, past, plan, owner, stop, used>>

\* Mutant: the sweep is left out.
LaunchUnswept ==
  /\ ticker = "off"
  /\ used' = [used EXCEPT !.launches = @ + 1]
  /\ ticker' = "run" /\ stop' = FALSE
  /\ reg' = None
  /\ UNCHANGED <<machine, voice, inflight, proc, past, role, owner, call, late>>

\* kill_orphans, before anything is spawned.
Launch ==
  /\ ticker = "off"
  /\ used' = [used EXCEPT !.launches = @ + 1]
  /\ ticker' = "run" /\ stop' = FALSE
  /\ reg' = None
  /\ proc' = IF reg = None THEN proc
             ELSE [proc EXCEPT ![reg] = IF @ = "run" THEN "dying" ELSE @]
  /\ UNCHANGED <<machine, voice, inflight, past, role, owner, call, late>>

\* A process that nobody waits for is reaped by the system.
HostWorld == World /\ UNCHANGED <<role, owner, host>>

HostNext ==
  \/ \E c \in Caller : Enter(c)
  \/ Apply \/ RestartRole \/ Replan
  \/ TickRun \/ Close \/ TickClose \/ Closed
  \/ Shutdown \/ Exits \/ Launch
  \/ HostWorld

HostSpec == HostInit /\ [][HostNext]_hvars

\* The plan loop comes back every two seconds, a caller gets the mutex, the
\* tick thread runs, and the world is as fair as the supervisor assumes.
HostFairness ==
  /\ WF_hvars(Enter("apply")) /\ WF_hvars(Apply) /\ WF_hvars(RestartRole)
  /\ WF_hvars(TickRun \/ Close \/ TickClose \/ Closed)
  /\ WF_hvars(Elapse /\ HostWorld) /\ WF_hvars(Response /\ HostWorld)
  /\ WF_hvars((\E o \in Outcomes : Answer(o)) /\ HostWorld)
  /\ \A p \in Pid : WF_hvars(Die(p) /\ HostWorld)
HostFairSpec == HostSpec /\ HostFairness

-----------------------------------------------------------------------------
(* Properties. *)

\* However the program ends and whoever replaces whom, a running child is held
\* by the machine, or named in children.json for the next launch to kill.
OwnedOrRecorded ==
  \A p \in Pid : proc[p] = "run" => p = reg /\ (On => p = child)

\* "A child already draining because the role went dark or changed model must
\* never be resurrected" (restart_runtime): whatever is spawned runs the target
\* the latest plan asked for.
NoResurrection ==
  [][\A p \in Pid : proc[p] # "run" /\ proc'[p] = "run" => owner'[p] = desired']_hvars

\* Once the tick thread is done, nothing runs and nothing will (RUNTIME 8.4),
\* unless a caller that the finalization gate had given up on was still in its
\* call by then: one that comes back before finds the thread at its child.
ShutdownIsFinal ==
  ticker = "done" /\ late = {} => \A p \in Pid : proc[p] # "run"

\* The same whoever was still in a call.
ShutdownIsAlwaysFinal == ticker = "done" => \A p \in Pid : proc[p] # "run"

\* A plan that stays is carried out: in the end the slot holds its target, or
\* nothing if that is what it asks for.
PlanIsFollowed ==
  \A d \in AnyTarget :
    <>[](plan = d /\ ticker = "run" /\ ~stop) => <>[](current = d /\ desired = d)

-----------------------------------------------------------------------------
(* What a comment claims beyond that.                                        *)

InUse(d) == desired = d \/ current = d

\* "Deletion waits until the supervised process has released its file handles"
\* (model_in_use): a target that is not in use has no process.
ReleasedWhenUnused ==
  On => \A p \in Pid : proc[p] \in {"run", "dying"} => InUse(owner[p])
=============================================================================
