---------------------------- MODULE EmbedderHost ----------------------------
(***************************************************************************)
(* One role (text or CLIP) of the embedder host (embedders.rs).  The two   *)
(* roles share only the shutdown, which treats them one after the other.   *)
(*                                                                         *)
(* An attempt is one planned build: its worker thread spawns a helper      *)
(* process, publishes it in the registry and reads its ready frame, which  *)
(* a wedged native constructor never sends.  The slot is guarded by its    *)
(* lock; `generation`, an atomic beside it, invalidates every older        *)
(* attempt.                                                                *)
(* The plan reaches the host under the model operation gate (runtime.rs),  *)
(* which also serializes the removal of a model's files.                   *)
(***************************************************************************)
EXTENDS Naturals, FiniteSets

CONSTANTS
    Model,          \* the models of this role
    Known,          \* those with an ort recipe (Builder::is_known)
    NoModel,        \* the plan leaves the role dark
    MaxAttempts,    \* bound: attempts made
    MaxMoves        \* bound: changes of plan, removals, their deadlines, restarts, crashes, calls

ASSUME ModelAssumption == NoModel \notin Model /\ Known \subseteq Model
ASSUME BoundAssumption == MaxAttempts \in Nat \ {0} /\ MaxMoves \in Nat

Attempts == 1..MaxAttempts

VARIABLES
    slot,       \* [st, a]: Slot and its attempt (0: none)
    generation, \* the role's generation
    made,       \* attempts made so far (next_attempt)
    model,      \* Attempt.model_id
    atGen,      \* Attempt.generation
    late,       \* the attempt being built is older than build_timeout
    worker,     \* where each attempt's thread is
    wedged,     \* attempts whose helper never answers
    dead,       \* attempts whose helper was terminated or died
    registry,   \* children: the published helpers
    calls,      \* attempts whose proxy a caller is using
    gate,       \* the holder of the operation gate
    wanted,     \* the model the plan asks for
    installed,  \* models whose files are there
    stopped,    \* the flag shutdown sets
    down,       \* where shutdown is
    taken,      \* the threads shutdown joins
    orderly,    \* every managed task and command ended before the shutdown
    handles,    \* workers: the join handles pushed so far
    moves       \* changes of plan, removals, their deadlines, restarts, crashes, calls so far

hostVars == <<slot, generation, made, model, atGen, late, worker, wedged, dead, registry, calls, gate,
          wanted, installed, stopped, down, taken, orderly, handles, moves>>

Move == moves < MaxMoves /\ moves' = moves + 1

Slots == [st : {"Idle", "Queued", "Building", "Ready", "Failed", "Stopping"}, a : 0..MaxAttempts]
IdleSlot == [st |-> "Idle", a |-> 0]
\* What the holder of the gate has in hand.
Gates == [at : {"free", "cancel", "cancelled", "converge", "kill", "dispatch", "push", "poll"},
          removing : Model \cup {NoModel}, target : Model \cup {NoModel},
          kill : SUBSET Attempts, a : 0..MaxAttempts]
Is(st, a) == slot = [st |-> st, a |-> a]

GateFree == [at |-> "free", removing |-> NoModel, target |-> NoModel, kill |-> {}, a |-> 0]

HostInit ==
    /\ slot = IdleSlot /\ generation = 0 /\ made = 0
    /\ model = [a \in Attempts |-> NoModel] /\ atGen = [a \in Attempts |-> 0]
    /\ worker = [a \in Attempts |-> "none"]
    /\ late = FALSE /\ wedged = {} /\ dead = {} /\ registry = {} /\ calls = {}
    /\ gate = GateFree /\ wanted \in Model /\ installed = Model
    /\ stopped = FALSE /\ down = "up" /\ taken = {} /\ orderly = TRUE /\ handles = {}
    /\ moves = 0

\* The model the slot's attempt is for; NoModel when it has none.
PlannedModel == IF slot.a = 0 THEN NoModel ELSE model[slot.a]

\* An attempt is current while no later generation was opened.
Current(a) == generation = atGen[a]

\* Whoever still holds the helper's Arc; the last one to let go terminates it.
Held(a) ==
    \/ a \in registry \cup calls \cup gate.kill
    \/ worker[a] \in {"publish", "reading", "landing"}
    \/ Is("Ready", a)

\* The helper process exists and runs.
Live(a) == worker[a] \notin {"none", "queued", "spawn"} /\ a \notin dead /\ Held(a)

----------------------------------------------------------------------------
(* The watchdog, run by every status read and by apply *)

\* Mutant: the watchdog looks at queued attempts only.
OverdueQueued == slot.st = "Queued" /\ late

Overdue == slot.st \in {"Queued", "Building"} /\ late

\* The attempt fails, its generation is closed, its published helper killed.
ExpireSlot ==
    /\ generation' = generation + 1
    /\ slot' = [slot EXCEPT !.st = "Failed"]
    /\ registry' = registry \ {slot.a}
    /\ dead' = dead \cup ({slot.a} \cap registry)

\* The timeout passes for the attempt being built.
Late ==
    /\ slot.st \in {"Queued", "Building"} /\ ~late
    /\ late' = TRUE
    /\ UNCHANGED <<slot, generation, made, model, atGen, worker, wedged, dead, registry, calls, gate,
                   wanted, installed, stopped, down, taken, orderly, handles, moves>>

Expire ==
    /\ ~stopped /\ Overdue /\ ExpireSlot
    /\ UNCHANGED <<made, model, atGen, late, worker, wedged, calls, gate, wanted, installed,
                   stopped, down, taken, orderly, handles, moves>>

----------------------------------------------------------------------------
(* The plan: apply_supervisor_plan under the operation gate *)

gateOnly == <<made, model, atGen, late, worker, wedged, calls, wanted, installed, stopped, down,
              taken, orderly, handles>>

\* Settings change the model the plan asks for.
Choose(m) ==
    /\ Move /\ m # wanted /\ wanted' = m
    /\ UNCHANGED <<slot, generation, made, model, atGen, late, worker, wedged, dead, registry, calls,
                   gate, installed, stopped, down, taken, orderly, handles>>

\* What the plan runs: a model that is being removed is hidden from it.
Target == IF wanted \in installed \ {gate.removing} THEN wanted ELSE NoModel

\* After apply: the removal goes on, a plain converge lets the gate go.
LeaveGate == IF gate.removing = NoModel THEN GateFree ELSE [gate EXCEPT !.at = "poll", !.kill = {}, !.a = 0]

\* The plan is computed and apply passes its `stopped` check; its watchdog pass comes first.
Apply(from) ==
    /\ gate.at = from /\ (stopped => from = "cancelled")
    /\ IF stopped
         THEN gate' = LeaveGate
         ELSE gate' = [gate EXCEPT !.at = "converge", !.target = Target]
    /\ IF ~stopped /\ Overdue THEN ExpireSlot ELSE UNCHANGED <<slot, generation, registry, dead>>
    /\ UNCHANGED <<gateOnly, moves>>

NeedsRebuild == PlannedModel # gate.target

\* converge, under the slot lock: what it finds decides what it leaves.
Unchanged ==
    /\ gate.at = "converge" /\ ~NeedsRebuild
    /\ gate' = LeaveGate
    /\ UNCHANGED <<slot, generation, dead, registry>> /\ UNCHANGED <<gateOnly, moves>>

GoDark ==
    /\ gate.at = "converge" /\ NeedsRebuild /\ gate.target = NoModel
    /\ generation' = generation + 1 /\ slot' = IdleSlot
    /\ registry' = {}
    /\ gate' = [gate EXCEPT !.at = "kill", !.kill = registry]
    /\ UNCHANGED dead /\ UNCHANGED <<gateOnly, moves>>

\* A new attempt of the next generation supersedes what the slot held.  For a
\* model without a recipe the superseded helpers are let go, not terminated.
Plan ==
    /\ gate.at = "converge" /\ NeedsRebuild /\ gate.target # NoModel /\ made < MaxAttempts
    /\ generation' = generation + 1 /\ made' = made + 1 /\ late' = FALSE
    /\ model' = [model EXCEPT ![made'] = gate.target]
    /\ atGen' = [atGen EXCEPT ![made'] = generation']
    /\ registry' = {}
    /\ IF gate.target \in Known
         THEN /\ slot' = [st |-> "Queued", a |-> made']
              /\ gate' = [gate EXCEPT !.at = "kill", !.kill = registry, !.a = made']
         ELSE /\ slot' = [st |-> "Failed", a |-> made']
              /\ gate' = LeaveGate
    /\ UNCHANGED <<worker, wedged, dead, calls, wanted, installed, stopped, down, taken, orderly,
                   handles, moves>>

\* The superseded helpers are killed and reaped after the lock is let go.
KillSuperseded ==
    /\ gate.at = "kill"
    /\ dead' = dead \cup gate.kill
    /\ gate' = IF gate.a = 0 THEN LeaveGate ELSE [gate EXCEPT !.at = "dispatch", !.kill = {}]
    /\ UNCHANGED <<slot, generation, registry>> /\ UNCHANGED <<gateOnly, moves>>

Dispatch ==
    /\ gate.at = "dispatch"
    /\ worker' = [worker EXCEPT ![gate.a] = "queued"]
    /\ gate' = [gate EXCEPT !.at = "push"]
    /\ UNCHANGED <<slot, generation, made, model, atGen, late, wedged, dead, registry, calls, wanted,
                   installed, stopped, down, taken, orderly, handles, moves>>

\* No thread: the attempt fails if it is still the slot's.
FailIfCurrent(a) ==
    slot' = IF Current(a) /\ slot.a = a /\ slot.st \in {"Queued", "Building", "Ready"}
              THEN [slot EXCEPT !.st = "Failed"]
              ELSE slot

DispatchFails ==
    /\ gate.at = "dispatch"
    /\ FailIfCurrent(gate.a)
    /\ gate' = LeaveGate
    /\ UNCHANGED <<generation, dead, registry>> /\ UNCHANGED <<gateOnly, moves>>

PushHandle ==
    /\ gate.at = "push"
    /\ handles' = handles \cup {gate.a}
    /\ gate' = LeaveGate
    /\ UNCHANGED <<slot, generation, made, model, atGen, late, worker, wedged, dead, registry, calls,
                   wanted, installed, stopped, down, taken, orderly, moves>>

----------------------------------------------------------------------------
(* Removing a model, under the same gate *)

\* The model is hidden from the plan and its role cancelled: the slot is Idle,
\* the registered helpers are taken and killed before the plan is applied.
CancelRole(m) ==
    /\ Move /\ gate.at = "free" /\ ~stopped /\ m \in installed
    /\ IF PlannedModel = m
         THEN /\ generation' = generation + 1 /\ slot' = IdleSlot /\ registry' = {}
              /\ gate' = [GateFree EXCEPT !.at = "cancel", !.removing = m, !.kill = registry]
         ELSE /\ gate' = [GateFree EXCEPT !.at = "cancelled", !.removing = m]
              /\ UNCHANGED <<slot, generation, registry>>
    /\ UNCHANGED dead /\ UNCHANGED gateOnly

KillCancelled ==
    /\ gate.at = "cancel"
    /\ dead' = dead \cup gate.kill
    /\ gate' = [gate EXCEPT !.at = "cancelled", !.kill = {}]
    /\ UNCHANGED <<slot, generation, registry>> /\ UNCHANGED <<gateOnly, moves>>

InUse(m) == PlannedModel = m

\* model_in_use is false: the files go.
Delete ==
    /\ gate.at = "poll" /\ ~InUse(gate.removing)
    /\ installed' = installed \ {gate.removing}
    /\ gate' = GateFree
    /\ UNCHANGED <<slot, generation, made, model, atGen, late, worker, wedged, dead, registry, calls,
                   wanted, stopped, down, taken, orderly, handles, moves>>

\* Ten seconds pass (a supervised child may still hold the model): the model
\* comes back into the plan, which is applied again.
GiveUp ==
    /\ Move /\ gate.at = "poll"
    /\ gate' = [GateFree EXCEPT !.at = "cancelled"]
    /\ UNCHANGED <<slot, generation, dead, registry>> /\ UNCHANGED gateOnly

\* Restart runtime: a failed slot goes back to Idle; the plan is applied later.
Retry ==
    /\ Move /\ ~stopped /\ slot.st = "Failed"
    /\ generation' = generation + 1 /\ slot' = IdleSlot
    /\ UNCHANGED <<made, model, atGen, late, worker, wedged, dead, registry, calls, gate, wanted,
                   installed, stopped, down, taken, orderly, handles>>

----------------------------------------------------------------------------
(* The worker thread of attempt a *)

workerOnly == <<generation, made, model, atGen, late, calls, gate, wanted, installed, stopped, down,
                taken, orderly, handles, moves>>

Goes(a, at) == worker' = [worker EXCEPT ![a] = at]

BeginBuild(a) ==
    /\ worker[a] = "queued"
    /\ IF Current(a) /\ Is("Queued", a)
         THEN /\ slot' = [slot EXCEPT !.st = "Building"]
              /\ Goes(a, "spawn")
              /\ UNCHANGED dead
         ELSE /\ Goes(a, "done")
              /\ dead' = dead \cup {a}
              /\ UNCHANGED slot
    /\ UNCHANGED <<wedged, registry>> /\ UNCHANGED workerOnly

\* The helper process starts; its constructor may never answer.
Spawn(a) ==
    /\ worker[a] = "spawn"
    /\ Goes(a, "publish")
    /\ wedged' \in {wedged, wedged \cup {a}}
    /\ UNCHANGED <<slot, dead, registry>> /\ UNCHANGED workerOnly

SpawnFails(a) ==
    /\ worker[a] = "spawn"
    /\ Goes(a, "failing")
    /\ dead' = dead \cup {a}
    /\ UNCHANGED <<slot, wedged, registry>> /\ UNCHANGED workerOnly

\* From here on a plan change, the watchdog or shutdown can kill the helper.
Publish(a) ==
    /\ worker[a] = "publish"
    /\ IF Current(a) /\ Is("Building", a)
         THEN /\ registry' = registry \cup {a}
              /\ Goes(a, "reading")
              /\ UNCHANGED <<dead, wedged>>
         ELSE /\ dead' = dead \cup {a}
              /\ wedged' = wedged \ {a} /\ Goes(a, "failing")
              /\ UNCHANGED registry
    /\ UNCHANGED slot /\ UNCHANGED workerOnly

\* read_ready: blocks for as long as a wedged helper lives.
ReadReady(a) ==
    /\ worker[a] = "reading" /\ a \notin dead \cup wedged
    /\ Goes(a, "landing")
    /\ UNCHANGED <<slot, wedged, dead, registry>> /\ UNCHANGED workerOnly

\* The helper died, or reports that the native load failed.
ReadFails(a) ==
    /\ worker[a] = "reading" /\ (a \in wedged => a \in dead)
    /\ Goes(a, "failing")
    /\ dead' = dead \cup {a}
    /\ wedged' = wedged \ {a} /\ UNCHANGED <<slot, registry>> /\ UNCHANGED workerOnly

\* Mutant: a build lands on its attempt, whatever became of it.
LandLate(a) ==
    /\ worker[a] = "landing"
    /\ Goes(a, "done")
    /\ slot' = IF slot.a = a THEN [slot EXCEPT !.st = "Ready"] ELSE slot
    /\ UNCHANGED <<wedged, dead, registry>> /\ UNCHANGED workerOnly

\* land_build with a built helper: only the attempt the slot is building lands.
LandReady(a) ==
    /\ worker[a] = "landing"
    /\ Goes(a, "done")
    /\ IF Current(a) /\ Is("Building", a)
         THEN slot' = [slot EXCEPT !.st = "Ready"] /\ UNCHANGED dead
         ELSE dead' = dead \cup {a} /\ UNCHANGED slot
    /\ UNCHANGED <<wedged, registry>> /\ UNCHANGED workerOnly

LandFailed(a) ==
    /\ worker[a] = "failing"
    /\ Goes(a, "done")
    /\ slot' = IF Current(a) /\ Is("Building", a) THEN [slot EXCEPT !.st = "Failed"] ELSE slot
    /\ UNCHANGED <<wedged, dead, registry>> /\ UNCHANGED workerOnly

\* A helper dies by itself.
Crash(a) ==
    /\ Move /\ Live(a)
    /\ dead' = dead \cup {a}
    /\ UNCHANGED <<slot, generation, made, model, atGen, late, worker, wedged, registry, calls, gate,
                   wanted, installed, stopped, down, taken, orderly, handles>>

----------------------------------------------------------------------------
(* Callers of the proxy *)

callOnly == <<generation, made, model, atGen, late, worker, wedged, registry, gate, wanted, installed,
              stopped, down, taken, orderly, handles>>

Call(a) ==
    /\ Move /\ Is("Ready", a) /\ Current(a) /\ a \notin calls /\ down # "gone"
    /\ calls' = calls \cup {a}
    /\ UNCHANGED <<slot, dead>> /\ UNCHANGED callOnly

Return(a) ==
    /\ a \in calls \ dead
    /\ calls' = calls \ {a}
    /\ UNCHANGED <<slot, dead>> /\ UNCHANGED <<callOnly, moves>>

\* Any failed call fails the slot, if it is still this attempt's, and kills the helper.
CallFails(a) ==
    /\ a \in calls
    /\ calls' = calls \ {a}
    /\ FailIfCurrent(a)
    /\ dead' = dead \cup {a}
    /\ UNCHANGED <<callOnly, moves>>

----------------------------------------------------------------------------
(* Shutdown *)

shutOnly == <<made, model, atGen, late, worker, wedged, calls, gate, wanted, installed, moves>>

\* An orderly shutdown comes after the finalization gate: no managed task and
\* no command is left; otherwise the gate timed out.
Stop ==
    /\ down = "up"
    /\ stopped' = TRUE /\ down' = "take"
    /\ orderly' = (gate = GateFree /\ calls = {})
    /\ UNCHANGED <<slot, generation, dead, registry, taken, handles>> /\ UNCHANGED shutOnly

\* The registry is emptied and what was in it killed.
TakeAll ==
    /\ down = "take"
    /\ dead' = dead \cup registry /\ registry' = {}
    /\ down' = "bump"
    /\ UNCHANGED <<slot, generation, taken, stopped, orderly, handles>> /\ UNCHANGED shutOnly

\* stop_slot opens the generation before it takes the slot lock.
BumpGeneration ==
    /\ down = "bump"
    /\ generation' = generation + 1 /\ down' = "slot"
    /\ UNCHANGED <<slot, dead, registry, taken, stopped, orderly, handles>> /\ UNCHANGED shutOnly

StopSlot ==
    /\ down = "slot"
    /\ slot' = [slot EXCEPT !.st = "Stopping"]
    /\ taken' = handles /\ handles' = {}
    /\ down' = "join"
    /\ UNCHANGED <<generation, dead, registry, stopped, orderly>> /\ UNCHANGED shutOnly

\* Every worker whose handle was pushed is joined, without a time limit.
Joined ==
    /\ down = "join" /\ \A a \in taken : worker[a] = "done"
    /\ down' = "gone"
    /\ UNCHANGED <<slot, generation, dead, registry, taken, stopped, orderly, handles>> /\ UNCHANGED shutOnly

----------------------------------------------------------------------------

GateStep ==
    \/ Apply("cancelled") \/ Unchanged \/ GoDark \/ Plan \/ KillSuperseded
    \/ Dispatch \/ DispatchFails \/ PushHandle \/ KillCancelled \/ Delete \/ GiveUp

WorkerStep(a) ==
    \/ BeginBuild(a) \/ Spawn(a) \/ SpawnFails(a) \/ Publish(a)
    \/ ReadReady(a) \/ ReadFails(a) \/ LandReady(a) \/ LandFailed(a)

ShutdownStep == TakeAll \/ BumpGeneration \/ StopSlot \/ Joined

HostNext ==
    \/ Apply("free") \/ GateStep \/ ShutdownStep \/ Stop
    \/ Late \/ Expire \/ Retry
    \/ \E m \in Model : Choose(m) \/ CancelRole(m)
    \/ \E a \in Attempts :
         WorkerStep(a) \/ Crash(a) \/ Call(a) \/ Return(a) \/ CallFails(a)

(***************************************************************************)
(* Fairness: threads that can run do run; the build timeout passes, and    *)
(* the status is read again and again (the two-second converge cadence and *)
(* the interface's poll both do); a call whose helper is dead returns.     *)
(* Nothing is assumed of a wedged helper, of inference, or of the user.    *)
(***************************************************************************)
HostFairness ==
    /\ WF_hostVars(GateStep) /\ WF_hostVars(ShutdownStep) /\ WF_hostVars(Late) /\ WF_hostVars(Expire)
    /\ \A a \in Attempts : WF_hostVars(WorkerStep(a)) /\ WF_hostVars(a \in dead /\ CallFails(a))

HostSpec == HostInit /\ [][HostNext]_hostVars /\ HostFairness

----------------------------------------------------------------------------
(* Properties *)

\* Types; and the slot's attempt is always the last one made.
HostTypeOK ==
    /\ slot \in Slots /\ slot.a \in {0, made} /\ generation \in Nat /\ made \in 0..MaxAttempts
    /\ model \in [Attempts -> Model \cup {NoModel}] /\ atGen \in [Attempts -> Nat]
    /\ worker \in [Attempts -> {"none", "queued", "spawn", "publish", "reading", "landing",
                                "failing", "done"}]
    /\ late \in BOOLEAN /\ wedged \subseteq Attempts /\ dead \subseteq Attempts
    /\ registry \subseteq Attempts /\ calls \subseteq Attempts
    /\ taken \subseteq Attempts /\ handles \subseteq Attempts
    /\ gate \in Gates
    /\ wanted \in Model /\ installed \subseteq Model
    /\ stopped \in BOOLEAN /\ orderly \in BOOLEAN
    /\ down \in {"up", "take", "bump", "slot", "join", "gone"}
    /\ moves \in 0..MaxMoves

\* Until shutdown begins, a Ready slot is of the current generation, and its
\* helper is in the registry, where a plan change or a removal finds and kills
\* it: no stale build, late timeout or failed call leaves a Ready slot behind.
ReadyIsServed ==
    \A a \in Attempts : ~stopped /\ Is("Ready", a) => Current(a) /\ a \in registry

\* Shutdown kills and reaps the helpers (embedders.rs:11-13, 109-111): when an
\* orderly one returns, none lives.
ReapedAtExit == down = "gone" /\ orderly => \A a \in Attempts : ~Live(a)

\* While the program runs, every planned build ends: it lands, fails, times out or is superseded, even
\* when the native constructor never answers.
BuildSettles ==
    \A a \in Attempts :
        (slot.a = a /\ slot.st \in {"Queued", "Building"})
            ~> (stopped \/ ~(slot.a = a /\ slot.st \in {"Queued", "Building"}))

\* Shutdown kills and reaps a wedged constructor, so it returns (embedders.rs:11-13).
ShutdownReturns == stopped ~> (down = "gone")
=============================================================================
