---------------------------- MODULE ShellProofs ----------------------------
(***************************************************************************)
(* Proofs about the shell around the library: the embedder host, the       *)
(* repair of the vectors and the background pumps (the last two as they    *)
(* are in FairParts, each of its own specification), and voice capture,    *)
(* for every value of the constants.                                       *)
(***************************************************************************)
EXTENDS EmbedderHost, FairParts, Capture, FiniteSetTheorems, WellFoundedInduction, TLAPS

-----------------------------------------------------------------------------
(* The embedder host (EmbedderHost). *)

\* A slot that builds or serves is of the open generation, until the shutdown.
InGeneration ==
  ~stopped /\ slot.st \in {"Queued", "Building", "Ready"} =>
    slot.a \in Attempts /\ atGen[slot.a] = generation

\* The helper of the attempt being built is registered from its publication on,
\* and that of a Ready slot still is.
Registered ==
  /\ ~stopped /\ slot.st = "Building" /\ worker[slot.a] \in {"reading", "landing"} =>
       slot.a \in registry
  /\ ~stopped /\ slot.st = "Ready" => slot.a \in registry

\* Only shutdown moves `down`, and it has set the flag before.
Downward == down # "up" => stopped

\* A worker is dispatched for an attempt.
Dispatching == gate.at \in {"dispatch", "push"} => gate.a # 0

SlotInv == HostTypeOK /\ InGeneration /\ Registered /\ Downward /\ Dispatching

LEMMA HostInitially == HostInit => SlotInv
<1> SUFFICES ASSUME HostInit PROVE SlotInv
  OBVIOUS
<1>1. slot = [st |-> "Idle", a |-> 0] /\ slot \in Slots
  BY BoundAssumption DEF HostInit, IdleSlot, Slots
<1>2. gate \in Gates /\ gate.at = "free"
  BY BoundAssumption DEF HostInit, GateFree, Gates
<1>3. HostTypeOK
  <2>1. /\ model \in [Attempts -> Model \cup {NoModel}] /\ atGen \in [Attempts -> Nat]
        /\ worker \in [Attempts -> {"none", "queued", "spawn", "publish", "reading", "landing",
                                    "failing", "done"}]
    BY DEF HostInit
  <2>2. generation \in Nat /\ made \in 0..MaxAttempts /\ moves \in 0..MaxMoves
    BY BoundAssumption DEF HostInit
  <2>3. /\ late \in BOOLEAN /\ stopped \in BOOLEAN /\ orderly \in BOOLEAN
        /\ wanted \in Model /\ installed \subseteq Model /\ down = "up"
        /\ wedged = {} /\ dead = {} /\ registry = {} /\ calls = {} /\ taken = {} /\ handles = {}
    BY DEF HostInit
  <2>4. slot.a \in {0, made}
    BY <1>1
  <2> QED BY <1>1, <1>2, <2>1, <2>2, <2>3, <2>4 DEF HostTypeOK
<1> QED
  BY <1>1, <1>2, <1>3 DEF HostInit, SlotInv, InGeneration, Registered, Downward, Dispatching

\* The records the gate's holder goes on with.
LEMMA GateRecords ==
  ASSUME HostTypeOK
  PROVE  /\ gate \in Gates /\ GateFree \in Gates /\ LeaveGate \in Gates /\ Target \in Model \cup {NoModel}
         /\ \A t \in Model \cup {NoModel} : [gate EXCEPT !.at = "converge", !.target = t] \in Gates
         /\ [gate EXCEPT !.at = "kill", !.kill = registry] \in Gates
         /\ \A n \in 0..MaxAttempts :
               [gate EXCEPT !.at = "kill", !.kill = registry, !.a = n] \in Gates
         /\ [gate EXCEPT !.at = "dispatch", !.kill = {}] \in Gates
         /\ [gate EXCEPT !.at = "push"] \in Gates
         /\ [gate EXCEPT !.at = "cancelled", !.kill = {}] \in Gates
         /\ \A m \in Model :
               /\ [GateFree EXCEPT !.at = "cancel", !.removing = m, !.kill = registry] \in Gates
               /\ [GateFree EXCEPT !.at = "cancelled", !.removing = m] \in Gates
         /\ [GateFree EXCEPT !.at = "cancelled"] \in Gates
<1>1. gate \in Gates /\ registry \in SUBSET Attempts /\ wanted \in Model
  BY DEF HostTypeOK, Gates
<1>2. 0 \in 0..MaxAttempts
  BY BoundAssumption
<1>3. GateFree \in Gates
  BY <1>2 DEF GateFree, Gates
<1>4. LeaveGate \in Gates
  BY <1>1, <1>2, <1>3 DEF LeaveGate, Gates
<1>5. /\ \A t \in Model \cup {NoModel} : [gate EXCEPT !.at = "converge", !.target = t] \in Gates
      /\ [gate EXCEPT !.at = "kill", !.kill = registry] \in Gates
      /\ \A n \in 0..MaxAttempts :
            [gate EXCEPT !.at = "kill", !.kill = registry, !.a = n] \in Gates
  BY <1>1 DEF Gates
<1>6. /\ [gate EXCEPT !.at = "dispatch", !.kill = {}] \in Gates
      /\ [gate EXCEPT !.at = "push"] \in Gates
      /\ [gate EXCEPT !.at = "cancelled", !.kill = {}] \in Gates
  BY <1>1 DEF Gates
<1>7. /\ \A m \in Model :
            /\ [GateFree EXCEPT !.at = "cancel", !.removing = m, !.kill = registry] \in Gates
            /\ [GateFree EXCEPT !.at = "cancelled", !.removing = m] \in Gates
      /\ [GateFree EXCEPT !.at = "cancelled"] \in Gates
  BY <1>1, <1>3 DEF Gates
<1> QED
  BY <1>1, <1>3, <1>4, <1>5, <1>6, <1>7 DEF Target

\* What the slot's invariant says besides the types.
Sense == InGeneration /\ Registered /\ Downward /\ Dispatching

\* The gate's holder keeps the slot's invariant.
LEMMA GateKeeps ==
  ASSUME SlotInv, GateStep \/ Apply("free")
  PROVE  SlotInv'
<1> USE DEF Sense, InGeneration, Registered, Downward, Dispatching
<1>0. /\ gate \in Gates /\ GateFree \in Gates /\ LeaveGate \in Gates
      /\ Target \in Model \cup {NoModel} /\ HostTypeOK /\ Sense
  BY GateRecords DEF SlotInv, Sense
<1>a. /\ slot \in Slots /\ IdleSlot \in Slots /\ [slot EXCEPT !.st = "Failed"] \in Slots
      /\ IdleSlot.st = "Idle" /\ IdleSlot.a = 0
      /\ [slot EXCEPT !.st = "Failed"].a = slot.a /\ [slot EXCEPT !.st = "Failed"].st = "Failed"
  BY <1>0, BoundAssumption DEF HostTypeOK, Slots, IdleSlot
<1>b. GateFree.at = "free" /\ LeaveGate.at \in {"free", "poll"}
  BY <1>0 DEF LeaveGate, GateFree, Gates
<1>c. /\ generation \in Nat /\ generation + 1 \in Nat /\ registry \subseteq Attempts
      /\ gate.kill \subseteq Attempts
  BY <1>0 DEF HostTypeOK, Gates
<1>1. ASSUME NEW from \in {"free", "cancelled"}, Apply(from) PROVE SlotInv'
  <2>1. gate' \in Gates
    BY <1>0, <1>1, GateRecords DEF Apply
  <2>3. HostTypeOK'
    BY <1>0, <1>a, <1>c, <1>1, <2>1, BoundAssumption DEF Apply, gateOnly, HostTypeOK, ExpireSlot
  <2>4. Sense'
    <3>1. gate'.at \notin {"dispatch", "push"} /\ UNCHANGED <<worker, atGen, stopped, down>>
      BY <1>0, <1>b, <1>1 DEF Apply, gateOnly, Gates
    <3>2. CASE ~stopped /\ Overdue
      BY <1>0, <1>a, <1>1, <3>1, <3>2 DEF Apply, ExpireSlot
    <3>3. CASE ~(~stopped /\ Overdue)
      BY <1>0, <1>1, <3>1, <3>3 DEF Apply
    <3> QED BY <3>2, <3>3
  <2> QED BY <2>3, <2>4 DEF SlotInv, Sense
<1>2. CASE Unchanged
  <2>1. gate' \in Gates
    BY <1>0, <1>2, GateRecords DEF Unchanged
  <2>3. HostTypeOK'
    BY <1>0, <1>a, <1>c, <1>2, <2>1, BoundAssumption DEF Unchanged, gateOnly, HostTypeOK
  <2>4. Sense'
    BY <1>0, <1>a, <1>b, <1>c, <1>2, <2>1 DEF Unchanged, gateOnly, HostTypeOK
  <2> QED BY <2>3, <2>4 DEF SlotInv, Sense
<1>3. CASE GoDark
  <2>1. gate' \in Gates
    BY <1>0, <1>3, GateRecords DEF GoDark
  <2>3. HostTypeOK'
    BY <1>0, <1>a, <1>c, <1>3, <2>1, BoundAssumption DEF GoDark, gateOnly, HostTypeOK
  <2>4. Sense'
    BY <1>0, <1>a, <1>b, <1>c, <1>3, <2>1 DEF GoDark, gateOnly, HostTypeOK, Gates
  <2> QED BY <2>3, <2>4 DEF SlotInv, Sense
<1>4. CASE Plan
  <2>0. made' \in Attempts /\ made' \in 0..MaxAttempts /\ gate.target \in Model
    BY <1>0, <1>4, BoundAssumption DEF Plan, Attempts, Gates, HostTypeOK
  <2>1. gate' \in Gates
    BY <1>0, <1>4, <2>0, GateRecords DEF Plan
  <2>2. slot' \in Slots /\ slot'.a = made' /\ slot'.st \in {"Queued", "Failed"}
    BY <1>4, <2>0 DEF Plan, Slots
  <2>3. /\ model' \in [Attempts -> Model \cup {NoModel}] /\ atGen' \in [Attempts -> Nat]
        /\ generation' \in Nat /\ atGen'[made'] = generation'
    BY <1>0, <1>c, <1>4, <2>0 DEF Plan, HostTypeOK
  <2>4. HostTypeOK'
    BY <1>0, <1>4, <2>0, <2>1, <2>2, <2>3 DEF Plan, HostTypeOK
  <2>5. gate'.at \in {"kill", "free", "poll"}
    BY <1>0, <1>b, <1>4 DEF Plan, Gates
  <2>6. Sense'
    BY <1>0, <1>4, <2>0, <2>2, <2>3, <2>5 DEF Plan
  <2> QED BY <2>4, <2>6 DEF SlotInv, Sense
<1>5. CASE KillSuperseded
  <2>1. gate' \in Gates
    BY <1>0, <1>5, GateRecords DEF KillSuperseded
  <2>3. HostTypeOK'
    BY <1>0, <1>a, <1>c, <1>5, <2>1, BoundAssumption DEF KillSuperseded, gateOnly, HostTypeOK
  <2>4. Sense'
    BY <1>0, <1>a, <1>b, <1>c, <1>5, <2>1 DEF KillSuperseded, gateOnly, HostTypeOK, Gates
  <2> QED BY <2>3, <2>4 DEF SlotInv, Sense
<1>6. CASE Dispatch
  <2>1. gate' \in Gates
    BY <1>0, <1>6, GateRecords DEF Dispatch
  <2>3. HostTypeOK'
    BY <1>0, <1>a, <1>c, <1>6, <2>1, BoundAssumption DEF Dispatch, HostTypeOK
  <2>4. Sense'
    BY <1>0, <1>a, <1>b, <1>c, <1>6, <2>1 DEF Dispatch, HostTypeOK, Gates
  <2> QED BY <2>3, <2>4 DEF SlotInv, Sense
<1>7. CASE DispatchFails
  <2>1. gate' \in Gates
    BY <1>0, <1>7, GateRecords DEF DispatchFails
  <2>2. slot' \in Slots /\ slot'.a = slot.a /\ (slot'.st = slot.st \/ slot'.st = "Failed") /\ (slot' = slot \/ slot'.st = "Failed")
    BY <1>0, <1>a, <1>c, <1>7 DEF DispatchFails, FailIfCurrent
  <2>3. HostTypeOK'
    BY <1>0, <1>a, <1>c, <1>7, <2>1, <2>2, BoundAssumption DEF DispatchFails, gateOnly, HostTypeOK
  <2>4. Sense'
    BY <1>0, <1>a, <1>b, <1>c, <1>7, <2>1, <2>2 DEF DispatchFails, gateOnly, HostTypeOK
  <2> QED BY <2>3, <2>4 DEF SlotInv, Sense
<1>8. CASE PushHandle
  <2>1. gate' \in Gates
    BY <1>0, <1>8, GateRecords DEF PushHandle
  <2>2. gate.a \in Attempts
    BY <1>0, <1>8, BoundAssumption DEF PushHandle, Gates, Attempts
  <2>3. HostTypeOK'
    BY <1>0, <1>8, <2>1, <2>2 DEF PushHandle, HostTypeOK
  <2>4. Sense'
    BY <1>0, <1>b, <1>8 DEF PushHandle
  <2> QED BY <2>3, <2>4 DEF SlotInv, Sense
<1>9. CASE KillCancelled
  <2>1. gate' \in Gates
    BY <1>0, <1>9, GateRecords DEF KillCancelled
  <2>3. HostTypeOK'
    BY <1>0, <1>a, <1>c, <1>9, <2>1, BoundAssumption DEF KillCancelled, gateOnly, HostTypeOK
  <2>4. Sense'
    BY <1>0, <1>a, <1>b, <1>c, <1>9, <2>1 DEF KillCancelled, gateOnly, HostTypeOK, Gates
  <2> QED BY <2>3, <2>4 DEF SlotInv, Sense
<1>10. CASE Delete
  <2>1. gate' \in Gates
    BY <1>0, <1>10, GateRecords DEF Delete
  <2>3. HostTypeOK'
    BY <1>0, <1>a, <1>c, <1>10, <2>1, BoundAssumption DEF Delete, HostTypeOK
  <2>4. Sense'
    BY <1>0, <1>a, <1>b, <1>c, <1>10, <2>1 DEF Delete, HostTypeOK
  <2> QED BY <2>3, <2>4 DEF SlotInv, Sense
<1>11. CASE GiveUp
  <2>1. gate' \in Gates /\ gate'.at = "cancelled"
    BY <1>0, <1>11, GateRecords DEF GiveUp, GateFree
  <2>2. moves' \in 0..MaxMoves
    BY <1>0, <1>11, BoundAssumption DEF GiveUp, Move, HostTypeOK
  <2>3. HostTypeOK'
    BY <1>0, <1>11, <2>1, <2>2 DEF GiveUp, gateOnly, HostTypeOK
  <2>4. Sense'
    BY <1>0, <1>11, <2>1 DEF GiveUp, gateOnly
  <2> QED BY <2>3, <2>4 DEF SlotInv, Sense
<1> QED BY <1>1, <1>2, <1>3, <1>4, <1>5, <1>6, <1>7, <1>8, <1>9, <1>10, <1>11 DEF GateStep

\* So does a worker thread: what it makes of the slot is of the attempt being built.
LEMMA WorkerKeeps ==
  ASSUME SlotInv, NEW a \in Attempts, WorkerStep(a)
  PROVE  SlotInv'
<1> USE DEF Goes, workerOnly
<1>0. HostTypeOK /\ Sense
  BY DEF SlotInv, Sense
<1>1. /\ slot \in Slots /\ worker \in [Attempts -> {"none", "queued", "spawn", "publish", "reading",
                                                  "landing", "failing", "done"}]
      /\ UNCHANGED <<generation, made, model, atGen, late, calls, gate, wanted, installed, stopped, down,
                     taken, orderly, handles, moves>>
  BY <1>0 DEF HostTypeOK, WorkerStep, BeginBuild, Spawn, SpawnFails, Publish, ReadReady, ReadFails,
     LandReady, LandFailed
<1>2. HostTypeOK'
  <2>1. worker' \in [Attempts -> {"none", "queued", "spawn", "publish", "reading", "landing", "failing",
                                  "done"}]
    BY <1>1 DEF WorkerStep, BeginBuild, Spawn, SpawnFails, Publish, ReadReady, ReadFails, LandReady,
       LandFailed
  <2>2. slot' \in Slots /\ slot'.a = slot.a
    BY <1>1 DEF WorkerStep, BeginBuild, Spawn, SpawnFails, Publish, ReadReady, ReadFails, LandReady,
       LandFailed, Slots
  <2>3. wedged' \subseteq Attempts /\ dead' \subseteq Attempts /\ registry' \subseteq Attempts
    BY <1>0 DEF WorkerStep, BeginBuild, Spawn, SpawnFails, Publish, ReadReady, ReadFails, LandReady,
       LandFailed, HostTypeOK
  <2> QED BY <1>0, <1>1, <2>1, <2>2, <2>3 DEF HostTypeOK
<1>3. Sense'
  <2> USE DEF Sense, InGeneration, Registered, Downward, Dispatching
  <2>1. CASE BeginBuild(a)
    BY <1>0, <1>1, <2>1 DEF BeginBuild, Is, Slots
  <2>2. CASE Spawn(a)
    BY <1>0, <1>1, <2>2 DEF Spawn, Slots
  <2>3. CASE SpawnFails(a)
    BY <1>0, <1>1, <2>3 DEF SpawnFails, Slots
  <2>4. CASE Publish(a)
    BY <1>0, <1>1, <2>4 DEF Publish, Is, Slots
  <2>5. CASE ReadReady(a)
    BY <1>0, <1>1, <2>5 DEF ReadReady, Slots
  <2>6. CASE ReadFails(a)
    BY <1>0, <1>1, <2>6 DEF ReadFails, Slots
  <2>7. CASE LandReady(a)
    BY <1>0, <1>1, <2>7 DEF LandReady, Is, Slots
  <2>8. CASE LandFailed(a)
    BY <1>0, <1>1, <2>8 DEF LandFailed, Is, Slots
  <2> QED BY <2>1, <2>2, <2>3, <2>4, <2>5, <2>6, <2>7, <2>8 DEF WorkerStep
<1> QED BY <1>2, <1>3 DEF SlotInv, Sense

\* And everything else that happens.
LEMMA OthersKeep ==
  ASSUME SlotInv,
         \/ ShutdownStep \/ Stop \/ Late \/ Expire \/ Retry
         \/ \E m \in Model : Choose(m) \/ CancelRole(m)
         \/ \E a \in Attempts : Crash(a) \/ Call(a) \/ Return(a) \/ CallFails(a)
  PROVE  SlotInv'
<1>0. /\ HostTypeOK /\ Sense /\ slot \in Slots /\ IdleSlot \in Slots
      /\ IdleSlot = [st |-> "Idle", a |-> 0] /\ generation \in Nat /\ generation + 1 \in Nat
      /\ \A st \in {"Failed", "Stopping"} :
            LET s == [slot EXCEPT !.st = st] IN s \in Slots /\ s.st = st /\ s.a = slot.a
  BY BoundAssumption DEF SlotInv, Sense, HostTypeOK, IdleSlot, Slots
<1>1. ASSUME Move PROVE moves' \in 0..MaxMoves
  BY <1>0, <1>1, BoundAssumption DEF Move, HostTypeOK
<1>2. CASE TakeAll
  <2>1. HostTypeOK'
    BY <1>0, <1>2 DEF TakeAll, shutOnly, HostTypeOK
  <2>2. Sense'
    BY <1>0, <1>2 DEF TakeAll, shutOnly, HostTypeOK, Sense, InGeneration, Registered, Downward, Dispatching
  <2> QED BY <2>1, <2>2 DEF SlotInv, Sense
<1>3. CASE BumpGeneration
  <2>1. HostTypeOK'
    BY <1>0, <1>3 DEF BumpGeneration, shutOnly, HostTypeOK
  <2>2. Sense'
    BY <1>0, <1>3 DEF BumpGeneration, shutOnly, HostTypeOK, Sense, InGeneration, Registered, Downward, Dispatching
  <2> QED BY <2>1, <2>2 DEF SlotInv, Sense
<1>4. CASE StopSlot
  <2>1. HostTypeOK'
    BY <1>0, <1>4 DEF StopSlot, shutOnly, HostTypeOK
  <2>2. Sense'
    BY <1>0, <1>4 DEF StopSlot, shutOnly, HostTypeOK, Sense, InGeneration, Registered, Downward, Dispatching
  <2> QED BY <2>1, <2>2 DEF SlotInv, Sense
<1>5. CASE Joined
  <2>1. HostTypeOK'
    BY <1>0, <1>5 DEF Joined, shutOnly, HostTypeOK
  <2>2. Sense'
    BY <1>0, <1>5 DEF Joined, shutOnly, HostTypeOK, Sense, InGeneration, Registered, Downward, Dispatching
  <2> QED BY <2>1, <2>2 DEF SlotInv, Sense
<1>6. CASE Stop
  <2>1. HostTypeOK'
    BY <1>0, <1>6 DEF Stop, shutOnly, HostTypeOK
  <2>2. Sense'
    BY <1>0, <1>6 DEF Stop, shutOnly, HostTypeOK, Sense, InGeneration, Registered, Downward, Dispatching
  <2> QED BY <2>1, <2>2 DEF SlotInv, Sense
<1>7. CASE Late
  <2>1. HostTypeOK'
    BY <1>0, <1>7 DEF Late, HostTypeOK
  <2>2. Sense'
    BY <1>0, <1>7 DEF Late, HostTypeOK, Sense, InGeneration, Registered, Downward, Dispatching
  <2> QED BY <2>1, <2>2 DEF SlotInv, Sense
<1>8. CASE Expire
  <2>1. HostTypeOK'
    BY <1>0, <1>8 DEF Expire, ExpireSlot, HostTypeOK
  <2>2. Sense'
    BY <1>0, <1>8 DEF Expire, ExpireSlot, HostTypeOK, Sense, InGeneration, Registered, Downward, Dispatching
  <2> QED BY <2>1, <2>2 DEF SlotInv, Sense
<1>9. CASE Retry
  <2>1. HostTypeOK'
    BY <1>0, <1>9, <1>1 DEF Retry, HostTypeOK
  <2>2. Sense'
    BY <1>0, <1>9 DEF Retry, HostTypeOK, Sense, InGeneration, Registered, Downward, Dispatching
  <2> QED BY <2>1, <2>2 DEF SlotInv, Sense
<1>10. ASSUME NEW m \in Model, Choose(m) PROVE SlotInv'
  <2>1. HostTypeOK'
    BY <1>0, <1>10, <1>1 DEF Choose, HostTypeOK
  <2>2. Sense'
    BY <1>0, <1>10 DEF Choose, HostTypeOK, Sense, InGeneration, Registered, Downward, Dispatching
  <2> QED BY <2>1, <2>2 DEF SlotInv, Sense
<1>11. ASSUME NEW m \in Model, CancelRole(m) PROVE SlotInv'
  <2>1. /\ gate' \in Gates /\ gate'.at \in {"cancel", "cancelled"}
        /\ moves' \in 0..MaxMoves /\ UNCHANGED gateOnly /\ UNCHANGED dead
    BY <1>0, <1>1, <1>11, GateRecords DEF CancelRole, GateFree
  <2>2. \/ generation' = generation + 1 /\ slot' = IdleSlot /\ registry' = {}
        \/ UNCHANGED <<slot, generation, registry>>
    BY <1>11 DEF CancelRole
  <2>3. HostTypeOK'
    BY <1>0, <2>1, <2>2 DEF gateOnly, HostTypeOK
  <2>4. Sense'
    BY <1>0, <2>1, <2>2 DEF gateOnly, HostTypeOK, Sense, InGeneration, Registered, Downward, Dispatching
  <2> QED BY <2>3, <2>4 DEF SlotInv, Sense
<1>12. ASSUME NEW a \in Attempts, Crash(a) PROVE SlotInv'
  <2>1. HostTypeOK'
    BY <1>0, <1>12, <1>1 DEF Crash, HostTypeOK
  <2>2. Sense'
    BY <1>0, <1>12 DEF Crash, HostTypeOK, Sense, InGeneration, Registered, Downward, Dispatching
  <2> QED BY <2>1, <2>2 DEF SlotInv, Sense
<1>13. ASSUME NEW a \in Attempts, Call(a) PROVE SlotInv'
  <2>1. HostTypeOK'
    BY <1>0, <1>13, <1>1 DEF Call, callOnly, HostTypeOK
  <2>2. Sense'
    BY <1>0, <1>13 DEF Call, callOnly, HostTypeOK, Sense, InGeneration, Registered, Downward, Dispatching
  <2> QED BY <2>1, <2>2 DEF SlotInv, Sense
<1>14. ASSUME NEW a \in Attempts, Return(a) PROVE SlotInv'
  <2>1. HostTypeOK'
    BY <1>0, <1>14 DEF Return, callOnly, HostTypeOK
  <2>2. Sense'
    BY <1>0, <1>14 DEF Return, callOnly, HostTypeOK, Sense, InGeneration, Registered, Downward, Dispatching
  <2> QED BY <2>1, <2>2 DEF SlotInv, Sense
<1>15. ASSUME NEW a \in Attempts, CallFails(a) PROVE SlotInv'
  <2>1. HostTypeOK'
    BY <1>0, <1>15 DEF CallFails, callOnly, FailIfCurrent, HostTypeOK
  <2>2. Sense'
    BY <1>0, <1>15 DEF CallFails, callOnly, FailIfCurrent, HostTypeOK, Sense, InGeneration, Registered, Downward, Dispatching
  <2> QED BY <2>1, <2>2 DEF SlotInv, Sense
<1> QED BY <1>2, <1>3, <1>4, <1>5, <1>6, <1>7, <1>8, <1>9, <1>10, <1>11, <1>12, <1>13, <1>14, <1>15 DEF ShutdownStep

LEMMA SlotInvariant == HostSpec => []SlotInv
<1>1. SlotInv /\ [HostNext]_hostVars => SlotInv'
  <2> SUFFICES ASSUME SlotInv, [HostNext]_hostVars PROVE SlotInv'
    OBVIOUS
  <2>1. CASE HostNext
    BY <2>1, GateKeeps, WorkerKeeps, OthersKeep DEF HostNext
  <2>2. CASE UNCHANGED hostVars
    BY <2>2 DEF hostVars, SlotInv, HostTypeOK, InGeneration, Registered, Downward, Dispatching
  <2> QED BY <2>1, <2>2
<1> QED
  BY <1>1, HostInitially, PTL DEF HostSpec

\* A Ready slot is of the open generation and its helper registered, whatever was
\* planned, removed, timed out, retried or failed meanwhile, in any number.
THEOREM ReadyStaysServed == HostSpec => []ReadyIsServed
<1>1. SlotInv => ReadyIsServed
  BY DEF SlotInv, InGeneration, Registered, ReadyIsServed, Is, Current
<1> QED
  BY <1>1, SlotInvariant, PTL

-----------------------------------------------------------------------------
(* The repair of the vectors (VectorRepair). *)

RepairTypes ==
  /\ ready \in Embedder \cup {Missing} /\ loads \in Nat /\ draining \in BOOLEAN
  /\ vectors \in [Embedder -> SUBSET Image] /\ pass \in [Image -> Embedder \cup {Missing}]
  /\ task \in {"none", "top", "acquire", "reconcile", "repend", "completed", "stop", "exit"}
  /\ pump \in {"idle", "spawn"}
  /\ {pending, inFlight, doctored} \subseteq [model : Embedder, gen : Nat] \cup {Missing}

\* The task that works on a target has one, and so has the doctor.
HasTarget ==
  /\ task \in {"acquire", "reconcile", "repend", "completed"} => inFlight # Missing
  /\ doctor \in {"reconcile", "repend"} => doctored # Missing

\* A task runs or its spawn is still to come, never both, so that a refused spawn
\* takes back nothing but its own.
OneTask ==
  /\ task \notin {"none", "exit"} => running /\ pump = "idle"
  /\ pump = "spawn" => running

\* Once a drain of the Ready embedder has begun, no pass is done with another one.
Drained == draining => ready # Missing /\ \A i \in Image : pass[i] \in {ready, Missing}

\* A done pass has its row in the space of the embedder it was done with, or its
\* re-pend is to come, or it is excused.
Served(i) ==
  i \in vectors[pass[i]] \/ Repair!RependOwed(pass[i]) \/ <<i, pass[i]>> \in forsaken
DoneIsServed == \A i \in Image : pass[i] # Missing => Served(i)

RepairInv == RepairTypes /\ HasTarget /\ OneTask /\ Drained /\ DoneIsServed

LEMMA RepairInitially == Repair!Init => RepairInv
<1> SUFFICES ASSUME Repair!Init PROVE RepairInv
  OBVIOUS
<1>1. HasTarget /\ OneTask
  BY DEF Repair!Init, HasTarget, OneTask
<1>2. Drained /\ DoneIsServed
  BY DEF Repair!Init, Drained, DoneIsServed
<1>3. RepairTypes
  BY DEF Repair!Init, RepairTypes
<1> QED
  BY <1>1, <1>2, <1>3 DEF RepairInv

\* What a reconcile for m takes, whole or broken off, is the rows of the set S: of
\* passes done with m itself, of passes that it misjudges, or of none that is done.
LEMMA DropKeeps ==
  ASSUME RepairInv, NEW m \in Embedder, NEW S \in SUBSET Embedder, Repair!Drop(m, S)
  PROVE  /\ vectors' \in [Embedder -> SUBSET Image] /\ pass' = pass
         /\ \A i \in Image : pass[i] # Missing =>
              \/ vectors'[pass[i]] = vectors[pass[i]]
              \/ pass[i] = m /\ m \in S /\ <<i, m>> \in Repair!Done(m)
              \/ <<i, pass[i]>> \in Repair!Misjudged(m, S)
<1>1. /\ pass' = pass /\ vectors' = [n \in Embedder |-> IF n \in S THEN {} ELSE vectors[n]]
      /\ vectors' \in [Embedder -> SUBSET Image]
  BY DEF Repair!Drop, RepairInv, RepairTypes
<1>2. ASSUME NEW i \in Image, pass[i] # Missing, pass[i] \in S \ {m}
      PROVE  <<i, pass[i]>> \in Repair!Misjudged(m, S)
  <2>1. m # ready \/ ~draining
    BY <1>2 DEF RepairInv, Drained
  <2>2. <<i, pass[i]>> \in Repair!Done(pass[i])
    BY DEF Repair!Done
  <2> QED
    BY <1>2, <2>1, <2>2 DEF Repair!Misjudged
<1>3. ASSUME NEW i \in Image, pass[i] = m
      PROVE  <<i, m>> \in Repair!Done(m)
  BY <1>3 DEF Repair!Done
<1>4. \A i \in Image : pass[i] # Missing => pass[i] \in Embedder
  BY DEF RepairInv, RepairTypes
<1> QED
  BY <1>1, <1>2, <1>3, <1>4

\* A reconcile keeps the rows of the done passes, excuses them, or owes their re-pend.
LEMMA ReconcileKeeps ==
  ASSUME RepairInv, NEW m \in Embedder, NEW whole \in BOOLEAN,
         IF whole THEN Repair!Reconcile(m) ELSE Repair!ReconcileBreaks(m)
  PROVE  /\ vectors' \in [Embedder -> SUBSET Image] /\ pass' = pass /\ forsaken \subseteq forsaken'
         /\ \A i \in Image : pass[i] # Missing =>
              \/ vectors'[pass[i]] = vectors[pass[i]]
              \/ <<i, pass[i]>> \in forsaken'
              \/ whole /\ pass[i] = m /\ Repair!Dangling(m)
<1>1. CASE whole
  <2>1. Repair!Doomed(m) \in SUBSET Embedder
    BY DEF Repair!Doomed
  <2> QED
    BY <1>1, <2>1, DropKeeps DEF Repair!Reconcile, Repair!Dangling
<1>2. CASE ~whole
  <2>1. PICK S \in SUBSET Repair!Doomed(m) :
          /\ Repair!Drop(m, S)
          /\ forsaken' = forsaken \cup Repair!Misjudged(m, S)
                           \cup (IF m \in S THEN Repair!Done(m) ELSE {})
    BY <1>2 DEF Repair!ReconcileBreaks
  <2>2. S \in SUBSET Embedder
    BY DEF Repair!Doomed
  <2> QED
    BY <2>1, <2>2, DropKeeps
<1> QED
  BY <1>1, <1>2

LEMMA RepairStep ==
  ASSUME RepairInv, [Repair!Next]_repairVars
  PROVE  RepairInv'
<1> USE DEF RepairInv
<1>1. CASE UNCHANGED repairVars
  BY <1>1 DEF repairVars, RepairTypes, HasTarget, OneTask, Drained, DoneIsServed, Served, Repair!RependOwed
<1>2. ASSUME NEW m \in Embedder, Repair!Load(m) PROVE RepairInv'
  BY <1>2 DEF Repair!Load, Repair!coord, Repair!store, RepairTypes, HasTarget, OneTask, Drained,
     DoneIsServed, Served, Repair!RependOwed
<1>3. CASE Repair!Unload
  BY <1>3 DEF Repair!Unload, Repair!coord, Repair!store, RepairTypes, HasTarget, OneTask, Drained,
     DoneIsServed, Served, Repair!RependOwed
<1>4. ASSUME NEW i \in Image, Repair!Embed(i) PROVE RepairInv'
  <2>1. /\ ready \in Embedder /\ pass' = [pass EXCEPT ![i] = ready]
        /\ vectors' = [vectors EXCEPT ![ready] = @ \cup {i}] /\ forsaken' = forsaken \ {<<i, ready>>}
        /\ UNCHANGED <<ready, loads, draining, pending, inFlight, running, pump, task, doctor, doctored>>
    BY <1>4 DEF Repair!Embed, Repair!coord, RepairTypes, Drained
  <2>2. HasTarget' /\ OneTask' /\ RepairTypes' /\ Drained'
    BY <2>1 DEF HasTarget, OneTask, RepairTypes, Drained
  <2>3. ASSUME NEW j \in Image, pass'[j] # Missing PROVE Served(j)'
    <3>1. CASE j = i
      BY <2>1, <3>1 DEF Served, RepairTypes
    <3>2. CASE j # i
      <4>1. pass'[j] = pass[j] /\ Served(j) /\ vectors[pass[j]] \subseteq vectors'[pass[j]]
        BY <2>1, <2>3, <3>2 DEF DoneIsServed, RepairTypes
      <4>2. <<j, pass[j]>> # <<i, ready>>
        BY <3>2
      <4> QED
        BY <2>1, <4>1, <4>2 DEF Served, Repair!RependOwed
    <3> QED
      BY <3>1, <3>2
  <2> QED
    BY <2>2, <2>3 DEF DoneIsServed
<1>5. ASSUME NEW m \in Embedder, Repair!LoseFile(m) PROVE RepairInv'
  BY <1>5 DEF Repair!LoseFile, Repair!coord, RepairTypes, HasTarget, OneTask, Drained, DoneIsServed, Served,
     Repair!RependOwed
<1>6. CASE Repair!Drain
  <2>1. /\ pass' = [i \in Image |-> IF pass[i] = ready THEN ready ELSE Missing] /\ ready # Missing
        /\ draining' = TRUE
        /\ UNCHANGED <<ready, loads, vectors, forsaken, pending, inFlight, running, pump, task, doctor, doctored>>
    BY <1>6 DEF Repair!Drain, Repair!coord
  <2>2. HasTarget' /\ OneTask' /\ RepairTypes' /\ Drained'
    BY <2>1 DEF HasTarget, OneTask, RepairTypes, Drained
  <2>3. ASSUME NEW j \in Image, pass'[j] # Missing PROVE Served(j)'
    <3>1. pass'[j] = pass[j] /\ Served(j)
      BY <2>1, <2>3 DEF DoneIsServed
    <3> QED
      BY <2>1, <3>1 DEF Served, Repair!RependOwed
  <2> QED
    BY <2>2, <2>3 DEF DoneIsServed
<1>7. CASE Repair!Request
  <2>1. /\ pending' = Repair!ReadyTarget /\ ready # Missing
        /\ UNCHANGED <<ready, loads, draining, inFlight, task, doctor, doctored, vectors, pass, forsaken>>
        /\ UNCHANGED <<running, pump>> \/ (~running /\ running' /\ pump' = "spawn")
    BY <1>7 DEF Repair!Request, Repair!Enqueue, Repair!store
  <2>2. pending' \in [model : Embedder, gen : Nat]
    BY <2>1 DEF RepairTypes, Repair!ReadyTarget
  <2> QED
    BY <2>1, <2>2 DEF RepairTypes, HasTarget, OneTask, Drained, DoneIsServed, Served, Repair!RependOwed
<1>8. CASE Repair!Spawn
  BY <1>8 DEF Repair!Spawn, Repair!Stopped, Repair!store, RepairTypes, HasTarget, OneTask, Drained,
     DoneIsServed, Served, Repair!RependOwed
<1>9. CASE Repair!Repair \/ (task = "reconcile" /\ Repair!ReconcileBreaks(inFlight.model) /\ Repair!RepairFails)
  <2>1. PICK whole \in BOOLEAN :
          /\ inFlight.model \in Embedder /\ task = "reconcile"
          /\ UNCHANGED <<ready, loads, draining, pump, doctor, doctored, pending, inFlight, running>>
          /\ IF whole THEN Repair!Reconcile(inFlight.model) ELSE Repair!ReconcileBreaks(inFlight.model)
          /\ task' = IF ~whole THEN "stop"
                     ELSE IF Repair!Dangling(inFlight.model) THEN "repend" ELSE "completed"
    BY <1>9 DEF Repair!Repair, Repair!RepairFails, Repair!taskOnly, HasTarget, RepairTypes
  <2> DEFINE m == inFlight.model
  <2>2. /\ vectors' \in [Embedder -> SUBSET Image] /\ pass' = pass /\ forsaken \subseteq forsaken'
        /\ \A i \in Image : pass[i] # Missing =>
              \/ vectors'[pass[i]] = vectors[pass[i]]
              \/ <<i, pass[i]>> \in forsaken'
              \/ whole /\ pass[i] = m /\ Repair!Dangling(m)
    BY <2>1, ReconcileKeeps
  <2>3. RepairTypes' /\ HasTarget' /\ OneTask' /\ Drained'
    BY <2>1, <2>2 DEF RepairTypes, HasTarget, OneTask, Drained
  <2>4. ASSUME NEW i \in Image, pass'[i] # Missing PROVE Served(i)'
    BY <2>1, <2>2, <2>4 DEF Served, Repair!RependOwed, DoneIsServed
  <2> QED
    BY <2>3, <2>4 DEF DoneIsServed
<1>10. CASE Repair!RepairRepends \/ Repair!DoctorRepends
  <2>1. /\ pass' = [i \in Image |-> Missing]
        /\ UNCHANGED <<ready, loads, draining, vectors, pump, doctored, pending, inFlight, running>>
        /\ \/ task = "repend" /\ task' = "completed" /\ doctor' = doctor
           \/ task' = task /\ doctor' = "walk"
    BY <1>10 DEF Repair!RepairRepends, Repair!DoctorRepends, Repair!Repend, Repair!taskOnly, Repair!coord
  <2> QED
    BY <2>1 DEF RepairTypes, HasTarget, OneTask, Drained, DoneIsServed
<1>11. CASE Repair!RepairFails /\ task = "repend" /\ Repair!RependBreaks(inFlight.model)
  <2>1. /\ forsaken' = forsaken \cup Repair!Done(inFlight.model) /\ task' = "stop"
        /\ UNCHANGED <<ready, loads, draining, vectors, pass, pump, doctor, doctored, pending, inFlight, running>>
    BY <1>11 DEF Repair!RepairFails, Repair!RependBreaks, Repair!taskOnly
  <2>2. ASSUME NEW i \in Image, pass[i] # Missing PROVE Served(i)'
    BY <1>11, <2>1, <2>2 DEF Served, Repair!RependOwed, DoneIsServed, Repair!Done
  <2> QED
    BY <1>11, <2>1, <2>2 DEF RepairTypes, HasTarget, OneTask, Drained, DoneIsServed
<1>12. CASE \/ Repair!Take \/ Repair!Empty \/ Repair!Cancelled \/ Repair!Acquire
            \/ Repair!Completed \/ Repair!Stop \/ Repair!Exit
  BY <1>12 DEF Repair!Take, Repair!Empty, Repair!Cancelled, Repair!Acquire,
     Repair!Completed, Repair!Stop, Repair!Stopped, Repair!Exit, Repair!taskOnly, Repair!store,
     RepairTypes, HasTarget, OneTask, Drained, DoneIsServed, Served, Repair!RependOwed
<1>13. CASE Repair!DoctorCaptures
  <2>1. ready # Missing => Repair!ReadyTarget # Missing /\ Repair!ReadyTarget \in [model : Embedder, gen : Nat]
    BY RepairAssumption DEF Repair!ReadyTarget, RepairTypes
  <2> QED
    BY <1>13, <2>1 DEF Repair!DoctorCaptures, Repair!coord, Repair!store, RepairTypes, HasTarget,
       OneTask, Drained, DoneIsServed, Served, Repair!RependOwed
<1>14. CASE Repair!DoctorReconciles \/ (doctor = "reconcile" /\ Repair!ReconcileBreaks(doctored.model) /\ Repair!DoctorFails)
  <2>1. PICK whole \in BOOLEAN :
          /\ doctored.model \in Embedder /\ doctor = "reconcile"
          /\ UNCHANGED <<ready, loads, draining, pump, pending, inFlight, running, task>>
          /\ IF whole THEN Repair!Reconcile(doctored.model) ELSE Repair!ReconcileBreaks(doctored.model)
          /\ doctored' = IF whole THEN doctored ELSE Missing
          /\ doctor' = IF whole /\ Repair!Dangling(doctored.model) THEN "repend" ELSE "walk"
    BY <1>14 DEF Repair!DoctorReconciles, Repair!DoctorFails, Repair!coord, HasTarget, RepairTypes
  <2> DEFINE m == doctored.model
  <2>2. /\ vectors' \in [Embedder -> SUBSET Image] /\ pass' = pass /\ forsaken \subseteq forsaken'
        /\ \A i \in Image : pass[i] # Missing =>
              \/ vectors'[pass[i]] = vectors[pass[i]]
              \/ <<i, pass[i]>> \in forsaken'
              \/ whole /\ pass[i] = m /\ Repair!Dangling(m)
    BY <2>1, ReconcileKeeps
  <2>3. RepairTypes' /\ HasTarget' /\ OneTask' /\ Drained'
    BY <2>1, <2>2 DEF RepairTypes, HasTarget, OneTask, Drained
  <2>4. ASSUME NEW i \in Image, pass'[i] # Missing PROVE Served(i)'
    BY <2>1, <2>2, <2>4 DEF Served, Repair!RependOwed, DoneIsServed
  <2> QED
    BY <2>3, <2>4 DEF DoneIsServed
<1>15. CASE Repair!DoctorFails /\ doctor = "repend" /\ Repair!RependBreaks(doctored.model)
  <2>1. /\ forsaken' = forsaken \cup Repair!Done(doctored.model) /\ doctor' = "walk" /\ doctored' = Missing
        /\ UNCHANGED <<ready, loads, draining, vectors, pass, pump, task, pending, inFlight, running>>
    BY <1>15 DEF Repair!DoctorFails, Repair!RependBreaks, Repair!coord
  <2>2. ASSUME NEW i \in Image, pass[i] # Missing PROVE Served(i)'
    BY <1>15, <2>1, <2>2 DEF Served, Repair!RependOwed, DoneIsServed, Repair!Done
  <2> QED
    BY <1>15, <2>1, <2>2 DEF RepairTypes, HasTarget, OneTask, Drained, DoneIsServed
<1>16. CASE Repair!DoctorEnds \/ Repair!Shutdown
  BY <1>16 DEF Repair!DoctorEnds, Repair!Shutdown, Repair!coord, Repair!store,
     RepairTypes, HasTarget, OneTask, Drained, DoneIsServed, Served, Repair!RependOwed
<1>17. CASE Repair!RepairFails
  BY <1>9, <1>11, <1>17 DEF Repair!RepairFails
<1>18. CASE Repair!DoctorFails
  BY <1>14, <1>15, <1>18 DEF Repair!DoctorFails
<1> QED
  BY <1>1, <1>2, <1>3, <1>4, <1>5, <1>6, <1>7, <1>8, <1>9, <1>10, <1>12, <1>13, <1>14, <1>16, <1>17, <1>18
     DEF Repair!Next, Repair!TaskStep, Repair!DoctorStep

LEMMA RepairInvariant == Repair!Spec => []RepairInv
<1>1. RepairInv /\ [Repair!Next]_Repair!vars => RepairInv'
  BY RepairStep DEF Repair!vars, Repair!coord, Repair!store, repairVars
<1> QED
  BY <1>1, RepairInitially, PTL DEF Repair!Spec

\* A pass done with the embedder that is Ready has its row in that embedder's space
\* or its re-pend is to come, across loads, swaps under a chosen target, retries,
\* lost files, errors and the doctor, with the images DoneHasVector names excused.
THEOREM DoneHasItsVector == Repair!Spec => []DoneHasVector
<1>1. RepairInv => DoneHasVector
  BY RepairAssumption DEF RepairInv, RepairTypes, DoneIsServed, Served, DoneHasVector, Repair!DoneHasVector
<1> QED
  BY <1>1, RepairInvariant, PTL

-----------------------------------------------------------------------------
(* The background pumps (Pumps). *)

PumpTypes ==
  /\ at \in [Pump!Lane -> {"none", "rest", "ask", "turn", "item", "more"}]
  /\ begun \in [Pump!Lane -> Nat]
  /\ armed \in BOOLEAN /\ heeds \in BOOLEAN /\ accel \in BOOLEAN
  /\ passes \in [Pump!Pass -> Nat]

\* A batch that does not heed the microphone works nothing that contends with it.
Harmless == ~heeds => "text" \notin rig /\ ("image" \in rig => accel)

\* A lane that heeds the armed microphone has begun its one row already, or has a
\* tested row still to begin.
OneBegun ==
  /\ \A l \in Pump!Lane : begun[l] <= 1
  /\ \A l \in Pump!Lane : armed /\ Pump!Heeds(l) /\ at[l] = "item" => begun[l] = 0

PumpInv == PumpTypes /\ Harmless /\ OneBegun

LEMMA PumpInitially == Pump!Init => PumpInv
<1> SUFFICES ASSUME Pump!Init PROVE PumpInv
  OBVIOUS
<1>1. PumpTypes
  BY DEF Pump!Init, PumpTypes
<1>2. Harmless /\ OneBegun
  BY DEF Pump!Init, Harmless, OneBegun
<1> QED BY <1>1, <1>2 DEF PumpInv

\* What contends with the recognizer is worked by a lane that heeds it.
LEMMA ContendersHeed ==
  ASSUME PumpInv, NEW l \in Pump!Lane, NEW p \in Pump!Passes(l), Pump!Contends(l, p)
  PROVE  Pump!Heeds(l)
BY DEF PumpInv, PumpTypes, Harmless, Pump!Passes, Pump!Contends, Pump!Heeds, Pump!Lane, Pump!Pass

LEMMA PumpLaneStep ==
  ASSUME PumpInv, NEW l \in Pump!Lane, Pump!PumpStep(l)
  PROVE  PumpInv'
<1> USE DEF PumpInv, PumpTypes, Pump!env, Pump!sleep
<1>1. CASE Pump!Look(l)
  BY <1>1 DEF Pump!Look, Harmless, OneBegun, Pump!Heeds
<1>2. CASE l = "ingest" /\ Pump!Notice
  BY <1>2 DEF Pump!Notice, Harmless, OneBegun, Pump!Heeds
<1>3. CASE Pump!Admit(l)
  <2>1. PumpTypes'
    BY <1>3 DEF Pump!Admit
  <2>2. Harmless'
    <3>1. CASE l = "embed"
      <4>1. /\ heeds' = ~armed /\ accel' = accel
            /\ armed => rig' \subseteq {"image"} /\ (~accel => rig' = {})
        BY <1>3, <3>1 DEF Pump!Admit, Pump!Rig
      <4> QED BY <4>1 DEF Harmless
    <3>2. CASE l # "embed"
      BY <1>3, <3>2 DEF Pump!Admit, Harmless
    <3> QED BY <3>1, <3>2
  <2>3. OneBegun'
    BY <1>3 DEF Pump!Admit, OneBegun, Pump!Heeds
  <2> QED BY <2>1, <2>2, <2>3
<1>4. CASE Pump!Test(l)
  BY <1>4 DEF Pump!Test, Pump!Goes, Harmless, OneBegun, Pump!Heeds
<1>5. CASE Pump!Item(l)
  <2>1. PICK p \in Pump!Passes(l) :
          /\ passes[p] > 0 /\ passes' = [passes EXCEPT ![p] = @ - 1]
          /\ begun' = [begun EXCEPT ![l] = IF armed /\ Pump!Contends(l, p) THEN @ + 1 ELSE @]
    BY <1>5 DEF Pump!Item
  <2>2. /\ at[l] = "item" /\ at' = [at EXCEPT ![l] = "more"]
        /\ UNCHANGED <<rig, heeds, accel, armed>>
    BY <1>5 DEF Pump!Item
  <2>3. armed /\ Pump!Contends(l, p) => begun[l] = 0
    BY <2>2, ContendersHeed DEF OneBegun
  <2>4. begun'[l] \in Nat /\ begun'[l] <= 1 /\ begun' \in [Pump!Lane -> Nat]
    BY <2>1, <2>3 DEF OneBegun
  <2>5. passes' \in [Pump!Pass -> Nat]
    <3>1. CASE p \in Pump!Pass
      <4>1. passes[p] \in Nat /\ passes[p] > 0
        BY <2>1, <3>1
      <4>2. passes[p] - 1 \in Nat
        BY <4>1
      <4> QED BY <2>1, <3>1, <4>2
    <3>2. CASE p \notin Pump!Pass
      BY <2>1, <3>2
    <3> QED BY <3>1, <3>2
  <2>6. OneBegun'
    BY <2>1, <2>2, <2>4 DEF OneBegun, Pump!Heeds
  <2> QED BY <2>2, <2>4, <2>5, <2>6 DEF Harmless
<1>6. CASE Pump!End(l)
  BY <1>6 DEF Pump!End, Harmless, OneBegun, Pump!Heeds
<1>7. CASE Pump!Walk(l)
  BY <1>7 DEF Pump!Walk, Harmless, OneBegun, Pump!Heeds
<1> QED
  BY <1>1, <1>2, <1>3, <1>4, <1>5, <1>6, <1>7 DEF Pump!PumpStep

LEMMA PumpInvariant == Pump!PumpsSpec => []PumpInv
<1>1. PumpInv /\ [Pump!Next]_Pump!vars => PumpInv'
  <2> SUFFICES ASSUME PumpInv, [Pump!Next]_Pump!vars PROVE PumpInv'
    OBVIOUS
  <2> USE DEF PumpInv, PumpTypes, Pump!env, Pump!sleep
  <2>1. ASSUME NEW l \in Pump!Lane, Pump!PumpStep(l) PROVE PumpInv'
    BY <2>1, PumpLaneStep
  <2>2. ASSUME NEW p \in Pump!Pass, Pump!Arrive(p) PROVE PumpInv'
    BY <2>2 DEF Pump!Arrive, Harmless, OneBegun, Pump!Heeds
  <2>3. CASE Pump!Configure \/ Pump!DiskTurns \/ Pump!Suspend \/ Pump!FallDue
    BY <2>3 DEF Pump!Configure, Pump!DiskTurns, Pump!Suspend, Pump!FallDue, Harmless, OneBegun, Pump!Heeds
  <2>4. CASE Pump!ToggleMic
    BY <2>4 DEF Pump!ToggleMic, Harmless, OneBegun, Pump!Heeds
  <2>5. CASE UNCHANGED Pump!vars
    BY <2>5 DEF Pump!vars, Harmless, OneBegun, Pump!Heeds
  <2> QED BY <2>1, <2>2, <2>3, <2>4, <2>5 DEF Pump!Next
<1> QED
  BY <1>1, PumpInitially, PTL DEF Pump!PumpsSpec

\* However often the microphone is armed and disarmed during batches, a lane that
\* shares the processor with the recognizer begins at most the one row that it had
\* tested before.
THEOREM OneRowAtMost == Pump!PumpsSpec => []MicPreempts
<1>1. PumpInv => MicPreempts
  BY DEF PumpInv, OneBegun, MicPreempts, Pump!MicPreempts
<1> QED
  BY <1>1, PumpInvariant, PTL

-----------------------------------------------------------------------------
(* Voice capture (Capture). *)

\* Least and greatest numbers.
Below == {p \in Nat \X Nat : p[1] < p[2]}

LEMMA BelowWellFounded == IsWellFoundedOn(Below, Nat)
<1>1. Below = OpToRel(<, Nat)
  BY DEF Below, OpToRel
<1> QED
  BY <1>1, NatLessThanWellFounded

LEMMA LeastOf ==
  ASSUME NEW T \in SUBSET Nat, T # {}
  PROVE  \E x \in T : \A y \in T : x <= y
<1>1. IsWellFoundedOn(Below, Nat)
  BY BelowWellFounded
<1>2. PICK x \in T : \A y \in T : ~(<<y, x>> \in Below)
  BY <1>1, WFMin
<1>3. ASSUME NEW y \in T
      PROVE  x <= y
  <2>1. x \in Nat /\ y \in Nat
    OBVIOUS
  <2>2. ~(y < x)
    BY <1>2, <2>1 DEF Below
  <2> QED
    BY <2>1, <2>2
<1> QED
  BY <1>3

LEMMA MinIn ==
  ASSUME NEW T \in SUBSET Nat, T # {}
  PROVE  Min(T) \in T /\ \A y \in T : Min(T) <= y
BY LeastOf DEF Min

LEMMA MaxIn ==
  ASSUME NEW n \in Nat, NEW T \in SUBSET (0..n), T # {}
  PROVE  Max(T) \in T /\ \A y \in T : Max(T) >= y
<1> DEFINE U == {n - y : y \in T}
<1>1. U \in SUBSET Nat /\ U # {}
  OBVIOUS
<1>2. PICK u \in U : \A v \in U : u <= v
  BY <1>1, LeastOf
<1>3. PICK x \in T : u = n - x
  BY <1>2
<1>4. ASSUME NEW y \in T
      PROVE  x >= y
  <2>1. n - y \in U
    OBVIOUS
  <2>2. n - x <= n - y
    BY <1>2, <1>3, <2>1
  <2>3. x \in Int /\ y \in Int
    OBVIOUS
  <2> QED
    BY <2>2, <2>3
<1>5. \E z \in T : \A y \in T : z >= y
  BY <1>4
<1> QED
  BY <1>5 DEF Max

-----------------------------------------------------------------------------
(* The invariant. *)

Kinds == {"scopes", "speech", "finals", "arms", "disarms", "touches", "faults"}
Views == Scope \cup {[targets |-> {}, subject |-> Nothing]}
Pictures == UNION {v.targets : v \in Views}
Subjects == {v.subject : v \in Views}
\* Streams: speech is heard on one that has had a frame.
Pipes == {p \in [anchor : Int \cup {Nothing}, deadline : Int \cup {Nothing}, voice : BOOLEAN,
                 quiet : Int, heard : Int, seg : Nat, part : Int \cup {Nothing}, stream : Nat] :
            p.voice => p.anchor # Nothing}
Utterances == [onset : Int, end : Int \cup {Nothing}, uid : Nat \cup {Nothing},
               targets : SUBSET Pictures, subject : Subjects, born : Nat, kept : BOOLEAN, stream : Nat]

CaptureTypes ==
  /\ now \in Nat /\ session \in Nat /\ shown \in Seq([at : Nat, scope : Views]) /\ oldest \in 1..Len(shown)
  /\ left \in [Kinds -> Nat]
  /\ pipe \in Pipes \cup {Nothing} /\ flight \in Seq(Utterances)

\* Who holds what: an armed microphone has a stream, a stream is closed with its
\* utterances, a rotation drains only what it disarmed, and a command waits
\* either for its touch or for its turn.
Hands ==
  /\ Armed => Streaming
  /\ ~Streaming => flight = <<>>
  /\ toucher = "draining" => ~Armed
  /\ toucher # "out" => cmd = "none"
  /\ toucher = "out" => want = "none"

\* A stream is numbered by the arms that were left, and the next will be less.
Numbered ==
  Streaming =>
    /\ pipe.stream >= left["arms"]
    /\ "arm" \in {cmd, want} => pipe.stream > left["arms"]
    /\ \A i \in DOMAIN flight : flight[i].stream >= pipe.stream

\* The targets and subject are those of the i-th snapshot s and of what came after it.
Fits(s, i, targets, subject) ==
  /\ subject = s[i].scope.subject
  /\ s[i].scope.targets \subseteq targets
  /\ targets \subseteq UNION {s[j].scope.targets : j \in i..Len(s)}

\* OnView, of the snapshots s.
Seen(s, t) == {i \in DOMAIN s : s[i].at <= t /\ (i < Len(s) => s[i + 1].at >= t)}

\* An utterance of the stream p began at an instant of the past, has the number
\* of a segment no later than the current one, whose partial was near its onset,
\* and fits what was on view at its onset, if that was in the ring.
Bound(f, p, s, n) ==
  f.stream = p.stream =>
    /\ p.anchor # Nothing /\ p.anchor + f.onset <= n
    /\ f.uid # Nothing => f.uid <= p.seg
    /\ f.uid = p.seg => p.part # Nothing /\ Distance(f.onset, p.part) <= Skew
    /\ f.kept => \E i \in Seen(s, p.anchor + f.onset) : Fits(s, i, f.targets, f.subject)

AllBound(fl, p, s, n) == p # Nothing => \A i \in DOMAIN fl : Bound(fl[i], p, s, n)

CaptureInv ==
  CaptureTypes /\ Hands /\ Numbered /\ AllBound(flight, pipe, shown, now)

-----------------------------------------------------------------------------
(* What the model's operators return. *)

LEMMA SpendTyped ==
  ASSUME left \in [Kinds -> Nat], NEW what \in Kinds, Spend(what)
  PROVE  /\ left' \in [Kinds -> Nat]
         /\ left'["arms"] <= left["arms"]
         /\ what # "arms" => left'["arms"] = left["arms"]
         /\ what = "arms" => left'["arms"] < left["arms"]
<1>1. PICK l : l = left'
  OBVIOUS
<1>2. l = [left EXCEPT ![what] = left[what] - 1] /\ left[what] > 0 /\ left[what] \in Nat
  BY <1>1 DEF Spend
<1>3. left[what] - 1 \in Nat
  BY <1>2
<1>4. l \in [Kinds -> Nat]
  BY <1>2, <1>3
<1>5. "arms" \in Kinds /\ left["arms"] \in Nat
  BY DEF Kinds
<1>6. /\ l["arms"] <= left["arms"]
      /\ what # "arms" => l["arms"] = left["arms"]
      /\ what = "arms" => l["arms"] < left["arms"]
  BY <1>2, <1>3, <1>5
<1> QED
  BY <1>1, <1>4, <1>6

LEMMA RingFacts ==
  ASSUME CaptureTypes
  PROVE  /\ Len(shown) \in Nat /\ DOMAIN shown = 1..Len(shown) /\ oldest \in 1..Len(shown)
         /\ \A i \in 1..Len(shown) : shown[i].at \in Nat /\ shown[i].scope \in Views
<1>1. shown \in Seq([at : Nat, scope : Views]) /\ oldest \in 1..Len(shown)
  BY DEF CaptureTypes
<1> DEFINE Snapshots == [at : Nat, scope : Views]
<1>2. shown \in Seq(Snapshots)
  BY <1>1
<1>3. \A i \in 1..Len(shown) : shown[i] \in Snapshots
  <2> HIDE DEF Snapshots
  <2> QED BY <1>2
<1>4. Len(shown) \in Nat /\ DOMAIN shown = 1..Len(shown)
  <2> HIDE DEF Snapshots
  <2> QED BY <1>2
<1> QED
  BY <1>1, <1>3, <1>4

LEMMA FlightFacts ==
  ASSUME CaptureTypes
  PROVE  /\ Len(flight) \in Nat /\ DOMAIN flight = 1..Len(flight)
         /\ \A i \in 1..Len(flight) : flight[i] \in Utterances
<1>1. flight \in Seq(Utterances)
  BY DEF CaptureTypes
<1> QED
  BY <1>1

\* A lookup finds a snapshot, and one that was on view if the ring reaches back.
LEMMA ViewedAt ==
  ASSUME CaptureTypes, NEW t \in Int
  PROVE  /\ ScopeAt(t) \in Views
         /\ Kept(t) => \E i \in Seen(shown, t) : ScopeAt(t) = shown[i].scope
<1> DEFINE T == {oldest} \cup {i \in oldest..Len(shown) : shown[i].at <= t}
<1>1. Len(shown) \in Nat /\ DOMAIN shown = 1..Len(shown) /\ oldest \in 1..Len(shown)
      /\ \A i \in 1..Len(shown) : shown[i].at \in Nat /\ shown[i].scope \in Views
  BY RingFacts
<1>2. T \in SUBSET (0..Len(shown)) /\ T # {}
  BY <1>1
<1>3. PICK m : m = Max(T)
  OBVIOUS
<1>4. m \in T /\ \A y \in T : m >= y
  BY <1>1, <1>2, <1>3, MaxIn
<1>5. m \in 1..Len(shown) /\ ScopeAt(t) = shown[m].scope
  BY <1>1, <1>3, <1>4 DEF ScopeAt
<1>6. ASSUME Kept(t)
      PROVE  m \in Seen(shown, t)
  <2>1. shown[m].at <= t
    BY <1>4, <1>6 DEF Kept
  <2>2. ASSUME m < Len(shown)
        PROVE  shown[m + 1].at >= t
    <3>1. m + 1 \in oldest..Len(shown) /\ m + 1 \notin T
      BY <1>1, <1>4, <1>5, <2>2
    <3>2. ~(shown[m + 1].at <= t)
      BY <3>1
    <3>3. shown[m + 1].at \in Nat
      BY <1>1, <3>1
    <3> QED
      BY <3>2, <3>3
  <2> QED
    BY <1>1, <1>5, <2>1, <2>2 DEF Seen
<1> QED
  BY <1>1, <1>5, <1>6

\* What is looked up fits the snapshot it is looked up in.
LEMMA LookupFits ==
  ASSUME CaptureTypes, NEW t \in Int, Kept(t)
  PROVE  \E i \in Seen(shown, t) : Fits(shown, i, ScopeAt(t).targets, ScopeAt(t).subject)
<1>1. PICK i \in Seen(shown, t) : ScopeAt(t) = shown[i].scope
  BY ViewedAt
<1>2. i \in i..Len(shown)
  BY <1>1, RingFacts DEF Seen
<1>3. Fits(shown, i, ScopeAt(t).targets, ScopeAt(t).subject)
  BY <1>1, <1>2 DEF Fits
<1> QED
  BY <1>1, <1>3

\* The ring keeps at least the newest snapshot.
LEMMA RingKeeps ==
  ASSUME CaptureTypes, NEW t
  PROVE  Evict(Len(shown) + 1, t) \in 1..(Len(shown) + 1)
<1> DEFINE n == Len(shown) + 1
           T == {i \in oldest..n : i > n - Capacity /\ (i = n \/ t - shown[i].at <= Window)}
<1>1. Len(shown) \in Nat /\ oldest \in 1..Len(shown) /\ Capacity \in Nat \ {0}
  BY CaptureAssumption, RingFacts
<1>2. n \in T /\ T \in SUBSET Nat
  BY <1>1
<1>3. Min(T) \in T
  BY <1>2, MinIn
<1> QED
  BY <1>1, <1>3 DEF Evict

\* A segment claims no utterance, its own, or an unclaimed one within the skew.
LEMMA Associated ==
  ASSUME CaptureTypes, NEW id, NEW onset \in Int
  PROVE  LET a == Associate(id, onset)
         IN \/ a = 0
            \/ /\ a \in DOMAIN flight
               /\ \/ flight[a].uid = id
                  \/ flight[a].uid = Nothing /\ Distance(flight[a].onset, onset) <= Skew
<1> DEFINE own == {i \in DOMAIN flight : flight[i].uid = id}
           near == {i \in DOMAIN flight : flight[i].uid = Nothing
                                          /\ Distance(flight[i].onset, onset) <= Skew}
           nearest == {i \in near : \A j \in near :
                         Distance(flight[i].onset, onset) <= Distance(flight[j].onset, onset)}
<1>1. DOMAIN flight \subseteq Nat /\ \A i \in DOMAIN flight : flight[i].onset \in Int
  BY FlightFacts DEF Utterances
<1>2. CASE own # {}
  <2>1. Min(own) \in own
    BY <1>1, <1>2, MinIn
  <2> QED
    BY <1>2, <2>1 DEF Associate
<1>3. CASE own = {} /\ near # {}
  <2> DEFINE far == {Distance(flight[i].onset, onset) : i \in near}
  <2>1. \A i \in near : Distance(flight[i].onset, onset) \in Nat
    BY <1>1 DEF Distance
  <2>2. far \in SUBSET Nat /\ far # {}
    BY <1>3, <2>1
  <2>3. PICK d \in far : \A e \in far : d <= e
    BY <2>2, LeastOf
  <2>4. PICK i \in near : d = Distance(flight[i].onset, onset)
    BY <2>3
  <2>5. i \in nearest
    BY <2>3, <2>4
  <2>6. Min(nearest) \in nearest
    <3>1. nearest \in SUBSET Nat /\ nearest # {}
      BY <1>1, <2>5
    <3> HIDE DEF nearest
    <3> QED
      BY <3>1, MinIn
  <2>7. Associate(id, onset) = Min(nearest)
    BY <1>3 DEF Associate
  <2> QED
    BY <2>6, <2>7
<1>4. CASE own = {} /\ near = {}
  BY <1>4 DEF Associate
<1> QED
  BY <1>2, <1>3, <1>4

\* What a final leaves in flight was in flight.
LEMMA RestIsKept ==
  ASSUME CaptureTypes, NEW claimed, NEW onset, NEW end
  PROVE  /\ Rest(claimed, onset, end) \in Seq(Utterances)
         /\ \A k \in DOMAIN Rest(claimed, onset, end) : \E i \in DOMAIN flight :
              Rest(claimed, onset, end)[k] = flight[i]
<1> DEFINE kept == {i \in DOMAIN flight : i # claimed /\ ~Merged(i, onset, end)}
           Upto(i) == {j \in kept : j <= i}
           rank == [i \in kept |-> Cardinality(Upto(i))]
           c == Cardinality(kept)
<1>1. Len(flight) \in Nat /\ DOMAIN flight = 1..Len(flight) /\ flight \in Seq(Utterances)
  BY DEF CaptureTypes
<1>2. kept \subseteq 1..Len(flight)
  BY <1>1
<1> HIDE DEF kept
<1>3. IsFiniteSet(kept) /\ c \in Nat
  <2>1. IsFiniteSet(1..Len(flight))
    <3>1. PICK n \in Nat : n = Len(flight)
      BY <1>1
    <3>2. IsFiniteSet(1..n)
      BY FS_Interval
    <3> QED
      BY <3>1, <3>2
  <2>2. IsFiniteSet(kept)
    BY <1>2, <2>1, FS_Subset
  <2> QED
    BY <2>2, FS_CardinalityType
<1>4. ASSUME NEW i \in kept
      PROVE  rank[i] \in 1..c /\ IsFiniteSet(Upto(i))
  <2>1. Upto(i) \in SUBSET kept /\ i \in Upto(i)
    BY <1>2
  <2>2. IsFiniteSet(Upto(i)) /\ Cardinality(Upto(i)) <= c
    BY <1>3, <2>1, FS_Subset
  <2>3. Cardinality(Upto(i)) \in Nat /\ Cardinality(Upto(i)) # 0
    BY <2>1, <2>2, FS_CardinalityType, FS_EmptySet
  <2> QED
    BY <1>3, <2>2, <2>3
<1>5. ASSUME NEW i \in kept, NEW j \in kept, i < j
      PROVE  rank[i] # rank[j]
  <2>1. Upto(i) \in SUBSET Upto(j) /\ j \in Upto(j) /\ j \notin Upto(i)
    <3>1. i \in Int /\ j \in Int /\ kept \subseteq Int
      BY <1>1, <1>2
    <3>2. \A x \in kept : x <= i => x <= j
      BY <1>5, <3>1
    <3>3. ~(j <= i)
      BY <1>5, <3>1
    <3>4. \A x \in Upto(i) : x \in Upto(j)
      BY <3>2
    <3>5. j \in Upto(j) /\ j \notin Upto(i)
      BY <3>1, <3>3
    <3> QED
      BY <3>4, <3>5
  <2>2. IsFiniteSet(Upto(j))
    <3> HIDE DEF Upto, rank
    <3> QED BY <1>4
  <2>3. Cardinality(Upto(i)) # Cardinality(Upto(j))
    <3> HIDE DEF Upto
    <3> QED BY <2>1, <2>2, FS_Subset
  <2> QED
    BY <2>3
<1>6. rank \in Injection(kept, 1..c)
  <2>1. rank \in [kept -> 1..c]
    BY <1>4
  <2>2. ASSUME NEW i \in kept, NEW j \in kept, rank[i] = rank[j]
        PROVE  i = j
    <3>1. i \in Int /\ j \in Int
      BY <1>2
    <3>2. ~(i < j) /\ ~(j < i)
      BY <1>5, <2>2
    <3> QED
      BY <3>1, <3>2
  <2> HIDE DEF rank
  <2> QED
    BY <2>1, <2>2 DEF Injection, IsInjective
<1>7. rank \in Surjection(kept, 1..c)
  <2>1. IsFiniteSet(1..c) /\ Cardinality(1..c) = c
    <3>1. PICK b \in Nat : b = c
      BY <1>3
    <3>2. IsFiniteSet(1..b) /\ Cardinality(1..b) = IF 1 > b THEN 0 ELSE b - 1 + 1
      BY FS_Interval
    <3>3. Cardinality(1..b) = b
      BY <3>2
    <3> QED
      BY <3>1, <3>2, <3>3
  <2> HIDE DEF rank
  <2> QED
    BY <1>6, <2>1, FS_Injection
<1>8. ASSUME NEW k \in 1..c
      PROVE  (CHOOSE i \in kept : Cardinality({j \in kept : j <= i}) = k) \in kept
  <2>1. \E i \in kept : rank[i] = k
    <3> HIDE DEF rank
    <3> QED BY <1>7 DEF Surjection
  <2>2. \E i \in kept : Cardinality({j \in kept : j <= i}) = k
    BY <2>1
  <2> QED
    BY <2>2
<1> DEFINE Chosen(k) == CHOOSE i \in kept : Cardinality({j \in kept : j <= i}) = k
           rest == [k \in 1..c |-> flight[Chosen(k)]]
<1>9. Rest(claimed, onset, end) = rest
  BY DEF Rest, kept
<1>10. \A k \in 1..c : Chosen(k) \in kept
  BY <1>8
<1> HIDE DEF Chosen, c
<1>11. \A k \in 1..c : flight[Chosen(k)] \in Utterances /\ Chosen(k) \in DOMAIN flight
  BY <1>1, <1>2, <1>10, FlightFacts
<1>12. rest \in Seq(Utterances)
  BY <1>3, <1>11
<1>13. \A k \in DOMAIN rest : \E i \in DOMAIN flight : rest[k] = flight[i]
  BY <1>11
<1> HIDE DEF rest
<1> QED
  BY <1>9, <1>12, <1>13

-----------------------------------------------------------------------------
(* What keeps an utterance bound. *)

LEMMA PipeFacts ==
  ASSUME CaptureTypes, Streaming
  PROVE  pipe \in Pipes
BY DEF CaptureTypes, Streaming

LEMMA NothingIsNoPipe == Nothing \notin Pipes /\ Nothing \notin Int /\ Nothing \notin Nat
BY CaptureAssumption DEF Pipes

LEMMA BoundKeeps ==
  ASSUME NEW f \in Utterances, NEW p \in Pipes, NEW q \in Pipes, NEW s, NEW n \in Nat, NEW m \in Nat,
         Bound(f, p, s, n), n <= m,
         q.stream = p.stream, q.anchor = p.anchor, q.seg = p.seg, q.part = p.part
  PROVE  Bound(f, q, s, m)
<1>1. f.onset \in Int /\ p.anchor \in Int \cup {Nothing}
  BY DEF Utterances, Pipes
<1>2. p.anchor # Nothing /\ p.anchor + f.onset <= n => p.anchor + f.onset <= m
  BY <1>1
<1> QED
  BY <1>2 DEF Bound

\* A new snapshot ends the view of the last one, now, and adds its pictures.
LEMMA BoundGrows ==
  ASSUME NEW f \in Utterances, NEW p \in Pipes, NEW n \in Nat, NEW v \in Views,
         NEW s \in Seq([at : Nat, scope : Views]), Bound(f, p, s, n)
  PROVE  Bound([f EXCEPT !.targets = @ \cup v.targets], p, Append(s, [at |-> n, scope |-> v]), n)
<1> DEFINE Snapshots == [at : Nat, scope : Views]
           e == [at |-> n, scope |-> v]
           g == [f EXCEPT !.targets = @ \cup v.targets]
           u == Append(s, e)
<1>1. s \in Seq(Snapshots) /\ e \in Snapshots
  OBVIOUS
<1>2. /\ Len(s) \in Nat /\ DOMAIN s = 1..Len(s) /\ Len(u) = Len(s) + 1 /\ DOMAIN u = 1..(Len(s) + 1)
      /\ \A i \in 1..Len(s) : u[i] = s[i]
      /\ u[Len(s) + 1] = e
  <2> HIDE DEF Snapshots, e
  <2> QED BY <1>1
<1>3. /\ g.onset = f.onset /\ g.uid = f.uid /\ g.kept = f.kept /\ g.subject = f.subject
      /\ g.stream = f.stream /\ g.targets = f.targets \cup v.targets
  BY DEF Utterances
<1>4. e.at = n /\ e.scope = v
  OBVIOUS
<1> HIDE DEF e, u, g
<1>5. ASSUME NEW i \in Seen(s, p.anchor + f.onset), Fits(s, i, f.targets, f.subject),
             p.anchor + f.onset <= n
      PROVE  i \in Seen(u, p.anchor + f.onset) /\ Fits(u, i, g.targets, g.subject)
  <2>1. i \in 1..Len(s) /\ s[i].at <= p.anchor + f.onset
        /\ (i < Len(s) => s[i + 1].at >= p.anchor + f.onset)
    BY <1>2, <1>5 DEF Seen
  <2>2. ASSUME i < Len(u)
        PROVE  u[i + 1].at >= p.anchor + f.onset
    <3>1. CASE i < Len(s)
      BY <1>2, <2>1, <3>1
    <3>2. CASE i = Len(s)
      <4>1. u[i + 1].at = n
        BY <1>2, <1>4, <3>2
      <4>2. p.anchor + f.onset <= n
        BY <1>5
      <4> QED
        BY <4>1, <4>2
    <3>3. i < Len(s) \/ i = Len(s)
      <4>1. i \in Int /\ Len(s) \in Int /\ i < Len(s) + 1
        BY <1>2, <2>1, <2>2
      <4> QED
        BY <4>1
    <3> QED
      BY <3>1, <3>2, <3>3
  <2>3. i \in Seen(u, p.anchor + f.onset)
    BY <1>2, <2>1, <2>2 DEF Seen
  <2>4. u[i] = s[i] /\ \A j \in i..Len(s) : j \in i..Len(u) /\ u[j] = s[j]
    BY <1>2, <2>1
  <2>5. Len(s) + 1 \in i..Len(u) /\ u[Len(s) + 1].scope = v
    BY <1>2, <1>4, <2>1
  <2>6. (UNION {s[j].scope.targets : j \in i..Len(s)}) \cup v.targets
          \subseteq UNION {u[j].scope.targets : j \in i..Len(u)}
    <3>1. \A j \in i..Len(s) : s[j].scope.targets \subseteq UNION {u[k].scope.targets : k \in i..Len(u)}
      BY <2>4
    <3>2. v.targets \subseteq UNION {u[k].scope.targets : k \in i..Len(u)}
      BY <2>5
    <3> DEFINE U == UNION {u[k].scope.targets : k \in i..Len(u)}
    <3>3. ASSUME NEW x \in UNION {s[j].scope.targets : j \in i..Len(s)}
          PROVE  x \in U
      <4>1. PICK j \in i..Len(s) : x \in s[j].scope.targets
        OBVIOUS
      <4> HIDE DEF U
      <4> QED
        BY <3>1, <4>1 DEF U
    <3> HIDE DEF U
    <3>4. v.targets \subseteq U
      BY <3>2 DEF U
    <3> QED
      BY <3>3, <3>4 DEF U
  <2>7. Fits(u, i, g.targets, g.subject)
    <3>1. /\ f.subject = s[i].scope.subject /\ s[i].scope.targets \subseteq f.targets
          /\ f.targets \subseteq UNION {s[j].scope.targets : j \in i..Len(s)}
      BY <1>5 DEF Fits
    <3>2. g.targets \subseteq UNION {u[j].scope.targets : j \in i..Len(u)}
      <4>1. \A x \in f.targets : x \in (UNION {s[j].scope.targets : j \in i..Len(s)}) \cup v.targets
        BY <3>1
      <4>2. f.targets \cup v.targets \subseteq UNION {u[j].scope.targets : j \in i..Len(u)}
        BY <2>6, <4>1
      <4> QED
        BY <1>3, <4>2
    <3>3. g.subject = u[i].scope.subject /\ u[i].scope.targets \subseteq g.targets
      BY <1>3, <2>4, <3>1
    <3> QED
      BY <3>2, <3>3 DEF Fits
  <2> QED
    BY <2>3, <2>7
<1>6. Bound(g, p, u, n)
  BY <1>3, <1>5 DEF Bound
<1> QED
  BY <1>6 DEF g, u, e

\* Nothing of the utterance that Bound is about has changed.
LEMMA BoundAlike ==
  ASSUME NEW f, NEW g, NEW p, NEW s, NEW n, Bound(f, p, s, n),
         g.onset = f.onset, g.uid = f.uid, g.kept = f.kept, g.subject = f.subject,
         g.stream = f.stream, g.targets = f.targets
  PROVE  Bound(g, p, s, n)
BY DEF Bound

-----------------------------------------------------------------------------
(* What a step leaves alone. *)

LEMMA TypesKeep ==
  ASSUME CaptureTypes, UNCHANGED ring, now' \in Nat, session' \in Nat, left' \in [Kinds -> Nat],
         pipe' \in Pipes \cup {Nothing}, flight' \in Seq(Utterances)
  PROVE  CaptureTypes'
BY DEF CaptureTypes, ring

\* The stream and its utterances.
LEMMA QuietStep ==
  ASSUME CaptureInv, UNCHANGED <<ring, pipe, flight>>, now' \in Nat, now <= now',
         session' \in Nat, left' \in [Kinds -> Nat], Hands', left'["arms"] <= left["arms"],
         Streaming /\ "arm" \in {cmd', want'} => pipe.stream > left'["arms"]
  PROVE  CaptureInv'
<1>1. CaptureTypes'
  BY TypesKeep DEF CaptureInv, CaptureTypes
<1>2. Numbered'
  <2>1. PICK a \in Nat : a = left'["arms"]
    BY DEF Kinds
  <2>2. left["arms"] \in Nat
    BY DEF CaptureInv, CaptureTypes, Kinds
  <2>3. ASSUME Streaming
        PROVE  pipe.stream >= a /\ pipe.stream \in Nat
    <3>1. pipe \in Pipes
      BY <2>3, PipeFacts DEF CaptureInv
    <3>2. pipe.stream \in Nat /\ pipe.stream >= left["arms"]
      BY <2>3, <3>1 DEF CaptureInv, Numbered, Pipes
    <3> QED
      BY <2>1, <2>2, <3>2
  <2> QED
    BY <2>1, <2>3 DEF CaptureInv, Numbered, Streaming
<1>3. AllBound(flight, pipe, shown, now')
  <2>1. ASSUME Streaming, NEW i \in DOMAIN flight
        PROVE  Bound(flight[i], pipe, shown, now')
    <3>1. PICK n \in Nat : n = now'
      OBVIOUS
    <3>2. pipe \in Pipes
      BY <2>1, PipeFacts DEF CaptureInv
    <3>3. flight[i] \in Utterances
      BY <2>1, FlightFacts DEF CaptureInv
    <3>4. Bound(flight[i], pipe, shown, now) /\ now \in Nat
      BY <2>1 DEF CaptureInv, CaptureTypes, AllBound, Streaming
    <3>5. Bound(flight[i], pipe, shown, n)
      BY <3>1, <3>2, <3>3, <3>4, BoundKeeps
    <3> QED
      BY <3>1, <3>5
  <2> QED
    BY <2>1 DEF AllBound, Streaming
<1>4. AllBound(flight', pipe', shown', now')
  BY <1>3 DEF ring
<1> QED
  BY <1>1, <1>2, <1>4 DEF CaptureInv

\* The stream is closed and its utterances abandoned.
LEMMA AbandonStep ==
  ASSUME CaptureInv, UNCHANGED <<ring, now, session>>, left' \in [Kinds -> Nat], Abandon, Hands'
  PROVE  CaptureInv'
<1>1. flight' \in Seq(Utterances) /\ pipe' \in Pipes \cup {Nothing}
  BY DEF Abandon
<1>2. CaptureTypes'
  BY <1>1, TypesKeep DEF CaptureInv, CaptureTypes
<1>3. Numbered' /\ AllBound(flight', pipe', shown', now')
  BY DEF Numbered, AllBound, Abandon, Streaming
<1> QED
  BY <1>2, <1>3 DEF CaptureInv

\* The stream goes on, and so do the microphone's commands.
LEMMA StreamStep ==
  ASSUME CaptureInv, Streaming, UNCHANGED <<ring, now, session, want>>,
         left' \in [Kinds -> Nat], left'["arms"] = left["arms"],
         cmd' \in {cmd, "none"},
         pipe' \in Pipes, pipe'.stream = pipe.stream, flight' \in Seq(Utterances),
         \A k \in DOMAIN flight' : flight'[k].stream >= pipe.stream /\ Bound(flight'[k], pipe', shown, now),
         Hands'
  PROVE  CaptureInv'
<1>1. CaptureTypes'
  BY TypesKeep DEF CaptureInv, CaptureTypes
<1>2. Numbered'
  BY DEF CaptureInv, Numbered
<1>3. AllBound(flight', pipe', shown', now')
  BY DEF AllBound, ring
<1> QED
  BY <1>1, <1>2, <1>3 DEF CaptureInv

-----------------------------------------------------------------------------
(* The steps. *)

LEMMA LeftFacts ==
  ASSUME CaptureInv
  PROVE  /\ left \in [Kinds -> Nat] /\ left["arms"] \in Nat /\ now \in Nat /\ session \in Nat
         /\ {"scopes", "speech", "finals", "arms", "disarms", "touches", "faults"} \subseteq Kinds
BY DEF CaptureInv, CaptureTypes, Kinds

\* The stream's facts, of the constant it is.
LEMMA StreamFacts ==
  ASSUME CaptureInv, Streaming
  PROVE  /\ pipe \in Pipes /\ pipe.stream \in Nat /\ pipe.seg \in Nat
         /\ pipe.anchor \in Int \cup {Nothing} /\ pipe.part \in Int \cup {Nothing}
         /\ flight \in Seq(Utterances)
         /\ \A i \in DOMAIN flight : /\ flight[i] \in Utterances /\ flight[i].stream \in Nat
                                     /\ flight[i].stream >= pipe.stream
                                     /\ Bound(flight[i], pipe, shown, now)
<1>1. pipe \in Pipes
  BY PipeFacts DEF CaptureInv
<1>2. \A i \in DOMAIN flight : flight[i] \in Utterances
  BY FlightFacts DEF CaptureInv
<1>3. \A i \in DOMAIN flight : flight[i].stream \in Nat
  BY <1>2 DEF Utterances
<1> QED
  BY <1>1, <1>2, <1>3 DEF CaptureInv, CaptureTypes, Numbered, AllBound, Streaming, Pipes

LEMMA ClockStep ==
  ASSUME CaptureInv, Tick
  PROVE  CaptureInv'
<1>1. PICK n \in Nat : n = now + 1
  BY LeftFacts
<1>2. now' = n /\ now <= n
  BY <1>1, LeftFacts DEF Tick
<1>3. UNCHANGED <<ring, pipe, flight, mic, toucher, cmd, want, session, left>>
  BY DEF Tick, engine, sessions, shell
<1>4. Hands'
  BY <1>3 DEF CaptureInv, Hands, Armed, Streaming
<1>5. Streaming /\ "arm" \in {cmd, want} => pipe.stream > left["arms"]
  BY DEF CaptureInv, Numbered
<1>6. left["arms"] <= left["arms"]
  BY LeftFacts
<1> QED
  BY <1>2, <1>3, <1>4, <1>5, <1>6, LeftFacts, QuietStep

LEMMA ScopeStep ==
  ASSUME CaptureInv, NEW v \in Scope, SetScope(v)
  PROVE  CaptureInv'
<1> DEFINE Snapshots == [at : Nat, scope : Views]
           e == [at |-> now, scope |-> v]
           grown == Append(shown, e)
<1>1. /\ flight' = Join(v) /\ shown' = grown /\ oldest' = Evict(Len(shown) + 1, now)
      /\ UNCHANGED <<now, mic, pipe, session, toucher, want, cmd>>
  BY DEF SetScope, sessions, shell
<1>2. /\ left' \in [Kinds -> Nat] /\ left'["arms"] = left["arms"]
  BY SpendTyped, LeftFacts DEF SetScope
<1>3. shown \in Seq(Snapshots) /\ e \in Snapshots /\ v \in Views
  BY LeftFacts DEF CaptureInv, CaptureTypes, Views
<1>4. grown \in Seq(Snapshots) /\ Len(grown) = Len(shown) + 1
  <2> HIDE DEF Snapshots, e
  <2> QED BY <1>3
<1>5. oldest' \in 1..Len(grown)
  BY <1>1, <1>4, RingKeeps DEF CaptureInv
<1>6. /\ Len(flight) \in Nat /\ DOMAIN flight = 1..Len(flight)
      /\ \A i \in 1..Len(flight) : flight[i] \in Utterances
  BY FlightFacts DEF CaptureInv
<1>7. \A f \in Utterances : [f EXCEPT !.targets = @ \cup v.targets] \in Utterances
  <2>1. v.targets \subseteq Pictures
    BY <1>3 DEF Pictures
  <2> QED
    BY <2>1 DEF Utterances
<1>8. /\ Join(v) \in Seq(Utterances) /\ DOMAIN Join(v) = DOMAIN flight
      /\ \A i \in DOMAIN flight : Join(v)[i] = [flight[i] EXCEPT !.targets = @ \cup v.targets]
  <2>1. Join(v) = [i \in 1..Len(flight) |-> [flight[i] EXCEPT !.targets = @ \cup v.targets]]
    BY <1>6 DEF Join
  <2>2. \A i \in 1..Len(flight) : [flight[i] EXCEPT !.targets = @ \cup v.targets] \in Utterances
    BY <1>6, <1>7
  <2> HIDE DEF Snapshots
  <2> QED
    BY <1>6, <2>1, <2>2
<1>9. CaptureTypes'
  BY <1>1, <1>2, <1>4, <1>5, <1>8 DEF CaptureInv, CaptureTypes
<1>10. Hands'
  <2>1. flight = <<>> => flight' = <<>>
    BY <1>1, <1>6, <1>8
  <2> QED
    BY <1>1, <2>1 DEF CaptureInv, Hands, Armed, Streaming
<1>11. Numbered'
  <2>1. \A i \in DOMAIN flight : Join(v)[i].stream = flight[i].stream
    BY <1>6, <1>8 DEF Utterances
  <2> QED
    BY <1>1, <1>2, <1>8, <2>1 DEF CaptureInv, Numbered, Streaming
<1>12. AllBound(Join(v), pipe, grown, now)
  <2>1. ASSUME Streaming, NEW i \in DOMAIN flight
        PROVE  Bound(Join(v)[i], pipe, grown, now)
    <3>1. flight[i] \in Utterances /\ pipe \in Pipes /\ Bound(flight[i], pipe, shown, now)
      BY <2>1, StreamFacts
    <3>2. Bound([flight[i] EXCEPT !.targets = @ \cup v.targets], pipe, grown, now)
      BY <1>3, <3>1, LeftFacts, BoundGrows
    <3> QED
      BY <1>8, <3>2
  <2> QED
    BY <1>8, <2>1 DEF AllBound, Streaming
<1> QED
  BY <1>1, <1>9, <1>10, <1>11, <1>12 DEF CaptureInv

LEMMA ArmStep ==
  ASSUME CaptureInv, Arm
  PROVE  CaptureInv'
<1>1. /\ cmd = "arm" /\ cmd' = "none" /\ want = "none" /\ toucher = "out"
      /\ UNCHANGED <<ring, flight, toucher, want, now, left, session>>
  BY DEF CaptureInv, Hands, Arm, clock, sessions
<1>2. CASE UNCHANGED <<mic, pipe>> \/ (~Armed /\ mic' = "error" /\ UNCHANGED pipe)
  <2>1. Hands'
    BY <1>1, <1>2 DEF CaptureInv, Hands, Armed, Streaming
  <2>2. ~("arm" \in {cmd', want'})
    BY <1>1
  <2>3. left["arms"] <= left["arms"] /\ now <= now
    BY LeftFacts
  <2> QED
    BY <1>1, <1>2, <2>1, <2>2, <2>3, LeftFacts, QuietStep
<1> DEFINE q == [anchor |-> Nothing, deadline |-> Nothing, voice |-> FALSE, quiet |-> 0,
                 heard |-> 0, seg |-> 0, part |-> Nothing, stream |-> left["arms"]]
<1>3. CASE ~Armed /\ mic' = "idle" /\ pipe' = q
  <2>1. q \in Pipes /\ q.stream = left["arms"] /\ q # Nothing
    <3>1. left["arms"] \in Nat
      BY LeftFacts
    <3>2. q \in Pipes
      BY <3>1 DEF Pipes
    <3> QED
      BY <3>2, NothingIsNoPipe
  <2>2. ASSUME NEW i \in DOMAIN flight
        PROVE  flight[i].stream \in Nat /\ flight[i].stream > left["arms"]
    <3>1. Streaming
      BY <2>2 DEF CaptureInv, Hands
    <3>2. pipe.stream > left["arms"]
      BY <1>1, <3>1 DEF CaptureInv, Numbered
    <3>3. flight[i].stream >= pipe.stream /\ flight[i].stream \in Nat /\ pipe.stream \in Nat
      BY <3>1, StreamFacts
    <3> QED
      BY <3>2, <3>3, LeftFacts
  <2> HIDE DEF q
  <2>3. CaptureTypes'
    BY <1>1, <1>3, <2>1, TypesKeep DEF CaptureInv, CaptureTypes
  <2>4. Hands'
    BY <1>1, <1>3, <2>1 DEF CaptureInv, Hands, Armed, Streaming
  <2>5. Numbered'
    <3>1. q.stream >= left["arms"] /\ \A i \in DOMAIN flight : flight[i].stream >= q.stream
      BY <2>1, <2>2, LeftFacts
    <3> QED
      BY <1>1, <1>3, <3>1 DEF Numbered
  <2>6. \A i \in DOMAIN flight : Bound(flight[i], q, shown, now)
    <3>1. \A i \in DOMAIN flight : flight[i].stream # q.stream
      BY <2>1, <2>2, LeftFacts
    <3> QED
      BY <3>1 DEF Bound
  <2> QED
    BY <1>1, <1>3, <2>3, <2>4, <2>5, <2>6 DEF CaptureInv, AllBound, ring
<1> QED
  BY <1>2, <1>3 DEF Arm

\* The deadline of the stream.
LEMMA FeedCloses ==
  ASSUME CaptureInv, Streaming, CloseFeed, UNCHANGED <<ring, flight, now, session, want>>,
         left' \in [Kinds -> Nat], left'["arms"] = left["arms"], cmd' \in {cmd, "none"},
         toucher' # "out" => cmd' = "none", toucher' = "out" => want' = "none"
  PROVE  CaptureInv'
<1> DEFINE q == [pipe EXCEPT !.deadline = now + Drain]
<1>1. pipe' = q /\ mic' = "disarmed"
  BY DEF CloseFeed
<1>2. /\ q \in Pipes /\ q # Nothing /\ q.stream = pipe.stream /\ q.anchor = pipe.anchor
      /\ q.seg = pipe.seg /\ q.part = pipe.part
  <2>1. now + Drain \in Int
    BY LeftFacts, CaptureAssumption
  <2> QED
    BY <2>1, StreamFacts, NothingIsNoPipe DEF Pipes
<1> HIDE DEF q
<1>3. \A k \in DOMAIN flight : flight[k].stream >= pipe.stream /\ Bound(flight[k], q, shown, now)
  <2>1. ASSUME NEW k \in DOMAIN flight
        PROVE  Bound(flight[k], q, shown, now)
    <3>1. now <= now
      BY LeftFacts
    <3> QED
      BY <1>2, <3>1, StreamFacts, LeftFacts, BoundKeeps
  <2> QED
    BY <2>1, StreamFacts
<1>4. Hands'
  BY <1>1, <1>2 DEF CaptureInv, Hands, Armed, Streaming
<1>5. flight' \in Seq(Utterances)
  BY StreamFacts
<1> QED
  BY <1>1, <1>2, <1>3, <1>4, <1>5, StreamStep

\* Steps that leave the stream, its utterances and the microphone's commands alone.
LEMMA AsideStep ==
  ASSUME CaptureInv, UNCHANGED <<ring, pipe, flight, now, mic>>,
         session' \in Nat, left' \in [Kinds -> Nat], left'["arms"] <= left["arms"],
         cmd' # "none" => toucher' = "out",
         toucher' = "out" => want' = "none",
         toucher' = "draining" => ~Armed,
         "arm" \in {cmd', want'} => \/ "arm" \in {cmd, want} /\ left'["arms"] = left["arms"]
                                    \/ left'["arms"] < left["arms"]
  PROVE  CaptureInv'
<1>1. Hands'
  BY DEF CaptureInv, Hands, Armed, Streaming
<1>2. ASSUME Streaming, "arm" \in {cmd', want'}
      PROVE  pipe.stream > left'["arms"]
  <2>1. PICK a \in Nat : a = left'["arms"]
    BY DEF Kinds
  <2>2. pipe.stream \in Nat /\ left["arms"] \in Nat /\ pipe.stream >= left["arms"]
    BY <1>2, StreamFacts, LeftFacts DEF CaptureInv, Numbered
  <2>3. CASE "arm" \in {cmd, want} /\ a = left["arms"]
    BY <1>2, <2>1, <2>3 DEF CaptureInv, Numbered
  <2>4. CASE a < left["arms"]
    <3>1. pipe.stream > a
      BY <2>2, <2>4
    <3> QED
      BY <2>1, <3>1
  <2> QED
    BY <1>2, <2>1, <2>3, <2>4
<1>3. now <= now /\ now \in Nat
  BY LeftFacts
<1> QED
  BY <1>1, <1>2, <1>3, QuietStep

LEMMA DisarmStep ==
  ASSUME CaptureInv, Disarm
  PROVE  CaptureInv'
<1>1. /\ cmd' = "none" /\ want = "none" /\ toucher = "out"
      /\ UNCHANGED <<ring, flight, toucher, want, now, left, session>>
  BY DEF CaptureInv, Hands, Disarm, clock, sessions
<1>2. left["arms"] <= left["arms"]
  BY LeftFacts
<1>3. CASE Armed /\ CloseFeed
  <2>1. Streaming
    BY <1>3 DEF CaptureInv, Hands
  <2> QED
    BY <1>1, <1>3, <2>1, LeftFacts, FeedCloses
<1>4. CASE UNCHANGED <<mic, pipe>>
  BY <1>1, <1>2, <1>4, LeftFacts, AsideStep
<1> QED
  BY <1>3, <1>4 DEF Disarm

LEMMA DeviceStep ==
  ASSUME CaptureInv, DeviceFails
  PROVE  CaptureInv'
<1>1. Streaming /\ CloseFeed /\ UNCHANGED <<ring, flight, toucher, want, cmd, now, session>>
  BY DEF CaptureInv, Hands, DeviceFails, sessions
<1>2. left' \in [Kinds -> Nat] /\ left'["arms"] = left["arms"]
  BY LeftFacts, SpendTyped DEF DeviceFails
<1>3. (toucher # "out" => cmd = "none") /\ (toucher = "out" => want = "none")
  BY DEF CaptureInv, Hands
<1> QED
  BY <1>1, <1>2, <1>3, FeedCloses

\* The drain task: it is spawned, leaves, or settles what is left of the stream.
LEMMA DrainSteps ==
  ASSUME CaptureInv, SpawnDrain \/ (\E g \in drains : DrainLeaves(g) \/ DrainExpires(g))
  PROVE  CaptureInv'
<1>1. left["arms"] <= left["arms"]
  BY LeftFacts
<1>2. ASSUME SpawnDrain \/ (\E g \in drains : DrainLeaves(g))
      PROVE  CaptureInv'
  <2>1. UNCHANGED <<ring, pipe, flight, now, mic, session, left, cmd, toucher, want>>
    BY <1>2 DEF SpawnDrain, DrainLeaves, clock, engine, sessions
  <2>2. /\ cmd # "none" => toucher = "out"
        /\ toucher = "out" => want = "none"
        /\ toucher = "draining" => ~Armed
    BY DEF CaptureInv, Hands
  <2> QED
    BY <1>1, <2>1, <2>2, LeftFacts, AsideStep
<1>3. ASSUME \E g \in drains : DrainExpires(g)
      PROVE  CaptureInv'
  <2>1. /\ ~Armed /\ Abandon
        /\ UNCHANGED <<ring, now, session, left, mic, toucher, want, cmd>>
    BY <1>3 DEF DrainExpires, clock, sessions
  <2>2. Hands'
    BY <2>1 DEF CaptureInv, Hands, Abandon, Armed, Streaming
  <2> QED
    BY <2>1, <2>2, LeftFacts, AbandonStep
<1> QED
  BY <1>2, <1>3

\* The stream ends under the microphone, or after it.
LEMMA EndStep ==
  ASSUME CaptureInv, StreamEnds \/ Fatal
  PROVE  CaptureInv'
<1>1. left' \in [Kinds -> Nat]
  BY LeftFacts, SpendTyped DEF StreamEnds, Fatal, clock
<1>2. /\ Abandon /\ UNCHANGED <<ring, now, session, toucher, want, cmd>>
      /\ mic' = "error" \/ (~Armed /\ mic' = mic)
  BY DEF StreamEnds, Fatal, clock, sessions, shell
<1>3. Hands'
  BY <1>2 DEF CaptureInv, Hands, Abandon, Armed, Streaming
<1> QED
  BY <1>1, <1>2, <1>3, AbandonStep

LEMMA FrameStep ==
  ASSUME CaptureInv, Frame
  PROVE  CaptureInv'
<1>1. /\ Streaming /\ UNCHANGED <<ring, flight, mic, toucher, want, cmd, now, left, session>>
  BY DEF Frame, clock, sessions, shell
<1>2. CASE UNCHANGED pipe
  <2>1. /\ cmd # "none" => toucher = "out"
        /\ toucher = "out" => want = "none"
        /\ toucher = "draining" => ~Armed
        /\ left["arms"] <= left["arms"]
    BY LeftFacts DEF CaptureInv, Hands
  <2> QED
    BY <1>1, <1>2, <2>1, LeftFacts, AsideStep
<1> DEFINE q == [pipe EXCEPT !.anchor = now]
<1>3. CASE pipe.anchor = Nothing /\ pipe' = q
  <2>1. q \in Pipes /\ q # Nothing /\ q.stream = pipe.stream
    <3>1. now \in Int /\ now # Nothing /\ pipe \in Pipes
      BY <1>1, LeftFacts, StreamFacts, NothingIsNoPipe
    <3>2. q \in Pipes /\ q.stream = pipe.stream
      BY <3>1 DEF Pipes
    <3> QED
      BY <3>2, NothingIsNoPipe
  <2> HIDE DEF q
  <2>2. \A k \in DOMAIN flight : flight[k].stream >= pipe.stream /\ Bound(flight[k], q, shown, now)
    <3>1. ASSUME NEW k \in DOMAIN flight
          PROVE  flight[k].stream # pipe.stream
      BY <1>1, <1>3, StreamFacts DEF Bound
    <3> QED
      BY <1>1, <2>1, <3>1, StreamFacts DEF Bound
  <2>3. Hands'
    BY <1>1, <1>3, <2>1 DEF CaptureInv, Hands, Armed, Streaming
  <2>4. flight' \in Seq(Utterances)
    BY <1>1, StreamFacts
  <2> QED
    BY <1>1, <1>3, <2>1, <2>2, <2>3, <2>4, LeftFacts, StreamStep
<1> QED
  BY <1>2, <1>3 DEF Frame

LEMMA TouchStep ==
  ASSUME CaptureInv, NEW command \in {"arm", "disarm", "none"}, Touch(command)
  PROVE  CaptureInv'
<1>1. /\ toucher = "out" /\ cmd = "none" /\ want = "none"
      /\ UNCHANGED <<ring, pipe, flight, mic, now, session>>
  BY DEF CaptureInv, Hands, Touch, engine
<1>2. CASE command = "arm"
  <2>1. left' \in [Kinds -> Nat] /\ left'["arms"] < left["arms"] /\ left'["arms"] <= left["arms"]
    BY <1>2, LeftFacts, SpendTyped DEF Touch
  <2>2. \/ cmd' = command /\ want' = "none" /\ toucher' = "out"
        \/ toucher' = "idle" /\ want' = command /\ cmd' = cmd
    BY <1>1 DEF Touch, Leave
  <2> QED
    BY <1>1, <1>2, <2>1, <2>2, LeftFacts, AsideStep
<1>3. CASE command # "arm"
  <2>1. left' \in [Kinds -> Nat] /\ left'["arms"] = left["arms"] /\ left'["arms"] <= left["arms"]
    <3>1. Spend("disarms") \/ Spend("touches")
      BY <1>3 DEF Touch
    <3> QED
      BY <3>1, LeftFacts, SpendTyped
  <2>2. \/ cmd' = command /\ want' = "none" /\ toucher' = "out"
        \/ toucher' = "idle" /\ want' = command /\ cmd' = cmd
    BY <1>1 DEF Touch, Leave
  <2>3. ~("arm" \in {cmd', want'})
    BY <1>1, <1>3, <2>2
  <2> QED
    BY <1>1, <2>1, <2>2, <2>3, LeftFacts, AsideStep
<1> QED
  BY <1>2, <1>3

\* A rotation drains the stream it finds before it closes the row.
LEMMA DrainForClose ==
  ASSUME CaptureInv, DrainBegin \/ DrainEnd
  PROVE  CaptureInv'
<1>1. /\ UNCHANGED <<ring, now, left, session, want, cmd>> /\ toucher # "out" /\ cmd = "none"
      /\ toucher' \in {"draining", "drained"}
      /\ ~Armed => mic' = mic
  BY DEF CaptureInv, Hands, DrainBegin, DrainEnd, clock, shell
<1>2. CASE Armed /\ CloseFeed /\ toucher' = "draining" /\ UNCHANGED flight
  <2>1. Streaming
    BY <1>2 DEF CaptureInv, Hands
  <2> QED
    BY <1>1, <1>2, <2>1, LeftFacts, FeedCloses
<1>3. CASE ~Armed /\ toucher' = "drained" /\ Abandon
  <2>1. Hands'
    BY <1>1, <1>3 DEF CaptureInv, Hands, Abandon, Armed, Streaming
  <2> QED
    BY <1>1, <1>3, <2>1, LeftFacts, AbandonStep
<1>4. CASE ~Armed /\ toucher' = "drained" /\ UNCHANGED <<flight, pipe>>
  <2>1. left["arms"] <= left["arms"]
    BY LeftFacts
  <2> QED
    BY <1>1, <1>4, <2>1, LeftFacts, AsideStep
<1>5. DrainEnd => ~Armed
  BY DEF DrainEnd, CaptureInv, Hands
<1> QED
  BY <1>2, <1>3, <1>4, <1>5 DEF DrainBegin, DrainEnd

LEMMA RowSteps ==
  ASSUME CaptureInv, CloseRow \/ OpenRow \/ Rotated
  PROVE  CaptureInv'
<1>1. /\ UNCHANGED <<ring, pipe, flight, now, mic>> /\ toucher # "out" /\ cmd = "none"
      /\ left["arms"] <= left["arms"]
  BY LeftFacts DEF CaptureInv, Hands, CloseRow, OpenRow, Rotated, engine, clock
<1>2. session' \in Nat
  BY LeftFacts DEF CloseRow, OpenRow, Rotated
<1>3. left' \in [Kinds -> Nat] /\ left'["arms"] = left["arms"]
  BY LeftFacts, SpendTyped DEF CloseRow, OpenRow, Rotated, clock
<1>4. \/ toucher' = "out" /\ want' = "none" /\ cmd' \in {"none", want}
      \/ toucher' \in {"closed", "opened"} /\ want' = want /\ cmd' = cmd
  BY DEF CloseRow, OpenRow, Rotated, Leave
<1>5. "arm" \in {cmd', want'} => "arm" \in {cmd, want}
  BY <1>4
<1> QED
  BY <1>1, <1>2, <1>3, <1>4, <1>5, AsideStep

\* An onset is bound to the scope that was on view at it.
LEMMA OnsetStep ==
  ASSUME CaptureInv, NEW t \in (now - Lag)..now, SpeechStart(t)
  PROVE  CaptureInv'
<1> DEFINE v == ScopeAt(t)
           f == [onset |-> t - pipe.anchor, end |-> Nothing, uid |-> Nothing,
                 targets |-> v.targets, subject |-> v.subject,
                 born |-> session, kept |-> Kept(t), stream |-> pipe.stream]
           q == [pipe EXCEPT !.voice = TRUE]
<1>1. /\ Armed /\ Streaming /\ pipe.anchor # Nothing
      /\ flight' = Append(flight, f) /\ mic' = "speaking" /\ pipe' = q
      /\ UNCHANGED <<ring, now, session, toucher, want, cmd>>
  BY DEF SpeechStart, sessions, shell
<1>2. left' \in [Kinds -> Nat] /\ left'["arms"] = left["arms"]
  BY LeftFacts, SpendTyped DEF SpeechStart
<1>3. t \in Int /\ t <= now /\ pipe.anchor \in Int /\ pipe.anchor + (t - pipe.anchor) = t
  <2>1. now \in Nat /\ Lag \in Nat /\ pipe.anchor \in Int \cup {Nothing}
    BY <1>1, LeftFacts, StreamFacts, CaptureAssumption
  <2> QED
    BY <1>1, <2>1
<1>4. v \in Views
  BY <1>3, ViewedAt DEF CaptureInv
<1> HIDE DEF v
<1>5. f \in Utterances
  <2>1. v.targets \in SUBSET Pictures /\ v.subject \in Subjects
    BY <1>4 DEF Pictures, Subjects
  <2>2. Kept(t) \in BOOLEAN
    BY DEF Kept
  <2>3. session \in Nat /\ pipe.stream \in Nat /\ t - pipe.anchor \in Int
    BY <1>1, <1>3, LeftFacts, StreamFacts
  <2> QED
    BY <2>1, <2>2, <2>3 DEF Utterances
<1>6. /\ q \in Pipes /\ q # Nothing /\ q.stream = pipe.stream /\ q.anchor = pipe.anchor
      /\ q.seg = pipe.seg /\ q.part = pipe.part
  <2>1. pipe \in Pipes
    BY <1>1, StreamFacts
  <2>2. q \in Pipes
    BY <1>1, <2>1 DEF Pipes
  <2> QED
    BY <2>1, <2>2, NothingIsNoPipe DEF Pipes
<1>7. Bound(f, q, shown, now)
  <2>1. /\ f.onset = t - pipe.anchor /\ f.uid = Nothing /\ f.kept = Kept(t)
        /\ f.targets = v.targets /\ f.subject = v.subject
    OBVIOUS
  <2>2. f.uid # q.seg
    BY <1>1, <1>6, <2>1, StreamFacts, NothingIsNoPipe
  <2>3. f.kept => \E i \in Seen(shown, t) : Fits(shown, i, f.targets, f.subject)
    BY <1>3, <2>1, LookupFits DEF v, CaptureInv
  <2>4. q.anchor + f.onset = t /\ q.anchor # Nothing
    BY <1>1, <1>3, <1>6, <2>1
  <2> HIDE DEF f, q
  <2> QED
    BY <1>3, <2>1, <2>2, <2>3, <2>4 DEF Bound
<1>8. f.stream = pipe.stream
  OBVIOUS
<1> HIDE DEF f, q
<1>9. flight \in Seq(Utterances) /\ Append(flight, f) \in Seq(Utterances)
  BY <1>1, <1>5, StreamFacts
<1>10. ASSUME NEW k \in DOMAIN Append(flight, f)
       PROVE  /\ Append(flight, f)[k].stream >= pipe.stream
              /\ Bound(Append(flight, f)[k], q, shown, now)
  <2>1. \/ k \in DOMAIN flight /\ Append(flight, f)[k] = flight[k]
        \/ Append(flight, f)[k] = f
    BY <1>5, <1>9
  <2>2. ASSUME k \in DOMAIN flight
        PROVE  flight[k].stream >= pipe.stream /\ Bound(flight[k], q, shown, now)
    <3>1. /\ flight[k] \in Utterances /\ pipe \in Pipes /\ flight[k].stream >= pipe.stream
          /\ Bound(flight[k], pipe, shown, now)
      BY <1>1, <2>2, StreamFacts
    <3>2. now <= now /\ now \in Nat
      BY LeftFacts
    <3> QED
      BY <1>6, <3>1, <3>2, BoundKeeps
  <2>3. pipe.stream >= pipe.stream
    BY <1>1, StreamFacts
  <2> QED
    BY <1>7, <1>8, <2>1, <2>2, <2>3
<1>11. Hands'
  BY <1>1, <1>6 DEF CaptureInv, Hands, Armed, Streaming
<1> QED
  BY <1>1, <1>2, <1>6, <1>9, <1>10, <1>11, StreamStep

\* The end of speech ends the first utterance that has begun and not ended.
LEMMA SpeechEndStep ==
  ASSUME CaptureInv, SpeechEnd
  PROVE  CaptureInv'
<1> DEFINE end == now - pipe.anchor
           unended == {i \in DOMAIN flight : flight[i].end = Nothing /\ flight[i].onset < end}
           m == Min(unended)
           q == [pipe EXCEPT !.voice = FALSE, !.quiet = end]
           g == [flight[m] EXCEPT !.end = end]
<1>1. /\ Streaming /\ pipe.voice /\ pipe' = q
      /\ flight' = IF unended = {} THEN flight ELSE [flight EXCEPT ![m] = g]
      /\ UNCHANGED <<ring, now, session, left, mic, toucher, want, cmd>>
  BY DEF SpeechEnd, clock, sessions, shell
<1>2. /\ pipe \in Pipes /\ flight \in Seq(Utterances) /\ now \in Nat /\ now <= now
      /\ DOMAIN flight \in SUBSET Nat
  <2>1. now \in Nat /\ now <= now
    BY LeftFacts
  <2>2. pipe \in Pipes /\ flight \in Seq(Utterances)
    BY <1>1, StreamFacts
  <2>3. DOMAIN flight = 1..Len(flight) /\ Len(flight) \in Nat
    BY FlightFacts DEF CaptureInv
  <2> QED
    BY <2>1, <2>2, <2>3
<1>3. end \in Int
  BY <1>1, <1>2 DEF Pipes
<1>4. /\ q \in Pipes /\ q # Nothing /\ q.stream = pipe.stream /\ q.anchor = pipe.anchor
      /\ q.seg = pipe.seg /\ q.part = pipe.part
  <2> HIDE DEF end
  <2>1. /\ q \in Pipes /\ q.stream = pipe.stream /\ q.anchor = pipe.anchor
        /\ q.seg = pipe.seg /\ q.part = pipe.part
    BY <1>2, <1>3 DEF Pipes
  <2> QED
    BY <2>1, NothingIsNoPipe
<1>5. unended # {} => m \in DOMAIN flight
  <2>1. unended \in SUBSET Nat /\ unended \in SUBSET DOMAIN flight
    BY <1>2
  <2> HIDE DEF unended
  <2> QED
    BY <2>1, MinIn
<1>6. ASSUME m \in DOMAIN flight
      PROVE  /\ g \in Utterances /\ g.onset = flight[m].onset /\ g.uid = flight[m].uid
             /\ g.kept = flight[m].kept /\ g.subject = flight[m].subject
             /\ g.stream = flight[m].stream /\ g.targets = flight[m].targets
  <2> HIDE DEF end, m
  <2>1. flight[m] \in Utterances
    BY <1>1, <1>6, StreamFacts
  <2> QED
    BY <1>3, <2>1 DEF Utterances
<1> HIDE DEF end, unended, m, q, g
<1>7. flight' \in Seq(Utterances) /\ DOMAIN flight' = DOMAIN flight
      /\ \A k \in DOMAIN flight : flight'[k] = flight[k] \/ (k = m /\ flight'[k] = g)
  BY <1>1, <1>2, <1>5, <1>6
<1>8. ASSUME NEW k \in DOMAIN flight
      PROVE  flight[k].stream >= pipe.stream /\ Bound(flight[k], q, shown, now)
  <2>1. /\ flight[k] \in Utterances /\ flight[k].stream >= pipe.stream
        /\ Bound(flight[k], pipe, shown, now)
    BY <1>1, StreamFacts
  <2> QED
    BY <1>2, <1>4, <2>1, BoundKeeps
<1>9. ASSUME NEW k \in DOMAIN flight
      PROVE  flight'[k].stream >= pipe.stream /\ Bound(flight'[k], q, shown, now)
  <2>1. CASE flight'[k] = flight[k]
    BY <1>8, <2>1
  <2>2. CASE k = m /\ flight'[k] = g
    <3>1. g.stream >= pipe.stream /\ Bound(g, q, shown, now)
      BY <1>6, <1>8, <2>2, BoundAlike
    <3> QED
      BY <2>2, <3>1
  <2> QED
    BY <1>7, <2>1, <2>2
<1>10. Hands'
  BY <1>1, <1>4 DEF CaptureInv, Hands, Armed, Streaming
<1>11. left["arms"] = left["arms"] /\ left \in [Kinds -> Nat]
  BY LeftFacts
<1> QED
  BY <1>1, <1>2, <1>4, <1>7, <1>9, <1>10, <1>11, StreamStep

\* A partial claims an utterance near it that no other segment has claimed.
LEMMA PartialStep ==
  ASSUME CaptureInv, NEW onset \in 0..now, Partial(onset)
  PROVE  CaptureInv'
<1> DEFINE q == [pipe EXCEPT !.part = onset]
<1>1. PICK a : a = Associate(pipe.seg, onset)
  OBVIOUS
<1> DEFINE g == [flight[a] EXCEPT !.uid = pipe.seg]
<1>2. /\ Streaming /\ pipe.anchor # Nothing /\ pipe.part = Nothing /\ pipe' = q
      /\ flight' = IF a = 0 THEN flight ELSE [flight EXCEPT ![a] = g]
      /\ mic' = IF Armed THEN "speaking" ELSE mic
      /\ UNCHANGED <<ring, now, session, left, toucher, want, cmd>>
  BY <1>1 DEF Partial, Pumped, clock, sessions, shell
<1>3. /\ pipe \in Pipes /\ flight \in Seq(Utterances) /\ now \in Nat /\ now <= now
      /\ onset \in Int /\ pipe.seg \in Nat
      /\ \A i \in DOMAIN flight : /\ flight[i] \in Utterances /\ flight[i].stream >= pipe.stream
                                  /\ Bound(flight[i], pipe, shown, now)
  BY <1>2, LeftFacts, StreamFacts
<1>4. /\ q \in Pipes /\ q # Nothing /\ q.stream = pipe.stream /\ q.anchor = pipe.anchor
      /\ q.seg = pipe.seg /\ q.part = onset
  <2>1. /\ q \in Pipes /\ q.stream = pipe.stream /\ q.anchor = pipe.anchor
        /\ q.seg = pipe.seg /\ q.part = onset
    BY <1>3 DEF Pipes
  <2> QED
    BY <2>1, NothingIsNoPipe
<1>5. \/ a = 0
      \/ /\ a \in DOMAIN flight
         /\ \/ flight[a].uid = pipe.seg
            \/ flight[a].uid = Nothing /\ Distance(flight[a].onset, onset) <= Skew
  BY <1>1, <1>3, Associated DEF CaptureInv
<1>6. ASSUME a \in DOMAIN flight
      PROVE  /\ g \in Utterances /\ g.onset = flight[a].onset /\ g.uid = pipe.seg
             /\ g.kept = flight[a].kept /\ g.subject = flight[a].subject
             /\ g.stream = flight[a].stream /\ g.targets = flight[a].targets
  <2>1. flight[a] \in Utterances
    BY <1>3, <1>6
  <2> QED
    BY <1>3, <2>1 DEF Utterances
<1> HIDE DEF q, g
<1>7. flight' \in Seq(Utterances) /\ DOMAIN flight' = DOMAIN flight
      /\ \A k \in DOMAIN flight : flight'[k] = flight[k] \/ (a # 0 /\ k = a /\ flight'[k] = g)
  BY <1>2, <1>3, <1>5, <1>6
<1>8. ASSUME NEW k \in DOMAIN flight, flight[k].stream = pipe.stream
      PROVE  /\ flight[k].uid # pipe.seg
             /\ pipe.anchor + flight[k].onset <= now
             /\ flight[k].uid # Nothing => flight[k].uid <= pipe.seg
             /\ flight[k].kept => \E i \in Seen(shown, pipe.anchor + flight[k].onset) :
                                    Fits(shown, i, flight[k].targets, flight[k].subject)
  BY <1>2, <1>3, <1>8 DEF Bound
<1>9. ASSUME NEW k \in DOMAIN flight
      PROVE  Bound(flight[k], q, shown, now)
  BY <1>2, <1>4, <1>8 DEF Bound
<1>10. ASSUME a \in DOMAIN flight, a # 0
       PROVE  Bound(g, q, shown, now)
  <2>1. ASSUME g.stream = q.stream
        PROVE  /\ flight[a].stream = pipe.stream
               /\ Distance(flight[a].onset, onset) <= Skew
    BY <1>4, <1>5, <1>6, <1>8, <1>10, <2>1
  <2>2. pipe.seg <= pipe.seg
    BY <1>3
  <2> QED
    BY <1>2, <1>3, <1>4, <1>6, <1>8, <1>10, <2>1, <2>2, NothingIsNoPipe DEF Bound
<1>11. ASSUME NEW k \in DOMAIN flight
       PROVE  flight'[k].stream >= pipe.stream /\ Bound(flight'[k], q, shown, now)
  <2>1. CASE flight'[k] = flight[k]
    BY <1>3, <1>9, <2>1
  <2>2. CASE a # 0 /\ k = a /\ flight'[k] = g
    <3>1. g.stream >= pipe.stream /\ Bound(g, q, shown, now)
      BY <1>3, <1>6, <1>10, <2>2
    <3> QED
      BY <2>2, <3>1
  <2> QED
    BY <1>7, <2>1, <2>2
<1>12. Hands'
  BY <1>2, <1>4 DEF CaptureInv, Hands, Armed, Streaming
<1>13. left["arms"] = left["arms"] /\ left \in [Kinds -> Nat]
  BY LeftFacts
<1> QED
  BY <1>2, <1>3, <1>4, <1>7, <1>11, <1>12, <1>13, StreamStep

\* A final settles the utterance it claims and those it swallows; the next
\* segment has a number no utterance has claimed yet.
LEMMA FinalStep ==
  ASSUME CaptureInv, NEW onset \in 0..now, NEW end \in 0..now, NEW empty \in BOOLEAN,
         Final(onset, end, empty)
  PROVE  CaptureInv'
<1> DEFINE q == [pipe EXCEPT !.part = Nothing, !.seg = @ + 1, !.heard = end]
<1>1. PICK a : a = Associate(pipe.seg, onset)
  OBVIOUS
<1>2. PICK rest : rest = Rest(a, onset, end)
  OBVIOUS
<1>3. /\ Streaming /\ pipe.anchor # Nothing /\ pipe' = q /\ flight' = rest
      /\ (mic' = "idle" /\ Armed) \/ mic' = mic
      /\ UNCHANGED <<ring, now, session, toucher, want, cmd>>
  BY <1>1, <1>2 DEF Final, Pumped, Armed, sessions, shell
<1>4. left' \in [Kinds -> Nat] /\ left'["arms"] = left["arms"]
  BY LeftFacts, SpendTyped DEF Final
<1>5. pipe \in Pipes /\ pipe.seg \in Nat /\ end \in Int
  BY <1>3, LeftFacts, StreamFacts
<1>6. /\ q \in Pipes /\ q # Nothing /\ q.stream = pipe.stream /\ q.anchor = pipe.anchor
      /\ q.seg = pipe.seg + 1
  <2>1. pipe.seg + 1 \in Nat
    BY <1>5
  <2>2. /\ q \in Pipes /\ q.stream = pipe.stream /\ q.anchor = pipe.anchor
        /\ q.seg = pipe.seg + 1
    BY <1>5, <2>1 DEF Pipes
  <2> QED
    BY <2>2, NothingIsNoPipe
<1> HIDE DEF q
<1>7. /\ rest \in Seq(Utterances)
      /\ \A k \in DOMAIN rest : \E i \in DOMAIN flight : rest[k] = flight[i]
  BY <1>2, RestIsKept DEF CaptureInv
<1>8. ASSUME NEW i \in DOMAIN flight
      PROVE  flight[i].stream >= pipe.stream /\ Bound(flight[i], q, shown, now)
  <2>1. /\ flight[i] \in Utterances /\ flight[i].stream >= pipe.stream
        /\ Bound(flight[i], pipe, shown, now)
    BY <1>3, StreamFacts
  <2>2. flight[i].uid \in Nat \cup {Nothing}
    BY <2>1 DEF Utterances
  <2>3. ASSUME flight[i].uid = Nothing \/ flight[i].uid <= pipe.seg
        PROVE  /\ flight[i].uid # q.seg
               /\ flight[i].uid # Nothing => flight[i].uid <= q.seg
    <3>1. pipe.seg + 1 \in Nat
      BY <1>5
    <3>2. CASE flight[i].uid = Nothing
      BY <1>6, <3>1, <3>2, NothingIsNoPipe
    <3>3. CASE flight[i].uid \in Nat /\ flight[i].uid <= pipe.seg
      BY <1>5, <1>6, <3>3
    <3> QED
      BY <2>2, <2>3, <3>2, <3>3
  <2> QED
    BY <1>6, <2>1, <2>3 DEF Bound
<1>9. \A k \in DOMAIN rest : rest[k].stream >= pipe.stream /\ Bound(rest[k], q, shown, now)
  BY <1>7, <1>8
<1>10. Hands'
  BY <1>3, <1>6 DEF CaptureInv, Hands, Armed, Streaming
<1> QED
  BY <1>3, <1>4, <1>6, <1>7, <1>9, <1>10, StreamStep

\* What a final mints fits what was on view within the skew of its onset.
LEMMA FinalLands ==
  ASSUME CaptureInv, NEW onset \in 0..now, NEW end \in 0..now, NEW empty \in BOOLEAN,
         Final(onset, end, empty)
  PROVE  WordsLandOnView'
<1>1. PICK a : a = Associate(pipe.seg, onset)
  OBVIOUS
<1> DEFINE said == pipe.anchor + onset
           b == IF a = 0 THEN ScopeAt(said) ELSE flight[a]
<1>2. PICK w : w = Minted(a, onset)
  OBVIOUS
<1>3. /\ w.said = said /\ w.subject = b.subject
      /\ w.targets = IF b.subject = Nothing THEN b.targets ELSE {}
      /\ w.kept = (IF a = 0 THEN Kept(said) ELSE flight[a].kept)
      /\ w.own = (a = 0 \/ flight[a].stream = pipe.stream)
  BY <1>2 DEF Minted
<1>4. /\ Streaming /\ pipe.anchor # Nothing /\ onset \in Onsets
      /\ mint' = IF empty THEN Nothing ELSE w
      /\ UNCHANGED ring
  BY <1>1, <1>2 DEF Final, Pumped
<1>5. onset \in Int /\ pipe.anchor \in Int /\ said \in Int /\ Skew \in Nat
  <2>1. onset \in Int
    <3>1. now \in Nat
      BY LeftFacts
    <3> QED
      BY <3>1
  <2>2. pipe.anchor \in Int
    <3>1. pipe.anchor \in Int \cup {Nothing}
      BY <1>4, StreamFacts
    <3> QED
      BY <1>4, <3>1
  <2>3. Skew \in Nat
    BY CaptureAssumption
  <2> QED
    BY <2>1, <2>2, <2>3
<1>6. ASSUME w.own, w.kept
      PROVE  \E t \in (said - Skew)..(said + Skew) : \E i \in Seen(shown, t) :
               Fits(shown, i, b.targets, b.subject)
  <2>1. CASE a = 0
    <3>1. Kept(said) /\ b = ScopeAt(said)
      BY <1>3, <1>6, <2>1
    <3>2. \E i \in Seen(shown, said) : Fits(shown, i, b.targets, b.subject)
      BY <1>5, <3>1, LookupFits DEF CaptureInv
    <3>3. said \in (said - Skew)..(said + Skew)
      BY <1>5
    <3> QED
      BY <3>2, <3>3
  <2>2. CASE a # 0
    <3> DEFINE t == pipe.anchor + flight[a].onset
    <3>1. /\ a \in DOMAIN flight
          /\ \/ flight[a].uid = pipe.seg
             \/ Distance(flight[a].onset, onset) <= Skew
      BY <1>1, <1>5, <2>2, Associated DEF CaptureInv
    <3>2. b = flight[a] /\ flight[a].stream = pipe.stream /\ flight[a].kept
      BY <1>3, <1>6, <2>2
    <3>3. /\ flight[a].uid = pipe.seg => pipe.part # Nothing /\ Distance(flight[a].onset, pipe.part) <= Skew
          /\ \E i \in Seen(shown, t) : Fits(shown, i, flight[a].targets, flight[a].subject)
      BY <1>4, <3>1, <3>2, StreamFacts DEF Bound
    <3>4. pipe.part # Nothing => onset = pipe.part
      BY <1>4 DEF Onsets
    <3>5. Distance(flight[a].onset, onset) <= Skew
      BY <3>1, <3>3, <3>4
    <3>6. flight[a].onset \in Int
      BY <3>1, FlightFacts DEF CaptureInv, Utterances
    <3>7. t \in (said - Skew)..(said + Skew)
      BY <1>5, <3>5, <3>6 DEF Distance
    <3> QED
      BY <3>2, <3>3, <3>7
  <2> QED
    BY <2>1, <2>2
<1>7. ASSUME NEW i \in DOMAIN shown, Fits(shown, i, b.targets, b.subject)
      PROVE  /\ w.subject = shown[i].scope.subject
             /\ shown[i].scope.targets \subseteq w.targets
             /\ w.targets \subseteq UNION {shown[j].scope.targets : j \in i..Len(shown)}
  <2>1. /\ b.subject = shown[i].scope.subject /\ shown[i].scope.targets \subseteq b.targets
        /\ b.targets \subseteq UNION {shown[j].scope.targets : j \in i..Len(shown)}
    BY <1>7 DEF Fits
  <2>2. shown[i].scope \in Views
    BY RingFacts DEF CaptureInv
  <2>3. shown[i].scope.subject # Nothing => shown[i].scope.targets = {}
    BY <2>2, CaptureAssumption DEF Views
  <2> HIDE DEF b
  <2> QED
    BY <1>3, <2>1, <2>3
<1>8. ASSUME w.own, w.kept
      PROVE  \E t \in (w.said - Skew)..(w.said + Skew) : \E i \in OnView(t) :
               /\ w.subject = shown[i].scope.subject
               /\ shown[i].scope.targets \subseteq w.targets
               /\ w.targets \subseteq UNION {shown[j].scope.targets : j \in i..Len(shown)}
  <2>1. PICK t \in (said - Skew)..(said + Skew) : \E i \in Seen(shown, t) :
          Fits(shown, i, b.targets, b.subject)
    BY <1>6, <1>8
  <2>2. PICK i \in Seen(shown, t) : Fits(shown, i, b.targets, b.subject)
    BY <2>1
  <2>3. i \in DOMAIN shown /\ i \in OnView(t)
    BY <2>2 DEF Seen, OnView
  <2>4. t \in (w.said - Skew)..(w.said + Skew)
    BY <1>3, <2>1
  <2> HIDE DEF b, said
  <2> QED
    BY <1>7, <2>2, <2>3, <2>4
<1> HIDE DEF b, said
<1> QED
  BY <1>4, <1>8 DEF WordsLandOnView, OnViewWhenSaid, OnView, ring

LEMMA CaptureStep ==
  ASSUME CaptureInv, WordsLandOnView, [Next]_vars
  PROVE  CaptureInv' /\ WordsLandOnView'
<1>1. CASE UNCHANGED vars
  <2>1. CaptureInv'
    BY <1>1 DEF CaptureInv, CaptureTypes, Hands, Numbered, AllBound, Armed, Streaming,
                vars, clock, ring, engine, sessions, shell
  <2>2. WordsLandOnView'
    BY <1>1 DEF WordsLandOnView, OnViewWhenSaid, OnView, vars, ring
  <2> QED
    BY <2>1, <2>2
<1>2. ASSUME NEW t, NEW u, NEW empty, t \in 0..now, u \in 0..now, empty \in BOOLEAN, Final(t, u, empty)
      PROVE  CaptureInv' /\ WordsLandOnView'
  BY <1>2, FinalStep, FinalLands
<1>3. mint' = Nothing => WordsLandOnView'
  BY DEF WordsLandOnView, OnViewWhenSaid
<1>4. CASE Tick
  BY <1>3, <1>4, ClockStep DEF Tick
<1>5. CASE User
  <2>1. ASSUME NEW v \in Scope, SetScope(v)
        PROVE  CaptureInv' /\ mint' = Nothing
    BY <2>1, ScopeStep DEF SetScope
  <2>2. ASSUME NEW command \in {"arm", "disarm", "none"}, Touch(command)
        PROVE  CaptureInv' /\ mint' = Nothing
    BY <2>2, TouchStep DEF Touch
  <2>3. ASSUME Arm \/ Disarm \/ DeviceFails
        PROVE  CaptureInv' /\ mint' = Nothing
    BY <2>3, ArmStep, DisarmStep, DeviceStep DEF Arm, Disarm, DeviceFails
  <2> QED
    BY <1>3, <1>5, <2>1, <2>2, <2>3 DEF User
<1>6. CASE SpawnDrain \/ Drains
  <2>1. mint' = Nothing
    BY <1>6 DEF SpawnDrain, Drains, DrainLeaves, DrainExpires
  <2>2. CaptureInv'
    BY <1>6, DrainSteps DEF Drains
  <2> QED
    BY <1>3, <2>1, <2>2
<1>7. CASE Audio
  <2>1. ASSUME NEW t \in (now - Lag)..now, SpeechStart(t)
        PROVE  CaptureInv' /\ mint' = Nothing
    BY <2>1, OnsetStep DEF SpeechStart
  <2>2. ASSUME Frame \/ SpeechEnd
        PROVE  CaptureInv' /\ mint' = Nothing
    BY <2>2, FrameStep, SpeechEndStep DEF Frame, SpeechEnd
  <2> QED
    BY <1>3, <1>7, <2>1, <2>2 DEF Audio
<1>8. CASE Transcript
  <2>1. ASSUME NEW t \in 0..now, Partial(t)
        PROVE  CaptureInv' /\ mint' = Nothing
    BY <2>1, PartialStep DEF Partial
  <2>2. ASSUME StreamEnds \/ Fatal
        PROVE  CaptureInv' /\ mint' = Nothing
    BY <2>2, EndStep DEF StreamEnds, Fatal
  <2> QED
    BY <1>2, <1>3, <1>8, <2>1, <2>2 DEF Transcript
<1>9. CASE Closing
  <2>1. CaptureInv'
    BY <1>9, DrainForClose, RowSteps DEF Closing
  <2>2. mint' = Nothing
    BY <1>9 DEF Closing, DrainBegin, DrainEnd, CloseRow, OpenRow, Rotated
  <2> QED
    BY <1>3, <2>1, <2>2
<1> QED
  BY <1>1, <1>4, <1>5, <1>6, <1>7, <1>8, <1>9 DEF Next

LEMMA CaptureInitially == Init => CaptureInv /\ WordsLandOnView
<1> SUFFICES ASSUME Init PROVE CaptureInv /\ WordsLandOnView
  OBVIOUS
<1> DEFINE first == [at |-> 0, scope |-> [targets |-> {}, subject |-> Nothing]]
<1>1. /\ now = 0 /\ left \in Budgets /\ shown = <<first>> /\ oldest = 1 /\ mic = "disarmed"
      /\ pipe = Nothing /\ flight = <<>> /\ session = 1 /\ toucher = "out" /\ want = "none"
      /\ cmd = "none" /\ mint = Nothing
  BY DEF Init
<1>2. left \in [Kinds -> Nat]
  BY <1>1, CaptureAssumption DEF Kinds
<1>3. shown \in Seq([at : Nat, scope : Views]) /\ oldest \in 1..Len(shown)
  <2>1. first \in [at : Nat, scope : Views]
    BY DEF Views
  <2> HIDE DEF first
  <2> QED
    BY <1>1, <2>1
<1>4. CaptureTypes
  BY <1>1, <1>2, <1>3 DEF CaptureTypes
<1> QED
  BY <1>1, <1>4 DEF CaptureInv, Hands, Numbered, AllBound, Armed, Streaming, WordsLandOnView,
                    OnViewWhenSaid

\* The binding rule, of every run: words land on what was on view when they were
\* said, as long as that scope is still in the ring and the words are heard on
\* the stream their utterance began on (engine.rs, on_final).
THEOREM WordsLand == Spec => []WordsLandOnView
<1>1. Init => CaptureInv /\ WordsLandOnView
  BY CaptureInitially
<1>2. CaptureInv /\ WordsLandOnView /\ [Next]_vars => (CaptureInv /\ WordsLandOnView)'
  BY CaptureStep
<1> QED
  BY <1>1, <1>2, PTL DEF Spec
=============================================================================
