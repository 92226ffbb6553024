------------------------- MODULE QuitBarrierProofs -------------------------
(***************************************************************************)
(* Theorems about the desktop's shutdown: its types, that the final        *)
(* flushes run alone, and that a missing launch marker is kept as a        *)
(* promise.                                                                *)
(***************************************************************************)
EXTENDS QuitBarrier, TLAPS

\* Where the shutdown is once the commands', and once the tasks' registry closed.
Closing  == {"watchers", "await-tasks"}
Drained  == {"mic", "join-mic", "children"} \cup Final
Refusing == Closing \cup {"await-commands"} \cup Drained

\* No entry is added once a registry has closed.
Doors ==
  /\ down \in {"tasks"} \cup Refusing => "commands" \notin open
  /\ down \in Refusing => "tasks" \notin open

\* A thread is owned: it has a Running entry until it has ended, and a key that
\* is about to start has no thread.
Owned ==
  /\ \A t \in Task : thread[t] # "ended" => entry[t] = "Running"
  /\ \A c \in Command : cmd[c] = "start" => entry[sow[c]] = "Running" /\ thread[sow[c]] = "ended"
  /\ \A c, d \in Command : cmd[c] = "start" /\ cmd[d] = "start" /\ sow[c] = sow[d] => c = d

\* A microphone thread that runs has a handle, a command that will install it,
\* or somebody who joins it.
Heard ==
  /\ micThread = "run" => micIn \/ micLock # Nobody \/ \E c \in Command : cmd[c] = "arm"
  /\ \A c \in Command : micLock = c => cmd[c] = "disarm"
  /\ micLock = "quit" => down \in {"join-mic", "crashed", "next"}

\* Past the gate the registry is empty; past the commands' wait none is left;
\* past the microphone's join nothing records.
Gated ==
  /\ gate /\ down \in {"await-commands"} \cup Drained => \A t \in Task : entry[t] = "none"
  /\ gate /\ down \in Drained => \A c \in Command : cmd[c] = "idle"
  /\ gate /\ down \in {"children"} \cup Final => micThread # "run"
  /\ down \in Final => gate

\* The steps that come before the one at hand.
Before == [close |-> {}, journal |-> {"close"}, collections |-> {"close", "journal"},
           checkpoint |-> {"close", "journal", "collections"}, mark |-> Step]

\* The marker goes only when every final step has succeeded.
Sealed ==
  /\ clean /\ down \in Final => Before[down] \subseteq done
  /\ ~marker => done = Step /\ down \in {"gone", "next"}
  /\ down = "next" /\ ~unclean => ~marker

\* Each final step adds itself to what comes before the next.
LEMMA BeforeAfter ==
  /\ \A d \in Step : Before[After[d]] = Before[d] \cup {d} /\ After[d] \in Final
  /\ Before["mark"] = Step
BY DEF Step, Final, Before, After

QuitInv == TypeOK /\ Doors /\ Owned /\ Heard /\ Gated /\ Sealed

TaskStep(t) ==
  \/ Work(t) \/ Return(t) \/ Ask(t) \/ Release(t) \/ PauseAt(t) \/ Test(t)
  \/ TimeOut(t) \/ Stick(t) \/ Unstick(t) \/ StartWatcher(t)

CommandStep(c) ==
  \/ Admit(c) \/ Finish(c) \/ StartThread(c) \/ StartFails(c) \/ StoreHandle(c)
  \/ Configure(c) \/ AddWatcher(c) \/ KeepWatcher(c)
  \/ Reap(c) \/ Arm(c) \/ Install(c) \/ Disarm(c) \/ Disarmed(c)
  \/ \E t \in Task : Spawn(c, t) \/ CancelTask(c, t)

MicStep == MicLeaves \/ MicRemoves

MainStep ==
  \/ Stop \/ CloseCommands \/ CloseTasks \/ ClearWatchers \/ TakeMic \/ JoinMic
  \/ \E b \in BOOLEAN :
       AwaitTasks(b) \/ AwaitCommands(b) \/ StopChildren(b) \/ FinalStep(b) \/ Mark(b)
  \/ Crash \/ Launch

LEMMA StepKinds ==
  ASSUME Next
  PROVE  \/ \E t \in Task : TaskStep(t)
         \/ \E c \in Command : CommandStep(c)
         \/ MicStep \/ MainStep
BY DEF Next, TaskStep, CommandStep, MicStep, MainStep

-----------------------------------------------------------------------------
(* What each actor leaves alone. *)

\* A task's thread moves only while it has not ended, and only Record ends it.
Moves(t) ==
  /\ thread[t] # "ended"
  /\ \A u \in Task : u # t => thread'[u] = thread[u] /\ entry'[u] = entry[u]
  /\ \/ thread'[t] # "ended" /\ entry'[t] = entry[t]
     \/ thread[t] = "done" /\ thread'[t] = "ended" /\ entry'[t] = "Ended"

LEMMA TaskMoves ==
  ASSUME TypeOK, Owned, NEW t \in Task, TaskStep(t)
  PROVE  UNCHANGED taskOnly /\ Moves(t)
<1>1. CASE Admitted(t) \/ Refused(t) \/ Resume(t) \/ Sleep(t) \/ CheckWatcher(t) \/ InsertWatcher(t)
  BY <1>1 DEF Admitted, Refused, Resume, Sleep, CheckWatcher, InsertWatcher, Goes, Moves, TypeOK
<1>2. CASE Record(t)
  BY <1>2 DEF Record, Goes, Moves, TypeOK
<1>3. CASE Return(t) \/ Ask(t) \/ PauseAt(t) \/ Test(t) \/ TimeOut(t) \/ Stick(t) \/ Unstick(t)
           \/ StartWatcher(t)
  BY <1>3 DEF Return, Ask, PauseAt, Test, TimeOut, Stick, Unstick, StartWatcher, Goes, Moves, TypeOK
<1>4. CASE Release(t)
  BY <1>4 DEF Release, Moves, TypeOK
<1> QED BY <1>1, <1>2, <1>3, <1>4 DEF TaskStep, Work

LEMMA TaskTyped ==
  ASSUME TypeOK, NEW t \in Task, TaskStep(t)
  PROVE  TypeOK'
<1> USE DEF TypeOK, Final, Step
<1>1. /\ entry' \in [Task -> {"none", "Running", "Ended"}]
      /\ cancel' \subseteq Task /\ leased' \subseteq Task /\ handled' = handled
      /\ watch' \in {"none", "loose", "map"}
      /\ UNCHANGED taskOnly
  BY DEF TaskStep, Work, Admitted, Refused, Resume, Sleep, CheckWatcher, InsertWatcher, Record,
         Return, Ask, Release, PauseAt, Test, TimeOut, Stick, Unstick, StartWatcher
<1>2. thread' \in [Task -> {"run", "lane", "held", "test", "sleep", "stuck", "handle", "insert",
                            "done", "ended"}]
  BY DEF TaskStep, Work, Admitted, Refused, Resume, Sleep, CheckWatcher, InsertWatcher, Record,
         Return, Ask, Release, PauseAt, Test, TimeOut, Stick, Unstick, StartWatcher, Goes
<1>3. /\ open' = open /\ paused' = paused /\ cmd' = cmd /\ sow' = sow /\ voice' = voice
      /\ micIn' = micIn /\ micLock' = micLock /\ micThread' = micThread /\ down' = down
      /\ gate' = gate /\ clean' = clean /\ marker' = marker /\ unclean' = unclean /\ done' = done
  BY <1>1 DEF taskOnly, mic, outcome
<1> QED BY <1>1, <1>2, <1>3

LEMMA CommandTyped ==
  ASSUME TypeOK, NEW c \in Command, CommandStep(c)
  PROVE  TypeOK'
<1> USE DEF TypeOK, Final, Step, Does, Goes, CommandStep
<1>1. /\ leased' = leased /\ voice' = voice /\ down' = down
      /\ gate' = gate /\ clean' = clean /\ marker' = marker /\ unclean' = unclean /\ done' = done
  BY DEF Admit, Finish, StartThread, StartFails, StoreHandle, Configure, AddWatcher, KeepWatcher,
         Reap, Arm, Install, Disarm, Disarmed, Spawn, CancelTask, cmdOnly, outcome
<1>2. /\ entry' \in [Task -> {"none", "Running", "Ended"}]
      /\ handled' \subseteq Task /\ cancel' \subseteq Task /\ open' \subseteq {"tasks", "commands"}
  <2>1. UNCHANGED regs \/ StartFails(c) \/ StoreHandle(c) \/ \E t \in Task : Spawn(c, t) \/ CancelTask(c, t)
    BY DEF Admit, Finish, StartThread, Configure, AddWatcher, KeepWatcher, Reap, Arm, Install,
           Disarm, Disarmed
  <2>2. CASE UNCHANGED regs
    BY <2>2 DEF regs
  <2>3. CASE StartFails(c)
    BY <2>3 DEF StartFails
  <2>4. CASE StoreHandle(c)
    BY <2>4 DEF StoreHandle
  <2>5. CASE \E t \in Task : Spawn(c, t)
    BY <2>5 DEF Spawn
  <2>6. CASE \E t \in Task : CancelTask(c, t)
    BY <2>6 DEF CancelTask
  <2> QED BY <2>1, <2>2, <2>3, <2>4, <2>5, <2>6
<1>3. cmd' \in [Command -> {"idle", "busy", "start", "store", "watcher", "arm", "disarm"}]
  <2>1. \/ cmd' = cmd
        \/ \E x \in {"idle", "busy", "start", "store", "watcher", "arm", "disarm"} :
              cmd' = [cmd EXCEPT ![c] = x]
    BY DEF Admit, Finish, StartThread, StartFails, StoreHandle, Configure, AddWatcher, KeepWatcher,
           Reap, Arm, Install, Disarm, Disarmed, Spawn, CancelTask
  <2> QED BY <2>1
<1>4. sow' \in [Command -> Task]
  <2>1. sow' = sow \/ \E t \in Task : sow' = [sow EXCEPT ![c] = t]
    BY TaskAssumption
       DEF Admit, Finish, StartThread, StartFails, StoreHandle, Configure, AddWatcher, KeepWatcher,
           Reap, Arm, Install, Disarm, Disarmed, Spawn, CancelTask
  <2> QED BY <2>1
<1>8. watch' \in {"none", "loose", "map"}
  BY DEF Admit, Finish, StartThread, StartFails, StoreHandle, Configure, AddWatcher, KeepWatcher,
         Reap, Arm, Install, Disarm, Disarmed, Spawn, CancelTask
<1>5. thread' \in [Task -> {"run", "lane", "held", "test", "sleep", "stuck", "handle", "insert",
                            "done", "ended"}]
  BY DEF Admit, Finish, StartThread, StartFails, StoreHandle, Configure, AddWatcher, KeepWatcher,
         Reap, Arm, Install, Disarm, Disarmed, Spawn, CancelTask, Woken
<1>6. /\ paused' \in BOOLEAN /\ micIn' \in BOOLEAN
  BY DEF Admit, Finish, StartThread, StartFails, StoreHandle, Configure, AddWatcher, KeepWatcher,
         Reap, Arm, Install, Disarm, Disarmed, Spawn, CancelTask, mic
<1>7. /\ micLock' \in Command \cup {Nobody, "quit"} /\ micThread' \in {"none", "run", "leaving"}
  BY DEF Admit, Finish, StartThread, StartFails, StoreHandle, Configure, AddWatcher, KeepWatcher,
         Reap, Arm, Install, Disarm, Disarmed, Spawn, CancelTask, mic
<1> QED BY <1>1, <1>2, <1>3, <1>4, <1>5, <1>6, <1>7, <1>8

LEMMA MicTyped ==
  ASSUME TypeOK, MicStep
  PROVE  TypeOK'
<1> USE DEF TypeOK, Final, Step, MicStep, MicLeaves, MicRemoves
<1>1. /\ entry' = entry /\ handled' = handled /\ cancel' = cancel /\ open' = open
      /\ thread' = thread /\ leased' = leased /\ paused' = paused /\ cmd' = cmd /\ sow' = sow
      /\ watch' = watch /\ voice' = voice /\ down' = down
      /\ gate' = gate /\ clean' = clean /\ marker' = marker /\ unclean' = unclean /\ done' = done
  BY DEF micOnly, regs, outcome
<1>2. micIn' \in BOOLEAN
  OBVIOUS
<1>3. micLock' = micLock /\ micThread' \in {"none", "leaving"}
  OBVIOUS
<1> QED BY <1>1, <1>2, <1>3

LEMMA MainTyped ==
  ASSUME TypeOK, MainStep
  PROVE  TypeOK'
<1> USE DEF TypeOK, Final, Step, MainStep, Stop, CloseCommands, CloseTasks, ClearWatchers, TakeMic,
            JoinMic, AwaitTasks, AwaitCommands, StopChildren, FinalStep, Mark, Crash, Launch
<1>1. /\ leased' = leased /\ paused' = paused /\ cmd' = cmd /\ sow' = sow /\ voice' = voice
      /\ micThread' = micThread
  BY DEF quitOnly, mic
<1>2. entry' \in [Task -> {"none", "Running", "Ended"}]
  BY DEF regs
<1>11. handled' \subseteq Task
  BY DEF regs
<1>12. cancel' \subseteq Task /\ open' \subseteq {"tasks", "commands"}
  BY DEF regs, Running
<1>3. thread' \in [Task -> {"run", "lane", "held", "test", "sleep", "stuck", "handle", "insert",
                            "done", "ended"}]
  BY DEF Woken, Running
<1>4. watch' \in {"none", "loose", "map"} /\ micLock' \in Command \cup {Nobody, "quit"}
  BY DEF mic
<1>5. micIn' \in BOOLEAN
  BY DEF mic
<1>6. gate' \in BOOLEAN
  OBVIOUS
<1>7. clean' \in BOOLEAN
  OBVIOUS
<1>8. marker' \in BOOLEAN /\ unclean' \in BOOLEAN
  BY DEF quitOnly
<1>9. done' \subseteq Step
  OBVIOUS
<1>10. down' \in Final \cup {"up", "commands", "tasks", "watchers", "await-tasks",
                            "await-commands", "mic", "join-mic", "children", "gone", "crashed", "next"}
  BY DEF After
<1> QED BY <1>1, <1>2, <1>3, <1>4, <1>5, <1>6, <1>7, <1>8, <1>9, <1>10,
           <1>11, <1>12

-----------------------------------------------------------------------------
(* Tasks, commands and the microphone: the shutdown stays where it is. *)

\* A thread that moves was owned, and stays so.
LEMMA TaskQuits ==
  ASSUME QuitInv, NEW t \in Task, TaskStep(t)
  PROVE  QuitInv'
<1> USE DEF Final, Step, Closing, Drained, Refusing, QuitInv, Final, Step, Closing, Drained, Refusing
<1>1. UNCHANGED taskOnly /\ Moves(t)
  BY TaskMoves
<1>2. UNCHANGED <<open, cmd, sow, micIn, micLock, micThread, down, gate, clean, marker, unclean, done>>
  BY <1>1 DEF taskOnly, mic, outcome
<1>3. TypeOK'
  BY TaskTyped
<1>4. Doors' /\ Heard' /\ Sealed'
  BY <1>2 DEF Doors, Heard, Sealed
<1>5. Owned'
  BY <1>1, <1>2 DEF Owned, Moves, TypeOK
<1>6. Gated'
  BY <1>1, <1>2 DEF Gated, Moves, Owned
<1> QED BY <1>3, <1>4, <1>5, <1>6

\* Past the commands' wait no command does anything any more.
LEMMA CommandLate ==
  ASSUME QuitInv, NEW c \in Command, CommandStep(c), gate
  PROVE  down \notin Drained
<1> SUFFICES ASSUME down \in Drained PROVE FALSE
  OBVIOUS
<1>1. cmd[c] = "idle" /\ "commands" \notin open
  BY DEF QuitInv, Gated, Doors, Refusing
<1> QED BY <1>1 DEF CommandStep, Admit, Finish, StartThread, StartFails, StoreHandle, Configure,
                    AddWatcher, KeepWatcher, Reap, Arm, Install, Disarm, Disarmed, Spawn, CancelTask

\* What a command does to the entries: it spawns while the registry accepts,
\* or takes back an entry whose thread did not start.
LEMMA CommandOwns ==
  ASSUME QuitInv, NEW c \in Command, CommandStep(c)
  PROVE  Owned' /\ (gate /\ down = "await-commands" => UNCHANGED entry)
<1> USE DEF Final, Step, Closing, Drained, Refusing, QuitInv, Owned, TypeOK, Does, Goes
<1>1. CASE Admit(c) \/ Finish(c) \/ Configure(c) \/ AddWatcher(c) \/ KeepWatcher(c)
  BY <1>1 DEF Admit, Finish, Configure, AddWatcher, KeepWatcher, regs
<1>2. CASE Reap(c) \/ Arm(c) \/ Install(c) \/ Disarm(c) \/ Disarmed(c)
  BY <1>2 DEF Reap, Arm, Install, Disarm, Disarmed, regs
<1>3. CASE StartThread(c)
  BY <1>3 DEF StartThread, regs
<1>4. CASE StartFails(c)
  BY <1>4 DEF StartFails, Gated
<1>5. CASE StoreHandle(c)
  BY <1>5 DEF StoreHandle
<1>6. ASSUME NEW t \in Task, Spawn(c, t)
      PROVE  Owned' /\ (gate /\ down = "await-commands" => UNCHANGED entry)
  BY <1>6 DEF Spawn, Doors, Refusing
<1>7. ASSUME NEW t \in Task, CancelTask(c, t)
      PROVE  Owned' /\ (gate /\ down = "await-commands" => UNCHANGED entry)
  BY <1>7 DEF CancelTask, Woken
<1> QED BY <1>1, <1>2, <1>3, <1>4, <1>5, <1>6, <1>7 DEF CommandStep

LEMMA CommandHears ==
  ASSUME QuitInv, NEW c \in Command, CommandStep(c)
  PROVE  Heard'
<1> USE DEF Final, Step, Closing, Drained, Refusing, QuitInv, Heard, TypeOK, Does
<1>0. UNCHANGED down
  BY DEF CommandStep, Admit, Finish, StartThread, StartFails, StoreHandle, Configure,
         AddWatcher, KeepWatcher, Reap, Arm, Install, Disarm, Disarmed, Spawn, CancelTask, cmdOnly
<1>1. CASE UNCHANGED mic /\ cmd[c] \notin {"arm", "disarm"}
  <2>1. \A d \in Command : cmd[d] \in {"arm", "disarm"} => cmd'[d] = cmd[d]
    BY <1>1, ZenonT(30) DEF CommandStep, Admit, Finish, StartThread, StartFails, StoreHandle, Configure,
           AddWatcher, KeepWatcher, Reap, Arm, Install, Disarm, Disarmed, Spawn, CancelTask
  <2> QED BY <1>0, <1>1, <2>1 DEF mic
<1>2. CASE Reap(c)
  BY <1>0, <1>2 DEF Reap
<1>3. CASE Arm(c)
  BY <1>0, <1>3 DEF Arm
<1>4. CASE Install(c)
  BY <1>0, <1>4, NobodyAssumption DEF Install
<1>5. CASE Disarm(c)
  BY <1>0, <1>5, NobodyAssumption DEF Disarm
<1>6. CASE Disarmed(c)
  BY <1>0, <1>6, NobodyAssumption DEF Disarmed
<1> QED BY <1>1, <1>2, <1>3, <1>4, <1>5, <1>6
        DEF CommandStep, Admit, Finish, StartThread, StartFails, StoreHandle, Configure,
            AddWatcher, KeepWatcher, Spawn, CancelTask

LEMMA CommandQuits ==
  ASSUME QuitInv, NEW c \in Command, CommandStep(c)
  PROVE  QuitInv'
<1>1. UNCHANGED <<down, gate, clean, marker, unclean, done, open>>
  BY DEF CommandStep, Admit, Finish, StartThread, StartFails, StoreHandle, Configure,
         AddWatcher, KeepWatcher, Reap, Arm, Install, Disarm, Disarmed, Spawn, CancelTask,
         cmdOnly, outcome, regs
<1>2. Doors' /\ Sealed'
  BY <1>1 DEF QuitInv, Doors, Sealed
<1>3. Gated'
  BY <1>1, CommandLate, CommandOwns DEF QuitInv, Gated, Drained, Final
<1> QED BY <1>2, <1>3, CommandTyped, CommandOwns, CommandHears DEF QuitInv

LEMMA MicQuits ==
  ASSUME QuitInv, MicStep
  PROVE  QuitInv'
<1> USE DEF Final, Step, Closing, Drained, Refusing, QuitInv, MicStep, MicLeaves, MicRemoves, micOnly, regs, outcome
<1>1. Doors' /\ Owned' /\ Sealed'
  BY DEF Doors, Owned, Sealed
<1>2. Heard' /\ Gated'
  BY DEF Heard, Gated
<1> QED BY <1>1, <1>2, MicTyped

-----------------------------------------------------------------------------
(* The shutdown itself. *)

LEMMA MainQuits ==
  ASSUME QuitInv, MainStep
  PROVE  QuitInv'
<1> USE DEF Final, Step, Closing, Drained, Refusing, QuitInv, Final, Step, Closing, Drained, Refusing
<1>0. TypeOK'
  BY MainTyped
<1>1. CASE Stop \/ CloseCommands
  BY <1>0, <1>1 DEF Stop, CloseCommands, Doors, Owned, Heard, Gated, Sealed, regs, mic, quitOnly
<1>2. CASE CloseTasks
  <2>1. Doors' /\ Heard' /\ Gated' /\ Sealed'
    BY <1>2 DEF CloseTasks, Doors, Heard, Gated, Sealed, mic, quitOnly
  <2>2. Owned'
    BY <1>2 DEF CloseTasks, Woken, Owned, TypeOK, quitOnly
  <2> QED BY <1>0, <2>1, <2>2
<1>3. CASE ClearWatchers
  BY <1>0, <1>3 DEF ClearWatchers, Doors, Owned, Heard, Gated, Sealed, regs, mic, quitOnly
<1>4. ASSUME NEW b \in BOOLEAN, AwaitTasks(b) PROVE QuitInv'
  <2>1. Doors' /\ Heard' /\ Sealed'
    BY <1>4 DEF AwaitTasks, Doors, Heard, Sealed, mic, quitOnly
  <2>2. Owned'
    BY <1>4 DEF AwaitTasks, Owned, TypeOK, quitOnly
  <2>3. Gated'
    BY <1>4 DEF AwaitTasks, Gated, Remaining, TypeOK
  <2> QED BY <1>0, <2>1, <2>2, <2>3
<1>5. ASSUME NEW b \in BOOLEAN, AwaitCommands(b) PROVE QuitInv'
  <2>1. Doors' /\ Heard' /\ Sealed' /\ Owned'
    BY <1>5 DEF AwaitCommands, Doors, Heard, Sealed, Owned, regs, mic, quitOnly
  <2>2. Gated'
    BY <1>5 DEF AwaitCommands, Gated, Busy, regs, mic, quitOnly
  <2> QED BY <1>0, <2>1, <2>2
<1>6. CASE TakeMic \/ JoinMic
  <2>1. Doors' /\ Sealed' /\ Owned'
    BY <1>6 DEF TakeMic, JoinMic, Doors, Sealed, Owned, regs, quitOnly
  <2>2. Heard'
    BY <1>6, NobodyAssumption DEF TakeMic, JoinMic, Heard, quitOnly
  <2>3. Gated'
    BY <1>6 DEF TakeMic, JoinMic, Gated, Heard, regs, quitOnly
  <2> QED BY <1>0, <2>1, <2>2, <2>3
<1>7. ASSUME NEW b \in BOOLEAN, StopChildren(b) PROVE QuitInv'
  <2>1. Doors' /\ Owned' /\ Heard' /\ Gated'
    BY <1>7 DEF StopChildren, Doors, Owned, Heard, Gated, regs, mic, quitOnly
  <2>2. Sealed'
    BY <1>7 DEF StopChildren, Sealed, Before, quitOnly
  <2> QED BY <1>0, <2>1, <2>2
<1>8. ASSUME NEW b \in BOOLEAN, FinalStep(b) PROVE QuitInv'
  <2>1. Doors' /\ Owned' /\ Heard' /\ Gated'
    BY <1>8 DEF FinalStep, After, Doors, Owned, Heard, Gated, regs, mic, quitOnly
  <2>2. Sealed'
    <3>1. /\ down \in Step /\ down' = After[down] /\ marker' = marker /\ unclean' = unclean
          /\ (clean' => clean /\ done' = done \cup {down})
      BY <1>8 DEF FinalStep, quitOnly
    <3>2. clean' => Before[down'] \subseteq done'
      BY <3>1, BeforeAfter DEF Sealed
    <3>3. marker' /\ down' # "next"
      BY <3>1 DEF Sealed, After
    <3> QED BY <3>2, <3>3 DEF Sealed
  <2> QED BY <1>0, <2>1, <2>2
<1>9. ASSUME NEW b \in BOOLEAN, Mark(b) PROVE QuitInv'
  <2>1. Doors' /\ Owned' /\ Heard' /\ Gated'
    BY <1>9 DEF Mark, Doors, Owned, Heard, Gated, regs, mic
  <2>2. Sealed'
    <3>1. clean => done = Step
      BY <1>9, BeforeAfter DEF Mark, Sealed, TypeOK
    <3>2. ~marker' => clean /\ done' = done
      BY <1>9 DEF Mark
    <3>3. down' = "gone" /\ clean' = clean
      BY <1>9 DEF Mark
    <3> QED BY <3>1, <3>2, <3>3 DEF Sealed
  <2> QED BY <1>0, <2>1, <2>2
<1>10. CASE Crash \/ Launch
  <2>1. Doors' /\ Owned' /\ Heard' /\ Gated'
    BY <1>10 DEF Crash, Launch, Alive, Doors, Owned, Heard, Gated, regs, mic, quitOnly
  <2>2. Sealed'
    BY <1>10 DEF Crash, Launch, Alive, Sealed, quitOnly
  <2> QED BY <1>0, <2>1, <2>2
<1> QED BY <1>1, <1>2, <1>3, <1>4, <1>5, <1>6, <1>7, <1>8, <1>9, <1>10 DEF MainStep

-----------------------------------------------------------------------------
(* The theorems. *)

LEMMA InitialQuit ==
  ASSUME Init
  PROVE  QuitInv
<1>1. TypeOK
  BY TaskAssumption DEF Init, TypeOK
<1>2. Doors /\ Owned /\ Heard /\ Gated /\ Sealed
  BY NobodyAssumption
     DEF Init, Doors, Owned, Heard, Gated, Sealed, Final, Step, Closing, Drained, Refusing
<1> QED BY <1>1, <1>2 DEF QuitInv

LEMMA QuitStays ==
  ASSUME QuitInv, [Next]_vars
  PROVE  QuitInv'
<1>1. CASE Next
  BY <1>1, StepKinds, TaskQuits, CommandQuits, MicQuits, MainQuits
<1>2. CASE UNCHANGED vars
  BY <1>2 DEF vars, regs, mic, outcome, QuitInv, TypeOK, Doors, Owned, Heard, Gated, Sealed
<1> QED BY <1>1, <1>2

\* The inductive invariant of the quit.
LEMMA QuitInvariant == Spec => []QuitInv
BY InitialQuit, QuitStays, PTL DEF Spec

\* The registries, the locks and the shutdown keep their types (managed_tasks.rs,
\* command_work.rs, state.rs) for any number of tasks and commands.
THEOREM TypeCorrect == Spec => []TypeOK
BY QuitInvariant, PTL DEF QuitInv

\* However tasks hang, commands linger and spawn, and the microphone is armed
\* and disarmed, the final flushes of App::shutdown run with no managed task, no
\* command and no recording beside them (state.rs, managed_tasks.rs).
THEOREM FinalStepsRunAlone == Spec => []FinalStepsAreAlone
<1>1. QuitInv => FinalStepsAreAlone
  BY DEF QuitInv, Gated, Owned, Drained, FinalStepsAreAlone
<1> QED BY <1>1, QuitInvariant, PTL

\* A launch that finds no marker follows a quit that finished every final step
\* (diagnostics.rs, state.rs), whatever failed, hung or crashed.
THEOREM MarkerIsAPromise == Spec => []CleanIsFinalized
<1>1. QuitInv => CleanIsFinalized
  BY DEF QuitInv, Sealed, CleanIsFinalized
<1> QED BY <1>1, QuitInvariant, PTL
=============================================================================
