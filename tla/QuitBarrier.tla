---------------------------- MODULE QuitBarrier ----------------------------
(***************************************************************************)
(* The ownership of the desktop's background work and the way it quits:    *)
(* managed tasks (managed_tasks.rs), command permits (command_work.rs),    *)
(* resource lanes and Pause (resource_governor.rs), the watcher and the    *)
(* microphone threads, App::shutdown (state.rs) and the marker by which    *)
(* the next launch knows a clean exit (diagnostics.rs).                    *)
(*                                                                         *)
(* A task is one (owner, key); what its work does is left out, but for     *)
(* what can make it late: lanes, pauses, sleeps and calls that never       *)
(* return.  One command permit at a time may do what commands do here.     *)
(***************************************************************************)
EXTENDS Naturals, FiniteSets

CONSTANTS
    Task,           \* keys of managed tasks
    Command,        \* IPC commands
    Nobody,         \* holds no lock
    Lane,           \* Task -> the rank of the lane it asks for
    Budget,         \* total_concurrency of the processing intensity
    Restorer,       \* the task that restores the watchers (startup-watchers)
    Long            \* tasks whose sleeps outlast the shutdown's wait

ASSUME TaskAssumption == Restorer \in Task /\ Long \subseteq Task /\ Lane \in [Task -> 0..8]
ASSUME BudgetAssumption == Budget \in Nat \ {0}
ASSUME NobodyAssumption == Nobody \notin Command /\ "quit" \notin Command \cup {Nobody}

VARIABLES
    entry,      \* TaskState of each key: "none", "Running", "Ended"
    handled,    \* keys whose entry holds its JoinHandle
    cancel,     \* keys whose token is cancelled
    thread,     \* where each key's thread is
    leased,     \* tasks that hold a ResourcePermit
    paused,     \* the persisted Pause
    open,       \* the registries that accept: subset of {"tasks", "commands"}
    cmd,        \* Command -> what its permit is doing, "idle": none
    sow,        \* Command -> the key it is spawning (Restorer: none)
    watch,      \* the root's watcher: "none", "loose" (running), "map" (owned as well)
    voice,      \* whether this machine has a microphone
    micIn,      \* App.mic holds a handle
    micLock,    \* the holder of the mic mutex
    micThread,  \* "none", "run", "leaving"
    down,       \* where shutdown is
    gate,       \* the finalization gate was reached
    clean,      \* clean_shutdown
    marker,     \* the launch marker exists
    unclean,    \* previous_unclean_launch, as the next launch sees it
    done        \* the final steps that succeeded

regs == <<entry, handled, cancel, open>>
mic == <<micIn, micLock, micThread>>
outcome == <<gate, clean, marker, unclean, done>>
vars == <<regs, thread, leased, paused, cmd, sow, watch, voice, mic, down, outcome>>

Step == {"close", "journal", "collections", "checkpoint"}
Final == Step \cup {"mark"}
Alive == down \notin {"gone", "crashed", "next"}

\* The first launch; its pumps have been started by the setup.
Init ==
    /\ entry = [t \in Task |-> "Running"] /\ handled = Task /\ cancel = {}
    /\ thread = [t \in Task |-> "run"] /\ leased = {}
    /\ open = {"tasks", "commands"}
    /\ cmd = [c \in Command |-> "idle"] /\ sow = [c \in Command |-> Restorer]
    /\ watch = "none" /\ micIn = FALSE /\ micLock = Nobody /\ micThread = "none"
    /\ down = "up" /\ gate = FALSE /\ clean = TRUE
    /\ paused \in BOOLEAN /\ voice \in BOOLEAN
    /\ marker = TRUE /\ unclean = FALSE /\ done = {}

----------------------------------------------------------------------------
(* The work of a task's thread *)

taskOnly == <<open, paused, cmd, sow, voice, mic, down, outcome>>

Goes(t, at) == thread' = [thread EXCEPT ![t] = at]

Raw(t) == Lane[t] = 0
Waiting(r) == \E u \in Task : thread[u] = "lane" /\ Lane[u] < r
Leases(r) == {u \in leased : Lane[u] = r}

\* can_admit.
CanAdmit(t) ==
    /\ paused => Raw(t)
    /\ Raw(t) => Leases(0) = {}
    /\ ~Raw(t) => ~Waiting(Lane[t]) /\ Cardinality(leased) < Budget

Ask(t) ==
    /\ thread[t] = "run" /\ t \notin leased
    /\ Goes(t, "lane")
    /\ UNCHANGED <<entry, handled, cancel, leased, watch>> /\ UNCHANGED taskOnly

Admitted(t) ==
    /\ thread[t] = "lane" /\ t \notin cancel /\ CanAdmit(t)
    /\ leased' = leased \cup {t} /\ Goes(t, "run")
    /\ UNCHANGED <<entry, handled, cancel, watch>> /\ UNCHANGED taskOnly

\* Within a poll of the cancellation the waiter gives up and its task returns.
Refused(t) ==
    /\ thread[t] = "lane" /\ t \in cancel
    /\ Goes(t, "done")
    /\ UNCHANGED <<entry, handled, cancel, leased, watch>> /\ UNCHANGED taskOnly

\* A unit of work ends: the permit is dropped.
Release(t) ==
    /\ thread[t] = "run" /\ t \in leased
    /\ leased' = leased \ {t}
    /\ UNCHANGED <<entry, handled, cancel, thread, watch>> /\ UNCHANGED taskOnly

\* A long operation that holds its permit stops at a cooperative boundary.
PauseAt(t) ==
    /\ thread[t] = "run" /\ t \in leased /\ paused
    /\ Goes(t, "held")
    /\ UNCHANGED <<entry, handled, cancel, leased, watch>> /\ UNCHANGED taskOnly

Resume(t) ==
    /\ thread[t] = "held" /\ (t \in cancel \/ ~paused)
    /\ Goes(t, IF t \in cancel THEN "done" ELSE "run")
    /\ UNCHANGED <<entry, handled, cancel, leased, watch>> /\ UNCHANGED taskOnly

\* wait_for_cancel reads the flag under its mutex ...
Test(t) ==
    /\ thread[t] = "run" /\ t \notin leased \cup cancel
    /\ Goes(t, "test")
    /\ UNCHANGED <<entry, handled, cancel, leased, watch>> /\ UNCHANGED taskOnly

\* ... and blocks; a cancel in between, which takes no mutex, wakes nobody.
Sleep(t) ==
    /\ thread[t] = "test"
    /\ Goes(t, "sleep")
    /\ UNCHANGED <<entry, handled, cancel, leased, watch>> /\ UNCHANGED taskOnly

TimeOut(t) ==
    /\ thread[t] = "sleep"
    /\ Goes(t, IF t \in cancel THEN "done" ELSE "run")
    /\ UNCHANGED <<entry, handled, cancel, leased, watch>> /\ UNCHANGED taskOnly

\* A call that may never come back.
Stick(t) ==
    /\ thread[t] = "run"
    /\ Goes(t, "stuck")
    /\ UNCHANGED <<entry, handled, cancel, leased, watch>> /\ UNCHANGED taskOnly

Unstick(t) ==
    /\ thread[t] = "stuck"
    /\ Goes(t, "run")
    /\ UNCHANGED <<entry, handled, cancel, leased, watch>> /\ UNCHANGED taskOnly

\* startup-watchers starts a root's watcher, looks at its cancellation and hands it over.
StartWatcher(t) ==
    /\ t = Restorer /\ thread[t] = "run" /\ t \notin cancel /\ watch = "none"
    /\ watch' = "loose" /\ Goes(t, "handle")
    /\ UNCHANGED <<entry, handled, cancel, leased>> /\ UNCHANGED taskOnly

CheckWatcher(t) ==
    /\ thread[t] = "handle"
    /\ IF t \in cancel
         THEN watch' = "none" /\ Goes(t, "done")
         ELSE Goes(t, "insert") /\ UNCHANGED watch
    /\ UNCHANGED <<entry, handled, cancel, leased>> /\ UNCHANGED taskOnly

InsertWatcher(t) ==
    /\ thread[t] = "insert"
    /\ watch' = "map" /\ Goes(t, "run")
    /\ UNCHANGED <<entry, handled, cancel, leased>> /\ UNCHANGED taskOnly

\* The closure returns, by itself or because it saw its cancellation.
Return(t) ==
    /\ thread[t] = "run"
    /\ Goes(t, "done")
    /\ UNCHANGED <<entry, handled, cancel, leased, watch>> /\ UNCHANGED taskOnly

\* Its permit is dropped, then the thread records its end; its token is of no
\* further use.
Record(t) ==
    /\ thread[t] = "done"
    /\ leased' = leased \ {t} /\ cancel' = cancel \ {t}
    /\ entry' = [entry EXCEPT ![t] = "Ended"] /\ Goes(t, "ended")
    /\ UNCHANGED <<handled, watch>> /\ UNCHANGED taskOnly

----------------------------------------------------------------------------
(* Commands *)

cmdOnly == <<leased, voice, down, outcome>>

Does(c, what) == cmd' = [cmd EXCEPT ![c] = what]

Admit(c) ==
    /\ "commands" \in open /\ cmd[c] = "idle"
    /\ Does(c, "busy")
    /\ UNCHANGED <<regs, thread, paused, sow, watch, mic>> /\ UNCHANGED cmdOnly

\* It may also never end.
Finish(c) ==
    /\ cmd[c] = "busy"
    /\ Does(c, "idle")
    /\ UNCHANGED <<regs, thread, paused, sow, watch, mic>> /\ UNCHANGED cmdOnly

\* Mutant: spawn does not ask whether the registry accepts.
SpawnAlways(c, t) ==
    /\ cmd[c] = "busy" /\ entry[t] # "Running"
    /\ entry' = [entry EXCEPT ![t] = "Running"]
    /\ handled' = handled \ {t} /\ cancel' = cancel \ {t}
    /\ Does(c, "start") /\ sow' = [sow EXCEPT ![c] = t]
    /\ UNCHANGED <<open, thread, paused, watch, mic>> /\ UNCHANGED cmdOnly

\* spawn: the entry is there, Running and without its handle, before the thread
\* is.  The thread the key had before has only to exit: its join returns.
Spawn(c, t) ==
    /\ cmd[c] = "busy" /\ "tasks" \in open /\ entry[t] # "Running"
    /\ entry' = [entry EXCEPT ![t] = "Running"]
    /\ handled' = handled \ {t} /\ cancel' = cancel \ {t}
    /\ Does(c, "start") /\ sow' = [sow EXCEPT ![c] = t]
    /\ UNCHANGED <<open, thread, paused, watch, mic>> /\ UNCHANGED cmdOnly

StartThread(c) ==
    /\ cmd[c] = "start"
    /\ Goes(sow[c], "run") /\ Does(c, "store")
    /\ UNCHANGED <<regs, paused, sow, watch, mic>> /\ UNCHANGED cmdOnly

StartFails(c) ==
    /\ cmd[c] = "start"
    /\ entry' = [entry EXCEPT ![sow[c]] = "none"] /\ cancel' = cancel \ {sow[c]}
    /\ Does(c, "busy") /\ sow' = [sow EXCEPT ![c] = Restorer]
    /\ UNCHANGED <<handled, open, thread, paused, watch, mic>> /\ UNCHANGED cmdOnly

\* The handle is stored if the entry is still there.
StoreHandle(c) ==
    /\ cmd[c] = "store"
    /\ handled' = IF entry[sow[c]] = "none" THEN handled ELSE handled \cup {sow[c]}
    /\ Does(c, "busy") /\ sow' = [sow EXCEPT ![c] = Restorer]
    /\ UNCHANGED <<entry, cancel, open, thread, paused, watch, mic>> /\ UNCHANGED cmdOnly

\* Whoever sleeps on the tokens wakes.
Woken(ts) == thread' = [t \in Task |-> IF t \in ts /\ thread[t] = "sleep" THEN "run" ELSE thread[t]]

CancelTask(c, t) ==
    /\ cmd[c] = "busy" /\ entry[t] = "Running"
    /\ cancel' = cancel \cup {t} /\ Woken({t})
    /\ UNCHANGED <<entry, handled, open, cmd, paused, sow, watch, mic>> /\ UNCHANGED cmdOnly

Configure(c) ==
    /\ cmd[c] = "busy"
    /\ paused' = ~paused
    /\ UNCHANGED <<regs, thread, cmd, sow, watch, mic>> /\ UNCHANGED cmdOnly

\* add_root starts a watcher and inserts it, without a look at the shutdown.
AddWatcher(c) ==
    /\ cmd[c] = "busy" /\ watch = "none"
    /\ watch' = "loose" /\ Does(c, "watcher")
    /\ UNCHANGED <<regs, thread, paused, sow, mic>> /\ UNCHANGED cmdOnly

KeepWatcher(c) ==
    /\ cmd[c] = "watcher"
    /\ watch' = "map" /\ Does(c, "busy")
    /\ UNCHANGED <<regs, thread, paused, sow, mic>> /\ UNCHANGED cmdOnly

\* Arming first takes out the handle of a worker that has ended by itself.
Reap(c) ==
    /\ cmd[c] = "busy" /\ micIn /\ micThread = "none" /\ micLock = Nobody
    /\ micIn' = FALSE
    /\ UNCHANGED <<regs, thread, paused, cmd, sow, watch, micLock, micThread>> /\ UNCHANGED cmdOnly

\* It starts the microphone thread, sees it active, and installs its handle.
Arm(c) ==
    /\ cmd[c] = "busy" /\ voice /\ ~micIn /\ micThread = "none"
    /\ micThread' = "run" /\ Does(c, "arm")
    /\ UNCHANGED <<regs, thread, paused, sow, watch, micIn, micLock>> /\ UNCHANGED cmdOnly

Install(c) ==
    /\ cmd[c] = "arm" /\ micLock = Nobody
    /\ micIn' = TRUE /\ Does(c, "busy")
    /\ UNCHANGED <<regs, thread, paused, sow, watch, micLock, micThread>> /\ UNCHANGED cmdOnly

\* Disarming takes the handle and joins its thread; `drop(mic.lock().take())`
\* holds the mutex until the join has returned.
Disarm(c) ==
    /\ cmd[c] = "busy" /\ micIn /\ micLock = Nobody
    /\ micIn' = FALSE /\ micLock' = c /\ Does(c, "disarm")
    /\ UNCHANGED <<regs, thread, paused, sow, watch, micThread>> /\ UNCHANGED cmdOnly

Disarmed(c) ==
    /\ cmd[c] = "disarm" /\ micThread = "none"
    /\ micLock' = Nobody /\ Does(c, "busy")
    /\ UNCHANGED <<regs, thread, paused, sow, watch, micIn, micThread>> /\ UNCHANGED cmdOnly

----------------------------------------------------------------------------
(* The microphone thread *)

micOnly == <<regs, thread, leased, paused, cmd, sow, watch, voice, down, outcome>>

\* It is told to stop, or its device fails.
MicLeaves ==
    /\ micThread = "run" /\ micThread' = "leaving"
    /\ UNCHANGED <<micIn, micLock>> /\ UNCHANGED micOnly

\* Its last act, remove_finished_handle, takes the mutex.
MicRemoves ==
    /\ micThread = "leaving" /\ micLock = Nobody
    /\ micThread' = "none" /\ micIn' = FALSE
    /\ UNCHANGED micLock /\ UNCHANGED micOnly

----------------------------------------------------------------------------
(* App::shutdown, on the main thread *)

quitOnly == <<leased, paused, cmd, sow, voice, marker, unclean>>

Stop ==
    /\ down = "up" /\ down' = "commands"
    /\ UNCHANGED <<regs, thread, watch, mic, gate, clean, done>> /\ UNCHANGED quitOnly

CloseCommands ==
    /\ down = "commands" /\ down' = "tasks"
    /\ open' = open \ {"commands"}
    /\ UNCHANGED <<entry, handled, cancel, thread, watch, mic, gate, clean, done>> /\ UNCHANGED quitOnly

Running == {t \in Task : entry[t] = "Running"}

\* begin_shutdown: admission closes and every running task is cancelled.
CloseTasks ==
    /\ down = "tasks" /\ down' = "watchers"
    /\ open' = open \ {"tasks"}
    /\ cancel' = cancel \cup Running /\ Woken(Running)
    /\ UNCHANGED <<entry, handled, watch, mic, gate, clean, done>> /\ UNCHANGED quitOnly

\* The owned watchers are stopped and joined.
ClearWatchers ==
    /\ down = "watchers" /\ down' = "await-tasks"
    /\ watch' = IF watch = "map" THEN "none" ELSE watch
    /\ UNCHANGED <<regs, thread, mic, gate, clean, done>> /\ UNCHANGED quitOnly

Remaining == {t \in Task : entry[t] = "Running" \/ (entry[t] = "Ended" /\ t \notin handled)}

\* Mutant: there is no deadline.
AwaitForever(late) ==
    /\ down = "await-tasks" /\ Remaining = {}
    /\ down' = "await-commands" /\ gate' = TRUE
    /\ entry' = [t \in Task |-> "none"] /\ handled' = {}
    /\ UNCHANGED <<cancel, open, thread, watch, mic, clean, done>> /\ UNCHANGED quitOnly

\* Every task has ended and can be joined, or three seconds are over: what has
\* ended is taken out either way.
AwaitTasks(late) ==
    /\ down = "await-tasks" /\ (late \/ Remaining = {})
    /\ down' = "await-commands" /\ gate' = (Remaining = {})
    /\ entry' = [t \in Task |-> IF entry[t] = "Running" THEN "Running" ELSE "none"]
    /\ handled' = handled \cap Running
    /\ UNCHANGED <<cancel, open, thread, watch, mic, clean, done>> /\ UNCHANGED quitOnly

Busy == {c \in Command : cmd[c] # "idle"}

AwaitCommands(late) ==
    /\ down = "await-commands" /\ (late \/ Busy = {})
    /\ down' = "mic" /\ gate' = (gate /\ Busy = {})
    /\ UNCHANGED <<regs, thread, watch, mic, clean, done>> /\ UNCHANGED quitOnly

\* The microphone goes first, gate or no gate, as in Disarm.
TakeMic ==
    /\ down = "mic" /\ micLock = Nobody
    /\ IF micIn
         THEN micIn' = FALSE /\ micLock' = "quit" /\ down' = "join-mic"
         ELSE down' = "children" /\ UNCHANGED <<micIn, micLock>>
    /\ UNCHANGED <<regs, thread, watch, micThread, gate, clean, done>> /\ UNCHANGED quitOnly

JoinMic ==
    /\ down = "join-mic" /\ micThread = "none"
    /\ down' = "children" /\ micLock' = Nobody
    /\ UNCHANGED <<regs, thread, watch, micIn, micThread, gate, clean, done>> /\ UNCHANGED quitOnly

\* Supervisors and embedders stop, in bounded time or not acknowledged; without
\* the gate, or without their acknowledgement, nothing is finalized.
StopChildren(acknowledged) ==
    /\ down = "children"
    /\ down' = IF gate /\ acknowledged THEN "close" ELSE "gone"
    /\ UNCHANGED <<regs, thread, watch, mic, gate, clean, done>> /\ UNCHANGED quitOnly

After == [close |-> "journal", journal |-> "collections", collections |-> "checkpoint",
          checkpoint |-> "mark"]

\* Close the session, flush its journal and the collections, checkpoint the WAL:
\* each is tried, whatever became of the one before.
FinalStep(ok) ==
    /\ down \in Step /\ down' = After[down]
    /\ clean' = (clean /\ ok) /\ done' = IF ok THEN done \cup {down} ELSE done
    /\ UNCHANGED <<regs, thread, watch, mic, gate>> /\ UNCHANGED quitOnly

\* Only then, and only if all of it succeeded, the marker is removed.
Mark(ok) ==
    /\ down = "mark" /\ down' = "gone"
    /\ marker' = ~(clean /\ ok)
    /\ UNCHANGED <<regs, thread, leased, paused, cmd, sow, watch, voice, mic, gate, clean, unclean, done>>

\* The process dies.
Crash ==
    /\ Alive /\ down' = "crashed"
    /\ UNCHANGED <<regs, thread, watch, mic, gate, clean, done>> /\ UNCHANGED quitOnly

\* The next launch looks for the marker, and from there on is as this one was.
Launch ==
    /\ down \in {"gone", "crashed"} /\ down' = "next"
    /\ unclean' = marker
    /\ UNCHANGED <<regs, thread, leased, paused, cmd, sow, watch, voice, mic, gate, clean, marker, done>>

----------------------------------------------------------------------------

Work(t) ==
    \/ Admitted(t) \/ Refused(t) \/ Resume(t) \/ Sleep(t)
    \/ CheckWatcher(t) \/ InsertWatcher(t) \/ Record(t)
    \/ t \in cancel /\ Return(t)

Next ==
    \/ Alive /\ \E t \in Task :
         \/ Work(t) \/ Return(t) \/ Ask(t) \/ Release(t) \/ PauseAt(t) \/ Test(t)
         \/ TimeOut(t) \/ Stick(t) \/ Unstick(t) \/ StartWatcher(t)
    \/ Alive /\ \E c \in Command :
         \/ Admit(c) \/ Finish(c) \/ StartThread(c) \/ StartFails(c) \/ StoreHandle(c)
         \/ Configure(c) \/ AddWatcher(c) \/ KeepWatcher(c)
         \/ Reap(c) \/ Arm(c) \/ Install(c) \/ Disarm(c) \/ Disarmed(c)
         \/ \E t \in Task : Spawn(c, t) \/ CancelTask(c, t)
    \/ Alive /\ (MicLeaves \/ MicRemoves)
    \/ Stop \/ CloseCommands \/ CloseTasks \/ ClearWatchers \/ TakeMic \/ JoinMic
    \/ \E b \in BOOLEAN :
         AwaitTasks(b) \/ AwaitCommands(b) \/ StopChildren(b) \/ FinalStep(b) \/ Mark(b)
    \/ Crash \/ Launch

QuitStep ==
    \/ CloseCommands \/ CloseTasks \/ ClearWatchers \/ TakeMic \/ JoinMic
    \/ \E b \in BOOLEAN :
         AwaitTasks(b) \/ AwaitCommands(b) \/ StopChildren(b) \/ FinalStep(b) \/ Mark(b)

(***************************************************************************)
(* Fairness: the main thread goes on; a thread that can run, runs; short   *)
(* sleeps end; a spawn that has begun starts its thread; a microphone      *)
(* thread that is told to stop leaves.  A stuck call, a command and a long *)
(* sleep may take for ever.                                                *)
(***************************************************************************)
Fairness ==
    /\ WF_vars(QuitStep)
    /\ \A t \in Task :
         WF_vars(Alive /\ Work(t)) /\ (t \notin Long => WF_vars(Alive /\ TimeOut(t)))
    /\ \A c \in Command : WF_vars(Alive /\ (StartThread(c) \/ StartFails(c) \/ StoreHandle(c)))
    /\ WF_vars(Alive /\ micLock # Nobody /\ MicLeaves) /\ WF_vars(Alive /\ MicRemoves)

Spec == Init /\ [][Next]_vars /\ Fairness

----------------------------------------------------------------------------
(* Properties *)

TypeOK ==
    /\ entry \in [Task -> {"none", "Running", "Ended"}]
    /\ handled \subseteq Task /\ cancel \subseteq Task /\ leased \subseteq Task
    /\ thread \in [Task -> {"run", "lane", "held", "test", "sleep", "stuck", "handle", "insert",
                            "done", "ended"}]
    /\ paused \in BOOLEAN /\ voice \in BOOLEAN /\ open \subseteq {"tasks", "commands"}
    /\ cmd \in [Command -> {"idle", "busy", "start", "store", "watcher", "arm", "disarm"}]
    /\ sow \in [Command -> Task] /\ watch \in {"none", "loose", "map"}
    /\ micIn \in BOOLEAN /\ micLock \in Command \cup {Nobody, "quit"}
    /\ micThread \in {"none", "run", "leaving"}
    /\ down \in Final \cup {"up", "commands", "tasks", "watchers", "await-tasks",
                            "await-commands", "mic", "join-mic", "children", "gone", "crashed", "next"}
    /\ gate \in BOOLEAN /\ clean \in BOOLEAN /\ marker \in BOOLEAN /\ unclean \in BOOLEAN
    /\ done \subseteq Step

\* The final flushes and the checkpoint run alone: no managed task is at work,
\* no command holds a permit, the microphone thread hands in nothing more.
FinalStepsAreAlone ==
    down \in Final =>
        /\ \A t \in Task : thread[t] = "ended"
        /\ \A c \in Command : cmd[c] = "idle"
        /\ micThread # "run"

\* A missing marker is a promise: the launch it is missing after has finished
\* every final step, whatever failed, hung or crashed on the way.
CleanIsFinalized == (down = "next" /\ ~unclean) => done = Step

\* Quitting ends, whatever hangs, on a machine without a microphone.
QuietQuitEnds == (~voice /\ down = "commands") ~> ~Alive

\* "The wait is bounded so a wedged filesystem call can never trap the process
\* in quit forever" (state.rs:53-54).
QuitEnds == (down = "commands") ~> ~Alive

\* "The cancellation check prevents a late watcher from appearing after
\* shutdown has started" (state.rs:1142-1143).
NoLateWatcher == down \in Final => watch = "none"

\* A cancelled sleeper is woken at once, however long it sleeps (managed_tasks.rs:95-96).
CancelWakes ==
    \A t \in Task : (Alive /\ t \in cancel /\ thread[t] = "sleep") ~> (thread[t] # "sleep" \/ ~Alive)
=============================================================================
