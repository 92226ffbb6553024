--------------------------- MODULE DownloadQueue ---------------------------
(***************************************************************************)
(* The download queue of the desktop host (runtime.rs): rows, cancel       *)
(* flags and attempt ids under the state lock, one worker that drains the  *)
(* queue under the operation gate, and the events published after the      *)
(* lock is let go.                                                         *)
(*                                                                         *)
(* An attempt is its number; an attempt's cancel flag is that number too,  *)
(* since both are made by one enqueue.                                     *)
(***************************************************************************)
EXTENDS Naturals, Sequences, FiniteSets

CONSTANTS
    Wanted,         \* the models asked for
    Off,            \* no row, no flag, no attempt, nothing shown
    MaxAttempts,    \* bound: enqueues
    MaxVerifies     \* bound: other holders of the gate

VARIABLES
    row,            \* downloads: models with a row
    line,           \* download_queue
    flag,           \* download_cancels: model -> flag, or Off
    flipped,        \* flags set
    attempt,        \* download_attempts: model -> attempt, or Off
    fresh,          \* attempts made
    live,           \* download_worker_live
    workers,        \* the worker threads: generation -> where each is
    closing,        \* downloads_stopping, and the cancelled task
    installed,      \* the registry's answer
    busy,           \* another operation holds the gate
    verifies,
    says,           \* events not yet published: sequences of <<model, attempt, phase>>
    shown,          \* model -> the live operation of the registry
    ends            \* attempt -> terminal events published

queueVars == <<row, line, flag, flipped, attempt, fresh, live, workers, closing,
               installed, busy, verifies, says, shown, ends>>
book == <<row, line, flag, flipped, attempt, fresh, live>>
rest == <<closing, installed, busy, verifies>>
events == <<says, shown, ends>>

Attempts == 1..MaxAttempts
Gone == [at |-> "gone"]

Init ==
    /\ row = {} /\ line = <<>> /\ flag = [m \in Wanted |-> Off] /\ flipped = {}
    /\ attempt = [m \in Wanted |-> Off] /\ fresh = 0 /\ live = FALSE /\ workers = {}
    /\ closing = FALSE /\ installed = {} /\ busy = FALSE /\ verifies = 0
    /\ says = {} /\ shown = [m \in Wanted |-> Off] /\ ends = [a \in Attempts |-> 0]

Say(e) == says' = says \cup {e}

----------------------------------------------------------------------------
(* Commands *)

\* enqueue_downloads: a new row, flag and attempt, and the worker if none is
\* live; "queued" is published when the lock is gone.
Enqueue(m) ==
    /\ ~closing /\ m \notin row \cup installed /\ fresh < MaxAttempts
    /\ LET a == fresh + 1
       IN /\ fresh' = a
          /\ row' = row \cup {m} /\ line' = Append(line, m)
          /\ flag' = [flag EXCEPT ![m] = a] /\ attempt' = [attempt EXCEPT ![m] = a]
          /\ Say(<<m, a, "queued">>)
          /\ live' = TRUE
          /\ workers' = IF live THEN workers ELSE workers \cup {[at |-> "pop", gen |-> a]}
    /\ UNCHANGED <<flipped, rest, shown, ends>>

Publish(e) ==
    /\ e \in says /\ says' = says \ {e}
    /\ shown' = [shown EXCEPT ![e[1]] = IF e[3] = "queued" THEN e[2] ELSE Off]
    /\ ends' = IF e[3] = "queued" THEN ends ELSE [ends EXCEPT ![e[2]] = @ + 1]
    /\ UNCHANGED <<book, workers, rest>>

\* The rows of a model, all but its place in the queue.
Forget(m, keepFlag) ==
    /\ row' = row \ {m} /\ attempt' = [attempt EXCEPT ![m] = Off]
    /\ flag' = IF keepFlag THEN flag ELSE [flag EXCEPT ![m] = Off]

Cancel(m) ==
    /\ flag[m] # Off \/ attempt[m] # Off
    /\ flipped' = flipped \cup ({flag[m]} \cap Attempts)
    /\ line' = SelectSeq(line, LAMBDA n : n # m)
    /\ Forget(m, FALSE)
    /\ IF attempt[m] # Off THEN Say(<<m, attempt[m], "cancelled">>) ELSE UNCHANGED says
    /\ UNCHANGED <<fresh, live, workers, rest, shown, ends>>

\* settle_downloads: at shutdown, and by a worker whose task is cancelled.
Settle ==
    /\ flipped' = flipped \cup ({flag[m] : m \in Wanted} \cap Attempts)
    /\ row' = {} /\ line' = <<>> /\ live' = FALSE
    /\ flag' = [m \in Wanted |-> Off] /\ attempt' = [m \in Wanted |-> Off]
    /\ says' = says \cup {<<m, attempt[m], "cancelled">> : m \in {n \in Wanted : attempt[n] # Off}}

Shutdown ==
    /\ ~closing /\ closing' = TRUE /\ Settle
    /\ UNCHANGED <<fresh, workers, installed, busy, verifies, shown, ends>>

\* Verify or a removal enters the gate and leaves it; a removal takes the record.
OtherEnters ==
    /\ ~busy /\ verifies < MaxVerifies /\ \A w \in workers : w.at \in {"pop", "enter"}
    /\ busy' = TRUE /\ verifies' = verifies + 1
    /\ UNCHANGED <<book, workers, closing, installed, events>>

OtherLeaves ==
    /\ busy /\ busy' = FALSE
    /\ \E gone \in SUBSET installed : installed' = installed \ gone
    /\ UNCHANGED <<book, workers, closing, verifies, events>>

----------------------------------------------------------------------------
(* The worker: drain_download_queue and run_download *)

To(w, v) == workers' = (workers \ {w}) \cup (IF v = Gone THEN {} ELSE {v})
Back(w) == To(w, [at |-> "pop", gen |-> w.gen])

\* Mutant: a worker that found the queue empty stays on the books.
PopStaysLive(w) ==
    /\ w.at = "pop"
    /\ ~closing
    /\ IF line = <<>>
         THEN To(w, Gone) /\ UNCHANGED <<line, live>>
         ELSE To(w, [at |-> "enter", gen |-> w.gen, m |-> Head(line)])
              /\ line' = Tail(line) /\ UNCHANGED live
    /\ UNCHANGED <<row, flag, flipped, attempt, fresh, rest, events>>

Pop(w) ==
    /\ w.at = "pop"
    /\ ~closing
    /\ IF line = <<>>
         THEN To(w, Gone) /\ live' = FALSE /\ UNCHANGED line
         ELSE To(w, [at |-> "enter", gen |-> w.gen, m |-> Head(line)])
              /\ line' = Tail(line) /\ UNCHANGED live
    /\ UNCHANGED <<row, flag, flipped, attempt, fresh, rest, events>>

PopClosing(w) ==
    /\ w.at = "pop" /\ closing
    /\ To(w, Gone) /\ Settle
    /\ UNCHANGED <<fresh, rest, shown, ends>>

\* The attempt is read under the gate; a row that is gone is passed over.
EnterGate(w) ==
    /\ w.at = "enter" /\ ~busy
    /\ \A v \in workers : v = w \/ v.at \in {"pop", "enter"}
    /\ IF attempt[w.m] = Off THEN Back(w)
       ELSE To(w, [at |-> "entered", gen |-> w.gen, m |-> w.m, a |-> attempt[w.m]])
    /\ UNCHANGED <<book, rest, events>>

\* Already installed: the row is settled.
Redundant(w) ==
    /\ w.at = "entered" /\ w.m \in installed
    /\ Forget(w.m, FALSE) /\ Say(<<w.m, w.a, "installed">>)
    /\ Back(w)
    /\ UNCHANGED <<line, flipped, fresh, live, rest, shown, ends>>

\* The flag is read under another lock than the attempt was.
Begin(w) ==
    /\ w.at = "entered" /\ w.m \notin installed
    /\ IF flag[w.m] = Off THEN Back(w)
       ELSE To(w, [at |-> "run", gen |-> w.gen, m |-> w.m, a |-> w.a, f |-> flag[w.m]])
    /\ UNCHANGED <<book, rest, events>>

\* The transfer: whole, failed, or cancelled by its flag.
Transfer(w) ==
    /\ w.at = "run"
    /\ \/ w.f \in flipped /\ Back(w) /\ UNCHANGED installed
       \/ To(w, [w EXCEPT !.at = "done"]) /\ installed' = installed \cup {w.m}
       \/ To(w, [w EXCEPT !.at = "failed"]) /\ UNCHANGED installed
    /\ UNCHANGED <<book, closing, busy, verifies, events>>

\* Quitting while it waits to try again; the flag stays in the table.
QuitInBackoff(w) ==
    /\ w.at = "run" /\ closing
    /\ Forget(w.m, TRUE) /\ Say(<<w.m, w.a, "cancelled">>)
    /\ Back(w)
    /\ UNCHANGED <<line, flipped, fresh, live, rest, shown, ends>>

\* The rows are this attempt's own if the flag is.
CleanUp(w) ==
    /\ w.at \in {"done", "failed"}
    /\ IF flag[w.m] = w.f
         THEN Forget(w.m, FALSE) /\ Say(<<w.m, w.a, w.at>>)
         ELSE UNCHANGED <<row, flag, attempt, says>>
    /\ Back(w)
    /\ UNCHANGED <<line, flipped, fresh, live, rest, shown, ends>>

Work == \E w \in workers :
    \/ Pop(w) \/ PopClosing(w) \/ EnterGate(w) \/ Redundant(w) \/ Begin(w)
    \/ Transfer(w) \/ QuitInBackoff(w) \/ CleanUp(w)

Next ==
    \/ Work \/ Shutdown \/ OtherEnters \/ OtherLeaves
    \/ \E m \in Wanted : Enqueue(m) \/ Cancel(m)
    \/ \E e \in says : Publish(e)

\* The worker thread runs, transfers end (every wait on the wire has a timeout,
\* every retry schedule an end), and the other holder of the gate lets it go.
QueueFairness ==
    /\ WF_queueVars(Work) /\ WF_queueVars(OtherLeaves)
    /\ WF_queueVars(\E e \in says : Publish(e))

Spec == Init /\ [][Next]_queueVars /\ QueueFairness

----------------------------------------------------------------------------
(* Properties *)

\* No row is left behind by cancellations, new attempts, shutdown and other
\* operations: a model that has a row is waiting in the queue or in the hands of
\* a worker, and there is a worker.
RowIsServed ==
    \A m \in row :
        /\ workers # {}
        /\ \/ \E i \in DOMAIN line : line[i] = m
           \/ \E w \in workers : w.at # "pop" /\ w.m = m

\* Every download that is asked for settles: again and again none is left.
DownloadSettles == []<>(row = {})

\* ModelOperationEvent: each attempt has one terminal event.
OneTerminal == \A a \in Attempts : ends[a] <= 1
OneTerminalAtRest ==
    (says = {} /\ workers = {}) => \A a \in 1..fresh : ends[a] = 1

\* A terminal event clears the live operation; at rest nothing is shown.
ShownSettles == (says = {} /\ workers = {} /\ row = {}) => \A m \in Wanted : shown[m] = Off
=============================================================================
