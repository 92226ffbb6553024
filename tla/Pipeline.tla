------------------------------ MODULE Pipeline ------------------------------
(***************************************************************************)
(* The drains of the ingest queue and the thread pool they share           *)
(* (library/mod.rs, run_pipeline).  A drain's body runs on a thread of the *)
(* pool: it claims rows and sends them into a bounded channel; the workers *)
(* it spawned take them from there on other threads of the same pool.  A   *)
(* thread that waits for a drain's workers takes other work meanwhile, the *)
(* body of another drain included (rayon's scope, external), so each       *)
(* thread has a stack of frames of which the last one runs.                *)
(***************************************************************************)
EXTENDS Naturals, FiniteSets, SequencesExt

CONSTANTS
    Drain,          \* the pumps that drain through the pool
    Thread,         \* the pool's threads
    Widths,         \* the worker ceilings a budget gives, clamped to 1..|Thread|
    MaxRows         \* bound: rows that wait for a drain in the beginning

VARIABLES
    pending,        \* Drain -> rows a claim would find
    call,           \* Drain -> where its call of process_*_queue is
    width,          \* Drain -> the workers of its call
    chan,           \* Drain -> rows in its channel
    spawned,        \* Drain -> worker tasks no thread has begun
    queue,          \* the bodies no thread has begun, in the order they were asked for
    stack           \* Thread -> its frames; a worker's frame holds a row or none

vars == <<pending, call, width, chan, spawned, queue, stack>>
pool == <<width, chan, spawned, queue, stack>>

Frame == [role : {"claim", "work"}, drain : Drain, row : BOOLEAN]
ClaimFrame(d) == [role |-> "claim", drain |-> d, row |-> FALSE]
WorkFrame(d, r) == [role |-> "work", drain |-> d, row |-> r]
Top(t) == Last(stack[t])
Runs(t, f) == stack[t] # <<>> /\ Top(t) = f

Serial(d) == width[d] = 1
Entered(d) == {t \in Thread : \E r \in BOOLEAN : WorkFrame(d, r) \in ToSet(stack[t])}

\* The body's end and every worker's.
Complete(d) == call[d] = "join" /\ spawned[d] = 0 /\ Entered(d) = {}

\* A thread that looks for work: idle, or waiting for the workers of a scope.
Free(t) ==
    stack[t] # <<>> => LET f == Top(t)
                       IN f.role = "claim" /\ call[f.drain] = "join" /\ ~Complete(f.drain)

Init ==
    /\ pending \in [Drain -> 0..MaxRows]
    /\ call = [d \in Drain |-> "away"]
    /\ width \in [Drain -> {Max(Widths)}] /\ chan = [d \in Drain |-> 0] /\ spawned = [d \in Drain |-> 0]
    /\ queue = <<>> /\ stack = [t \in Thread |-> <<>>]

----------------------------------------------------------------------------
(* The caller and the body. *)

\* A pump calls again, or never when its task was cancelled.
Begin(d) ==
    /\ call[d] = "away"
    /\ \E w \in Widths :
        /\ width' = [width EXCEPT ![d] = w]
        /\ call' = [call EXCEPT ![d] = IF w = 1 THEN "loop" ELSE "asked"]
        /\ queue' = IF w = 1 THEN queue ELSE Append(queue, d)
    /\ UNCHANGED <<pending, chan, spawned, stack>>

\* The workers that wait in a thread's own queue; it takes them before it
\* takes another thread's, and those before a body (rayon's find_work, external).
Own(t) == {d \in Drain : spawned[d] > 0 /\ ClaimFrame(d) \in ToSet(stack[t])}
Offered(t) == IF Own(t) # {} THEN Own(t) ELSE {d \in Drain : spawned[d] > 0}

\* A thread takes the next body.
Host(t, d) ==
    /\ Free(t) /\ Offered(t) = {} /\ queue # <<>> /\ Head(queue) = d
    /\ queue' = Tail(queue) /\ call' = [call EXCEPT ![d] = "spawn"]
    /\ stack' = [stack EXCEPT ![t] = Append(@, ClaimFrame(d))]
    /\ UNCHANGED <<pending, width, chan, spawned>>

Spawn(d) ==
    /\ call' = [call EXCEPT ![d] = "loop"] /\ spawned' = [spawned EXCEPT ![d] = width[d]]
    /\ UNCHANGED <<pending, width, chan, queue, stack>>

Claim(d) ==
    /\ pending[d] > 0
    /\ pending' = [pending EXCEPT ![d] = @ - 1]
    /\ call' = [call EXCEPT ![d] = "send"]
    /\ UNCHANGED <<pool>>

\* Mutant: the end of the loop does not wait for the workers.
EndLoopAtOnce(d) ==
    /\ call' = [call EXCEPT ![d] = "away"]
    /\ UNCHANGED <<pending, pool>>

\* The claim loop ends at any time: a flag is raised, the table is empty, the
\* call has its number of rows or the database fails.  The sender is dropped; at
\* width 1 the call returns.
EndLoop(d) ==
    /\ call' = [call EXCEPT ![d] = IF Serial(d) THEN "away" ELSE "join"]
    /\ UNCHANGED <<pending, pool>>

\* The channel has room for Width rows; a full one blocks the thread.
Send(d) ==
    /\ chan[d] < width[d]
    /\ chan' = [chan EXCEPT ![d] = @ + 1] /\ call' = [call EXCEPT ![d] = "loop"]
    /\ UNCHANGED <<pending, width, spawned, queue, stack>>

Body(t, d) ==
    /\ Runs(t, ClaimFrame(d))
    /\ \/ call[d] = "spawn" /\ Spawn(d)
       \/ call[d] = "loop" /\ (Claim(d) \/ EndLoop(d))
       \/ call[d] = "send" /\ Send(d)

\* The scope ends when every worker of it has ended.
Join(t, d) ==
    /\ Runs(t, ClaimFrame(d)) /\ Complete(d)
    /\ stack' = [stack EXCEPT ![t] = Front(@)]
    /\ call' = [call EXCEPT ![d] = "away"]
    /\ UNCHANGED <<pending, width, chan, spawned, queue>>

\* At width 1 the caller itself claims and works; a hard error returns at once.
CallerWorks(d) ==
    /\ Serial(d)
    /\ \/ call[d] = "loop" /\ (Claim(d) \/ EndLoop(d))
       \/ /\ call[d] = "send"
          /\ \E to \in {"loop", "away"} : call' = [call EXCEPT ![d] = to]
          /\ UNCHANGED <<pending, pool>>

----------------------------------------------------------------------------
(* The workers. *)

Enter(t, d) ==
    /\ Free(t) /\ d \in Offered(t)
    /\ spawned' = [spawned EXCEPT ![d] = @ - 1]
    /\ stack' = [stack EXCEPT ![t] = Append(@, WorkFrame(d, FALSE))]
    /\ UNCHANGED <<pending, call, width, chan, queue>>

Take(t, d) ==
    /\ Runs(t, WorkFrame(d, FALSE)) /\ chan[d] > 0
    /\ chan' = [chan EXCEPT ![d] = @ - 1]
    /\ stack' = [stack EXCEPT ![t] = Append(Front(@), WorkFrame(d, TRUE))]
    /\ UNCHANGED <<pending, call, width, spawned, queue>>

\* The pass settles its row; a hard error leaves it and the worker goes on.
Settle(t, d) ==
    /\ Runs(t, WorkFrame(d, TRUE))
    /\ stack' = [stack EXCEPT ![t] = Append(Front(@), WorkFrame(d, FALSE))]
    /\ UNCHANGED <<pending, call, width, chan, spawned, queue>>

\* recv fails only once the sender is gone and the channel is empty.
Leave(t, d) ==
    /\ Runs(t, WorkFrame(d, FALSE)) /\ call[d] = "join" /\ chan[d] = 0
    /\ stack' = [stack EXCEPT ![t] = Front(@)]
    /\ UNCHANGED <<pending, call, width, chan, spawned, queue>>

ThreadStep(t) ==
    \E d \in Drain : Host(t, d) \/ Body(t, d) \/ Join(t, d) \/ Enter(t, d) \/ Take(t, d)
                        \/ Settle(t, d) \/ Leave(t, d)

Next ==
    \/ \E d \in Drain : Begin(d) \/ CallerWorks(d)
    \/ \E t \in Thread : ThreadStep(t)

\* Each thread of the pool, and a caller that works itself, goes on.
PipelineFairness ==
    /\ \A t \in Thread : WF_vars(ThreadStep(t))
    /\ \A d \in Drain : WF_vars(CallerWorks(d))

PipelineSpec == Init /\ [][Next]_vars /\ PipelineFairness

----------------------------------------------------------------------------

PipelineTypeOK ==
    /\ pending \in [Drain -> 0..MaxRows]
    /\ call \in [Drain -> {"away", "asked", "spawn", "loop", "send", "join"}]
    /\ width \in [Drain -> Widths] /\ chan \in [Drain -> Nat]
    /\ spawned \in [Drain -> Nat] /\ queue \in Seq(Drain) /\ stack \in [Thread -> Seq(Frame)]

\* When a call has returned, cancelled, full, empty or failed, no row that it
\* claimed is left in the channel or in a worker's hands: what is still
\* `running` in the table is there by a hard error only.
NothingInHand ==
    \A d \in Drain : call[d] = "away" => chan[d] = 0 /\ spawned[d] = 0 /\ Entered(d) = {}

\* A call returns, whatever other drains use the pool.
DrainEnds == \A d \in Drain : call[d] # "away" ~> call[d] = "away"
=============================================================================
