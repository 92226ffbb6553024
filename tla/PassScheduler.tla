--------------------------- MODULE PassScheduler ---------------------------
(***************************************************************************)
(* The pass scheduler (runtime/scheduler.rs): one language model, a lane   *)
(* for interactive requests (a queue of one) and a lane for background     *)
(* jobs, both driven by tick, and the requests on the wire behind them     *)
(* (LlmSlotBackend, one thread per request).                               *)
(*                                                                         *)
(* A job is its number; numbers are given in order of submission.  The     *)
(* scheduler is one record, so that a tick is the composition of the five  *)
(* steps of the code.                                                      *)
(***************************************************************************)
EXTENDS Naturals, Sequences, FiniteSets

CONSTANTS
    Model,      \* models background jobs belong to
    Nothing,    \* an empty slot, no deadline, no hold
    Wait,       \* INTERACTIVE_CANCEL_WAIT_MS
    Unpause,    \* MIC_UNPAUSE_DELAY_MS
    MaxJobs,    \* bound: jobs submitted
    MaxTime,    \* bound: the clock
    MaxLosses   \* bound: connections lost

VARIABLES
    now, next,
    sched,      \* PassScheduler
    wire,       \* job -> how far its request is: Nothing, "prompt", "stream" or its answer
    told,       \* job -> times it was completed
    lost,       \* job -> losses of its connection that were not asked for
    asked,      \* when the interactive request now waiting or running was submitted
    losses

vars == <<now, next, sched, wire, told, lost, asked, losses>>

Job == 1..MaxJobs
Answers == {"ok", "error", "lost"}

Init ==
    /\ now = 0 /\ next = 1 /\ losses = 0 /\ asked = Nothing
    /\ sched = [ready |-> FALSE, iq |-> Nothing, ia |-> Nothing, bq |-> <<>>, ba |-> Nothing,
                deadline |-> Nothing, mic |-> FALSE, unpause |-> Nothing, hold |-> Nothing]
    /\ wire = [j \in Job |-> Nothing]
    /\ told = [j \in Job |-> 0] /\ lost = [j \in Job |-> 0]

----------------------------------------------------------------------------
(* Inputs *)

SetReady ==
    /\ sched' = [sched EXCEPT !.ready = ~@]
    /\ UNCHANGED <<now, next, wire, told, lost, asked, losses>>

SetMic ==
    /\ sched' = [sched EXCEPT !.mic = ~@,
                              !.unpause = IF sched.mic THEN now + Unpause ELSE Nothing]
    /\ UNCHANGED <<now, next, wire, told, lost, asked, losses>>

\* The 250 ms rule arms when an interactive request finds the background slot
\* taken; a deadline that is armed is left as it is.
Armed(s) == IF s.ba # Nothing /\ s.deadline = Nothing THEN now + Wait ELSE s.deadline

\* A newer interactive request displaces one that still waits, which is answered
\* as cancelled.
SubmitInteractive ==
    /\ next \in Job /\ next' = next + 1 /\ asked' = now
    /\ told' = IF sched.iq = Nothing THEN told ELSE [told EXCEPT ![sched.iq.id] = @ + 1]
    /\ sched' = [sched EXCEPT !.iq = [id |-> next, retried |-> FALSE], !.deadline = Armed(sched)]
    /\ UNCHANGED <<now, wire, lost, losses>>

SubmitBackground(m) ==
    /\ next \in Job /\ next' = next + 1
    /\ sched' = [sched EXCEPT !.bq = Append(@, [id |-> next, model |-> m, retried |-> FALSE])]
    /\ UNCHANGED <<now, wire, told, lost, asked, losses>>

HasWork(m) ==
    \/ sched.ba # Nothing /\ sched.ba.model = m
    \/ \E i \in DOMAIN sched.bq : sched.bq[i].model = m

GcHold(m) ==
    /\ ~HasWork(m) /\ sched.hold = Nothing
    /\ sched' = [sched EXCEPT !.hold = m]
    /\ UNCHANGED <<now, next, wire, told, lost, asked, losses>>

GcRelease ==
    /\ sched.hold # Nothing
    /\ sched' = [sched EXCEPT !.hold = Nothing]
    /\ UNCHANGED <<now, next, wire, told, lost, asked, losses>>

----------------------------------------------------------------------------
(* The wire *)

\* The response has begun: from here on the request can be disconnected.
Opens(j) ==
    /\ wire[j] = "prompt" /\ wire' = [wire EXCEPT ![j] = "stream"]
    /\ UNCHANGED <<now, next, sched, told, lost, asked, losses>>

Answer(j, a) ==
    /\ wire[j] \in {"prompt", "stream"} /\ wire' = [wire EXCEPT ![j] = a]
    /\ a = "lost" => losses < MaxLosses
    /\ losses' = IF a = "lost" THEN losses + 1 ELSE losses
    /\ UNCHANGED <<now, next, sched, told, lost, asked>>

----------------------------------------------------------------------------
(* The tick: what the five steps of the code make of the whole state *)

State == [s |-> sched, w |-> wire, t |-> told, l |-> lost]

Arrived(st, slot) == slot # Nothing /\ st.w[slot.id] \in Answers
Taken(st, j) == [st.w EXCEPT ![j] = Nothing]
Told(st, j) == [st.t EXCEPT ![j] = @ + 1]
Lost(st, j) == [st.l EXCEPT ![j] = @ + 1]

\* A lost connection is retried once, unless a newer request waits.
CollectInteractive(st) ==
    LET a == st.s.ia
        lostIt == st.w[a.id] = "lost"
        retry == lostIt /\ ~a.retried /\ st.s.iq = Nothing
    IN IF ~Arrived(st, a) THEN st
       ELSE [s |-> [st.s EXCEPT !.ia = Nothing,
                                !.iq = IF retry THEN [id |-> a.id, retried |-> TRUE] ELSE @],
             w |-> Taken(st, a.id),
             t |-> IF retry THEN st.t ELSE Told(st, a.id),
             l |-> IF lostIt THEN Lost(st, a.id) ELSE st.l]

\* Mutant: a job that was cancelled keeps its place only if it has none of its
\* retry left.
CollectBackgroundDrops(st) ==
    LET a == st.s.ba
        answer == st.w[a.id]
        retry == ~a.cancelling /\ answer = "lost" /\ ~a.retried
        again == (a.cancelling /\ answer # "ok") \/ retry
        job == [id |-> a.id, model |-> a.model, retried |-> a.retried \/ retry]
    IN IF ~Arrived(st, a) THEN st
       ELSE [s |-> [st.s EXCEPT !.ba = Nothing, !.deadline = Nothing,
                                !.bq = IF again THEN <<job>> \o @ ELSE @],
             w |-> Taken(st, a.id),
             t |-> IF again \/ a.cancelling THEN st.t ELSE Told(st, a.id),
             l |-> IF answer = "lost" /\ ~a.cancelling THEN Lost(st, a.id) ELSE st.l]

\* A job that was cancelled goes back to the front of the queue whatever its
\* answer was; a lost connection does so once.
CollectBackground(st) ==
    LET a == st.s.ba
        answer == st.w[a.id]
        retry == ~a.cancelling /\ answer = "lost" /\ ~a.retried
        again == a.cancelling \/ retry
        job == [id |-> a.id, model |-> a.model, retried |-> a.retried \/ retry]
    IN IF ~Arrived(st, a) THEN st
       ELSE [s |-> [st.s EXCEPT !.ba = Nothing, !.deadline = Nothing,
                                !.bq = IF again THEN <<job>> \o @ ELSE @],
             w |-> Taken(st, a.id),
             t |-> IF again THEN st.t ELSE Told(st, a.id),
             l |-> IF answer = "lost" /\ ~a.cancelling THEN Lost(st, a.id) ELSE st.l]

\* The background request is disconnected, if its response has begun; if not,
\* nothing happens to it and it is not tried again.
EnforceCancelRule(st) ==
    LET s == st.s
        due == /\ s.deadline # Nothing /\ s.ba # Nothing /\ (s.iq # Nothing \/ s.ia # Nothing)
               /\ now >= s.deadline /\ ~s.ba.cancelling
    IN IF ~due THEN st
       ELSE [st EXCEPT !.s.ba.cancelling = TRUE,
                       !.w = IF @[s.ba.id] = "stream" THEN [@ EXCEPT ![s.ba.id] = "lost"] ELSE @]

StartInteractive(st) ==
    LET s == st.s
    IN IF ~s.ready \/ s.ia # Nothing \/ s.iq = Nothing THEN st
       ELSE [st EXCEPT !.s = [s EXCEPT !.ia = s.iq, !.iq = Nothing, !.deadline = Armed(s)],
                       !.w = [@ EXCEPT ![s.iq.id] = "prompt"]]

Held(s) == s.mic \/ (s.unpause # Nothing /\ now < s.unpause) \/ s.hold # Nothing

StartBackground(st) ==
    LET s == st.s
        job == Head(s.bq)
    IN IF ~s.ready \/ s.ba # Nothing \/ s.iq # Nothing \/ s.ia # Nothing \/ Held(s) \/ s.bq = <<>>
       THEN st
       ELSE [st EXCEPT !.s = [s EXCEPT !.bq = Tail(@),
                                       !.ba = [id |-> job.id, model |-> job.model,
                                               retried |-> job.retried, cancelling |-> FALSE]],
                       !.w = [@ EXCEPT ![job.id] = "prompt"]]

Tick ==
    LET st == StartBackground(StartInteractive(EnforceCancelRule(
                  CollectBackground(CollectInteractive(State)))))
    IN /\ sched' = st.s /\ wire' = st.w /\ told' = st.t /\ lost' = st.l
       /\ asked' = IF st.s.iq = Nothing /\ st.s.ia = Nothing THEN Nothing ELSE asked
       /\ UNCHANGED <<now, next, losses>>

Elapse ==
    /\ now < MaxTime /\ now' = now + 1
    /\ UNCHANGED <<next, sched, wire, told, lost, asked, losses>>

Next ==
    \/ SetReady \/ SetMic \/ SubmitInteractive \/ GcRelease \/ Tick \/ Elapse
    \/ \E m \in Model : SubmitBackground(m) \/ GcHold(m)
    \/ \E j \in Job : Opens(j) \/ \E a \in Answers : Answer(j, a)

Spec == Init /\ [][Next]_vars

----------------------------------------------------------------------------
(* Properties *)

Slot == [id : Job, retried : BOOLEAN] \cup {Nothing}

TypeOK ==
    /\ now \in 0..MaxTime /\ next \in 1..(MaxJobs + 1) /\ losses \in 0..MaxLosses
    /\ sched.iq \in Slot /\ sched.ia \in Slot
    /\ sched.ba \in [id : Job, model : Model, retried : BOOLEAN, cancelling : BOOLEAN] \cup {Nothing}
    /\ sched.bq \in Seq([id : Job, model : Model, retried : BOOLEAN])
    /\ sched.hold \in Model \cup {Nothing}
    /\ wire \in [Job -> {Nothing, "prompt", "stream"} \cup Answers]

\* Where a job is, apart from answered.
Slots(j) == {p \in {"iq", "ia", "ba"} : sched[p] # Nothing /\ sched[p].id = j}
Queued(j) == {i \in DOMAIN sched.bq : sched.bq[i].id = j}

\* Every job submitted is kept in one place until it is answered, once: through
\* displacement, cancellation, losses and requeueing ("cancelled and re-queued",
\* "never lost"), and its connection is lost under it at most twice ("retries
\* exactly once", scheduler.rs).
OneAnswer ==
    \A j \in Job : j < next =>
        /\ Cardinality(Slots(j)) + Cardinality(Queued(j)) + told[j] = 1
        /\ lost[j] <= 2
        /\ (wire[j] # Nothing) <=> (Slots(j) \cap {"ia", "ba"} # {})

\* While a model is held for deletion none of its jobs runs.
HeldIsUntouched == sched.hold # Nothing /\ sched.ba # Nothing => sched.ba.model # sched.hold

\* The comment of submit_interactive: "cancelled if it would otherwise wait more
\* than 250 ms".  A background request is cancelled only for a request that has
\* waited that long.
CancelIsEarned ==
    [][sched'.ba # Nothing /\ sched.ba # Nothing /\ sched'.ba.cancelling /\ ~sched.ba.cancelling
           => asked # Nothing /\ now >= asked + Wait]_vars
=============================================================================
