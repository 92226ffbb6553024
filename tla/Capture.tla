------------------------------- MODULE Capture -------------------------------
(***************************************************************************)
(* Voice capture: the capture engine behind its mutex (capture/engine.rs), *)
(* the ring of scopes it looks onsets up in (scope.rs), the session engine *)
(* behind another mutex (session.rs), and what drives them in the shell:   *)
(* the commands that arm and disarm, the thread that pushes audio, and the *)
(* tasks that pump a disarmed stream until its trailing finals are in.     *)
(*                                                                         *)
(* Time is the capture clock.  Frames, speech and transcripts come from    *)
(* the environment: a transcript may name any span of the audio that was   *)
(* shipped, so that it splits, merges or misses the onsets the VAD saw.    *)
(***************************************************************************)
EXTENDS Integers, Sequences, FiniteSets, FiniteSetsExt, SequencesExt

CONSTANTS
    Scope,      \* scopes the window can show: [targets, subject]
    Nothing,
    Lag,        \* how late the VAD reports an onset
    Skew,       \* ASSOCIATION_MAX_SKEW_MS
    Window,     \* RING_WINDOW_MS
    Capacity,   \* RING_CAPACITY
    Drain,      \* DRAIN_WINDOW_MS
    Idle,       \* IDLE_BOUNDARY_MS
    MaxTime,    \* bound: the clock
    Budgets     \* bound: how often the user and the world act

\* The ring holds a snapshot at least; one with a subject has no targets (scope.rs).
ASSUME CaptureAssumption ==
    /\ {Lag, Skew, Drain} \subseteq Nat /\ Capacity \in Nat \ {0}
    /\ \A s \in Scope : s.subject # Nothing => s.targets = {}
    /\ Budgets \subseteq [{"scopes", "speech", "finals", "arms", "disarms", "touches", "faults"} -> Nat]
    /\ Nothing \notin Int
    /\ Nothing \notin [anchor : Int \cup {Nothing}, deadline : Int \cup {Nothing}, voice : BOOLEAN,
                       quiet : Int, heard : Int, seg : Nat, part : Int \cup {Nothing}, stream : Nat]

VARIABLES
    now,
    shown,      \* every scope reported, [at, scope]; the ring is its tail
    oldest,     \* index in shown of the ring's front
    mic, pipe, flight,
    eng,        \* CaptureEngine::session
    act,        \* CaptureEngine::last_activity
    session, open, lastAct,     \* SessionEngine::id, session rows open, last activity
    toucher,    \* holder of the session mutex: where it is in on_activity
    want,       \* the command it touches for
    cmd,        \* a microphone command between its touch and its arm or disarm
    due, gen, drains,   \* post-disarm drains owed, newest generation, alive
    mint,       \* what the last step minted, or Nothing
    left        \* what is left of the budgets

clock == <<now, left>>
ring == <<shown, oldest>>
engine == <<mic, pipe, flight, eng, act>>
sessions == <<session, open, lastAct, toucher, want>>
shell == <<cmd, due, gen, drains>>
vars == <<clock, ring, engine, sessions, shell, mint>>

Spend(what) == left[what] > 0 /\ left' = [left EXCEPT ![what] = @ - 1]

Init ==
    /\ now = 0 /\ left \in Budgets
    /\ shown = <<[at |-> 0, scope |-> [targets |-> {}, subject |-> Nothing]]>> /\ oldest = 1
    /\ mic = "disarmed" /\ pipe = Nothing /\ flight = <<>> /\ eng = 1 /\ act = 0
    /\ session = 1 /\ open = {1} /\ lastAct = 0 /\ toucher = "out"
    /\ want = "none" /\ cmd = "none" /\ due = 0 /\ gen = 0 /\ drains = {} /\ mint = Nothing

----------------------------------------------------------------------------
(* The capture mutex is free unless a closing session drains under it *)
Free == toucher # "draining"
Armed == mic \in {"idle", "speaking"}
Streaming == pipe # Nothing
\* The stream clock's reading of the last audio the recognizer can have heard.
Fed == (IF pipe.deadline = Nothing THEN now ELSE pipe.deadline - Drain) - pipe.anchor
\* Who polls the stream: the audio thread, the disarm itself and the drain it
\* leaves behind, or a closing session.
Pumped ==
    /\ Streaming
    /\ pipe.deadline # Nothing => now < pipe.deadline
    /\ Armed \/ due > 0 \/ gen \in drains \/ ~Free

\* The clock.  Frames are shorter than a tick; a command takes no time between
\* its touch and its arm.
Tick ==
    /\ now < MaxTime \/ (Streaming /\ pipe.deadline # Nothing /\ now < pipe.deadline)
    /\ now' = now + 1
    /\ Armed /\ Streaming => pipe.anchor # Nothing /\ (pipe.voice => act = now)
    /\ cmd = "none"
    /\ mint' = Nothing
    /\ UNCHANGED <<left, ring, engine, sessions, shell>>

----------------------------------------------------------------------------
(* Scopes *)

\* The ring after a push of the n-th snapshot at the given instant.
Evict(n, at) ==
    Min({i \in oldest..n : i > n - Capacity
                           /\ (i = n \/ at - shown[i].at <= Window)})

\* scope_at: the newest snapshot in the ring no later than t, else the oldest:
\* then the lookup predates the ring, and what was on view at t is not known.
Kept(t) == shown[oldest].at <= t
ScopeAt(t) ==
    shown[Max({oldest} \cup {i \in oldest..Len(shown) : shown[i].at <= t})].scope

\* Every open utterance gains the pictures now on view.
Join(s) == [i \in DOMAIN flight |-> [flight[i] EXCEPT !.targets = @ \cup s.targets]]

SetScope(s) ==
    /\ Free /\ s # Last(shown).scope /\ Spend("scopes")
    /\ flight' = Join(s)
    /\ shown' = Append(shown, [at |-> now, scope |-> s])
    /\ oldest' = Evict(Len(shown) + 1, now)
    /\ mint' = Nothing
    /\ UNCHANGED <<now, mic, pipe, eng, act, sessions, shell>>

----------------------------------------------------------------------------
(* The microphone *)

Arm ==
    /\ cmd = "arm" /\ Free /\ cmd' = "none" /\ mint' = Nothing
    /\ \/ Armed /\ UNCHANGED <<mic, pipe, act>>
       \/ /\ ~Armed /\ act' = now /\ mic' = "idle"
          /\ pipe' = [anchor |-> Nothing, deadline |-> Nothing, voice |-> FALSE, quiet |-> 0,
                      heard |-> 0, seg |-> 0, part |-> Nothing, stream |-> left["arms"]]
       \/ ~Armed /\ act' = now /\ mic' = "error" /\ UNCHANGED pipe
    /\ UNCHANGED <<clock, ring, flight, eng, sessions, due, gen, drains>>

\* disarm_inner: no more audio, and a deadline for the finals still to come.
CloseFeed == mic' = "disarmed" /\ pipe' = [pipe EXCEPT !.deadline = now + Drain]

Disarm ==
    /\ cmd = "disarm" /\ Free /\ cmd' = "none" /\ mint' = Nothing
    /\ IF Armed THEN CloseFeed /\ act' = now /\ due' = due + 1
       ELSE UNCHANGED <<mic, pipe, act, due>>
    /\ UNCHANGED <<clock, ring, flight, eng, sessions, gen, drains>>

\* The audio thread ends on its own: no device, no frames.
DeviceFails ==
    /\ Armed /\ Free /\ Spend("faults")
    /\ CloseFeed /\ act' = now /\ due' = due + 1 /\ mint' = Nothing
    /\ UNCHANGED <<now, ring, flight, eng, sessions, cmd, gen, drains>>

\* Mutant: the drain remembers the generation before its own.
SpawnDrainStale ==
    /\ due > 0 /\ due' = due - 1
    /\ gen' = gen + 1 /\ drains' = drains \cup {gen} /\ mint' = Nothing
    /\ UNCHANGED <<clock, ring, engine, sessions, cmd>>

SpawnDrain ==
    /\ due > 0 /\ due' = due - 1
    /\ gen' = gen + 1 /\ drains' = drains \cup {gen + 1} /\ mint' = Nothing
    /\ UNCHANGED <<clock, ring, engine, sessions, cmd>>

\* A drain leaves when it is superseded, re-armed or done.
DrainLeaves(g) ==
    /\ g \in drains /\ Free
    /\ g # gen \/ Armed \/ ~Streaming
    /\ drains' = drains \ {g} /\ mint' = Nothing
    /\ UNCHANGED <<clock, ring, engine, sessions, cmd, due, gen>>

\* finish_drain and on_fatal: what is in flight is abandoned, the stream closed.
Abandon == flight' = <<>> /\ pipe' = Nothing

DrainExpires(g) ==
    /\ g \in drains /\ g = gen /\ Free /\ ~Armed /\ Streaming
    /\ pipe.deadline # Nothing /\ now >= pipe.deadline
    /\ Abandon /\ drains' = drains \ {g} /\ mint' = Nothing
    /\ UNCHANGED <<clock, ring, mic, eng, act, sessions, cmd, due, gen>>

----------------------------------------------------------------------------
(* Audio *)

Frame ==
    /\ Armed /\ Streaming /\ Free
    /\ \/ pipe.anchor = Nothing /\ pipe' = [pipe EXCEPT !.anchor = now] /\ UNCHANGED act
       \/ pipe.voice /\ act # now /\ act' = now /\ UNCHANGED pipe
    /\ mint' = Nothing
    /\ UNCHANGED <<clock, ring, mic, flight, eng, sessions, shell>>

\* An onset at capture time t, reported at most Lag later.
SpeechStart(t) ==
    /\ Armed /\ Streaming /\ Free /\ pipe.anchor # Nothing /\ ~pipe.voice
    /\ t - pipe.anchor >= pipe.quiet /\ Spend("speech")
    /\ LET scope == ScopeAt(t)
       IN flight' = Append(flight, [onset |-> t - pipe.anchor, end |-> Nothing, uid |-> Nothing,
                                    targets |-> scope.targets, subject |-> scope.subject,
                                    born |-> session, kept |-> Kept(t), stream |-> pipe.stream])
    /\ mic' = "speaking" /\ pipe' = [pipe EXCEPT !.voice = TRUE] /\ act' = now /\ mint' = Nothing
    /\ UNCHANGED <<now, ring, eng, sessions, shell>>

SpeechEnd ==
    /\ Armed /\ Streaming /\ Free /\ pipe.voice
    /\ LET end == now - pipe.anchor
           unended == {i \in DOMAIN flight : flight[i].end = Nothing /\ flight[i].onset < end}
       IN /\ flight' = IF unended = {} THEN flight
                       ELSE [flight EXCEPT ![Min(unended)].end = end]
          /\ pipe' = [pipe EXCEPT !.voice = FALSE, !.quiet = end]
    /\ act' = now /\ mint' = Nothing
    /\ UNCHANGED <<clock, ring, mic, eng, sessions, shell>>

----------------------------------------------------------------------------
(* Transcripts *)

Distance(a, b) == IF a < b THEN b - a ELSE a - b

\* Mutant: the nearest onset, however far.
AssociateFar(id, onset) ==
    LET own == {i \in DOMAIN flight : flight[i].uid = id}
        near == {i \in DOMAIN flight : flight[i].uid = Nothing}
    IN IF own # {} THEN Min(own)
       ELSE IF near = {} THEN 0
       ELSE CHOOSE i \in near : \A j \in near :
                Distance(flight[i].onset, onset) <= Distance(flight[j].onset, onset)

\* The utterance a segment claims, or 0: its own, else the unclaimed one whose
\* onset is nearest, the first of equals, within Skew.
Associate(id, onset) ==
    LET own == {i \in DOMAIN flight : flight[i].uid = id}
        near == {i \in DOMAIN flight : flight[i].uid = Nothing
                                       /\ Distance(flight[i].onset, onset) <= Skew}
        nearest == {i \in near : \A j \in near :
                        Distance(flight[i].onset, onset) <= Distance(flight[j].onset, onset)}
    IN IF own # {} THEN Min(own) ELSE IF near # {} THEN Min(nearest) ELSE 0

\* Where the recognizer may place the next segment's start: where its partial
\* had it, else anywhere in what it heard and has not yet transcribed.
Onsets == IF pipe.part # Nothing THEN {pipe.part} ELSE pipe.heard..Fed

\* Hearing words is activity while armed.
Heard == act' = IF Armed THEN now ELSE act

Partial(onset) ==
    /\ Pumped /\ pipe.anchor # Nothing /\ pipe.part = Nothing /\ left["finals"] > 0
    /\ onset \in Onsets
    /\ LET claimed == Associate(pipe.seg, onset)
       IN flight' = IF claimed = 0 THEN flight ELSE [flight EXCEPT ![claimed].uid = pipe.seg]
    /\ mic' = IF Armed THEN "speaking" ELSE mic
    /\ pipe' = [pipe EXCEPT !.part = onset] /\ Heard /\ mint' = Nothing
    /\ UNCHANGED <<clock, ring, eng, sessions, shell>>

\* retire_merged: unclaimed onsets inside the final's span are settled with it.
Merged(i, onset, end) == flight[i].uid = Nothing /\ flight[i].onset \in onset..end

\* What a final leaves in flight.
Rest(claimed, onset, end) ==
    LET kept == {i \in DOMAIN flight : i # claimed /\ ~Merged(i, onset, end)}
    IN [k \in 1..Cardinality(kept) |->
            flight[CHOOSE i \in kept : Cardinality({j \in kept : j <= i}) = k]]

\* What it mints: bound as the claimed utterance was, or by its own onset.  A
\* subject takes the words as a note, an image scope as a remark.
Minted(claimed, onset) ==
    LET said == pipe.anchor + onset
        bound == IF claimed = 0 THEN ScopeAt(said) ELSE flight[claimed]
    IN [targets |-> IF bound.subject = Nothing THEN bound.targets ELSE {},
        subject |-> bound.subject, said |-> said, into |-> eng,
        born |-> IF claimed = 0 THEN eng ELSE flight[claimed].born,
        kept |-> IF claimed = 0 THEN Kept(said) ELSE flight[claimed].kept,
        own |-> claimed = 0 \/ flight[claimed].stream = pipe.stream]

Final(onset, end, empty) ==
    /\ Pumped /\ pipe.anchor # Nothing /\ Spend("finals")
    /\ onset \in Onsets /\ onset <= end /\ end <= Fed
    /\ LET claimed == Associate(pipe.seg, onset)
       IN /\ flight' = Rest(claimed, onset, end)
          /\ mint' = IF empty THEN Nothing ELSE Minted(claimed, onset)
    /\ mic' = IF mic = "speaking" /\ flight' = <<>> THEN "idle" ELSE mic
    /\ pipe' = [pipe EXCEPT !.part = Nothing, !.seg = @ + 1, !.heard = end] /\ Heard
    /\ UNCHANGED <<now, ring, eng, sessions, shell>>

\* The recognizer closes a drained stream.
StreamEnds ==
    /\ Pumped /\ ~Armed /\ Abandon /\ mint' = Nothing
    /\ UNCHANGED <<clock, ring, mic, eng, act, sessions, shell>>

\* It fails, or ends while armed.
Fatal ==
    /\ Pumped /\ Spend("faults") /\ Abandon /\ mic' = "error" /\ mint' = Nothing
    /\ UNCHANGED <<now, ring, eng, act, sessions, shell>>

----------------------------------------------------------------------------
(* Sessions: a command's touch, which may rotate the session first *)

\* The touch is over: the command goes on, unless the touch failed.
Leave(command) == toucher' = "out" /\ cmd' = command /\ want' = "none"

\* The touch before a command, under the session mutex: capture-side activity
\* is pulled forward, then the time since the last one decides.
Touch(command) ==
    /\ toucher = "out" /\ cmd = "none" /\ Free
    /\ CASE command = "arm"    -> Spend("arms")
         [] command = "disarm" -> Armed /\ Spend("disarms")
         [] OTHER              -> Spend("touches")
    /\ LET last == Max({act, lastAct})
       IN IF now - last < Idle THEN lastAct' = now /\ Leave(command)
          ELSE lastAct' = last /\ toucher' = "idle" /\ want' = command /\ UNCHANGED cmd
    /\ mint' = Nothing
    /\ UNCHANGED <<now, ring, engine, session, open, due, gen, drains>>

\* drain_for_close takes the capture mutex and pumps only what it disarms.
DrainBegin ==
    /\ toucher = "idle" /\ eng' = session /\ mint' = Nothing
    /\ IF Armed THEN CloseFeed /\ toucher' = "draining" /\ UNCHANGED flight
       ELSE /\ toucher' = "drained" /\ UNCHANGED mic
            /\ IF Streaming THEN Abandon ELSE UNCHANGED <<flight, pipe>>
    /\ UNCHANGED <<clock, ring, act, session, open, lastAct, want, shell>>

DrainEnd ==
    /\ toucher = "draining" /\ toucher' = "drained" /\ mint' = Nothing
    /\ IF Streaming THEN Abandon ELSE UNCHANGED <<flight, pipe>>
    /\ UNCHANGED <<clock, ring, mic, eng, act, session, open, lastAct, want, shell>>

\* The closing session's row; a failure leaves the session for the next touch.
CloseRow ==
    /\ toucher = "drained" /\ mint' = Nothing
    /\ \/ open' = open \ {session} /\ toucher' = "closed" /\ UNCHANGED <<left, want, cmd>>
       \/ Spend("faults") /\ Leave("none") /\ UNCHANGED open
    /\ UNCHANGED <<now, ring, engine, session, lastAct, due, gen, drains>>

\* The next session's row.
OpenRow ==
    /\ toucher = "closed" /\ mint' = Nothing
    /\ \/ /\ session' = session + 1 /\ open' = open \cup {session + 1}
          /\ lastAct' = now /\ toucher' = "opened" /\ UNCHANGED <<left, want, cmd>>
       \/ Spend("faults") /\ Leave("none") /\ UNCHANGED <<session, open, lastAct>>
    /\ UNCHANGED <<now, ring, engine, due, gen, drains>>

\* session_rotated: the engine follows, and the command goes on.
Rotated ==
    /\ toucher = "opened" /\ Leave(want) /\ eng' = session /\ mint' = Nothing
    /\ UNCHANGED <<clock, ring, mic, pipe, flight, act, session, open, lastAct, due, gen, drains>>

----------------------------------------------------------------------------
Audio ==
    \/ Frame \/ SpeechEnd
    \/ \E t \in (now - Lag)..now : SpeechStart(t)
Transcript ==
    \/ \E t \in 0..now : Partial(t)
    \/ \E t, u \in 0..now, empty \in BOOLEAN : Final(t, u, empty)
    \/ StreamEnds \/ Fatal
Drains == \E g \in drains : DrainLeaves(g) \/ DrainExpires(g)
Closing == DrainBegin \/ DrainEnd \/ CloseRow \/ OpenRow \/ Rotated
User ==
    \/ \E s \in Scope : SetScope(s)
    \/ \E command \in {"arm", "disarm", "none"} : Touch(command)
    \/ Arm \/ Disarm \/ DeviceFails
Next == Tick \/ User \/ SpawnDrain \/ Drains \/ Audio \/ Transcript
        \/ Closing

\* The clock passes, the drain task is spawned and ticks, a thread inside its
\* locks gets on.
Fairness ==
    /\ WF_vars(Tick) /\ WF_vars(SpawnDrain) /\ WF_vars(Drains)
    /\ WF_vars(Frame) /\ WF_vars(Closing) /\ WF_vars(Arm \/ Disarm)
Spec == Init /\ [][Next]_vars /\ Fairness

----------------------------------------------------------------------------
(* Properties *)

TypeOK ==
    /\ now \in Nat /\ oldest \in DOMAIN shown
    /\ mic \in {"disarmed", "idle", "speaking", "error"} /\ Armed => Streaming
    /\ ~Streaming => flight = <<>>
    /\ session \in Nat /\ open \subseteq 1..session /\ eng \in 1..session
    /\ toucher \in {"out", "idle", "draining", "drained", "closed", "opened"}
    /\ {want, cmd} \subseteq {"none", "arm", "disarm"}
    /\ due \in Nat /\ drains \subseteq 0..gen

\* The snapshots that were current at some moment of tick t.
OnView(t) == {i \in DOMAIN shown : shown[i].at <= t /\ (i < Len(shown) => shown[i + 1].at >= t)}

\* Words are kept where they were said: on the scope on view within the skew of
\* their start, and beside it only on pictures that came on view before the
\* words were in; with the subject of that scope, or with none.
OnViewWhenSaid ==
    mint # Nothing =>
        \E t \in (mint.said - Skew)..(mint.said + Skew) : \E i \in OnView(t) :
            /\ mint.subject = shown[i].scope.subject
            /\ shown[i].scope.targets \subseteq mint.targets
            /\ mint.targets \subseteq UNION {shown[j].scope.targets : j \in i..Len(shown)}

\* The binding rule (engine.rs, on_final): words land on what was on view when
\* they were said, whatever was split, merged, delayed or scrolled past, as long
\* as that scope is still in the ring and the words are heard on the stream
\* their utterance began on.
WordsLandOnView == (mint # Nothing => mint.own /\ mint.kept) => OnViewWhenSaid

\* The ring "far exceeds the longest onset to final gap" (CAPTURE 3.1): words no
\* older than its window land on what was on view when they were said, however
\* long it had been on view.
LongViewsBind ==
    (mint # Nothing => mint.own /\ now - mint.said <= Window) => OnViewWhenSaid

\* The same of the ring's hits after a re-arm.
RearmedBinds == (mint # Nothing => mint.kept) => OnViewWhenSaid

\* A subject rides a targetless snapshot only (scope.rs, ScopeSnapshot).
SubjectIsTargetless == \A i \in DOMAIN flight : flight[i].subject # Nothing => flight[i].targets = {}

\* A note goes into a session that is open, and into the one that was open when
\* its words began (session.rs, CaptureDrain): rotation settles every utterance
\* before it closes the row.  But for a failure to open the next session's row.
MintedWhileOpen ==
    mint # Nothing /\ (open # {} \/ toucher = "closed") =>
        mint.into \in open /\ mint.born = mint.into

\* A rotation never cuts speech: whoever is speaking keeps the session open.
SpeechIsNotCut == [][DrainBegin => ~(Streaming /\ pipe.voice)]_vars

\* A disarmed microphone closes its stream, and so settles every utterance,
\* unless it is armed again first (mic.rs, spawn_disarm_drain).
DisarmSettles == (Streaming /\ ~Armed) ~> (~Streaming \/ Armed)
=============================================================================
