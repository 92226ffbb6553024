---------------------------- MODULE IngestQueue ----------------------------
(* The ingest queue (library/ingest.rs): the ingest_passes rows of one image,
   the lanes that claim and complete them (library/mod.rs, library/
   embedding.rs) and everything else that writes them: the roots and volumes,
   the doctor, the journal, a restart.

   Each action is one SQLite statement or transaction under the connection
   lock; between the claim of a row and its completion a lane holds no lock
   and works from a copy of the row. Priorities and clocks are left out: a
   backoff is a flag that time clears. *)
EXTENDS Naturals, FiniteSets

CONSTANTS
  Model,        \* embedding models the user may configure
  Kind,         \* kinds of image: "plain", "heic" (no preview yet), "corrupt"
  MaxAuto,      \* MAX_AUTO_ATTEMPTS
  MaxLifetime,  \* MAX_LIFETIME_ATTEMPTS
  MaxWords,     \* bound: journal changes of the image's text
  MaxFaults,    \* bound: failures of a pass
  MaxMoves      \* bound: changes of root, volume, model; restarts, maintenance

ASSUME IngestQueueAssumption ==
  /\ MaxAuto \in Nat \ {0} /\ MaxLifetime \in Nat /\ MaxAuto <= MaxLifetime
  /\ MaxWords \in Nat /\ MaxFaults \in Nat /\ MaxMoves \in Nat
  /\ Kind \subseteq {"plain", "heic", "corrupt"}

None  == "none"
Pass  == {"preview", "image", "text"}
Embed == {"image", "text"}
Lane  == {"work", "embed"}
\* skip and error codes
Why   == {"none", "failed", "volume-offline", "preview-not-ready", "preview-deferred",
          "deferred-heic", "root-removed", "orphan-retention"}

VARIABLES
  kind,    \* what the image is
  place,   \* [path, root, volume]: its one path, the root and the volume of it
  row,     \* [Pass -> its row: state, attempts, why, model, wait]
  art,     \* are its preview artifacts in the cache?
  vec,     \* [Embed -> [Model -> versions of the words embedded, at most one]]
  words,   \* version of its folded text
  active,  \* the model of the plan
  drain,   \* the model of the embedding drain under way, or None
  item,    \* [Lane -> the claimed copy: pass, attempts, words read, made; or Nothing]
  faults, moves

place_  == <<kind, place>>
derived == <<art, vec>>
bounds  == <<faults, moves>>
vars == <<kind, place, row, art, vec, words, active, drain, item, faults, moves>>

Enqueued == [state |-> "pending", attempts |-> 0, why |-> "none", model |-> None, wait |-> FALSE]
Nothing  == [pass |-> None, attempts |-> 0, words |-> 0, made |-> "no"]
Absent   == [Enqueued EXCEPT !.state = "absent"]
Active   == place.path = "active"
Readable == Active /\ place.volume = "online"    \* best_path

\* new_image_in_tx: a HEIC's preview waits for a decoder.
Init ==
  /\ kind \in Kind
  /\ place = [path |-> "active", root |-> "active", volume |-> "online"]
  /\ row = [p \in Pass |->
       CASE p \in Embed -> Absent
         [] p = "preview" /\ kind = "heic" ->
              [Enqueued EXCEPT !.state = "skipped", !.why = "deferred-heic"]
         [] OTHER -> Enqueued]
  /\ art = FALSE /\ vec = [p \in Embed |-> [m \in Model |-> {}]] /\ words = 0
  /\ active \in Model /\ drain = None /\ item = [l \in Lane |-> Nothing]
  /\ faults = 0 /\ moves = 0

Holds(l, p) == item[l].pass = p
LaneOf(p)   == IF p = "preview" THEN "work" ELSE "embed"
SetRow(p, r) == row' = [row EXCEPT ![p] = r]
Drop(l)      == item' = [item EXCEPT ![l] = Nothing]

\* A row goes back to the queue with a fresh budget.
Fresh(r)  == [r EXCEPT !.state = "pending", !.attempts = 0, !.why = "none", !.wait = FALSE]
Retry(r)  == [r EXCEPT !.state = "pending", !.wait = FALSE]
Skip(r, why) == [r EXCEPT !.state = "skipped", !.why = why, !.wait = FALSE]
Retire(r, why) == [Skip(r, why) EXCEPT !.attempts = 0]

-----------------------------------------------------------------------------
(* Claims and completions. *)

\* claim_next_of: due, and under an active root; a lane that reads the file
\* needs an online volume too.
Claimable(p) ==
  /\ row[p].state = "pending" /\ ~row[p].wait
  /\ Active /\ place.root = "active"
  /\ p = "preview" => Readable

Claim(p) ==
  /\ item[LaneOf(p)] = Nothing /\ Claimable(p)
  /\ p \in Embed => drain # None
  /\ SetRow(p, [row[p] EXCEPT !.state = "running", !.attempts = @ + 1])
  /\ item' = [item EXCEPT ![LaneOf(p)] =
       [pass |-> p, attempts |-> row[p].attempts + 1, words |-> 0, made |-> "no"]]
  /\ UNCHANGED <<place_, derived, words, active, drain, bounds>>

\* Mutant: a completion that does not look at the row.
MarkDoneBlind(p, m) ==
  SetRow(p, [row[p] EXCEPT !.state = "done", !.why = "none", !.wait = FALSE,
                           !.model = IF m = None THEN @ ELSE m])

\* mark_done, mark_done_with_model: nothing, unless the row is still running.
MarkDone(p, m) ==
  IF row[p].state # "running" THEN UNCHANGED row
  ELSE SetRow(p, [row[p] EXCEPT !.state = "done", !.why = "none", !.wait = FALSE,
                                !.model = IF m = None THEN @ ELSE m])

\* defer: the attempt is given back.
Defer(p, why) ==
  SetRow(p, [row[p] EXCEPT !.state = "pending", !.why = why, !.wait = TRUE,
                           !.attempts = IF @ = 0 THEN 0 ELSE @ - 1])

\* mark_failed: by the attempts of the claimed copy, whatever the row says now.
MarkFailed(p, transient) ==
  IF transient /\ item[LaneOf(p)].attempts < MaxAuto
  THEN SetRow(p, [row[p] EXCEPT !.state = "pending", !.why = "failed", !.wait = TRUE])
  ELSE SetRow(p, [row[p] EXCEPT !.state = "error", !.why = "failed", !.wait = FALSE])

BackoffExpires(p) ==
  /\ row[p].wait /\ SetRow(p, [row[p] EXCEPT !.wait = FALSE])
  /\ UNCHANGED <<place_, derived, words, active, drain, item, bounds>>

Fault == faults < MaxFaults /\ faults' = faults + 1 /\ UNCHANGED moves

\* A pass fails: decoder, embedder, store or file. A file that cannot be
\* decoded fails for good, and costs no fault.
Fails(p) ==
  /\ Holds(LaneOf(p), p) /\ item[LaneOf(p)].made # "made"
  /\ p = "image" => art
  /\ \/ Fault /\ MarkFailed(p, TRUE)
     \/ p = "preview" /\ kind = "corrupt" /\ Readable /\ MarkFailed(p, FALSE) /\ UNCHANGED bounds
  /\ Drop(LaneOf(p))
  /\ UNCHANGED <<place_, derived, words, active, drain>>

\* An SQLite error on the way out of a pass: the error is returned, the row
\* stays as it was.
Abandon(p) ==
  /\ Holds(LaneOf(p), p) /\ Fault /\ Drop(LaneOf(p))
  /\ UNCHANGED <<place_, row, derived, words, active, drain>>

\* run_pass and run_preview_pass: the artifacts are written, then recorded.
PreviewNoFile ==
  /\ Holds("work", "preview") /\ item["work"].made = "no" /\ ~Readable
  /\ Defer("preview", "volume-offline") /\ Drop("work")
  /\ UNCHANGED <<place_, derived, words, active, drain, bounds>>
PreviewHeic ==
  /\ Holds("work", "preview") /\ Readable /\ kind = "heic"
  /\ SetRow("preview", Skip(row["preview"], "deferred-heic")) /\ Drop("work")
  /\ UNCHANGED <<place_, derived, words, active, drain, bounds>>
PreviewWrite ==
  /\ Holds("work", "preview") /\ item["work"].made = "no" /\ Readable /\ kind = "plain"
  /\ art' = TRUE /\ item' = [item EXCEPT !["work"].made = "made"]
  /\ UNCHANGED <<place_, row, vec, words, active, drain, bounds>>
PreviewDone ==
  /\ Holds("work", "preview") /\ item["work"].made = "made"
  /\ MarkDone("preview", None) /\ Drop("work")
  /\ UNCHANGED <<place_, derived, words, active, drain, bounds>>

\* run_text_embedding_pass: the words are read, embedded under no lock, and
\* the pass is marked.
TextRead ==
  /\ Holds("embed", "text") /\ item["embed"].made = "no"
  /\ item' = [item EXCEPT !["embed"].made = "read", !["embed"].words = words]
  /\ UNCHANGED <<place_, row, derived, words, active, drain, bounds>>
TextEmbed ==
  /\ Holds("embed", "text") /\ item["embed"].made = "read"
  /\ vec' = [vec EXCEPT !["text"][drain] = {item["embed"].words}]
  /\ item' = [item EXCEPT !["embed"].made = "made"]
  /\ UNCHANGED <<place_, row, art, words, active, drain, bounds>>

\* Mutant: the image waits for a preview that was skipped.
ImageWaits ==
  /\ Holds("embed", "image") /\ ~art /\ item["embed"].made = "no"
  /\ Defer("image", "preview-not-ready") /\ Drop("embed")
  /\ UNCHANGED <<place_, derived, words, active, drain, bounds>>

\* run_image_embedding_pass: without an artifact it waits for the preview, or
\* follows it when that was skipped.
ImageNoArtifact ==
  /\ Holds("embed", "image") /\ ~art /\ item["embed"].made = "no"
  /\ IF row["preview"].state = "skipped"
     THEN SetRow("image", Skip(row["image"], "preview-deferred"))
     ELSE Defer("image", "preview-not-ready")
  /\ Drop("embed")
  /\ UNCHANGED <<place_, derived, words, active, drain, bounds>>
ImageRead ==
  /\ Holds("embed", "image") /\ art /\ item["embed"].made = "no"
  /\ vec' = [vec EXCEPT !["image"][drain] = {0}]
  /\ item' = [item EXCEPT !["embed"].made = "made"]
  /\ UNCHANGED <<place_, row, art, words, active, drain, bounds>>
EmbedDone(p) ==
  /\ Holds("embed", p) /\ item["embed"].made = "made"
  /\ MarkDone(p, drain) /\ Drop("embed")
  /\ UNCHANGED <<place_, derived, words, active, drain, bounds>>

-----------------------------------------------------------------------------
(* The embedding drain: backfill, re-pend for the model, then claims. *)

\* repend_passes_for_model: done rows of another model; and, only if there are
\* any, rows skipped for a missing preview and errors with attempts left.
Outdated(p) == row[p].state = "done" /\ row[p].model # active
Revived(p)  ==
  \/ row[p].state = "skipped" /\ row[p].why = "preview-deferred"
  \/ row[p].state = "error" /\ row[p].attempts < MaxLifetime
ForModel(r, p) == IF Outdated(p) THEN Fresh(r) ELSE r

DrainStart ==
  /\ drain = None /\ drain' = active
  /\ row' = [p \in Pass |->
       CASE p = "preview"            -> row[p]
         [] row[p].state = "absent"  -> Enqueued
         [] OTHER                    -> ForModel(row[p], p)]
  /\ UNCHANGED <<place_, derived, words, active, item, bounds>>

\* Out of work, or cancelled between two items.
DrainEnd ==
  /\ drain # None /\ item["embed"] = Nothing /\ drain' = None
  /\ UNCHANGED <<place_, row, derived, words, active, item, bounds>>

-----------------------------------------------------------------------------
(* The other writers. *)

Move == moves < MaxMoves /\ moves' = moves + 1 /\ UNCHANGED faults

\* recompute_derived: the words change, their vectors die, and the pass is
\* pending again even if it runs.
Revise ==
  /\ words < MaxWords /\ words' = words + 1
  /\ vec' = [vec EXCEPT !["text"] = [m \in Model |-> {}]]
  /\ IF row["text"].state \in {"absent", "pending"} THEN row' =
        [row EXCEPT !["text"].wait = IF row["text"].state = "pending" THEN @ ELSE FALSE]
     ELSE SetRow("text", Retry(row["text"]))
  /\ UNCHANGED <<place_, art, active, drain, item, bounds>>

Swap(m) ==
  /\ m # active /\ Move /\ active' = m
  /\ UNCHANGED <<place_, row, derived, words, drain, item>>

\* probe_volumes: back online, the volume's rows are due whatever their attempts.
Unplug ==
  /\ place.volume = "online" /\ Move /\ place' = [place EXCEPT !.volume = "offline"]
  /\ UNCHANGED <<kind, row, derived, words, active, drain, item>>
Plug ==
  /\ place.volume = "offline" /\ place' = [place EXCEPT !.volume = "online"]
  /\ row' = [p \in Pass |->
       IF Active /\ row[p].state \in {"error", "pending"} THEN Retry(row[p]) ELSE row[p]]
  /\ UNCHANGED <<kind, derived, words, active, drain, item, bounds>>

Orphaned(p) == row[p].state \in {"pending", "error"}
RemoveRoot ==
  /\ place.root = "active" /\ Move
  /\ place' = [place EXCEPT !.root = "removed", !.path = "stale"]
  /\ row' = [p \in Pass |->
       IF Active /\ Orphaned(p) THEN Retire(row[p], "root-removed") ELSE row[p]]
  /\ UNCHANGED <<kind, derived, words, active, drain, item>>

\* revive_retention_cleaned, in the transaction of every relink.
Revive ==
  row' = [p \in Pass |->
    IF row[p].state = "skipped" /\ row[p].why = "orphan-retention" THEN Fresh(row[p]) ELSE row[p]]

\* register_root takes the removed root back; the scan finds the file again.
Register ==
  /\ place.root = "removed" /\ place' = [place EXCEPT !.root = "active"]
  /\ UNCHANGED <<kind, row, derived, words, active, drain, item, bounds>>
Rescan ==
  /\ place.root = "active" /\ place.volume = "online" /\ ~Active
  /\ place' = [place EXCEPT !.path = "active"] /\ Revive
  /\ UNCHANGED <<kind, derived, words, active, drain, item, bounds>>
Archive ==
  /\ place.root = "active" /\ Move /\ place' = [place EXCEPT !.root = "archived"]
  /\ UNCHANGED <<kind, row, derived, words, active, drain, item>>
Unarchive ==
  /\ place.root = "archived" /\ place' = [place EXCEPT !.root = "active"]
  /\ UNCHANGED <<kind, row, derived, words, active, drain, item, bounds>>

\* rebuild_previews, repend_all_previews
RebuildPreviews ==
  /\ Active /\ row["preview"].state # "running" /\ Move
  /\ SetRow("preview", Fresh(row["preview"]))
  /\ UNCHANGED <<place_, derived, words, active, drain, item>>

\* force_repend_passes: the weights changed under the same name.
ForceReembed ==
  /\ Move
  /\ row' = [p \in Pass |->
       IF p \in Embed /\ (row[p].state = "done" \/ Revived(p)) THEN Fresh(row[p]) ELSE row[p]]
  /\ UNCHANGED <<place_, derived, words, active, drain, item>>

\* The doctor of the 6-hour tick: an image that has had no path for long and
\* no running pass loses its artifacts, its vectors and its place in the queue.
Retention ==
  /\ ~Active /\ \A p \in Pass : row[p].state # "running"
  /\ art' = FALSE /\ vec' = [p \in Embed |-> [m \in Model |-> {}]]
  /\ row' = [p \in Pass |->
       IF row[p].state = "absent" \/ (row[p].state = "skipped" /\ row[p].why = "orphan-retention")
       THEN row[p] ELSE Retire(row[p], "orphan-retention")]
  /\ UNCHANGED <<place_, words, active, drain, item, bounds>>

\* retry_errors: at every start and every six hours.
RetryErrors(r) ==
  IF r.state = "error" /\ r.attempts < MaxLifetime THEN Retry(r) ELSE r
Tick ==
  /\ row' = [p \in Pass |-> RetryErrors(row[p])]
  /\ UNCHANGED <<place_, derived, words, active, drain, item, bounds>>

\* A crash or a quit, then Library::open: recover_running, retry_errors,
\* previews of an older generator; and the startup doctor retires orphans.
Recover(r) == IF r.state = "running" THEN [r EXCEPT !.state = "pending"] ELSE RetryErrors(r)
Heal(r)    == IF ~Active /\ r.state \in {"pending", "error"} THEN Retire(r, "root-removed") ELSE r
Restart(regenerate) ==
  /\ Move
  /\ row' = [p \in Pass |->
       IF regenerate /\ p = "preview" /\ row[p].state = "done" THEN Heal(Retry(row[p]))
       ELSE Heal(Recover(row[p]))]
  /\ drain' = None /\ item' = [l \in Lane |-> Nothing]
  /\ UNCHANGED <<place_, derived, words, active>>

Work == PreviewNoFile \/ PreviewHeic \/ PreviewWrite \/ PreviewDone
Embedding == TextRead \/ TextEmbed \/ ImageNoArtifact \/ ImageRead \/ EmbedDone("text") \/ EmbedDone("image")
Place == Unplug \/ Plug \/ RemoveRoot \/ Register \/ Rescan \/ Archive \/ Unarchive
Upkeep == RebuildPreviews \/ ForceReembed \/ Retention \/ Tick \/ \E b \in BOOLEAN : Restart(b)

Next ==
  \/ Work \/ Embedding \/ DrainStart \/ DrainEnd \/ Revise \/ Place \/ Upkeep
  \/ \E m \in Model : Swap(m)
  \/ \E p \in Pass : Claim(p) \/ Fails(p) \/ Abandon(p) \/ BackoffExpires(p)

(* Fairness: a lane finishes what it claimed, the pump starts a drain again and
   again and a drain reaches every claimable row, a backoff runs out. Nothing
   is asked of the user, of the volumes or of a restart. *)
Fairness ==
  /\ WF_vars(Work \/ Fails("preview")) /\ WF_vars(Embedding)
  /\ SF_vars(DrainStart) /\ WF_vars(DrainEnd) /\ WF_vars(Rescan)
  /\ \A p \in Pass : SF_vars(Claim(p)) /\ WF_vars(BackoffExpires(p))

Spec == Init /\ [][Next]_vars /\ Fairness

-----------------------------------------------------------------------------
(* Properties. *)

Row == [state : {"absent", "pending", "running", "done", "error", "skipped"},
        attempts : 0..(MaxLifetime + MaxWords + MaxFaults + MaxMoves), why : Why,
        model : Model \union {None}, wait : BOOLEAN]

\* Deferrals, which may go on for ever, cost no attempt: the attempts of a row
\* are bounded by what really happened to it.
TypeOK ==
  /\ kind \in Kind /\ row \in [Pass -> Row] /\ art \in BOOLEAN /\ words \in 0..MaxWords
  /\ place \in [path : {"active", "stale"}, root : {"active", "archived", "removed"},
                volume : {"online", "offline"}]
  /\ vec \in [Embed -> [Model -> SUBSET (0..MaxWords)]]
  /\ active \in Model /\ drain \in Model \union {None}
  /\ item \in [Lane -> [pass : Pass \union {None}, attempts : Nat, words : 0..MaxWords,
                        made : {"no", "read", "made"}]]
  /\ faults \in 0..MaxFaults /\ moves \in 0..MaxMoves

\* A completed embedding pass means the vector of the image's present words is
\* in the space of the model the row names, whatever the journal, the doctor,
\* a root or a restart did while the pass ran.
DoneIsFresh ==
  \A p \in Embed : row[p].state = "done" =>
    vec[p][row[p].model] = {IF p = "text" THEN words ELSE 0}

\* A pass retired by the retention of orphans is retired only as long as the
\* image has no path.
RetiredHasNoPath ==
  \A p \in Pass : row[p].state = "skipped" /\ row[p].why = "orphan-retention" => ~Active

\* What ingest.rs says of the other retirement: "root-removed: the image has no
\* active path at all".
RemovedHasNoPath ==
  \A p \in Pass : row[p].state = "skipped" /\ row[p].why = "root-removed" => ~Active

\* A file that stays reachable is worked off: in the end every pass is done
\* under the model of the plan, skipped or an error, unless an SQLite error
\* abandoned a running row. The image pass may wait for a preview in error.
Eligible   == Readable /\ place.root = "active"
Unattended == \E p \in Pass : row[p].state = "running" /\ ~Holds(LaneOf(p), p)
Settled(p) == \/ row[p].state \in {"error", "skipped"}
              \/ row[p].state = "done" /\ (p \in Embed => row[p].model = active)
Waits(p)   == p = "image" /\ row["preview"].state = "error"
Settles ==
  (<>[]Eligible /\ <>[]~Unattended) => <>[](\A p \in Pass : Settled(p) \/ Waits(p))

\* What embedding.rs says of the skip that follows a skipped preview: without
\* it the image is "eternal pending work and the library never settles".
LibrarySettles ==
  (<>[]Eligible /\ <>[]~Unattended) => <>[](\A p \in Pass : Settled(p))
=============================================================================
