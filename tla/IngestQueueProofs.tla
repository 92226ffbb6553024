------------------------- MODULE IngestQueueProofs -------------------------
(***************************************************************************)
(* Theorems about the ingest queue of one image: its types, among them     *)
(* that attempts are bounded by what really happened, and that a done      *)
(* embedding row stands for the vector of the present words.               *)
(***************************************************************************)
EXTENDS IngestQueue, TLAPS

\* A row of any number of attempts.
AnyRow == [state : {"absent", "pending", "running", "done", "error", "skipped"},
           attempts : Nat, why : Why, model : Model \union {None}, wait : BOOLEAN]

Claimed == [pass : Pass \union {None}, attempts : Nat, words : 0..MaxWords,
            made : {"no", "read", "made"}]

Places == [path : {"active", "stale"}, root : {"active", "archived", "removed"},
           volume : {"online", "offline"}]

Types ==
  /\ kind \in Kind /\ row \in [Pass -> AnyRow] /\ art \in BOOLEAN /\ words \in 0..MaxWords
  /\ place \in Places
  /\ vec \in [Embed -> [Model -> SUBSET (0..MaxWords)]]
  /\ active \in Model /\ drain \in Model \union {None}
  /\ item \in [Lane -> Claimed]
  /\ faults \in 0..MaxFaults /\ moves \in 0..MaxMoves

\* What may have cost attempts, and what the return of the volume is owed.
Events == MaxLifetime + words + faults + moves
Away   == IF place.volume = "offline" THEN 1 ELSE 0

\* The attempts of a row are paid for by events; a pending row, and every row
\* that the return of the volume will make pending, has one more to spend.
Budget ==
  /\ Away <= moves
  /\ \A p \in Pass :
       /\ row[p].attempts + Away <= Events
       /\ (row[p].state = "pending" => row[p].attempts + Away + 1 <= Events)

\* The embedding lane holds an embedding pass, and only inside a drain.
Lanes ==
  /\ item["work"].pass \in {"preview", None}
  /\ item["embed"] = Nothing \/ (item["embed"].pass \in Embed /\ drain # None)

Present(p) == IF p = "text" THEN words ELSE 0

\* While the row still runs, what its claimer read and made is fresh; and the
\* row of a claimed text pass is not done before the claimer is.
Pursuit ==
  /\ Holds("embed", "text") => row["text"].state # "done"
  /\ Holds("embed", "text") /\ item["embed"].made = "read" /\ row["text"].state = "running"
       => item["embed"].words = words
  /\ \A p \in Embed :
       Holds("embed", p) /\ item["embed"].made = "made" /\ row[p].state = "running"
         => vec[p][drain] = {Present(p)}

\* A done embedding row names a model.
Named == \A p \in Embed : row[p].state = "done" => row[p].model \in Model

Freshness == Lanes /\ Pursuit /\ Named /\ DoneIsFresh
QueueInv == Types /\ Budget /\ Freshness

-----------------------------------------------------------------------------
(* What a step may do to a row it neither claims nor completes. *)

Kept(r, s) == s.state = r.state /\ s.attempts = r.attempts /\ s.model = r.model

\* Not done, not running, and no attempt more than before.
Demoted(r, s) == s.state \notin {"done", "running"} /\ s.attempts <= r.attempts

\* It becomes pending only if its budget allows it.
Affordable(r, s) ==
  s.state = "pending" => \/ r.state = "pending"
                         \/ s.attempts < MaxLifetime
                         \/ s.attempts < r.attempts

Freed(r, s) == s \in AnyRow /\ (Kept(r, s) \/ (Demoted(r, s) /\ Affordable(r, s)))
Spent(r, s) == s \in AnyRow /\ (Kept(r, s) \/ Demoted(r, s))

\* The row operators keep the type and do what their names say.
LEMMA RowOps ==
  ASSUME NEW r \in AnyRow, NEW w \in Why
  PROVE  /\ Fresh(r) \in AnyRow /\ Fresh(r).state = "pending" /\ Fresh(r).attempts = 0
         /\ Retry(r) \in AnyRow /\ Retry(r).state = "pending" /\ Retry(r).attempts = r.attempts
         /\ Skip(r, w) \in AnyRow /\ Skip(r, w).state = "skipped"
         /\ Skip(r, w).attempts = r.attempts
         /\ Retire(r, w) \in AnyRow /\ Retire(r, w).state = "skipped"
         /\ Retire(r, w).attempts = 0
BY DEF AnyRow, Fresh, Retry, Skip, Retire, Why

\* An absent row of a new image is enqueued, with nothing spent.
LEMMA EnqueuedRow ==
  Enqueued \in AnyRow /\ Enqueued.state = "pending" /\ Enqueued.attempts = 0
BY DEF AnyRow, Enqueued, Why

\* The limit of attempts allows at least one.
LEMMA OneAttempt == MaxLifetime \in Nat /\ MaxLifetime >= 1
BY IngestQueueAssumption

\* Fresh, skipped and retired rows cost nothing.
LEMMA FreeOps ==
  ASSUME NEW r \in AnyRow, NEW w \in Why
  PROVE  /\ Freed(r, r) /\ Freed(r, Fresh(r)) /\ Freed(r, Skip(r, w)) /\ Freed(r, Retire(r, w))
         /\ Freed(r, RetryErrors(r)) /\ Spent(r, Retry(r))
         /\ (r.state = "absent" => Freed(r, Enqueued))
<1>1. r.attempts \in Nat
  BY DEF AnyRow
<1>2. Freed(r, r)
  BY <1>1 DEF Freed, Kept
<1>3. Freed(r, Fresh(r)) /\ Freed(r, Skip(r, w)) /\ Freed(r, Retire(r, w))
  BY <1>1, RowOps, OneAttempt DEF Freed, Demoted, Affordable
<1>4. Spent(r, Retry(r))
  BY <1>1, RowOps DEF Spent, Demoted
<1>5. Freed(r, RetryErrors(r))
  BY <1>1, <1>2, RowOps DEF RetryErrors, Freed, Demoted, Affordable
<1>6. Freed(r, Enqueued)
  BY <1>1, EnqueuedRow, OneAttempt DEF Freed, Demoted, Affordable
<1> QED BY <1>2, <1>3, <1>4, <1>5, <1>6

\* Whatever is free is also paid for.
LEMMA FreedIsSpent ==
  ASSUME NEW r, NEW s, Freed(r, s)
  PROVE  Spent(r, s)
BY DEF Freed, Spent

\* A step that demotes rows is free, or an event has paid for it.
Settling ==
  /\ Events' + Away >= Events + Away'
  /\ \/ \A p \in Pass : Freed(row[p], row'[p])
     \/ (\A p \in Pass : Spent(row[p], row'[p])) /\ Events' + Away >= Events + Away' + 1

Orderly == row' \in [Pass -> AnyRow] /\ Settling /\ Away' <= moves'

Still == UNCHANGED <<place, words, faults, moves>>

-----------------------------------------------------------------------------
(* Demotions, action by action. *)

\* The sums are numbers.
LEMMA Sums ==
  ASSUME Types
  PROVE  Events \in Nat /\ Away \in {0, 1} /\ moves \in Nat /\ words \in Nat /\ faults \in Nat
BY IngestQueueAssumption DEF Types, Events, Away

\* Where no event happens the sums stay.
LEMMA StillSums ==
  ASSUME Types, Budget, Still
  PROVE  Events' = Events /\ Away' = Away /\ Away' <= moves' /\ Events' + Away >= Events + Away'
BY Sums DEF Budget, Still, Events, Away

\* One row changes, the others stay.
LEMMA OneRow ==
  ASSUME Types, NEW p \in Pass, NEW s \in AnyRow, SetRow(p, s)
  PROVE  /\ row'[p] = s /\ row' \in [Pass -> AnyRow]
         /\ \A q \in Pass : q # p => row'[q] = row[q]
BY DEF Types, SetRow

\* One row is demoted and nothing else happens.
LEMMA OneRowOrderly ==
  ASSUME Types, Budget, Still, NEW p \in Pass, NEW s, SetRow(p, s), Freed(row[p], s)
  PROVE  Orderly
<1>1. s \in AnyRow
  BY DEF Freed
<1>2. \A q \in Pass : Freed(row[q], row'[q])
  BY <1>1, OneRow, FreeOps, "none" \in Why DEF Types, Why
<1> QED BY <1>1, <1>2, OneRow, StillSums DEF Orderly, Settling

\* No row changes and nothing else happens.
LEMMA NoRowOrderly ==
  ASSUME Types, Budget, Still, row' = row
  PROVE  Orderly
<1>1. \A q \in Pass : Freed(row[q], row'[q])
  BY FreeOps, "none" \in Why DEF Types, Why
<1> QED BY <1>1, StillSums DEF Orderly, Settling, Types

\* Deferring a row gives the attempt back.
LEMMA DeferOrderly ==
  ASSUME Types, Budget, Still, NEW p \in Pass, NEW w \in Why, Defer(p, w)
  PROVE  Orderly
<1> DEFINE n == IF row[p].attempts = 0 THEN 0 ELSE row[p].attempts - 1
           s == [row[p] EXCEPT !.state = "pending", !.why = w, !.wait = TRUE, !.attempts = n]
<1>1. row[p] \in AnyRow /\ n \in Nat
  BY DEF Types, AnyRow
<1>2. s \in AnyRow /\ s.state = "pending" /\ s.attempts = n
  <2> HIDE DEF n
  <2> QED BY <1>1 DEF AnyRow
<1>3. Freed(row[p], s)
  BY <1>1, <1>2, OneAttempt DEF Freed, Demoted, Affordable, AnyRow
<1>4. SetRow(p, s)
  BY DEF Defer
<1> QED BY <1>3, <1>4, OneRowOrderly

\* A failure demotes its row; a transient one is paid for by a fault.
LEMMA FailureOrderly ==
  ASSUME Types, Budget, NEW p \in Pass, NEW t \in BOOLEAN, MarkFailed(p, t),
         UNCHANGED <<place, words, moves>>,
         faults' = IF t THEN faults + 1 ELSE faults
  PROVE  Orderly
<1>1. row[p] \in AnyRow
  BY DEF Types
<1>2. PICK s \in AnyRow : /\ SetRow(p, s) /\ s.attempts = row[p].attempts
                          /\ s.state \in {"pending", "error"}
                          /\ (s.state = "pending" => t)
  <2> DEFINE a == [row[p] EXCEPT !.state = "pending", !.why = "failed", !.wait = TRUE]
             b == [row[p] EXCEPT !.state = "error", !.why = "failed", !.wait = FALSE]
  <2>1. a \in AnyRow /\ a.attempts = row[p].attempts /\ a.state = "pending"
    BY <1>1 DEF AnyRow, Why
  <2>2. b \in AnyRow /\ b.attempts = row[p].attempts /\ b.state = "error"
    BY <1>1 DEF AnyRow, Why
  <2>3. SetRow(p, b) \/ (SetRow(p, a) /\ t)
    BY DEF MarkFailed
  <2> QED BY <2>1, <2>2, <2>3
<1>3. /\ row' \in [Pass -> AnyRow] /\ row'[p] = s
      /\ \A q \in Pass : q # p => row'[q] = row[q]
  BY <1>2, OneRow
<1>4. row[p].attempts \in Nat
  BY <1>1 DEF AnyRow
<1>5. Demoted(row[p], s)
  BY <1>2, <1>4 DEF Demoted
<1>6. CASE t
  <2>1. Events' = Events + 1 /\ Away' = Away /\ moves' = moves
    BY <1>6, Sums, IngestQueueAssumption DEF Events, Away
  <2>2. \A q \in Pass : Spent(row[q], row'[q])
    BY <1>3, <1>5, FreeOps, FreedIsSpent DEF Types, Why, Spent
  <2> QED BY <1>3, <2>1, <2>2, Sums DEF Orderly, Settling, Budget
<1>7. CASE ~t
  <2>1. Freed(row[p], s)
    BY <1>2, <1>5, <1>7 DEF Freed, Affordable
  <2> QED BY <1>2, <1>7, <2>1, OneRowOrderly DEF Still
<1> QED BY <1>6, <1>7

\* The steps of a pass and of a drain that complete no row.
Passing(p) ==
  \/ Fails(p) \/ Abandon(p) \/ BackoffExpires(p)
  \/ PreviewNoFile \/ PreviewHeic \/ PreviewWrite
  \/ TextRead \/ TextEmbed \/ ImageNoArtifact \/ ImageRead
  \/ DrainStart \/ DrainEnd

LEMMA PassOrderly ==
  ASSUME Types, Budget, NEW p \in Pass, Passing(p)
  PROVE  Orderly
<1> USE DEF Pass, Embed, Why
<1>0. \A q \in Pass : row[q] \in AnyRow
  BY DEF Types
<1>1. CASE Fails(p)
  <2>1. CASE Fault /\ MarkFailed(p, TRUE)
    BY <1>1, <2>1, FailureOrderly DEF Fails, Fault, place_
  <2>2. CASE MarkFailed(p, FALSE) /\ UNCHANGED bounds
    BY <1>1, <2>2, FailureOrderly DEF Fails, bounds, place_
  <2> QED BY <1>1, <2>1, <2>2 DEF Fails
<1>2. CASE Abandon(p)
  <2>1. Events' = Events + 1 /\ Away' = Away /\ moves' = moves
    BY <1>2, Sums, IngestQueueAssumption DEF Abandon, Fault, place_, Events, Away
  <2>2. \A q \in Pass : Freed(row[q], row'[q])
    BY <1>0, <1>2, FreeOps DEF Abandon
  <2> QED BY <1>2, <2>1, <2>2, Sums DEF Abandon, Orderly, Settling, Budget, Types
<1>3. CASE BackoffExpires(p)
  <2>1. Freed(row[p], [row[p] EXCEPT !.wait = FALSE])
    BY <1>0 DEF AnyRow, Freed, Kept
  <2> QED BY <1>3, <2>1, OneRowOrderly DEF BackoffExpires, Still, place_, bounds
<1>4. CASE PreviewNoFile
  BY <1>4, DeferOrderly DEF PreviewNoFile, Still, place_, bounds
<1>5. CASE PreviewHeic
  BY <1>0, <1>5, FreeOps, OneRowOrderly DEF PreviewHeic, Still, place_, bounds
<1>6. CASE ImageNoArtifact
  <2>1. CASE SetRow("image", Skip(row["image"], "preview-deferred"))
    BY <1>0, <1>6, <2>1, FreeOps, OneRowOrderly DEF ImageNoArtifact, Still, place_, bounds
  <2>2. CASE Defer("image", "preview-not-ready")
    BY <1>6, <2>2, DeferOrderly DEF ImageNoArtifact, Still, place_, bounds
  <2> QED BY <1>6, <2>1, <2>2 DEF ImageNoArtifact
<1>7. CASE DrainStart
  <2>1. \A q \in Pass : Freed(row[q], row'[q])
    BY <1>0, <1>7, FreeOps DEF DrainStart, ForModel
  <2>2. row' \in [Pass -> AnyRow]
    BY <1>7, <2>1 DEF DrainStart, Freed
  <2> QED BY <1>7, <2>1, <2>2, StillSums DEF DrainStart, Orderly, Settling, Still, place_, bounds
<1>8. CASE PreviewWrite \/ TextRead \/ TextEmbed \/ ImageRead \/ DrainEnd
  BY <1>8, NoRowOrderly
     DEF PreviewWrite, TextRead, TextEmbed, ImageRead, DrainEnd, Still, place_, bounds
<1> QED BY <1>1, <1>2, <1>3, <1>4, <1>5, <1>6, <1>7, <1>8 DEF Passing

\* The other writers of the queue's rows.
Writing ==
  \/ Revise \/ Place \/ Upkeep \/ \E m \in Model : Swap(m)

\* Every row is demoted, and a move or a word pays for it.
LEMMA PaidOrderly ==
  ASSUME Types, Budget, row' \in [Pass -> AnyRow],
         \A q \in Pass : Spent(row[q], row'[q]),
         Events' = Events + 1, Away' = Away, moves' \in {moves, moves + 1}
  PROVE  Orderly
BY Sums DEF Orderly, Settling, Budget

\* Every row is demoted for free, and perhaps a move was made.
LEMMA FreeOrderly ==
  ASSUME Types, Budget, row' \in [Pass -> AnyRow],
         \A q \in Pass : Freed(row[q], row'[q]),
         UNCHANGED <<words, faults>>, moves' \in {moves, moves + 1}, Away' = Away
  PROVE  Orderly
<1>1. Events' >= Events /\ Events' \in Nat
  BY Sums, IngestQueueAssumption DEF Events
<1> QED BY <1>1, Sums DEF Orderly, Settling, Budget

LEMMA WriterOrderly ==
  ASSUME Types, Budget, Writing
  PROVE  Orderly
<1> USE DEF Pass, Embed, Why
<1>0. \A q \in Pass : row[q] \in AnyRow
  BY DEF Types
<1>1. CASE Revise
  <2>1. row' \in [Pass -> AnyRow] /\ \A q \in Pass : Spent(row[q], row'[q])
    <3>1. CASE row["text"].state \in {"absent", "pending"}
      <4> DEFINE s == [row["text"] EXCEPT !.wait = IF row["text"].state = "pending" THEN @ ELSE FALSE]
      <4>1. Freed(row["text"], s)
        BY <1>0 DEF AnyRow, Freed, Kept
      <4>2. row' = [row EXCEPT !["text"] = s]
        BY <1>1, <3>1 DEF Revise
      <4> HIDE DEF s
      <4> QED BY <1>0, <4>1, <4>2, OneRow, FreeOps, FreedIsSpent DEF SetRow, Freed
    <3>2. CASE SetRow("text", Retry(row["text"]))
      <4>1. "none" \in Why
        OBVIOUS
      <4>2. /\ Spent(row["text"], Retry(row["text"])) /\ Retry(row["text"]) \in AnyRow
            /\ \A q \in Pass : Spent(row[q], row[q])
        BY <1>0, <4>1, RowOps, FreeOps, FreedIsSpent
      <4>3. /\ row'["text"] = Retry(row["text"]) /\ row' \in [Pass -> AnyRow]
            /\ \A q \in Pass : q # "text" => row'[q] = row[q]
        BY <3>2, <4>2, OneRow
      <4> QED BY <4>2, <4>3
    <3> QED BY <1>1, <3>1, <3>2 DEF Revise
  <2>2. Events' = Events + 1 /\ Away' = Away /\ moves' = moves
    BY <1>1, Sums, IngestQueueAssumption DEF Revise, place_, bounds, Events, Away
  <2> QED BY <2>1, <2>2, PaidOrderly
<1>2. CASE Unplug
  <2>1. Events' = Events + 1 /\ Away' = 1 /\ Away = 0 /\ moves' = moves + 1
    BY <1>2, Sums, IngestQueueAssumption DEF Unplug, Move, Events, Away, Types, Places
  <2>2. row' = row /\ \A q \in Pass : Freed(row[q], row'[q])
    BY <1>0, <1>2, FreeOps DEF Unplug
  <2> QED BY <2>1, <2>2, Sums DEF Orderly, Settling, Types
<1>3. CASE Plug
  <2>1. Events' = Events /\ Away' = 0 /\ Away = 1 /\ moves' = moves
    BY <1>3, Sums DEF Plug, bounds, Events, Away, Types, Places
  <2>2. \A q \in Pass : Spent(row[q], row'[q])
    BY <1>0, <1>3, FreeOps, FreedIsSpent DEF Plug
  <2>3. row' \in [Pass -> AnyRow]
    BY <1>3, <2>2 DEF Plug, Spent
  <2> QED BY <2>1, <2>2, <2>3, Sums DEF Orderly, Settling
<1>4. CASE RemoveRoot
  <2>1. \A q \in Pass : Freed(row[q], row'[q])
    BY <1>0, <1>4, FreeOps DEF RemoveRoot
  <2>2. row' \in [Pass -> AnyRow]
    BY <1>4, <2>1 DEF RemoveRoot, Freed
  <2>3. UNCHANGED <<words, faults>> /\ moves' = moves + 1 /\ Away' = Away
    BY <1>4 DEF RemoveRoot, Move, Away, Types, Places
  <2> QED BY <2>1, <2>2, <2>3, FreeOrderly
<1>5. CASE Register \/ Unarchive
  <2>1. UNCHANGED <<row, words, faults, moves>> /\ Away' = Away
    BY <1>5 DEF Register, Unarchive, bounds, Away, Types, Places
  <2> QED BY <1>0, <2>1, FreeOps, FreeOrderly DEF Types
<1>6. CASE Rescan
  <2>1. \A q \in Pass : Freed(row[q], row'[q])
    BY <1>0, <1>6, FreeOps DEF Rescan, Revive
  <2>2. row' \in [Pass -> AnyRow]
    BY <1>6, <2>1 DEF Rescan, Revive, Freed
  <2>3. UNCHANGED <<words, faults, moves>> /\ Away' = Away
    BY <1>6 DEF Rescan, bounds, Away, Types, Places
  <2> QED BY <2>1, <2>2, <2>3, FreeOrderly
<1>7. CASE Archive
  <2>1. UNCHANGED <<row, words, faults>> /\ moves' = moves + 1 /\ Away' = Away
    BY <1>7 DEF Archive, Move, Away, Types, Places
  <2> QED BY <1>0, <2>1, FreeOps, FreeOrderly DEF Types
<1>8. CASE RebuildPreviews
  <2>1. Freed(row["preview"], Fresh(row["preview"])) /\ Fresh(row["preview"]) \in AnyRow
    BY <1>0, FreeOps, RowOps
  <2>2. row' \in [Pass -> AnyRow] /\ \A q \in Pass : Freed(row[q], row'[q])
    BY <1>0, <1>8, <2>1, OneRow, FreeOps DEF RebuildPreviews
  <2>3. UNCHANGED <<words, faults>> /\ moves' = moves + 1 /\ Away' = Away
    BY <1>8 DEF RebuildPreviews, Move, Away, place_
  <2> QED BY <2>2, <2>3, FreeOrderly
<1>9. CASE ForceReembed
  <2>1. \A q \in Pass : Freed(row[q], row'[q])
    BY <1>0, <1>9, FreeOps DEF ForceReembed
  <2>2. row' \in [Pass -> AnyRow]
    BY <1>9, <2>1 DEF ForceReembed, Freed
  <2>3. UNCHANGED <<words, faults>> /\ moves' = moves + 1 /\ Away' = Away
    BY <1>9 DEF ForceReembed, Move, Away, place_
  <2> QED BY <2>1, <2>2, <2>3, FreeOrderly
<1>10. CASE Retention
  <2>1. \A q \in Pass : Freed(row[q], row'[q])
    BY <1>0, <1>10, FreeOps DEF Retention
  <2>2. row' \in [Pass -> AnyRow]
    BY <1>10, <2>1 DEF Retention, Freed
  <2>3. UNCHANGED <<words, faults, moves>> /\ Away' = Away
    BY <1>10 DEF Retention, bounds, Away, place_
  <2> QED BY <2>1, <2>2, <2>3, FreeOrderly
<1>11. CASE Tick
  <2>1. \A q \in Pass : Freed(row[q], row'[q])
    BY <1>0, <1>11, FreeOps DEF Tick
  <2>2. row' \in [Pass -> AnyRow]
    BY <1>11, <2>1 DEF Tick, Freed
  <2>3. UNCHANGED <<words, faults, moves>> /\ Away' = Away
    BY <1>11 DEF Tick, bounds, Away, place_
  <2> QED BY <2>1, <2>2, <2>3, FreeOrderly
<1>12. CASE \E b \in BOOLEAN : Restart(b)
  <2>1. PICK b \in BOOLEAN : Restart(b)
    BY <1>12
  <2>2. \A r \in AnyRow : Spent(r, Recover(r))
    <3> TAKE r \in AnyRow
    <3>1. [r EXCEPT !.state = "pending"] \in AnyRow
      BY DEF AnyRow
    <3>2. Spent(r, [r EXCEPT !.state = "pending"])
      BY <3>1 DEF AnyRow, Spent, Demoted
    <3> QED BY <3>2, FreeOps, FreedIsSpent DEF Recover
  <2>3. \A r \in AnyRow, s \in AnyRow : Spent(r, s) => Spent(r, Heal(s))
    <3> TAKE r \in AnyRow, s \in AnyRow
    <3> HAVE Spent(r, s)
    <3>1. Spent(r, Retire(s, "root-removed"))
      BY RowOps DEF Spent, Demoted, AnyRow
    <3> QED BY <3>1 DEF Heal
  <2>4. \A q \in Pass : Spent(row[q], row'[q])
    BY <1>0, <2>1, <2>2, <2>3, RowOps, FreeOps DEF Restart, Spent
  <2>5. row' \in [Pass -> AnyRow]
    BY <2>1, <2>4 DEF Restart, Spent
  <2>6. Events' = Events + 1 /\ Away' = Away /\ moves' = moves + 1
    BY <2>1, Sums, IngestQueueAssumption DEF Restart, Move, place_, Events, Away
  <2> QED BY <2>4, <2>5, <2>6, PaidOrderly
<1>13. CASE \E m \in Model : Swap(m)
  <2>1. UNCHANGED <<row, words, faults>> /\ moves' = moves + 1 /\ Away' = Away
    BY <1>13 DEF Swap, Move, Away, place_
  <2> QED BY <1>0, <2>1, FreeOps, FreeOrderly DEF Types
<1> QED BY <1>1, <1>2, <1>3, <1>4, <1>5, <1>6, <1>7, <1>8, <1>9, <1>10, <1>11, <1>12, <1>13
        DEF Writing, Place, Upkeep

-----------------------------------------------------------------------------
(* Types and the budget of attempts. *)

\* A claimed row runs, at one more attempt; the others stay.
LEMMA ClaimedRow ==
  ASSUME Types, NEW p \in Pass, Claim(p)
  PROVE  /\ row' \in [Pass -> AnyRow] /\ row[p].state = "pending"
         /\ row'[p].state = "running" /\ row'[p].attempts = row[p].attempts + 1
         /\ \A q \in Pass : q # p => row'[q] = row[q]
<1> DEFINE n == row[p].attempts + 1
           s == [row[p] EXCEPT !.state = "running", !.attempts = n]
<1>1. row[p] \in AnyRow /\ n \in Nat
  BY DEF Types, AnyRow
<1>2. s \in AnyRow /\ s.state = "running" /\ s.attempts = n
  <2> HIDE DEF n
  <2> QED BY <1>1 DEF AnyRow
<1>3. row' = [row EXCEPT ![p] = s]
  BY DEF Claim, SetRow
<1>4. row[p].state = "pending"
  BY DEF Claim, Claimable
<1> HIDE DEF s
<1> QED BY <1>2, <1>3, <1>4 DEF Types

\* A completed row is done under the given model, or nothing happens.
LEMMA DoneRow ==
  ASSUME Types, NEW p \in Pass, NEW m \in Model \union {None}, MarkDone(p, m)
  PROVE  /\ row' \in [Pass -> AnyRow]
         /\ row'[p].attempts = row[p].attempts
         /\ \A q \in Pass : q # p => row'[q] = row[q]
         /\ \/ row' = row /\ row[p].state # "running"
            \/ /\ row[p].state = "running" /\ row'[p].state = "done"
               /\ (m # None => row'[p].model = m)
<1>1. CASE row[p].state # "running"
  BY <1>1 DEF MarkDone, Types
<1>2. CASE row[p].state = "running"
  <2> DEFINE n == IF m = None THEN row[p].model ELSE m
             s == [row[p] EXCEPT !.state = "done", !.why = "none", !.wait = FALSE, !.model = n]
  <2>1. row[p] \in AnyRow /\ n \in Model \union {None}
    BY DEF Types, AnyRow
  <2>2. s \in AnyRow /\ s.state = "done" /\ s.attempts = row[p].attempts /\ s.model = n
    <3> HIDE DEF n
    <3> QED BY <2>1 DEF AnyRow, Why
  <2>3. row' = [row EXCEPT ![p] = s]
    BY <1>2 DEF MarkDone, SetRow
  <2>4. m # None => n = m
    OBVIOUS
  <2> HIDE DEF s, n
  <2> QED BY <1>2, <2>2, <2>3, <2>4 DEF Types
<1> QED BY <1>1, <1>2

Completing == PreviewDone \/ EmbedDone("text") \/ EmbedDone("image")

\* Every step claims a row, completes one, or demotes rows.
LEMMA StepKinds ==
  ASSUME Next
  PROVE  (\E p \in Pass : Claim(p) \/ Passing(p)) \/ Completing \/ Writing
<1>1. "preview" \in Pass
  BY DEF Pass
<1> QED BY <1>1 DEF Next, Work, Embedding, Passing, Completing, Writing

\* The pass whose row is completed, and what else the completion does.
LEMMA Completed ==
  ASSUME Types, Lanes, Completing
  PROVE  /\ UNCHANGED <<kind, place, art, vec, words, active, drain, faults, moves>>
         /\ \/ MarkDone("preview", None) /\ Drop("work") /\ item["work"].made = "made"
            \/ \E p \in Embed : /\ MarkDone(p, drain) /\ Drop("embed") /\ Holds("embed", p)
                                /\ item["embed"].made = "made" /\ drain \in Model
<1>1. ASSUME NEW p \in Embed, EmbedDone(p)
      PROVE  drain \in Model
  BY <1>1 DEF EmbedDone, Holds, Lanes, Nothing, Types, Embed, None
<1> QED BY <1>1 DEF Completing, PreviewDone, EmbedDone, place_, derived, bounds, Embed

LEMMA RowTyped ==
  ASSUME Types, Budget, Lanes, Next
  PROVE  row' \in [Pass -> AnyRow]
<1>1. ASSUME NEW p \in Pass, Claim(p) PROVE row' \in [Pass -> AnyRow]
  BY <1>1, ClaimedRow
<1>2. ASSUME NEW p \in Pass, Passing(p) PROVE row' \in [Pass -> AnyRow]
  BY <1>2, PassOrderly DEF Orderly
<1>3. ASSUME Completing PROVE row' \in [Pass -> AnyRow]
  BY <1>3, Completed, DoneRow DEF Pass, Embed, None, Types
<1>4. ASSUME Writing PROVE row' \in [Pass -> AnyRow]
  BY <1>4, WriterOrderly DEF Orderly
<1> QED BY <1>1, <1>2, <1>3, <1>4, StepKinds

\* The queue's own claimed copies.
LEMMA ItemTyped ==
  ASSUME Types, Next
  PROVE  item' \in [Lane -> Claimed]
<1> USE DEF Types, Lane
<1>1. Nothing \in Claimed /\ \A l \in Lane : item[l] \in Claimed
  BY IngestQueueAssumption DEF Nothing, Claimed
<1>2. ASSUME NEW l \in Lane, Drop(l) PROVE item' \in [Lane -> Claimed]
  BY <1>1, <1>2 DEF Drop
<1>3. ASSUME NEW p \in Pass, Claim(p) PROVE item' \in [Lane -> Claimed]
  <2>1. row[p].attempts + 1 \in Nat /\ 0 \in 0..MaxWords
    BY IngestQueueAssumption DEF AnyRow
  <2>2. [pass |-> p, attempts |-> row[p].attempts + 1, words |-> 0, made |-> "no"] \in Claimed
    BY <2>1 DEF Claimed
  <2> QED BY <1>3, <2>2 DEF Claim, LaneOf
<1>4. ASSUME NEW l \in Lane, NEW x \in {"read", "made"}
      PROVE  [item EXCEPT ![l].made = x] \in [Lane -> Claimed]
  BY <1>1 DEF Claimed
<1>5. ASSUME TextRead PROVE item' \in [Lane -> Claimed]
  <2>1. [item["embed"] EXCEPT !.made = "read", !.words = words] \in Claimed
    BY <1>1 DEF Claimed
  <2> QED BY <1>5, <2>1 DEF TextRead
<1>6. ASSUME NEW b \in BOOLEAN, Restart(b) PROVE item' \in [Lane -> Claimed]
  BY <1>1, <1>6 DEF Restart
<1>7. ASSUME NEW p \in Pass, Fails(p) \/ Abandon(p) PROVE item' \in [Lane -> Claimed]
  BY <1>2, <1>7 DEF Fails, Abandon, LaneOf
<1>8. ASSUME Work PROVE item' \in [Lane -> Claimed]
  BY <1>2, <1>4, <1>8 DEF Work, PreviewNoFile, PreviewHeic, PreviewWrite, PreviewDone
<1>9. ASSUME Embedding PROVE item' \in [Lane -> Claimed]
  BY <1>2, <1>4, <1>5, <1>9 DEF Embedding, TextEmbed, ImageNoArtifact, ImageRead, EmbedDone
<1> QED BY <1>3, <1>6, <1>7, <1>8, <1>9
        DEF Next, DrainStart, DrainEnd, Revise, Place, Unplug, Plug, RemoveRoot, Register, Rescan,
            Archive, Unarchive, Upkeep, RebuildPreviews, ForceReembed, Retention, Tick, Swap,
            BackoffExpires

\* What the embedding steps and the other writers do to the vectors.
LEMMA VecTyped ==
  ASSUME Types, Next
  PROVE  vec' \in [Embed -> [Model -> SUBSET (0..MaxWords)]]
<1> USE DEF Types
<1>1. 0 \in 0..MaxWords /\ item["embed"].words \in 0..MaxWords
  BY IngestQueueAssumption DEF Claimed, Lane
<1>2. ASSUME NEW p \in Embed, NEW n \in 0..MaxWords
      PROVE  [vec EXCEPT ![p][drain] = {n}] \in [Embed -> [Model -> SUBSET (0..MaxWords)]]
  OBVIOUS
<1>3. ASSUME TextEmbed \/ ImageRead
      PROVE  vec' \in [Embed -> [Model -> SUBSET (0..MaxWords)]]
  BY <1>1, <1>2, <1>3 DEF TextEmbed, ImageRead, Embed
<1>4. ASSUME Revise \/ Retention
      PROVE  vec' \in [Embed -> [Model -> SUBSET (0..MaxWords)]]
  <2>1. [m \in Model |-> {}] \in [Model -> SUBSET (0..MaxWords)]
    OBVIOUS
  <2>2. CASE Revise
    BY <2>1, <2>2 DEF Revise
  <2>3. CASE Retention
    BY <2>1, <2>3 DEF Retention
  <2> QED BY <1>4, <2>2, <2>3
<1> QED BY <1>3, <1>4
        DEF Next, Work, Embedding, PreviewNoFile, PreviewHeic, PreviewWrite, PreviewDone,
            TextRead, ImageNoArtifact, EmbedDone, Claim, Fails, Abandon,
            DrainStart, DrainEnd, Place, Unplug, Plug, RemoveRoot, Register, Rescan,
            Archive, Unarchive, Upkeep, RebuildPreviews, ForceReembed, Tick, Restart, Swap,
            BackoffExpires, derived

\* Kind, place and model, the drain and the counters.
LEMMA RestTyped ==
  ASSUME Types, Next
  PROVE  /\ kind' \in Kind /\ place' \in Places /\ art' \in BOOLEAN /\ words' \in 0..MaxWords
         /\ active' \in Model /\ drain' \in Model \union {None}
         /\ faults' \in 0..MaxFaults /\ moves' \in 0..MaxMoves
<1> USE DEF Types
<1>1. /\ kind' \in Kind /\ place' \in Places
  BY DEF Next, Work, Embedding, PreviewNoFile, PreviewHeic, PreviewWrite, PreviewDone,
         TextRead, TextEmbed, ImageRead, ImageNoArtifact, EmbedDone, Claim, Fails, Abandon,
         DrainStart, DrainEnd, Revise, Place, Unplug, Plug, RemoveRoot, Register, Rescan,
         Archive, Unarchive, Upkeep, RebuildPreviews, ForceReembed, Retention, Tick, Restart,
         Swap, BackoffExpires, place_, Places
<1>2. art' \in BOOLEAN /\ active' \in Model /\ drain' \in Model \union {None}
  BY DEF Next, Work, Embedding, PreviewNoFile, PreviewHeic, PreviewWrite, PreviewDone,
         TextRead, TextEmbed, ImageRead, ImageNoArtifact, EmbedDone, Claim, Fails, Abandon,
         DrainStart, DrainEnd, Revise, Place, Unplug, Plug, RemoveRoot, Register, Rescan,
         Archive, Unarchive, Upkeep, RebuildPreviews, ForceReembed, Retention, Tick, Restart,
         Swap, BackoffExpires, derived
<1> DEFINE Counted == words' \in 0..MaxWords /\ faults' \in 0..MaxFaults /\ moves' \in 0..MaxMoves
<1>3. ASSUME UNCHANGED words, UNCHANGED bounds \/ Fault \/ Move PROVE Counted
  BY <1>3, IngestQueueAssumption DEF bounds, Fault, Move
<1>4. ASSUME Revise PROVE Counted
  BY <1>4, IngestQueueAssumption DEF Revise, bounds
<1>5. Next => Revise \/ (UNCHANGED words /\ (UNCHANGED bounds \/ Fault \/ Move))
  BY DEF Next, Work, Embedding, PreviewNoFile, PreviewHeic, PreviewWrite, PreviewDone,
         TextRead, TextEmbed, ImageRead, ImageNoArtifact, EmbedDone, Claim, Fails, Abandon,
         DrainStart, DrainEnd, Place, Unplug, Plug, RemoveRoot, Register, Rescan,
         Archive, Unarchive, Upkeep, RebuildPreviews, ForceReembed, Retention, Tick, Restart,
         Swap, BackoffExpires
<1> QED BY <1>1, <1>2, <1>3, <1>4, <1>5

LEMMA TypesStep ==
  ASSUME Types, Budget, Lanes, Next
  PROVE  Types'
BY RowTyped, ItemTyped, VecTyped, RestTyped DEF Types

\* What a row of n attempts may owe when it is pending, or not.
Pays(r, away, events) ==
  r.attempts + away <= events /\ (r.state = "pending" => r.attempts + away + 1 <= events)

\* A demotion leaves a row paid, if it is free or one more event has happened.
LEMMA DemotionPays ==
  ASSUME NEW r \in AnyRow, NEW s \in AnyRow, NEW away \in Nat, NEW events \in Nat,
         NEW away1 \in Nat, NEW events1 \in Nat, Pays(r, away, events),
         MaxLifetime + away1 <= events1,
         \/ Freed(r, s) /\ events1 + away >= events + away1
         \/ Spent(r, s) /\ events1 + away >= events + away1 + 1
  PROVE  Pays(s, away1, events1)
<1>1. r.attempts \in Nat /\ s.attempts \in Nat
  BY DEF AnyRow
<1>2. CASE Kept(r, s) /\ events1 + away >= events + away1
  BY <1>1, <1>2 DEF Pays, Kept
<1>3. CASE Demoted(r, s) /\ Affordable(r, s) /\ events1 + away >= events + away1
  BY <1>1, <1>3, OneAttempt DEF Pays, Demoted, Affordable
<1>4. CASE Demoted(r, s) /\ events1 + away >= events + away1 + 1
  BY <1>1, <1>4 DEF Pays, Demoted
<1> QED BY <1>1, <1>2, <1>3, <1>4 DEF Freed, Spent

\* So does a claim, which spends what the pending row had left.
LEMMA ClaimPays ==
  ASSUME NEW r \in AnyRow, NEW s \in AnyRow, NEW away \in Nat, NEW events \in Nat,
         Pays(r, away, events), r.state = "pending", s.state = "running",
         s.attempts = r.attempts + 1
  PROVE  Pays(s, away, events)
BY DEF Pays, AnyRow

\* The volume owes nothing that no event has paid.
LEMMA SumsBound ==
  ASSUME NEW w \in Nat, NEW f \in Nat, NEW m \in Nat, NEW a \in Nat, a <= m
  PROVE  MaxLifetime + a <= MaxLifetime + w + f + m /\ MaxLifetime + w + f + m \in Nat
BY OneAttempt

\* A claim spends what a pending row has left, a completion nothing, a
\* demotion no more than events have paid.
LEMMA BudgetStep ==
  ASSUME Types, Types', Budget, Lanes, Next
  PROVE  Budget'
<1>0. \A p \in Pass : row[p] \in AnyRow /\ row'[p] \in AnyRow /\ Pays(row[p], Away, Events)
  BY DEF Types, Budget, Pays
<1>1. ASSUME Orderly PROVE Budget'
  <2>1. Away' <= moves' /\ Away' \in Nat
    BY <1>1 DEF Orderly, Away
  <2>2. words' \in Nat /\ faults' \in Nat /\ moves' \in Nat
    BY IngestQueueAssumption DEF Types
  <2>3. Events' \in Nat /\ MaxLifetime + Away' <= Events'
    BY <2>1, <2>2, SumsBound DEF Events
  <2>4. ASSUME NEW p \in Pass PROVE Pays(row'[p], Away', Events')
    <3>1. \/ Freed(row[p], row'[p]) /\ Events' + Away >= Events + Away'
          \/ Spent(row[p], row'[p]) /\ Events' + Away >= Events + Away' + 1
      BY <1>1 DEF Orderly, Settling
    <3>2. row[p] \in AnyRow /\ row'[p] \in AnyRow /\ Pays(row[p], Away, Events)
      BY <1>0
    <3>3. Away \in Nat /\ Events \in Nat
      BY Sums
    <3>4. PICK r \in AnyRow, s \in AnyRow : r = row[p] /\ s = row'[p]
      BY <3>2
    <3>5. PICK a \in Nat, e \in Nat : a = Away /\ e = Events
      BY <3>3
    <3>6. PICK a1 \in Nat, e1 \in Nat : a1 = Away' /\ e1 = Events'
      BY <2>1, <2>3
    <3>7. /\ Pays(r, a, e) /\ MaxLifetime + a1 <= e1
          /\ (Freed(r, s) /\ e1 + a >= e + a1) \/ (Spent(r, s) /\ e1 + a >= e + a1 + 1)
      BY <2>3, <3>1, <3>2, <3>4, <3>5, <3>6
    <3>8. Pays(s, a1, e1)
      BY <3>7, DemotionPays
    <3> QED BY <3>4, <3>6, <3>8
  <2> QED BY <2>1, <2>4 DEF Budget, Pays
<1>2. ASSUME NEW p \in Pass, Claim(p) PROVE Budget'
  <2>1. Events' = Events /\ Away' = Away /\ moves' = moves
    BY <1>2 DEF Claim, place_, bounds, Events, Away
  <2>2. \A q \in Pass : Pays(row'[q], Away, Events)
    <3>1. /\ row[p].state = "pending" /\ row'[p].state = "running"
          /\ row'[p].attempts = row[p].attempts + 1
          /\ \A q \in Pass : q # p => row'[q] = row[q]
      BY <1>2, ClaimedRow
    <3>2. /\ row[p] \in AnyRow /\ row'[p] \in AnyRow /\ Pays(row[p], Away, Events)
          /\ \A q \in Pass : Pays(row[q], Away, Events)
      BY <1>0
    <3>3. PICK r \in AnyRow, s \in AnyRow : r = row[p] /\ s = row'[p]
      BY <3>2
    <3>4. PICK a \in Nat, e \in Nat : a = Away /\ e = Events
      BY Sums
    <3>5. Pays(r, a, e) /\ r.state = "pending" /\ s.state = "running" /\ s.attempts = r.attempts + 1
      BY <3>1, <3>2, <3>3, <3>4
    <3>6. Pays(s, a, e)
      BY <3>5, ClaimPays
    <3>7. Pays(row'[p], Away, Events)
      BY <3>3, <3>4, <3>6
    <3> QED BY <3>1, <3>2, <3>7
  <2> QED BY <2>1, <2>2 DEF Budget, Pays
<1>3. ASSUME Completing PROVE Budget'
  <2>1. Events' = Events /\ Away' = Away /\ moves' = moves
    BY <1>3, Completed DEF Events, Away
  <2>2. PICK p \in Pass, m \in Model \union {None} : MarkDone(p, m)
    BY <1>3, Completed DEF Pass, Embed
  <2>3. \A q \in Pass :
          row'[q] = row[q] \/ (row'[q].attempts = row[q].attempts /\ row'[q].state = "done")
    <3>1. /\ row'[p].attempts = row[p].attempts /\ \A q \in Pass : q # p => row'[q] = row[q]
          /\ row' = row \/ row'[p].state = "done"
      BY <2>2, DoneRow
    <3> QED BY <3>1
  <2>4. \A q \in Pass : Pays(row'[q], Away, Events)
    BY <1>0, <2>3 DEF Pays
  <2> QED BY <2>1, <2>4 DEF Budget, Pays
<1> QED BY <1>1, <1>2, <1>3, StepKinds, PassOrderly, WriterOrderly

-----------------------------------------------------------------------------
(* Done is fresh. *)

\* No row becomes done or running, or leaves a row as done with another model.
NothingFinishes ==
  \A p \in Pass : \/ row'[p].state = row[p].state /\ row'[p].model = row[p].model
                  \/ row'[p].state \notin {"done", "running"}

LEMMA OrderlySettles ==
  ASSUME Orderly
  PROVE  NothingFinishes
BY DEF Orderly, Settling, Freed, Spent, Kept, Demoted, NothingFinishes

\* A step that touches neither the vectors nor the words nor the drain, and no
\* copy but one it drops.
LEMMA BystanderFresh ==
  ASSUME Types, Freshness, NothingFinishes, UNCHANGED <<vec, words, drain>>,
         item' = item \/ \E l \in Lane : Drop(l)
  PROVE  Freshness'
<1>1. \A l \in Lane : item'[l] = item[l] \/ item'[l] = Nothing
  BY DEF Drop, Types
<1>2. Nothing.pass = None /\ None \notin Pass
  BY DEF Nothing, None, Pass
<1>3. \A l \in Lane, p \in Pass : Holds(l, p)' => item'[l] = item[l] /\ Holds(l, p)
  BY <1>1, <1>2 DEF Holds
<1>4. Lanes'
  BY <1>1, <1>2 DEF Freshness, Lanes, Lane
<1>5. Pursuit'
  BY <1>3 DEF Freshness, Pursuit, NothingFinishes, Present, Lane, Pass, Embed
<1>6. Named' /\ DoneIsFresh'
  BY DEF Freshness, Named, DoneIsFresh, NothingFinishes, Pass, Embed
<1> QED BY <1>4, <1>5, <1>6 DEF Freshness

\* The steps of BystanderFresh.
Bystander(p) ==
  \/ Fails(p) \/ Abandon(p) \/ BackoffExpires(p) \/ PreviewNoFile \/ PreviewHeic
  \/ ImageNoArtifact \/ Place \/ RebuildPreviews \/ ForceReembed \/ Tick
  \/ \E m \in Model : Swap(m)

LEMMA BystanderStep ==
  ASSUME Types, Budget, Freshness, NEW p \in Pass, Bystander(p)
  PROVE  Freshness'
<1>1. Orderly
  BY PassOrderly, WriterOrderly DEF Bystander, Passing, Writing, Upkeep
<1>2. UNCHANGED <<vec, words, drain>> /\ (item' = item \/ \E l \in Lane : Drop(l))
  BY DEF Bystander, Fails, Abandon, BackoffExpires, PreviewNoFile, PreviewHeic, ImageNoArtifact,
         Place, Unplug, Plug, RemoveRoot, Register, Rescan, Archive, Unarchive, RebuildPreviews,
         ForceReembed, Tick, Swap, derived, Lane, LaneOf
<1> QED BY <1>1, <1>2, OrderlySettles, BystanderFresh

\* A pass that is read, or made, of the words there are.
LEMMA MadeFresh ==
  ASSUME Types, Budget, Freshness, TextRead \/ TextEmbed \/ ImageRead \/ PreviewWrite
  PROVE  Freshness'
<1> USE DEF Freshness, Pass, Embed, Lane, Types
<1>0. item["embed"] \in Claimed /\ item["work"] \in Claimed /\ Nothing.pass = None
  BY DEF Nothing
<1>1. CASE TextRead
  <2>1. /\ item'["embed"].made = "read" /\ item'["embed"].words = words
        /\ item'["embed"].pass = "text" /\ item'["work"] = item["work"]
    BY <1>0, <1>1 DEF TextRead, Holds, Claimed
  <2>2. UNCHANGED <<row, vec, words, drain>> /\ drain # None
    BY <1>1 DEF TextRead, derived, Lanes, Holds, Nothing, None
  <2>3. Lanes'
    BY <2>1, <2>2 DEF Lanes
  <2>4. Pursuit'
    BY <1>1, <2>1, <2>2 DEF Pursuit, Holds, TextRead
  <2> QED BY <2>2, <2>3, <2>4 DEF Named, DoneIsFresh
<1>2. CASE TextEmbed
  <2>1. /\ item'["embed"].made = "made" /\ item'["embed"].pass = "text"
        /\ item'["work"] = item["work"]
    BY <1>0, <1>2 DEF TextEmbed, Holds, Claimed
  <2>2. UNCHANGED <<row, words, drain>> /\ drain # None /\ row["text"].state # "done"
    BY <1>2 DEF TextEmbed, Lanes, Holds, Nothing, None, Pursuit
  <2>3. /\ vec'["text"][drain] = {item["embed"].words}
        /\ vec'["image"] = vec["image"]
    BY <1>2, <2>2 DEF TextEmbed
  <2>4. Lanes'
    BY <2>1, <2>2 DEF Lanes
  <2>5. Pursuit'
    BY <1>2, <2>1, <2>2, <2>3 DEF Pursuit, Holds, TextEmbed, Present
  <2> QED BY <2>2, <2>3, <2>4, <2>5 DEF Named, DoneIsFresh
<1>3. CASE ImageRead
  <2>1. /\ item'["embed"].made = "made" /\ item'["embed"].pass = "image"
        /\ item'["work"] = item["work"]
    BY <1>0, <1>3 DEF ImageRead, Holds, Claimed
  <2>2. UNCHANGED <<row, words, drain>> /\ drain # None /\ drain \in Model
    BY <1>3 DEF ImageRead, Lanes, Holds, Nothing, None
  <2>3. /\ vec'["image"][drain] = {0} /\ vec'["text"] = vec["text"]
        /\ \A m \in Model : m # drain => vec'["image"][m] = vec["image"][m]
    BY <1>3, <2>2 DEF ImageRead
  <2>4. Lanes'
    BY <2>1, <2>2 DEF Lanes
  <2>5. Pursuit'
    BY <2>1, <2>2, <2>3 DEF Pursuit, Holds, Present
  <2>6. DoneIsFresh' /\ Named'
    BY <2>2, <2>3 DEF DoneIsFresh, Named
  <2> QED BY <2>4, <2>5, <2>6
<1>4. CASE PreviewWrite
  <2>1. UNCHANGED <<row, vec, words, drain>> /\ item'["embed"] = item["embed"]
        /\ item'["work"].pass = item["work"].pass
    BY <1>0, <1>4 DEF PreviewWrite, Claimed
  <2>2. Lanes'
    BY <2>1 DEF Lanes
  <2>3. Pursuit'
    BY <2>1 DEF Pursuit, Holds, Present
  <2> QED BY <2>1, <2>2, <2>3 DEF Named, DoneIsFresh
<1> QED BY <1>1, <1>2, <1>3, <1>4

\* A claim begins with nothing read.
LEMMA ClaimFresh ==
  ASSUME Types, Freshness, NEW p \in Pass, Claim(p)
  PROVE  Freshness'
<1> USE DEF Freshness, Pass, Embed, Lane, Types
<1>1. /\ row[p].state = "pending" /\ row'[p].state = "running"
      /\ \A q \in Pass : q # p => row'[q] = row[q]
  BY ClaimedRow
<1>2. UNCHANGED <<vec, words, drain>>
  BY DEF Claim, derived
<1>3. /\ item'[LaneOf(p)].pass = p /\ item'[LaneOf(p)].made = "no" /\ LaneOf(p) \in Lane
      /\ \A l \in Lane : l # LaneOf(p) => item'[l] = item[l]
      /\ (p \in Embed => drain # None)
  BY DEF Claim, LaneOf
<1>4. Lanes'
  BY <1>2, <1>3 DEF Lanes, LaneOf
<1>5. Pursuit'
  BY <1>1, <1>2, <1>3 DEF Pursuit, Holds, LaneOf, Present
<1>6. Named' /\ DoneIsFresh'
  BY <1>1, <1>2 DEF Named, DoneIsFresh
<1> QED BY <1>4, <1>5, <1>6

\* A completion of a row that still runs completes what is fresh.
LEMMA CompletionFresh ==
  ASSUME Types, Freshness, Completing
  PROVE  Freshness'
<1> USE DEF Freshness, Pass, Embed, Lane, Types
<1>1. UNCHANGED <<vec, words, drain>>
  BY Completed
<1>2. CASE MarkDone("preview", None) /\ Drop("work")
  <2>1. \A q \in Embed : row'[q] = row[q]
    BY <1>2, DoneRow
  <2>2. item'["work"] = Nothing /\ item'["embed"] = item["embed"]
    BY <1>2 DEF Drop
  <2>3. Lanes'
    BY <1>1, <2>2 DEF Lanes, Nothing
  <2>4. Pursuit'
    BY <1>1, <2>1, <2>2 DEF Pursuit, Holds, Present
  <2> QED BY <1>1, <2>1, <2>3, <2>4 DEF Named, DoneIsFresh
<1>3. CASE \E p \in Embed : /\ MarkDone(p, drain) /\ Drop("embed") /\ Holds("embed", p)
                            /\ item["embed"].made = "made" /\ drain \in Model
  <2>1. PICK p \in Embed : /\ MarkDone(p, drain) /\ Drop("embed") /\ Holds("embed", p)
                           /\ item["embed"].made = "made" /\ drain \in Model
    BY <1>3
  <2>2. /\ \A q \in Pass : q # p => row'[q] = row[q]
        /\ \/ row' = row
           \/ row[p].state = "running" /\ row'[p].state = "done" /\ row'[p].model = drain
    <3>1. drain # None
      BY <2>1 DEF Lanes, Holds, Nothing, None
    <3> QED BY <2>1, <3>1, DoneRow
  <2>3. item'["embed"] = Nothing /\ item'["work"] = item["work"]
    BY <2>1 DEF Drop
  <2>4. Lanes'
    BY <2>3 DEF Lanes
  <2>5. Pursuit'
    BY <2>3 DEF Pursuit, Holds, Nothing, None
  <2>6. row[p].state = "running" => vec[p][drain] = {Present(p)}
    BY <2>1 DEF Pursuit
  <2>7. Named' /\ DoneIsFresh'
    BY <1>1, <2>1, <2>2, <2>6 DEF Named, DoneIsFresh, Present
  <2> QED BY <2>4, <2>5, <2>7
<1> QED BY <1>2, <1>3, Completed

\* The drain begins and ends with an empty lane.
LEMMA DrainFresh ==
  ASSUME Types, Budget, Freshness, DrainStart \/ DrainEnd
  PROVE  Freshness'
<1> USE DEF Freshness, Pass, Embed, Lane, Types
<1>1. "preview" \in Pass /\ NothingFinishes
  BY PassOrderly, OrderlySettles DEF Passing
<1>2. UNCHANGED <<vec, words, item>> /\ item["embed"] = Nothing
  BY DEF DrainStart, DrainEnd, derived, Lanes, None
<1>3. Lanes'
  BY <1>2 DEF Lanes
<1>4. Pursuit'
  BY <1>2 DEF Pursuit, Holds, Nothing, None
<1>5. Named' /\ DoneIsFresh'
  BY <1>1, <1>2 DEF Named, DoneIsFresh, NothingFinishes
<1> QED BY <1>3, <1>4, <1>5

\* Other words take the row of the old ones back to the queue.
LEMMA ReviseFresh ==
  ASSUME Types, Budget, Freshness, Revise
  PROVE  Freshness'
<1> USE DEF Freshness, Pass, Embed, Lane, Types
<1>1. /\ row'["text"].state \notin {"done", "running"}
      /\ \A q \in Pass : q # "text" => row'[q] = row[q]
  <2>1. row["text"] \in AnyRow
    OBVIOUS
  <2>2. CASE row["text"].state \in {"absent", "pending"}
    BY <2>1, <2>2 DEF Revise, AnyRow
  <2>3. CASE SetRow("text", Retry(row["text"]))
    BY <2>1, <2>3, RowOps, OneRow, "none" \in Why DEF Why
  <2> QED BY <2>2, <2>3 DEF Revise
<1>2. UNCHANGED <<item, drain>> /\ vec'["image"] = vec["image"]
  BY DEF Revise
<1>3. Lanes'
  BY <1>2 DEF Lanes
<1>4. Pursuit'
  BY <1>1, <1>2 DEF Pursuit, Holds, Present
<1>5. Named' /\ DoneIsFresh'
  BY <1>1, <1>2 DEF Named, DoneIsFresh
<1> QED BY <1>3, <1>4, <1>5

\* The retention drops the vectors of an image of which nothing is done.
LEMMA RetentionFresh ==
  ASSUME Types, Freshness, Retention
  PROVE  Freshness'
<1> USE DEF Freshness, Types
<1>1. \A p \in Pass : row'[p].state \notin {"done", "running"}
  <2> SUFFICES ASSUME NEW p \in Pass PROVE row'[p].state \notin {"done", "running"}
    OBVIOUS
  <2>1. row[p] \in AnyRow /\ "orphan-retention" \in Why
    BY DEF Why
  <2> QED BY <2>1, RowOps DEF Retention
<1>2. UNCHANGED <<item, drain, words>>
  BY DEF Retention
<1>3. Lanes'
  BY <1>2 DEF Lanes
<1>4. Pursuit'
  BY <1>1, <1>2 DEF Pursuit, Holds, Pass, Embed
<1>5. Named' /\ DoneIsFresh'
  BY <1>1 DEF Named, DoneIsFresh, Pass, Embed
<1> QED BY <1>3, <1>4, <1>5

\* A restart forgets the copies.
LEMMA RestartFresh ==
  ASSUME Types, Budget, Freshness, NEW b \in BOOLEAN, Restart(b)
  PROVE  Freshness'
<1> USE DEF Freshness, Pass, Embed, Types
<1>1. NothingFinishes
  BY WriterOrderly, OrderlySettles DEF Writing, Upkeep
<1>2. UNCHANGED <<vec, words>> /\ item' = [l \in Lane |-> Nothing]
  BY DEF Restart, derived
<1>3. Lanes'
  BY <1>2 DEF Lanes, Lane, Nothing
<1>4. Pursuit'
  BY <1>2 DEF Pursuit, Holds, Nothing, None, Lane
<1>5. Named' /\ DoneIsFresh'
  BY <1>1, <1>2 DEF Named, DoneIsFresh, NothingFinishes
<1> QED BY <1>3, <1>4, <1>5

LEMMA FreshStep ==
  ASSUME Types, Budget, Freshness, Next
  PROVE  Freshness'
<1>1. "preview" \in Pass
  BY DEF Pass
<1>2. ASSUME NEW p \in Pass, Bystander(p) PROVE Freshness'
  BY <1>2, BystanderStep
<1>3. ASSUME NEW p \in Pass, Claim(p) PROVE Freshness'
  BY <1>3, ClaimFresh
<1> QED BY <1>1, <1>2, <1>3, MadeFresh, CompletionFresh, DrainFresh, ReviseFresh,
           RetentionFresh, RestartFresh
        DEF Next, Work, Embedding, Upkeep, Bystander, Completing

-----------------------------------------------------------------------------
(* The theorems. *)

LEMMA InitialQueue ==
  ASSUME Init
  PROVE  QueueInv
<1> USE DEF Pass, Embed, Lane
<1>1. /\ Enqueued \in AnyRow /\ Absent \in AnyRow /\ Absent.state = "absent"
      /\ Absent.attempts = 0
      /\ [Enqueued EXCEPT !.state = "skipped", !.why = "deferred-heic"] \in AnyRow
      /\ [Enqueued EXCEPT !.state = "skipped", !.why = "deferred-heic"].attempts = 0
      /\ [Enqueued EXCEPT !.state = "skipped", !.why = "deferred-heic"].state = "skipped"
  BY DEF Enqueued, Absent, AnyRow, Why
<1>2. row \in [Pass -> AnyRow] /\ \A p \in Pass : /\ row[p].attempts = 0
                                                  /\ row[p].state # "done"
  BY <1>1, EnqueuedRow DEF Init
<1>3. Types
  <2>1. Nothing \in Claimed
    BY IngestQueueAssumption DEF Nothing, Claimed
  <2>2. item \in [Lane -> Claimed] /\ vec \in [Embed -> [Model -> SUBSET (0..MaxWords)]]
    BY <2>1 DEF Init
  <2>3. words \in 0..MaxWords /\ faults \in 0..MaxFaults /\ moves \in 0..MaxMoves
    BY IngestQueueAssumption DEF Init
  <2>4. kind \in Kind /\ place \in Places /\ art \in BOOLEAN
    BY DEF Init, Places
  <2> QED BY <1>2, <2>2, <2>3, <2>4 DEF Init, Types
<1>4. Budget
  <2>1. Away = 0 /\ Events = MaxLifetime
    BY OneAttempt DEF Init, Away, Events
  <2> QED BY <1>2, <2>1, OneAttempt DEF Budget, Init
<1>5. Freshness
  BY <1>2 DEF Init, Freshness, Lanes, Pursuit, Named, DoneIsFresh, Holds, Nothing, None
<1> QED BY <1>3, <1>4, <1>5 DEF QueueInv

LEMMA QueueStep ==
  ASSUME QueueInv, [Next]_vars
  PROVE  QueueInv'
<1>1. CASE Next
  <2>1. Types'
    BY <1>1, TypesStep DEF QueueInv, Freshness
  <2>2. Budget'
    BY <1>1, <2>1, BudgetStep DEF QueueInv, Freshness
  <2> QED BY <1>1, <2>1, <2>2, FreshStep DEF QueueInv
<1>2. CASE UNCHANGED vars
  BY <1>2 DEF vars, QueueInv, Types, Budget, Away, Events, Freshness, Lanes, Pursuit, Holds,
              Present, Named, DoneIsFresh
<1> QED BY <1>1, <1>2

\* The inductive invariant of the queue.
LEMMA QueueInvariant == Spec => []QueueInv
BY InitialQueue, QueueStep, PTL DEF Spec

\* The attempts of a row never exceed what its image has been through, however
\* often its lanes, its volume and its root come and go (library/ingest.rs,
\* library/mod.rs): deferrals and reconnections are free.
THEOREM TypeCorrect == Spec => []TypeOK
<1>1. QueueInv => TypeOK
  <2> SUFFICES ASSUME QueueInv PROVE TypeOK
    OBVIOUS
  <2>1. ASSUME NEW p \in Pass PROVE row[p] \in Row
    <3>1. row[p] \in AnyRow /\ row[p].attempts + Away <= Events
      BY DEF QueueInv, Types, Budget
    <3>2. Events <= MaxLifetime + MaxWords + MaxFaults + MaxMoves
      BY IngestQueueAssumption DEF QueueInv, Types, Events
    <3>3. row[p].attempts \in 0 .. (MaxLifetime + MaxWords + MaxFaults + MaxMoves)
      BY <3>1, <3>2, Sums, IngestQueueAssumption DEF QueueInv, AnyRow
    <3> QED BY <3>1, <3>3 DEF AnyRow, Row
  <2> QED BY <2>1 DEF QueueInv, Types, TypeOK, Places, Claimed
<1> QED BY <1>1, QueueInvariant, PTL

\* A done embedding row stands for the vector of the words the image has now,
\* in the space of the model it names: for every number of models, faults and
\* changes (library/embedding.rs, library/ingest.rs, store/mod.rs).
THEOREM DoneStaysFresh == Spec => []DoneIsFresh
<1>1. QueueInv => DoneIsFresh
  BY DEF QueueInv, Freshness
<1> QED BY <1>1, QueueInvariant, PTL
=============================================================================
