----------------------------- MODULE EventMerge -----------------------------
(***************************************************************************)
(* The event store on several devices: append, redact, the merge of        *)
(* documents that sidecars carry between them, and the derived tables each *)
(* write keeps up to date (store/mod.rs, store/fold.rs).                   *)
(*                                                                         *)
(* One image's journal is modelled: its remarks, their revisions and       *)
(* retractions, and redaction acts.  Ids are numbers, in ULID order.  Each *)
(* write holds the store's writer lock from beginning to end; a large      *)
(* merge commits chunk by chunk, and a crash can fall between the commits. *)
(***************************************************************************)
EXTENDS JournalContent, Naturals

LOCAL INSTANCE FiniteSetsExt

CONSTANTS
  Device,      \* installations, each with its own database
  Remark,      \* ids of remarks
  Revision,    \* ids of revisions
  Retraction,  \* ids of retractions
  Act,         \* ids of redaction events
  Target,      \* target_event of a revision or a retraction
  Chunk,       \* MERGE_CHUNK: events of one transaction of a large merge
  MaxDocs,     \* bound: documents written
  MaxLost,     \* bound: events of a document that fail validation
  MaxCrashes   \* bound: kills during a merge

Chained == Remark \union Revision
Content == Chained \union Retraction

ASSUME IdAssumption ==
  /\ Content \union Act \subseteq Nat \ {0}
  /\ Remark \intersect Revision = {} /\ Chained \intersect Retraction = {}
  /\ Content \intersect Act = {}
ASSUME TargetAssumption ==
  /\ Target \in [Revision \union Retraction -> Chained]
  /\ \A e \in Revision \union Retraction : Target[e] < e
ASSUME MergeBounds ==
  Chunk \in Nat \ {0} /\ MaxDocs \in Nat /\ MaxLost \in Nat /\ MaxCrashes \in Nat

NoAct == 0   \* redacted_by, or the registry's redaction_id, is NULL
NoRow == 0   \* no event_fts row

VARIABLES
  held,    \* held[d]: ids of d's remarks, revisions and retractions
  by,      \* by[d][e]: the redacted_by column of a held event
  acts,    \* acts[d]: the redaction events d holds
  reg,     \* reg[d][e]: the `redactions` registry
  fts,     \* fts[d][r]: the event whose text the event_fts row of r indexes
  dirty,   \* dirty[d]: the image has a sidecar_dirty row
  merging, \* merging[d]: what is left of the merge in progress, if any
  docs,    \* the documents ever written, all still in circulation
  stale,   \* history: remarks whose merge was cut off before its recompute
  crashes

vars == <<held, by, acts, reg, fts, dirty, merging, docs, stale, crashes>>
log  == <<held, by, acts, reg>>

-----------------------------------------------------------------------------
(* Values. *)

Copies == [event : Content, by : Act \union {NoAct}]
Acts   == [id : Act, victim : Chained]
Docs   == [events : SUBSET Copies, acts : SUBSET Acts]
NoMerge == [on |-> FALSE, events |-> {}, acts |-> {}, touched |-> {}]

TypeOK ==
  /\ held \in [Device -> SUBSET Content]
  /\ by \in [Device -> [Content -> Act \union {NoAct}]]
  /\ acts \in [Device -> SUBSET Acts]
  /\ reg \in [Device -> [Content -> Act \union {NoAct}]]
  /\ fts \in [Device -> [Remark -> Chained \union {NoRow}]]
  /\ dirty \in [Device -> BOOLEAN]
  /\ merging \in [Device -> [on : BOOLEAN, events : SUBSET Copies, acts : SUBSET Acts,
                             touched : SUBSET Content]]
  /\ docs \subseteq Docs
  /\ stale \in [Device -> SUBSET Remark]
  /\ crashes \in 0 .. MaxCrashes

Init ==
  /\ held = [d \in Device |-> {}]
  /\ by = [d \in Device |-> [e \in Content |-> NoAct]]
  /\ acts = [d \in Device |-> {}]
  /\ reg = [d \in Device |-> [e \in Content |-> NoAct]]
  /\ fts = [d \in Device |-> [r \in Remark |-> NoRow]]
  /\ dirty = [d \in Device |-> FALSE]
  /\ merging = [d \in Device |-> NoMerge]
  /\ docs = {}
  /\ stale = [d \in Device |-> {}]
  /\ crashes = 0

-----------------------------------------------------------------------------
(* Chains and folds, over the ids `h` a store holds and its markers `b`.     *)

\* The revision hops from e to its root, e and root included.
Line[e \in Chained] == IF e \in Remark THEN {e} ELSE {e} \union Line[Target[e]]

\* The remark e belongs to.
Root(e) == CHOOSE r \in Remark : r \in Line[e]

\* No hop of e dangles.
Resolves(h, e) == Line[e] \subseteq h

\* Where the walk along the hops ends, dangling or not.
Anchor(h, e) ==
  Min({a \in Line[e] : \A x \in Line[e] : x >= a => x \in h})

\* The anchor and the revisions whose hops reach it.
ChainOf(h, a) ==
  {v \in h \intersect Chained : a \in Line[v] /\ {x \in Line[v] : x >= a} \subseteq h}

Retracted(h, e) == \E x \in h \intersect Retraction : Target[x] = e

Live(h, b, e) == b[e] = NoAct /\ ~Retracted(h, e)

\* The text a remark is indexed under: that of its last live revision.
Body(h, b, r) ==
  IF Live(h, b, r)
  THEN Max({r} \union {v \in h \intersect Revision :
                         r \in Line[v] /\ Resolves(h, v) /\ Live(h, b, v)})
  ELSE NoRow

\* The event_fts row of a remark, as a rebuild from the events finds it.
Row(h, b, r) == IF r \in h THEN Body(h, b, r) ELSE NoRow

\* The registry row of an event, as a rebuild from the redactions finds it.
LeastAct(as, e) ==
  LET ids == {a.id : a \in {x \in as : x.victim = e}}
  IN IF ids = {} THEN NoAct ELSE Min(ids)

\* The chained event an event is, or is about.
Subject(e) == IF e \in Retraction THEN Target[e] ELSE e

\* The remarks and the image whose derived rows the events s concern.
Roots(h, s) == {Root(Subject(e)) : e \in {x \in s : Resolves(h, Subject(x))}}

\* Mutant: the image is marked only when its indexed text changed.
RecomputeIfSeen(d, roots) ==
  /\ fts' = [fts EXCEPT ![d] = [r \in Remark |->
                IF r \in roots THEN Body(held'[d], by'[d], r) ELSE fts[d][r]]]
  /\ dirty' = [dirty EXCEPT ![d] = @ \/ fts'[d] # fts[d]]
  /\ stale' = [stale EXCEPT ![d] = @ \ roots]

\* recompute_derived: fold the given roots anew and mark the image.
Recompute(d, roots) ==
  /\ fts' = [fts EXCEPT ![d] = [r \in Remark |->
                IF r \in roots THEN Body(held'[d], by'[d], r) ELSE fts[d][r]]]
  /\ dirty' = [dirty EXCEPT ![d] = @ \/ roots # {}]
  /\ stale' = [stale EXCEPT ![d] = @ \ roots]

Free(d) == ~merging[d].on

-----------------------------------------------------------------------------
(* Writes by a person. *)

\* append, with build_draft_event's rule that the target is here.
Append(d, e) ==
  /\ Free(d)
  /\ \A c \in Device : e \notin held[c]
  /\ e \notin Remark => Target[e] \in held[d]
  /\ held' = [held EXCEPT ![d] = @ \union {e}]
  /\ UNCHANGED <<by, acts, reg>>
  /\ Recompute(d, Roots(held'[d], {e}))
  /\ UNCHANGED <<merging, docs, crashes>>

\* The smaller redaction id wins.
Least(i, j) == IF i = NoAct \/ (j # NoAct /\ j < i) THEN j ELSE i

\* redact: each member of the local chain that is not scrubbed yet gets an act
\* of its own, a registry row and a marker.  Fresh ids, in the members' order.
Redact(d, e) ==
  /\ Free(d)
  /\ e \in held[d] \intersect Chained /\ by[d][e] = NoAct
  /\ LET anchor  == Anchor(held[d], e)
         victims == {v \in ChainOf(held[d], anchor) : by[d][v] = NoAct}
         minted  == {a.id : a \in UNION {acts[c] : c \in Device}}
     IN \E f \in [victims -> Act \ minted] :
          /\ \A v, w \in victims : v < w => f[v] < f[w]
          /\ acts' = [acts EXCEPT ![d] = @ \union {[id |-> f[v], victim |-> v] : v \in victims}]
          /\ reg' = [reg EXCEPT ![d] = [v \in Content |->
                       IF v \in victims THEN Least(@[v], f[v]) ELSE @[v]]]
          /\ by' = [by EXCEPT ![d] = [v \in Content |->
                       IF v \in victims THEN f[v] ELSE @[v]]]
          /\ UNCHANGED held
          /\ Recompute(d, Roots(held[d], {anchor}))
  /\ UNCHANGED <<merging, docs, crashes>>

-----------------------------------------------------------------------------
(* Documents. *)

\* image_doc: the events that resolve to the image, and the acts on them.
Snapshot(d) ==
  LET s == {e \in held[d] : Resolves(held[d], Subject(e))}
  IN [events |-> {[event |-> e, by |-> by[d][e]] : e \in s},
      acts   |-> {a \in acts[d] : a.victim \in s}]

\* A sidecar is written and the dirty row acknowledged (SidecarSync has the
\* steps in between).  Old copies of it stay in circulation.
Publish(d) ==
  /\ dirty[d]
  /\ Cardinality(docs \union {Snapshot(d)}) <= MaxDocs
  /\ docs' = docs \union {Snapshot(d)}
  /\ dirty' = [dirty EXCEPT ![d] = FALSE]
  /\ UNCHANGED <<log, fts, merging, stale, crashes>>

\* What a batch keeps of the copies offered: one copy of each event, a scrubbed
\* one if there is any, and of several the least; some may fail validation.
Wins(k, offered) ==
  \A l \in {x \in offered : x.event = k.event} :
    l.by # NoAct => k.by # NoAct /\ k.by <= l.by

Kept(offered) ==
  LET best == {k \in offered : Wins(k, offered)}
  IN {s \in SUBSET best : Cardinality(best \ s) <= MaxLost}

Begin(d, events, as) ==
  /\ Free(d)
  /\ merging' = [merging EXCEPT ![d] =
                   [on |-> TRUE, events |-> events, acts |-> as, touched |-> {}]]
  /\ UNCHANGED <<log, fts, dirty, docs, stale, crashes>>

\* A sidecar or an overflow document is ingested.
Ingest(d, k) == \E s \in Kept(k.events) : Begin(d, s, k.acts)

\* rebuild_from_sidecars merges the acts of all documents first, and then the
\* union of their events.
RebuildActs(d, ks) == ks # {} /\ Begin(d, {}, UNION {k.acts : k \in ks})

RebuildEvents(d, ks) ==
  /\ ks # {}
  /\ UNION {k.acts : k \in ks} \subseteq acts[d]
  /\ \E s \in Kept(UNION {k.events : k \in ks}) : Begin(d, s, {})

\* The ids a merge has yet to commit, and the first `Chunk` of them.
Ids(m) == {k.event : k \in m.events} \union {a.id : a \in m.acts}
FirstIds(m) == {i \in Ids(m) : Cardinality({j \in Ids(m) : j < i}) < Chunk}

\* Mutant: a redaction of what is not here is not registered.
RegisteredHere(d, as) ==
  [e \in Content |->
     LET ids == {a.id : a \in {x \in as : x.victim = e}}
     IN IF ids = {} \/ e \notin held[d] THEN reg[d][e] ELSE Least(reg[d][e], Min(ids))]

\* Step 1 of merge_chunk: the redactions of the chunk enter the registry first.
Registered(d, as) ==
  [e \in Content |->
     LET ids == {a.id : a \in {x \in as : x.victim = e}}
     IN IF ids = {} THEN reg[d][e] ELSE Least(reg[d][e], Min(ids))]

\* Step 2: they scrub their local victims.
Condemned(d, as, r) ==
  [e \in Content |->
     IF e \in held[d] /\ by[d][e] = NoAct /\ \E a \in as : a.victim = e
     THEN r[e] ELSE by[d][e]]

\* Mutant: a copy lands as it is.
LandedAsIs(d, s, r, b) ==
  [e \in Content |->
     IF (e \in held[d] /\ b[e] # NoAct) \/ ~\E k \in s : k.event = e THEN b[e]
     ELSE (CHOOSE k \in s : k.event = e).by]

\* Step 3: the rest, scrubbed on arrival if the registry has them.  A scrubbed
\* copy on either side wins; two scrubbed ones keep the local marker.
Landed(d, s, r, b) ==
  [e \in Content |->
     IF (e \in held[d] /\ b[e] # NoAct) \/ ~\E k \in s : k.event = e THEN b[e]
     ELSE LET k == CHOOSE k \in s : k.event = e
          IN IF k.by = NoAct THEN r[e] ELSE k.by]

\* Mutant: duplicates need no recompute.
TouchedNew(d, s, as) ==
  {k.event : k \in {x \in s : x.event \notin held[d]}}
  \union {a.victim : a \in as \ acts[d]}

\* Mutant: the redactions of a merge are no news to the image.
TouchedEvents(d, s, as) == {k.event : k \in s}

\* merge_chunk's `touched`: every event of the chunk, known before or not, and
\* the events its redactions are about.
Touched(d, s, as) == {k.event : k \in s} \union {a.victim : a \in as}

\* One transaction of a merge.
MergeChunk(d) ==
  LET m  == merging[d]
      s  == {k \in m.events : k.event \in FirstIds(m)}
      as == {a \in m.acts : a.id \in FirstIds(m)}
      r  == Registered(d, as)
      b  == Landed(d, s, r, Condemned(d, as, r))
  IN /\ m.on /\ Ids(m) # {}
     /\ held' = [held EXCEPT ![d] = @ \union {k.event : k \in s}]
     /\ acts' = [acts EXCEPT ![d] = @ \union as]
     /\ reg' = [reg EXCEPT ![d] = r]
     /\ by' = [by EXCEPT ![d] = b]
     /\ IF Cardinality(Ids(m)) <= Chunk /\ m.touched = {}
        THEN \* a small merge: the recompute is in the same transaction
             /\ Recompute(d, Roots(held'[d], Touched(d, s, as)))
             /\ merging' = [merging EXCEPT ![d] = NoMerge]
        ELSE /\ merging' = [merging EXCEPT ![d] =
                  [on |-> TRUE, events |-> m.events \ s, acts |-> m.acts \ as,
                   touched |-> m.touched \union Touched(d, s, as)]]
             /\ UNCHANGED <<fts, dirty, stale>>
     /\ UNCHANGED <<docs, crashes>>

\* The last transaction of a large merge, or an empty one.
MergeEnd(d) ==
  /\ merging[d].on /\ Ids(merging[d]) = {}
  /\ UNCHANGED log
  /\ Recompute(d, Roots(held[d], merging[d].touched))
  /\ merging' = [merging EXCEPT ![d] = NoMerge]
  /\ UNCHANGED <<docs, crashes>>

\* rebuild_derived: everything that is not truth is recomputed from it.
RebuildDerived(d) ==
  /\ Free(d)
  /\ fts' = [fts EXCEPT ![d] = [r \in Remark |-> Row(held[d], by[d], r)]]
  /\ reg' = [reg EXCEPT ![d] = [e \in Content |-> LeastAct(acts[d], e)]]
  /\ UNCHANGED <<held, by, acts, dirty, merging, docs, stale, crashes>>

\* The process dies with a merge under way: what it committed stays.
Crash(d) ==
  /\ merging[d].on /\ crashes < MaxCrashes
  /\ crashes' = crashes + 1
  /\ merging' = [merging EXCEPT ![d] = NoMerge]
  /\ stale' = [stale EXCEPT ![d] = @ \union Roots(held[d], merging[d].touched)]
  /\ UNCHANGED <<log, fts, dirty, docs>>

Next ==
  \E d \in Device :
    \/ \E e \in Content : Append(d, e)
    \/ \E e \in Chained : Redact(d, e)
    \/ Publish(d)
    \/ \E k \in docs : Ingest(d, k)
    \/ \E ks \in SUBSET docs : RebuildActs(d, ks) \/ RebuildEvents(d, ks)
    \/ MergeChunk(d) \/ MergeEnd(d)
    \/ RebuildDerived(d)
    \/ Crash(d)

Spec == Init /\ [][Next]_vars

-----------------------------------------------------------------------------
(* Correctness. *)

Scrubbed(d) == {e \in held[d] : by[d][e] # NoAct}

\* Redaction supremacy (I8): no event that the registry condemns, or that any
\* redaction here is about, shows its content, not even while a merge is half
\* committed or after one was cut off.
Supreme ==
  \A d \in Device, e \in Content :
    e \in held[d] /\ (reg[d][e] # NoAct \/ \E a \in acts[d] : a.victim = e)
      => by[d][e] # NoAct

\* Derived = fold (I7): between merges, what each write and merge kept up to date
\* is what a rebuild from the truth tables would give, unless a kill cut off
\* the recompute of that remark and nothing has touched it since.
DerivedIsFold ==
  \A d \in Device : Free(d) =>
    /\ \A r \in Remark \ stale[d] : fts[d][r] = Row(held[d], by[d], r)
    /\ \A e \in Content : reg[d][e] = LeastAct(acts[d], e)

\* Device d has the redaction behind each husk it holds.
HasActs(d) == \A e \in Scrubbed(d) : \E a \in acts[d] : a.victim = e

\* Merge is a set (I6): devices that ended up with the same events, in whatever
\* order and split, show the same ones and index the same text; no kill cut off
\* a merge there, and no document brought a husk without its redaction.
Convergent ==
  \A c, d \in Device :
    /\ Free(c) /\ Free(d) /\ stale[c] = {} /\ stale[d] = {}
    /\ HasActs(c) /\ HasActs(d)
    /\ held[c] = held[d] /\ acts[c] = acts[d]
    => Scrubbed(c) = Scrubbed(d) /\ fts[c] = fts[d]

\* Between merges, whatever a journal gained since its sidecar was last written
\* keeps the image marked dirty, unless a kill cut off the merge it came with.
UnpublishedIsDirty ==
  \A d \in Device :
    Free(d) /\ ~dirty[d] /\ stale[d] = {} =>
      Snapshot(d) \in docs \union {[events |-> {}, acts |-> {}]}

\* What the store says to the rest of the program: the events here, and which of
\* all events have lost their content, or will when they come.
Told(events, as) ==
  [ids   |-> {k.event : k \in events},
   husks |-> {k.event : k \in {x \in events : x.by # NoAct}} \union {a.victim : a \in as}]

Journal ==
  [d \in Device |->
     [ids   |-> held[d],
      husks |-> Scrubbed(d) \union {e \in Content \ held[d] : reg[d][e] # NoAct}]]

Shared ==
  [ids   |-> UNION {Told(k.events, k.acts).ids : k \in docs},
   husks |-> UNION {Told(k.events, k.acts).husks : k \in docs}]

Promise == INSTANCE EventJournal
             WITH Event <- Content, journal <- Journal, shared <- Shared

\* Each write, merge, chunk of a merge, rebuild and kill is a step of EventJournal,
\* or changes nothing it sees: journals grow by union and redactions stick.
Implements == Promise!Spec

-----------------------------------------------------------------------------
(* What the documents say, and the code does not do. *)

\* EVENTS section 8: "Post-merge database state is a pure function of the union
\* of event sets".  A sidecar written between two commits of a large merge can
\* carry a husk whose redaction is in a later chunk.
ShownByUnion ==
  \A c, d \in Device :
    Free(c) /\ Free(d) /\ held[c] = held[d] /\ acts[c] = acts[d] /\ crashes = 0
      => Scrubbed(c) = Scrubbed(d)

\* The same sentence of the markers: devices with the same events also agree on
\* the act that scrubbed each.
MarkersAgree ==
  \A c, d \in Device :
    Free(c) /\ Free(d) /\ held[c] = held[d] /\ acts[c] = acts[d] => by[c] = by[d]

\* EVENTS section 3.6: "redacting any member of a revision chain scrubs the entire
\* chain (root + all revisions)".
ChainScrubbed ==
  \A d \in Device : Free(d) =>
    \A v \in held[d] \intersect Chained :
      Resolves(held[d], v) /\ by[d][Root(v)] # NoAct => by[d][v] # NoAct
=============================================================================
