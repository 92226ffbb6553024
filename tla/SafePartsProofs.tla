-------------------------- MODULE SafePartsProofs --------------------------
(***************************************************************************)
(* Proofs about the machines of SafeParts, each of its own specification   *)
(* and for every value of its constants.                                   *)
(***************************************************************************)
EXTENDS SafeParts, Sequences, FiniteSetTheorems, TLAPS

-----------------------------------------------------------------------------
(* The collections file (Collections). *)

\* What a flush under way in flusher f knows: its generation; that the document it
\* is about to write, or the file it has just written, is the database, if the
\* generation still stands and no command waits to mark the writer.
Flushing(f) ==
  /\ flush[f].at # "idle" =>
       opened /\ enabled /\ dirty /\ flush[f].gen \in Nat /\ flush[f].gen <= gen
  /\ flush[f].at = "write" /\ flush[f].gen = gen /\ unmarked = 0 => flush[f].doc = base
  /\ flush[f].at = "clear" /\ flush[f].gen = gen /\ unmarked = 0 => mirror = base

MirrorTypes ==
  /\ gen \in Nat /\ unmarked \in Nat
  /\ opened \in BOOLEAN /\ dirty \in BOOLEAN /\ enabled \in BOOLEAN
  /\ flush = [f \in Mirror!Flusher |-> flush[f]]
  /\ \A f \in Mirror!Flusher : flush[f].at \in {"idle", "read", "write", "clear"}

\* One flush at a time.
OneFlush ==
  \A f, g \in Mirror!Flusher : flush[f].at # "idle" /\ flush[g].at # "idle" => f = g

MirrorInv ==
  /\ MirrorTypes /\ OneFlush
  /\ \A f \in Mirror!Flusher : Flushing(f)
  /\ CleanIsWritten

LEMMA MirrorInit == Mirror!Init => MirrorInv
<1> SUFFICES ASSUME Mirror!Init PROVE MirrorInv
  OBVIOUS
<1>1. \A f \in Mirror!Flusher : flush[f].at = "idle"
  BY DEF Mirror!Init, Mirror!Nobody
<1>2. flush = [f \in Mirror!Flusher |-> flush[f]]
  BY DEF Mirror!Init, Mirror!Nobody
<1>3. MirrorTypes
  BY <1>1, <1>2 DEF Mirror!Init, MirrorTypes
<1>4. OneFlush /\ \A f \in Mirror!Flusher : Flushing(f)
  BY <1>1 DEF OneFlush, Flushing
<1>5. CleanIsWritten
  BY DEF CleanIsWritten, Mirror!CleanIsWritten, Mirror!Init
<1> QED
  BY <1>3, <1>4, <1>5 DEF MirrorInv

\* A command changes the database, and the writer is not marked yet.
LEMMA CommandMirrors ==
  ASSUME MirrorInv, NEW doc, Mirror!Command(doc)
  PROVE  MirrorInv'
<1>1. /\ unmarked' = unmarked + 1 /\ unmarked' \in Nat /\ unmarked' # 0
      /\ UNCHANGED <<mirror, opened, dirty, gen, enabled, flush>>
  BY DEF Mirror!Command, MirrorInv, MirrorTypes
<1> QED
  BY <1>1 DEF MirrorInv, MirrorTypes, OneFlush, Flushing, CleanIsWritten, Mirror!CleanIsWritten

LEMMA MarkMirrors ==
  ASSUME MirrorInv, Mirror!Mark
  PROVE  MirrorInv'
<1>1. /\ gen' = gen + 1 /\ gen' \in Nat /\ unmarked' \in Nat /\ dirty' = TRUE
      /\ UNCHANGED <<base, mirror, opened, enabled, flush>>
  BY DEF Mirror!Mark, MirrorInv, MirrorTypes
<1>2. ASSUME NEW f \in Mirror!Flusher PROVE Flushing(f)'
  <2>1. flush[f].at # "idle" => flush[f].gen \in Nat /\ flush[f].gen <= gen
    BY DEF MirrorInv, Flushing
  <2>2. gen \in Nat
    BY DEF MirrorInv, MirrorTypes
  <2> DEFINE g == gen'
  <2>3. flush[f].at # "idle" => flush[f].gen <= g /\ flush[f].gen # g
    BY <1>1, <2>1, <2>2
  <2>4. flush[f].at # "idle" => opened /\ enabled
    BY DEF MirrorInv, Flushing
  <2> QED
    BY <1>1, <2>1, <2>3, <2>4 DEF Flushing
<1> QED
  BY <1>1, <1>2 DEF MirrorInv, MirrorTypes, OneFlush, CleanIsWritten, Mirror!CleanIsWritten

LEMMA FlushMirrors ==
  ASSUME MirrorInv, NEW f \in Mirror!Flusher,
         \/ Mirror!FlushBegins(f) \/ Mirror!FlushReads(f)
         \/ Mirror!FlushWrites(f) \/ Mirror!FlushClears(f)
  PROVE  MirrorInv'
<1>1. /\ MirrorTypes /\ OneFlush /\ CleanIsWritten /\ Flushing(f)
      /\ UNCHANGED <<base, opened, unmarked, gen, enabled>>
  BY DEF MirrorInv, Mirror!FlushBegins, Mirror!FlushReads, Mirror!FlushWrites,
         Mirror!FlushClears, Mirror!flushOnly
<1>2. \A g \in Mirror!Flusher : g # f => flush[g].at = "idle"
  BY DEF MirrorInv, OneFlush, Mirror!FlushBegins, Mirror!FlushReads, Mirror!FlushWrites,
         Mirror!FlushClears
\* What each step leaves to be shown: the flush of f, and the clean writer.
<1>3. ASSUME NEW s, flush' = [flush EXCEPT ![f] = s], s.at \in {"idle", "read", "write", "clear"},
             dirty' \in BOOLEAN, Flushing(f)', CleanIsWritten'
      PROVE  MirrorInv'
  <2>1. flush'[f] = s /\ \A g \in Mirror!Flusher : g # f => flush'[g] = flush[g]
    BY <1>1, <1>3 DEF MirrorTypes
  <2>2. flush' = [g \in Mirror!Flusher |-> flush'[g]]
    BY <1>1, <1>3 DEF MirrorTypes
  <2>3. MirrorTypes'
    BY <1>1, <1>3, <2>1, <2>2 DEF MirrorTypes
  <2>4. OneFlush'
    BY <1>2, <2>1 DEF OneFlush
  <2>5. \A g \in Mirror!Flusher : Flushing(g)'
    BY <1>2, <1>3, <2>1 DEF Flushing
  <2> QED
    BY <1>3, <2>3, <2>4, <2>5 DEF MirrorInv
<1>4. CASE Mirror!FlushBegins(f)
  <2> DEFINE s == [at |-> "read", gen |-> gen]
  <2>1. flush' = [flush EXCEPT ![f] = s] /\ UNCHANGED <<mirror, dirty>> /\ opened /\ dirty /\ enabled
    BY <1>4 DEF Mirror!FlushBegins, Mirror!Step
  <2>2. flush'[f] = s /\ s.at = "read" /\ s.gen = gen
    BY <1>1, <2>1 DEF MirrorTypes
  <2> HIDE DEF s
  <2>3. Flushing(f)'
    BY <1>1, <2>1, <2>2 DEF Flushing, MirrorTypes
  <2>4. CleanIsWritten'
    BY <1>1, <2>1 DEF CleanIsWritten, Mirror!CleanIsWritten
  <2> QED
    BY <1>1, <1>3, <2>1, <2>2, <2>3, <2>4 DEF MirrorTypes
<1>5. CASE Mirror!FlushReads(f)
  <2> DEFINE s == [at |-> "write", gen |-> flush[f].gen, doc |-> base]
  <2>1. flush' = [flush EXCEPT ![f] = s] /\ UNCHANGED <<mirror, dirty>> /\ flush[f].at = "read"
    BY <1>5 DEF Mirror!FlushReads, Mirror!Step
  <2>2. flush'[f] = s /\ s.at = "write" /\ s.gen = flush[f].gen /\ s.doc = base
    BY <1>1, <2>1 DEF MirrorTypes
  <2> HIDE DEF s
  <2>3. Flushing(f)'
    BY <1>1, <2>1, <2>2 DEF Flushing, MirrorTypes
  <2>4. CleanIsWritten'
    BY <1>1, <2>1 DEF CleanIsWritten, Mirror!CleanIsWritten
  <2> QED
    BY <1>1, <1>3, <2>1, <2>2, <2>3, <2>4 DEF MirrorTypes
<1>6. CASE Mirror!FlushWrites(f)
  <2>1. flush[f].at = "write" /\ dirty' = dirty /\ dirty
    BY <1>1, <1>6 DEF Mirror!FlushWrites, Flushing
  <2>2. CleanIsWritten'
    BY <2>1 DEF CleanIsWritten, Mirror!CleanIsWritten
  <2>3. CASE mirror' = flush[f].doc /\ Mirror!Step(f, [at |-> "clear", gen |-> flush[f].gen])
    <3> DEFINE s == [at |-> "clear", gen |-> flush[f].gen]
    <3>1. flush' = [flush EXCEPT ![f] = s]
      BY <2>3 DEF Mirror!Step
    <3>2. flush'[f] = s /\ s.at = "clear" /\ s.gen = flush[f].gen
      BY <1>1, <3>1 DEF MirrorTypes
    <3> HIDE DEF s
    <3>3. Flushing(f)'
      BY <1>1, <2>1, <2>3, <3>2 DEF Flushing
    <3> QED
      BY <1>1, <1>3, <2>1, <2>2, <3>1, <3>2, <3>3 DEF MirrorTypes
  <2>4. CASE Mirror!Step(f, [at |-> "idle"])
    <3> DEFINE s == [at |-> "idle"]
    <3>1. flush' = [flush EXCEPT ![f] = s]
      BY <2>4 DEF Mirror!Step
    <3>2. flush'[f] = s /\ s.at = "idle"
      BY <1>1, <3>1 DEF MirrorTypes
    <3> HIDE DEF s
    <3>3. Flushing(f)'
      BY <3>2 DEF Flushing
    <3> QED
      BY <1>1, <1>3, <2>1, <2>2, <3>1, <3>2, <3>3 DEF MirrorTypes
  <2> QED
    BY <1>6, <2>3, <2>4 DEF Mirror!FlushWrites
<1>7. CASE Mirror!FlushClears(f)
  <2> DEFINE s == [at |-> "idle"]
  <2>1. /\ flush' = [flush EXCEPT ![f] = s] /\ flush[f].at = "clear" /\ mirror' = mirror
        /\ dirty' = IF gen = flush[f].gen THEN FALSE ELSE dirty
    BY <1>7 DEF Mirror!FlushClears, Mirror!Step
  <2>2. flush'[f] = s /\ s.at = "idle"
    BY <1>1, <2>1 DEF MirrorTypes
  <2> HIDE DEF s
  <2>3. Flushing(f)'
    BY <2>2 DEF Flushing
  <2>4. CleanIsWritten'
    BY <1>1, <2>1 DEF Flushing, CleanIsWritten, Mirror!CleanIsWritten
  <2> QED
    BY <1>1, <1>3, <2>1, <2>2, <2>3, <2>4 DEF MirrorTypes
<1> QED
  BY <1>4, <1>5, <1>6, <1>7

LEMMA OpenMirrors ==
  ASSUME MirrorInv, Mirror!Open
  PROVE  MirrorInv'
<1>1. /\ ~opened /\ opened' = TRUE /\ unmarked' = 0 /\ flush' = flush
      /\ \/ enabled' = FALSE /\ dirty' = FALSE /\ gen' = 0
         \/ /\ enabled' = TRUE /\ gen' \in {1, 2}
            /\ \/ mirror' = base' /\ dirty' = FALSE
               \/ dirty' = TRUE
  BY DEF Mirror!Open
<1>2. \A f \in Mirror!Flusher : flush[f].at = "idle"
  BY <1>1 DEF MirrorInv, MirrorTypes, Flushing
<1>3. MirrorTypes'
  <2>1. gen' \in Nat /\ unmarked' \in Nat
    BY <1>1
  <2>2. opened' \in BOOLEAN /\ dirty' \in BOOLEAN /\ enabled' \in BOOLEAN
    BY <1>1
  <2>3. flush' = [f \in Mirror!Flusher |-> flush'[f]]
    BY <1>1 DEF MirrorInv, MirrorTypes
  <2>4. \A f \in Mirror!Flusher : flush'[f].at \in {"idle", "read", "write", "clear"}
    BY <1>1, <1>2
  <2> QED
    BY <2>1, <2>2, <2>3, <2>4 DEF MirrorTypes
<1>4. OneFlush' /\ \A f \in Mirror!Flusher : Flushing(f)'
  BY <1>1, <1>2 DEF OneFlush, Flushing
<1>5. CleanIsWritten'
  BY <1>1 DEF CleanIsWritten, Mirror!CleanIsWritten
<1> QED
  BY <1>3, <1>4, <1>5 DEF MirrorInv

LEMMA CloseMirrors ==
  ASSUME MirrorInv, Mirror!Close
  PROVE  MirrorInv'
<1>1. /\ opened' = FALSE /\ flush' = Mirror!Nobody /\ unmarked' = 0 /\ dirty' = FALSE
      /\ gen' = 0 /\ enabled' = enabled
  BY DEF Mirror!Close
<1>2. /\ \A f \in Mirror!Flusher : flush'[f].at = "idle"
      /\ flush' = [f \in Mirror!Flusher |-> flush'[f]]
  BY <1>1 DEF Mirror!Nobody
<1>3. MirrorTypes'
  <2>1. gen' \in Nat /\ unmarked' \in Nat
    BY <1>1
  <2>2. opened' \in BOOLEAN /\ dirty' \in BOOLEAN /\ enabled' \in BOOLEAN
    BY <1>1 DEF MirrorInv, MirrorTypes
  <2>3. \A f \in Mirror!Flusher : flush'[f].at \in {"idle", "read", "write", "clear"}
    BY <1>2
  <2> QED
    BY <1>2, <2>1, <2>2, <2>3 DEF MirrorTypes
<1>4. OneFlush' /\ \A f \in Mirror!Flusher : Flushing(f)'
  BY <1>2 DEF OneFlush, Flushing
<1>5. CleanIsWritten'
  BY <1>1 DEF CleanIsWritten, Mirror!CleanIsWritten
<1> QED
  BY <1>3, <1>4, <1>5 DEF MirrorInv

LEMMA MirrorStep ==
  ASSUME MirrorInv, [Mirror!Next]_mirrorVars
  PROVE  MirrorInv'
<1>1. CASE UNCHANGED <<base, mirror, opened, unmarked, dirty, gen, enabled, flush>>
  BY <1>1 DEF MirrorInv, MirrorTypes, OneFlush, Flushing, CleanIsWritten, Mirror!CleanIsWritten
<1>2. CASE UNCHANGED mirrorVars \/ Mirror!Elapse
  BY <1>1, <1>2 DEF mirrorVars, Mirror!Elapse
<1>3. CASE Mirror!AddImage \/ Mirror!RemoveImage \/ Mirror!Import
           \/ \E n \in Name : Mirror!Rename(n)
  BY <1>3, CommandMirrors DEF Mirror!AddImage, Mirror!RemoveImage, Mirror!Import, Mirror!Rename
<1>4. CASE Mirror!Outside
  <2>1. /\ ~opened /\ UNCHANGED <<base, opened, unmarked, dirty, gen, enabled, flush>>
    BY <1>4 DEF Mirror!Outside
  <2> QED
    BY <2>1 DEF MirrorInv, MirrorTypes, OneFlush, Flushing, CleanIsWritten, Mirror!CleanIsWritten
<1> QED
  BY <1>2, <1>3, <1>4, MarkMirrors, OpenMirrors, CloseMirrors, FlushMirrors DEF Mirror!Next

LEMMA MirrorInvariant == Mirror!Spec => []MirrorInv
<1>1. MirrorInv /\ [Mirror!Next]_(Mirror!collectionVars) => MirrorInv'
  BY MirrorStep DEF mirrorVars, Mirror!collectionVars
<1> QED
  BY <1>1, MirrorInit, PTL DEF Mirror!Spec

\* "A mutation racing the file write is never silently dropped"
\* (collections/mod.rs): with any number of names, commands, slips and documents
\* from outside, a clean writer means that the file is the database.
THEOREM CollectionsMirrored == Mirror!Spec => []CleanIsWritten
<1>1. MirrorInv => CleanIsWritten
  BY DEF MirrorInv
<1> QED
  BY <1>1, MirrorInvariant, PTL

-----------------------------------------------------------------------------
(* Queues of records. *)

\* The queue q has a job j; it has no job twice.
Has(q, j) == \E i \in DOMAIN q : q[i].id = j
Distinct(q) == \A i, k \in DOMAIN q : q[i].id = q[k].id => i = k

LEMMA QTail ==
  ASSUME NEW T, NEW q \in Seq(T), q # <<>>
  PROVE  /\ Head(q) \in T /\ Tail(q) \in Seq(T)
         /\ \A i \in DOMAIN Tail(q) : \E k \in DOMAIN q : Tail(q)[i] = q[k]
         /\ \E k \in DOMAIN q : Head(q) = q[k]
         /\ \A j : Has(q, j) <=> Head(q).id = j \/ Has(Tail(q), j)
         /\ Distinct(q) => Distinct(Tail(q)) /\ ~Has(Tail(q), Head(q).id)
<1> DEFINE p == Tail(q)
<1>1. Head(q) \in T /\ p \in Seq(T)
  OBVIOUS
<1>2. /\ Len(q) \in Nat /\ Len(q) > 0
      /\ DOMAIN q = 1..Len(q) /\ DOMAIN p = 1..(Len(q) - 1)
  OBVIOUS
<1>3. Head(q) = q[1] /\ \A i \in 1..(Len(q) - 1) : p[i] = q[i + 1]
  BY <1>2
<1>4. 1 \in DOMAIN q /\ \A i \in DOMAIN p : i \in Nat /\ i + 1 \in DOMAIN q /\ i + 1 # 1 /\ p[i] = q[i + 1]
  BY <1>2, <1>3
<1>5. ASSUME NEW i \in DOMAIN q, i # 1
      PROVE  i - 1 \in DOMAIN p /\ p[i - 1] = q[i]
  <2>1. i - 1 \in 1..(Len(q) - 1) /\ (i - 1) + 1 = i
    BY <1>2, <1>5
  <2>2. p[i - 1] = q[(i - 1) + 1]
    BY <1>3, <2>1
  <2> QED
    BY <1>2, <2>1, <2>2
<1> HIDE DEF p
<1>6. ASSUME NEW j
      PROVE  Has(q, j) <=> Head(q).id = j \/ Has(p, j)
  <2>1. Has(q, j) => Head(q).id = j \/ Has(p, j)
    BY <1>3, <1>4, <1>5, ZenonT(30) DEF Has
  <2>2. Has(p, j) => Has(q, j)
    BY <1>4 DEF Has
  <2>3. Has(q, Head(q).id)
    BY <1>3, <1>4 DEF Has
  <2> QED
    BY <2>1, <2>2, <2>3
<1>7. ASSUME Distinct(q)
      PROVE  Distinct(p) /\ ~Has(p, Head(q).id)
  <2>1. ASSUME NEW i \in DOMAIN p, NEW k \in DOMAIN p, p[i].id = p[k].id
        PROVE  i = k
    <3>1. i + 1 = k + 1
      BY <1>4, <1>7, <2>1 DEF Distinct
    <3> QED
      BY <1>4, <3>1
  <2>2. ASSUME NEW i \in DOMAIN p
        PROVE  p[i].id # Head(q).id
    BY <1>3, <1>4, <1>7 DEF Distinct
  <2> QED
    BY <2>1, <2>2 DEF Distinct, Has
<1> QED
  BY <1>1, <1>3, <1>4, <1>6, <1>7 DEF p

LEMMA QPush ==
  ASSUME NEW T, NEW q \in Seq(T), NEW x \in T
  PROVE  /\ <<x>> \o q \in Seq(T)
         /\ \A i \in DOMAIN (<<x>> \o q) :
              (<<x>> \o q)[i] = x \/ \E k \in DOMAIN q : (<<x>> \o q)[i] = q[k]
         /\ \A j : Has(<<x>> \o q, j) <=> x.id = j \/ Has(q, j)
         /\ Distinct(q) /\ ~Has(q, x.id) => Distinct(<<x>> \o q)
<1> DEFINE p == <<x>> \o q
<1>1. p \in Seq(T)
  OBVIOUS
<1>2. Len(q) \in Nat /\ DOMAIN q = 1..Len(q) /\ DOMAIN p = 1..(Len(q) + 1)
  OBVIOUS
<1>3. \A i \in 1..(Len(q) + 1) : p[i] = IF i = 1 THEN x ELSE q[i - 1]
  BY <1>2
<1> HIDE DEF p
<1>4. /\ 1 \in DOMAIN p /\ p[1] = x
      /\ \A i \in DOMAIN p : i \in Nat /\ (i # 1 => i - 1 \in DOMAIN q /\ p[i] = q[i - 1])
  BY <1>2, <1>3
<1>5. ASSUME NEW i \in DOMAIN q
      PROVE  i + 1 \in DOMAIN p /\ p[i + 1] = q[i]
  BY <1>2, <1>3
<1>6. \A j : Has(p, j) <=> x.id = j \/ Has(q, j)
  BY <1>4, <1>5 DEF Has
<1>7. ASSUME Distinct(q), ~Has(q, x.id), NEW i \in DOMAIN p, NEW k \in DOMAIN p, p[i].id = p[k].id
      PROVE  i = k
  <2>1. CASE i = 1 \/ k = 1
    BY <1>4, <1>7, <2>1 DEF Has
  <2>2. CASE i # 1 /\ k # 1
    <3>1. i - 1 = k - 1
      BY <1>4, <1>7, <2>2 DEF Distinct
    <3> QED
      BY <1>4, <3>1
  <2> QED
    BY <2>1, <2>2
<1>8. \A i \in DOMAIN p : p[i] = x \/ \E k \in DOMAIN q : p[i] = q[k]
  BY <1>4
<1>9. Distinct(q) /\ ~Has(q, x.id) => Distinct(p)
  BY <1>7 DEF Distinct
<1> QED
  BY <1>1, <1>6, <1>8, <1>9 DEF p

LEMMA QAppend ==
  ASSUME NEW T, NEW q \in Seq(T), NEW x \in T
  PROVE  /\ Append(q, x) \in Seq(T)
         /\ \A i \in DOMAIN Append(q, x) :
              Append(q, x)[i] = x \/ \E k \in DOMAIN q : Append(q, x)[i] = q[k]
         /\ \A j : Has(Append(q, x), j) <=> x.id = j \/ Has(q, j)
         /\ Distinct(q) /\ ~Has(q, x.id) => Distinct(Append(q, x))
<1> DEFINE p == Append(q, x)
<1>1. p \in Seq(T)
  OBVIOUS
<1>2. /\ Len(q) \in Nat /\ DOMAIN q = 1..Len(q) /\ DOMAIN p = 1..(Len(q) + 1)
      /\ \A i \in 1..(Len(q) + 1) : p[i] = IF i = Len(q) + 1 THEN x ELSE q[i]
  OBVIOUS
<1> HIDE DEF p
<1>3. \A j : Has(p, j) <=> x.id = j \/ Has(q, j)
  BY <1>2 DEF Has
<1>4. Distinct(q) /\ ~Has(q, x.id) => Distinct(p)
  BY <1>2 DEF Has, Distinct
<1>5. \A i \in DOMAIN p : p[i] = x \/ \E k \in DOMAIN q : p[i] = q[k]
  BY <1>2
<1> QED
  BY <1>1, <1>3, <1>4, <1>5 DEF p

-----------------------------------------------------------------------------
(* The pass scheduler (PassScheduler).  What a tick works on is a record st of *)
(* the scheduler's own record, the wire, the answers and the losses.           *)

InteractiveJob == [id : Scheduler!Job, retried : BOOLEAN]
BackgroundJob == [id : Scheduler!Job, model : Model, retried : BOOLEAN]
RunningJob == [id : Scheduler!Job, model : Model, retried : BOOLEAN, cancelling : BOOLEAN]

\* The slot x has the job j.
At(x, j) == x # Nothing /\ x.id = j

Shaped(st) ==
  /\ st = [s |-> st.s, w |-> st.w, t |-> st.t, l |-> st.l]
  /\ st.s = [ready |-> st.s.ready, iq |-> st.s.iq, ia |-> st.s.ia, bq |-> st.s.bq,
             ba |-> st.s.ba, deadline |-> st.s.deadline, mic |-> st.s.mic,
             unpause |-> st.s.unpause, hold |-> st.s.hold]

Filled(st) ==
  /\ st.s.iq \in InteractiveJob \cup {Nothing}
  /\ st.s.ia \in InteractiveJob \cup {Nothing}
  /\ st.s.ba \in RunningJob \cup {Nothing}
  /\ st.s.bq \in Seq(BackgroundJob) /\ Distinct(st.s.bq)

Recorded(st) ==
  /\ DOMAIN st.w = Scheduler!Job
  /\ st.t \in [Scheduler!Job -> Nat]
  /\ st.l \in [Scheduler!Job -> Nat]

\* Exactly one of five.
OneOf(a, b, c, d, e) ==
  /\ a \/ b \/ c \/ d \/ e
  /\ ~(a /\ b) /\ ~(a /\ c) /\ ~(a /\ d) /\ ~(a /\ e)
  /\ ~(b /\ c) /\ ~(b /\ d) /\ ~(b /\ e)
  /\ ~(c /\ d) /\ ~(c /\ e) /\ ~(d /\ e)

\* A job submitted is in one slot, queued or answered; one to come is nowhere.
Placed(st, n) ==
  \A j \in Scheduler!Job :
    /\ j < n => OneOf(At(st.s.iq, j), At(st.s.ia, j), At(st.s.ba, j), Has(st.s.bq, j), st.t[j] = 1)
    /\ ~(j < n) => ~At(st.s.iq, j) /\ ~At(st.s.ia, j) /\ ~At(st.s.ba, j) /\ ~Has(st.s.bq, j)
    /\ ~(j < n) => st.t[j] = 0 /\ st.l[j] = 0
    /\ st.t[j] \in {0, 1}

\* A request is on the wire for the jobs that run.
Wired(st) ==
  \A j \in Scheduler!Job : st.w[j] # Nothing <=> At(st.s.ia, j) \/ At(st.s.ba, j)

\* The connection of a job that is not answered has been lost only if its retry
\* is taken.
SpentRetry(x) == IF x.retried THEN 1 ELSE 0
Bounded(st) ==
  /\ st.s.iq # Nothing => st.l[st.s.iq.id] <= SpentRetry(st.s.iq)
  /\ st.s.ia # Nothing => st.l[st.s.ia.id] <= SpentRetry(st.s.ia)
  /\ st.s.ba # Nothing => st.l[st.s.ba.id] <= SpentRetry(st.s.ba)
  /\ \A i \in DOMAIN st.s.bq : st.l[st.s.bq[i].id] <= SpentRetry(st.s.bq[i])
  /\ \A j \in Scheduler!Job : st.l[j] <= 2

Good(st, n) ==
  /\ Shaped(st) /\ Filled(st) /\ Recorded(st) /\ Placed(st, n) /\ Wired(st) /\ Bounded(st)

LEMMA NothingIsNoJob ==
  /\ Nothing \notin InteractiveJob
  /\ Nothing \notin RunningJob
  /\ Nothing \notin {"prompt", "stream", "ok", "error", "lost"}
<1>1. Scheduler!Job \subseteq Nat
  BY DEF Scheduler!Job
<1> QED
  BY <1>1, SchedulerAssumption DEF InteractiveJob, RunningJob

LEMMA CollectInteractiveKeeps ==
  ASSUME NEW st, NEW n \in Nat, Good(st, n)
  PROVE  Good(Scheduler!CollectInteractive(st), n)
<1> DEFINE a == st.s.ia
           r == Scheduler!CollectInteractive(st)
           retry == st.w[a.id] = "lost" /\ ~a.retried /\ st.s.iq = Nothing
           again == [id |-> a.id, retried |-> TRUE]
<1>1. CASE ~Scheduler!Arrived(st, a)
  BY <1>1 DEF Scheduler!CollectInteractive
<1>2. CASE Scheduler!Arrived(st, a)
  <2>1. a # Nothing /\ a \in InteractiveJob /\ a.id \in Scheduler!Job /\ a.retried \in BOOLEAN
    BY <1>2 DEF Scheduler!Arrived, Good, Filled, InteractiveJob
  <2>2. again \in InteractiveJob /\ again # Nothing /\ again.id = a.id /\ SpentRetry(again) = 1
    <3>1. again \in InteractiveJob /\ again.id = a.id /\ again.retried
      BY <2>1 DEF InteractiveJob
    <3> HIDE DEF again
    <3> QED
      BY <3>1, NothingIsNoJob DEF SpentRetry
  <2> HIDE DEF again
  <2>3. /\ r.s = [st.s EXCEPT !.ia = Nothing, !.iq = IF retry THEN again ELSE st.s.iq]
        /\ r.w = [st.w EXCEPT ![a.id] = Nothing]
        /\ r.t = IF retry THEN st.t ELSE [st.t EXCEPT ![a.id] = st.t[a.id] + 1]
        /\ r.l = IF st.w[a.id] = "lost" THEN [st.l EXCEPT ![a.id] = st.l[a.id] + 1] ELSE st.l
        /\ r = [s |-> r.s, w |-> r.w, t |-> r.t, l |-> r.l]
    BY <1>2 DEF Scheduler!CollectInteractive, Scheduler!Taken, Scheduler!Told, Scheduler!Lost, again
  <2>4. /\ r.s.ready = st.s.ready /\ r.s.bq = st.s.bq /\ r.s.ba = st.s.ba /\ r.s.ia = Nothing
        /\ r.s.iq = IF retry THEN again ELSE st.s.iq
        /\ Shaped(r)
    BY <2>3 DEF Good, Shaped
  <2> HIDE DEF r
  <2>5. Filled(r)
    BY <2>2, <2>4 DEF Good, Filled
  <2>6. Recorded(r)
    BY <2>1, <2>3, SMTT(30) DEF Good, Recorded
  <2>7. /\ \A j \in Scheduler!Job : j # a.id => r.w[j] = st.w[j] /\ r.t[j] = st.t[j] /\ r.l[j] = st.l[j]
        /\ r.w[a.id] = Nothing
        /\ r.t[a.id] = IF retry THEN st.t[a.id] ELSE st.t[a.id] + 1
        /\ r.l[a.id] = IF st.w[a.id] = "lost" THEN st.l[a.id] + 1 ELSE st.l[a.id]
    BY <2>1, <2>3, SMTT(30) DEF Good, Recorded
  <2>8. At(st.s.ia, a.id) /\ \A j : At(st.s.ia, j) => j = a.id
    BY <2>1 DEF At
  <2>9. a.id < n /\ st.t[a.id] = 0 /\ ~At(st.s.iq, a.id) /\ ~At(st.s.ba, a.id) /\ ~Has(st.s.bq, a.id)
    BY <2>1, <2>8 DEF Good, Placed, OneOf
  <2>10. Placed(r, n)
    <3>1. ASSUME NEW j \in Scheduler!Job, j # a.id
          PROVE  /\ At(r.s.iq, j) <=> At(st.s.iq, j)
                 /\ ~At(r.s.ia, j) /\ ~At(st.s.ia, j)
      BY <2>2, <2>4, <2>8, <3>1 DEF At
    <3>2. /\ At(r.s.iq, a.id) <=> retry
          /\ ~At(r.s.ia, a.id)
      BY <2>2, <2>4, <2>9 DEF At
    <3>3. ASSUME NEW j \in Scheduler!Job, j # a.id
          PROVE  /\ j < n => OneOf(At(r.s.iq, j), At(r.s.ia, j), At(r.s.ba, j), Has(r.s.bq, j), r.t[j] = 1)
                 /\ ~(j < n) => ~At(r.s.iq, j) /\ ~At(r.s.ia, j) /\ ~At(r.s.ba, j) /\ ~Has(r.s.bq, j)
                 /\ ~(j < n) => r.t[j] = 0 /\ r.l[j] = 0
                 /\ r.t[j] \in {0, 1}
      BY <2>4, <2>7, <3>1, <3>3, SMTT(30) DEF Good, Placed, OneOf
    <3>4. /\ OneOf(At(r.s.iq, a.id), At(r.s.ia, a.id), At(r.s.ba, a.id), Has(r.s.bq, a.id), r.t[a.id] = 1)
          /\ r.t[a.id] \in {0, 1}
      BY <2>4, <2>7, <2>9, <3>2 DEF OneOf
    <3> QED
      BY <2>9, <3>3, <3>4 DEF Placed
  <2>11. Wired(r)
    BY <2>4, <2>7, <2>8, <2>9 DEF Good, Wired, At
  <2>12. Bounded(r)
    <3>1. st.l[a.id] <= SpentRetry(a) /\ st.l[a.id] \in Nat /\ SpentRetry(a) \in {0, 1}
      BY <2>1 DEF Good, Bounded, Recorded, SpentRetry
    <3>2. r.s.iq # Nothing => r.l[r.s.iq.id] <= SpentRetry(r.s.iq)
      BY <2>1, <2>2, <2>4, <2>7, <2>9, <3>1, SMTT(30) DEF Good, Bounded, Filled, InteractiveJob, At, SpentRetry
    <3>3. r.s.ba # Nothing => r.l[r.s.ba.id] <= SpentRetry(r.s.ba)
      BY <2>1, <2>4, <2>7, <2>9 DEF Good, Bounded, Filled, RunningJob, At
    <3>4. ASSUME NEW i \in DOMAIN r.s.bq
          PROVE  r.l[r.s.bq[i].id] <= SpentRetry(r.s.bq[i])
      <4>1. st.s.bq[i] \in BackgroundJob
        BY <2>4 DEF Good, Filled
      <4>2. st.s.bq[i].id \in Scheduler!Job /\ st.s.bq[i].id # a.id
        BY <2>4, <2>9, <4>1 DEF BackgroundJob, Has
      <4> QED
        BY <2>4, <2>7, <4>2 DEF Good, Bounded
    <3>5. \A j \in Scheduler!Job : r.l[j] <= 2
      BY <2>7, <3>1 DEF Good, Bounded
    <3> QED
      BY <2>4, <3>2, <3>3, <3>4, <3>5 DEF Bounded
  <2> QED
    BY <2>4, <2>5, <2>6, <2>10, <2>11, <2>12 DEF Good, r
<1> QED
  BY <1>1, <1>2

LEMMA CollectBackgroundKeeps ==
  ASSUME NEW st, NEW n \in Nat, Good(st, n)
  PROVE  Good(Scheduler!CollectBackground(st), n)
<1> DEFINE a == st.s.ba
           q == st.s.bq
           r == Scheduler!CollectBackground(st)
           retry == ~a.cancelling /\ st.w[a.id] = "lost" /\ ~a.retried
           again == a.cancelling \/ retry
           job == [id |-> a.id, model |-> a.model, retried |-> a.retried \/ retry]
           more == <<job>> \o q
<1>1. CASE ~Scheduler!Arrived(st, a)
  BY <1>1 DEF Scheduler!CollectBackground
<1>2. CASE Scheduler!Arrived(st, a)
  <2>1. /\ a # Nothing /\ a \in RunningJob /\ a.id \in Scheduler!Job
        /\ a.retried \in BOOLEAN /\ a.cancelling \in BOOLEAN
    BY <1>2 DEF Scheduler!Arrived, Good, Filled, RunningJob
  <2>2. job \in BackgroundJob /\ job.id = a.id /\ SpentRetry(job) = IF a.retried \/ retry THEN 1 ELSE 0
    <3>1. a.model \in Model
      BY <2>1 DEF RunningJob
    <3>2. job \in BackgroundJob
      BY <2>1, <3>1 DEF BackgroundJob
    <3> QED
      BY <3>2 DEF SpentRetry
  <2> HIDE DEF job
  <2>3. /\ r.s = [st.s EXCEPT !.ba = Nothing, !.deadline = Nothing, !.bq = IF again THEN more ELSE q]
        /\ r.w = [st.w EXCEPT ![a.id] = Nothing]
        /\ r.t = IF again THEN st.t ELSE [st.t EXCEPT ![a.id] = st.t[a.id] + 1]
        /\ r.l = IF st.w[a.id] = "lost" /\ ~a.cancelling
                 THEN [st.l EXCEPT ![a.id] = st.l[a.id] + 1] ELSE st.l
        /\ r = [s |-> r.s, w |-> r.w, t |-> r.t, l |-> r.l]
    BY <1>2 DEF Scheduler!CollectBackground, Scheduler!Taken, Scheduler!Told, Scheduler!Lost, job
  <2> HIDE DEF more
  <2>4. /\ r.s.iq = st.s.iq /\ r.s.ia = st.s.ia /\ r.s.ba = Nothing
        /\ r.s.bq = IF again THEN more ELSE q
        /\ Shaped(r)
    BY <2>3 DEF Good, Shaped
  <2> HIDE DEF r
  <2>5. /\ \A j \in Scheduler!Job : j # a.id => r.w[j] = st.w[j] /\ r.t[j] = st.t[j] /\ r.l[j] = st.l[j]
        /\ r.w[a.id] = Nothing
        /\ r.t[a.id] = IF again THEN st.t[a.id] ELSE st.t[a.id] + 1
        /\ r.l[a.id] = IF st.w[a.id] = "lost" /\ ~a.cancelling THEN st.l[a.id] + 1 ELSE st.l[a.id]
    BY <2>1, <2>3 DEF Good, Recorded
  <2>6. At(st.s.ba, a.id) /\ \A j : At(st.s.ba, j) => j = a.id
    BY <2>1 DEF At
  <2>7. a.id < n /\ st.t[a.id] = 0 /\ ~At(st.s.iq, a.id) /\ ~At(st.s.ia, a.id) /\ ~Has(q, a.id)
    BY <2>1, <2>6 DEF Good, Placed, OneOf
  <2>8. /\ more \in Seq(BackgroundJob) /\ Distinct(more)
        /\ \A j : Has(more, j) <=> j = a.id \/ Has(q, j)
        /\ \A i \in DOMAIN more : more[i] = job \/ \E k \in DOMAIN q : more[i] = q[k]
    BY <2>2, <2>7, QPush DEF Good, Filled, more
  <2>9. Filled(r)
    BY <2>4, <2>8 DEF Good, Filled
  <2>10. Recorded(r)
    BY <2>1, <2>3, SMTT(30) DEF Good, Recorded
  <2>11. Placed(r, n)
    <3>1. ASSUME NEW j \in Scheduler!Job, j # a.id
          PROVE  /\ j < n => OneOf(At(r.s.iq, j), At(r.s.ia, j), At(r.s.ba, j), Has(r.s.bq, j), r.t[j] = 1)
                 /\ ~(j < n) => ~At(r.s.iq, j) /\ ~At(r.s.ia, j) /\ ~At(r.s.ba, j) /\ ~Has(r.s.bq, j)
                 /\ ~(j < n) => r.t[j] = 0 /\ r.l[j] = 0
                 /\ r.t[j] \in {0, 1}
      <4>1. /\ Has(r.s.bq, j) <=> Has(q, j)
            /\ ~At(r.s.ba, j) /\ ~At(st.s.ba, j)
        BY <2>4, <2>6, <2>8, <3>1 DEF At
      <4> QED
        BY <2>4, <2>5, <3>1, <4>1, SMTT(30) DEF Good, Placed, OneOf
    <3>2. /\ OneOf(At(r.s.iq, a.id), At(r.s.ia, a.id), At(r.s.ba, a.id), Has(r.s.bq, a.id), r.t[a.id] = 1)
          /\ r.t[a.id] \in {0, 1}
      <4>1. ~At(r.s.ba, a.id) /\ (Has(r.s.bq, a.id) <=> again)
        BY <2>4, <2>7, <2>8 DEF At
      <4> QED
        BY <2>4, <2>5, <2>7, <4>1 DEF OneOf
    <3> QED
      BY <2>7, <3>1, <3>2 DEF Placed
  <2>12. Wired(r)
    BY <2>4, <2>5, <2>6, <2>7 DEF Good, Wired, At
  <2>13. Bounded(r)
    <3>1. st.l[a.id] <= SpentRetry(a) /\ st.l[a.id] \in Nat /\ SpentRetry(a) = IF a.retried THEN 1 ELSE 0
      BY <2>1 DEF Good, Bounded, Recorded, SpentRetry
    <3>2. r.s.iq # Nothing => r.l[r.s.iq.id] <= SpentRetry(r.s.iq)
      BY <2>1, <2>4, <2>5, <2>7 DEF Good, Bounded, Filled, InteractiveJob, At
    <3>3. r.s.ia # Nothing => r.l[r.s.ia.id] <= SpentRetry(r.s.ia)
      BY <2>1, <2>4, <2>5, <2>7 DEF Good, Bounded, Filled, InteractiveJob, At
    <3>4. ASSUME NEW k \in DOMAIN q
          PROVE  r.l[q[k].id] <= SpentRetry(q[k])
      <4>1. q[k] \in BackgroundJob
        BY DEF Good, Filled
      <4>2. q[k].id \in Scheduler!Job /\ q[k].id # a.id
        BY <2>7, <4>1 DEF BackgroundJob, Has
      <4> QED
        BY <2>5, <4>2 DEF Good, Bounded
    <3>5. again => r.l[job.id] <= SpentRetry(job)
      BY <2>1, <2>2, <2>5, <3>1
    <3>6. \A i \in DOMAIN r.s.bq : r.l[r.s.bq[i].id] <= SpentRetry(r.s.bq[i])
      BY <2>4, <2>8, <3>4, <3>5
    <3>7. \A j \in Scheduler!Job : r.l[j] <= 2
      BY <2>5, <3>1 DEF Good, Bounded
    <3> QED
      BY <2>4, <3>2, <3>3, <3>6, <3>7 DEF Bounded
  <2> QED
    BY <2>4, <2>9, <2>10, <2>11, <2>12, <2>13 DEF Good, r
<1> QED
  BY <1>1, <1>2

\* A cancellation moves no job.
LEMMA CancelKeeps ==
  ASSUME NEW st, NEW n \in Nat, Good(st, n)
  PROVE  Good(Scheduler!EnforceCancelRule(st), n)
<1> DEFINE a == st.s.ba
           r == Scheduler!EnforceCancelRule(st)
           b == [a EXCEPT !.cancelling = TRUE]
<1>1. CASE r = st
  BY <1>1
<1>2. CASE r # st
  <2>1. /\ a # Nothing
        /\ r = [st EXCEPT !.s.ba.cancelling = TRUE,
                          !.w = IF st.w[a.id] = "stream" THEN [st.w EXCEPT ![a.id] = "lost"] ELSE st.w]
    BY <1>2 DEF Scheduler!EnforceCancelRule
  <2>2. a \in RunningJob /\ a.id \in Scheduler!Job
    BY <2>1 DEF Good, Filled, RunningJob
  <2>3. b \in RunningJob /\ b.id = a.id /\ b.retried = a.retried
    BY <2>2 DEF RunningJob
  <2>4. b # Nothing
    BY <2>3, NothingIsNoJob
  <2>5. /\ r.s = [st.s EXCEPT !.ba = b] /\ r.t = st.t /\ r.l = st.l
        /\ r.w = IF st.w[a.id] = "stream" THEN [st.w EXCEPT ![a.id] = "lost"] ELSE st.w
        /\ r = [s |-> r.s, w |-> r.w, t |-> r.t, l |-> r.l]
    BY <2>1 DEF Good, Shaped
  <2> HIDE DEF b, r
  <2>6. /\ r.s.iq = st.s.iq /\ r.s.ia = st.s.ia /\ r.s.bq = st.s.bq /\ r.s.ba = b
        /\ Shaped(r)
    BY <2>5 DEF Good, Shaped
  <2>7. Filled(r) /\ Recorded(r)
    BY <2>3, <2>5, <2>6 DEF Good, Filled, Recorded
  <2>8. \A j : At(r.s.ba, j) <=> At(st.s.ba, j)
    BY <2>1, <2>3, <2>4, <2>6 DEF At
  <2>9. Placed(r, n)
    <3>1. \A j : At(r.s.iq, j) = At(st.s.iq, j) /\ At(r.s.ia, j) = At(st.s.ia, j) /\ Has(r.s.bq, j) = Has(st.s.bq, j)
      BY <2>6
    <3> QED
      BY <2>5, <2>8, <3>1 DEF Good, Placed, OneOf
  <2>10. ASSUME NEW j \in Scheduler!Job
         PROVE  r.w[j] # Nothing <=> st.w[j] # Nothing
    <3>1. Nothing # "stream" /\ Nothing # "lost"
      BY NothingIsNoJob
    <3>2. r.w[j] = st.w[j] \/ (r.w[j] = "lost" /\ st.w[j] = "stream")
      BY <2>5 DEF Good, Recorded
    <3> QED
      BY <3>1, <3>2
  <2>11. Wired(r)
    BY <2>6, <2>8, <2>10 DEF Good, Wired
  <2>12. Bounded(r)
    <3>1. SpentRetry(b) = SpentRetry(a) /\ r.l[b.id] = st.l[a.id]
      BY <2>3, <2>5 DEF SpentRetry
    <3> QED
      BY <2>1, <2>5, <2>6, <3>1 DEF Good, Bounded
  <2> QED
    BY <2>6, <2>7, <2>9, <2>11, <2>12 DEF Good, r
<1> QED
  BY <1>1, <1>2

LEMMA StartInteractiveKeeps ==
  ASSUME NEW st, NEW n \in Nat, Good(st, n)
  PROVE  Good(Scheduler!StartInteractive(st), n)
<1> DEFINE a == st.s.iq
           r == Scheduler!StartInteractive(st)
<1>1. CASE r = st
  BY <1>1
<1>2. CASE r # st
  <2>1. /\ a # Nothing /\ st.s.ia = Nothing
        /\ r = [st EXCEPT !.s = [st.s EXCEPT !.ia = a, !.iq = Nothing,
                                             !.deadline = Scheduler!Armed(st.s)],
                          !.w = [st.w EXCEPT ![a.id] = "prompt"]]
    BY <1>2 DEF Scheduler!StartInteractive
  <2>2. a \in InteractiveJob /\ a.id \in Scheduler!Job
    BY <2>1 DEF Good, Filled, InteractiveJob
  <2>3. /\ r.s = [st.s EXCEPT !.ia = a, !.iq = Nothing, !.deadline = Scheduler!Armed(st.s)]
        /\ r.t = st.t /\ r.l = st.l
        /\ r.w = [st.w EXCEPT ![a.id] = "prompt"]
        /\ r = [s |-> r.s, w |-> r.w, t |-> r.t, l |-> r.l]
    BY <2>1 DEF Good, Shaped
  <2> HIDE DEF r
  <2>4. /\ r.s.iq = Nothing /\ r.s.ia = a /\ r.s.bq = st.s.bq /\ r.s.ba = st.s.ba
        /\ Shaped(r)
    BY <2>3 DEF Good, Shaped
  <2>5. Filled(r) /\ Recorded(r)
    BY <2>2, <2>3, <2>4 DEF Good, Filled, Recorded
  <2>6. Placed(r, n)
    BY <2>1, <2>3, <2>4 DEF Good, Placed, OneOf, At
  <2>7. \A j \in Scheduler!Job : r.w[j] # Nothing <=> j = a.id \/ st.w[j] # Nothing
    BY <2>2, <2>3, NothingIsNoJob DEF Good, Recorded
  <2>8. Wired(r)
    BY <2>1, <2>4, <2>7 DEF Good, Wired, At
  <2>9. Bounded(r)
    BY <2>1, <2>3, <2>4 DEF Good, Bounded
  <2> QED
    BY <2>4, <2>5, <2>6, <2>8, <2>9 DEF Good, r
<1> QED
  BY <1>1, <1>2

LEMMA StartBackgroundKeeps ==
  ASSUME NEW st, NEW n \in Nat, Good(st, n)
  PROVE  Good(Scheduler!StartBackground(st), n)
<1> DEFINE q == st.s.bq
           job == Head(q)
           rest == Tail(q)
           a == [id |-> job.id, model |-> job.model, retried |-> job.retried, cancelling |-> FALSE]
           r == Scheduler!StartBackground(st)
<1>1. CASE r = st
  BY <1>1
<1>2. CASE r # st
  <2>1. /\ q # <<>> /\ st.s.ba = Nothing
        /\ r = [st EXCEPT !.s = [st.s EXCEPT !.bq = rest, !.ba = a],
                          !.w = [st.w EXCEPT ![job.id] = "prompt"]]
    BY <1>2 DEF Scheduler!StartBackground
  <2>2. /\ job \in BackgroundJob /\ rest \in Seq(BackgroundJob) /\ Distinct(rest)
        /\ \A j : Has(q, j) <=> job.id = j \/ Has(rest, j)
        /\ ~Has(rest, job.id)
        /\ \A i \in DOMAIN rest : \E k \in DOMAIN q : rest[i] = q[k]
        /\ \E k \in DOMAIN q : job = q[k]
    BY <2>1, QTail DEF Good, Filled
  <2>3. a \in RunningJob /\ a.id = job.id /\ a.retried = job.retried /\ job.id \in Scheduler!Job
    BY <2>2 DEF BackgroundJob, RunningJob
  <2> HIDE DEF a, job, rest
  <2>4. a # Nothing
    BY <2>3, NothingIsNoJob
  <2>5. /\ r.s = [st.s EXCEPT !.bq = rest, !.ba = a] /\ r.t = st.t /\ r.l = st.l
        /\ r.w = [st.w EXCEPT ![job.id] = "prompt"]
        /\ r = [s |-> r.s, w |-> r.w, t |-> r.t, l |-> r.l]
    BY <2>1 DEF Good, Shaped
  <2> HIDE DEF r
  <2>6. /\ r.s.iq = st.s.iq /\ r.s.ia = st.s.ia /\ r.s.bq = rest /\ r.s.ba = a
        /\ Shaped(r)
    BY <2>5 DEF Good, Shaped
  <2>7. Filled(r) /\ Recorded(r)
    BY <2>2, <2>3, <2>5, <2>6 DEF Good, Filled, Recorded
  <2>8. Placed(r, n)
    BY <2>1, <2>2, <2>3, <2>4, <2>5, <2>6 DEF Good, Placed, OneOf, At
  <2>9. \A j \in Scheduler!Job : r.w[j] # Nothing <=> j = job.id \/ st.w[j] # Nothing
    BY <2>3, <2>5, NothingIsNoJob DEF Good, Recorded
  <2>10. Wired(r)
    BY <2>1, <2>3, <2>4, <2>6, <2>9 DEF Good, Wired, At
  <2>11. Bounded(r)
    BY <2>1, <2>2, <2>3, <2>5, <2>6, SMTT(30) DEF Good, Bounded, SpentRetry
  <2> QED
    BY <2>6, <2>7, <2>8, <2>10, <2>11 DEF Good, r
<1> QED
  BY <1>1, <1>2

SchedulerInv == next \in Nat /\ Good(Scheduler!State, next)

LEMMA SchedulerInit == Scheduler!Init => SchedulerInv
<1> SUFFICES ASSUME Scheduler!Init PROVE SchedulerInv
  OBVIOUS
<1> DEFINE st == Scheduler!State
<1>1. /\ st.s = [ready |-> FALSE, iq |-> Nothing, ia |-> Nothing, bq |-> <<>>, ba |-> Nothing,
                 deadline |-> Nothing, mic |-> FALSE, unpause |-> Nothing, hold |-> Nothing]
      /\ st.w = [j \in Scheduler!Job |-> Nothing]
      /\ st.t = [j \in Scheduler!Job |-> 0] /\ st.l = [j \in Scheduler!Job |-> 0]
      /\ st = [s |-> st.s, w |-> st.w, t |-> st.t, l |-> st.l]
      /\ next = 1
  BY DEF Scheduler!Init, Scheduler!State
<1> HIDE DEF st
<1>2. st.s.iq = Nothing /\ st.s.ia = Nothing /\ st.s.ba = Nothing /\ st.s.bq = <<>> /\ Shaped(st)
  BY <1>1 DEF Shaped
<1>3. st.s.bq \in Seq(BackgroundJob) /\ Distinct(st.s.bq) /\ \A j : ~Has(st.s.bq, j)
  BY <1>2 DEF Distinct, Has
<1>4. Filled(st) /\ Recorded(st)
  BY <1>1, <1>2, <1>3 DEF Filled, Recorded
<1>5. \A j \in Scheduler!Job : j \in Nat /\ ~(j < 1) /\ st.t[j] = 0 /\ st.w[j] = Nothing /\ st.l[j] = 0
  BY <1>1 DEF Scheduler!Job
<1>6. Placed(st, 1) /\ Wired(st)
  BY <1>2, <1>3, <1>5 DEF Placed, Wired, At
<1>7. Bounded(st)
  BY <1>2, <1>5 DEF Bounded
<1> QED
  BY <1>1, <1>2, <1>4, <1>6, <1>7 DEF SchedulerInv, Good, st

\* The flags, the deadlines and the hold place no job.
LEMMA SamePlaces ==
  ASSUME NEW st, NEW r, NEW n \in Nat, Good(st, n), Shaped(r),
         r.s.iq = st.s.iq, r.s.ia = st.s.ia, r.s.ba = st.s.ba, r.s.bq = st.s.bq,
         r.w = st.w, r.t = st.t, r.l = st.l
  PROVE  Good(r, n)
BY DEF Good, Filled, Recorded, Placed, OneOf, Wired, Bounded

LEMMA FlagsKeep ==
  ASSUME SchedulerInv,
         \/ Scheduler!SetReady \/ Scheduler!SetMic \/ Scheduler!GcRelease \/ Scheduler!Elapse
         \/ \E m \in Model : Scheduler!GcHold(m)
  PROVE  SchedulerInv'
<1> DEFINE st == Scheduler!State
           r == Scheduler!State'
<1>1. /\ next' = next /\ wire' = wire /\ answers' = answers /\ lost' = lost
      /\ \/ sched' = [sched EXCEPT !.ready = ~sched.ready]
         \/ sched' = [sched EXCEPT !.mic = ~sched.mic,
                                   !.unpause = IF sched.mic THEN now + Unpause ELSE Nothing]
         \/ sched' = [sched EXCEPT !.hold = Nothing]
         \/ sched' = sched
         \/ \E m \in Model : sched' = [sched EXCEPT !.hold = m]
  BY DEF Scheduler!SetReady, Scheduler!SetMic, Scheduler!GcRelease, Scheduler!Elapse,
         Scheduler!GcHold
<1>2. /\ st.s = sched /\ st.w = wire /\ st.t = answers /\ st.l = lost
      /\ r.s = sched' /\ r.w = wire' /\ r.t = answers' /\ r.l = lost'
      /\ r = [s |-> r.s, w |-> r.w, t |-> r.t, l |-> r.l]
  BY DEF Scheduler!State
<1> HIDE DEF st, r
<1>3. Good(st, next) /\ next \in Nat
  BY DEF SchedulerInv, st
<1>4. /\ r.s.iq = st.s.iq /\ r.s.ia = st.s.ia /\ r.s.ba = st.s.ba /\ r.s.bq = st.s.bq
      /\ Shaped(r)
  BY <1>1, <1>2, <1>3 DEF Good, Shaped
<1>5. Good(r, next)
  BY <1>1, <1>2, <1>3, <1>4, SamePlaces
<1> QED
  BY <1>1, <1>3, <1>5 DEF SchedulerInv, r

LEMMA TickKeeps ==
  ASSUME SchedulerInv, Scheduler!Tick
  PROVE  SchedulerInv'
<1> DEFINE a == Scheduler!CollectInteractive(Scheduler!State)
           b == Scheduler!CollectBackground(a)
           c == Scheduler!EnforceCancelRule(b)
           d == Scheduler!StartInteractive(c)
           e == Scheduler!StartBackground(d)
<1>1. /\ sched' = e.s /\ wire' = e.w /\ answers' = e.t /\ lost' = e.l /\ next' = next
  BY DEF Scheduler!Tick
<1>2. Good(Scheduler!State, next) /\ next \in Nat
  BY DEF SchedulerInv
<1>3. Good(a, next)
  BY <1>2, CollectInteractiveKeeps
<1> HIDE DEF a
<1>4. Good(b, next)
  BY <1>2, <1>3, CollectBackgroundKeeps
<1> HIDE DEF b
<1>5. Good(c, next)
  BY <1>2, <1>4, CancelKeeps
<1> HIDE DEF c
<1>6. Good(d, next)
  BY <1>2, <1>5, StartInteractiveKeeps
<1> HIDE DEF d
<1>7. Good(e, next)
  BY <1>2, <1>6, StartBackgroundKeeps
<1> HIDE DEF e
<1>8. Scheduler!State' = e
  BY <1>1, <1>7 DEF Scheduler!State, Good, Shaped
<1> QED
  BY <1>1, <1>2, <1>7, <1>8 DEF SchedulerInv

LEMMA WireKeeps ==
  ASSUME SchedulerInv, NEW j \in Scheduler!Job,
         Scheduler!Opens(j) \/ \E a \in Scheduler!Answers : Scheduler!Answer(j, a)
  PROVE  SchedulerInv'
<1> DEFINE st == Scheduler!State
           r == Scheduler!State'
<1>1. /\ next' = next /\ sched' = sched /\ answers' = answers /\ lost' = lost
      /\ wire[j] \in {"prompt", "stream"}
      /\ \E x \in {"stream", "ok", "error", "lost"} : wire' = [wire EXCEPT ![j] = x]
  BY DEF Scheduler!Opens, Scheduler!Answer, Scheduler!Answers
<1>2. /\ st.s = sched /\ st.w = wire /\ st.t = answers /\ st.l = lost
      /\ r.s = sched' /\ r.w = wire' /\ r.t = answers' /\ r.l = lost'
      /\ r = [s |-> r.s, w |-> r.w, t |-> r.t, l |-> r.l]
  BY DEF Scheduler!State
<1> HIDE DEF st, r
<1>3. Good(st, next) /\ next \in Nat
  BY DEF SchedulerInv, st
<1>4. PICK x \in {"stream", "ok", "error", "lost"} : r.w = [st.w EXCEPT ![j] = x]
  BY <1>1, <1>2
<1>5. x # Nothing /\ st.w[j] # Nothing
  BY <1>1, <1>2, NothingIsNoJob
<1>6. DOMAIN r.w = Scheduler!Job /\ \A k \in Scheduler!Job : r.w[k] # Nothing <=> st.w[k] # Nothing
  BY <1>3, <1>4, <1>5 DEF Good, Recorded
<1>7. r.s = st.s /\ r.t = st.t /\ r.l = st.l
  BY <1>1, <1>2
<1>8. Shaped(r) /\ Filled(r) /\ Recorded(r) /\ Placed(r, next) /\ Bounded(r)
  BY <1>2, <1>3, <1>6, <1>7 DEF Good, Shaped, Filled, Recorded, Placed, Bounded
<1>9. Wired(r)
  BY <1>3, <1>6, <1>7 DEF Good, Wired
<1>10. Good(r, next)
  BY <1>8, <1>9 DEF Good
<1> QED
  BY <1>1, <1>3, <1>10 DEF SchedulerInv, r

LEMMA SubmitInteractiveKeeps ==
  ASSUME SchedulerInv, Scheduler!SubmitInteractive
  PROVE  SchedulerInv'
<1> DEFINE st == Scheduler!State
           r == Scheduler!State'
           old == st.s.iq
           new == [id |-> next, retried |-> FALSE]
           m == next + 1
<1>1. /\ next \in Scheduler!Job /\ next' = m /\ wire' = wire /\ lost' = lost
      /\ answers' = IF sched.iq = Nothing THEN answers
                    ELSE [answers EXCEPT ![sched.iq.id] = answers[sched.iq.id] + 1]
      /\ sched' = [sched EXCEPT !.iq = new, !.deadline = Scheduler!Armed(sched)]
  BY DEF Scheduler!SubmitInteractive
<1>2. new \in InteractiveJob /\ new.id = next /\ SpentRetry(new) = 0
  <2>1. new \in InteractiveJob
    BY <1>1 DEF InteractiveJob
  <2> QED
    BY <2>1 DEF SpentRetry
<1> HIDE DEF new
<1>3. new # Nothing
  BY <1>2, NothingIsNoJob
<1>4. /\ st.s = sched /\ st.w = wire /\ st.t = answers /\ st.l = lost
      /\ r.s = sched' /\ r.w = wire' /\ r.t = answers' /\ r.l = lost'
      /\ r = [s |-> r.s, w |-> r.w, t |-> r.t, l |-> r.l]
  BY DEF Scheduler!State
<1> HIDE DEF st, r
<1>5. Good(st, next) /\ next \in Nat /\ m \in Nat /\ next \in Scheduler!Job
  BY <1>1 DEF SchedulerInv, st
<1>6. \A j \in Scheduler!Job : j < m <=> (j < next \/ j = next)
  BY <1>5 DEF Scheduler!Job
<1>7. ~(next < next)
  BY <1>5
<1> HIDE DEF m
<1>8. /\ r.s.iq = new /\ r.s.ia = st.s.ia /\ r.s.ba = st.s.ba /\ r.s.bq = st.s.bq
      /\ r.w = st.w /\ r.l = st.l
      /\ r.t = IF old = Nothing THEN st.t ELSE [st.t EXCEPT ![old.id] = st.t[old.id] + 1]
      /\ Shaped(r)
  <2>1. r.w = st.w /\ r.l = st.l
    BY <1>1, <1>4
  <2>2. r.t = IF old = Nothing THEN st.t ELSE [st.t EXCEPT ![old.id] = st.t[old.id] + 1]
    BY <1>1, <1>4
  <2>3. r.s = [st.s EXCEPT !.iq = new, !.deadline = Scheduler!Armed(sched)]
    BY <1>1, <1>4
  <2>4. r.s.iq = new /\ r.s.ia = st.s.ia /\ r.s.ba = st.s.ba /\ r.s.bq = st.s.bq /\ Shaped(r)
    BY <1>4, <1>5, <2>3 DEF Good, Shaped
  <2> QED
    BY <2>1, <2>2, <2>4
<1>9. old # Nothing => /\ old.id \in Scheduler!Job /\ old.id < next /\ st.t[old.id] = 0
                       /\ ~At(st.s.ia, old.id) /\ ~At(st.s.ba, old.id) /\ ~Has(st.s.bq, old.id)
  <2> SUFFICES ASSUME old # Nothing
               PROVE  /\ old.id \in Scheduler!Job /\ old.id < next /\ st.t[old.id] = 0
                      /\ ~At(st.s.ia, old.id) /\ ~At(st.s.ba, old.id) /\ ~Has(st.s.bq, old.id)
    OBVIOUS
  <2>1. old.id \in Scheduler!Job /\ At(st.s.iq, old.id)
    BY <1>5 DEF Good, Filled, InteractiveJob, At
  <2> QED
    BY <1>5, <2>1 DEF Good, Placed, OneOf
<1>10. /\ ~At(st.s.iq, next) /\ ~At(st.s.ia, next) /\ ~At(st.s.ba, next) /\ ~Has(st.s.bq, next)
  BY <1>5, <1>7 DEF Good, Placed
<1>11. Filled(r) /\ Recorded(r)
  BY <1>2, <1>5, <1>8, <1>9 DEF Good, Filled, Recorded
<1>12. \A j \in Scheduler!Job : r.t[j] = IF At(old, j) THEN 1 ELSE st.t[j]
  BY <1>5, <1>8, <1>9 DEF Good, Recorded, At
<1>13. Placed(r, m)
  <2>1. \A j : At(r.s.iq, j) <=> j = next
    BY <1>2, <1>3, <1>8 DEF At
  <2>2. ASSUME NEW j \in Scheduler!Job, j # next
        PROVE  /\ j < m => OneOf(At(r.s.iq, j), At(r.s.ia, j), At(r.s.ba, j), Has(r.s.bq, j), r.t[j] = 1)
               /\ ~(j < m) => ~At(r.s.iq, j) /\ ~At(r.s.ia, j) /\ ~At(r.s.ba, j) /\ ~Has(r.s.bq, j)
               /\ ~(j < m) => r.t[j] = 0 /\ r.l[j] = 0
               /\ r.t[j] \in {0, 1}
    <3>1. /\ At(r.s.ia, j) = At(st.s.ia, j) /\ At(r.s.ba, j) = At(st.s.ba, j)
          /\ Has(r.s.bq, j) = Has(st.s.bq, j) /\ r.l[j] = st.l[j] /\ ~At(r.s.iq, j)
      BY <1>8, <2>1, <2>2
    <3>2. (j < m <=> j < next) /\ (r.t[j] = IF At(old, j) THEN 1 ELSE st.t[j])
      BY <1>6, <1>12, <2>2
    <3>3. /\ j < next => OneOf(At(old, j), At(st.s.ia, j), At(st.s.ba, j), Has(st.s.bq, j), st.t[j] = 1)
          /\ ~(j < next) => ~At(old, j) /\ ~At(st.s.ia, j) /\ ~At(st.s.ba, j) /\ ~Has(st.s.bq, j)
          /\ ~(j < next) => st.t[j] = 0 /\ st.l[j] = 0
          /\ st.t[j] \in {0, 1}
      BY <1>5 DEF Good, Placed
    <3> QED
      BY <3>1, <3>2, <3>3 DEF OneOf
  <2>3. st.t[next] = 0
    BY <1>5, <1>7 DEF Good, Placed
  <2>4. r.t[next] = 0
    BY <1>5, <1>10, <1>12, <2>3
  <2>5. OneOf(At(r.s.iq, next), At(r.s.ia, next), At(r.s.ba, next), Has(r.s.bq, next), r.t[next] = 1)
    BY <1>8, <1>10, <2>1, <2>4 DEF OneOf
  <2>6. next < m
    BY <1>5, <1>6
  <2> QED
    BY <2>2, <2>4, <2>5, <2>6 DEF Placed
<1>14. Wired(r)
  BY <1>5, <1>8 DEF Good, Wired
<1>15. Bounded(r)
  <2>1. st.l[next] = 0
    BY <1>5, <1>7 DEF Good, Placed
  <2> QED
    BY <1>2, <1>5, <1>8, <2>1 DEF Good, Bounded
<1>16. Good(r, m)
  BY <1>8, <1>11, <1>13, <1>14, <1>15 DEF Good
<1> QED
  BY <1>1, <1>5, <1>16 DEF SchedulerInv, r

LEMMA SubmitBackgroundKeeps ==
  ASSUME SchedulerInv, NEW mo \in Model, Scheduler!SubmitBackground(mo)
  PROVE  SchedulerInv'
<1> DEFINE st == Scheduler!State
           r == Scheduler!State'
           new == [id |-> next, model |-> mo, retried |-> FALSE]
           q == st.s.bq
           more == Append(q, new)
           m == next + 1
<1>1. /\ next \in Scheduler!Job /\ next' = m /\ wire' = wire /\ lost' = lost /\ answers' = answers
      /\ sched' = [sched EXCEPT !.bq = Append(sched.bq, new)]
  BY DEF Scheduler!SubmitBackground
<1>2. new \in BackgroundJob /\ new.id = next /\ SpentRetry(new) = 0
  <2>1. new \in BackgroundJob
    BY <1>1 DEF BackgroundJob
  <2> QED
    BY <2>1 DEF SpentRetry
<1> HIDE DEF new
<1>3. /\ st.s = sched /\ st.w = wire /\ st.t = answers /\ st.l = lost
      /\ r.s = sched' /\ r.w = wire' /\ r.t = answers' /\ r.l = lost'
      /\ r = [s |-> r.s, w |-> r.w, t |-> r.t, l |-> r.l]
  BY DEF Scheduler!State
<1> HIDE DEF st, r
<1>4. Good(st, next) /\ next \in Nat /\ m \in Nat /\ next \in Scheduler!Job
  BY <1>1 DEF SchedulerInv, st
<1>5. (\A j \in Scheduler!Job : j < m <=> (j < next \/ j = next)) /\ ~(next < next)
  BY <1>4 DEF Scheduler!Job
<1> HIDE DEF m
<1>6. /\ ~At(st.s.iq, next) /\ ~At(st.s.ia, next) /\ ~At(st.s.ba, next) /\ ~Has(q, next)
      /\ st.t[next] = 0 /\ st.l[next] = 0
  BY <1>4, <1>5 DEF Good, Placed
<1>7. /\ more \in Seq(BackgroundJob) /\ Distinct(more)
      /\ \A j : Has(more, j) <=> j = next \/ Has(q, j)
      /\ \A i \in DOMAIN more : more[i] = new \/ \E k \in DOMAIN q : more[i] = q[k]
  BY <1>2, <1>4, <1>6, QAppend DEF Good, Filled
<1>8. /\ r.s.iq = st.s.iq /\ r.s.ia = st.s.ia /\ r.s.ba = st.s.ba /\ r.s.bq = more
      /\ r.w = st.w /\ r.l = st.l /\ r.t = st.t /\ Shaped(r)
  BY <1>1, <1>3, <1>4, ZenonT(30) DEF Good, Shaped
<1> HIDE DEF more
<1>9. Filled(r) /\ Recorded(r)
  BY <1>4, <1>7, <1>8 DEF Good, Filled, Recorded
<1>10. Placed(r, m)
  <2>1. ASSUME NEW j \in Scheduler!Job, j # next
        PROVE  /\ j < m => OneOf(At(r.s.iq, j), At(r.s.ia, j), At(r.s.ba, j), Has(r.s.bq, j), r.t[j] = 1)
               /\ ~(j < m) => ~At(r.s.iq, j) /\ ~At(r.s.ia, j) /\ ~At(r.s.ba, j) /\ ~Has(r.s.bq, j)
               /\ ~(j < m) => r.t[j] = 0 /\ r.l[j] = 0
               /\ r.t[j] \in {0, 1}
    BY <1>4, <1>5, <1>7, <1>8, <2>1 DEF Good, Placed, OneOf
  <2>2. OneOf(At(r.s.iq, next), At(r.s.ia, next), At(r.s.ba, next), Has(r.s.bq, next), r.t[next] = 1)
    BY <1>6, <1>7, <1>8 DEF OneOf
  <2>3. next < m /\ r.t[next] \in {0, 1}
    BY <1>4, <1>5, <1>6, <1>8
  <2> QED
    BY <2>1, <2>2, <2>3 DEF Placed
<1>11. Wired(r)
  BY <1>4, <1>8 DEF Good, Wired
<1>12. Bounded(r)
  BY <1>2, <1>4, <1>6, <1>7, <1>8 DEF Good, Bounded
<1>13. Good(r, m)
  BY <1>8, <1>9, <1>10, <1>11, <1>12 DEF Good
<1> QED
  BY <1>1, <1>4, <1>13 DEF SchedulerInv, r

LEMMA SchedulerInvariant == Scheduler!Spec => []SchedulerInv
<1>1. ASSUME SchedulerInv, [Scheduler!Next]_(Scheduler!vars)
      PROVE  SchedulerInv'
  <2>1. CASE UNCHANGED Scheduler!vars
    BY <1>1, <2>1 DEF Scheduler!vars, SchedulerInv, Scheduler!State
  <2>2. CASE \/ Scheduler!SetReady \/ Scheduler!SetMic \/ Scheduler!GcRelease \/ Scheduler!Elapse
             \/ \E m \in Model : Scheduler!GcHold(m)
    BY <1>1, <2>2, FlagsKeep
  <2> QED
    BY <1>1, <2>1, <2>2, TickKeeps, WireKeeps, SubmitInteractiveKeeps, SubmitBackgroundKeeps
       DEF Scheduler!Next
<1> QED
  BY <1>1, SchedulerInit, PTL DEF Scheduler!Spec

\* Where the five places say a job is, it is counted once.
LEMMA PlacesCount ==
  ASSUME SchedulerInv
  PROVE  OneAnswer
<1> DEFINE st == Scheduler!State
<1>1. /\ st.s = sched /\ st.w = wire /\ st.t = answers /\ st.l = lost /\ Good(st, next)
  BY DEF Scheduler!State, SchedulerInv
<1> HIDE DEF st
<1>2. sched["iq"] = sched.iq /\ sched["ia"] = sched.ia /\ sched["ba"] = sched.ba
  OBVIOUS
<1>3. ASSUME NEW j \in Scheduler!Job, j < next
      PROVE  /\ Cardinality(Scheduler!Slots(j)) + Cardinality(Scheduler!Queued(j)) + answers[j] = 1
             /\ lost[j] <= 2
             /\ (wire[j] # Nothing) <=> (Scheduler!Slots(j) \cap {"ia", "ba"} # {})
  <2>1. /\ OneOf(At(sched.iq, j), At(sched.ia, j), At(sched.ba, j), Has(sched.bq, j), answers[j] = 1)
        /\ answers[j] \in {0, 1}
        /\ lost[j] <= 2
        /\ wire[j] # Nothing <=> At(sched.ia, j) \/ At(sched.ba, j)
    BY <1>1, <1>3 DEF Good, Placed, Wired, Bounded
  <2>2. /\ "iq" \in Scheduler!Slots(j) <=> At(sched.iq, j)
        /\ "ia" \in Scheduler!Slots(j) <=> At(sched.ia, j)
        /\ "ba" \in Scheduler!Slots(j) <=> At(sched.ba, j)
        /\ Scheduler!Slots(j) \subseteq {"iq", "ia", "ba"}
    BY DEF Scheduler!Slots, At
  <2>3. (Scheduler!Slots(j) \cap {"ia", "ba"} # {}) <=> At(sched.ia, j) \/ At(sched.ba, j)
    BY <2>2
  <2>4. /\ ~Has(sched.bq, j) => Scheduler!Queued(j) = {}
        /\ Has(sched.bq, j) => \E i : Scheduler!Queued(j) = {i}
    <3>1. Distinct(sched.bq) /\ Scheduler!Queued(j) \subseteq DOMAIN sched.bq
      BY <1>1 DEF Good, Filled, Scheduler!Queued
    <3>2. \A i \in DOMAIN sched.bq : i \in Scheduler!Queued(j) <=> sched.bq[i].id = j
      BY DEF Scheduler!Queued
    <3>3. ~Has(sched.bq, j) => Scheduler!Queued(j) = {}
      BY <3>1, <3>2 DEF Has
    <3>4. ASSUME NEW i \in DOMAIN sched.bq, sched.bq[i].id = j
          PROVE  Scheduler!Queued(j) = {i}
      BY <3>1, <3>2, <3>4 DEF Distinct
    <3> QED
      BY <3>3, <3>4 DEF Has
  <2>5. Cardinality(Scheduler!Queued(j)) = IF Has(sched.bq, j) THEN 1 ELSE 0
    BY <2>4, FS_EmptySet, FS_Singleton
  <2>6. Cardinality(Scheduler!Slots(j)) =
          IF At(sched.iq, j) \/ At(sched.ia, j) \/ At(sched.ba, j) THEN 1 ELSE 0
    <3>1. CASE At(sched.iq, j) \/ At(sched.ia, j) \/ At(sched.ba, j)
      <4>1. \E p : Scheduler!Slots(j) = {p}
        BY <2>1, <2>2, <3>1 DEF OneOf
      <4> QED
        BY <3>1, <4>1, FS_Singleton
    <3>2. CASE ~(At(sched.iq, j) \/ At(sched.ia, j) \/ At(sched.ba, j))
      <4>1. Scheduler!Slots(j) = {}
        BY <2>2, <3>2
      <4> QED
        BY <3>2, <4>1, FS_EmptySet
    <3> QED
      BY <3>1, <3>2
  <2> QED
    BY <2>1, <2>3, <2>5, <2>6 DEF OneOf
<1>4. \A S : Scheduler!Cardinality(S) = Cardinality(S)
  BY DEF Cardinality, Scheduler!Cardinality
<1> QED
  BY <1>3, <1>4 DEF OneAnswer, Scheduler!OneAnswer

\* Every job submitted is kept in one place until it is answered, and answered
\* once: through displacement, cancellation, losses and requeueing.  Its
\* connection is lost under it at most twice, and it has a request on the wire
\* exactly while it runs.
THEOREM JobsAnswered == Scheduler!Spec => []OneAnswer
BY SchedulerInvariant, PlacesCount, PTL

-----------------------------------------------------------------------------
(* The drains of the ingest pool (Pipeline): c is call, w width, h chan, s     *)
(* spawned, q queue and k stack.                                               *)

Stacks == [Thread -> Seq(Pool!Frame)]

\* The body of d is the frame i of thread t.
BodyAt(k, t, i, d) ==
  t \in Thread /\ i \in DOMAIN k[t] /\ k[t][i].role = "claim" /\ k[t][i].drain = d

\* Some thread has a worker of d.
Works(k, d) ==
  \E t \in Thread : \E i \in DOMAIN k[t] : k[t][i].role = "work" /\ k[t][i].drain = d

PoolTypes(c, w, h, s, k) ==
  /\ c \in [Drain -> {"away", "asked", "spawn", "loop", "send", "join"}]
  /\ DOMAIN w = Drain /\ \A d \in Drain : c[d] # "away" => w[d] \in Nat /\ w[d] > 0
  /\ h \in [Drain -> Nat] /\ s \in [Drain -> Nat]
  /\ k \in Stacks

\* The bodies that wait for a thread, each once.
InLine(c, q) ==
  /\ q \in Seq(Drain)
  /\ \A i \in DOMAIN q : c[q[i]] = "asked"
  /\ \A i, j \in DOMAIN q : q[i] = q[j] => i = j

\* A drain has one body at most, and that while its call is past the queue.
OneBody(c, w, k) ==
  \A d \in Drain, t \in Thread : \A i :
    BodyAt(k, t, i, d) => /\ c[d] \in {"spawn", "loop", "send", "join"} /\ w[d] # 1
                          /\ \A u \in Thread : \A j : BodyAt(k, u, j, d) => u = t /\ j = i

\* Outside of the loop and its end, and in a serial call, nothing is under way; a
\* loop has a worker that is there or will be, and a channel that is not empty
\* keeps one to its end.
InHand(d, c, w, h, s, k) ==
  /\ w[d] = 1 => c[d] \in {"away", "loop", "send"}
  /\ c[d] \in {"away", "asked", "spawn"} \/ w[d] = 1 => h[d] = 0 /\ s[d] = 0 /\ ~Works(k, d)
  /\ w[d] # 1 /\ (c[d] \in {"loop", "send"} \/ (c[d] = "join" /\ h[d] > 0))
       => s[d] > 0 \/ Works(k, d)

PoolGood(c, w, h, s, q, k) ==
  /\ PoolTypes(c, w, h, s, k) /\ InLine(c, q) /\ OneBody(c, w, k)
  /\ \A d \in Drain : InHand(d, c, w, h, s, k)

PoolInv == PoolGood(call, width, chan, spawned, queue, stack)

Pushed(k, t, f, k2) == k2 = [k EXCEPT ![t] = Append(k[t], f)]
Popped(k, t, k2) == k[t] # <<>> /\ k2 = [k EXCEPT ![t] = Pool!Front(k[t])]
Swapped(k, t, f, k2) ==
  /\ k[t] # <<>> /\ Pool!Last(k[t]).role = "work" /\ Pool!Last(k[t]).drain = f.drain
  /\ k2 = [k EXCEPT ![t] = Append(Pool!Front(k[t]), f)]

LEMMA PushFrame ==
  ASSUME NEW k \in Stacks, NEW t \in Thread, NEW f \in Pool!Frame,
         NEW k2, Pushed(k, t, f, k2)
  PROVE  /\ k2 \in Stacks
         /\ ~(Len(k[t]) + 1 \in DOMAIN k[t])
         /\ \A u, i, d : BodyAt(k2, u, i, d) <=>
                           \/ BodyAt(k, u, i, d)
                           \/ u = t /\ i = Len(k[t]) + 1 /\ f.role = "claim" /\ f.drain = d
         /\ \A d : Works(k2, d) <=> Works(k, d) \/ (f.role = "work" /\ f.drain = d)
<1> DEFINE e == Len(k[t]) + 1
<1>1. /\ k2[t] \in Seq(Pool!Frame) /\ DOMAIN k2[t] = DOMAIN k[t] \cup {e} /\ e \notin DOMAIN k[t]
      /\ k2[t][e] = f /\ \A i \in DOMAIN k[t] : k2[t][i] = k[t][i]
  <2>1. k2[t] = Append(k[t], f) /\ k[t] \in Seq(Pool!Frame)
    BY DEF Stacks, Pushed
  <2> DEFINE s == k[t]
  <2> HIDE DEF s
  <2>2. /\ Append(s, f) \in Seq(Pool!Frame) /\ DOMAIN Append(s, f) = DOMAIN s \cup {Len(s) + 1}
        /\ Len(s) + 1 \notin DOMAIN s
        /\ Append(s, f)[Len(s) + 1] = f /\ \A i \in DOMAIN s : Append(s, f)[i] = s[i]
    BY <2>1 DEF s
  <2> QED
    BY <2>1, <2>2 DEF s
<1>2. \A u \in Thread : u # t => k2[u] = k[u]
  BY DEF Stacks, Pushed
<1>3. k2 \in Stacks
  BY <1>1, <1>2 DEF Stacks, Pushed
<1> HIDE DEF e
<1>4. ASSUME NEW u, NEW i, NEW d
      PROVE  BodyAt(k2, u, i, d) <=>
               (BodyAt(k, u, i, d) \/ (u = t /\ i = e /\ f.role = "claim" /\ f.drain = d))
  BY <1>1, <1>2 DEF BodyAt
<1>5. ASSUME NEW d
      PROVE  Works(k2, d) <=> Works(k, d) \/ (f.role = "work" /\ f.drain = d)
  BY <1>1, <1>2 DEF Works
<1> QED
  BY <1>1, <1>3, <1>4, <1>5 DEF e

LEMMA PopFrame ==
  ASSUME NEW k \in Stacks, NEW t \in Thread, NEW k2, Popped(k, t, k2)
  PROVE  /\ k2 \in Stacks
         /\ Len(k[t]) \in DOMAIN k[t] /\ k[t][Len(k[t])] = Pool!Last(k[t])
         /\ \A u, i, d : BodyAt(k2, u, i, d) <=> BodyAt(k, u, i, d) /\ ~(u = t /\ i = Len(k[t]))
         /\ \A d : Works(k2, d) => Works(k, d)
         /\ \A d : Works(k, d) /\ ~Works(k2, d) =>
                     Pool!Last(k[t]).role = "work" /\ Pool!Last(k[t]).drain = d
<1> DEFINE e == Len(k[t])
           f == Pool!Last(k[t])
<1>1. /\ k2[t] \in Seq(Pool!Frame) /\ DOMAIN k2[t] = DOMAIN k[t] \ {e} /\ e \in DOMAIN k[t]
      /\ k[t][e] = f /\ \A i \in DOMAIN k2[t] : k2[t][i] = k[t][i]
  <2> DEFINE s == k[t]
  <2>1. k2[t] = SubSeq(s, 1, Len(s) - 1) /\ s \in Seq(Pool!Frame) /\ s # <<>>
    BY DEF Pool!Front, Stacks, Popped
  <2>2. f = s[Len(s)]
    BY DEF Pool!Last
  <2> HIDE DEF s
  <2>3. Len(s) \in Nat /\ Len(s) > 0 /\ DOMAIN s = 1..Len(s)
    BY <2>1
  <2>4. /\ SubSeq(s, 1, Len(s) - 1) \in Seq(Pool!Frame)
        /\ DOMAIN SubSeq(s, 1, Len(s) - 1) = 1..(Len(s) - 1)
        /\ \A i \in 1..(Len(s) - 1) : SubSeq(s, 1, Len(s) - 1)[i] = s[i]
    BY <2>1, <2>3
  <2>5. 1..(Len(s) - 1) = 1..Len(s) \ {Len(s)} /\ Len(s) \in 1..Len(s)
    BY <2>3
  <2> QED
    BY <2>1, <2>2, <2>3, <2>4, <2>5 DEF s
<1>2. \A u \in Thread : u # t => k2[u] = k[u]
  BY DEF Stacks, Popped
<1>3. k2 \in Stacks
  BY <1>1, <1>2 DEF Stacks, Popped
<1> HIDE DEF e, f
<1>4. ASSUME NEW u, NEW i, NEW d
      PROVE  BodyAt(k2, u, i, d) <=> BodyAt(k, u, i, d) /\ ~(u = t /\ i = e)
  BY <1>1, <1>2 DEF BodyAt
<1>5. ASSUME NEW d, Works(k2, d)
      PROVE  Works(k, d)
  BY <1>1, <1>2, <1>5 DEF Works
<1>6. ASSUME NEW d, Works(k, d), ~Works(k2, d)
      PROVE  f.role = "work" /\ f.drain = d
  BY <1>1, <1>2, <1>6 DEF Works
<1> QED
  BY <1>1, <1>3, <1>4, <1>5, <1>6 DEF e, f

\* The frame of a worker with a row for that of the same worker without, or back.
LEMMA SwapFrame ==
  ASSUME NEW k \in Stacks, NEW t \in Thread, NEW f \in Pool!Frame, f.role = "work",
         NEW k2, Swapped(k, t, f, k2)
  PROVE  /\ k2 \in Stacks
         /\ \A u, i, d : BodyAt(k2, u, i, d) <=> BodyAt(k, u, i, d)
         /\ \A d : Works(k2, d) <=> Works(k, d)
<1>1. PICK k1 : Popped(k, t, k1)
  BY DEF Popped, Swapped
<1>2. Pushed(k1, t, f, k2)
  BY <1>1 DEF Popped, Pushed, Swapped, Stacks
<1>3. /\ k1 \in Stacks
      /\ Len(k[t]) \in DOMAIN k[t] /\ k[t][Len(k[t])] = Pool!Last(k[t])
      /\ \A u, i, d : BodyAt(k1, u, i, d) <=> BodyAt(k, u, i, d) /\ ~(u = t /\ i = Len(k[t]))
      /\ \A d : Works(k1, d) => Works(k, d)
      /\ \A d : Works(k, d) /\ ~Works(k1, d) =>
                  Pool!Last(k[t]).role = "work" /\ Pool!Last(k[t]).drain = d
  BY <1>1, PopFrame
<1>4. /\ k2 \in Stacks
      /\ \A u, i, d : BodyAt(k2, u, i, d) <=>
                        \/ BodyAt(k1, u, i, d)
                        \/ u = t /\ i = Len(k1[t]) + 1 /\ f.role = "claim" /\ f.drain = d
      /\ \A d : Works(k2, d) <=> Works(k1, d) \/ (f.role = "work" /\ f.drain = d)
  <2>1. k2 \in Stacks
    BY <1>2, <1>3, PushFrame
  <2>2. ASSUME NEW u, NEW i, NEW d
        PROVE  BodyAt(k2, u, i, d) <=>
                 \/ BodyAt(k1, u, i, d)
                 \/ u = t /\ i = Len(k1[t]) + 1 /\ f.role = "claim" /\ f.drain = d
    BY <1>2, <1>3, PushFrame
  <2>3. \A d : Works(k2, d) <=> Works(k1, d) \/ (f.role = "work" /\ f.drain = d)
    BY <1>2, <1>3, PushFrame
  <2> QED
    BY <2>1, <2>2, <2>3
<1>5. ASSUME NEW u, NEW i, NEW d
      PROVE  BodyAt(k2, u, i, d) <=> BodyAt(k, u, i, d)
  <2>1. ~BodyAt(k, t, Len(k[t]), d)
    BY <1>3 DEF BodyAt, Swapped
  <2> QED
    BY <1>3, <1>4, <2>1
<1>6. ASSUME NEW d
      PROVE  Works(k2, d) <=> Works(k, d)
  <2>1. Works(k, f.drain)
    BY <1>3 DEF Works, Swapped
  <2>2. Works(k, d) /\ ~Works(k1, d) => f.drain = d
    BY <1>3 DEF Swapped
  <2> QED
    BY <1>3, <1>4, <2>1, <2>2
<1> QED
  BY <1>4, <1>5, <1>6

\* A call begins: at width 1 the caller itself works, else a body is asked for.
LEMMA BeginKeeps ==
  ASSUME NEW c, NEW w, NEW h, NEW s, NEW q, NEW k, PoolGood(c, w, h, s, q, k), NEW d \in Drain,
         c[d] = "away", NEW n \in Widths, NEW c2, NEW w2, NEW q2,
         w2 = [w EXCEPT ![d] = n],
         c2 = [c EXCEPT ![d] = IF n = 1 THEN "loop" ELSE "asked"],
         q2 = IF n = 1 THEN q ELSE Append(q, d)
  PROVE  PoolGood(c2, w2, h, s, q2, k)
<1>1. n \in Nat /\ n > 0
  BY PoolAssumption
<1>2. PoolTypes(c2, w2, h, s, k)
  BY <1>1 DEF PoolGood, PoolTypes
<1>3. \A e \in Drain : e # d => c2[e] = c[e] /\ w2[e] = w[e]
  BY DEF PoolGood, PoolTypes
<1>4. c2[d] = (IF n = 1 THEN "loop" ELSE "asked") /\ w2[d] = n
  BY DEF PoolGood, PoolTypes
<1>5. InLine(c2, q2)
  <2>1. q \in Seq(Drain) /\ \A i \in DOMAIN q : q[i] # d /\ c2[q[i]] = "asked"
    BY <1>3 DEF PoolGood, InLine
  <2>2. CASE n = 1
    BY <2>1, <2>2 DEF PoolGood, InLine
  <2>3. CASE n # 1
    <3>1. /\ q2 \in Seq(Drain) /\ DOMAIN q = 1..Len(q) /\ Len(q) \in Nat
          /\ DOMAIN q2 = 1..(Len(q) + 1)
          /\ \A i \in DOMAIN q2 : q2[i] = IF i = Len(q) + 1 THEN d ELSE q[i]
      BY <2>1, <2>3
    <3>2. \A i \in DOMAIN q2 : i = Len(q) + 1 \/ i \in DOMAIN q
      BY <3>1
    <3> QED
      BY <1>4, <2>1, <2>3, <3>1, <3>2 DEF PoolGood, InLine
  <2> QED
    BY <2>2, <2>3
<1>6. OneBody(c2, w2, k)
  BY <1>3 DEF PoolGood, OneBody
<1>7. ASSUME NEW e \in Drain
      PROVE  InHand(e, c2, w2, h, s, k)
  <2>1. CASE e = d
    BY <1>4, <2>1 DEF PoolGood, InHand
  <2>2. CASE e # d
    BY <1>3, <2>2 DEF PoolGood, InHand
  <2> QED
    BY <2>1, <2>2
<1> QED
  BY <1>2, <1>5, <1>6, <1>7 DEF PoolGood

\* A thread takes the first body that waits.
LEMMA HostKeeps ==
  ASSUME NEW c, NEW w, NEW h, NEW s, NEW q, NEW k, PoolGood(c, w, h, s, q, k), NEW d \in Drain,
         q # <<>>, Head(q) = d, NEW t \in Thread, NEW c2, NEW k2,
         c2 = [c EXCEPT ![d] = "spawn"], Pushed(k, t, Pool!ClaimFrame(d), k2)
  PROVE  PoolGood(c2, w, h, s, Tail(q), k2)
<1> DEFINE p == Tail(q)
<1>1. /\ q \in Seq(Drain) /\ p \in Seq(Drain) /\ 1 \in DOMAIN q /\ q[1] = d
      /\ \A i \in DOMAIN p : i \in Nat /\ i + 1 \in DOMAIN q /\ i + 1 # 1 /\ p[i] = q[i + 1]
  BY DEF PoolGood, InLine
<1> HIDE DEF p
<1>2. c[d] = "asked" /\ w[d] # 1
  BY <1>1 DEF PoolGood, InLine, InHand
<1>3. c2[d] = "spawn" /\ \A e \in Drain : e # d => c2[e] = c[e]
  BY DEF PoolGood, PoolTypes
<1>4. /\ Pool!ClaimFrame(d) \in Pool!Frame /\ Pool!ClaimFrame(d).role = "claim"
      /\ Pool!ClaimFrame(d).drain = d
  BY DEF Pool!ClaimFrame, Pool!Frame
<1>5. k \in Stacks
  BY DEF PoolGood, PoolTypes
<1>6. k2 \in Stacks /\ \A e : Works(k2, e) <=> Works(k, e)
  BY <1>4, <1>5, PushFrame
<1>7. \A u, i, e : BodyAt(k2, u, i, e) <=>
                     (BodyAt(k, u, i, e) \/ (u = t /\ i = Len(k[t]) + 1 /\ e = d))
  <2>1. \A u, i, e : BodyAt(k2, u, i, e) <=>
          (BodyAt(k, u, i, e) \/ (u = t /\ i = Len(k[t]) + 1 /\ Pool!ClaimFrame(d).role = "claim"
                                    /\ Pool!ClaimFrame(d).drain = e))
    BY <1>4, <1>5, PushFrame
  <2> QED
    BY <1>4, <2>1
<1>8. PoolTypes(c2, w, h, s, k2)
  BY <1>2, <1>3, <1>6 DEF PoolGood, PoolTypes
<1>9. InLine(c2, p)
  <2>1. \A i \in DOMAIN p : p[i] # d
    BY <1>1 DEF PoolGood, InLine
  <2>2. ASSUME NEW i \in DOMAIN p, NEW j \in DOMAIN p, p[i] = p[j]
        PROVE  i = j
    <3>1. i + 1 = j + 1
      BY <1>1, <2>2 DEF PoolGood, InLine
    <3> QED
      BY <1>1, <3>1
  <2>3. \A i \in DOMAIN p : c2[p[i]] = "asked"
    BY <1>1, <1>3, <2>1 DEF PoolGood, InLine
  <2> QED
    BY <1>1, <2>2, <2>3 DEF InLine
<1>10. OneBody(c2, w, k2)
  <2>1. \A u, i, e : BodyAt(k, u, i, e) => u \in Thread
    BY DEF BodyAt
  <2>2. \A u, i : ~BodyAt(k, u, i, d)
    BY <1>2, <2>1 DEF PoolGood, OneBody
  <2> QED
    BY <1>2, <1>3, <1>7, <2>2 DEF PoolGood, OneBody
<1>11. ASSUME NEW e \in Drain
       PROVE  InHand(e, c2, w, h, s, k2)
  BY <1>2, <1>3, <1>6 DEF PoolGood, InHand
<1> QED
  BY <1>8, <1>9, <1>10, <1>11 DEF PoolGood, p

\* The call of a drain that is past the queue moves on.
LEMMA MoveKeeps ==
  ASSUME NEW c, NEW w, NEW h, NEW s, NEW q, NEW k, PoolGood(c, w, h, s, q, k), NEW d \in Drain,
         NEW x, NEW c2, c2 = [c EXCEPT ![d] = x],
         \/ c[d] \in {"loop", "send"} /\ x \in {"loop", "send"}
         \/ c[d] \in {"loop", "send"} /\ w[d] = 1 /\ x = "away" /\ \A t, i : ~BodyAt(k, t, i, d)
         \/ c[d] \in {"loop", "send"} /\ w[d] # 1 /\ x = "join"
  PROVE  PoolGood(c2, w, h, s, q, k)
<1>1. c2[d] = x /\ \A e \in Drain : e # d => c2[e] = c[e]
  BY DEF PoolGood, PoolTypes
<1>2. PoolTypes(c2, w, h, s, k)
  BY <1>1 DEF PoolGood, PoolTypes
<1>3. InLine(c2, q)
  BY <1>1 DEF PoolGood, InLine
<1>4. OneBody(c2, w, k)
  BY <1>1 DEF PoolGood, OneBody
<1>5. h[d] \in Nat
  BY DEF PoolGood, PoolTypes
<1>6. ASSUME NEW e \in Drain
      PROVE  InHand(e, c2, w, h, s, k)
  <2>1. CASE e = d
    BY <1>1, <1>5, <2>1 DEF PoolGood, InHand
  <2>2. CASE e # d
    BY <1>1, <2>2 DEF PoolGood, InHand
  <2> QED
    BY <2>1, <2>2
<1> QED
  BY <1>2, <1>3, <1>4, <1>6 DEF PoolGood

\* The counters and the workers' frames of a drain in its loop or at its end move.
LEMMA CountKeeps ==
  ASSUME NEW c, NEW w, NEW h, NEW s, NEW q, NEW k, PoolGood(c, w, h, s, q, k), NEW d \in Drain,
         w[d] # 1, c[d] \in {"loop", "send", "join"},
         NEW h2 \in [Drain -> Nat], NEW s2 \in [Drain -> Nat], NEW k2 \in Stacks,
         \A e \in Drain : e # d => h2[e] = h[e] /\ s2[e] = s[e] /\ (Works(k2, e) <=> Works(k, e)),
         \A u, i, e : BodyAt(k2, u, i, e) <=> BodyAt(k, u, i, e),
         (c[d] = "join" /\ h2[d] = 0) \/ s2[d] > 0 \/ Works(k2, d)
  PROVE  PoolGood(c, w, h2, s2, q, k2)
<1>1. PoolTypes(c, w, h2, s2, k2)
  BY DEF PoolGood, PoolTypes
<1>2. InLine(c, q)
  BY DEF PoolGood
<1>3. OneBody(c, w, k2)
  BY DEF PoolGood, OneBody
<1>4. ASSUME NEW e \in Drain
      PROVE  InHand(e, c, w, h2, s2, k2)
  <2>1. CASE e = d
    BY <2>1 DEF InHand
  <2>2. CASE e # d
    BY <2>2 DEF PoolGood, InHand
  <2> QED
    BY <2>1, <2>2
<1> QED
  BY <1>1, <1>2, <1>3, <1>4 DEF PoolGood

LEMMA SpawnKeeps ==
  ASSUME NEW c, NEW w, NEW h, NEW s, NEW q, NEW k, PoolGood(c, w, h, s, q, k), NEW d \in Drain,
         c[d] = "spawn", w[d] # 1, NEW c2, NEW s2,
         c2 = [c EXCEPT ![d] = "loop"], s2 = [s EXCEPT ![d] = w[d]]
  PROVE  PoolGood(c2, w, h, s2, q, k)
<1>1. c2[d] = "loop" /\ \A e \in Drain : e # d => c2[e] = c[e] /\ s2[e] = s[e]
  BY DEF PoolGood, PoolTypes
<1>2. w[d] \in Nat /\ w[d] > 0 /\ s2[d] = w[d]
  BY DEF PoolGood, PoolTypes
<1>3. PoolTypes(c2, w, h, s2, k)
  BY <1>1, <1>2 DEF PoolGood, PoolTypes
<1>4. InLine(c2, q)
  BY <1>1 DEF PoolGood, InLine
<1>5. OneBody(c2, w, k)
  BY <1>1 DEF PoolGood, OneBody
<1>6. ASSUME NEW e \in Drain
      PROVE  InHand(e, c2, w, h, s2, k)
  <2>1. CASE e = d
    BY <1>1, <1>2, <2>1 DEF InHand
  <2>2. CASE e # d
    BY <1>1, <2>2 DEF PoolGood, InHand
  <2> QED
    BY <2>1, <2>2
<1> QED
  BY <1>3, <1>4, <1>5, <1>6 DEF PoolGood

\* The body ends, and its frame with it.
LEMMA JoinKeeps ==
  ASSUME NEW c, NEW w, NEW h, NEW s, NEW q, NEW k, PoolGood(c, w, h, s, q, k), NEW d \in Drain,
         NEW t \in Thread, NEW k2, Popped(k, t, k2), Pool!Last(k[t]) = Pool!ClaimFrame(d),
         c[d] = "join", s[d] = 0, ~Works(k, d), NEW c2, c2 = [c EXCEPT ![d] = "away"]
  PROVE  PoolGood(c2, w, h, s, q, k2)
<1>1. c2[d] = "away" /\ \A e \in Drain : e # d => c2[e] = c[e]
  BY DEF PoolGood, PoolTypes
<1>2. /\ Pool!Last(k[t]).role = "claim" /\ Pool!Last(k[t]).drain = d
  BY DEF Pool!ClaimFrame
<1>3. k \in Stacks /\ h[d] \in Nat
  BY DEF PoolGood, PoolTypes
<1>4. k2 \in Stacks /\ Len(k[t]) \in DOMAIN k[t] /\ k[t][Len(k[t])] = Pool!Last(k[t])
  BY <1>3, PopFrame
<1>5. \A u, i, e : BodyAt(k2, u, i, e) <=> BodyAt(k, u, i, e) /\ ~(u = t /\ i = Len(k[t]))
  BY <1>3, PopFrame
<1>6. \A e : Works(k2, e) <=> Works(k, e)
  <2>1. \A e : Works(k2, e) => Works(k, e)
    BY <1>3, PopFrame
  <2>2. \A e : Works(k, e) /\ ~Works(k2, e) => Pool!Last(k[t]).role = "work" /\ Pool!Last(k[t]).drain = e
    BY <1>3, PopFrame
  <2> QED
    BY <1>2, <2>1, <2>2
<1>7. BodyAt(k, t, Len(k[t]), d)
  BY <1>2, <1>4 DEF BodyAt
<1>8. w[d] # 1 /\ \A u, i : ~BodyAt(k2, u, i, d)
  <2>1. \A u, i, e : BodyAt(k, u, i, e) => u \in Thread
    BY DEF BodyAt
  <2>2. w[d] # 1 /\ \A u, i : BodyAt(k, u, i, d) => u = t /\ i = Len(k[t])
    BY <1>7, <2>1 DEF PoolGood, OneBody
  <2> QED
    BY <1>5, <2>2
<1>9. PoolTypes(c2, w, h, s, k2)
  BY <1>1, <1>4 DEF PoolGood, PoolTypes
<1>10. InLine(c2, q)
  BY <1>1 DEF PoolGood, InLine
<1>11. OneBody(c2, w, k2)
  BY <1>1, <1>5, <1>8 DEF PoolGood, OneBody
<1>12. ASSUME NEW e \in Drain
       PROVE  InHand(e, c2, w, h, s, k2)
  <2>1. CASE e = d
    BY <1>1, <1>3, <1>6, <1>8, <2>1 DEF PoolGood, InHand
  <2>2. CASE e # d
    BY <1>1, <1>6, <2>2 DEF PoolGood, InHand
  <2> QED
    BY <2>1, <2>2
<1> QED
  BY <1>9, <1>10, <1>11, <1>12 DEF PoolGood

LEMMA EnteredIsWorks ==
  ASSUME PoolInv, NEW d \in Drain
  PROVE  Pool!Entered(d) = {} <=> ~Works(stack, d)
<1>1. \A t \in Thread : stack[t] \in Seq(Pool!Frame)
  BY DEF PoolInv, PoolGood, PoolTypes, Stacks
<1>2. ASSUME NEW t \in Thread, NEW r \in BOOLEAN, Pool!WorkFrame(d, r) \in Pool!ToSet(stack[t])
      PROVE  Works(stack, d)
  BY <1>2 DEF Pool!ToSet, Pool!WorkFrame, Works
<1>3. ASSUME NEW t \in Thread, NEW i \in DOMAIN stack[t],
             stack[t][i].role = "work", stack[t][i].drain = d
      PROVE  \E r \in BOOLEAN : Pool!WorkFrame(d, r) \in Pool!ToSet(stack[t])
  <2>1. stack[t][i] \in Pool!Frame
    BY <1>1
  <2>2. stack[t][i].row \in BOOLEAN /\ stack[t][i] = Pool!WorkFrame(d, stack[t][i].row)
    BY <1>3, <2>1 DEF Pool!Frame, Pool!WorkFrame
  <2> QED
    BY <2>2 DEF Pool!ToSet
<1>4. Pool!Entered(d) # {} => Works(stack, d)
  BY <1>2 DEF Pool!Entered
<1>5. Works(stack, d) => Pool!Entered(d) # {}
  BY <1>3 DEF Pool!Entered, Works
<1> QED
  BY <1>4, <1>5

LEMMA PoolInit == Pool!Init => PoolInv
<1> SUFFICES ASSUME Pool!Init PROVE PoolInv
  OBVIOUS
<1>1. /\ \A d \in Drain : call[d] = "away" /\ chan[d] = 0 /\ spawned[d] = 0
      /\ queue = <<>> /\ stack = [t \in Thread |-> <<>>]
  BY DEF Pool!Init
<1>2. stack \in Stacks /\ \A t \in Thread : \A i : i \notin DOMAIN stack[t]
  BY <1>1 DEF Stacks
<1>3. /\ \A t, i, d : ~BodyAt(stack, t, i, d)
      /\ \A d : ~Works(stack, d)
  BY <1>2 DEF BodyAt, Works
<1>4. PoolTypes(call, width, chan, spawned, stack)
  BY <1>1, <1>2 DEF Pool!Init, PoolTypes
<1>5. InLine(call, queue)
  BY <1>1 DEF InLine
<1>6. OneBody(call, width, stack)
  BY <1>3 DEF OneBody
<1>7. \A d \in Drain : InHand(d, call, width, chan, spawned, stack)
  BY <1>1, <1>3 DEF InHand
<1> QED
  BY <1>4, <1>5, <1>6, <1>7 DEF PoolInv, PoolGood

\* The frame that runs in thread t is a body, a worker.
LEMMA TopIsBody ==
  ASSUME PoolInv, NEW t \in Thread, NEW d \in Drain, Pool!Runs(t, Pool!ClaimFrame(d))
  PROVE  BodyAt(stack, t, Len(stack[t]), d) /\ width[d] # 1
<1>1. stack[t] \in Seq(Pool!Frame) /\ stack[t] # <<>> /\ stack[t][Len(stack[t])] = Pool!ClaimFrame(d)
  BY DEF PoolInv, PoolGood, PoolTypes, Stacks, Pool!Runs, Pool!Top, Pool!Last
<1>2. Len(stack[t]) \in DOMAIN stack[t]
  BY <1>1
<1>3. BodyAt(stack, t, Len(stack[t]), d)
  BY <1>1, <1>2 DEF BodyAt, Pool!ClaimFrame
<1> QED
  BY <1>3 DEF PoolInv, PoolGood, OneBody

LEMMA TopIsWorker ==
  ASSUME PoolInv, NEW t \in Thread, NEW d \in Drain, NEW r \in BOOLEAN,
         Pool!Runs(t, Pool!WorkFrame(d, r))
  PROVE  /\ stack[t] # <<>> /\ Pool!Last(stack[t]).role = "work" /\ Pool!Last(stack[t]).drain = d
         /\ Works(stack, d) /\ width[d] # 1 /\ call[d] \in {"loop", "send", "join"}
<1>1. stack[t] \in Seq(Pool!Frame) /\ stack[t] # <<>> /\ stack[t][Len(stack[t])] = Pool!WorkFrame(d, r)
  BY DEF PoolInv, PoolGood, PoolTypes, Stacks, Pool!Runs, Pool!Top, Pool!Last
<1>2. Len(stack[t]) \in DOMAIN stack[t]
  BY <1>1
<1>3. Works(stack, d)
  BY <1>1, <1>2 DEF Works, Pool!WorkFrame
<1>4. width[d] # 1 /\ call[d] \in {"loop", "send", "join"}
  BY <1>3 DEF PoolInv, PoolGood, PoolTypes, InHand
<1>5. Pool!Last(stack[t]).role = "work" /\ Pool!Last(stack[t]).drain = d
  BY <1>1 DEF Pool!Last, Pool!WorkFrame
<1> QED
  BY <1>1, <1>3, <1>4, <1>5

LEMMA CallerSteps ==
  ASSUME PoolInv, NEW d \in Drain, Pool!Begin(d) \/ Pool!CallerWorks(d)
  PROVE  PoolInv'
<1>1. PoolGood(call, width, chan, spawned, queue, stack)
  BY DEF PoolInv
<1>2. CASE Pool!Begin(d)
  <2>1. PICK n \in Widths :
          /\ width' = [width EXCEPT ![d] = n]
          /\ call' = [call EXCEPT ![d] = IF n = 1 THEN "loop" ELSE "asked"]
          /\ queue' = IF n = 1 THEN queue ELSE Append(queue, d)
    BY <1>2 DEF Pool!Begin
  <2>2. call[d] = "away" /\ chan' = chan /\ spawned' = spawned /\ stack' = stack
    BY <1>2 DEF Pool!Begin
  <2>3. PoolGood(call', width', chan, spawned, queue', stack)
    BY <1>1, <2>1, <2>2, BeginKeeps
  <2> QED
    BY <2>2, <2>3 DEF PoolInv
<1>3. CASE Pool!CallerWorks(d)
  <2>1. /\ width[d] = 1 /\ call[d] \in {"loop", "send"}
        /\ \E x \in {"loop", "send", "away"} : call' = [call EXCEPT ![d] = x]
        /\ width' = width /\ chan' = chan /\ spawned' = spawned /\ queue' = queue /\ stack' = stack
    BY <1>3 DEF Pool!CallerWorks, Pool!Serial, Pool!Claim, Pool!EndLoop, Pool!pool
  <2>2. PICK x \in {"loop", "send", "away"} : call' = [call EXCEPT ![d] = x]
    BY <2>1
  <2>3. \A t, i : ~BodyAt(stack, t, i, d)
    <3>1. \A t, i : BodyAt(stack, t, i, d) => t \in Thread
      BY DEF BodyAt
    <3> QED
      BY <1>1, <2>1, <3>1 DEF PoolGood, OneBody
  <2>4. PoolGood(call', width, chan, spawned, queue, stack)
    BY <1>1, <2>1, <2>2, <2>3, MoveKeeps
  <2> QED
    BY <2>1, <2>4 DEF PoolInv
<1> QED
  BY <1>2, <1>3

LEMMA BodySteps ==
  ASSUME PoolInv, NEW t \in Thread, NEW d \in Drain, Pool!Body(t, d)
  PROVE  PoolInv'
<1>1. PoolGood(call, width, chan, spawned, queue, stack) /\ width[d] # 1
  BY TopIsBody DEF PoolInv, Pool!Body
<1>2. CASE call[d] = "spawn" /\ Pool!Spawn(d)
  <2>1. PoolGood(call', width, chan, spawned', queue, stack)
    BY <1>1, <1>2, SpawnKeeps DEF Pool!Spawn
  <2> QED
    BY <1>2, <2>1 DEF PoolInv, Pool!Spawn
<1>3. CASE call[d] = "loop" /\ (Pool!Claim(d) \/ Pool!EndLoop(d))
  <2>1. /\ width' = width /\ chan' = chan /\ spawned' = spawned /\ queue' = queue /\ stack' = stack
        /\ \E x \in {"send", "join"} : call' = [call EXCEPT ![d] = x]
    BY <1>1, <1>3 DEF Pool!Claim, Pool!EndLoop, Pool!Serial, Pool!pool
  <2>2. PICK x \in {"send", "join"} : call' = [call EXCEPT ![d] = x]
    BY <2>1
  <2>3. PoolGood(call', width, chan, spawned, queue, stack)
    BY <1>1, <1>3, <2>2, MoveKeeps
  <2> QED
    BY <2>1, <2>3 DEF PoolInv
<1>4. CASE call[d] = "send" /\ Pool!Send(d)
  <2> DEFINE h == [chan EXCEPT ![d] = chan[d] + 1]
  <2>1. /\ chan' = h /\ call' = [call EXCEPT ![d] = "loop"]
        /\ width' = width /\ spawned' = spawned /\ queue' = queue /\ stack' = stack
    BY <1>4 DEF Pool!Send
  <2>2. h \in [Drain -> Nat] /\ \A e \in Drain : e # d => h[e] = chan[e]
    BY <1>1 DEF PoolGood, PoolTypes
  <2> HIDE DEF h
  <2>3. /\ spawned \in [Drain -> Nat] /\ stack \in Stacks
        /\ spawned[d] > 0 \/ Works(stack, d)
    BY <1>1, <1>4 DEF PoolGood, PoolTypes, InHand
  <2>4. PoolGood(call, width, h, spawned, queue, stack)
    BY <1>1, <1>4, <2>2, <2>3, CountKeeps
  <2>5. PoolGood(call', width, h, spawned, queue, stack)
    BY <1>1, <1>4, <2>1, <2>4, MoveKeeps
  <2> QED
    BY <2>1, <2>5 DEF PoolInv
<1> QED
  BY <1>2, <1>3, <1>4 DEF Pool!Body

LEMMA HostSteps ==
  ASSUME PoolInv, NEW t \in Thread, NEW d \in Drain, Pool!Host(t, d)
  PROVE  PoolInv'
<1>1. PoolGood(call, width, chan, spawned, queue, stack)
  BY DEF PoolInv
<1>2. /\ queue # <<>> /\ Head(queue) = d /\ queue' = Tail(queue)
      /\ call' = [call EXCEPT ![d] = "spawn"] /\ Pushed(stack, t, Pool!ClaimFrame(d), stack')
      /\ width' = width /\ chan' = chan /\ spawned' = spawned
  BY DEF Pool!Host, Pushed
<1>3. PoolGood(call', width, chan, spawned, Tail(queue), stack')
  BY <1>1, <1>2, HostKeeps
<1> QED
  BY <1>2, <1>3 DEF PoolInv

LEMMA JoinSteps ==
  ASSUME PoolInv, NEW t \in Thread, NEW d \in Drain, Pool!Join(t, d)
  PROVE  PoolInv'
<1>1. PoolGood(call, width, chan, spawned, queue, stack)
  BY DEF PoolInv
<1>2. /\ Popped(stack, t, stack') /\ Pool!Last(stack[t]) = Pool!ClaimFrame(d)
      /\ call[d] = "join" /\ spawned[d] = 0 /\ Pool!Entered(d) = {}
      /\ call' = [call EXCEPT ![d] = "away"]
      /\ width' = width /\ chan' = chan /\ spawned' = spawned /\ queue' = queue
  BY DEF Pool!Join, Pool!Runs, Pool!Top, Pool!Complete, Popped
<1>3. PoolGood(call', width, chan, spawned, queue, stack')
  BY <1>1, <1>2, EnteredIsWorks, JoinKeeps
<1> QED
  BY <1>2, <1>3 DEF PoolInv

LEMMA WorkerSteps ==
  ASSUME PoolInv, NEW t \in Thread, NEW d \in Drain,
         Pool!Enter(t, d) \/ Pool!Take(t, d) \/ Pool!Settle(t, d) \/ Pool!Leave(t, d)
  PROVE  PoolInv'
<1>1. /\ PoolGood(call, width, chan, spawned, queue, stack)
      /\ stack \in Stacks /\ chan \in [Drain -> Nat] /\ spawned \in [Drain -> Nat]
  BY DEF PoolInv, PoolGood, PoolTypes
<1>2. \A r \in BOOLEAN : /\ Pool!WorkFrame(d, r) \in Pool!Frame
                         /\ Pool!WorkFrame(d, r).role = "work" /\ Pool!WorkFrame(d, r).drain = d
  BY DEF Pool!WorkFrame, Pool!Frame
<1>3. CASE Pool!Enter(t, d)
  <2> DEFINE s == [spawned EXCEPT ![d] = spawned[d] - 1]
             f == Pool!WorkFrame(d, FALSE)
  <2>1. /\ spawned' = s /\ Pushed(stack, t, f, stack')
        /\ call' = call /\ width' = width /\ chan' = chan /\ queue' = queue
        /\ spawned[d] > 0
    BY <1>3 DEF Pool!Enter, Pool!Offered, Pool!Own, Pushed
  <2>2. s \in [Drain -> Nat] /\ \A e \in Drain : e # d => s[e] = spawned[e]
    BY <1>1, <2>1
  <2>3. f \in Pool!Frame /\ f.role = "work" /\ f.drain = d
    BY <1>2
  <2> HIDE DEF s, f
  <2>4. stack' \in Stacks /\ Works(stack', d)
    BY <1>1, <2>1, <2>3, PushFrame
  <2>5. \A e : e # d => (Works(stack', e) <=> Works(stack, e))
    BY <1>1, <2>1, <2>3, PushFrame
  <2>6. ASSUME NEW u, NEW i, NEW e
        PROVE  BodyAt(stack', u, i, e) <=> BodyAt(stack, u, i, e)
    <3>1. BodyAt(stack', u, i, e) <=>
            \/ BodyAt(stack, u, i, e)
            \/ u = t /\ i = Len(stack[t]) + 1 /\ f.role = "claim" /\ f.drain = e
      BY <1>1, <2>1, <2>3, PushFrame
    <3> QED
      BY <2>3, <3>1
  <2>7. width[d] # 1 /\ call[d] \in {"loop", "send", "join"}
    BY <1>1, <2>1 DEF PoolGood, PoolTypes, InHand
  <2>8. PoolGood(call, width, chan, s, queue, stack')
    BY <1>1, <2>2, <2>4, <2>5, <2>6, <2>7, CountKeeps
  <2> QED
    BY <2>1, <2>8 DEF PoolInv
<1>4. CASE Pool!Take(t, d) \/ Pool!Settle(t, d)
  <2> DEFINE h == IF Pool!Take(t, d) THEN [chan EXCEPT ![d] = chan[d] - 1] ELSE chan
  <2>1. PICK r \in BOOLEAN : Pool!Runs(t, Pool!WorkFrame(d, r))
    BY <1>4 DEF Pool!Take, Pool!Settle
  <2>2. PICK r2 \in BOOLEAN :
          stack' = [stack EXCEPT ![t] = Append(Pool!Front(stack[t]), Pool!WorkFrame(d, r2))]
    BY <1>4 DEF Pool!Take, Pool!Settle
  <2>3. /\ chan' = h /\ spawned' = spawned /\ call' = call /\ width' = width /\ queue' = queue
        /\ Pool!Take(t, d) => chan[d] > 0
    BY <1>4 DEF Pool!Take, Pool!Settle
  <2>4. h \in [Drain -> Nat] /\ \A e \in Drain : e # d => h[e] = chan[e]
    BY <1>1, <2>3
  <2> HIDE DEF h
  <2>5. /\ stack[t] # <<>> /\ Pool!Last(stack[t]).role = "work" /\ Pool!Last(stack[t]).drain = d
        /\ Works(stack, d) /\ width[d] # 1 /\ call[d] \in {"loop", "send", "join"}
    BY <2>1, TopIsWorker
  <2>6. PICK f \in Pool!Frame : f = Pool!WorkFrame(d, r2)
    BY <1>2
  <2>7. f.role = "work" /\ Swapped(stack, t, f, stack')
    BY <1>2, <2>2, <2>5, <2>6 DEF Swapped
  <2>8. stack' \in Stacks /\ \A e : Works(stack', e) <=> Works(stack, e)
    BY <1>1, <2>7, SwapFrame
  <2>9. \A u, i, e : BodyAt(stack', u, i, e) <=> BodyAt(stack, u, i, e)
    BY <1>1, <2>7, SwapFrame
  <2>10. PICK h2 \in [Drain -> Nat] : h2 = h
    BY <2>4
  <2>11. PoolGood(call, width, h2, spawned, queue, stack')
    <3>1. \A e \in Drain : e # d =>
             h2[e] = chan[e] /\ spawned[e] = spawned[e] /\ (Works(stack', e) <=> Works(stack, e))
      BY <2>4, <2>8, <2>10
    <3>2. Works(stack', d) /\ stack' \in Stacks /\ width[d] # 1 /\ call[d] \in {"loop", "send", "join"}
      BY <2>5, <2>8
    <3> QED
      BY <1>1, <2>9, <3>1, <3>2, CountKeeps
  <2> QED
    BY <2>3, <2>10, <2>11 DEF PoolInv
<1>5. CASE Pool!Leave(t, d)
  <2>1. /\ Popped(stack, t, stack') /\ call[d] = "join" /\ chan[d] = 0
        /\ chan' = chan /\ spawned' = spawned /\ call' = call /\ width' = width /\ queue' = queue
    BY <1>5 DEF Pool!Leave, Pool!Runs, Popped
  <2>2. /\ Pool!Last(stack[t]).role = "work" /\ Pool!Last(stack[t]).drain = d /\ width[d] # 1
    BY <1>5, TopIsWorker DEF Pool!Leave
  <2>3. stack' \in Stacks /\ Len(stack[t]) \in DOMAIN stack[t] /\ stack[t][Len(stack[t])] = Pool!Last(stack[t])
    BY <1>1, <2>1, PopFrame
  <2>4. \A e : e # d => (Works(stack', e) <=> Works(stack, e))
    <3>1. \A e : Works(stack', e) => Works(stack, e)
      BY <1>1, <2>1, PopFrame
    <3>2. \A e : Works(stack, e) /\ ~Works(stack', e) => Pool!Last(stack[t]).drain = e
      BY <1>1, <2>1, PopFrame
    <3> QED
      BY <2>2, <3>1, <3>2
  <2>5. \A u, i, e : BodyAt(stack', u, i, e) <=> BodyAt(stack, u, i, e)
    <3>1. \A u, i, e : BodyAt(stack', u, i, e) <=> BodyAt(stack, u, i, e) /\ ~(u = t /\ i = Len(stack[t]))
      BY <1>1, <2>1, PopFrame
    <3>2. \A e : ~BodyAt(stack, t, Len(stack[t]), e)
      BY <2>2, <2>3 DEF BodyAt
    <3> QED
      BY <3>1, <3>2
  <2>6. PoolGood(call, width, chan, spawned, queue, stack')
    BY <1>1, <2>1, <2>2, <2>3, <2>4, <2>5, CountKeeps
  <2> QED
    BY <2>1, <2>6 DEF PoolInv
<1> QED
  BY <1>3, <1>4, <1>5

LEMMA PoolInvariant == Pool!Init /\ [][Pool!Next]_poolVars => []PoolInv
<1>1. ASSUME PoolInv, [Pool!Next]_poolVars
      PROVE  PoolInv'
  <2>1. CASE UNCHANGED poolVars
    BY <1>1, <2>1 DEF poolVars, PoolInv
  <2> QED
    BY <1>1, <2>1, CallerSteps, BodySteps, HostSteps, JoinSteps, WorkerSteps
       DEF Pool!Next, Pool!ThreadStep
<1> QED
  BY <1>1, PoolInit, PTL

\* Whatever number of drains share whatever number of threads: when a call of
\* process_*_queue has returned, no row it claimed is left in its channel or in a
\* worker's hands.
THEOREM NothingLeftInHand == Pool!PipelineSpec => []NothingInHand
<1>1. PoolInv => NothingInHand
  BY EnteredIsWorks DEF PoolInv, PoolGood, InHand, NothingInHand, Pool!NothingInHand
<1> QED
  BY <1>1, PoolInvariant, PTL DEF Pool!PipelineSpec, Pool!vars, poolVars

-----------------------------------------------------------------------------
(* The model files (ModelFiles). *)

FilesTypes ==
  /\ version \in Nat /\ version > 0
  /\ DOMAIN disk = Weights
  /\ known \in [Weights -> {0, version}]
  /\ Files!Recorded(index) \in [Weights -> 0..version]
  /\ lock # AtRest => lock = [what |-> lock.what, model |-> lock.model, trusted |-> lock.trusted]
  /\ loaded \subseteq Weights
  /\ ~up => loaded = {} /\ lock = AtRest

Kept(m) == disk[m] = "whole" \/ m \in doubtful
Gated(what, m) == lock # AtRest /\ lock.what = what /\ lock.model = m

\* A record under the manifest of this program speaks for a directory that is
\* right, unless it is not complete: the next launch drops it then.
IndexSpeaks(m) ==
  Files!Recorded(index)[m] = version /\ Files!Complete(disk, m) => Kept(m)

\* What the registry publishes is right or, after a removal whose record could not
\* be written, hidden until the program ends.
RegistrySpeaks(m) == known[m] # 0 => Kept(m) \/ (m \in hidden /\ disk[m] = "none")

LoadedSpeaks(m) == m \in loaded => known[m] # 0 /\ Kept(m)

\* What the holder of the gate relies on.
GateHolds(m) ==
  /\ Gated("download", m) => known[m] = 0 /\ m \notin hidden
  /\ Gated("remove", m) => m \in hidden
  /\ Gated("unrecord", m) => m \in hidden /\ m \notin loaded /\ disk[m] = "none"

Sound(m) == IndexSpeaks(m) /\ RegistrySpeaks(m) /\ LoadedSpeaks(m) /\ GateHolds(m)

FilesInv == FilesTypes /\ \A m \in Weights : Sound(m)

LEMMA FilesInit == Files!Init => FilesInv
<1> SUFFICES ASSUME Files!Init PROVE FilesInv
  OBVIOUS
<1>1. Files!Recorded(index) = [m \in Weights |-> 0] /\ known = [m \in Weights |-> 0]
  BY DEF Files!Init, Files!Recorded, Files!NoRecord
<1>2. FilesTypes
  BY <1>1 DEF Files!Init, FilesTypes
<1>3. \A m \in Weights : Sound(m)
  BY <1>1 DEF Files!Init, Sound, IndexSpeaks, RegistrySpeaks, LoadedSpeaks, GateHolds, Gated
<1> QED
  BY <1>2, <1>3 DEF FilesInv

\* Consumers come and go, operations begin and end, the program and its index are
\* lost.
LEMMA QuietSteps ==
  ASSUME FilesInv, NEW m \in Weights,
         \/ Files!Load(m) \/ Files!Unload(m) \/ Files!DownloadBegins(m) \/ Files!DownloadEnds(m)
         \/ Files!RemoveBegins(m) \/ Files!RemoveTimesOut(m) \/ Files!LoseIndex
  PROVE  FilesInv'
<1>1. /\ UNCHANGED <<up, version, disk, known, doubtful>>
      /\ \/ index' = index
         \/ index' = Unreadable
  BY DEF Files!Load, Files!Unload, Files!DownloadBegins, Files!DownloadEnds, Files!RemoveBegins,
         Files!RemoveTimesOut, Files!LoseIndex, Files!registry
<1>2. /\ Files!Recorded(index)' \in [Weights -> 0..version]
      /\ \A n \in Weights : Files!Recorded(index)'[n] \in {0, Files!Recorded(index)[n]}
  BY <1>1 DEF FilesInv, FilesTypes, Files!Recorded, Files!NoRecord
<1>3. FilesTypes'
  <2>1. /\ lock' # AtRest => lock' = [what |-> lock'.what, model |-> lock'.model, trusted |-> lock'.trusted]
        /\ ~up => loaded' = {} /\ lock' = AtRest
    BY DEF FilesInv, FilesTypes, Files!Load, Files!Unload, Files!DownloadBegins, Files!DownloadEnds,
           Files!RemoveBegins, Files!RemoveTimesOut, Files!LoseIndex, Files!Enter, Files!Leave, Files!Holds
  <2>2. loaded' \subseteq Weights
    BY DEF FilesInv, FilesTypes, Files!Load, Files!Unload, Files!DownloadBegins, Files!DownloadEnds,
           Files!RemoveBegins, Files!RemoveTimesOut, Files!LoseIndex
  <2> QED
    BY <1>1, <1>2, <2>1, <2>2 DEF FilesInv, FilesTypes
<1>4. ASSUME NEW n \in Weights
      PROVE  Sound(n)'
  <2>1. Sound(n) /\ Kept(n)' = Kept(n)
    BY <1>1 DEF FilesInv, Kept
  <2>2. IndexSpeaks(n)'
    BY <1>1, <1>2, <2>1 DEF FilesInv, FilesTypes, Sound, IndexSpeaks, Kept, Files!Complete
  <2>3. RegistrySpeaks(n)' /\ LoadedSpeaks(n)'
    BY <1>1, <2>1 DEF Sound, RegistrySpeaks, LoadedSpeaks, GateHolds, Kept, Files!Load, Files!Unload,
       Files!DownloadBegins, Files!DownloadEnds, Files!RemoveBegins, Files!RemoveTimesOut,
       Files!LoseIndex, Files!Planned, Files!Holds, Gated
  <2>4. GateHolds(n)'
    BY <1>1, <2>1 DEF Sound, GateHolds, Gated, Files!Load, Files!Unload, Files!DownloadBegins,
       Files!DownloadEnds, Files!RemoveBegins, Files!RemoveTimesOut, Files!LoseIndex, Files!Enter,
       Files!Leave, Files!Holds
  <2> QED
    BY <2>2, <2>3, <2>4 DEF Sound
<1> QED
  BY <1>3, <1>4 DEF FilesInv

LEMMA CrashSteps ==
  ASSUME FilesInv, Files!Crash
  PROVE  FilesInv'
<1>1. /\ UNCHANGED <<version, disk, index, doubtful>>
      /\ known' = [m \in Weights |-> 0] /\ hidden' = {} /\ lock' = AtRest /\ loaded' = {}
  BY DEF Files!Crash, Files!NoRecord
<1>2. FilesTypes'
  BY <1>1 DEF FilesInv, FilesTypes, Files!Recorded, Files!NoRecord
<1>3. \A n \in Weights : Sound(n)'
  BY <1>1 DEF FilesInv, Sound, IndexSpeaks, RegistrySpeaks, LoadedSpeaks, GateHolds, Gated, Kept,
     Files!Complete, Files!Recorded, Files!NoRecord
<1> QED
  BY <1>2, <1>3 DEF FilesInv

\* The files change under the gate.
LEMMA DiskSteps ==
  ASSUME FilesInv, NEW m \in Weights,
         Files!Fetch(m) \/ Files!Delete(m) \/ Files!DeleteFails(m)
  PROVE  FilesInv'
<1>1. UNCHANGED <<up, version, index, known, loaded>> /\ m \notin loaded
  <2>1. Sound(m)
    BY DEF FilesInv
  <2> QED
    BY <2>1 DEF Sound, GateHolds, LoadedSpeaks, Gated, Files!Fetch, Files!Delete, Files!DeleteFails,
       Files!Holds, Files!registry
<1>2. PICK what \in {"none", "some", "whole"} : disk' = [disk EXCEPT ![m] = what]
  BY DEF Files!Fetch, Files!Delete, Files!DeleteFails
<1>3. /\ DOMAIN disk' = Weights /\ disk'[m] = what
      /\ \A n \in Weights : n # m => disk'[n] = disk[n]
  BY <1>2 DEF FilesInv, FilesTypes
<1>4. FilesTypes'
  <2>1. /\ lock' # AtRest => lock' = [what |-> lock'.what, model |-> lock'.model, trusted |-> lock'.trusted]
        /\ ~up => lock' = AtRest
    BY DEF FilesInv, FilesTypes, Files!Fetch, Files!Delete, Files!DeleteFails, Files!Holds, Files!Leave
  <2> QED
    BY <1>1, <1>3, <2>1 DEF FilesInv, FilesTypes, Files!Recorded, Files!NoRecord
<1>5. ASSUME NEW n \in Weights, n # m
      PROVE  Sound(n)'
  <2>1. Sound(n) /\ disk'[n] = disk[n]
    BY <1>3, <1>5 DEF FilesInv
  <2>2. Kept(n) => Kept(n)'
    BY <1>5, <2>1 DEF Kept, Files!Fetch, Files!Delete, Files!DeleteFails
  <2>3. n \in hidden' <=> n \in hidden
    BY <1>5 DEF Files!Fetch, Files!Delete, Files!DeleteFails
  <2>4. \A w : ~Gated(w, n)'
    BY <1>5 DEF Files!Fetch, Files!Delete, Files!DeleteFails, Files!Holds, Gated, Files!Leave,
       FilesInv, FilesTypes
  <2>5. Files!Recorded(index)' = Files!Recorded(index) /\ (Files!Complete(disk, n)' <=> Files!Complete(disk, n))
    BY <1>1, <2>1 DEF Files!Recorded, Files!NoRecord, Files!Complete
  <2> QED
    BY <1>1, <2>1, <2>2, <2>3, <2>4, <2>5 DEF Sound, IndexSpeaks, RegistrySpeaks, LoadedSpeaks, GateHolds
<1>6. Sound(m)'
  <2>1. Sound(m)
    BY DEF FilesInv
  <2>2. IndexSpeaks(m)' /\ LoadedSpeaks(m)'
    BY <1>1, <1>3 DEF IndexSpeaks, LoadedSpeaks, Kept, Files!Complete
  <2>3. CASE Files!Fetch(m)
    BY <1>1, <2>1, <2>2, <2>3 DEF Sound, GateHolds, RegistrySpeaks, Gated, Files!Fetch, Files!Holds
  <2>4. CASE Files!Delete(m)
    <3>1. /\ disk'[m] = "none" /\ hidden' = hidden /\ m \in hidden
          /\ lock' = [lock EXCEPT !.what = "unrecord"] /\ lock # AtRest
      BY <1>3, <2>1, <2>4 DEF Files!Delete, Files!Holds, Sound, GateHolds, Gated, FilesInv, FilesTypes
    <3>2. lock'.what = "unrecord"
      BY <3>1 DEF FilesInv, FilesTypes
    <3> QED
      BY <1>1, <2>2, <3>1, <3>2 DEF Sound, GateHolds, RegistrySpeaks, Gated
  <2>5. CASE Files!DeleteFails(m)
    BY <1>1, <2>2, <2>5 DEF Sound, GateHolds, RegistrySpeaks, Gated, Kept, Files!DeleteFails, Files!Leave
  <2> QED
    BY <2>3, <2>4, <2>5
<1> QED
  BY <1>4, <1>5, <1>6 DEF FilesInv

\* What reaches the index is the old index or records that speak for the disk.
LEMMA Commits ==
  ASSUME FilesInv, version' = version, \A n \in Weights : disk'[n] = disk[n],
         NEW all \in [Weights -> 0..version], index' \in {index, all},
         \A n \in Weights : all[n] = version /\ Files!Complete(disk, n) => Kept(n)',
         \A n \in Weights : Kept(n) /\ Files!Complete(disk, n) => Kept(n)'
  PROVE  Files!Recorded(index)' \in [Weights -> 0..version] /\ \A n \in Weights : IndexSpeaks(n)'
<1>1. CASE index' = index
  <2>1. Files!Recorded(index)' = Files!Recorded(index)
    BY <1>1 DEF Files!Recorded, Files!NoRecord
  <2> QED
    BY <2>1 DEF FilesInv, FilesTypes, Sound, IndexSpeaks, Files!Complete
<1>2. CASE index' = all
  <2>1. CASE index' = Unreadable
    <3>1. Files!Recorded(index)' = [n \in Weights |-> 0]
      BY <2>1 DEF Files!Recorded, Files!NoRecord
    <3> QED
      BY <3>1 DEF FilesInv, FilesTypes, IndexSpeaks
  <2>2. CASE index' # Unreadable
    <3>1. Files!Recorded(index)' = all
      BY <1>2, <2>2 DEF Files!Recorded
    <3> QED
      BY <3>1 DEF IndexSpeaks, Files!Complete
  <2> QED
    BY <2>1, <2>2
<1> QED
  BY <1>1, <1>2

LEMMA InstallStep ==
  ASSUME FilesInv, NEW m \in Weights, Files!Install(m)
  PROVE  FilesInv'
<1> DEFINE ix == [Files!Recorded(index) EXCEPT ![m] = version]
<1>1. /\ UNCHANGED <<up, version, disk, hidden, loaded>> /\ lock' = AtRest /\ lock # AtRest
      /\ index' \in {index, ix}
      /\ known' \in {known, [known EXCEPT ![m] = version]}
      /\ doubtful \subseteq doubtful' /\ doubtful' \subseteq doubtful \cup {m}
      /\ disk[m] = "whole" \/ m \in doubtful'
  BY DEF Files!Install, Files!Holds, Files!Leave, Files!Written, Files!NotWritten
<1>2. ix \in [Weights -> 0..version] /\ \A n \in Weights : n # m => ix[n] = Files!Recorded(index)[n]
  BY DEF FilesInv, FilesTypes
<1>3. Kept(m)' /\ \A n \in Weights : Kept(n) => Kept(n)'
  BY <1>1 DEF Kept
<1>4. \A n \in Weights : ix[n] = version /\ Files!Complete(disk, n) => Kept(n)'
  BY <1>2, <1>3 DEF FilesInv, Sound, IndexSpeaks
<1> HIDE DEF ix
<1>5. Files!Recorded(index)' \in [Weights -> 0..version] /\ \A n \in Weights : IndexSpeaks(n)'
  BY <1>1, <1>2, <1>3, <1>4, Commits
<1>6. FilesTypes'
  <2>1. known' \in [Weights -> {0, version}]
    BY <1>1 DEF FilesInv, FilesTypes
  <2> QED
    BY <1>1, <1>5, <2>1 DEF FilesInv, FilesTypes
<1>7. ASSUME NEW n \in Weights
      PROVE  Sound(n)'
  <2>1. Sound(n) /\ (n # m => known'[n] = known[n]) /\ (known'[n] = 0 => known[n] = 0)
    BY <1>1 DEF FilesInv, FilesTypes
  <2>2. RegistrySpeaks(n)' /\ LoadedSpeaks(n)' /\ GateHolds(n)'
    BY <1>1, <1>3, <2>1 DEF Sound, RegistrySpeaks, LoadedSpeaks, GateHolds, Gated
  <2> QED
    BY <1>5, <2>2 DEF Sound
<1> QED
  BY <1>6, <1>7 DEF FilesInv

\* Verify and the managed recovery write what the registry publishes and what was
\* just hashed.
LEMMA ProofSteps ==
  ASSUME FilesInv, Files!Recover \/ \E m \in Weights : Files!Verify(m)
  PROVE  FilesInv'
<1>1. /\ UNCHANGED <<up, version, disk, hidden, loaded, lock, doubtful>> /\ lock = AtRest
      /\ \E all \in [Weights -> {0, version}] :
           /\ \A n \in Weights : all[n] = known[n] \/ disk[n] = "whole"
           /\ \A n \in Weights : all[n] = 0 => known[n] = 0
           /\ index' \in {index, all} /\ known' \in {known, all}
  <2>1. CASE Files!Recover
    <3> DEFINE all == [m \in Weights |-> IF m \in {x \in unproved : disk[x] = "whole"} THEN version ELSE known[m]]
    <3>1. all \in [Weights -> {0, version}]
      BY DEF FilesInv, FilesTypes
    <3>2. /\ \A n \in Weights : all[n] = known[n] \/ disk[n] = "whole"
          /\ \A n \in Weights : all[n] = 0 => known[n] = 0
      BY DEF FilesInv, FilesTypes
    <3>3. index' \in {index, all} /\ known' \in {known, all}
      BY <2>1 DEF Files!Recover, Files!Written, Files!NotWritten, Files!registry
    <3>4. UNCHANGED <<up, version, disk, hidden, loaded, lock, doubtful>> /\ lock = AtRest
      BY <2>1 DEF Files!Recover
    <3> QED
      BY <3>1, <3>2, <3>3, <3>4
  <2>2. ASSUME NEW m \in Weights, Files!Verify(m)
        PROVE  /\ UNCHANGED <<up, version, disk, hidden, loaded, lock, doubtful>> /\ lock = AtRest
               /\ \E all \in [Weights -> {0, version}] :
                    /\ \A n \in Weights : all[n] = known[n] \/ disk[n] = "whole"
                    /\ \A n \in Weights : all[n] = 0 => known[n] = 0
                    /\ index' \in {index, all} /\ known' \in {known, all}
    <3> DEFINE all == [known EXCEPT ![m] = IF @ = 0 THEN version ELSE @]
    <3>1. all \in [Weights -> {0, version}]
      BY DEF FilesInv, FilesTypes
    <3>2. /\ \A n \in Weights : all[n] = known[n] \/ disk[n] = "whole"
          /\ \A n \in Weights : all[n] = 0 => known[n] = 0
      BY <2>2 DEF FilesInv, FilesTypes, Files!Verify
    <3>3. index' \in {index, all} /\ known' \in {known, all}
      BY <2>2 DEF Files!Verify, Files!Written, Files!NotWritten
    <3>4. UNCHANGED <<up, version, disk, hidden, loaded, lock, doubtful>> /\ lock = AtRest
      BY <2>2 DEF Files!Verify
    <3> QED
      BY <3>1, <3>2, <3>3, <3>4
  <2> QED
    BY <2>1, <2>2
<1>2. PICK all \in [Weights -> {0, version}] :
           /\ \A n \in Weights : all[n] = known[n] \/ disk[n] = "whole"
           /\ \A n \in Weights : all[n] = 0 => known[n] = 0
           /\ index' \in {index, all} /\ known' \in {known, all}
  BY <1>1
<1>3. all \in [Weights -> 0..version] /\ version # 0
  BY DEF FilesInv, FilesTypes
<1>4. \A n \in Weights : Kept(n)' <=> Kept(n)
  BY <1>1 DEF Kept
<1>5. \A n \in Weights : all[n] = version /\ Files!Complete(disk, n) => Kept(n)'
  BY <1>2, <1>3, <1>4 DEF FilesInv, Sound, RegistrySpeaks, Kept, Files!Complete
<1>6. Files!Recorded(index)' \in [Weights -> 0..version] /\ \A n \in Weights : IndexSpeaks(n)'
  BY <1>1, <1>2, <1>3, <1>4, <1>5, Commits
<1>7. FilesTypes'
  BY <1>1, <1>2, <1>6 DEF FilesInv, FilesTypes
<1>8. ASSUME NEW n \in Weights
      PROVE  Sound(n)'
  <2>1. /\ Sound(n) /\ (known'[n] = known[n] \/ disk[n] = "whole")
        /\ known'[n] = 0 => known[n] = 0
    BY <1>2 DEF FilesInv
  <2>2. RegistrySpeaks(n)' /\ LoadedSpeaks(n)' /\ GateHolds(n)'
    BY <1>1, <1>4, <2>1 DEF Sound, RegistrySpeaks, LoadedSpeaks, GateHolds, Gated, Kept
  <2> QED
    BY <1>6, <2>2 DEF Sound
<1> QED
  BY <1>7, <1>8 DEF FilesInv

LEMMA UnrecordStep ==
  ASSUME FilesInv, NEW m \in Weights, Files!Unrecord(m)
  PROVE  FilesInv'
<1> DEFINE all == [known EXCEPT ![m] = 0]
<1>1. /\ UNCHANGED <<up, version, disk, loaded>> /\ lock' = AtRest
      /\ index' \in {index, all}
      /\ (known' = all /\ hidden' = hidden \ {m}) \/ (UNCHANGED <<known, hidden>>)
      /\ doubtful' = doubtful \ {m}
      /\ m \in hidden /\ m \notin loaded /\ disk[m] = "none"
  <2>1. Sound(m)
    BY DEF FilesInv
  <2> QED
    BY <2>1 DEF Files!Unrecord, Files!Holds, Files!Leave, Files!Written, Files!NotWritten,
       Sound, GateHolds, Gated
<1>2. /\ all \in [Weights -> {0, version}] /\ all \in [Weights -> 0..version] /\ version # 0
      /\ all[m] = 0 /\ \A n \in Weights : n # m => all[n] = known[n]
  BY DEF FilesInv, FilesTypes
<1> HIDE DEF all
<1>3. ~Files!Complete(disk, m) /\ \A n \in Weights : n # m => (Kept(n)' <=> Kept(n))
  BY <1>1 DEF Kept, Files!Complete
<1>4. /\ \A n \in Weights : all[n] = version /\ Files!Complete(disk, n) => Kept(n)'
      /\ \A n \in Weights : Kept(n) /\ Files!Complete(disk, n) => Kept(n)'
  BY <1>2, <1>3 DEF FilesInv, Sound, RegistrySpeaks, Kept, Files!Complete
<1>5. Files!Recorded(index)' \in [Weights -> 0..version] /\ \A n \in Weights : IndexSpeaks(n)'
  BY <1>1, <1>2, <1>4, Commits
<1>6. FilesTypes'
  BY <1>1, <1>2, <1>5 DEF FilesInv, FilesTypes
<1>7. ASSUME NEW n \in Weights
      PROVE  Sound(n)'
  <2>1. Sound(n)
    BY DEF FilesInv
  <2>2. RegistrySpeaks(n)' /\ LoadedSpeaks(n)' /\ GateHolds(n)'
    BY <1>1, <1>2, <1>3, <2>1 DEF Sound, RegistrySpeaks, LoadedSpeaks, GateHolds, Gated
  <2> QED
    BY <1>5, <2>2 DEF Sound
<1> QED
  BY <1>6, <1>7 DEF FilesInv

\* A launch finds the directories as they were left, or a new manifest that no record
\* speaks for yet.
LEMMA LaunchStep ==
  ASSUME FilesInv, Files!Launch
  PROVE  FilesInv'
<1>1. PICK v \in {version} \cup ({version + 1} \cap 1..MaxVersion) :
        \E d \in [Weights -> {"none", "some", "whole", "alike"}] :
            /\ \A m \in Weights : d[m] \in IF v = version THEN {disk[m]} ELSE Files!Becomes(disk[m])
            /\ version' = v /\ disk' = d /\ Files!Open(v, d)
  BY DEF Files!Launch
<1>2. PICK d \in [Weights -> {"none", "some", "whole", "alike"}] :
            /\ \A m \in Weights : d[m] \in IF v = version THEN {disk[m]} ELSE Files!Becomes(disk[m])
            /\ version' = v /\ disk' = d /\ Files!Open(v, d)
  BY <1>1
<1> DEFINE ix == Files!Recorded(index)
           kept == [m \in Weights |-> IF Files!Complete(d, m) /\ ix[m] = v THEN v ELSE 0]
<1>3. /\ UNCHANGED <<hidden, lock, loaded, doubtful>> /\ loaded = {} /\ lock = AtRest
      /\ known' = kept /\ index' \in {index, kept}
  BY <1>2 DEF Files!Launch, Files!Open, Files!Written, Files!NotWritten, FilesInv, FilesTypes
<1>4. v \in Nat /\ v > 0 /\ (v = version \/ v = version + 1)
  BY DEF FilesInv, FilesTypes
<1>5. kept \in [Weights -> {0, v}] /\ ix \in [Weights -> 0..version]
  BY DEF FilesInv, FilesTypes
<1>6. \A n \in Weights : kept[n] = v => ix[n] = v /\ Files!Complete(d, n)
  BY <1>4
<1> HIDE DEF kept, ix
<1>7. Files!Recorded(index)' \in [Weights -> 0..v] /\ \A n \in Weights : IndexSpeaks(n)' /\ (known'[n] # 0 => Kept(n)')
  <2>1. CASE v = version
    <3>1. version' = version /\ \A n \in Weights : disk'[n] = disk[n]
      BY <1>2, <2>1
    <3>2. \A n \in Weights : Kept(n)' <=> Kept(n)
      BY <1>3, <3>1 DEF Kept
    <3>3. kept \in [Weights -> 0..version]
      BY <1>4, <1>5, <2>1
    <3>4. \A n \in Weights : kept[n] = version => Kept(n)'
      BY <1>2, <1>6, <2>1, <3>1, <3>2 DEF ix, FilesInv, Sound, IndexSpeaks, Files!Complete
    <3>5. Files!Recorded(index)' \in [Weights -> 0..version] /\ \A n \in Weights : IndexSpeaks(n)'
      BY <1>3, <3>1, <3>2, <3>3, <3>4, Commits
    <3> QED
      BY <1>3, <1>5, <2>1, <3>4, <3>5
  <2>2. CASE v = version + 1
    <3>1. \A n \in Weights : ix[n] # v /\ ix[n] \in 0..v
      BY <1>4, <1>5, <2>2 DEF FilesInv, FilesTypes
    <3>2. \A n \in Weights : kept[n] = 0
      BY <1>5, <1>6, <3>1
    <3>3. \/ Files!Recorded(index)' = ix
          \/ Files!Recorded(index)' = kept
          \/ Files!Recorded(index)' = [m \in Weights |-> 0]
      BY <1>3 DEF ix, Files!Recorded, Files!NoRecord
    <3>4. /\ ix \in [Weights -> 0..v] /\ kept \in [Weights -> 0..v]
          /\ [m \in Weights |-> 0] \in [Weights -> 0..v]
      BY <1>4, <1>5, <3>1, <3>2
    <3>5. \A n \in Weights : Files!Recorded(index)'[n] # v
      BY <1>4, <3>1, <3>2, <3>3
    <3>6. \A n \in Weights : IndexSpeaks(n)'
      BY <1>2, <3>5 DEF IndexSpeaks
    <3> QED
      BY <1>3, <3>2, <3>3, <3>4, <3>6
  <2> QED
    BY <1>4, <2>1, <2>2
<1>8. FilesTypes'
  <2>1. version' = v /\ DOMAIN disk' = Weights /\ known' = kept
    BY <1>2, <1>3
  <2>2. version' \in Nat /\ version' > 0
    BY <1>4, <2>1
  <2>3. known' \in [Weights -> {0, version'}]
    BY <1>5, <2>1
  <2>4. Files!Recorded(index)' \in [Weights -> 0..version']
    BY <1>7, <2>1
  <2> QED
    BY <1>3, <2>1, <2>2, <2>3, <2>4 DEF FilesTypes
<1>9. \A n \in Weights : Sound(n)'
  BY <1>3, <1>7 DEF Sound, RegistrySpeaks, LoadedSpeaks, GateHolds, Gated
<1> QED
  BY <1>8, <1>9 DEF FilesInv

LEMMA FilesStep == FilesInv /\ [Files!Next]_filesVars => FilesInv'
<1> SUFFICES ASSUME FilesInv, [Files!Next]_filesVars PROVE FilesInv'
  OBVIOUS
<1>1. CASE UNCHANGED filesVars
  BY <1>1 DEF filesVars, FilesInv, FilesTypes, Sound, IndexSpeaks, RegistrySpeaks, LoadedSpeaks,
     GateHolds, Gated, Kept, Files!Complete, Files!Recorded, Files!NoRecord
<1>2. CASE Files!Launch
  BY <1>2, LaunchStep
<1>3. CASE Files!Crash
  BY <1>3, CrashSteps
<1>4. CASE Files!LoseIndex
  <2>1. CASE Weights = {}
    BY <1>4, <2>1 DEF FilesInv, FilesTypes, Files!LoseIndex, Files!registry, Files!Recorded, Files!NoRecord
  <2>2. CASE Weights # {}
    BY <1>4, <2>2, QuietSteps
  <2> QED
    BY <2>1, <2>2
<1>5. CASE Files!Recover \/ \E m \in Weights : Files!Verify(m)
  BY <1>5, ProofSteps
<1>6. ASSUME NEW m \in Weights,
             \/ Files!Load(m) \/ Files!Unload(m) \/ Files!DownloadBegins(m) \/ Files!DownloadEnds(m)
             \/ Files!RemoveBegins(m) \/ Files!RemoveTimesOut(m)
      PROVE  FilesInv'
  BY <1>6, QuietSteps
<1>7. ASSUME NEW m \in Weights, Files!Fetch(m) \/ Files!Delete(m) \/ Files!DeleteFails(m)
      PROVE  FilesInv'
  BY <1>7, DiskSteps
<1>8. ASSUME NEW m \in Weights, Files!Install(m)
      PROVE  FilesInv'
  BY <1>8, InstallStep
<1>9. ASSUME NEW m \in Weights, Files!Unrecord(m)
      PROVE  FilesInv'
  BY <1>9, UnrecordStep
<1> QED
  BY <1>1, <1>2, <1>3, <1>4, <1>5, <1>6, <1>7, <1>8, <1>9 DEF Files!Next

LEMMA FilesInvariant == Files!Spec => []FilesInv
<1>1. FilesInv /\ [Files!Next]_Files!modelVars => FilesInv'
  BY FilesStep DEF Files!modelVars, Files!registry, filesVars
<1> QED
  BY <1>1, FilesInit, PTL DEF Files!Spec

\* Whatever models and manifests there are and however often the program dies: no
\* helper or server uses a directory that is not the manifest's, unless a removal
\* failed half way on it or a download took it by its length.
THEOREM OnlyWholeIsLoaded == Files!Spec => []LoadedIsWhole
<1>1. FilesInv => LoadedIsWhole
  <2> SUFFICES ASSUME FilesInv, NEW m \in loaded \ doubtful PROVE disk[m] = "whole"
    BY DEF LoadedIsWhole, Files!LoadedIsWhole
  <2> QED
    BY DEF FilesInv, FilesTypes, Sound, LoadedSpeaks, Kept
<1> QED
  BY <1>1, FilesInvariant, PTL

-----------------------------------------------------------------------------
(* The path index (PathIndex). *)

\* A new row finds an id that nothing refers to.
IdsLast == ~IsFiniteSet(Id) /\ 0 \notin Id

Held == rows \cup scan.known
Jobs == scan.jobs \cup (IF seeing = Nothing THEN {} ELSE {seeing})

\* An id is of one path and of one content, in rows, in the scan's snapshot of them
\* and in the jobs that were made from either.
Agree(R, J) ==
  /\ \A x, y \in R : x.id = y.id => x.p = y.p /\ x.c = y.c
  /\ \A x \in R, j \in J : x.id = j.id => x.p = j.p /\ x.c = j.rc

\* Two files never have one stamp.
Disk ==
  /\ stamp \in Nat /\ DOMAIN tree = Path
  /\ \A p \in Path : tree[p] # Nothing =>
       tree[p].c \in Content /\ tree[p].t \in Nat /\ tree[p].t <= stamp
  /\ \A p, q \in Path : tree[p] # Nothing /\ tree[q] # Nothing /\ tree[p].t = tree[q].t => p = q

\* A stamp once seen at a path is there, or nowhere any more, or was renamed away.
Settled(p, t) ==
  /\ t <= stamp
  /\ \/ <<p, t>> \in departed
     \/ \A q \in Path : tree[q] # Nothing /\ tree[q].t = t => q = p

\* What was read for a stamp is the content of the file that has it.
Honest(p, t, c) ==
  \/ <<p, t>> \in departed
  \/ tree[p] # Nothing /\ tree[p].t = t => tree[p].c = c

RowShape(r) ==
  /\ DOMAIN r = {"id", "p", "c", "t", "on"}
  /\ r.id \in Id /\ r.p \in Path /\ r.c \in Content /\ r.t \in Nat
  /\ Settled(r.p, r.t)

\* A row that lies about its content was bound by a pair, and is known for it.
FineRow(r) == RowShape(r) /\ (Honest(r.p, r.t, r.c) \/ Paths!Bound(r) \in misled)

FineJob(j) ==
  /\ DOMAIN j = {"p", "t", "size", "id", "rc", "c", "st"}
  /\ j.p \in Path /\ j.t \in Nat
  /\ Settled(j.p, j.t)
  /\ j.st = "hashed" => j.c \in Content /\ Honest(j.p, j.t, j.c)

\* A pair has a new name, and an old one if that was in the root.
Tellable ==
  {e \in [k : {"changed", "removed", "renamed", "overflow"}, p : Path \cup {Nothing}, q : Path \cup {Nothing}] :
     e.k = "renamed" => e.q \in Path}

\* What the walk has passed without seeing it was gone at some time since it began.
Traversed ==
  /\ scan.kept \subseteq {p \in Path : tree[p] # Nothing}
  /\ scan.at = "idle" => scan.kept = {}
  /\ ~scan.bad => scan.kept \subseteq scan.seen \cup scan.todo

PathInv ==
  /\ system \in Systems /\ Disk /\ events \in Seq(Tellable)
  /\ DOMAIN scan = {"at", "by", "stop", "known", "todo", "jobs", "seen", "bad", "kept", "calm"}
  /\ \A r \in Held : FineRow(r)
  /\ \A j \in Jobs : FineJob(j)
  /\ Agree(Held, Jobs)
  /\ IsFiniteSet(rows) /\ IsFiniteSet(scan.known) /\ IsFiniteSet(scan.jobs)
  /\ Traversed

LEMMA AgreeDerived ==
  ASSUME NEW R, NEW J, NEW R2, NEW J2, Agree(R, J), \A x \in R : x.id # 0,
         \A x \in R2 : \E y \in R : x.id = y.id /\ x.p = y.p /\ x.c = y.c,
         \A j \in J2 : \/ j.id = 0
                       \/ \E k \in J : j.id = k.id /\ j.p = k.p /\ j.rc = k.rc
                       \/ \E y \in R : j.id = y.id /\ j.p = y.p /\ j.rc = y.c
  PROVE  Agree(R2, J2)
<1>1. ASSUME NEW x \in R2, NEW y \in R2, x.id = y.id
      PROVE  x.p = y.p /\ x.c = y.c
  BY <1>1 DEF Agree
<1>2. ASSUME NEW x \in R2, NEW j \in J2, x.id = j.id
      PROVE  x.p = j.p /\ x.c = j.rc
  <2>1. PICK y \in R : x.id = y.id /\ x.p = y.p /\ x.c = y.c
    OBVIOUS
  <2>2. j.id # 0
    BY <1>2, <2>1
  <2>3. CASE \E k \in J : j.id = k.id /\ j.p = k.p /\ j.rc = k.rc
    <3>1. PICK k \in J : j.id = k.id /\ j.p = k.p /\ j.rc = k.rc
      BY <2>3
    <3>2. y.id = k.id
      BY <1>2, <2>1, <3>1
    <3>3. y.p = k.p /\ y.c = k.rc
      BY <3>2 DEF Agree
    <3> QED
      BY <2>1, <3>1, <3>3
  <2>4. CASE \E z \in R : j.id = z.id /\ j.p = z.p /\ j.rc = z.c
    <3>1. PICK z \in R : j.id = z.id /\ j.p = z.p /\ j.rc = z.c
      BY <2>4
    <3>2. y.id = z.id
      BY <1>2, <2>1, <3>1
    <3>3. y.p = z.p /\ y.c = z.c
      BY <3>2 DEF Agree
    <3> QED
      BY <2>1, <3>1, <3>3
  <2> QED
    BY <2>2, <2>3, <2>4
<1> QED
  BY <1>1, <1>2 DEF Agree

LEMMA AgreeAdds ==
  ASSUME NEW R, NEW J, NEW n, NEW R2, NEW J2, Agree(R, J), R2 \subseteq R \cup {n}, J2 \subseteq J,
         \A x \in R \cup J : x.id # n.id
  PROVE  Agree(R2, J2)
BY DEF Agree

LEMMA PathInit == Paths!Init => PathInv
<1> SUFFICES ASSUME Paths!Init PROVE PathInv
  OBVIOUS
<1>1. /\ scan = Paths!NoScan /\ rows = {} /\ seeing = Nothing /\ events = <<>> /\ stamp = 0
      /\ tree = [p \in Path |-> Nothing] /\ system \in Systems
  BY DEF Paths!Init
<1>2. Disk
  BY <1>1 DEF Disk
<1>3. /\ scan.known = {} /\ scan.jobs = {} /\ scan.kept = {}
      /\ DOMAIN scan = {"at", "by", "stop", "known", "todo", "jobs", "seen", "bad", "kept", "calm"}
  BY <1>1 DEF Paths!NoScan
<1>4. Held = {} /\ Jobs = {}
  BY <1>1, <1>3 DEF Held, Jobs
<1>5. IsFiniteSet(rows) /\ IsFiniteSet(scan.known) /\ IsFiniteSet(scan.jobs)
  BY <1>1, <1>3, FS_EmptySet
<1>6. events \in Seq(Tellable)
  BY <1>1
<1> QED
  BY <1>1, <1>2, <1>3, <1>4, <1>5, <1>6 DEF PathInv, Agree, Traversed

\* What other programs do to the files.
LEMMA TreeMoves ==
  ASSUME Disk,
         \/ \E p \in Path, c \in Content : Paths!Write(p, c) \/ Paths!Replace(p, c)
         \/ \E p \in Path : Paths!Delete(p)
         \/ \E p, q \in Path : Paths!Rename(p, q)
  PROVE  /\ Disk'
         /\ \A p \in Path, t \in Nat : Settled(p, t) => Settled(p, t)'
         /\ \A p \in Path, t \in Nat : \A c : Settled(p, t) /\ Honest(p, t, c) => Honest(p, t, c)'
<1>1. CASE \E p \in Path, c \in Content : Paths!Write(p, c) \/ Paths!Replace(p, c)
  <2>1. PICK p \in Path, c \in Content :
          /\ stamp' = stamp + 1 /\ departed' = departed
          /\ tree' = [tree EXCEPT ![p] = [c |-> c, t |-> stamp + 1]]
    BY <1>1 DEF Paths!Write, Paths!Replace, Paths!Wrote, Paths!Changes, Paths!Written
  <2> DEFINE s == stamp + 1
             f == [tree EXCEPT ![p] = [c |-> c, t |-> s]]
  <2>2. s \in Nat /\ s > stamp /\ \A t \in Nat : t <= stamp => t <= s /\ t # s
    BY DEF Disk
  <2>3. DOMAIN f = Path /\ f[p] = [c |-> c, t |-> s] /\ \A q \in Path : q # p => f[q] = tree[q]
    BY DEF Disk
  <2> HIDE DEF s, f
  <2>4. stamp' = s /\ tree' = f
    BY <2>1 DEF s, f
  <2>5. Disk'
    BY <2>2, <2>3, <2>4 DEF Disk
  <2>6. ASSUME NEW q \in Path, NEW t \in Nat, Settled(q, t)
        PROVE  Settled(q, t)'
    BY <2>1, <2>2, <2>3, <2>4, <2>6 DEF Settled, Disk
  <2>7. ASSUME NEW q \in Path, NEW t \in Nat, NEW d, Settled(q, t), Honest(q, t, d)
        PROVE  Honest(q, t, d)'
    BY <2>1, <2>2, <2>3, <2>4, <2>7 DEF Settled, Honest, Disk
  <2> QED
    BY <2>5, <2>6, <2>7
<1>2. CASE \E p \in Path : Paths!Delete(p)
  <2>1. PICK p \in Path :
          stamp' = stamp /\ departed' = departed /\ tree' = [tree EXCEPT ![p] = Nothing]
    BY <1>2 DEF Paths!Delete, Paths!Shifted, Paths!Changes
  <2>2. DOMAIN tree' = Path /\ tree'[p] = Nothing /\ \A q \in Path : q # p => tree'[q] = tree[q]
    BY <2>1 DEF Disk
  <2> QED
    BY <2>1, <2>2 DEF Settled, Honest, Disk
<1>3. CASE \E p, q \in Path : Paths!Rename(p, q)
  <2>1. PICK p \in Path, q \in Path :
          /\ p # q /\ tree[p] # Nothing /\ stamp' = stamp /\ departed' = departed \cup {<<p, tree[p].t>>}
          /\ tree' = [tree EXCEPT ![p] = Nothing, ![q] = tree[p]]
    BY <1>3 DEF Paths!Rename, Paths!Shifted, Paths!Changes
  <2>2. /\ DOMAIN tree' = Path /\ tree'[p] = Nothing /\ tree'[q] = tree[p]
        /\ \A u \in Path : u # p /\ u # q => tree'[u] = tree[u]
    BY <2>1 DEF Disk
  <2>3. Disk'
    BY <2>1, <2>2 DEF Disk
  <2>4. ASSUME NEW u \in Path, NEW t \in Nat, Settled(u, t)
        PROVE  Settled(u, t)'
    <3>1. CASE <<u, t>> \in departed'
      BY <2>1, <2>4, <3>1 DEF Settled
    <3>2. CASE <<u, t>> \notin departed'
      <4>1. \A v \in Path : tree[v] # Nothing /\ tree[v].t = t => v = u
        BY <2>1, <2>4, <3>2 DEF Settled
      <4>2. tree[p].t # t
        BY <2>1, <3>2, <4>1
      <4> QED
        BY <2>1, <2>2, <2>4, <4>1, <4>2 DEF Settled
    <3> QED
      BY <3>1, <3>2
  <2>5. ASSUME NEW u \in Path, NEW t \in Nat, NEW c, Settled(u, t), Honest(u, t, c)
        PROVE  Honest(u, t, c)'
    <3>1. CASE <<u, t>> \in departed'
      BY <3>1 DEF Honest
    <3>2. CASE <<u, t>> \notin departed'
      <4>1. \A v \in Path : tree[v] # Nothing /\ tree[v].t = t => v = u
        BY <2>1, <2>5, <3>2 DEF Settled
      <4>2. tree[p].t # t
        BY <2>1, <3>2, <4>1
      <4> QED
        BY <2>1, <2>2, <2>5, <3>2, <4>2 DEF Honest
    <3> QED
      BY <3>1, <3>2
  <2> QED
    BY <2>3, <2>4, <2>5
<1> QED
  BY <1>1, <1>2, <1>3

LEMMA TreeSteps ==
  ASSUME PathInv,
         \/ \E p \in Path, c \in Content : Paths!Write(p, c) \/ Paths!Replace(p, c)
         \/ \E p \in Path : Paths!Delete(p)
         \/ \E p, q \in Path : Paths!Rename(p, q)
  PROVE  PathInv'
<1>1. /\ Disk'
      /\ \A p \in Path, t \in Nat : Settled(p, t) => Settled(p, t)'
      /\ \A p \in Path, t \in Nat : \A c : Settled(p, t) /\ Honest(p, t, c) => Honest(p, t, c)'
  BY TreeMoves DEF PathInv
<1>2. UNCHANGED <<system, misled, rows, seeing>>
  BY DEF Paths!Write, Paths!Replace, Paths!Delete, Paths!Rename, Paths!Changes
<1>3. /\ DOMAIN scan' = DOMAIN scan /\ scan'.known = scan.known /\ scan'.jobs = scan.jobs
      /\ scan'.bad = scan.bad /\ scan'.seen = scan.seen /\ scan'.todo = scan.todo
      /\ scan'.at = scan.at
      /\ scan'.kept = {p \in scan.kept : tree'[p] # Nothing} \/ (scan' = scan /\ scan.at = "idle")
  <2>1. \/ scan' = scan /\ scan.at = "idle"
        \/ scan' = [scan EXCEPT !.kept = {p \in @ : tree'[p] # Nothing}, !.calm = FALSE]
    <3>1. \E new, heard : Paths!Changes(new, heard)
      BY DEF Paths!Write, Paths!Replace, Paths!Delete, Paths!Rename
    <3> QED
      BY <3>1 DEF Paths!Changes, Paths!Scanning
  <2>2. DOMAIN scan = {"at", "by", "stop", "known", "todo", "jobs", "seen", "bad", "kept", "calm"}
    BY DEF PathInv
  <2>3. CASE scan' = scan /\ scan.at = "idle"
    BY <2>3
  <2>4. CASE scan' = [scan EXCEPT !.kept = {p \in @ : tree'[p] # Nothing}, !.calm = FALSE]
    <3> DEFINE k == {p \in scan.kept : tree'[p] # Nothing}
    <3>1. scan' = [scan EXCEPT !.kept = k, !.calm = FALSE]
      BY <2>4
    <3> HIDE DEF k
    <3>2. /\ DOMAIN scan' = DOMAIN scan /\ scan'.known = scan.known /\ scan'.jobs = scan.jobs
          /\ scan'.bad = scan.bad /\ scan'.seen = scan.seen /\ scan'.todo = scan.todo
          /\ scan'.at = scan.at /\ scan'.kept = k
      BY <2>2, <3>1
    <3> QED
      BY <3>2 DEF k
  <2> QED
    BY <2>1, <2>3, <2>4
<1>4. events' \in Seq(Tellable)'
  <2>1. PICK heard \in Seq(Tellable) : events' = events \/ events' = events \o heard
    <3>1. ASSUME NEW p \in Path, NEW c \in Content, Paths!Write(p, c)
          PROVE  \E heard \in Seq(Tellable) : events' = events \/ events' = events \o heard
      <4> DEFINE heard == <<Paths!Event("changed", p, p)>>
      <4>1. heard \in Seq(Tellable)
        BY DEF Tellable, Paths!Event
      <4> QED
        BY <3>1, <4>1 DEF Paths!Write, Paths!Changes
    <3>2. ASSUME NEW p \in Path, NEW c \in Content, Paths!Replace(p, c)
          PROVE  \E heard \in Seq(Tellable) : events' = events \/ events' = events \o heard
      <4> DEFINE heard == <<Paths!Event("changed", p, p), Paths!Event("renamed", Nothing, p)>>
      <4>1. heard \in Seq(Tellable)
        BY <3>2 DEF Tellable, Paths!Event, Paths!Replace
      <4> QED
        BY <3>2, <4>1 DEF Paths!Replace, Paths!Changes
    <3>3. ASSUME NEW p \in Path, Paths!Delete(p)
          PROVE  \E heard \in Seq(Tellable) : events' = events \/ events' = events \o heard
      <4> DEFINE heard == <<Paths!Event("removed", p, p)>>
      <4>1. heard \in Seq(Tellable)
        BY DEF Tellable, Paths!Event
      <4> QED
        BY <3>3, <4>1 DEF Paths!Delete, Paths!Changes
    <3>4. ASSUME NEW p \in Path, NEW q \in Path, Paths!Rename(p, q)
          PROVE  \E heard \in Seq(Tellable) : events' = events \/ events' = events \o heard
      <4> DEFINE halves == <<Paths!Event("removed", p, p), Paths!Event("changed", q, q)>>
                 pair == IF system.paired THEN <<Paths!Event("renamed", p, q)>> ELSE <<>>
      <4>1. halves \in Seq(Tellable)
        BY DEF Tellable, Paths!Event
      <4>2. pair \in Seq(Tellable)
        <5>1. CASE system.paired
          BY <5>1 DEF Tellable, Paths!Event
        <5>2. CASE ~system.paired
          BY <5>2
        <5> QED
          BY <5>1, <5>2
      <4>3. events' = events \/ events' = events \o (halves \o pair)
        BY <3>4 DEF Paths!Rename, Paths!Changes
      <4> HIDE DEF halves, pair
      <4>4. halves \o pair \in Seq(Tellable)
        BY <4>1, <4>2
      <4> QED
        BY <4>3, <4>4
    <3> QED
      BY <3>1, <3>2, <3>3, <3>4
  <2>2. events' \in Seq(Tellable)
    <3>1. events \in Seq(Tellable)
      BY DEF PathInv
    <3>2. events \o heard \in Seq(Tellable)
      BY <3>1
    <3> QED
      BY <2>1, <3>1, <3>2
  <2>3. Tellable' = Tellable
    BY <1>2 DEF Tellable
  <2> QED
    BY <2>2, <2>3
<1>5. Held' = Held /\ Jobs' = Jobs
  BY <1>2, <1>3 DEF Held, Jobs
<1>6. ASSUME NEW r \in Held
      PROVE  FineRow(r)'
  BY <1>1, <1>2 DEF PathInv, FineRow, RowShape, Paths!Bound
<1>7. ASSUME NEW j \in Jobs
      PROVE  FineJob(j)'
  BY <1>1, <1>2 DEF PathInv, FineJob
<1>8. Traversed'
  BY <1>1, <1>2, <1>3 DEF PathInv, Traversed, Disk
<1>9. /\ system' \in Systems /\ DOMAIN scan' = {"at", "by", "stop", "known", "todo", "jobs", "seen", "bad", "kept", "calm"}
      /\ IsFiniteSet(rows') /\ IsFiniteSet(scan'.known) /\ IsFiniteSet(scan'.jobs)
      /\ Agree(Held', Jobs')
  BY <1>2, <1>3, <1>5 DEF PathInv
<1>10. (\A r \in Held : FineRow(r))' /\ (\A j \in Jobs : FineJob(j))'
  BY <1>5, <1>6, <1>7
<1> QED
  BY <1>1, <1>4, <1>8, <1>9, <1>10 DEF PathInv

\* The steps of the index leave the files alone: what is left to show of them.
IndexMoves ==
  /\ UNCHANGED <<system, tree, stamp, departed>> /\ misled \subseteq misled'
  /\ events' \in Seq(Tellable)
  /\ DOMAIN scan' = {"at", "by", "stop", "known", "todo", "jobs", "seen", "bad", "kept", "calm"}
  /\ scan'.known = {} \/ scan'.known = scan.known \/ scan'.known = {r \in rows : r.on}

LEMMA IndexStep ==
  ASSUME PathInv, IndexMoves, IsFiniteSet(rows'), IsFiniteSet(scan'.jobs), Traversed',
         \A r \in rows' : FineRow(r) \/ (RowShape(r) /\ Paths!Bound(r) \in misled'),
         \A j \in Jobs' : FineJob(j), Agree(Held', Jobs')
  PROVE  PathInv'
<1>1. /\ UNCHANGED <<system, tree, stamp, departed>> /\ misled \subseteq misled'
      /\ events' \in Seq(Tellable)
  BY DEF IndexMoves
<1>2. \A r \in Held' : FineRow(r) \/ (RowShape(r) /\ Paths!Bound(r) \in misled')
  BY DEF IndexMoves, Held, PathInv
<1>3. (\A r \in Held : FineRow(r))' /\ (\A j \in Jobs : FineJob(j))'
  BY <1>1, <1>2 DEF FineRow, RowShape, Paths!Bound, FineJob, Settled, Honest
<1>4. IsFiniteSet(scan'.known)
  <2>1. IsFiniteSet({r \in rows : r.on})
    BY FS_Subset DEF PathInv
  <2> QED
    BY <2>1, FS_EmptySet DEF IndexMoves, PathInv
<1>5. Disk'
  BY <1>1 DEF PathInv, Disk
<1>6. Tellable' = Tellable
  BY <1>1 DEF Tellable
<1>7. system' \in Systems
  BY <1>1 DEF PathInv
<1>8. DOMAIN scan' = {"at", "by", "stop", "known", "todo", "jobs", "seen", "bad", "kept", "calm"}
  BY DEF IndexMoves
<1> QED
  BY <1>1, <1>3, <1>4, <1>5, <1>6, <1>7, <1>8 DEF PathInv

\* As long as there is an id that nobody uses, a new row takes one.
LEMMA FreshId ==
  ASSUME PathInv, IdsLast
  PROVE  /\ Paths!FreshId \in Id
         /\ \A x \in Held \cup Jobs : x.id # Paths!FreshId
<1> DEFINE S == rows \cup scan.known \cup scan.jobs
           T == {r.id : r \in S}
           f == [r \in S |-> r.id]
           one == IF seeing = Nothing THEN {} ELSE {seeing.id}
<1>1. IsFiniteSet(S)
  <2>1. IsFiniteSet(rows \cup scan.known)
    BY FS_Union DEF PathInv
  <2> QED
    BY <2>1, FS_Union DEF PathInv
<1>2. f \in Surjection(S, T)
  BY DEF Surjection
<1>3. IsFiniteSet(one)
  BY FS_EmptySet, FS_Singleton
<1> HIDE DEF one
<1>4. IsFiniteSet(T)
  BY <1>1, <1>2, FS_Surjection
<1>5. IsFiniteSet(T \cup one)
  BY <1>3, <1>4, FS_Union
<1>6. Paths!InUse = T \cup one
  BY DEF Paths!InUse, one
<1>7. \E i \in Id : i \notin Paths!InUse
  <2> SUFFICES ASSUME Id \subseteq T \cup one PROVE FALSE
    BY <1>6
  <2> QED
    BY <1>5, FS_Subset DEF IdsLast
<1>8. Paths!FreshId \in Id /\ Paths!FreshId \notin Paths!InUse
  BY <1>7, Zenon DEF Paths!FreshId
<1>9. \A x \in S : x.id \in Paths!InUse
  BY <1>6
<1>10. seeing # Nothing => seeing.id \in Paths!InUse
  BY <1>6 DEF one
<1> QED
  BY <1>8, <1>9, <1>10 DEF Held, Jobs

\* A hashed job is applied to the rows.
LEMMA AppliedKeeps ==
  ASSUME PathInv, IdsLast, NEW j \in Jobs, j.st = "hashed", NEW J2, J2 \subseteq Jobs
  PROVE  /\ \A r \in Paths!Applied(j) : FineRow(r)
         /\ Agree(Paths!Applied(j) \cup scan.known, J2)
         /\ IsFiniteSet(Paths!Applied(j))
<1>1. FineJob(j) /\ j.c \in Content /\ \A r \in Held : FineRow(r) /\ r.id # 0
  BY DEF PathInv, FineJob, FineRow, RowShape, Paths!Bound, IdsLast
<1>2. Agree(Held, Jobs) /\ rows \subseteq Held /\ scan.known \subseteq Held /\ IsFiniteSet(rows)
  BY DEF PathInv, Held
<1>3. CASE Paths!SameBytes(j)
  <2> DEFINE touch(r) == IF r.id = j.id THEN [r EXCEPT !.t = j.t] ELSE r
             f == [r \in rows |-> touch(r)]
  <2>1. Paths!Applied(j) = {touch(r) : r \in rows} /\ j.c = j.rc
    BY <1>3 DEF Paths!Applied, Paths!SameBytes
  <2>2. ASSUME NEW r \in rows
        PROVE  FineRow(touch(r)) /\ touch(r).id = r.id /\ touch(r).p = r.p /\ touch(r).c = r.c
    <3>1. CASE r.id = j.id
      <4> DEFINE x == [r EXCEPT !.t = j.t]
      <4>1. FineRow(r) /\ r.p = j.p /\ r.c = j.rc
        BY <1>1, <1>2, <3>1 DEF Agree
      <4>2. /\ DOMAIN x = {"id", "p", "c", "t", "on"}
            /\ x.id = r.id /\ x.p = r.p /\ x.c = r.c /\ x.t = j.t
        BY <4>1 DEF FineRow, RowShape, Paths!Bound
      <4> HIDE DEF x
      <4>3. FineRow(x)
        BY <1>1, <2>1, <4>1, <4>2 DEF FineRow, RowShape, Paths!Bound, FineJob
      <4> QED
        BY <3>1, <4>2, <4>3 DEF x
    <3>2. CASE r.id # j.id
      BY <1>1, <1>2, <3>2
    <3> QED
      BY <3>1, <3>2
  <2>3. f \in Surjection(rows, Paths!Applied(j))
    BY <2>1 DEF Surjection
  <2> HIDE DEF touch
  <2>4. IsFiniteSet(Paths!Applied(j))
    <3> HIDE DEF f
    <3> QED
      BY <1>2, <2>3, FS_Surjection
  <2>5. \A x \in Paths!Applied(j) \cup scan.known : \E y \in Held : x.id = y.id /\ x.p = y.p /\ x.c = y.c
    BY <1>2, <2>1, <2>2
  <2>6. \A k \in J2 : \E i \in Jobs : k.id = i.id /\ k.p = i.p /\ k.rc = i.rc
    OBVIOUS
  <2>7. Agree(Paths!Applied(j) \cup scan.known, J2)
    BY <1>1, <1>2, <2>5, <2>6, AgreeDerived
  <2> QED
    BY <2>1, <2>2, <2>4, <2>7
<1>4. CASE ~Paths!SameBytes(j) /\ Paths!Clashes(j)
  <2>1. Paths!Applied(j) = rows
    BY <1>4 DEF Paths!Applied
  <2>2. Agree(Paths!Applied(j) \cup scan.known, J2)
    BY <1>2, <2>1 DEF Agree, Held
  <2> QED
    BY <1>1, <1>2, <2>1, <2>2
<1>5. CASE ~Paths!SameBytes(j) /\ ~Paths!Clashes(j)
  <2> DEFINE n == Paths!NewRow(j.p, j.c, j.t)
  <2>1. Paths!Applied(j) = Paths!Rest(j) \cup {n} /\ Paths!Rest(j) \subseteq rows
    BY <1>5 DEF Paths!Applied, Paths!Rest
  <2>2. /\ DOMAIN n = {"id", "p", "c", "t", "on"}
        /\ n.id = Paths!FreshId /\ n.p = j.p /\ n.c = j.c /\ n.t = j.t
    BY DEF Paths!NewRow
  <2> HIDE DEF n
  <2>3. n.id \in Id /\ \A x \in Held \cup Jobs : x.id # n.id
    BY <2>2, FreshId
  <2>4. FineRow(n)
    BY <1>1, <2>2, <2>3 DEF FineRow, RowShape, Paths!Bound, FineJob
  <2>5. Agree(Paths!Applied(j) \cup scan.known, J2)
    <3>1. Paths!Applied(j) \cup scan.known \subseteq Held \cup {n}
      BY <1>2, <2>1
    <3> QED
      BY <1>2, <2>3, <3>1, AgreeAdds
  <2>6. IsFiniteSet(Paths!Applied(j))
    <3>1. IsFiniteSet(Paths!Rest(j))
      BY <1>2, <2>1, FS_Subset
    <3> QED
      BY <2>1, <3>1, FS_AddElement
  <2> QED
    BY <1>1, <1>2, <2>1, <2>4, <2>5, <2>6
<1> QED
  BY <1>3, <1>4, <1>5

\* A row of a removed root comes back.
LEMMA RevivedKeeps ==
  ASSUME PathInv, NEW r \in rows, NEW J2, J2 \subseteq Jobs,
         NEW R2, R2 = (rows \ {r}) \cup {[r EXCEPT !.on = TRUE]}
  PROVE  /\ \A x \in R2 : FineRow(x)
         /\ Agree(R2 \cup scan.known, J2)
         /\ IsFiniteSet(R2)
<1> DEFINE n == [r EXCEPT !.on = TRUE]
<1>1. /\ Agree(Held, Jobs) /\ rows \subseteq Held /\ scan.known \subseteq Held /\ IsFiniteSet(rows)
      /\ \A x \in Held : FineRow(x)
  BY DEF PathInv, Held
<1>2. /\ DOMAIN n = {"id", "p", "c", "t", "on"}
      /\ n.id = r.id /\ n.p = r.p /\ n.c = r.c /\ n.t = r.t
  BY <1>1 DEF FineRow, RowShape, Paths!Bound
<1> HIDE DEF n
<1>3. FineRow(n) /\ R2 = (rows \ {r}) \cup {n}
  BY <1>1, <1>2 DEF FineRow, RowShape, Paths!Bound, n
<1>4. \A x \in R2 \cup scan.known : \E y \in Held : x.id = y.id /\ x.p = y.p /\ x.c = y.c
  BY <1>1, <1>2, <1>3
<1>5. \A x, y \in R2 \cup scan.known : x.id = y.id => x.p = y.p /\ x.c = y.c
  <2> SUFFICES ASSUME NEW x \in R2 \cup scan.known, NEW y \in R2 \cup scan.known, x.id = y.id
               PROVE  x.p = y.p /\ x.c = y.c
    OBVIOUS
  <2>1. PICK u \in Held : x.id = u.id /\ x.p = u.p /\ x.c = u.c
    BY <1>4
  <2>2. PICK v \in Held : y.id = v.id /\ y.p = v.p /\ y.c = v.c
    BY <1>4
  <2>3. u.id = v.id
    BY <2>1, <2>2
  <2>4. u.p = v.p /\ u.c = v.c
    BY <1>1, <2>3 DEF Agree
  <2> QED
    BY <2>1, <2>2, <2>4
<1>6. \A x \in R2 \cup scan.known, j \in J2 : x.id = j.id => x.p = j.p /\ x.c = j.rc
  <2> SUFFICES ASSUME NEW x \in R2 \cup scan.known, NEW j \in J2, x.id = j.id
               PROVE  x.p = j.p /\ x.c = j.rc
    OBVIOUS
  <2>1. PICK u \in Held : x.id = u.id /\ x.p = u.p /\ x.c = u.c
    BY <1>4
  <2>2. u.id = j.id /\ j \in Jobs
    BY <2>1
  <2>3. u.p = j.p /\ u.c = j.rc
    BY <1>1, <2>2 DEF Agree
  <2> QED
    BY <2>1, <2>3
<1>7. IsFiniteSet(R2)
  <2>1. IsFiniteSet(rows \ {r})
    BY <1>1, FS_RemoveElement
  <2> QED
    BY <1>3, <2>1, FS_AddElement
<1> QED
  BY <1>1, <1>3, <1>5, <1>6, <1>7 DEF Agree

\* A job is a job of before, further on, or was made from a row or from no row.
Derived(j) ==
  \/ j.id = 0
  \/ \E k \in Jobs : j.id = k.id /\ j.p = k.p /\ j.rc = k.rc
  \/ \E y \in Held : j.id = y.id /\ j.p = y.p /\ j.rc = y.c

LEMMA RowsRest ==
  ASSUME PathInv, IdsLast, IndexMoves, rows' \subseteq rows,
         IsFiniteSet(scan'.jobs), Traversed', \A j \in Jobs' : FineJob(j) /\ Derived(j)
  PROVE  PathInv'
<1>1. /\ Held' \subseteq Held /\ Agree(Held, Jobs)
      /\ \A x \in Held : x.id # 0 /\ FineRow(x)
  BY DEF PathInv, IndexMoves, Held, FineRow, RowShape, Paths!Bound, IdsLast
<1>2. Agree(Held', Jobs')
  <2> DEFINE H == Held'
             J == Jobs'
  <2>1. /\ \A x \in H : \E y \in Held : x.id = y.id /\ x.p = y.p /\ x.c = y.c
        /\ \A j \in J : Derived(j)
    BY <1>1
  <2> HIDE DEF H, J
  <2> QED
    BY <1>1, <2>1, AgreeDerived DEF Derived
<1>3. IsFiniteSet(rows')
  BY FS_Subset DEF PathInv
<1>4. \A r \in rows' : FineRow(r)
  BY <1>1 DEF Held
<1> QED
  BY <1>2, <1>3, <1>4, IndexStep

\* A job is made from the stat of a file and a row of its path.
LEMMA MadeJobs ==
  ASSUME PathInv, NEW p \in Path, tree[p] # Nothing
  PROVE  /\ FineJob(Paths!NewJob(p)) /\ Derived(Paths!NewJob(p))
         /\ FineJob([Paths!NewJob(p) EXCEPT !.st = "unknown"])
         /\ Derived([Paths!NewJob(p) EXCEPT !.st = "unknown"])
         /\ \A r \in Held : r.p = p => FineJob(Paths!Job(p, r)) /\ Derived(Paths!Job(p, r))
<1>1. tree[p].t \in Nat /\ Settled(p, tree[p].t)
  BY DEF PathInv, Disk, Settled
<1>2. ASSUME NEW r
      PROVE  /\ FineJob(Paths!Job(p, r)) /\ FineJob([Paths!Job(p, r) EXCEPT !.st = "unknown"])
             /\ Paths!Job(p, r).id = r.id /\ Paths!Job(p, r).p = p /\ Paths!Job(p, r).rc = r.c
             /\ [Paths!Job(p, r) EXCEPT !.st = "unknown"].id = r.id
  <2> DEFINE j == Paths!Job(p, r)
             u == [j EXCEPT !.st = "unknown"]
  <2>1. /\ DOMAIN j = {"p", "t", "size", "id", "rc", "c", "st"}
        /\ j.p = p /\ j.t = tree[p].t /\ j.st = "job" /\ j.id = r.id /\ j.rc = r.c
    BY DEF Paths!Job
  <2> HIDE DEF j
  <2>2. /\ DOMAIN u = {"p", "t", "size", "id", "rc", "c", "st"}
        /\ u.p = p /\ u.t = tree[p].t /\ u.st = "unknown" /\ u.id = r.id
    BY <2>1
  <2> HIDE DEF u
  <2>3. FineJob(j) /\ FineJob(u)
    BY <1>1, <2>1, <2>2 DEF FineJob
  <2> QED
    BY <2>1, <2>2, <2>3 DEF j, u
<1>3. FineJob(Paths!NewJob(p)) /\ FineJob([Paths!NewJob(p) EXCEPT !.st = "unknown"])
  BY <1>2 DEF Paths!NewJob
<1>4. Derived(Paths!NewJob(p)) /\ Derived([Paths!NewJob(p) EXCEPT !.st = "unknown"])
  <2> DEFINE z == [id |-> 0, c |-> Nothing]
  <2>1. z.id = 0
    OBVIOUS
  <2>2. Paths!NewJob(p).id = 0 /\ [Paths!NewJob(p) EXCEPT !.st = "unknown"].id = 0
    BY <1>2, <2>1 DEF Paths!NewJob
  <2> QED
    BY <2>2 DEF Derived
<1>5. ASSUME NEW r \in Held, r.p = p
      PROVE  FineJob(Paths!Job(p, r)) /\ Derived(Paths!Job(p, r))
  BY <1>2, <1>5 DEF Derived
<1> QED
  BY <1>3, <1>4, <1>5

\* A job whose file was read.
LEMMA HashedJob ==
  ASSUME PathInv, NEW j \in Jobs, tree[j.p] # Nothing,
         NEW h, h = [j EXCEPT !.c = tree[j.p].c, !.st = "hashed"]
  PROVE  FineJob(h) /\ Derived(h)
<1>1. FineJob(j)
  BY DEF PathInv
<1>2. /\ DOMAIN h = {"p", "t", "size", "id", "rc", "c", "st"}
      /\ h.p = j.p /\ h.t = j.t /\ h.id = j.id /\ h.rc = j.rc
      /\ h.c = tree[j.p].c /\ h.st = "hashed"
  BY <1>1 DEF FineJob
<1>3. tree[j.p].c \in Content /\ Honest(j.p, j.t, tree[j.p].c)
  BY <1>1 DEF PathInv, Disk, Honest, FineJob
<1> QED
  BY <1>1, <1>2, <1>3 DEF FineJob, Derived

LEMMA OldJobs ==
  ASSUME PathInv, NEW j \in Jobs
  PROVE  FineJob(j) /\ Derived(j)
BY DEF PathInv, Derived

\* Events are lost, a root comes back, the watcher looks again, believes a removal
\* or cannot read.
LEMMA WatcherRests ==
  ASSUME PathInv, IdsLast,
         \/ Paths!LoseEvents \/ Paths!ReturnRoot \/ Paths!WatcherFails
         \/ \E p \in Path : Paths!TickRemoved(p) \/ Paths!TickAgain(p)
  PROVE  PathInv'
<1>1. /\ UNCHANGED <<system, tree, stamp, departed, misled, scan>> /\ rows' \subseteq rows
      /\ seeing' = seeing \/ seeing' = Nothing
      /\ \/ events' = events
         \/ events' \in {<<>>, <<Paths!Event("overflow", Nothing, Nothing)>>}
  BY DEF Paths!LoseEvents, Paths!ReturnRoot, Paths!WatcherFails, Paths!TickRemoved, Paths!TickAgain,
     Paths!fs, Paths!watcher
<1>2. events' \in Seq(Tellable)
  <2>1. events \in Seq(Tellable) /\ <<>> \in Seq(Tellable)
    BY DEF PathInv
  <2>2. <<Paths!Event("overflow", Nothing, Nothing)>> \in Seq(Tellable)
    BY DEF Tellable, Paths!Event
  <2> QED
    BY <1>1, <2>1, <2>2
<1>3. Jobs' \subseteq Jobs
  BY <1>1 DEF Jobs
<1>4. \A j \in Jobs' : FineJob(j) /\ Derived(j)
  BY <1>3, OldJobs
<1>5. IndexMoves
  BY <1>1, <1>2 DEF IndexMoves, PathInv
<1>6. IsFiniteSet(scan'.jobs) /\ Traversed'
  BY <1>1 DEF PathInv, Traversed
<1> QED
  BY <1>1, <1>4, <1>5, <1>6, RowsRest

LEMMA WatcherLooks ==
  ASSUME PathInv, IdsLast, Paths!WatcherHashes \/ \E p \in Path : Paths!TickObserve(p)
  PROVE  PathInv'
<1>1. UNCHANGED <<system, tree, stamp, departed, misled, scan, events>>
  BY DEF Paths!WatcherHashes, Paths!TickObserve, Paths!fs
<1>2. IndexMoves /\ IsFiniteSet(scan'.jobs) /\ Traversed'
  BY <1>1 DEF IndexMoves, PathInv, Traversed
<1>3. ASSUME rows' = rows, seeing' = Nothing \/ (FineJob(seeing') /\ Derived(seeing'))
      PROVE  PathInv'
  <2>1. \A j \in Jobs' : j \in Jobs \/ (FineJob(j) /\ Derived(j))
    BY <1>1, <1>3 DEF Jobs
  <2> QED
    BY <1>2, <1>3, <2>1, OldJobs, RowsRest
<1>4. CASE Paths!WatcherHashes
  <2>1. seeing # Nothing /\ rows' = rows
    BY <1>4 DEF Paths!WatcherHashes
  <2>2. seeing \in Jobs
    BY <2>1 DEF Jobs
  <2>3. CASE tree[seeing.p] = Nothing
    BY <1>3, <1>4, <2>1, <2>3 DEF Paths!WatcherHashes
  <2>4. CASE tree[seeing.p] # Nothing
    <3>1. seeing' = [seeing EXCEPT !.c = tree[seeing.p].c, !.st = "hashed"]
      BY <1>4, <2>4 DEF Paths!WatcherHashes
    <3>2. PICK h : h = seeing'
      OBVIOUS
    <3>3. FineJob(h) /\ Derived(h)
      BY <2>2, <2>4, <3>1, <3>2, HashedJob
    <3> QED
      BY <1>3, <2>1, <3>2, <3>3
  <2> QED
    BY <2>3, <2>4
<1>5. ASSUME NEW p \in Path, Paths!TickObserve(p)
      PROVE  PathInv'
  <2>1. tree[p] # Nothing
    BY <1>5 DEF Paths!TickObserve
  <2>2. CASE rows' = rows
    <3>1. \/ seeing' = Nothing
          \/ seeing' = seeing
          \/ seeing' = Paths!NewJob(p)
          \/ \E r \in rows : r.p = p /\ seeing' = Paths!Job(p, r)
      BY <1>5 DEF Paths!TickObserve, Paths!ActiveAt
    <3>2. PICK h : h = seeing'
      OBVIOUS
    <3>3. h = Nothing \/ h = seeing \/ (FineJob(h) /\ Derived(h))
      BY <2>1, <3>1, <3>2, MadeJobs DEF Held
    <3>4. seeing # Nothing => FineJob(seeing) /\ Derived(seeing)
      BY OldJobs DEF Jobs
    <3> QED
      BY <1>3, <2>2, <3>2, <3>3, <3>4
  <2>3. CASE rows' # rows
    <3>1. seeing' = seeing /\ \E r \in Paths!Revivable(p) : Paths!Revive(r)
      BY <1>5, <2>3 DEF Paths!TickObserve
    <3>2. PICK r \in rows : rows' = (rows \ {r}) \cup {[r EXCEPT !.on = TRUE]}
      BY <3>1 DEF Paths!Revivable, Paths!Revive
    <3>3. PICK R : R = rows'
      OBVIOUS
    <3>4. Jobs' = Jobs /\ Held' = R \cup scan.known
      BY <1>1, <3>1, <3>3 DEF Jobs, Held
    <3>5. (\A x \in R : FineRow(x)) /\ Agree(R \cup scan.known, Jobs) /\ IsFiniteSet(R)
      BY <3>2, <3>3, RevivedKeeps
    <3>6. \A j \in Jobs' : FineJob(j)
      BY <3>4, OldJobs
    <3> QED
      BY <1>2, <3>3, <3>4, <3>5, <3>6, IndexStep
  <2> QED
    BY <2>2, <2>3
<1> QED
  BY <1>4, <1>5

LEMMA WatcherWrites ==
  ASSUME PathInv, IdsLast, Paths!WatcherApplies
  PROVE  PathInv'
<1>1. /\ UNCHANGED <<system, tree, stamp, departed, misled, scan, events>>
      /\ seeing # Nothing /\ seeing.st = "hashed" /\ rows' = Paths!Applied(seeing) /\ seeing' = Nothing
  BY DEF Paths!WatcherApplies, Paths!fs
<1>2. IndexMoves /\ IsFiniteSet(scan'.jobs) /\ Traversed'
  BY <1>1 DEF IndexMoves, PathInv, Traversed
<1>3. seeing \in Jobs /\ Jobs' \subseteq Jobs
  BY <1>1 DEF Jobs
<1>4. PICK R, J : R = rows' /\ J = Jobs'
  OBVIOUS
<1>5. (\A x \in R : FineRow(x)) /\ Agree(R \cup scan.known, J) /\ IsFiniteSet(R)
  BY <1>1, <1>3, <1>4, AppliedKeeps
<1>6. Held' = R \cup scan.known
  BY <1>1, <1>4 DEF Held
<1>7. \A j \in Jobs' : FineJob(j)
  BY <1>3, OldJobs
<1> QED
  BY <1>2, <1>4, <1>5, <1>6, <1>7, IndexStep

LEMMA PushStep ==
  ASSUME PathInv, IdsLast, Paths!Push
  PROVE  PathInv'
<1>1. /\ UNCHANGED <<system, tree, stamp, departed, scan, seeing>> /\ misled \subseteq misled'
      /\ events # <<>> /\ events' = Tail(events)
  BY DEF Paths!Push, Paths!fs
<1>2. events' \in Seq(Tellable) /\ Head(events) \in Tellable
  <2>1. events \in Seq(Tellable)
    BY DEF PathInv
  <2> QED
    BY <1>1, <2>1
<1>3. IndexMoves /\ IsFiniteSet(scan'.jobs) /\ Traversed'
  BY <1>1, <1>2 DEF IndexMoves, PathInv, Traversed
<1>4. Jobs' = Jobs
  BY <1>1 DEF Jobs
<1>5. CASE rows' = rows
  BY <1>3, <1>4, <1>5, OldJobs, RowsRest
<1>6. CASE rows' # rows
  <2> DEFINE e == Head(events)
  <2>1. e.k = "renamed" /\ Paths!PairRelinks(e)
    BY <1>6 DEF Paths!Push, Paths!PushPlain, Paths!PushOverflow, Paths!PairFallsBack
  <2>2. e.q \in Path
    BY <1>2, <2>1 DEF Tellable
  <2>3. tree[e.q] # Nothing /\ \E r \in Paths!RowOfPair(e) :
          rows' = (rows \ {r}) \cup {Paths!NewRow(e.q, r.c, tree[e.q].t)}
    BY <1>6, <2>1 DEF Paths!PairRelinks
  <2>4. PICK r \in rows : rows' = (rows \ {r}) \cup {Paths!NewRow(e.q, r.c, tree[e.q].t)}
    BY <2>3 DEF Paths!RowOfPair, Paths!ActiveAt
  <2> DEFINE n == Paths!NewRow(e.q, r.c, tree[e.q].t)
  <2>5. /\ DOMAIN n = {"id", "p", "c", "t", "on"}
        /\ n.id = Paths!FreshId /\ n.p = e.q /\ n.c = r.c /\ n.t = tree[e.q].t
    BY DEF Paths!NewRow
  <2>6. rows' = (rows \ {r}) \cup {n}
    BY <2>4
  <2> HIDE DEF n, e
  <2>7. n.id \in Id /\ \A x \in Held \cup Jobs : x.id # n.id
    BY <2>5, FreshId
  <2>8. FineRow(r) /\ r \in Held
    BY DEF PathInv, Held
  <2>9. FineRow(n) \/ (RowShape(n) /\ Paths!Bound(n) \in misled')
    <3>1. RowShape(n)
      BY <2>2, <2>3, <2>5, <2>7, <2>8 DEF FineRow, RowShape, PathInv, Disk, Settled
    <3>2. CASE n.c = tree[n.p].c
      BY <2>5, <3>1, <3>2 DEF FineRow, Honest
    <3>3. CASE n.c # tree[n.p].c
      <4>1. n \in rows' /\ n \notin rows
        BY <2>6, <2>7 DEF Held
      <4>2. Paths!Bound(n) \in misled'
        BY <3>3, <4>1 DEF Paths!Push
      <4> QED
        BY <3>1, <4>2
    <3> QED
      BY <3>2, <3>3
  <2>10. PICK R : R = rows'
    OBVIOUS
  <2>11. /\ Agree(R \cup scan.known, Jobs)
         /\ \A x \in R : FineRow(x) \/ (RowShape(x) /\ Paths!Bound(x) \in misled')
    <3>1. R \cup scan.known \subseteq Held \cup {n}
      BY <2>6, <2>10 DEF Held
    <3>2. Agree(Held, Jobs)
      BY DEF PathInv
    <3> QED
      BY <2>6, <2>7, <2>9, <2>10, <3>1, <3>2, AgreeAdds DEF PathInv, Held
  <2>12. IsFiniteSet(R)
    <3>1. IsFiniteSet(rows \ {r})
      BY FS_RemoveElement DEF PathInv
    <3> QED
      BY <2>6, <2>10, <3>1, FS_AddElement
  <2>13. Held' = R \cup scan.known
    BY <1>1, <2>10 DEF Held
  <2>14. \A j \in Jobs' : FineJob(j)
    BY <1>4, OldJobs
  <2> QED
    BY <1>3, <1>4, <2>10, <2>11, <2>12, <2>13, <2>14, IndexStep
<1> QED
  BY <1>5, <1>6

\* The scan is stopped or killed, or the root is left.
LEMMA ScanEnds ==
  ASSUME PathInv, IdsLast, Paths!Crash \/ Paths!StopScan
  PROVE  PathInv'
<1>1. /\ UNCHANGED <<system, tree, stamp, departed, misled, rows>> /\ scan' = Paths!NoScan
      /\ \/ events' = events /\ seeing' = seeing
         \/ events' = <<>> /\ seeing' = Nothing
  BY DEF Paths!Crash, Paths!StopScan, Paths!fs, Paths!scanOnly
<1>2. /\ scan'.known = {} /\ scan'.jobs = {} /\ scan'.kept = {}
      /\ DOMAIN scan' = {"at", "by", "stop", "known", "todo", "jobs", "seen", "bad", "kept", "calm"}
  BY <1>1 DEF Paths!NoScan
<1>3. IndexMoves
  <2>1. events' \in Seq(Tellable)
    <3>1. <<>> \in Seq(Tellable) /\ events \in Seq(Tellable)
      BY DEF PathInv
    <3> QED
      BY <1>1, <3>1
  <2> QED
    BY <1>1, <1>2, <2>1 DEF IndexMoves
<1>4. Jobs' \subseteq Jobs
  BY <1>1, <1>2 DEF Jobs
<1>5. IsFiniteSet(scan'.jobs) /\ Traversed'
  BY <1>2, FS_EmptySet DEF Traversed
<1> QED
  BY <1>1, <1>3, <1>4, <1>5, OldJobs, RowsRest

LEMMA LeaveStep ==
  ASSUME PathInv, IdsLast, NEW to, Paths!LeaveRoot(to)
  PROVE  PathInv'
<1>1. PICK b \in BOOLEAN : scan' = [scan EXCEPT !.stop = b, !.calm = FALSE]
  BY DEF Paths!LeaveRoot, Paths!Scanning
<1>2. /\ UNCHANGED <<system, tree, stamp, departed, misled>> /\ seeing' = Nothing /\ events' = <<>>
      /\ rows' = rows \/ rows' = {[r EXCEPT !.on = FALSE] : r \in rows}
  BY DEF Paths!LeaveRoot, Paths!Unwatch, Paths!fs
<1>3. /\ DOMAIN scan' = {"at", "by", "stop", "known", "todo", "jobs", "seen", "bad", "kept", "calm"}
      /\ scan'.at = scan.at /\ scan'.known = scan.known /\ scan'.jobs = scan.jobs
      /\ scan'.kept = scan.kept /\ scan'.bad = scan.bad /\ scan'.seen = scan.seen /\ scan'.todo = scan.todo
  BY <1>1 DEF PathInv
<1>4. IndexMoves
  BY <1>2, <1>3 DEF IndexMoves
<1>5. Traversed' /\ IsFiniteSet(scan'.jobs) /\ Jobs' \subseteq Jobs
  BY <1>2, <1>3 DEF Traversed, PathInv, Jobs
<1>6. \A j \in Jobs' : FineJob(j)
  BY <1>5, OldJobs
<1>7. CASE rows' = rows
  BY <1>4, <1>5, <1>7, OldJobs, RowsRest
<1>8. CASE rows' = {[r EXCEPT !.on = FALSE] : r \in rows}
  <2>1. PICK R, J : R = rows' /\ J = Jobs'
    OBVIOUS
  <2> DEFINE off(r) == [r EXCEPT !.on = FALSE]
             f == [r \in rows |-> off(r)]
  <2>2. ASSUME NEW r \in rows
        PROVE  FineRow(off(r)) /\ off(r).id = r.id /\ off(r).p = r.p /\ off(r).c = r.c
    <3> DEFINE x == off(r)
    <3>1. FineRow(r)
      BY DEF PathInv, Held
    <3>2. /\ DOMAIN x = {"id", "p", "c", "t", "on"}
          /\ x.id = r.id /\ x.p = r.p /\ x.c = r.c /\ x.t = r.t
      BY <3>1 DEF FineRow, RowShape, Paths!Bound
    <3> HIDE DEF x
    <3>3. FineRow(x)
      BY <3>1, <3>2 DEF FineRow, RowShape, Paths!Bound
    <3> QED
      BY <3>2, <3>3 DEF x
  <2>3. R = {off(r) : r \in rows}
    BY <1>8, <2>1
  <2>4. f \in Surjection(rows, R)
    BY <2>3 DEF Surjection
  <2>5. IsFiniteSet(R)
    <3> HIDE DEF f
    <3> QED
      BY <2>4, FS_Surjection DEF PathInv
  <2> HIDE DEF off
  <2>6. \A x \in R \cup scan.known : \E y \in Held : x.id = y.id /\ x.p = y.p /\ x.c = y.c
    BY <2>2, <2>3 DEF Held
  <2>7. \A j \in J : \E k \in Jobs : j.id = k.id /\ j.p = k.p /\ j.rc = k.rc
    BY <1>5, <2>1
  <2>8. Agree(Held, Jobs) /\ \A x \in Held : x.id # 0
    BY DEF PathInv, FineRow, RowShape, Paths!Bound, IdsLast
  <2>9. Agree(R \cup scan.known, J)
    BY <2>6, <2>7, <2>8, AgreeDerived
  <2>10. Held' = R \cup scan.known /\ \A x \in R : FineRow(x)
    BY <1>3, <2>1, <2>2, <2>3 DEF Held
  <2> QED
    BY <1>4, <1>5, <1>6, <2>1, <2>5, <2>9, <2>10, IndexStep
<1> QED
  BY <1>2, <1>7, <1>8

LEMMA ScanBegins ==
  ASSUME PathInv, IdsLast, NEW by, Paths!StartScan(by)
  PROVE  PathInv'
<1>1. /\ UNCHANGED <<system, tree, stamp, departed, misled, rows, events, seeing>>
      /\ scan' = [Paths!NoScan EXCEPT !.at = "walk", !.by = by, !.todo = Path,
                            !.known = {r \in rows : r.on}, !.kept = {p \in Path : tree[p] # Nothing},
                            !.calm = ~Paths!Pending]
  BY DEF Paths!StartScan, Paths!scanOnly, Paths!fs
<1>2. PICK a, k, c : a = {r \in rows : r.on} /\ k = {p \in Path : tree[p] # Nothing} /\ c = ~Paths!Pending
  OBVIOUS
<1>3. scan' = [Paths!NoScan EXCEPT !.at = "walk", !.by = by, !.todo = Path, !.known = a, !.kept = k, !.calm = c]
  BY <1>1, <1>2
<1>4. /\ DOMAIN scan' = {"at", "by", "stop", "known", "todo", "jobs", "seen", "bad", "kept", "calm"}
      /\ scan'.at = "walk" /\ scan'.known = a /\ scan'.jobs = {} /\ scan'.kept = k /\ scan'.todo = Path
  BY <1>3 DEF Paths!NoScan
<1>5. IndexMoves
  BY <1>1, <1>2, <1>4 DEF IndexMoves, PathInv
<1>6. Jobs' \subseteq Jobs
  BY <1>1, <1>4 DEF Jobs
<1>7. IsFiniteSet(scan'.jobs) /\ Traversed'
  BY <1>1, <1>2, <1>4, FS_EmptySet DEF Traversed
<1> QED
  BY <1>1, <1>5, <1>6, <1>7, OldJobs, RowsRest

\* What a step of the walk finds.
LEMMA FoundJobs ==
  ASSUME PathInv, NEW p \in Path, tree[p] # Nothing
  PROVE  IsFiniteSet(Paths!Found(p)) /\ \A j \in Paths!Found(p) : FineJob(j) /\ Derived(j)
<1> DEFINE there == {r \in scan.known : r.p = p}
           changed == {k \in there : ~Paths!Matches(k, tree[p])}
           f == [r \in changed |-> Paths!Job(p, r)]
<1>1. CASE there = {}
  <2>1. Paths!Found(p) = {[Paths!NewJob(p) EXCEPT !.st = "unknown"]}
    BY <1>1 DEF Paths!Found
  <2> QED
    BY <2>1, MadeJobs, FS_Singleton
<1>2. CASE there # {}
  <2>1. Paths!Found(p) = {Paths!Job(p, r) : r \in changed}
    BY <1>2 DEF Paths!Found
  <2>2. IsFiniteSet(changed)
    BY FS_Subset DEF PathInv
  <2>3. f \in Surjection(changed, Paths!Found(p))
    BY <2>1 DEF Surjection
  <2>4. IsFiniteSet(Paths!Found(p))
    <3> HIDE DEF changed, f
    <3> QED
      BY <2>2, <2>3, FS_Surjection
  <2>5. \A r \in changed : r \in Held /\ r.p = p
    BY DEF Held
  <2> HIDE DEF changed
  <2> QED
    BY <2>1, <2>4, <2>5, MadeJobs
<1> QED
  BY <1>1, <1>2

LEMMA WalkSteps ==
  ASSUME PathInv, IdsLast, NEW p \in Path, Paths!Walk(p) \/ Paths!WalkFails(p)
  PROVE  PathInv'
<1>1. UNCHANGED <<system, tree, stamp, departed, misled, rows, events, seeing>>
  BY DEF Paths!Walk, Paths!WalkFails, Paths!scanOnly, Paths!fs
<1>2. DOMAIN scan = {"at", "by", "stop", "known", "todo", "jobs", "seen", "bad", "kept", "calm"}
  BY DEF PathInv
<1>3. /\ DOMAIN scan' = DOMAIN scan
      /\ scan'.at = scan.at /\ scan'.known = scan.known /\ scan'.kept = scan.kept
      /\ scan'.todo = scan.todo \ {p}
      /\ \/ tree[p] = Nothing /\ scan'.jobs = scan.jobs /\ scan'.seen = scan.seen /\ scan'.bad = scan.bad
         \/ /\ tree[p] # Nothing /\ scan'.jobs = scan.jobs \cup Paths!Found(p)
            /\ scan'.seen = scan.seen \cup {p} /\ scan'.bad = scan.bad
         \/ scan'.jobs = scan.jobs /\ scan'.seen = scan.seen /\ scan'.bad = TRUE
  <2>1. CASE Paths!WalkFails(p)
    BY <1>2, <2>1 DEF Paths!WalkFails
  <2>2. CASE Paths!Walk(p) /\ tree[p] = Nothing
    BY <1>2, <2>2 DEF Paths!Walk
  <2>3. CASE Paths!Walk(p) /\ tree[p] # Nothing
    <3>1. PICK found : found = Paths!Found(p)
      OBVIOUS
    <3>2. scan' = [scan EXCEPT !.todo = @ \ {p}, !.seen = @ \cup {p}, !.jobs = @ \cup found]
      BY <2>3, <3>1 DEF Paths!Walk
    <3> QED
      BY <1>2, <2>3, <3>1, <3>2
  <2> QED
    BY <2>1, <2>2, <2>3
<1>4. IndexMoves
  BY <1>1, <1>2, <1>3 DEF IndexMoves, PathInv
<1>5. IsFiniteSet(scan'.jobs)
  <2>1. IsFiniteSet(scan.jobs)
    BY DEF PathInv
  <2>2. CASE scan'.jobs = scan.jobs
    BY <2>1, <2>2
  <2>3. CASE tree[p] # Nothing /\ scan'.jobs = scan.jobs \cup Paths!Found(p)
    <3>1. PICK found : found = Paths!Found(p)
      OBVIOUS
    <3>2. IsFiniteSet(found)
      BY <2>3, <3>1, FoundJobs
    <3>3. IsFiniteSet(scan.jobs \cup found)
      BY <2>1, <3>2, FS_Union
    <3> QED
      BY <2>3, <3>1, <3>3
  <2> QED
    BY <1>3, <2>2, <2>3
<1>6. \A j \in Jobs' : FineJob(j) /\ Derived(j)
  <2>1. \A j \in Jobs' : j \in Jobs \/ (tree[p] # Nothing /\ j \in Paths!Found(p))
    BY <1>1, <1>3 DEF Jobs
  <2> QED
    BY <2>1, OldJobs, FoundJobs
<1>7. Traversed'
  BY <1>1, <1>3 DEF Traversed, PathInv
<1> QED
  BY <1>1, <1>4, <1>5, <1>6, <1>7, RowsRest

\* A step of the scan that changes its jobs.
LEMMA JobsStep ==
  ASSUME PathInv, NEW J, IsFiniteSet(J),
         UNCHANGED <<system, tree, stamp, departed, misled, events, seeing>>,
         \/ scan' = [scan EXCEPT !.jobs = J]
         \/ scan' = [scan EXCEPT !.jobs = J, !.calm = FALSE]
  PROVE  /\ IndexMoves /\ Traversed' /\ IsFiniteSet(scan'.jobs) /\ scan'.known = scan.known
         /\ Jobs' = J \cup (IF seeing = Nothing THEN {} ELSE {seeing})
<1>1. /\ DOMAIN scan' = {"at", "by", "stop", "known", "todo", "jobs", "seen", "bad", "kept", "calm"}
      /\ scan'.at = scan.at /\ scan'.known = scan.known /\ scan'.jobs = J
      /\ scan'.kept = scan.kept /\ scan'.bad = scan.bad /\ scan'.seen = scan.seen /\ scan'.todo = scan.todo
  BY DEF PathInv
<1>2. IndexMoves
  BY <1>1 DEF IndexMoves, PathInv
<1>3. Traversed'
  BY <1>1 DEF Traversed, PathInv
<1> QED
  BY <1>1, <1>2, <1>3 DEF Jobs

LEMMA JobsLess ==
  ASSUME PathInv, NEW j \in scan.jobs, NEW S, IsFiniteSet(S), \A s \in S : FineJob(s) /\ Derived(s)
  PROVE  /\ IsFiniteSet((scan.jobs \ {j}) \cup S)
         /\ \A k \in (scan.jobs \ {j}) \cup S \cup (IF seeing = Nothing THEN {} ELSE {seeing}) :
              FineJob(k) /\ Derived(k)
<1>1. IsFiniteSet(scan.jobs \ {j})
  BY FS_RemoveElement DEF PathInv
<1>2. IsFiniteSet((scan.jobs \ {j}) \cup S)
  BY <1>1, FS_Union
<1> QED
  BY <1>2, OldJobs DEF Jobs

LEMMA ResolveStep ==
  ASSUME PathInv, IdsLast, NEW j \in scan.jobs, Paths!Resolve(j)
  PROVE  PathInv'
<1>1. UNCHANGED <<system, tree, stamp, departed, misled, events, seeing>>
  BY DEF Paths!Resolve, Paths!scanOnly, Paths!fs
<1>2. j \in Jobs /\ FineJob(j) /\ j.st = "unknown"
  BY OldJobs DEF Jobs, Paths!Resolve, Paths!Upcoming, Paths!Unknown
<1>3. \E S : /\ Paths!Becomes(j, S)
             /\ \/ rows' = rows /\ S = {}
                \/ rows' = rows /\ S = {[j EXCEPT !.st = "job"]}
                \/ rows' = rows /\ \E r \in rows : r.p = j.p /\ S = {Paths!KnownJob(j, r)}
                \/ S = {} /\ \E r \in rows : Paths!Revive(r)
  BY DEF Paths!Resolve, Paths!ActiveAt, Paths!Returning
<1>4. PICK S : /\ Paths!Becomes(j, S)
               /\ \/ rows' = rows /\ S = {}
                  \/ rows' = rows /\ S = {[j EXCEPT !.st = "job"]}
                  \/ rows' = rows /\ \E r \in rows : r.p = j.p /\ S = {Paths!KnownJob(j, r)}
                  \/ S = {} /\ \E r \in rows : Paths!Revive(r)
  BY <1>3
<1>5. IsFiniteSet(S) /\ \A s \in S : FineJob(s) /\ Derived(s)
  <2>1. ASSUME S = {[j EXCEPT !.st = "job"]}
        PROVE  IsFiniteSet(S) /\ \A s \in S : FineJob(s) /\ Derived(s)
    <3>1. PICK n : n = [j EXCEPT !.st = "job"]
      OBVIOUS
    <3>2. /\ DOMAIN n = {"p", "t", "size", "id", "rc", "c", "st"} /\ n.p = j.p /\ n.t = j.t
          /\ n.st = "job" /\ n.id = j.id /\ n.rc = j.rc
      BY <1>2, <3>1 DEF FineJob
    <3>3. FineJob(n) /\ Derived(n)
      BY <1>2, <3>2 DEF FineJob, Derived
    <3> QED
      BY <2>1, <3>1, <3>3, FS_Singleton
  <2>2. ASSUME NEW r \in rows, r.p = j.p, S = {Paths!KnownJob(j, r)}
        PROVE  IsFiniteSet(S) /\ \A s \in S : FineJob(s) /\ Derived(s)
    <3>1. PICK n : n = Paths!KnownJob(j, r)
      OBVIOUS
    <3>2. /\ DOMAIN n = {"p", "t", "size", "id", "rc", "c", "st"} /\ n.p = j.p /\ n.t = j.t
          /\ n.st = "job" /\ n.id = r.id /\ n.rc = r.c
      BY <1>2, <3>1 DEF FineJob, Paths!KnownJob
    <3>3. FineJob(n) /\ Derived(n)
      BY <1>2, <2>2, <3>2 DEF FineJob, Derived, Held
    <3> QED
      BY <2>2, <3>1, <3>3, FS_Singleton
  <2> QED
    BY <1>4, <2>1, <2>2, FS_EmptySet
<1>6. PICK J : J = (scan.jobs \ {j}) \cup S
  OBVIOUS
<1>7. /\ IsFiniteSet(J)
      /\ \A k \in J \cup (IF seeing = Nothing THEN {} ELSE {seeing}) : FineJob(k) /\ Derived(k)
  BY <1>5, <1>6, JobsLess
<1>8. scan' = [scan EXCEPT !.jobs = J]
  BY <1>4, <1>6 DEF Paths!Becomes
<1>9. /\ IndexMoves /\ Traversed' /\ IsFiniteSet(scan'.jobs) /\ scan'.known = scan.known
      /\ Jobs' = J \cup (IF seeing = Nothing THEN {} ELSE {seeing})
  BY <1>1, <1>7, <1>8, JobsStep
<1>10. CASE rows' = rows
  BY <1>7, <1>9, <1>10, RowsRest
<1>11. CASE S = {} /\ \E r \in rows : Paths!Revive(r)
  <2>1. PICK r \in rows : rows' = (rows \ {r}) \cup {[r EXCEPT !.on = TRUE]}
    BY <1>11 DEF Paths!Revive
  <2>2. PICK R, K : R = rows' /\ K = Jobs'
    OBVIOUS
  <2>3. K \subseteq Jobs
    BY <1>6, <1>9, <1>11, <2>2 DEF Jobs
  <2>4. (\A x \in R : FineRow(x)) /\ Agree(R \cup scan.known, K) /\ IsFiniteSet(R)
    BY <2>1, <2>2, <2>3, RevivedKeeps
  <2>5. Held' = R \cup scan.known
    BY <1>9, <2>2 DEF Held
  <2>6. \A k \in Jobs' : FineJob(k)
    BY <1>7, <1>9
  <2> QED
    BY <1>9, <2>2, <2>4, <2>5, <2>6, IndexStep
<1> QED
  BY <1>4, <1>10, <1>11

LEMMA HashSteps ==
  ASSUME PathInv, IdsLast, NEW j \in scan.jobs, Paths!HashJob(j) \/ Paths!HashFails(j)
  PROVE  PathInv'
<1>1. UNCHANGED <<system, tree, stamp, departed, misled, events, seeing, rows>> /\ j \in Jobs
  BY DEF Paths!HashJob, Paths!HashFails, Paths!scanOnly, Paths!fs, Jobs
<1>2. \E S : /\ \/ scan' = [scan EXCEPT !.jobs = (scan.jobs \ {j}) \cup S]
                \/ scan' = [scan EXCEPT !.jobs = (scan.jobs \ {j}) \cup S, !.calm = FALSE]
             /\ \/ S = {}
                \/ tree[j.p] # Nothing /\ S = {[j EXCEPT !.c = tree[j.p].c, !.st = "hashed"]}
  <2>1. CASE Paths!HashJob(j)
    BY <2>1 DEF Paths!HashJob, Paths!Becomes
  <2>2. CASE Paths!HashFails(j)
    <3>1. scan' = [scan EXCEPT !.jobs = scan.jobs \ {j}, !.calm = FALSE]
      BY <2>2 DEF Paths!HashFails
    <3>2. scan.jobs \ {j} = (scan.jobs \ {j}) \cup {}
      OBVIOUS
    <3> QED
      BY <3>1, <3>2
  <2> QED
    BY <2>1, <2>2
<1>3. PICK S : /\ \/ scan' = [scan EXCEPT !.jobs = (scan.jobs \ {j}) \cup S]
                  \/ scan' = [scan EXCEPT !.jobs = (scan.jobs \ {j}) \cup S, !.calm = FALSE]
               /\ \/ S = {}
                  \/ tree[j.p] # Nothing /\ S = {[j EXCEPT !.c = tree[j.p].c, !.st = "hashed"]}
  BY <1>2
<1>4. IsFiniteSet(S) /\ \A s \in S : FineJob(s) /\ Derived(s)
  <2>1. CASE S = {}
    BY <2>1, FS_EmptySet
  <2>2. CASE tree[j.p] # Nothing /\ S = {[j EXCEPT !.c = tree[j.p].c, !.st = "hashed"]}
    <3>1. PICK h : h = [j EXCEPT !.c = tree[j.p].c, !.st = "hashed"]
      OBVIOUS
    <3>2. FineJob(h) /\ Derived(h)
      BY <1>1, <2>2, <3>1, HashedJob
    <3> QED
      BY <2>2, <3>1, <3>2, FS_Singleton
  <2> QED
    BY <1>3, <2>1, <2>2
<1>5. PICK J : J = (scan.jobs \ {j}) \cup S
  OBVIOUS
<1>6. /\ IsFiniteSet(J)
      /\ \A k \in J \cup (IF seeing = Nothing THEN {} ELSE {seeing}) : FineJob(k) /\ Derived(k)
  BY <1>4, <1>5, JobsLess
<1>7. /\ IndexMoves /\ Traversed' /\ IsFiniteSet(scan'.jobs) /\ scan'.known = scan.known
      /\ Jobs' = J \cup (IF seeing = Nothing THEN {} ELSE {seeing})
  BY <1>1, <1>3, <1>5, <1>6, JobsStep
<1> QED
  BY <1>1, <1>6, <1>7, RowsRest

LEMMA ApplyStep ==
  ASSUME PathInv, IdsLast, NEW j \in scan.jobs, Paths!ApplyJob(j)
  PROVE  PathInv'
<1>1. /\ UNCHANGED <<system, tree, stamp, departed, misled, events, seeing>> /\ j \in Jobs
      /\ j.st = "hashed" /\ rows' = Paths!Applied(j)
  BY DEF Paths!ApplyJob, Paths!scanOnly, Paths!fs, Jobs, Paths!Unread
<1>2. PICK R, K : R = rows' /\ K = Jobs'
  OBVIOUS
<1>3. /\ IndexMoves /\ Traversed' /\ IsFiniteSet(scan'.jobs) /\ Jobs' \subseteq Jobs
      /\ scan'.known = scan.known \/ (scan'.known = {} /\ rows' = rows)
  <2>1. CASE Paths!Clashes(j)
    <3>1. scan' = Paths!NoScan /\ rows' = rows
      BY <1>1, <2>1 DEF Paths!ApplyJob, Paths!Applied, Paths!Clashes
    <3>2. /\ scan'.known = {} /\ scan'.jobs = {} /\ scan'.kept = {}
          /\ DOMAIN scan' = {"at", "by", "stop", "known", "todo", "jobs", "seen", "bad", "kept", "calm"}
      BY <3>1 DEF Paths!NoScan
    <3>3. IndexMoves
      BY <1>1, <3>2 DEF IndexMoves, PathInv
    <3> QED
      BY <1>1, <3>1, <3>2, <3>3, FS_EmptySet DEF Traversed, Jobs
  <2>2. CASE ~Paths!Clashes(j)
    <3>1. PICK J : J = scan.jobs \ {j}
      OBVIOUS
    <3>2. scan' = [scan EXCEPT !.jobs = J]
      <4>1. scan' = [scan EXCEPT !.jobs = (scan.jobs \ {j}) \cup {}]
        BY <2>2 DEF Paths!ApplyJob, Paths!Becomes
      <4>2. J = (scan.jobs \ {j}) \cup {}
        BY <3>1
      <4> QED
        BY <4>1, <4>2
    <3>3. IsFiniteSet(J)
      BY <3>1, FS_RemoveElement DEF PathInv
    <3>4. /\ IndexMoves /\ Traversed' /\ IsFiniteSet(scan'.jobs) /\ scan'.known = scan.known
          /\ Jobs' = J \cup (IF seeing = Nothing THEN {} ELSE {seeing})
      BY <1>1, <3>2, <3>3, JobsStep
    <3> QED
      BY <3>1, <3>4 DEF Jobs
  <2> QED
    BY <2>1, <2>2
<1>4. \A k \in Jobs' : FineJob(k) /\ Derived(k)
  BY <1>3, OldJobs
<1>5. CASE scan'.known = {} /\ rows' = rows
  BY <1>3, <1>4, <1>5, RowsRest
<1>6. CASE scan'.known = scan.known
  <2>1. (\A x \in R : FineRow(x)) /\ Agree(R \cup scan.known, K) /\ IsFiniteSet(R)
    BY <1>1, <1>2, <1>3, AppliedKeeps
  <2>2. Held' = R \cup scan.known
    BY <1>2, <1>6 DEF Held
  <2> QED
    BY <1>2, <1>3, <1>4, <2>1, <2>2, IndexStep
<1> QED
  BY <1>3, <1>5, <1>6

LEMMA FinishStep ==
  ASSUME PathInv, IdsLast, Paths!Finish
  PROVE  PathInv'
<1>1. /\ UNCHANGED <<system, tree, stamp, departed, misled, events, seeing>> /\ rows' \subseteq rows
      /\ scan' = Paths!NoScan
  BY DEF Paths!Finish, Paths!scanOnly, Paths!fs
<1>2. /\ scan'.known = {} /\ scan'.jobs = {} /\ scan'.kept = {}
      /\ DOMAIN scan' = {"at", "by", "stop", "known", "todo", "jobs", "seen", "bad", "kept", "calm"}
  BY <1>1 DEF Paths!NoScan
<1>3. IndexMoves
  BY <1>1, <1>2 DEF IndexMoves, PathInv
<1>4. Jobs' \subseteq Jobs
  BY <1>1, <1>2 DEF Jobs
<1>5. IsFiniteSet(scan'.jobs) /\ Traversed'
  BY <1>2, FS_EmptySet DEF Traversed
<1> QED
  BY <1>1, <1>3, <1>4, <1>5, OldJobs, RowsRest

LEMMA PathStep == PathInv /\ IdsLast /\ [Paths!Next]_treeVars => PathInv'
<1> SUFFICES ASSUME PathInv, IdsLast, [Paths!Next]_treeVars PROVE PathInv'
  OBVIOUS
<1>1. CASE UNCHANGED treeVars
  <2>1. UNCHANGED <<system, tree, stamp, rows, events, seeing, scan, departed, misled>>
    BY <1>1 DEF treeVars
  <2>2. IndexMoves
    BY <2>1 DEF IndexMoves, PathInv
  <2>3. Jobs' = Jobs /\ IsFiniteSet(scan'.jobs) /\ Traversed'
    BY <2>1 DEF Jobs, PathInv, Traversed
  <2> QED
    BY <2>1, <2>2, <2>3, OldJobs, RowsRest
<1>2. CASE Paths!Outside
  BY <1>2, TreeSteps, WatcherRests, LeaveStep, ScanEnds DEF Paths!Outside
<1>3. CASE Paths!Watching
  BY <1>3, PushStep, WatcherRests, WatcherLooks, WatcherWrites DEF Paths!Watching
<1>4. CASE Paths!Scans
  BY <1>4, WalkSteps, ResolveStep, HashSteps, ApplyStep, FinishStep, ScanEnds DEF Paths!Scans
<1>5. CASE \E by \in {"user", "watcher", "start"} : Paths!StartScan(by)
  BY <1>5, ScanBegins
<1> QED
  BY <1>1, <1>2, <1>3, <1>4, <1>5 DEF Paths!Next

LEMMA PathInvariant == ASSUME IdsLast PROVE Paths!Spec => []PathInv
<1>1. PathInv /\ [Paths!Next]_Paths!indexVars => PathInv'
  BY PathStep DEF Paths!indexVars, treeVars
<1> QED
  BY <1>1, PathInit, PTL DEF Paths!Spec

\* Whatever paths, contents, sizes and histories of the disk there are, and however
\* renames are told: a row with the stat of the file at its path has its content,
\* unless that file was renamed away before or a pair bound this very row to it by
\* its size.
THEOREM StatIsEnough == ASSUME IdsLast PROVE Paths!Spec => []FastPathIsSound
<1>1. PathInv => FastPathIsSound
  BY DEF PathInv, Held, FineRow, Honest, FastPathIsSound, Paths!FastPathIsSound, Paths!Matches
<1> QED
  BY <1>1, PathInvariant, PTL

\* A scan takes for deleted only what was gone at some time since it began, whatever
\* it could not read and whoever changed rows and files meanwhile.
THEOREM DeletionsAreSeen ==
  ASSUME IdsLast
  PROVE  Paths!Spec => AbsenceIsProven
<1> DEFINE Seen == (Paths!Scanning /\ scan'.at = "idle") =>
                     \A r \in rows : r.on /\ r \notin rows' => r.p \notin scan.kept
<1>1. ASSUME PathInv, [Paths!Next]_treeVars
      PROVE  Seen
  <2>1. \/ Paths!Finish \/ rows \subseteq rows' \/ scan' = scan \/ ~Paths!Scanning
        \/ scan'.at = scan.at
    <3>1. CASE UNCHANGED treeVars
      BY <3>1 DEF treeVars
    <3>2. CASE Paths!Outside
      <4>1. CASE \E to \in {"removed", "archived"} : Paths!LeaveRoot(to)
        BY <1>1, <4>1 DEF Paths!LeaveRoot, PathInv
      <4>2. CASE ~\E to \in {"removed", "archived"} : Paths!LeaveRoot(to)
        BY <3>2, <4>2 DEF Paths!Outside, Paths!Write, Paths!Replace, Paths!Delete, Paths!Rename, Paths!Changes,
           Paths!LoseEvents, Paths!ReturnRoot, Paths!Crash
      <4> QED
        BY <4>1, <4>2
    <3>3. CASE Paths!Watching
      BY <3>3 DEF Paths!Watching, Paths!Push, Paths!TickRemoved, Paths!TickAgain, Paths!TickObserve,
         Paths!WatcherHashes, Paths!WatcherFails, Paths!WatcherApplies
    <3>4. CASE Paths!Scans
      <4>1. CASE \E p \in Path : Paths!Walk(p) \/ Paths!WalkFails(p)
        BY <4>1 DEF Paths!Walk, Paths!WalkFails
      <4>2. CASE \E j \in scan.jobs : Paths!Resolve(j) \/ Paths!HashJob(j)
        BY <1>1, <4>2 DEF Paths!Resolve, Paths!HashJob, Paths!Becomes, PathInv
      <4>3. CASE \E j \in scan.jobs : Paths!HashFails(j)
        BY <4>3 DEF Paths!HashFails
      <4>4. CASE \E j \in scan.jobs : Paths!ApplyJob(j)
        BY <1>1, <4>4 DEF Paths!ApplyJob, Paths!Becomes, Paths!Applied, Paths!Clashes, PathInv
      <4>5. CASE Paths!StopScan
        BY <4>5 DEF Paths!StopScan
      <4> QED
        BY <3>4, <4>1, <4>2, <4>3, <4>4, <4>5 DEF Paths!Scans
    <3>5. CASE \E by \in {"user", "watcher", "start"} : Paths!StartScan(by)
      BY <3>5 DEF Paths!StartScan
    <3> QED
      BY <1>1, <3>1, <3>2, <3>3, <3>4, <3>5 DEF Paths!Next
  <2>2. CASE Paths!Finish
    <3> SUFFICES ASSUME NEW r \in rows, r.on, r \notin rows' PROVE r.p \notin scan.kept
      OBVIOUS
    <3>1. ~scan.bad /\ scan.todo = {} /\ \E k \in scan.known : k.p \notin scan.seen /\ k.id = r.id
      BY <2>2 DEF Paths!Finish
    <3>2. PICK k \in scan.known : k.p \notin scan.seen /\ k.id = r.id
      BY <3>1
    <3>3. r.p = k.p
      BY <1>1, <3>2 DEF PathInv, Agree, Held
    <3> QED
      BY <1>1, <3>1, <3>2, <3>3 DEF PathInv, Traversed
  <2>3. CASE rows \subseteq rows'
    BY <2>3
  <2>4. CASE scan' = scan \/ scan'.at = scan.at \/ ~Paths!Scanning
    BY <2>4 DEF Paths!Scanning
  <2> QED
    BY <2>1, <2>2, <2>3, <2>4
<1>2. Paths!Spec => [][Seen]_Paths!indexVars
  <2>1. PathInv /\ [Paths!Next]_Paths!indexVars => [Seen]_Paths!indexVars
    BY <1>1 DEF Paths!indexVars, treeVars
  <2> QED
    BY <2>1, PathInvariant, PTL DEF Paths!Spec
<1> QED
  BY <1>2 DEF AbsenceIsProven, Paths!AbsenceIsProven
====
