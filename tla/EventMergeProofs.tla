-------------------------- MODULE EventMergeProofs --------------------------
(***************************************************************************)
(* Proofs about EventMerge, for every set of devices and events, every     *)
(* chunk size and every value of the bounds.                               *)
(***************************************************************************)
EXTENDS EventMerge, TLAPS, WellFoundedInduction

LOCAL INSTANCE FiniteSetsExt

-----------------------------------------------------------------------------
(* Least numbers. *)

Below == {p \in Nat \X Nat : p[1] < p[2]}

LEMMA BelowWellFounded == IsWellFoundedOn(Below, Nat)
<1>1. Below = OpToRel(<, Nat)
  BY DEF Below, OpToRel
<1> QED
  BY <1>1, NatLessThanWellFounded

LEMMA MinIn ==
  ASSUME NEW T \in SUBSET Nat, T # {}
  PROVE  Min(T) \in T /\ \A y \in T : Min(T) <= y
<1>1. IsWellFoundedOn(Below, Nat)
  BY BelowWellFounded
<1>2. PICK x \in T : \A y \in T : ~(<<y, x>> \in Below)
  BY <1>1, WFMin
<1>3. ASSUME NEW y \in T
      PROVE  x <= y
  <2>1. x \in Nat /\ y \in Nat
    OBVIOUS
  <2>2. ~(y < x)
    BY <1>2, <2>1 DEF Below
  <2> QED
    BY <2>1, <2>2
<1>4. \E z \in T : \A y \in T : z <= y
  BY <1>3
<1> QED
  BY <1>4 DEF Min

-----------------------------------------------------------------------------
(* The invariant. *)

Markers == Act \union {NoAct}

LogOK ==
  /\ held \in [Device -> SUBSET Content]
  /\ by \in [Device -> [Content -> Markers]]
  /\ acts \in [Device -> SUBSET Acts]
  /\ reg \in [Device -> [Content -> Markers]]

TravelOK ==
  /\ docs \subseteq Docs
  /\ merging \in [Device -> [on : BOOLEAN, events : SUBSET Copies, acts : SUBSET Acts,
                             touched : SUBSET Content]]

\* Only what is here is marked.
MarkedIsHeld ==
  \A d \in Device, e \in Content : e \notin held[d] => by[d][e] = NoAct

\* The registry has a row exactly where a redaction is held.
RegIsActs ==
  \A d \in Device, e \in Content :
    reg[d][e] # NoAct <=> \E a \in acts[d] : a.victim = e

\* What the registry has condemned here shows nothing.
Condemning ==
  \A d \in Device, e \in Content : e \in held[d] /\ reg[d][e] # NoAct => by[d][e] # NoAct

\* No redaction, wherever it is, is of an event that nobody ever appended.
Known(as) == \A a \in as : \E c \in Device : a.victim \in held[c]

ActsKnown ==
  /\ \A d \in Device : Known(acts[d]) /\ Known(merging[d].acts)
  /\ \A k \in docs : Known(k.acts)

\* What a merge has yet to commit came from documents.
Carried ==
  \A d \in Device : Within(Told(merging[d].events, merging[d].acts), Shared)

\* A merge has one copy of each event.
OneCopy(s) == \A k, l \in s : k.event = l.event => k = l

MergeInv ==
  /\ LogOK /\ TravelOK
  /\ MarkedIsHeld /\ RegIsActs /\ Condemning /\ ActsKnown /\ Carried
  /\ \A d \in Device : OneCopy(merging[d].events)

LEMMA NoActIsNoAct == NoAct \notin Act /\ NoAct \notin Content /\ Act \subseteq Nat
BY IdAssumption DEF NoAct

LEMMA LeastMarks ==
  ASSUME NEW i \in Markers, NEW j \in Markers
  PROVE  /\ Least(i, j) \in Markers
         /\ Least(i, j) # NoAct <=> i # NoAct \/ j # NoAct
BY DEF Least, Markers

LEMMA ActIds ==
  ASSUME NEW as \in SUBSET Acts, NEW e,
         NEW ids, ids = {a.id : a \in {x \in as : x.victim = e}}
  PROVE  /\ ids \subseteq Act
         /\ ids # {} <=> \E a \in as : a.victim = e
         /\ ids # {} => Min(ids) \in Act
<1>1. ids \subseteq Act
  BY DEF Acts
<1>2. ids # {} <=> \E a \in as : a.victim = e
  OBVIOUS
<1>3. ids # {} => Min(ids) \in ids
  <2>1. ids \in SUBSET Nat
    BY <1>1, NoActIsNoAct
  <2> QED
    BY <2>1, MinIn
<1> QED
  BY <1>1, <1>2, <1>3

\* The registry after a chunk: a row for what had one, and for what the chunk's
\* redactions are about.
LEMMA RegisteredMarks ==
  ASSUME LogOK, NEW d \in Device, NEW as \in SUBSET Acts
  PROVE  /\ Registered(d, as) \in [Content -> Markers]
         /\ \A e \in Content :
              Registered(d, as)[e] # NoAct <=>
                reg[d][e] # NoAct \/ \E a \in as : a.victim = e
<1>1. ASSUME NEW e \in Content
      PROVE  /\ Registered(d, as)[e] \in Markers
             /\ Registered(d, as)[e] # NoAct <=>
                  reg[d][e] # NoAct \/ \E a \in as : a.victim = e
  <2> DEFINE ids == {a.id : a \in {x \in as : x.victim = e}}
  <2>1. Registered(d, as)[e] = IF ids = {} THEN reg[d][e] ELSE Least(reg[d][e], Min(ids))
    BY DEF Registered
  <2>2. /\ ids # {} <=> \E a \in as : a.victim = e
        /\ ids # {} => Min(ids) \in Act
    BY ActIds
  <2>3. reg[d][e] \in Markers
    BY DEF LogOK
  <2> HIDE DEF ids
  <2>4. CASE ids = {}
    BY <2>1, <2>2, <2>3, <2>4
  <2>5. CASE ids # {}
    <3>1. Min(ids) \in Act /\ Min(ids) \in Markers /\ Min(ids) # NoAct
      BY <2>2, <2>5, NoActIsNoAct DEF Markers
    <3>2. /\ Least(reg[d][e], Min(ids)) \in Markers
          /\ Least(reg[d][e], Min(ids)) # NoAct
      BY <2>3, <3>1, LeastMarks
    <3> QED
      BY <2>1, <2>2, <2>5, <3>2
  <2> QED
    BY <2>4, <2>5
<1>2. Registered(d, as) = [e \in Content |-> Registered(d, as)[e]]
  BY DEF Registered
<1> QED
  BY <1>1, <1>2

\* The markers `b` that hold of the events `h` after a chunk: exactly what was
\* scrubbed, what came scrubbed, and what the registry `r` has.
MarksOf(d, s, r, b, h) ==
  /\ b \in [Content -> Markers]
  /\ \A e \in Content : e \notin h => b[e] = NoAct
  /\ \A e \in h : b[e] # NoAct <=>
       \/ e \in held[d] /\ by[d][e] # NoAct
       \/ \E k \in s : k.event = e /\ k.by # NoAct
       \/ r[e] # NoAct

LEMMA LandedMarks ==
  ASSUME LogOK, MarkedIsHeld, Condemning, NEW d \in Device,
         NEW s \in SUBSET Copies, OneCopy(s), NEW as \in SUBSET Acts,
         NEW r, r = Registered(d, as),
         NEW b, b = Landed(d, s, r, Condemned(d, as, r)),
         NEW h, h = held[d] \union {k.event : k \in s}
  PROVE  MarksOf(d, s, r, b, h)
<1>1. /\ r \in [Content -> Markers]
      /\ \A e \in Content : r[e] # NoAct <=> reg[d][e] # NoAct \/ \E a \in as : a.victim = e
  BY RegisteredMarks
<1> DEFINE c == Condemned(d, as, r)
<1>2. ASSUME NEW e \in Content
      PROVE  /\ c[e] \in Markers
             /\ c[e] # NoAct <=>
                  \/ by[d][e] # NoAct
                  \/ e \in held[d] /\ \E a \in as : a.victim = e
  <2>1. c[e] = IF e \in held[d] /\ by[d][e] = NoAct /\ \E a \in as : a.victim = e
               THEN r[e] ELSE by[d][e]
    BY DEF Condemned
  <2>2. by[d][e] \in Markers
    BY DEF LogOK
  <2>3. r[e] \in Markers
    BY <1>1
  <2> QED
    BY <1>1, <2>1, <2>2, <2>3
<1> HIDE DEF c
<1>3. ASSUME NEW e \in Content
      PROVE  /\ b[e] \in Markers
             /\ e \notin h => b[e] = NoAct
             /\ e \in h => (b[e] # NoAct <=>
                  \/ e \in held[d] /\ by[d][e] # NoAct
                  \/ \E k \in s : k.event = e /\ k.by # NoAct
                  \/ r[e] # NoAct)
  <2>1. b[e] = IF (e \in held[d] /\ c[e] # NoAct) \/ ~\E k \in s : k.event = e THEN c[e]
               ELSE LET k == CHOOSE k \in s : k.event = e
                    IN IF k.by = NoAct THEN r[e] ELSE k.by
    BY DEF Landed, c
  <2>2. e \notin held[d] => by[d][e] = NoAct
    BY DEF MarkedIsHeld
  <2>3. e \in held[d] /\ reg[d][e] # NoAct => by[d][e] # NoAct
    BY DEF Condemning
  <2>4. r[e] # NoAct <=> reg[d][e] # NoAct \/ \E a \in as : a.victim = e
    BY <1>1
  <2>5. /\ c[e] \in Markers /\ r[e] \in Markers
        /\ c[e] # NoAct <=>
             by[d][e] # NoAct \/ (e \in held[d] /\ \E a \in as : a.victim = e)
    BY <1>1, <1>2
  <2>6. CASE e \in held[d] /\ c[e] # NoAct
    <3>1. b[e] = c[e] /\ e \in h
      BY <2>1, <2>6
    <3> QED
      BY <3>1, <2>4, <2>5, <2>6
  <2>7. CASE ~(e \in held[d] /\ c[e] # NoAct) /\ ~\E k \in s : k.event = e
    <3>1. b[e] = c[e] /\ c[e] = NoAct
      BY <2>1, <2>2, <2>5, <2>7
    <3>2. e \in h => e \in held[d]
      BY <2>7
    <3>3. e \in held[d] => r[e] = NoAct
      BY <2>3, <2>4, <2>5, <2>7
    <3> QED
      BY <3>1, <3>2, <3>3, <2>5, <2>7
  <2>8. CASE ~(e \in held[d] /\ c[e] # NoAct) /\ \E k \in s : k.event = e
    <3> DEFINE k == CHOOSE x \in s : x.event = e
    <3>1. k \in s /\ k.event = e
      BY <2>8
    <3>2. \A l \in s : l.event = e => l = k
      BY <3>1 DEF OneCopy
    <3>3. k.by \in Markers
      BY <3>1 DEF Copies, Markers
    <3>4. b[e] = IF k.by = NoAct THEN r[e] ELSE k.by
      BY <2>1, <2>8
    <3>5. e \in h /\ (e \in held[d] => by[d][e] = NoAct)
      BY <2>5, <2>8, <3>1
    <3> HIDE DEF k
    <3> QED
      BY <3>1, <3>2, <3>3, <3>4, <3>5, <2>5
  <2> QED
    BY <2>6, <2>7, <2>8
<1>4. b = [e \in Content |-> b[e]]
  BY DEF Landed
<1>5. h \subseteq Content
  BY DEF LogOK, Copies
<1> QED
  BY <1>3, <1>4, <1>5 DEF MarksOf

-----------------------------------------------------------------------------
(* The invariant holds. *)

LEMMA MergeInvInit == Init => MergeInv
<1> SUFFICES ASSUME Init PROVE MergeInv
  OBVIOUS
<1>1. LogOK
  BY DEF Init, LogOK, Markers
<1>2. \A d \in Device : merging[d] = NoMerge
  BY DEF Init
<1>3. TravelOK
  <2>1. NoMerge \in [on : BOOLEAN, events : SUBSET Copies, acts : SUBSET Acts,
                     touched : SUBSET Content]
    BY DEF NoMerge
  <2>2. merging = [d \in Device |-> NoMerge] /\ docs = {}
    BY DEF Init
  <2> QED
    BY <2>1, <2>2 DEF TravelOK
<1>4. MarkedIsHeld /\ RegIsActs /\ Condemning
  BY DEF Init, MarkedIsHeld, RegIsActs, Condemning
<1>5. ActsKnown
  BY <1>2 DEF Init, ActsKnown, Known, NoMerge
<1>6. Carried
  BY <1>2 DEF Carried, Within, Told, NoMerge
<1>7. \A d \in Device : OneCopy(merging[d].events)
  BY <1>2 DEF OneCopy, NoMerge
<1> QED
  BY <1>1, <1>3, <1>4, <1>5, <1>6, <1>7 DEF MergeInv

\* What stands about the documents and merges while the log grows.
LEMMA TravelStands ==
  ASSUME MergeInv, UNCHANGED <<docs, merging>>,
         \A c \in Device : held[c] \subseteq held'[c],
         \A c \in Device : \A a \in acts'[c] : \E x \in Device : a.victim \in held'[x]
  PROVE  /\ TravelOK' /\ ActsKnown' /\ Carried'
         /\ \A d \in Device : OneCopy(merging'[d].events)
<1>1. TravelOK'
  BY DEF MergeInv, TravelOK
<1>2. ActsKnown'
  BY DEF MergeInv, ActsKnown, Known
<1>3. Carried'
  BY DEF MergeInv, Carried, Shared
<1>4. \A d \in Device : OneCopy(merging'[d].events)
  BY DEF MergeInv
<1> QED
  BY <1>1, <1>2, <1>3, <1>4

LEMMA AppendInv ==
  ASSUME MergeInv, NEW d \in Device, NEW e \in Content, Append(d, e)
  PROVE  MergeInv'
<1>1. /\ \A c \in Device : e \notin held[c]
      /\ held' = [held EXCEPT ![d] = @ \union {e}]
      /\ UNCHANGED <<by, acts, reg>> /\ UNCHANGED <<docs, merging>>
  BY DEF Append
<1>2. LogOK /\ MarkedIsHeld /\ RegIsActs /\ Condemning /\ ActsKnown
  BY DEF MergeInv
<1>3. \A c \in Device : held'[c] = IF c = d THEN held[c] \union {e} ELSE held[c]
  BY <1>1, <1>2 DEF LogOK
<1>4. LogOK'
  BY <1>1, <1>2 DEF LogOK
<1>5. MarkedIsHeld'
  BY <1>1, <1>2, <1>3 DEF MarkedIsHeld
<1>6. RegIsActs'
  BY <1>1, <1>2 DEF RegIsActs
<1>7. Condemning'
  <2>1. reg[d][e] = NoAct
    BY <1>1, <1>2 DEF RegIsActs, ActsKnown, Known
  <2> QED
    BY <1>1, <1>2, <1>3, <2>1 DEF Condemning
<1>8. \A c \in Device : \A a \in acts'[c] : \E x \in Device : a.victim \in held'[x]
  BY <1>1, <1>2, <1>3 DEF ActsKnown, Known
<1>9. \A c \in Device : held[c] \subseteq held'[c]
  BY <1>3
<1>10. /\ TravelOK' /\ ActsKnown' /\ Carried'
       /\ \A c \in Device : OneCopy(merging'[c].events)
  BY <1>1, <1>8, <1>9, TravelStands
<1> QED
  BY <1>4, <1>5, <1>6, <1>7, <1>10 DEF MergeInv

\* What a redaction does to the log of its device.
LEMMA RedactStep ==
  ASSUME LogOK, NEW d \in Device, NEW e \in Chained, Redact(d, e)
  PROVE  /\ UNCHANGED <<held, docs, merging>>
         /\ \E victims \in SUBSET {v \in held[d] \intersect Chained : by[d][v] = NoAct} :
              \E f \in [victims -> Act] :
                /\ acts' = [acts EXCEPT ![d] = @ \union
                              {[id |-> f[v], victim |-> v] : v \in victims}]
                /\ reg' = [reg EXCEPT ![d] = [v \in Content |->
                              IF v \in victims THEN Least(@[v], f[v]) ELSE @[v]]]
                /\ by' = [by EXCEPT ![d] = [v \in Content |->
                              IF v \in victims THEN f[v] ELSE @[v]]]
<1> DEFINE victims == {v \in ChainOf(held[d], Anchor(held[d], e)) : by[d][v] = NoAct}
           minted  == {a.id : a \in UNION {acts[c] : c \in Device}}
<1>1. /\ UNCHANGED <<docs, merging>>
      /\ \E f \in [victims -> Act \ minted] :
           /\ acts' = [acts EXCEPT ![d] = @ \union
                         {[id |-> f[v], victim |-> v] : v \in victims}]
           /\ reg' = [reg EXCEPT ![d] = [v \in Content |->
                         IF v \in victims THEN Least(@[v], f[v]) ELSE @[v]]]
           /\ by' = [by EXCEPT ![d] = [v \in Content |->
                         IF v \in victims THEN f[v] ELSE @[v]]]
           /\ UNCHANGED held
  BY DEF Redact
<1>2. victims \in SUBSET {v \in held[d] \intersect Chained : by[d][v] = NoAct}
  BY DEF ChainOf
<1>3. \A f \in [victims -> Act \ minted] : f \in [victims -> Act]
  OBVIOUS
<1> HIDE DEF victims, minted
<1> QED
  BY <1>1, <1>2, <1>3

LEMMA RedactInv ==
  ASSUME MergeInv, NEW d \in Device, NEW e \in Chained, Redact(d, e)
  PROVE  MergeInv'
<1>1. LogOK /\ MarkedIsHeld /\ RegIsActs /\ Condemning /\ ActsKnown
  BY DEF MergeInv
<1>2. UNCHANGED <<held, docs, merging>>
  BY <1>1, RedactStep
<1>3. PICK victims \in SUBSET {v \in held[d] \intersect Chained : by[d][v] = NoAct} :
        \E f \in [victims -> Act] :
          /\ acts' = [acts EXCEPT ![d] = @ \union
                        {[id |-> f[v], victim |-> v] : v \in victims}]
          /\ reg' = [reg EXCEPT ![d] = [v \in Content |->
                        IF v \in victims THEN Least(@[v], f[v]) ELSE @[v]]]
          /\ by' = [by EXCEPT ![d] = [v \in Content |->
                        IF v \in victims THEN f[v] ELSE @[v]]]
  BY <1>1, RedactStep
<1>3a. PICK f \in [victims -> Act] :
        /\ acts' = [acts EXCEPT ![d] = @ \union
                      {[id |-> f[v], victim |-> v] : v \in victims}]
        /\ reg' = [reg EXCEPT ![d] = [v \in Content |->
                      IF v \in victims THEN Least(@[v], f[v]) ELSE @[v]]]
        /\ by' = [by EXCEPT ![d] = [v \in Content |->
                      IF v \in victims THEN f[v] ELSE @[v]]]
  BY <1>3
<1> DEFINE new == {[id |-> f[v], victim |-> v] : v \in victims}
<1>4. /\ new \subseteq Acts
      /\ \A v \in Content : v \in victims <=> \E a \in new : a.victim = v
      /\ \A a \in new : a.victim \in held[d]
  <2>1. \A v \in victims : /\ v \in Chained /\ v \in held[d]
                           /\ [id |-> f[v], victim |-> v] \in Acts
    BY DEF Acts
  <2>2. new \subseteq Acts
    BY <2>1
  <2>3. \A v \in victims : \E a \in new : a.victim = v
    <3> SUFFICES ASSUME NEW v \in victims PROVE \E a \in new : a.victim = v
      OBVIOUS
    <3>1. [id |-> f[v], victim |-> v] \in new /\ [id |-> f[v], victim |-> v].victim = v
      OBVIOUS
    <3> QED
      BY <3>1
  <2>4. \A a \in new : a.victim \in victims
    OBVIOUS
  <2> QED
    BY <2>1, <2>2, <2>3, <2>4
<1>5. \A v \in victims : f[v] \in Act /\ f[v] \in Markers /\ f[v] # NoAct
  BY NoActIsNoAct DEF Markers
<1>6. /\ \A c \in Device : acts'[c] = IF c = d THEN acts[d] \union new ELSE acts[c]
      /\ \A c \in Device, v \in Content :
           /\ reg'[c][v] = IF c = d /\ v \in victims THEN Least(reg[d][v], f[v]) ELSE reg[c][v]
           /\ by'[c][v] = IF c = d /\ v \in victims THEN f[v] ELSE by[c][v]
  BY <1>1, <1>3a DEF LogOK
<1> HIDE DEF new
<1>7. \A v \in victims : /\ Least(reg[d][v], f[v]) \in Markers
                         /\ Least(reg[d][v], f[v]) # NoAct
  <2> SUFFICES ASSUME NEW v \in victims
               PROVE  /\ Least(reg[d][v], f[v]) \in Markers
                      /\ Least(reg[d][v], f[v]) # NoAct
    OBVIOUS
  <2>1. reg[d][v] \in Markers
    BY <1>1 DEF LogOK
  <2> QED
    BY <2>1, <1>5, LeastMarks
<1>8. LogOK'
  <2>1. held' \in [Device -> SUBSET Content]
    BY <1>1, <1>2 DEF LogOK
  <2>2. acts' \in [Device -> SUBSET Acts]
    BY <1>1, <1>3a, <1>4 DEF LogOK, new
  <2>3. [v \in Content |-> IF v \in victims THEN Least(reg[d][v], f[v]) ELSE reg[d][v]]
          \in [Content -> Markers]
    BY <1>1, <1>7 DEF LogOK
  <2>4. [v \in Content |-> IF v \in victims THEN f[v] ELSE by[d][v]] \in [Content -> Markers]
    BY <1>1, <1>5 DEF LogOK
  <2>5. reg' \in [Device -> [Content -> Markers]]
    BY <1>1, <1>3a, <2>3 DEF LogOK
  <2>6. by' \in [Device -> [Content -> Markers]]
    BY <1>1, <1>3a, <2>4 DEF LogOK
  <2> QED
    BY <2>1, <2>2, <2>5, <2>6 DEF LogOK
<1>9. MarkedIsHeld'
  BY <1>1, <1>2, <1>6 DEF MarkedIsHeld
<1>10. RegIsActs'
  <2> SUFFICES ASSUME NEW c \in Device, NEW v \in Content
               PROVE  reg'[c][v] # NoAct <=> \E a \in acts'[c] : a.victim = v
    BY DEF RegIsActs
  <2>1. reg[c][v] # NoAct <=> \E a \in acts[c] : a.victim = v
    BY <1>1 DEF RegIsActs
  <2>2. CASE c = d /\ v \in victims
    BY <2>2, <1>4, <1>6, <1>7
  <2>3. CASE ~(c = d /\ v \in victims)
    BY <2>1, <2>3, <1>4, <1>6
  <2> QED
    BY <2>2, <2>3
<1>11. Condemning'
  BY <1>1, <1>2, <1>5, <1>6 DEF Condemning
<1>12. \A c \in Device : held[c] \subseteq held'[c]
  BY <1>2
<1>13. \A c \in Device : \A a \in acts'[c] : \E x \in Device : a.victim \in held'[x]
  BY <1>1, <1>2, <1>4, <1>6 DEF ActsKnown, Known
<1>14. UNCHANGED <<docs, merging>>
  BY <1>2
<1>15. /\ TravelOK' /\ ActsKnown' /\ Carried'
       /\ \A c \in Device : OneCopy(merging'[c].events)
  BY <1>12, <1>13, <1>14, TravelStands
<1> QED
  BY <1>8, <1>9, <1>10, <1>11, <1>15 DEF MergeInv

\* The log's part of the invariant, when the log does not change.
LEMMA LogStands ==
  ASSUME MergeInv, UNCHANGED log
  PROVE  LogOK' /\ MarkedIsHeld' /\ RegIsActs' /\ Condemning'
BY DEF MergeInv, log, LogOK, MarkedIsHeld, RegIsActs, Condemning

LEMMA SnapshotIsDoc ==
  ASSUME LogOK, NEW d \in Device
  PROVE  Snapshot(d) \in Docs /\ Snapshot(d).acts \subseteq acts[d]
<1> DEFINE s == {e \in held[d] : Resolves(held[d], Subject(e))}
           es == {[event |-> e, by |-> by[d][e]] : e \in s}
           as == {a \in acts[d] : a.victim \in s}
<1>1. Snapshot(d) = [events |-> es, acts |-> as]
  BY DEF Snapshot
<1>2. s \subseteq Content
  BY DEF LogOK
<1>3. \A e \in s : by[d][e] \in Act \union {NoAct}
  BY <1>2 DEF LogOK, Markers
<1> HIDE DEF s
<1>4. es \subseteq Copies
  BY <1>2, <1>3 DEF Copies
<1>5. as \subseteq acts[d] /\ as \subseteq Acts
  BY DEF LogOK
<1> HIDE DEF es, as
<1>6. [events |-> es, acts |-> as] \in Docs
  BY <1>4, <1>5 DEF Docs
<1>7. [events |-> es, acts |-> as].acts = as
  OBVIOUS
<1> QED
  BY <1>1, <1>5, <1>6, <1>7

LEMMA PublishInv ==
  ASSUME MergeInv, NEW d \in Device, Publish(d)
  PROVE  MergeInv'
<1>1. /\ docs' = docs \union {Snapshot(d)}
      /\ UNCHANGED log /\ merging' = merging
  BY DEF Publish
<1>2. LogOK /\ TravelOK /\ ActsKnown /\ Carried /\ held' = held /\ acts' = acts
  BY <1>1 DEF MergeInv, log
<1>3. Snapshot(d) \in Docs /\ Snapshot(d).acts \subseteq acts[d]
  BY <1>2, SnapshotIsDoc
<1>4. TravelOK'
  BY <1>1, <1>2, <1>3 DEF TravelOK
<1>5. ActsKnown'
  BY <1>1, <1>2, <1>3 DEF ActsKnown, Known
<1>6. Carried'
  <2>1. Shared.ids \subseteq Shared'.ids /\ Shared.husks \subseteq Shared'.husks
    BY <1>1 DEF Shared
  <2>2. \A c \in Device :
          Within(Told(merging[c].events, merging[c].acts), Shared)
    BY <1>2 DEF Carried
  <2> QED
    BY <1>1, <2>1, <2>2 DEF Carried, Within
<1>7. \A c \in Device : OneCopy(merging'[c].events)
  BY <1>1 DEF MergeInv
<1>8. LogOK' /\ MarkedIsHeld' /\ RegIsActs' /\ Condemning'
  BY <1>1, LogStands
<1> QED
  BY <1>4, <1>5, <1>6, <1>7, <1>8 DEF MergeInv

\* A merge takes up copies and redactions that documents tell of.
LEMMA BeginInv ==
  ASSUME MergeInv, NEW d \in Device,
         NEW s \in SUBSET Copies, OneCopy(s), NEW as \in SUBSET Acts, Known(as),
         Within(Told(s, as), Shared), Begin(d, s, as)
  PROVE  MergeInv'
<1> DEFINE m == [on |-> TRUE, events |-> s, acts |-> as, touched |-> {}]
<1>1. /\ merging' = [merging EXCEPT ![d] = m]
      /\ UNCHANGED log /\ docs' = docs
  BY DEF Begin
<1>2. LogOK /\ TravelOK /\ ActsKnown /\ Carried /\ held' = held /\ acts' = acts
  BY <1>1 DEF MergeInv, log
<1>3. m \in [on : BOOLEAN, events : SUBSET Copies, acts : SUBSET Acts,
            touched : SUBSET Content]
  OBVIOUS
<1>4. m.events = s /\ m.acts = as
  OBVIOUS
<1> HIDE DEF m
<1>5. \A c \in Device : merging'[c] = IF c = d THEN m ELSE merging[c]
  BY <1>1, <1>2 DEF TravelOK
<1>6. TravelOK'
  BY <1>1, <1>2, <1>3 DEF TravelOK
<1>7. ActsKnown'
  <2>1. \A c \in Device : Known(merging'[c].acts)
    BY <1>2, <1>4, <1>5 DEF ActsKnown
  <2> QED
    BY <1>1, <1>2, <2>1 DEF ActsKnown, Known
<1>8. Carried'
  <2>1. Shared' = Shared
    BY <1>1 DEF Shared
  <2> QED
    BY <1>2, <1>4, <1>5, <2>1 DEF Carried
<1>9. \A c \in Device : OneCopy(merging'[c].events)
  BY <1>4, <1>5 DEF MergeInv
<1>10. LogOK' /\ MarkedIsHeld' /\ RegIsActs' /\ Condemning'
  BY <1>1, LogStands
<1> QED
  BY <1>6, <1>7, <1>8, <1>9, <1>10 DEF MergeInv

\* The documents a merge starts from tell of all it takes up.
LEMMA DocsTell ==
  ASSUME MergeInv, NEW ks \in SUBSET docs,
         NEW s, s \subseteq UNION {k.events : k \in ks},
         NEW as, as \subseteq UNION {k.acts : k \in ks}
  PROVE  /\ s \in SUBSET Copies /\ as \in SUBSET Acts /\ Known(as)
         /\ Within(Told(s, as), Shared)
<1>1. docs \subseteq Docs /\ \A k \in docs : Known(k.acts)
  BY DEF MergeInv, TravelOK, ActsKnown
<1>2. \A k \in ks : k \in docs /\ k.events \in SUBSET Copies /\ k.acts \in SUBSET Acts
  BY <1>1 DEF Docs
<1>3. s \in SUBSET Copies /\ as \in SUBSET Acts
  BY <1>2
<1>4. Known(as)
  BY <1>1, <1>2 DEF Known
<1>5. \A x \in s : \E k \in docs : x \in k.events
  BY <1>2
<1>6. \A a \in as : \E k \in docs : a \in k.acts
  BY <1>2
<1>7. \A x \in s : x.event \in Shared.ids
  BY <1>5 DEF Shared, Told
<1>8. \A x \in s : x.by # NoAct => x.event \in Shared.husks
  BY <1>5 DEF Shared, Told
<1>9. \A a \in as : a.victim \in Shared.husks
  <2>1. \A a \in as : \E k \in docs : a.victim \in {x.victim : x \in k.acts}
    BY <1>6
  <2>2. \A a \in as : \E k \in docs : a.victim \in Told(k.events, k.acts).husks
    BY <2>1 DEF Told
  <2> QED
    BY <2>2 DEF Shared
<1>10. Within(Told(s, as), Shared)
  BY <1>7, <1>8, <1>9 DEF Within, Told
<1> QED
  BY <1>3, <1>4, <1>10

LEMMA KeptOnce ==
  ASSUME NEW offered \in SUBSET Copies, NEW s \in Kept(offered)
  PROVE  s \subseteq offered /\ OneCopy(s)
<1>1. \A k \in s : k \in offered /\ Wins(k, offered)
  BY DEF Kept
<1>2. ASSUME NEW k \in s, NEW l \in s, k.event = l.event
      PROVE  k = l
  <2>1. /\ k \in Copies /\ l \in Copies
        /\ l.by # NoAct => k.by # NoAct /\ k.by <= l.by
        /\ k.by # NoAct => l.by # NoAct /\ l.by <= k.by
    BY <1>1, <1>2 DEF Wins
  <2>2. k.by \in Nat /\ l.by \in Nat
    <3>1. Act \union {NoAct} \subseteq Nat
      BY NoActIsNoAct DEF NoAct
    <3>2. k.by \in Act \union {NoAct} /\ l.by \in Act \union {NoAct}
      BY <2>1 DEF Copies
    <3> QED
      BY <3>1, <3>2
  <2>3. k.by = l.by
    BY <2>1, <2>2 DEF NoAct
  <2> QED
    BY <1>2, <2>1, <2>3 DEF Copies
<1> QED
  BY <1>1, <1>2 DEF OneCopy

LEMMA IngestInv ==
  ASSUME MergeInv, NEW d \in Device, NEW k \in docs, Ingest(d, k)
  PROVE  MergeInv'
<1>1. PICK s \in Kept(k.events) : Begin(d, s, k.acts)
  BY DEF Ingest
<1>2. k.events \in SUBSET Copies
  BY DEF MergeInv, TravelOK, Docs
<1>3. s \subseteq k.events /\ OneCopy(s)
  BY <1>2, KeptOnce
<1>4. {k} \in SUBSET docs /\ s \subseteq UNION {x.events : x \in {k}}
      /\ k.acts \subseteq UNION {x.acts : x \in {k}}
  BY <1>3
<1>5. /\ s \in SUBSET Copies /\ k.acts \in SUBSET Acts /\ Known(k.acts)
      /\ Within(Told(s, k.acts), Shared)
  BY <1>4, DocsTell
<1> QED
  BY <1>1, <1>3, <1>5, BeginInv

LEMMA RebuildActsInv ==
  ASSUME MergeInv, NEW d \in Device, NEW ks \in SUBSET docs, RebuildActs(d, ks)
  PROVE  MergeInv'
<1> DEFINE as == UNION {k.acts : k \in ks}
<1>1. Begin(d, {}, as)
  BY DEF RebuildActs
<1>2. OneCopy({}) /\ {} \subseteq UNION {k.events : k \in ks} /\ as \subseteq as
  BY DEF OneCopy
<1>3. /\ {} \in SUBSET Copies /\ as \in SUBSET Acts /\ Known(as)
      /\ Within(Told({}, as), Shared)
  BY <1>2, DocsTell
<1> HIDE DEF as
<1> QED
  BY <1>1, <1>2, <1>3, BeginInv

LEMMA RebuildEventsInv ==
  ASSUME MergeInv, NEW d \in Device, NEW ks \in SUBSET docs, RebuildEvents(d, ks)
  PROVE  MergeInv'
<1> DEFINE offered == UNION {k.events : k \in ks}
<1>1. PICK s \in Kept(offered) : Begin(d, s, {})
  BY DEF RebuildEvents
<1>2. offered \in SUBSET Copies
  BY DEF MergeInv, TravelOK, Docs
<1>3. s \subseteq offered /\ OneCopy(s)
  <2> HIDE DEF offered
  <2> QED
    BY <1>2, KeptOnce
<1>4. {} \subseteq UNION {k.acts : k \in ks}
  OBVIOUS
<1>5. /\ s \in SUBSET Copies /\ {} \in SUBSET Acts /\ Known({})
      /\ Within(Told(s, {}), Shared)
  BY <1>3, <1>4, DocsTell
<1> QED
  BY <1>1, <1>3, <1>5, BeginInv

\* What a chunk does to the log, and what it leaves of the merge.
LEMMA ChunkStep ==
  ASSUME MergeInv, NEW d \in Device, MergeChunk(d)
  PROVE  \E s \in SUBSET merging[d].events, as \in SUBSET merging[d].acts :
           /\ held' = [held EXCEPT ![d] = @ \union {k.event : k \in s}]
           /\ acts' = [acts EXCEPT ![d] = @ \union as]
           /\ reg' = [reg EXCEPT ![d] = Registered(d, as)]
           /\ by' = [by EXCEPT ![d] =
                       Landed(d, s, Registered(d, as), Condemned(d, as, Registered(d, as)))]
           /\ docs' = docs
           /\ \E m : /\ merging' = [merging EXCEPT ![d] = m]
                    /\ m \in [on : BOOLEAN, events : SUBSET Copies, acts : SUBSET Acts,
                              touched : SUBSET Content]
                    /\ m.events \subseteq merging[d].events
                    /\ m.acts \subseteq merging[d].acts
<1> DEFINE m  == merging[d]
           s  == {k \in m.events : k.event \in FirstIds(m)}
           as == {a \in m.acts : a.id \in FirstIds(m)}
           r  == Registered(d, as)
           b  == Landed(d, s, r, Condemned(d, as, r))
           left == [on |-> TRUE, events |-> m.events \ s, acts |-> m.acts \ as,
                    touched |-> m.touched \union Touched(d, s, as)]
<1>1. /\ held' = [held EXCEPT ![d] = @ \union {k.event : k \in s}]
      /\ acts' = [acts EXCEPT ![d] = @ \union as]
      /\ reg' = [reg EXCEPT ![d] = r]
      /\ by' = [by EXCEPT ![d] = b]
      /\ docs' = docs
      /\ \/ merging' = [merging EXCEPT ![d] = NoMerge]
         \/ merging' = [merging EXCEPT ![d] = left]
  BY DEF MergeChunk
<1>2. m \in [on : BOOLEAN, events : SUBSET Copies, acts : SUBSET Acts,
            touched : SUBSET Content]
  BY DEF MergeInv, TravelOK
<1> HIDE DEF m
<1>3. s \in SUBSET m.events /\ as \in SUBSET m.acts
  OBVIOUS
<1> HIDE DEF s, as
<1>4. m.events \in SUBSET Copies /\ m.acts \in SUBSET Acts /\ m.touched \in SUBSET Content
  BY <1>2
<1>5. Touched(d, s, as) \subseteq Content
  <2>1. \A k \in s : k.event \in Content
    BY <1>3, <1>4 DEF Copies
  <2>2. \A a \in as : a.victim \in Content
    BY <1>3, <1>4 DEF Acts, Content
  <2> QED
    BY <2>1, <2>2 DEF Touched
<1>6. /\ left \in [on : BOOLEAN, events : SUBSET Copies, acts : SUBSET Acts,
                  touched : SUBSET Content]
      /\ left.events \subseteq m.events /\ left.acts \subseteq m.acts
  BY <1>4, <1>5
<1>7. /\ NoMerge \in [on : BOOLEAN, events : SUBSET Copies, acts : SUBSET Acts,
                     touched : SUBSET Content]
      /\ NoMerge.events \subseteq m.events /\ NoMerge.acts \subseteq m.acts
  BY DEF NoMerge
<1> HIDE DEF left
<1>8. \E x : /\ merging' = [merging EXCEPT ![d] = x]
            /\ x \in [on : BOOLEAN, events : SUBSET Copies, acts : SUBSET Acts,
                      touched : SUBSET Content]
            /\ x.events \subseteq m.events /\ x.acts \subseteq m.acts
  BY <1>1, <1>6, <1>7
<1> USE DEF m
<1> QED
  BY <1>1, <1>3, <1>8

LEMMA ChunkInv ==
  ASSUME MergeInv, NEW d \in Device, MergeChunk(d)
  PROVE  MergeInv'
<1>1. PICK s \in SUBSET merging[d].events, as \in SUBSET merging[d].acts :
           /\ held' = [held EXCEPT ![d] = @ \union {k.event : k \in s}]
           /\ acts' = [acts EXCEPT ![d] = @ \union as]
           /\ reg' = [reg EXCEPT ![d] = Registered(d, as)]
           /\ by' = [by EXCEPT ![d] =
                       Landed(d, s, Registered(d, as), Condemned(d, as, Registered(d, as)))]
           /\ docs' = docs
           /\ \E m : /\ merging' = [merging EXCEPT ![d] = m]
                    /\ m \in [on : BOOLEAN, events : SUBSET Copies, acts : SUBSET Acts,
                              touched : SUBSET Content]
                    /\ m.events \subseteq merging[d].events
                    /\ m.acts \subseteq merging[d].acts
  BY ChunkStep
<1>2. PICK m : /\ merging' = [merging EXCEPT ![d] = m]
               /\ m \in [on : BOOLEAN, events : SUBSET Copies, acts : SUBSET Acts,
                         touched : SUBSET Content]
               /\ m.events \subseteq merging[d].events
               /\ m.acts \subseteq merging[d].acts
  BY <1>1
<1> DEFINE r == Registered(d, as)
           b == Landed(d, s, r, Condemned(d, as, r))
           h == held[d] \union {k.event : k \in s}
<1>3. LogOK /\ TravelOK /\ MarkedIsHeld /\ RegIsActs /\ Condemning /\ ActsKnown /\ Carried
  BY DEF MergeInv
<1>4. /\ s \in SUBSET Copies /\ as \in SUBSET Acts /\ Known(as)
      /\ OneCopy(merging[d].events) /\ OneCopy(s)
  <2>1. s \in SUBSET Copies /\ as \in SUBSET Acts
    BY <1>3 DEF TravelOK
  <2>2. Known(as)
    BY <1>3 DEF ActsKnown, Known
  <2>3. OneCopy(merging[d].events)
    BY DEF MergeInv
  <2> QED
    BY <2>1, <2>2, <2>3 DEF OneCopy
<1>5. /\ r \in [Content -> Markers]
      /\ \A e \in Content : r[e] # NoAct <=> reg[d][e] # NoAct \/ \E a \in as : a.victim = e
  BY <1>3, <1>4, RegisteredMarks
<1>6. MarksOf(d, s, r, b, h)
  <2>1. r = Registered(d, as) /\ b = Landed(d, s, r, Condemned(d, as, r))
        /\ h = held[d] \union {k.event : k \in s}
    OBVIOUS
  <2> HIDE DEF r, b, h
  <2> QED
    BY <1>3, <1>4, <2>1, LandedMarks
<1>7. h \in SUBSET Content
  BY <1>3, <1>4 DEF LogOK, Copies
<1>8. held' = [held EXCEPT ![d] = h] /\ reg' = [reg EXCEPT ![d] = r]
      /\ by' = [by EXCEPT ![d] = b] /\ acts' = [acts EXCEPT ![d] = @ \union as]
  BY <1>1
<1>9. held[d] \subseteq h
  OBVIOUS
<1> HIDE DEF r, b, h
<1>10. \A c \in Device :
         /\ held'[c] = IF c = d THEN h ELSE held[c]
         /\ reg'[c] = IF c = d THEN r ELSE reg[c]
         /\ by'[c] = IF c = d THEN b ELSE by[c]
         /\ acts'[c] = IF c = d THEN acts[d] \union as ELSE acts[c]
         /\ merging'[c] = IF c = d THEN m ELSE merging[c]
  BY <1>2, <1>3, <1>8 DEF LogOK, TravelOK
<1>11. LogOK'
  BY <1>3, <1>4, <1>5, <1>6, <1>7, <1>8 DEF LogOK, MarksOf
<1>12. MarkedIsHeld'
  BY <1>3, <1>6, <1>10 DEF MarkedIsHeld, MarksOf
<1>13. RegIsActs'
  <2> SUFFICES ASSUME NEW c \in Device, NEW e \in Content
               PROVE  reg'[c][e] # NoAct <=> \E a \in acts'[c] : a.victim = e
    BY DEF RegIsActs
  <2>1. reg[c][e] # NoAct <=> \E a \in acts[c] : a.victim = e
    BY <1>3 DEF RegIsActs
  <2>2. CASE c = d
    BY <1>5, <1>10, <2>1, <2>2
  <2>3. CASE c # d
    BY <1>10, <2>1, <2>3
  <2> QED
    BY <2>2, <2>3
<1>14. Condemning'
  BY <1>3, <1>6, <1>10 DEF Condemning, MarksOf
<1>15. TravelOK'
  BY <1>1, <1>2, <1>3 DEF TravelOK
<1>16. ActsKnown'
  <2>1. \A c \in Device : held[c] \subseteq held'[c]
    BY <1>9, <1>10
  <2>2. \A c \in Device : /\ \A a \in acts'[c] : a \in acts[c] \/ a \in as
                         /\ merging'[c].acts \subseteq merging[c].acts
    BY <1>2, <1>10
  <2> QED
    BY <1>1, <1>3, <1>4, <2>1, <2>2 DEF ActsKnown, Known
<1>17. Carried'
  <2>1. Shared' = Shared
    BY <1>1 DEF Shared
  <2>2. \A c \in Device : /\ merging'[c].events \subseteq merging[c].events
                         /\ merging'[c].acts \subseteq merging[c].acts
    BY <1>2, <1>10
  <2> QED
    BY <1>3, <2>1, <2>2 DEF Carried, Within, Told
<1>18. \A c \in Device : OneCopy(merging'[c].events)
  <2>1. \A c \in Device : OneCopy(merging[c].events)
    BY DEF MergeInv
  <2> QED
    BY <1>2, <1>10, <2>1 DEF OneCopy
<1> QED
  BY <1>11, <1>12, <1>13, <1>14, <1>15, <1>16, <1>17, <1>18 DEF MergeInv

\* A merge that ends, or is cut off, leaves the log alone.
LEMMA StopInv ==
  ASSUME MergeInv, NEW d \in Device, MergeEnd(d) \/ Crash(d)
  PROVE  MergeInv'
<1>1. /\ merging' = [merging EXCEPT ![d] = NoMerge]
      /\ UNCHANGED log /\ docs' = docs
  BY DEF MergeEnd, Crash
<1>2. LogOK /\ TravelOK /\ ActsKnown /\ Carried /\ held' = held /\ acts' = acts
  BY <1>1 DEF MergeInv, log
<1>3. NoMerge \in [on : BOOLEAN, events : SUBSET Copies, acts : SUBSET Acts,
                  touched : SUBSET Content]
      /\ NoMerge.events = {} /\ NoMerge.acts = {}
  BY DEF NoMerge
<1>4. \A c \in Device : merging'[c] = IF c = d THEN NoMerge ELSE merging[c]
  BY <1>1, <1>2 DEF TravelOK
<1>5. TravelOK'
  BY <1>1, <1>2, <1>3 DEF TravelOK
<1>6. ActsKnown'
  BY <1>1, <1>2, <1>3, <1>4 DEF ActsKnown, Known
<1>7. Carried'
  <2>1. Shared' = Shared
    BY <1>1 DEF Shared
  <2> QED
    BY <1>2, <1>3, <1>4, <2>1 DEF Carried, Within, Told
<1>8. \A c \in Device : OneCopy(merging'[c].events)
  BY <1>3, <1>4 DEF MergeInv, OneCopy
<1>9. LogOK' /\ MarkedIsHeld' /\ RegIsActs' /\ Condemning'
  BY <1>1, LogStands
<1> QED
  BY <1>5, <1>6, <1>7, <1>8, <1>9 DEF MergeInv

\* A rebuilt registry is the fold of the redactions held.
LEMMA RebuiltRegistry ==
  ASSUME MergeInv, NEW d \in Device, RebuildDerived(d)
  PROVE  /\ UNCHANGED <<held, by, acts, docs, merging>>
         /\ reg' \in [Device -> [Content -> Markers]]
         /\ \A c \in Device, e \in Content : reg'[c][e] # NoAct <=> reg[c][e] # NoAct
<1> DEFINE fold == [e \in Content |-> LeastAct(acts[d], e)]
<1>1. /\ UNCHANGED <<held, by, acts, docs, merging>>
      /\ reg' = [reg EXCEPT ![d] = fold]
  BY DEF RebuildDerived
<1>2. LogOK /\ RegIsActs
  BY DEF MergeInv
<1>3. ASSUME NEW e \in Content
      PROVE  /\ fold[e] \in Markers
             /\ fold[e] # NoAct <=> reg[d][e] # NoAct
  <2> DEFINE ids == {a.id : a \in {x \in acts[d] : x.victim = e}}
  <2>1. fold[e] = IF ids = {} THEN NoAct ELSE Min(ids)
    BY DEF LeastAct
  <2>2. acts[d] \in SUBSET Acts
    BY <1>2 DEF LogOK
  <2>3. /\ ids # {} <=> \E a \in acts[d] : a.victim = e
        /\ ids # {} => Min(ids) \in Act
    <3>1. ids # {} <=> \E a \in acts[d] : a.victim = e
      OBVIOUS
    <3>2. ids \in SUBSET Act
      BY <2>2 DEF Acts
    <3> HIDE DEF ids
    <3>3. ids # {} => Min(ids) \in ids
      <4>1. ids \in SUBSET Nat
        BY <3>2, NoActIsNoAct
      <4> QED
        BY <4>1, MinIn
    <3> QED
      BY <3>1, <3>2, <3>3
  <2>4. reg[d][e] # NoAct <=> \E a \in acts[d] : a.victim = e
    BY <1>2 DEF RegIsActs
  <2> HIDE DEF ids, fold
  <2> QED
    BY <2>1, <2>3, <2>4, NoActIsNoAct DEF Markers
<1>4. fold \in [Content -> Markers]
  BY <1>3
<1> HIDE DEF fold
<1>5. \A c \in Device : reg'[c] = IF c = d THEN fold ELSE reg[c]
  BY <1>1, <1>2 DEF LogOK
<1>6. reg' \in [Device -> [Content -> Markers]]
  BY <1>1, <1>2, <1>4 DEF LogOK
<1> QED
  BY <1>1, <1>3, <1>5, <1>6

LEMMA RebuildDerivedInv ==
  ASSUME MergeInv, NEW d \in Device, RebuildDerived(d)
  PROVE  MergeInv'
<1>1. /\ UNCHANGED <<held, by, acts, docs, merging>>
      /\ reg' \in [Device -> [Content -> Markers]]
      /\ \A c \in Device, e \in Content : reg'[c][e] # NoAct <=> reg[c][e] # NoAct
  BY RebuiltRegistry
<1>2. LogOK /\ MarkedIsHeld /\ RegIsActs /\ Condemning /\ ActsKnown
  BY DEF MergeInv
<1>3. LogOK'
  BY <1>1, <1>2 DEF LogOK
<1>4. MarkedIsHeld' /\ RegIsActs' /\ Condemning'
  BY <1>1, <1>2 DEF MarkedIsHeld, RegIsActs, Condemning
<1>5. \A c \in Device : held[c] \subseteq held'[c]
  BY <1>1
<1>6. \A c \in Device : \A a \in acts'[c] : \E x \in Device : a.victim \in held'[x]
  BY <1>1, <1>2 DEF ActsKnown, Known
<1>7. UNCHANGED <<docs, merging>>
  BY <1>1
<1>8. /\ TravelOK' /\ ActsKnown' /\ Carried'
      /\ \A c \in Device : OneCopy(merging'[c].events)
  BY <1>5, <1>6, <1>7, TravelStands
<1> QED
  BY <1>3, <1>4, <1>8 DEF MergeInv

LEMMA MergeInvNext ==
  ASSUME MergeInv, [Next]_vars
  PROVE  MergeInv'
<1>1. CASE UNCHANGED vars
  <2>1. UNCHANGED log /\ UNCHANGED <<docs, merging>> /\ held' = held /\ acts' = acts
    BY <1>1 DEF vars, log
  <2>2. LogOK' /\ MarkedIsHeld' /\ RegIsActs' /\ Condemning'
    BY <2>1, LogStands
  <2>3. \A c \in Device : \A a \in acts'[c] : \E x \in Device : a.victim \in held'[x]
    BY <2>1 DEF MergeInv, ActsKnown, Known
  <2>4. /\ TravelOK' /\ ActsKnown' /\ Carried'
        /\ \A c \in Device : OneCopy(merging'[c].events)
    BY <2>1, <2>3, TravelStands
  <2> QED
    BY <2>2, <2>4 DEF MergeInv
<1>2. ASSUME NEW d \in Device,
             \/ \E e \in Content : Append(d, e)
             \/ \E e \in Chained : Redact(d, e)
             \/ Publish(d)
             \/ \E k \in docs : Ingest(d, k)
             \/ \E ks \in SUBSET docs : RebuildActs(d, ks) \/ RebuildEvents(d, ks)
             \/ MergeChunk(d) \/ MergeEnd(d)
             \/ RebuildDerived(d)
             \/ Crash(d)
      PROVE  MergeInv'
  BY <1>2, AppendInv, RedactInv, PublishInv, IngestInv, RebuildActsInv,
     RebuildEventsInv, ChunkInv, StopInv, RebuildDerivedInv
<1> QED
  BY <1>1, <1>2 DEF Next

LEMMA MergeInvariant == Spec => []MergeInv
<1>1. MergeInv /\ [Next]_vars => MergeInv'
  BY MergeInvNext
<1> QED
  BY <1>1, MergeInvInit, PTL DEF Spec

\* Redaction supremacy: on no device, at no time, does an event show its content
\* that the registry condemns or that a redaction held there is about.  merge_chunk
\* takes redactions first, consults the registry for everything that arrives, and
\* never replaces a husk (EVENTS section 7, I8).
THEOREM Supremacy == Spec => []Supreme
<1>1. MergeInv => Supreme
  BY DEF MergeInv, RegIsActs, Condemning, Supreme
<1> QED
  BY <1>1, MergeInvariant, PTL

-----------------------------------------------------------------------------
(* The store keeps the promise of EventJournal. *)

Husks(d) == Scrubbed(d) \union {e \in Content \ held[d] : reg[d][e] # NoAct}

LEMMA JournalType ==
  ASSUME LogOK
  PROVE  /\ \A d \in Device : /\ Journal[d] = [ids |-> held[d], husks |-> Husks(d)]
                               /\ held[d] \subseteq Content /\ Husks(d) \subseteq Content
         /\ Journal = [d \in Device |-> Journal[d]]
<1>1. \A d \in Device : held[d] \subseteq Content
  BY DEF LogOK
<1> QED
  BY <1>1 DEF Journal, Husks, Scrubbed

\* A step that changes one device's log changes its journal alone.
LEMMA JournalStep ==
  ASSUME LogOK, LogOK', NEW d \in Device,
         \A c \in Device \ {d} : /\ held'[c] = held[c] /\ by'[c] = by[c]
                                 /\ \A e \in Content : reg'[c][e] # NoAct <=> reg[c][e] # NoAct
  PROVE  Journal' = [Journal EXCEPT ![d] = [ids |-> held'[d], husks |-> Husks(d)']]
<1>1. Journal = [c \in Device |-> [ids |-> held[c], husks |-> Husks(c)]]
  BY DEF Journal, Husks
<1>2. Journal' = [c \in Device |-> [ids |-> held'[c], husks |-> Husks(c)']]
  BY DEF Journal, Husks
<1>3. ASSUME NEW c \in Device, c # d
      PROVE  Husks(c)' = Husks(c) /\ held'[c] = held[c]
  <2>1. /\ held'[c] = held[c] /\ by'[c] = by[c]
        /\ \A e \in Content : reg'[c][e] # NoAct <=> reg[c][e] # NoAct
    BY <1>3
  <2> QED
    BY <2>1 DEF Husks, Scrubbed
<1> QED
  BY <1>1, <1>2, <1>3

LEMMA SharedSame == docs' = docs => Shared' = Shared
BY DEF Shared

LEMMA AppendKeeps ==
  ASSUME MergeInv, MergeInv', NEW d \in Device, NEW e \in Content, Append(d, e)
  PROVE  Promise!Record(d, e)
<1>1. /\ \A c \in Device : e \notin held[c]
      /\ held' = [held EXCEPT ![d] = @ \union {e}]
      /\ UNCHANGED <<by, acts, reg>> /\ docs' = docs
  BY DEF Append
<1>2. LogOK /\ LogOK' /\ MarkedIsHeld /\ RegIsActs /\ ActsKnown
  BY DEF MergeInv
<1>3. \A c \in Device : held'[c] = IF c = d THEN held[c] \union {e} ELSE held[c]
  BY <1>1, <1>2 DEF LogOK
<1>4. reg[d][e] = NoAct /\ by[d][e] = NoAct
  <2>1. reg[d][e] = NoAct
    BY <1>1, <1>2 DEF RegIsActs, ActsKnown, Known
  <2>2. by[d][e] = NoAct
    BY <1>1, <1>2 DEF MarkedIsHeld
  <2> QED
    BY <2>1, <2>2
<1>5. Husks(d)' = Husks(d)
  BY <1>1, <1>2, <1>3, <1>4 DEF Husks, Scrubbed, LogOK
<1>6. Journal' = [Journal EXCEPT ![d] = [ids |-> held'[d], husks |-> Husks(d)']]
  BY <1>1, <1>2, <1>3, JournalStep
<1>7. Journal[d] = [ids |-> held[d], husks |-> Husks(d)]
  BY <1>2, JournalType
<1>8. Promise!Insert(Journal[d], e) = [ids |-> held'[d], husks |-> Husks(d)']
  BY <1>3, <1>5, <1>7 DEF Promise!Insert
<1>9. e \notin Journal[d].ids
  BY <1>1, <1>7
<1>10. Shared' = Shared
  BY <1>1, SharedSame
<1> QED
  BY <1>6, <1>8, <1>9, <1>10 DEF Promise!Record

LEMMA RedactKeeps ==
  ASSUME MergeInv, MergeInv', NEW d \in Device, NEW e \in Chained, Redact(d, e)
  PROVE  (\E s \in SUBSET Content : Promise!Redact(d, s)) \/ UNCHANGED <<Journal, Shared>>
<1>1. LogOK /\ LogOK' /\ held \in [Device -> SUBSET Content]
  BY DEF MergeInv, LogOK
<1>2. UNCHANGED <<held, docs, merging>>
  BY <1>1, RedactStep
<1>3. PICK victims \in SUBSET {v \in held[d] \intersect Chained : by[d][v] = NoAct} :
        \E f \in [victims -> Act] :
          /\ acts' = [acts EXCEPT ![d] = @ \union
                        {[id |-> f[v], victim |-> v] : v \in victims}]
          /\ reg' = [reg EXCEPT ![d] = [v \in Content |->
                        IF v \in victims THEN Least(@[v], f[v]) ELSE @[v]]]
          /\ by' = [by EXCEPT ![d] = [v \in Content |->
                        IF v \in victims THEN f[v] ELSE @[v]]]
  BY <1>1, RedactStep
<1>4. PICK f \in [victims -> Act] :
        /\ reg' = [reg EXCEPT ![d] = [v \in Content |->
                      IF v \in victims THEN Least(@[v], f[v]) ELSE @[v]]]
        /\ by' = [by EXCEPT ![d] = [v \in Content |->
                      IF v \in victims THEN f[v] ELSE @[v]]]
  BY <1>3
<1>5. /\ \A c \in Device \ {d} : by'[c] = by[c] /\ reg'[c] = reg[c]
      /\ \A v \in Content :
           /\ by'[d][v] = IF v \in victims THEN f[v] ELSE by[d][v]
           /\ v \notin victims => reg'[d][v] = reg[d][v]
  BY <1>1, <1>4 DEF LogOK
<1>6. /\ victims \subseteq held[d] /\ victims \subseteq Content
      /\ \A v \in victims : f[v] # NoAct /\ by[d][v] = NoAct
  <2>1. victims \subseteq held[d] /\ victims \subseteq Content
    BY <1>1
  <2>2. \A v \in victims : f[v] # NoAct
    BY NoActIsNoAct
  <2> QED
    BY <2>1, <2>2
<1>7. Husks(d)' = Husks(d) \union victims
  <2>1. Scrubbed(d)' = Scrubbed(d) \union victims
    BY <1>1, <1>2, <1>5, <1>6 DEF Scrubbed
  <2>2. \A v \in Content \ held[d] : reg'[d][v] = reg[d][v]
    BY <1>5, <1>6
  <2> QED
    BY <1>2, <2>1, <2>2 DEF Husks
<1>8. Journal' = [Journal EXCEPT ![d] = [ids |-> held'[d], husks |-> Husks(d)']]
  BY <1>1, <1>2, <1>5, JournalStep
<1>9. /\ Journal[d] = [ids |-> held[d], husks |-> Husks(d)]
      /\ Journal = [c \in Device |-> Journal[c]]
  BY <1>1, JournalType
<1>10. Journal' = [Journal EXCEPT ![d].husks = @ \union victims]
  <2>1. [Journal[d] EXCEPT !.husks = Journal[d].husks \union victims]
          = [ids |-> held'[d], husks |-> Husks(d)']
    BY <1>2, <1>7, <1>9
  <2> QED
    BY <1>8, <2>1
<1>11. Shared' = Shared
  BY <1>2, SharedSame
<1>12. CASE victims = {}
  <2>1. [ids |-> held'[d], husks |-> Husks(d)'] = Journal[d]
    BY <1>2, <1>7, <1>9, <1>12
  <2>2. Journal' = Journal
    BY <1>8, <1>9, <2>1
  <2> QED
    BY <1>11, <2>2
<1>13. CASE victims # {}
  <2>1. \A v \in victims : Promise!Shows(Journal[d], v)
    BY <1>6, <1>9 DEF Promise!Shows, Husks, Scrubbed
  <2>2. Promise!Redact(d, victims)
    BY <1>10, <1>11, <1>13, <2>1 DEF Promise!Redact
  <2> QED
    BY <1>6, <2>2
<1> QED
  BY <1>12, <1>13

\* A snapshot tells only what the journal has.
LEMMA SnapshotWithin ==
  ASSUME MergeInv, NEW d \in Device
  PROVE  /\ Told(Snapshot(d).events, Snapshot(d).acts) \in Promise!Contents(Content)
         /\ Promise!Within(Told(Snapshot(d).events, Snapshot(d).acts), Journal[d])
<1> DEFINE s == {e \in held[d] : Resolves(held[d], Subject(e))}
           c == Told(Snapshot(d).events, Snapshot(d).acts)
<1>1. /\ Snapshot(d).events = {[event |-> e, by |-> by[d][e]] : e \in s}
      /\ Snapshot(d).acts = {a \in acts[d] : a.victim \in s}
  BY DEF Snapshot
<1>2. LogOK /\ RegIsActs /\ Condemning
  BY DEF MergeInv
<1>3. s \subseteq held[d] /\ held[d] \subseteq Content
  BY <1>2 DEF LogOK
<1> HIDE DEF s
<1>4. c.ids \subseteq s
  BY <1>1 DEF Told
<1>5. \A x \in c.husks : \/ x \in s /\ by[d][x] # NoAct
                         \/ x \in s /\ \E a \in acts[d] : a.victim = x
  BY <1>1 DEF Told
<1>6. c.husks \subseteq Scrubbed(d)
  <2> SUFFICES ASSUME NEW x \in c.husks PROVE x \in held[d] /\ by[d][x] # NoAct
    BY DEF Scrubbed
  <2>1. x \in held[d] /\ x \in Content
    BY <1>3, <1>5
  <2> QED
    BY <1>2, <1>5, <2>1 DEF RegIsActs, Condemning
<1>7. c = [ids |-> c.ids, husks |-> c.husks]
  BY DEF Told
<1>8. /\ Journal[d].ids = held[d] /\ Journal[d].husks = Husks(d)
      /\ Scrubbed(d) \subseteq Husks(d) /\ Scrubbed(d) \subseteq held[d]
  BY <1>2, JournalType DEF Husks, Scrubbed
<1> HIDE DEF c
<1>9. c \in Promise!Contents(Content)
  BY <1>3, <1>4, <1>6, <1>7, <1>8 DEF Promise!Contents
<1>10. Promise!Within(c, Journal[d])
  BY <1>3, <1>4, <1>6, <1>8 DEF Promise!Within
<1> QED
  BY <1>9, <1>10 DEF c

LEMMA PublishKeeps ==
  ASSUME MergeInv, MergeInv', NEW d \in Device, Publish(d)
  PROVE  \E c \in Promise!Contents(Content) : Promise!Share(d, c)
<1> DEFINE c == Told(Snapshot(d).events, Snapshot(d).acts)
<1>1. docs' = docs \union {Snapshot(d)} /\ UNCHANGED <<held, by, reg>>
  BY DEF Publish, log
<1>2. c \in Promise!Contents(Content) /\ Promise!Within(c, Journal[d])
  BY SnapshotWithin
<1>3. Shared'.ids = Shared.ids \union c.ids
  BY <1>1 DEF Shared
<1>4. Shared'.husks = Shared.husks \union c.husks
  BY <1>1 DEF Shared
<1> HIDE DEF c
<1>5. Shared' = Promise!Join(Shared, c)
  <2>1. Shared' = [ids |-> Shared'.ids, husks |-> Shared'.husks]
    BY DEF Shared
  <2> QED
    BY <1>3, <1>4, <2>1 DEF Promise!Join
<1>6. Journal' = Journal
  BY <1>1 DEF Journal, Scrubbed
<1> QED
  BY <1>2, <1>5, <1>6 DEF Promise!Share

LEMMA ChunkKeeps ==
  ASSUME MergeInv, MergeInv', NEW d \in Device, MergeChunk(d)
  PROVE  \E c \in Promise!Contents(Content) : Promise!Absorb(d, c)
<1>1. PICK s \in SUBSET merging[d].events, as \in SUBSET merging[d].acts :
           /\ held' = [held EXCEPT ![d] = @ \union {k.event : k \in s}]
           /\ acts' = [acts EXCEPT ![d] = @ \union as]
           /\ reg' = [reg EXCEPT ![d] = Registered(d, as)]
           /\ by' = [by EXCEPT ![d] =
                       Landed(d, s, Registered(d, as), Condemned(d, as, Registered(d, as)))]
           /\ docs' = docs
           /\ \E m : /\ merging' = [merging EXCEPT ![d] = m]
                    /\ m \in [on : BOOLEAN, events : SUBSET Copies, acts : SUBSET Acts,
                              touched : SUBSET Content]
                    /\ m.events \subseteq merging[d].events
                    /\ m.acts \subseteq merging[d].acts
  BY ChunkStep
<1> DEFINE r == Registered(d, as)
           b == Landed(d, s, r, Condemned(d, as, r))
           h == held[d] \union {k.event : k \in s}
           c == Told(s, as)
<1>2. LogOK /\ LogOK' /\ TravelOK /\ MarkedIsHeld /\ RegIsActs /\ Condemning /\ Carried
  BY DEF MergeInv
<1>3. /\ s \in SUBSET Copies /\ as \in SUBSET Acts /\ OneCopy(s)
      /\ Within(Told(merging[d].events, merging[d].acts), Shared)
  <2>1. s \in SUBSET Copies /\ as \in SUBSET Acts
    BY <1>2 DEF TravelOK
  <2>2. OneCopy(merging[d].events)
    BY DEF MergeInv
  <2>3. Within(Told(merging[d].events, merging[d].acts), Shared)
    BY <1>2 DEF Carried
  <2> QED
    BY <2>1, <2>2, <2>3 DEF OneCopy
<1>4. /\ r \in [Content -> Markers]
      /\ \A e \in Content : r[e] # NoAct <=> reg[d][e] # NoAct \/ \E a \in as : a.victim = e
  BY <1>2, <1>3, RegisteredMarks
<1>5. MarksOf(d, s, r, b, h)
  <2>1. r = Registered(d, as) /\ b = Landed(d, s, r, Condemned(d, as, r))
        /\ h = held[d] \union {k.event : k \in s}
    OBVIOUS
  <2> HIDE DEF r, b, h
  <2> QED
    BY <1>2, <1>3, <2>1, LandedMarks
<1>6. h \subseteq Content /\ c.ids = {k.event : k \in s} /\ h = held[d] \union c.ids
  BY <1>2, <1>3 DEF LogOK, Copies, Told
<1>7. \A e : e \in c.husks <=> \/ \E k \in s : k.event = e /\ k.by # NoAct
                              \/ \E a \in as : a.victim = e
  BY DEF Told
<1>8. c.husks \subseteq Content
  <2>1. \A k \in s : k.event \in Content
    BY <1>3 DEF Copies
  <2>2. \A a \in as : a.victim \in Content
    BY <1>3 DEF Acts, Content
  <2> QED
    BY <1>7, <2>1, <2>2
<1>9. /\ c = [ids |-> c.ids, husks |-> c.husks]
      /\ Promise!Within(c, Shared)
  <2>1. c.ids \subseteq Told(merging[d].events, merging[d].acts).ids
    BY DEF Told
  <2>2. c.husks \subseteq Told(merging[d].events, merging[d].acts).husks
    BY DEF Told
  <2> QED
    BY <1>3, <2>1, <2>2 DEF Within, Promise!Within, Told
<1>10. held' = [held EXCEPT ![d] = h] /\ reg' = [reg EXCEPT ![d] = r]
       /\ by' = [by EXCEPT ![d] = b]
  BY <1>1
<1> HIDE DEF r, b, h, c
<1>11. \A x \in Device :
         /\ held'[x] = IF x = d THEN h ELSE held[x]
         /\ reg'[x] = IF x = d THEN r ELSE reg[x]
         /\ by'[x] = IF x = d THEN b ELSE by[x]
  BY <1>2, <1>10 DEF LogOK
<1>12. Husks(d)' = Husks(d) \union c.husks
  <2>1. Husks(d)' = {e \in h : b[e] # NoAct} \union {e \in Content \ h : r[e] # NoAct}
    BY <1>11 DEF Husks, Scrubbed
  <2>2. ASSUME NEW e \in Content
        PROVE  e \in Husks(d)' <=> e \in Husks(d) \/ e \in c.husks
    <3>1. e \in Husks(d) <=>
            (e \in held[d] /\ by[d][e] # NoAct) \/ (e \notin held[d] /\ reg[d][e] # NoAct)
      BY DEF Husks, Scrubbed
    <3>2. r[e] # NoAct <=> reg[d][e] # NoAct \/ \E a \in as : a.victim = e
      BY <1>4
    <3>3. e \in held[d] /\ reg[d][e] # NoAct => by[d][e] # NoAct
      BY <1>2 DEF Condemning
    <3>4. e \in h => (b[e] # NoAct <=>
             \/ e \in held[d] /\ by[d][e] # NoAct
             \/ \E k \in s : k.event = e /\ k.by # NoAct
             \/ r[e] # NoAct)
      BY <1>5 DEF MarksOf
    <3>5. CASE e \in h
      BY <1>6, <1>7, <2>1, <3>1, <3>2, <3>3, <3>4, <3>5
    <3>6. CASE e \notin h
      <4>1. ~\E k \in s : k.event = e
        BY <1>6, <3>6
      <4>2. e \notin held[d]
        BY <1>6, <3>6
      <4> QED
        BY <1>7, <2>1, <3>1, <3>2, <3>6, <4>1, <4>2
    <3> QED
      BY <3>5, <3>6
  <2>3. Husks(d) \subseteq Content /\ Husks(d)' \subseteq Content
    BY <1>2, <1>6, <2>1, JournalType
  <2> QED
    BY <1>8, <2>2, <2>3
<1>13. Journal' = [Journal EXCEPT ![d] = [ids |-> held'[d], husks |-> Husks(d)']]
  BY <1>2, <1>11, JournalStep
<1>14. Journal[d] = [ids |-> held[d], husks |-> Husks(d)]
  BY <1>2, JournalType
<1>15. Promise!Join(Journal[d], c) = [ids |-> held'[d], husks |-> Husks(d)']
  <2>1. Promise!Join(Journal[d], c) = [ids |-> held[d] \union c.ids,
                                       husks |-> Husks(d) \union c.husks]
    BY <1>14 DEF Promise!Join
  <2>2. held'[d] = held[d] \union c.ids
    BY <1>6, <1>11
  <2> QED
    BY <1>12, <2>1, <2>2
<1>16. Journal' = [Journal EXCEPT ![d] = Promise!Join(@, c)]
  BY <1>13, <1>15
<1>17. c \in Promise!Contents(Content)
  BY <1>6, <1>8, <1>9 DEF Promise!Contents
<1>18. Shared' = Shared
  BY <1>1, SharedSame
<1> QED
  BY <1>9, <1>16, <1>17, <1>18 DEF Promise!Absorb

\* The other steps change nothing that EventJournal sees.
LEMMA OthersStutter ==
  ASSUME MergeInv, MergeInv', NEW d \in Device,
         \/ UNCHANGED log /\ docs' = docs
         \/ RebuildDerived(d)
  PROVE  UNCHANGED <<Journal, Shared>>
<1>1. /\ held' = held /\ by' = by /\ docs' = docs
      /\ \A c \in Device, e \in Content : reg'[c][e] # NoAct <=> reg[c][e] # NoAct
  BY RebuiltRegistry DEF log
<1>2. Journal' = Journal
  BY <1>1 DEF Journal, Scrubbed
<1> QED
  BY <1>1, <1>2, SharedSame

LEMMA StepKeeps ==
  ASSUME MergeInv, MergeInv', [Next]_vars
  PROVE  [Promise!Next]_<<Journal, Shared>>
<1>1. ASSUME UNCHANGED log, docs' = docs
      PROVE  UNCHANGED <<Journal, Shared>>
  BY <1>1, SharedSame DEF log, Journal, Scrubbed
<1>2. CASE UNCHANGED vars
  BY <1>1, <1>2 DEF vars, log
<1>3. ASSUME NEW d \in Device,
             \/ \E k \in docs : Ingest(d, k)
             \/ \E ks \in SUBSET docs : RebuildActs(d, ks) \/ RebuildEvents(d, ks)
             \/ MergeEnd(d) \/ Crash(d)
      PROVE  UNCHANGED <<Journal, Shared>>
  <2>1. UNCHANGED log /\ docs' = docs
    BY <1>3 DEF Ingest, RebuildActs, RebuildEvents, Begin, MergeEnd, Crash
  <2> QED
    BY <1>1, <2>1
<1>4. ASSUME NEW d \in Device, RebuildDerived(d)
      PROVE  UNCHANGED <<Journal, Shared>>
  BY <1>4, OthersStutter
<1>5. ASSUME NEW d \in Device, NEW e \in Content, Append(d, e)
      PROVE  Promise!Next
  <2>1. Promise!Record(d, e)
    BY <1>5, AppendKeeps
  <2> QED
    BY <2>1 DEF Promise!Next
<1>6. ASSUME NEW d \in Device, NEW e \in Chained, Redact(d, e)
      PROVE  Promise!Next \/ UNCHANGED <<Journal, Shared>>
  <2>1. (\E s \in SUBSET Content : Promise!Redact(d, s)) \/ UNCHANGED <<Journal, Shared>>
    BY <1>6, RedactKeeps
  <2> QED
    BY <2>1 DEF Promise!Next
<1>7. ASSUME NEW d \in Device, Publish(d)
      PROVE  Promise!Next
  <2>1. \E c \in Promise!Contents(Content) : Promise!Share(d, c)
    BY <1>7, PublishKeeps
  <2> QED
    BY <2>1 DEF Promise!Next
<1>8. ASSUME NEW d \in Device, MergeChunk(d)
      PROVE  Promise!Next
  <2>1. \E c \in Promise!Contents(Content) : Promise!Absorb(d, c)
    BY <1>8, ChunkKeeps
  <2> QED
    BY <2>1 DEF Promise!Next
<1> QED
  BY <1>2, <1>3, <1>4, <1>5, <1>6, <1>7, <1>8 DEF Next

LEMMA InitKeeps == Init => Promise!Init
<1> SUFFICES ASSUME Init PROVE Promise!Init
  OBVIOUS
<1>1. Journal = [d \in Device |-> Promise!Blank]
  BY DEF Init, Journal, Scrubbed, Promise!Blank
<1>2. Shared = Promise!Blank
  BY DEF Init, Shared, Promise!Blank
<1> QED
  BY <1>1, <1>2 DEF Promise!Init

\* The store implements EventJournal: journals only grow, by union, and what was
\* redacted stays redacted, whatever documents are merged, in whatever order and
\* split, and wherever a merge is cut off (EVENTS section 8).
THEOREM JournalsGrowByUnion == Spec => Implements
<1>1. MergeInv /\ MergeInv' /\ [Next]_vars => [Promise!Next]_<<Journal, Shared>>
  BY StepKeeps
<1> QED
  BY <1>1, InitKeeps, MergeInvariant, PTL DEF Spec, Implements, Promise!Spec
-----------------------------------------------------------------------------
(* The hops of the chained events. *)

\* What one hop from a set of events leads to is in the set.
Closed(S) == \A y \in S \intersect Revision : Target[y] \in S

\* The events that every closed set around e has.
Closure == [e \in Chained |-> {x \in Chained :
              \A S \in SUBSET Chained : e \in S /\ Closed(S) => x \in S}]

\* The hops satisfy their own equation: there is a function that does.
LEMMA LineIs ==
  Line = [e \in Chained |-> IF e \in Remark THEN {e} ELSE {e} \union Line[Target[e]]]
<1> DEFINE Hops(f) == [e \in Chained |-> IF e \in Remark THEN {e} ELSE {e} \union f[Target[e]]]
<1>1. ASSUME NEW e \in Chained
      PROVE  Closure[e] = IF e \in Remark THEN {e} ELSE {e} \union Closure[Target[e]]
  <2>0. Closure[e] = {x \in Chained : \A S \in SUBSET Chained : e \in S /\ Closed(S) => x \in S}
    BY DEF Closure
  <2>1. e \in Closure[e]
    BY <2>0
  <2>2. CASE e \in Remark
    <3>1. Closed({e}) /\ {e} \in SUBSET Chained
      BY <2>2, IdAssumption DEF Closed
    <3>2. Closure[e] \subseteq {e}
      BY <2>0, <3>1
    <3> QED
      BY <2>1, <2>2, <3>2
  <2>3. CASE e \notin Remark
    <3>1. e \in Revision /\ Target[e] \in Chained
      BY <2>3, TargetAssumption DEF Chained
    <3>2. Closure[Target[e]] = {x \in Chained :
             \A S \in SUBSET Chained : Target[e] \in S /\ Closed(S) => x \in S}
      BY <3>1 DEF Closure
    <3>3. \A S \in SUBSET Chained : e \in S /\ Closed(S) => Target[e] \in S
      BY <3>1 DEF Closed
    <3>4. Closure[Target[e]] \subseteq Closure[e]
      BY <2>0, <3>2, <3>3
    <3> DEFINE S == {e} \union Closure[Target[e]]
    <3>5. S \in SUBSET Chained
      BY <3>2
    <3>6. Target[e] \in S
      BY <3>1, <3>2
    <3>7. ASSUME NEW y \in Closure[Target[e]], y \in Revision
          PROVE  Target[y] \in Closure[Target[e]]
      <4>1. Target[y] \in Chained
        BY <3>7, TargetAssumption
      <4>2. ASSUME NEW R \in SUBSET Chained, Target[e] \in R, Closed(R)
            PROVE  Target[y] \in R
        BY <3>2, <3>7, <4>2 DEF Closed
      <4> QED
        BY <3>2, <4>1, <4>2
    <3>8. Closed(S)
      BY <3>6, <3>7 DEF Closed
    <3> HIDE DEF S
    <3>9. Closure[e] \subseteq S
      <4>1. e \in S
        BY DEF S
      <4> QED
        BY <2>0, <3>5, <3>8, <4>1
    <3> QED
      BY <2>1, <2>3, <3>4, <3>9 DEF S
  <2> QED
    BY <2>2, <2>3
<1>2. Closure = Hops(Closure)
  BY <1>1 DEF Closure
<1>3. Line = CHOOSE f : f = Hops(f)
  BY DEF Line
<1>4. \E f : f = Hops(f)
  BY <1>2
<1> HIDE DEF Hops
<1>5. Line = Hops(Line)
  BY <1>3, <1>4
<1> QED
  BY <1>5 DEF Hops

\* What a line is made of: chained events, the event itself and earlier ones, whole
\* lines, and one remark only.
GoodLine(e) ==
  /\ Line[e] \subseteq Chained /\ e \in Line[e]
  /\ \A x \in Line[e] : x <= e
  /\ \A x \in Line[e] : Line[x] \subseteq Line[e]
  /\ \E r \in Remark : Line[e] \intersect Remark = {r}

LEMMA LinesAreGood == \A e \in Chained : GoodLine(e)
<1> DEFINE Bad == {e \in Chained : ~GoodLine(e)}
<1>1. SUFFICES ASSUME Bad # {} PROVE FALSE
  OBVIOUS
<1>2. Bad \in SUBSET Nat /\ Chained \subseteq Nat
  BY IdAssumption DEF Content
<1>3. PICK e \in Bad : \A y \in Bad : ~(<<y, e>> \in Below)
  <2> HIDE DEF Bad
  <2> QED
    BY <1>1, <1>2, BelowWellFounded, WFMin
<1>4. e \in Chained /\ ~GoodLine(e)
  OBVIOUS
<1>5. Line[e] = IF e \in Remark THEN {e} ELSE {e} \union Line[Target[e]]
  BY <1>4, LineIs
<1>6. CASE e \in Remark
  <2>1. Line[e] = {e}
    BY <1>5, <1>6
  <2>2. GoodLine(e)
    <3>1. e \in Nat
      BY <1>2, <1>4
    <3> QED
      BY <1>4, <1>6, <2>1, <3>1 DEF GoodLine
  <2> QED
    BY <1>4, <2>2
<1>7. CASE e \notin Remark
  <2>1. e \in Revision /\ Target[e] \in Chained /\ Target[e] < e
    BY <1>4, <1>7, TargetAssumption DEF Chained
  <2>2. Target[e] \in Nat /\ e \in Nat
    BY <1>2, <1>4, <2>1
  <2>3. <<Target[e], e>> \in Below
    BY <2>1, <2>2 DEF Below
  <2>4. GoodLine(Target[e])
    BY <1>3, <2>1, <2>3
  <2>5. Line[e] = {e} \union Line[Target[e]]
    BY <1>5, <1>7
  <2>6. GoodLine(e)
    <3>1. Line[e] \intersect Remark = Line[Target[e]] \intersect Remark
      BY <1>7, <2>5
    <3>2. Line[e] \subseteq Chained /\ e \in Line[e]
      BY <1>4, <2>4, <2>5 DEF GoodLine
    <3>3. \A x \in Line[e] : Line[x] \subseteq Line[e]
      BY <2>4, <2>5 DEF GoodLine
    <3>4. \A x \in Line[Target[e]] : x \in Nat /\ x <= Target[e]
      BY <1>2, <2>4 DEF GoodLine
    <3>5. \A x \in Line[e] : x <= e
      BY <2>1, <2>2, <2>5, <3>4
    <3> QED
      BY <2>4, <3>1, <3>2, <3>3, <3>5 DEF GoodLine
  <2> QED
    BY <1>4, <2>6
<1> QED
  BY <1>6, <1>7

\* The remark at the end of a line is its root.
LEMMA RootOf ==
  ASSUME NEW e \in Chained
  PROVE  /\ Root(e) \in Remark /\ Root(e) \in Line[e]
         /\ \A r \in Remark : r \in Line[e] => r = Root(e)
<1>1. PICK r \in Remark : Line[e] \intersect Remark = {r}
  BY LinesAreGood DEF GoodLine
<1>2. Root(e) \in Remark /\ Root(e) \in Line[e]
  BY <1>1 DEF Root
<1> QED
  BY <1>1, <1>2

LEMMA SubjectIsChained ==
  ASSUME NEW e \in Content PROVE Subject(e) \in Chained
BY TargetAssumption, IdAssumption DEF Subject, Content

\* An event whose hops are all here puts its remark among the roots.
LEMMA RootsOf ==
  ASSUME NEW h, NEW s, NEW x \in s, x \in Content, Resolves(h, Subject(x)),
         NEW r \in Remark, r \in Line[Subject(x)]
  PROVE  r \in Roots(h, s)
<1>1. r = Root(Subject(x))
  BY SubjectIsChained, RootOf
<1> QED
  BY <1>1 DEF Roots

LEMMA RootsGrow ==
  ASSUME NEW h, NEW g, h \subseteq g, NEW s, NEW t, s \subseteq t
  PROVE  Roots(h, s) \subseteq Roots(g, t)
<1>1. \A e \in s : Resolves(h, Subject(e)) => e \in t /\ Resolves(g, Subject(e))
  BY DEF Resolves
<1> QED
  BY <1>1 DEF Roots

\* Roots are remarks that are here.
LEMMA RootsAreHere ==
  ASSUME NEW h, NEW s \in SUBSET Content
  PROVE  Roots(h, s) \subseteq Remark \intersect h
<1> SUFFICES ASSUME NEW x \in s, Resolves(h, Subject(x))
             PROVE  Root(Subject(x)) \in Remark \intersect h
  BY DEF Roots
<1>1. Subject(x) \in Chained
  BY SubjectIsChained
<1> QED
  BY <1>1, RootOf DEF Resolves

-----------------------------------------------------------------------------
(* What events outside a set of remarks leave alone. *)

\* The log grew from h to g, and its markers went from b to c, within the events t.
News(h, b, g, c, t) ==
  /\ h \subseteq g /\ g \subseteq Content /\ t \subseteq Content
  /\ g \ h \subseteq t
  /\ \A e \in Content : b[e] # c[e] => e \in t

\* A chained event whose remark has no news is as live as before.
LEMMA LiveStands ==
  ASSUME NEW h, NEW b, NEW g, NEW c, NEW t, News(h, b, g, c, t),
         NEW r \in Remark, r \notin Roots(g, t),
         NEW v \in Chained, r \in Line[v], Resolves(g, v)
  PROVE  /\ Resolves(h, v)
         /\ Live(h, b, v) <=> Live(g, c, v)
<1>1. v \in Content /\ Subject(v) = v
  BY IdAssumption DEF Subject, Content
<1>2. v \notin t
  BY <1>1, RootsOf
<1>3. Resolves(h, v)
  <2> SUFFICES ASSUME NEW x \in Line[v], x \notin h PROVE FALSE
    BY DEF Resolves
  <2>1. x \in g /\ x \in Chained /\ Line[x] \subseteq Line[v] /\ Line[v] \subseteq g
    BY LinesAreGood DEF Resolves, GoodLine
  <2>2. x \in t /\ x \in Content /\ Subject(x) = x
    BY <2>1, IdAssumption DEF News, Subject, Content
  <2>3. Resolves(g, x)
    BY <2>1 DEF Resolves
  <2>4. r \in Line[x]
    BY <2>1, RootOf
  <2> QED
    BY <2>2, <2>3, <2>4, RootsOf
<1>4. b[v] = c[v]
  BY <1>1, <1>2 DEF News
<1>5. Retracted(h, v) <=> Retracted(g, v)
  <2>1. Retracted(h, v) => Retracted(g, v)
    BY DEF News, Retracted
  <2>2. ASSUME NEW x \in g \intersect Retraction, Target[x] = v, x \notin h
        PROVE  FALSE
    <3>1. x \in t /\ x \in Content /\ Subject(x) = v
      BY <2>2 DEF News, Subject, Content
    <3> QED
      BY <3>1, RootsOf
  <2> QED
    BY <2>1, <2>2 DEF Retracted
<1> QED
  BY <1>3, <1>4, <1>5 DEF Live

\* A remark that the news is not about keeps its row.
LEMMA RowStands ==
  ASSUME NEW h, NEW b, NEW g, NEW c, NEW t, News(h, b, g, c, t),
         NEW r \in Remark, r \notin Roots(g, t)
  PROVE  Row(g, c, r) = Row(h, b, r)
<1>1. r \in Chained /\ r \in Line[r] /\ Line[r] = {r}
  BY LineIs DEF Chained
<1>2. r \in g <=> r \in h
  <2>1. r \in g => Resolves(g, r)
    BY <1>1 DEF Resolves
  <2>2. r \in g => Resolves(h, r)
    BY <1>1, <2>1, LiveStands
  <2> QED
    BY <1>1, <2>2 DEF Resolves, News
<1>3. CASE r \notin g
  BY <1>2, <1>3 DEF Row
<1>4. CASE r \in g
  <2>1. Live(h, b, r) <=> Live(g, c, r)
    BY <1>1, <1>4, LiveStands DEF Resolves
  <2> DEFINE Old == {v \in h \intersect Revision :
                         r \in Line[v] /\ Resolves(h, v) /\ Live(h, b, v)}
             New == {v \in g \intersect Revision :
                         r \in Line[v] /\ Resolves(g, v) /\ Live(g, c, v)}
  <2>2. ASSUME NEW v \in Revision, r \in Line[v], Resolves(g, v)
        PROVE  /\ Resolves(h, v) /\ v \in h /\ v \in g
               /\ Live(h, b, v) <=> Live(g, c, v)
    <3>1. v \in Chained
      BY DEF Chained
    <3>2. v \in Line[v]
      BY <3>1, LinesAreGood DEF GoodLine
    <3>3. /\ Resolves(h, v)
          /\ Live(h, b, v) <=> Live(g, c, v)
      BY <2>2, <3>1, LiveStands
    <3> QED
      BY <2>2, <3>2, <3>3 DEF Resolves
  <2>3. \A v \in Revision : Resolves(h, v) => Resolves(g, v)
    BY DEF Resolves, News
  <2>4. Old = New
    BY <2>2, <2>3
  <2> HIDE DEF Old, New
  <2>5. Body(h, b, r) = IF Live(h, b, r) THEN Max({r} \union Old) ELSE NoRow
    BY DEF Body, Old
  <2>6. Body(g, c, r) = IF Live(g, c, r) THEN Max({r} \union New) ELSE NoRow
    BY DEF Body, New
  <2> QED
    BY <1>2, <1>4, <2>1, <2>4, <2>5, <2>6 DEF Row
<1> QED
  BY <1>3, <1>4

\* A document of the events h, their markers b and the redactions as.
SnapOf(h, b, as) ==
  LET s == {e \in h : Resolves(h, Subject(e))}
  IN [events |-> {[event |-> e, by |-> b[e]] : e \in s},
      acts   |-> {a \in as : a.victim \in s}]

\* News about no remark at all leaves the document as it was.
LEMMA SnapStands ==
  ASSUME NEW h, NEW b, NEW g, NEW c, NEW t, News(h, b, g, c, t), Roots(g, t) = {},
         NEW as, NEW bs, as \subseteq bs, \A a \in bs \ as : a.victim \in t
  PROVE  SnapOf(g, c, bs) = SnapOf(h, b, as)
<1> DEFINE S == {e \in h : Resolves(h, Subject(e))}
           T == {e \in g : Resolves(g, Subject(e))}
<1>1. ASSUME NEW e \in Content, Resolves(g, Subject(e))
      PROVE  e \notin t /\ Resolves(h, Subject(e))
  <2>1. Subject(e) \in Chained
    BY SubjectIsChained
  <2>2. PICK r \in Remark : r \in Line[Subject(e)]
    BY <2>1, RootOf
  <2>3. r \notin Roots(g, t)
    OBVIOUS
  <2>4. e \notin t
    BY <1>1, <2>2, <2>3, RootsOf
  <2>5. Resolves(h, Subject(e))
    BY <1>1, <2>1, <2>2, <2>3, LiveStands
  <2> QED
    BY <2>4, <2>5
<1>2. \A e \in h : Resolves(h, Subject(e)) => e \in g /\ Resolves(g, Subject(e))
  BY DEF News, Resolves
<1>3. \A e \in g : Resolves(g, Subject(e)) => e \in h /\ e \notin t /\ Resolves(h, Subject(e))
  BY <1>1 DEF News
<1>4. S = T /\ \A e \in S : e \notin t /\ e \in Content
  BY <1>2, <1>3 DEF News
<1>5. \A e \in S : b[e] = c[e]
  BY <1>4 DEF News
<1> HIDE DEF S, T
<1>6. {[event |-> e, by |-> b[e]] : e \in S} = {[event |-> e, by |-> c[e]] : e \in S}
  BY <1>5
<1>7. {a \in as : a.victim \in S} = {a \in bs : a.victim \in S}
  BY <1>4
<1>8. SnapOf(h, b, as) = [events |-> {[event |-> e, by |-> b[e]] : e \in S},
                          acts |-> {a \in as : a.victim \in S}]
  BY DEF SnapOf, S
<1>9. SnapOf(g, c, bs) = [events |-> {[event |-> e, by |-> c[e]] : e \in T},
                          acts |-> {a \in bs : a.victim \in T}]
  BY DEF SnapOf, T
<1> QED
  BY <1>4, <1>6, <1>7, <1>8, <1>9

-----------------------------------------------------------------------------
(* The derived tables: the invariant. *)

\* The remarks whose recompute the merge in progress still owes.
Owed(d) == Roots(held[d], merging[d].touched)

DerivedTypes ==
  /\ fts = [d \in Device |-> [r \in Remark |-> fts[d][r]]]
  /\ dirty \in [Device -> BOOLEAN]
  /\ stale \in [Device -> SUBSET Remark]

\* The rows that nobody owes a recompute are those of a rebuild.
RowsFollow(d) ==
  \A r \in Remark : r \notin stale[d] /\ r \notin Owed(d) =>
    fts[d][r] = Row(held[d], by[d], r)

\* A clean image with nothing owed has been published as it is.
CleanIsTold(d) ==
  ~dirty[d] /\ stale[d] = {} /\ Owed(d) = {} =>
    SnapOf(held[d], by[d], acts[d]) \in docs \union {[events |-> {}, acts |-> {}]}

IdleIsBlank == \A d \in Device : Free(d) => merging[d] = NoMerge

FoldInv ==
  /\ DerivedTypes /\ IdleIsBlank
  /\ \A d \in Device : RowsFollow(d) /\ CleanIsTold(d)

\* Nothing that device c derives, or derives it from, changes.
Aside(c) ==
  /\ held'[c] = held[c] /\ by'[c] = by[c] /\ acts'[c] = acts[c]
  /\ fts'[c] = fts[c] /\ dirty'[c] = dirty[c] /\ stale'[c] = stale[c]
  /\ merging'[c] = merging[c]

LEMMA AsideFolds ==
  ASSUME NEW c \in Device, RowsFollow(c), CleanIsTold(c), Aside(c), docs \subseteq docs'
  PROVE  RowsFollow(c)' /\ CleanIsTold(c)'
<1>1. RowsFollow(c)'
  BY DEF RowsFollow, Owed, Aside
<1>2. CleanIsTold(c)'
  BY DEF CleanIsTold, Owed, Aside
<1> QED
  BY <1>1, <1>2

\* What device d learns in a step is about the events t.
Learns(d, t) ==
  /\ News(held[d], by[d], held'[d], by'[d], t)
  /\ acts[d] \subseteq acts'[d]
  /\ \A a \in acts'[d] \ acts[d] : a.victim \in t

\* A step that recomputes what it learned, and whatever was owed.
LEMMA RecomputeFolds ==
  ASSUME DerivedTypes, NEW d \in Device, RowsFollow(d), CleanIsTold(d),
         NEW t, Learns(d, t), NEW roots, Recompute(d, roots),
         roots \subseteq Remark \intersect held'[d],
         Roots(held'[d], t) \subseteq roots, Roots(held'[d], merging[d].touched) \subseteq roots,
         merging'[d].touched = {}, docs \subseteq docs'
  PROVE  RowsFollow(d)' /\ CleanIsTold(d)'
<1> DEFINE g == held'[d]  c == by'[d]
<1>1. /\ \A r \in Remark : fts'[d][r] = IF r \in roots THEN Body(g, c, r) ELSE fts[d][r]
      /\ dirty'[d] = (dirty[d] \/ roots # {})
      /\ stale'[d] = stale[d] \ roots
  BY DEF Recompute, DerivedTypes
<1>2. Owed(d) \subseteq Roots(g, merging[d].touched)
  BY RootsGrow DEF Owed, Learns, News
<1>3. ASSUME NEW r \in Remark, r \notin stale'[d]
      PROVE  fts'[d][r] = Row(g, c, r)
  <2>1. CASE r \in roots
    BY <1>1, <2>1 DEF Row
  <2>2. CASE r \notin roots
    <3>1. r \notin stale[d] /\ r \notin Owed(d) /\ r \notin Roots(g, t)
      BY <1>1, <1>2, <1>3, <2>2
    <3>2. fts[d][r] = Row(held[d], by[d], r)
      BY <3>1 DEF RowsFollow
    <3>3. Row(g, c, r) = Row(held[d], by[d], r)
      BY <3>1, RowStands DEF Learns
    <3> QED
      BY <1>1, <2>2, <3>2, <3>3
  <2> QED
    BY <2>1, <2>2
<1>4. RowsFollow(d)'
  BY <1>3 DEF RowsFollow
<1>5. ASSUME ~dirty'[d], stale'[d] = {}
      PROVE  SnapOf(g, c, acts'[d]) \in docs' \union {[events |-> {}, acts |-> {}]}
  <2>1. ~dirty[d] /\ roots = {} /\ stale[d] = {}
    BY <1>1, <1>5 DEF DerivedTypes
  <2>2. Owed(d) = {} /\ Roots(g, t) = {}
    BY <1>2, <2>1
  <2>3. SnapOf(held[d], by[d], acts[d]) \in docs \union {[events |-> {}, acts |-> {}]}
    BY <2>1, <2>2 DEF CleanIsTold
  <2>4. SnapOf(g, c, acts'[d]) = SnapOf(held[d], by[d], acts[d])
    BY <2>2, SnapStands DEF Learns
  <2> QED
    BY <2>3, <2>4
<1>6. CleanIsTold(d)'
  BY <1>5 DEF CleanIsTold
<1> QED
  BY <1>4, <1>6

\* A chunk of a large merge, which leaves the recompute of what it learned owed.
LEMMA OweFolds ==
  ASSUME NEW d \in Device, RowsFollow(d), CleanIsTold(d),
         NEW t, Learns(d, t), fts'[d] = fts[d], dirty'[d] = dirty[d], stale'[d] = stale[d],
         merging'[d].touched = merging[d].touched \union t, docs \subseteq docs'
  PROVE  RowsFollow(d)' /\ CleanIsTold(d)'
<1> DEFINE g == held'[d]  c == by'[d]
<1>1. Owed(d) \subseteq Owed(d)' /\ Roots(g, t) \subseteq Owed(d)'
  BY RootsGrow DEF Owed, Learns, News
<1>2. ASSUME NEW r \in Remark, r \notin stale'[d], r \notin Owed(d)'
      PROVE  fts'[d][r] = Row(g, c, r)
  <2>1. fts[d][r] = Row(held[d], by[d], r)
    BY <1>1, <1>2 DEF RowsFollow
  <2>2. Row(g, c, r) = Row(held[d], by[d], r)
    BY <1>1, <1>2, RowStands DEF Learns
  <2> QED
    BY <2>1, <2>2
<1>3. RowsFollow(d)'
  BY <1>2 DEF RowsFollow
<1>4. ASSUME ~dirty'[d], stale'[d] = {}, Owed(d)' = {}
      PROVE  SnapOf(g, c, acts'[d]) \in docs' \union {[events |-> {}, acts |-> {}]}
  <2>1. Owed(d) = {} /\ Roots(g, t) = {}
    BY <1>1, <1>4
  <2>2. SnapOf(held[d], by[d], acts[d]) \in docs \union {[events |-> {}, acts |-> {}]}
    BY <1>4, <2>1 DEF CleanIsTold
  <2>3. SnapOf(g, c, acts'[d]) = SnapOf(held[d], by[d], acts[d])
    BY <2>1, SnapStands DEF Learns
  <2> QED
    BY <2>2, <2>3
<1>5. CleanIsTold(d)'
  BY <1>4 DEF CleanIsTold
<1> QED
  BY <1>3, <1>5

-----------------------------------------------------------------------------
(* The derived tables: each step. *)

LEMMA RecomputeTypes ==
  ASSUME DerivedTypes, NEW d \in Device, NEW roots, Recompute(d, roots)
  PROVE  /\ DerivedTypes'
         /\ \A c \in Device : c # d =>
              fts'[c] = fts[c] /\ dirty'[c] = dirty[c] /\ stale'[c] = stale[c]
<1> DEFINE row == [r \in Remark |-> IF r \in roots THEN Body(held'[d], by'[d], r) ELSE fts[d][r]]
<1>1. /\ fts' = [fts EXCEPT ![d] = row]
      /\ dirty' = [dirty EXCEPT ![d] = @ \/ roots # {}]
      /\ stale' = [stale EXCEPT ![d] = @ \ roots]
  BY DEF Recompute
<1>2. row = [r \in Remark |-> row[r]]
  OBVIOUS
<1> HIDE DEF row
<1>3. \A c \in Device : fts'[c] = IF c = d THEN row ELSE fts[c]
  BY <1>1 DEF DerivedTypes
<1>4. fts' = [c \in Device |-> [r \in Remark |-> fts'[c][r]]]
  <2>1. \A c \in Device : fts'[c] = [r \in Remark |-> fts'[c][r]]
    BY <1>2, <1>3 DEF DerivedTypes
  <2>2. fts' = [c \in Device |-> fts'[c]]
    BY <1>1 DEF DerivedTypes
  <2> QED
    BY <2>1, <2>2
<1>5. dirty' \in [Device -> BOOLEAN]
  BY <1>1 DEF DerivedTypes
<1>6. stale' \in [Device -> SUBSET Remark]
  BY <1>1 DEF DerivedTypes
<1>7. \A c \in Device : c # d =>
        fts'[c] = fts[c] /\ dirty'[c] = dirty[c] /\ stale'[c] = stale[c]
  BY <1>1, <1>3 DEF DerivedTypes
<1> QED
  BY <1>4, <1>5, <1>6, <1>7 DEF DerivedTypes

\* A step of device d keeps the invariant when it does so for d.
LEMMA FoldStep ==
  ASSUME FoldInv, NEW d \in Device, DerivedTypes', docs \subseteq docs',
         \A c \in Device : c # d => Aside(c),
         Free(d)' => merging'[d] = NoMerge, RowsFollow(d)', CleanIsTold(d)'
  PROVE  FoldInv'
<1>1. IdleIsBlank'
  BY DEF FoldInv, IdleIsBlank, Aside, Free
<1>2. ASSUME NEW c \in Device PROVE RowsFollow(c)' /\ CleanIsTold(c)'
  <2>1. CASE c = d
    BY <2>1
  <2>2. CASE c # d
    <3>1. RowsFollow(c) /\ CleanIsTold(c) /\ Aside(c)
      BY <2>2 DEF FoldInv
    <3> QED
      BY <3>1, AsideFolds
  <2> QED
    BY <2>1, <2>2
<1> QED
  BY <1>1, <1>2 DEF FoldInv

LEMMA FoldInit == Init => FoldInv
<1> SUFFICES ASSUME Init PROVE FoldInv
  OBVIOUS
<1>1. DerivedTypes
  BY DEF Init, DerivedTypes
<1>2. IdleIsBlank
  BY DEF Init, IdleIsBlank
<1>3. ASSUME NEW d \in Device PROVE RowsFollow(d) /\ CleanIsTold(d)
  <2>1. RowsFollow(d)
    BY DEF Init, RowsFollow, Row
  <2>2. SnapOf({}, by[d], {}) = [events |-> {}, acts |-> {}]
    BY DEF SnapOf
  <2>3. CleanIsTold(d)
    BY <2>2 DEF Init, CleanIsTold
  <2> QED
    BY <2>1, <2>3
<1> QED
  BY <1>1, <1>2, <1>3 DEF FoldInv

LEMMA NothingOwed == \A h : Roots(h, {}) = {}
BY DEF Roots

LEMMA AppendFolds ==
  ASSUME MergeInv, FoldInv, NEW d \in Device, NEW e \in Content, Append(d, e)
  PROVE  FoldInv'
<1>1. /\ held' = [held EXCEPT ![d] = @ \union {e}]
      /\ UNCHANGED <<by, acts, reg>> /\ UNCHANGED <<merging, docs>>
      /\ Recompute(d, Roots(held'[d], {e})) /\ Free(d)
  BY DEF Append
<1>2. LogOK /\ DerivedTypes /\ RowsFollow(d) /\ CleanIsTold(d)
  BY DEF MergeInv, FoldInv
<1>3. held'[d] = held[d] \union {e} /\ \A c \in Device : c # d => held'[c] = held[c]
  BY <1>1, <1>2 DEF LogOK
<1>4. Learns(d, {e})
  BY <1>1, <1>2, <1>3 DEF Learns, News, LogOK
<1>5. merging[d] = NoMerge /\ merging'[d] = NoMerge /\ merging'[d].touched = {}
  BY <1>1 DEF FoldInv, IdleIsBlank, NoMerge
<1>6. Roots(held'[d], {e}) \subseteq Remark \intersect held'[d]
  BY RootsAreHere
<1>7. Roots(held'[d], merging[d].touched) \subseteq Roots(held'[d], {e})
  BY <1>5, NothingOwed
<1>8. RowsFollow(d)' /\ CleanIsTold(d)'
  BY <1>1, <1>2, <1>4, <1>5, <1>6, <1>7, RecomputeFolds
<1>9. /\ DerivedTypes'
      /\ \A c \in Device : c # d =>
           fts'[c] = fts[c] /\ dirty'[c] = dirty[c] /\ stale'[c] = stale[c]
  BY <1>1, <1>2, RecomputeTypes
<1>10. \A c \in Device : c # d => Aside(c)
  BY <1>1, <1>3, <1>9 DEF Aside
<1> QED
  BY <1>1, <1>5, <1>8, <1>9, <1>10, FoldStep

\* The walk along the hops of an event that is here ends at a chained event.
LEMMA AnchorIsChained ==
  ASSUME NEW h, NEW e \in Chained, e \in h
  PROVE  Anchor(h, e) \in Chained
<1> DEFINE T == {a \in Line[e] : \A x \in Line[e] : x >= a => x \in h}
<1>1. Line[e] \subseteq Chained /\ e \in Line[e] /\ \A x \in Line[e] : x <= e
  BY LinesAreGood DEF GoodLine
<1>2. Chained \subseteq Nat
  BY IdAssumption DEF Content
<1>3. e \in T
  <2>1. ASSUME NEW x \in Line[e], x >= e PROVE x \in h
    <3>1. x \in Nat /\ e \in Nat /\ x <= e
      BY <1>1, <1>2
    <3>2. x = e
      BY <2>1, <3>1
    <3> QED
      BY <3>2
  <2> QED
    BY <1>1, <2>1
<1>4. T \in SUBSET Nat /\ T \subseteq Chained
  BY <1>1, <1>2
<1> HIDE DEF T
<1>5. Min(T) \in T
  BY <1>3, <1>4, MinIn
<1> QED
  BY <1>4, <1>5 DEF Anchor, T

\* The remark of a chain's members is that of its anchor.
LEMMA ChainRoots ==
  ASSUME NEW h, NEW a \in Chained, NEW t, t \subseteq ChainOf(h, a)
  PROVE  Roots(h, t) \subseteq Roots(h, {a})
<1> SUFFICES ASSUME NEW x \in t, Resolves(h, Subject(x))
             PROVE  Root(Subject(x)) \in Roots(h, {a})
  BY DEF Roots
<1>1. x \in Chained /\ a \in Line[x]
  BY DEF ChainOf
<1>2. Subject(x) = x /\ Subject(a) = a /\ a \in Content
  BY <1>1, IdAssumption DEF Subject, Content
<1>3. Line[a] \subseteq Line[x]
  BY <1>1, LinesAreGood DEF GoodLine
<1>4. Resolves(h, a)
  BY <1>2, <1>3 DEF Resolves
<1>5. Root(a) \in Remark /\ Root(a) \in Line[a]
  BY RootOf
<1>6. Root(a) = Root(x)
  BY <1>1, <1>3, <1>5, RootOf
<1> QED
  BY <1>2, <1>4, <1>5, <1>6, RootsOf

LEMMA RedactFolds ==
  ASSUME MergeInv, FoldInv, NEW d \in Device, NEW e \in Chained, Redact(d, e)
  PROVE  FoldInv'
<1> DEFINE anchor  == Anchor(held[d], e)
           victims == {v \in ChainOf(held[d], anchor) : by[d][v] = NoAct}
           minted  == {a.id : a \in UNION {acts[c] : c \in Device}}
<1>1. /\ Free(d) /\ e \in held[d] /\ UNCHANGED <<held, merging, docs>>
      /\ Recompute(d, Roots(held[d], {anchor}))
      /\ \E f \in [victims -> Act \ minted] :
           /\ acts' = [acts EXCEPT ![d] = @ \union {[id |-> f[v], victim |-> v] : v \in victims}]
           /\ by' = [by EXCEPT ![d] = [v \in Content |-> IF v \in victims THEN f[v] ELSE @[v]]]
  BY DEF Redact
<1>2. LogOK /\ DerivedTypes /\ RowsFollow(d) /\ CleanIsTold(d)
  BY DEF MergeInv, FoldInv
<1>3. anchor \in Chained /\ anchor \in Content
  BY <1>1, AnchorIsChained DEF Content
<1>4. victims \subseteq ChainOf(held[d], anchor) /\ victims \subseteq Content
  BY DEF ChainOf, Content
<1> HIDE DEF anchor, victims, minted
<1>5. PICK f \in [victims -> Act \ minted] :
        /\ acts' = [acts EXCEPT ![d] = @ \union {[id |-> f[v], victim |-> v] : v \in victims}]
        /\ by' = [by EXCEPT ![d] = [v \in Content |-> IF v \in victims THEN f[v] ELSE @[v]]]
  BY <1>1
<1> DEFINE new == {[id |-> f[v], victim |-> v] : v \in victims}
<1>6. \A a \in new : a.victim \in victims
  OBVIOUS
<1>7. acts' = [acts EXCEPT ![d] = @ \union new]
  BY <1>5
<1> HIDE DEF new
<1>8. Learns(d, victims)
  <2>1. acts[d] \subseteq acts'[d] /\ \A a \in acts'[d] \ acts[d] : a.victim \in victims
    BY <1>2, <1>6, <1>7 DEF LogOK
  <2>2. held'[d] = held[d] /\ held[d] \subseteq Content
    BY <1>1, <1>2 DEF LogOK
  <2>3. \A v \in Content : by[d][v] # by'[d][v] => v \in victims
    BY <1>2, <1>5 DEF LogOK
  <2>4. News(held[d], by[d], held'[d], by'[d], victims)
    BY <1>4, <2>2, <2>3 DEF News
  <2> QED
    BY <2>1, <2>4 DEF Learns
<1>9. merging[d] = NoMerge /\ merging'[d] = NoMerge /\ merging'[d].touched = {}
  BY <1>1 DEF FoldInv, IdleIsBlank, NoMerge
<1> DEFINE roots == Roots(held[d], {anchor})
<1>10. /\ roots \subseteq Remark \intersect held'[d] /\ Roots(held'[d], victims) \subseteq roots
       /\ Roots(held'[d], merging[d].touched) \subseteq roots
  <2>1. roots \subseteq Remark \intersect held[d]
    BY <1>3, RootsAreHere
  <2>2. Roots(held[d], victims) \subseteq roots
    BY <1>3, <1>4, ChainRoots
  <2>3. Roots(held[d], merging[d].touched) \subseteq roots
    BY <1>9, NothingOwed
  <2> QED
    BY <1>1, <2>1, <2>2, <2>3
<1>11. Recompute(d, roots) /\ docs \subseteq docs'
  BY <1>1
<1> HIDE DEF roots
<1>12. RowsFollow(d)' /\ CleanIsTold(d)'
  BY <1>2, <1>8, <1>9, <1>10, <1>11, RecomputeFolds
<1>13. /\ DerivedTypes'
       /\ \A c \in Device : c # d =>
            fts'[c] = fts[c] /\ dirty'[c] = dirty[c] /\ stale'[c] = stale[c]
  BY <1>2, <1>11, RecomputeTypes
<1>14. \A c \in Device : c # d => Aside(c)
  BY <1>1, <1>2, <1>5, <1>13 DEF Aside, LogOK
<1> QED
  BY <1>9, <1>11, <1>12, <1>13, <1>14, FoldStep

LEMMA PublishFolds ==
  ASSUME MergeInv, FoldInv, NEW d \in Device, Publish(d)
  PROVE  FoldInv'
<1>1. /\ docs' = docs \union {Snapshot(d)} /\ dirty' = [dirty EXCEPT ![d] = FALSE]
      /\ UNCHANGED <<held, by, acts, fts, merging, stale>>
  BY DEF Publish, log
<1>2. DerivedTypes /\ RowsFollow(d)
  BY DEF FoldInv
<1>3. Snapshot(d) = SnapOf(held[d], by[d], acts[d])
  BY DEF Snapshot, SnapOf
<1>4. RowsFollow(d)'
  BY <1>1, <1>2 DEF RowsFollow, Owed
<1>5. CleanIsTold(d)'
  BY <1>1, <1>3 DEF CleanIsTold
<1>6. DerivedTypes'
  BY <1>1, <1>2 DEF DerivedTypes
<1>7. \A c \in Device : c # d => Aside(c)
  BY <1>1, <1>2 DEF Aside, DerivedTypes
<1>8. Free(d)' => merging'[d] = NoMerge
  BY <1>1 DEF FoldInv, IdleIsBlank, Free
<1> QED
  BY <1>1, <1>4, <1>5, <1>6, <1>7, <1>8, FoldStep

LEMMA BeginFolds ==
  ASSUME MergeInv, FoldInv, NEW d \in Device, NEW events, NEW as, Begin(d, events, as)
  PROVE  FoldInv'
<1>1. /\ Free(d) /\ UNCHANGED <<held, by, acts, fts, dirty, docs, stale>>
      /\ merging' = [merging EXCEPT ![d] =
                        [on |-> TRUE, events |-> events, acts |-> as, touched |-> {}]]
  BY DEF Begin, log
<1>2. TravelOK /\ DerivedTypes /\ RowsFollow(d) /\ CleanIsTold(d)
  BY DEF MergeInv, FoldInv
<1>3. /\ merging'[d].touched = {} /\ merging'[d].on
      /\ \A c \in Device : c # d => merging'[c] = merging[c]
  BY <1>1, <1>2 DEF TravelOK
<1>4. merging[d].touched = {}
  BY <1>1 DEF FoldInv, IdleIsBlank, NoMerge
<1>5. Owed(d) = {}
  BY <1>4, NothingOwed DEF Owed
<1>6. RowsFollow(d)'
  BY <1>1, <1>2, <1>5 DEF RowsFollow
<1>7. CleanIsTold(d)'
  BY <1>1, <1>2, <1>5 DEF CleanIsTold
<1>8. DerivedTypes'
  BY <1>1, <1>2 DEF DerivedTypes
<1>9. \A c \in Device : c # d => Aside(c)
  BY <1>1, <1>3 DEF Aside
<1>10. Free(d)' => merging'[d] = NoMerge
  BY <1>3 DEF Free
<1> QED
  BY <1>1, <1>6, <1>7, <1>8, <1>9, <1>10, FoldStep

\* A chunk is about the events it touches.
LEMMA ChunkLearns ==
  ASSUME LogOK, NEW d \in Device, NEW s \in SUBSET Copies, NEW as \in SUBSET Acts,
         NEW r, held' = [held EXCEPT ![d] = @ \union {k.event : k \in s}],
         acts' = [acts EXCEPT ![d] = @ \union as],
         by' = [by EXCEPT ![d] = Landed(d, s, r, Condemned(d, as, r))]
  PROVE  Learns(d, Touched(d, s, as)) /\ Touched(d, s, as) \subseteq Content
<1> DEFINE t == Touched(d, s, as)
           c == Condemned(d, as, r)
           b == Landed(d, s, r, c)
<1>1. t = {k.event : k \in s} \union {a.victim : a \in as}
  BY DEF Touched
<1>2. t \subseteq Content
  <2>1. \A k \in s : k.event \in Content
    BY DEF Copies
  <2>2. \A a \in as : a.victim \in Content
    BY DEF Acts, Content
  <2> QED
    BY <1>1, <2>1, <2>2
<1>3. ASSUME NEW e \in Content, by[d][e] # b[e]
      PROVE  e \in t
  <2>1. b[e] = IF (e \in held[d] /\ c[e] # NoAct) \/ ~\E k \in s : k.event = e THEN c[e]
               ELSE LET k == CHOOSE k \in s : k.event = e
                    IN IF k.by = NoAct THEN r[e] ELSE k.by
    BY DEF Landed
  <2>2. c[e] = IF e \in held[d] /\ by[d][e] = NoAct /\ \E a \in as : a.victim = e
               THEN r[e] ELSE by[d][e]
    BY DEF Condemned
  <2>3. CASE \E k \in s : k.event = e
    BY <1>1, <2>3
  <2>4. CASE ~\E k \in s : k.event = e
    <3>1. b[e] = c[e]
      BY <2>1, <2>4
    <3>2. \E a \in as : a.victim = e
      BY <1>3, <2>2, <3>1
    <3> QED
      BY <1>1, <3>2
  <2> QED
    BY <2>3, <2>4
<1> HIDE DEF b
<1>4. by'[d] = b /\ held'[d] = held[d] \union {k.event : k \in s} /\ acts'[d] = acts[d] \union as
  BY DEF LogOK, b
<1>5. {k.event : k \in s} \subseteq t /\ held[d] \subseteq Content
  BY <1>1 DEF LogOK
<1> HIDE DEF t
<1>6. News(held[d], by[d], held'[d], by'[d], t)
  <2>1. /\ held[d] \subseteq held'[d] /\ held'[d] \subseteq Content
        /\ held'[d] \ held[d] \subseteq t
    BY <1>2, <1>4, <1>5
  <2>2. \A e \in Content : by[d][e] # by'[d][e] => e \in t
    BY <1>3, <1>4
  <2> QED
    BY <1>2, <2>1, <2>2 DEF News
<1>7. acts[d] \subseteq acts'[d] /\ \A a \in acts'[d] \ acts[d] : a.victim \in t
  BY <1>1, <1>4 DEF t
<1> QED
  BY <1>2, <1>6, <1>7 DEF Learns, t

LEMMA ChunkFolds ==
  ASSUME MergeInv, FoldInv, NEW d \in Device, MergeChunk(d)
  PROVE  FoldInv'
<1> DEFINE m  == merging[d]
           s  == {k \in m.events : k.event \in FirstIds(m)}
           as == {a \in m.acts : a.id \in FirstIds(m)}
           r  == Registered(d, as)
           t  == Touched(d, s, as)
           left == [on |-> TRUE, events |-> m.events \ s, acts |-> m.acts \ as,
                    touched |-> m.touched \union t]
<1>1. /\ held' = [held EXCEPT ![d] = @ \union {k.event : k \in s}]
      /\ acts' = [acts EXCEPT ![d] = @ \union as]
      /\ by' = [by EXCEPT ![d] = Landed(d, s, r, Condemned(d, as, r))]
      /\ docs' = docs
      /\ \/ /\ m.touched = {} /\ Recompute(d, Roots(held'[d], t))
            /\ merging' = [merging EXCEPT ![d] = NoMerge]
         \/ /\ merging' = [merging EXCEPT ![d] = left]
            /\ UNCHANGED <<fts, dirty, stale>>
  BY DEF MergeChunk
<1>2. LogOK /\ TravelOK /\ DerivedTypes /\ RowsFollow(d) /\ CleanIsTold(d)
  BY DEF MergeInv, FoldInv
<1>3. s \in SUBSET Copies /\ as \in SUBSET Acts
  BY <1>2 DEF TravelOK
<1> HIDE DEF s, as, r
<1>4. Learns(d, t) /\ t \subseteq Content
  BY <1>1, <1>2, <1>3, ChunkLearns
<1> HIDE DEF t
<1>5. \A c \in Device : c # d =>
        held'[c] = held[c] /\ by'[c] = by[c] /\ acts'[c] = acts[c]
  BY <1>1, <1>2 DEF LogOK
<1>6. CASE /\ m.touched = {} /\ Recompute(d, Roots(held'[d], t))
           /\ merging' = [merging EXCEPT ![d] = NoMerge]
  <2>1. /\ merging'[d] = NoMerge /\ merging'[d].touched = {}
        /\ \A c \in Device : c # d => merging'[c] = merging[c]
    BY <1>2, <1>6 DEF TravelOK, NoMerge
  <2>2. Roots(held'[d], t) \subseteq Remark \intersect held'[d]
    BY <1>4, RootsAreHere
  <2>3. Roots(held'[d], merging[d].touched) \subseteq Roots(held'[d], t)
    BY <1>6, NothingOwed
  <2>4. RowsFollow(d)' /\ CleanIsTold(d)'
    BY <1>1, <1>2, <1>4, <1>6, <2>1, <2>2, <2>3, RecomputeFolds
  <2>5. /\ DerivedTypes'
        /\ \A c \in Device : c # d =>
             fts'[c] = fts[c] /\ dirty'[c] = dirty[c] /\ stale'[c] = stale[c]
    BY <1>2, <1>6, RecomputeTypes
  <2>6. \A c \in Device : c # d => Aside(c)
    BY <1>5, <2>1, <2>5 DEF Aside
  <2> QED
    BY <1>1, <2>1, <2>4, <2>5, <2>6, FoldStep
<1>7. CASE merging' = [merging EXCEPT ![d] = left] /\ UNCHANGED <<fts, dirty, stale>>
  <2>1. left.on /\ left.touched = m.touched \union t
    OBVIOUS
  <2> HIDE DEF left
  <2>2. /\ merging'[d] = left
        /\ \A c \in Device : c # d => merging'[c] = merging[c]
    BY <1>2, <1>7 DEF TravelOK
  <2>3. merging'[d].touched = merging[d].touched \union t /\ merging'[d].on
    BY <2>1, <2>2
  <2>4. RowsFollow(d)' /\ CleanIsTold(d)'
    BY <1>1, <1>2, <1>4, <1>7, <2>3, OweFolds
  <2>5. DerivedTypes'
    BY <1>2, <1>7 DEF DerivedTypes
  <2>6. \A c \in Device : c # d => Aside(c)
    BY <1>5, <1>7, <2>2 DEF Aside
  <2>7. Free(d)' => merging'[d] = NoMerge
    BY <2>3 DEF Free
  <2> QED
    BY <1>1, <2>4, <2>5, <2>6, <2>7, FoldStep
<1> QED
  BY <1>1, <1>6, <1>7

LEMMA EndFolds ==
  ASSUME MergeInv, FoldInv, NEW d \in Device, MergeEnd(d)
  PROVE  FoldInv'
<1> DEFINE roots == Roots(held[d], merging[d].touched)
<1>1. /\ UNCHANGED <<held, by, acts, docs>> /\ Recompute(d, roots)
      /\ merging' = [merging EXCEPT ![d] = NoMerge]
  BY DEF MergeEnd, log
<1>2. LogOK /\ TravelOK /\ DerivedTypes /\ RowsFollow(d) /\ CleanIsTold(d)
  BY DEF MergeInv, FoldInv
<1>3. /\ merging'[d] = NoMerge /\ merging'[d].touched = {}
      /\ \A c \in Device : c # d => merging'[c] = merging[c]
  BY <1>1, <1>2 DEF TravelOK, NoMerge
<1>4. Learns(d, {})
  BY <1>1, <1>2 DEF Learns, News, LogOK
<1>5. /\ roots \subseteq Remark \intersect held'[d]
      /\ Roots(held'[d], {}) \subseteq roots
      /\ Roots(held'[d], merging[d].touched) \subseteq roots
  <2>1. merging[d].touched \subseteq Content
    BY <1>2 DEF TravelOK
  <2>2. roots \subseteq Remark \intersect held[d]
    BY <2>1, RootsAreHere
  <2> QED
    BY <1>1, <2>2, NothingOwed
<1> HIDE DEF roots
<1>6. RowsFollow(d)' /\ CleanIsTold(d)'
  BY <1>1, <1>2, <1>3, <1>4, <1>5, RecomputeFolds
<1>7. /\ DerivedTypes'
      /\ \A c \in Device : c # d =>
           fts'[c] = fts[c] /\ dirty'[c] = dirty[c] /\ stale'[c] = stale[c]
  BY <1>1, <1>2, RecomputeTypes
<1>8. \A c \in Device : c # d => Aside(c)
  BY <1>1, <1>3, <1>7 DEF Aside
<1> QED
  BY <1>1, <1>3, <1>6, <1>7, <1>8, FoldStep

LEMMA RebuildDerivedFolds ==
  ASSUME MergeInv, FoldInv, NEW d \in Device, RebuildDerived(d)
  PROVE  FoldInv'
<1> DEFINE row == [r \in Remark |-> Row(held[d], by[d], r)]
<1>1. /\ UNCHANGED <<held, by, acts, dirty, merging, docs, stale>>
      /\ fts' = [fts EXCEPT ![d] = row]
  BY DEF RebuildDerived
<1>2. DerivedTypes /\ CleanIsTold(d)
  BY DEF FoldInv
<1>3. row = [r \in Remark |-> row[r]] /\ \A r \in Remark : row[r] = Row(held[d], by[d], r)
  OBVIOUS
<1> HIDE DEF row
<1>4. \A c \in Device : fts'[c] = IF c = d THEN row ELSE fts[c]
  BY <1>1, <1>2 DEF DerivedTypes
<1>5. DerivedTypes'
  <2>1. \A c \in Device : fts'[c] = [r \in Remark |-> fts'[c][r]]
    BY <1>2, <1>3, <1>4 DEF DerivedTypes
  <2>2. fts' = [c \in Device |-> fts'[c]]
    BY <1>1, <1>2 DEF DerivedTypes
  <2>3. fts' = [c \in Device |-> [r \in Remark |-> fts'[c][r]]]
    BY <2>1, <2>2
  <2> QED
    BY <1>1, <1>2, <2>3 DEF DerivedTypes
<1>6. RowsFollow(d)'
  BY <1>1, <1>3, <1>4 DEF RowsFollow
<1>7. CleanIsTold(d)'
  BY <1>1, <1>2 DEF CleanIsTold, Owed
<1>8. \A c \in Device : c # d => Aside(c)
  BY <1>1, <1>4 DEF Aside
<1>9. Free(d)' => merging'[d] = NoMerge
  BY <1>1 DEF FoldInv, IdleIsBlank, Free
<1> QED
  BY <1>1, <1>5, <1>6, <1>7, <1>8, <1>9, FoldStep

LEMMA CrashFolds ==
  ASSUME MergeInv, FoldInv, NEW d \in Device, Crash(d)
  PROVE  FoldInv'
<1>1. /\ UNCHANGED <<held, by, acts, fts, dirty, docs>>
      /\ merging' = [merging EXCEPT ![d] = NoMerge]
      /\ stale' = [stale EXCEPT ![d] = @ \union Owed(d)]
  BY DEF Crash, log, Owed
<1>2. TravelOK /\ DerivedTypes /\ RowsFollow(d) /\ CleanIsTold(d)
  BY DEF MergeInv, FoldInv
<1>3. /\ merging'[d] = NoMerge
      /\ \A c \in Device : c # d => merging'[c] = merging[c]
  BY <1>1, <1>2 DEF TravelOK
<1>4. /\ stale'[d] = stale[d] \union Owed(d)
      /\ \A c \in Device : c # d => stale'[c] = stale[c]
  BY <1>1, <1>2 DEF DerivedTypes
<1>5. RowsFollow(d)'
  BY <1>1, <1>2, <1>4 DEF RowsFollow
<1>6. CleanIsTold(d)'
  BY <1>1, <1>2, <1>4 DEF CleanIsTold
<1>7. DerivedTypes'
  <2>1. merging[d].touched \subseteq Content
    BY <1>2 DEF TravelOK
  <2>2. Owed(d) \subseteq Remark
    BY <2>1, RootsAreHere DEF Owed
  <2>3. stale' \in [Device -> SUBSET Remark]
    BY <1>1, <1>2, <2>2 DEF DerivedTypes
  <2> QED
    BY <1>1, <1>2, <2>3 DEF DerivedTypes
<1>8. \A c \in Device : c # d => Aside(c)
  BY <1>1, <1>3, <1>4 DEF Aside
<1> QED
  BY <1>1, <1>3, <1>5, <1>6, <1>7, <1>8, FoldStep

LEMMA FoldNext ==
  ASSUME MergeInv, FoldInv, [Next]_vars
  PROVE  FoldInv'
<1>1. CASE UNCHANGED vars
  <2>1. /\ held' = held /\ by' = by /\ acts' = acts /\ fts' = fts /\ dirty' = dirty
        /\ merging' = merging /\ docs' = docs /\ stale' = stale
    BY <1>1 DEF vars
  <2> QED
    BY <2>1 DEF FoldInv, DerivedTypes, IdleIsBlank, Free, RowsFollow, CleanIsTold, Owed
<1>2. CASE Next
  <2>1. PICK d \in Device :
          \/ \E e \in Content : Append(d, e)
          \/ \E e \in Chained : Redact(d, e)
          \/ Publish(d)
          \/ \E k \in docs : Ingest(d, k)
          \/ \E ks \in SUBSET docs : RebuildActs(d, ks) \/ RebuildEvents(d, ks)
          \/ MergeChunk(d) \/ MergeEnd(d)
          \/ RebuildDerived(d)
          \/ Crash(d)
    BY <1>2 DEF Next
  <2>2. CASE \E k \in docs : Ingest(d, k)
    BY <2>2, BeginFolds DEF Ingest
  <2>3. CASE \E ks \in SUBSET docs : RebuildActs(d, ks) \/ RebuildEvents(d, ks)
    BY <2>3, BeginFolds DEF RebuildActs, RebuildEvents
  <2> QED
    BY <2>1, <2>2, <2>3, AppendFolds, RedactFolds, PublishFolds, ChunkFolds, EndFolds,
       RebuildDerivedFolds, CrashFolds
<1> QED
  BY <1>1, <1>2

-----------------------------------------------------------------------------
(* The registry: the least redaction of each event. *)

\* The least redaction of e in as, if there is any.
LEMMA LeastActIs ==
  ASSUME NEW as \in SUBSET Acts, NEW e
  PROVE  /\ LeastAct(as, e) \in Markers
         /\ LeastAct(as, e) = NoAct <=> ~\E a \in as : a.victim = e
         /\ LeastAct(as, e) # NoAct => \E a \in as : a.victim = e /\ a.id = LeastAct(as, e)
         /\ \A a \in as : a.victim = e => LeastAct(as, e) <= a.id
<1> DEFINE ids == {a.id : a \in {x \in as : x.victim = e}}
<1>1. LeastAct(as, e) = IF ids = {} THEN NoAct ELSE Min(ids)
  BY DEF LeastAct
<1>2. /\ ids \subseteq Act /\ ids # {} <=> \E a \in as : a.victim = e
      /\ \A i \in ids : \E a \in as : a.victim = e /\ a.id = i
      /\ \A a \in as : a.victim = e => a.id \in ids
  <2>1. ids \subseteq Act
    BY DEF Acts
  <2>2. ids # {} <=> \E a \in as : a.victim = e
    OBVIOUS
  <2>3. \A i \in ids : \E a \in as : a.victim = e /\ a.id = i
    OBVIOUS
  <2>4. \A a \in as : a.victim = e => a.id \in ids
    OBVIOUS
  <2> HIDE DEF ids
  <2> QED
    BY <2>1, <2>2, <2>3, <2>4
<1> HIDE DEF ids
<1>3. CASE ids = {}
  <2>1. LeastAct(as, e) = NoAct /\ ~\E a \in as : a.victim = e
    BY <1>1, <1>2, <1>3
  <2> QED
    BY <2>1 DEF Markers
<1>4. CASE ids # {}
  <2>1. ids \in SUBSET Nat
    BY <1>2, NoActIsNoAct
  <2>2. Min(ids) \in ids /\ \A i \in ids : Min(ids) <= i
    BY <1>4, <2>1, MinIn
  <2>3. LeastAct(as, e) = Min(ids)
    BY <1>1, <1>4
  <2>4. Min(ids) \in Act /\ Min(ids) # NoAct
    BY <1>2, <2>2, NoActIsNoAct
  <2> QED
    BY <1>2, <1>4, <2>2, <2>3, <2>4 DEF Markers
<1> QED
  BY <1>3, <1>4

\* Registering a batch keeps the least.
LEMMA LeastActJoins ==
  ASSUME NEW as \in SUBSET Acts, NEW bs \in SUBSET Acts, NEW e
  PROVE  LeastAct(as \union bs, e) = Least(LeastAct(as, e), LeastAct(bs, e))
<1> DEFINE i == LeastAct(as, e)
           j == LeastAct(bs, e)
           m == LeastAct(as \union bs, e)
<1>1. /\ i \in Markers /\ (i = NoAct <=> ~\E a \in as : a.victim = e)
      /\ i # NoAct => \E a \in as : a.victim = e /\ a.id = i
      /\ \A a \in as : a.victim = e => i <= a.id
  BY LeastActIs
<1>2. /\ j \in Markers /\ (j = NoAct <=> ~\E a \in bs : a.victim = e)
      /\ j # NoAct => \E a \in bs : a.victim = e /\ a.id = j
      /\ \A a \in bs : a.victim = e => j <= a.id
  BY LeastActIs
<1>3. as \union bs \in SUBSET Acts
  OBVIOUS
<1>4. /\ m \in Markers /\ (m = NoAct <=> ~\E a \in as \union bs : a.victim = e)
      /\ m # NoAct => \E a \in as \union bs : a.victim = e /\ a.id = m
      /\ \A a \in as \union bs : a.victim = e => m <= a.id
  BY <1>3, LeastActIs
<1> HIDE DEF i, j, m
<1>5. i \in Nat /\ j \in Nat /\ m \in Nat
  BY <1>1, <1>2, <1>4, NoActIsNoAct DEF Markers, NoAct
<1>6. i # NoAct => m # NoAct /\ m <= i
  BY <1>1, <1>4
<1>7. j # NoAct => m # NoAct /\ m <= j
  BY <1>2, <1>4
<1>8. m # NoAct => (i # NoAct /\ i <= m) \/ (j # NoAct /\ j <= m)
  BY <1>1, <1>2, <1>4
<1>9. m = Least(i, j)
  BY <1>5, <1>6, <1>7, <1>8 DEF Least, NoAct
<1> QED
  BY <1>9 DEF i, j, m

RegIsLeast == \A d \in Device, e \in Content : reg[d][e] = LeastAct(acts[d], e)

\* Joining a batch of redactions into a registry that had the least of the others.
LEMMA RegisterBatch ==
  ASSUME LogOK, RegIsLeast, NEW d \in Device, NEW bs \in SUBSET Acts,
         acts' = [acts EXCEPT ![d] = @ \union bs], NEW f,
         reg' = [reg EXCEPT ![d] = [e \in Content |-> f[e]]],
         \A e \in Content : f[e] = Least(reg[d][e], LeastAct(bs, e))
  PROVE  RegIsLeast'
<1>1. /\ acts'[d] = acts[d] \union bs /\ \A e \in Content : reg'[d][e] = f[e]
      /\ \A c \in Device : c # d => acts'[c] = acts[c] /\ reg'[c] = reg[c]
  BY DEF LogOK
<1>2. ASSUME NEW c \in Device, NEW e \in Content
      PROVE  reg'[c][e] = LeastAct(acts'[c], e)
  <2>1. CASE c # d
    BY <1>1, <2>1 DEF RegIsLeast
  <2>2. CASE c = d
    <3>1. acts[d] \in SUBSET Acts
      BY DEF LogOK
    <3>2. LeastAct(acts[d] \union bs, e) = Least(LeastAct(acts[d], e), LeastAct(bs, e))
      BY <3>1, LeastActJoins
    <3>3. reg'[d][e] = Least(LeastAct(acts[d], e), LeastAct(bs, e))
      BY <1>1 DEF RegIsLeast
    <3> QED
      BY <1>1, <2>2, <3>2, <3>3
  <2> QED
    BY <2>1, <2>2
<1> QED
  BY <1>2 DEF RegIsLeast

LEMMA RedactRegisters ==
  ASSUME LogOK, RegIsLeast, NEW d \in Device, NEW e \in Chained, Redact(d, e)
  PROVE  RegIsLeast'
<1>1. PICK victims \in SUBSET {v \in held[d] \intersect Chained : by[d][v] = NoAct} :
        \E f \in [victims -> Act] :
          /\ acts' = [acts EXCEPT ![d] = @ \union
                        {[id |-> f[v], victim |-> v] : v \in victims}]
          /\ reg' = [reg EXCEPT ![d] = [v \in Content |->
                        IF v \in victims THEN Least(@[v], f[v]) ELSE @[v]]]
  BY RedactStep, SMTT(30)
<1>2. PICK f \in [victims -> Act] :
        /\ acts' = [acts EXCEPT ![d] = @ \union {[id |-> f[v], victim |-> v] : v \in victims}]
        /\ reg' = [reg EXCEPT ![d] = [v \in Content |->
                      IF v \in victims THEN Least(@[v], f[v]) ELSE @[v]]]
  BY <1>1
<1> DEFINE new == {[id |-> f[v], victim |-> v] : v \in victims}
           g == [v \in Content |-> IF v \in victims THEN Least(reg[d][v], f[v]) ELSE reg[d][v]]
<1>3. new \in SUBSET Acts
  <2>1. \A v \in victims : [id |-> f[v], victim |-> v] \in Acts
    BY DEF Acts
  <2> QED
    BY <2>1
<1>4. /\ \A a \in new : a.victim \in victims /\ a.id = f[a.victim]
      /\ \A v \in victims : \E a \in new : a.victim = v
  <2>1. ASSUME NEW v \in victims PROVE \E a \in new : a.victim = v
    <3>1. [id |-> f[v], victim |-> v] \in new /\ [id |-> f[v], victim |-> v].victim = v
      OBVIOUS
    <3> QED
      BY <3>1
  <2> QED
    BY <2>1
<1>5. acts' = [acts EXCEPT ![d] = @ \union new]
  BY <1>2
<1>6. reg' = [reg EXCEPT ![d] = [v \in Content |-> g[v]]]
  BY <1>2 DEF LogOK
<1>7. ASSUME NEW v \in Content
      PROVE  g[v] = Least(reg[d][v], LeastAct(new, v))
  <2>1. g[v] = IF v \in victims THEN Least(reg[d][v], f[v]) ELSE reg[d][v]
    OBVIOUS
  <2> HIDE DEF new, g
  <2>2. /\ LeastAct(new, v) = NoAct <=> ~\E a \in new : a.victim = v
        /\ LeastAct(new, v) # NoAct => \E a \in new : a.victim = v /\ a.id = LeastAct(new, v)
    BY <1>3, LeastActIs
  <2>3. CASE v \in victims
    <3>1. LeastAct(new, v) = f[v]
      BY <1>4, <2>2, <2>3
    <3> QED
      BY <2>1, <2>3, <3>1
  <2>4. CASE v \notin victims
    <3>1. LeastAct(new, v) = NoAct
      BY <1>4, <2>2, <2>4
    <3> QED
      BY <2>1, <2>4, <3>1 DEF Least
  <2> QED
    BY <2>3, <2>4
<1> HIDE DEF new, g
<1> QED
  BY <1>3, <1>5, <1>6, <1>7, RegisterBatch

LEMMA ChunkRegisters ==
  ASSUME MergeInv, RegIsLeast, NEW d \in Device, MergeChunk(d)
  PROVE  RegIsLeast'
<1>1. LogOK /\ TravelOK
  BY DEF MergeInv
<1>2. PICK as \in SUBSET merging[d].acts :
        /\ acts' = [acts EXCEPT ![d] = @ \union as]
        /\ reg' = [reg EXCEPT ![d] = Registered(d, as)]
  BY ChunkStep
<1>3. as \in SUBSET Acts
  BY <1>1 DEF TravelOK
<1>4. ASSUME NEW e \in Content
      PROVE  Registered(d, as)[e] = Least(reg[d][e], LeastAct(as, e))
  <2> DEFINE ids == {a.id : a \in {x \in as : x.victim = e}}
  <2>1. Registered(d, as)[e] = IF ids = {} THEN reg[d][e] ELSE Least(reg[d][e], Min(ids))
    BY DEF Registered
  <2>2. LeastAct(as, e) = IF ids = {} THEN NoAct ELSE Min(ids)
    BY DEF LeastAct
  <2> HIDE DEF ids
  <2>3. Least(reg[d][e], NoAct) = reg[d][e]
    BY DEF Least
  <2> QED
    BY <2>1, <2>2, <2>3
<1>5. Registered(d, as) = [e \in Content |-> Registered(d, as)[e]]
  BY DEF Registered
<1> DEFINE r == Registered(d, as)
<1>6. reg' = [reg EXCEPT ![d] = [e \in Content |-> r[e]]]
  BY <1>2, <1>5
<1>7. acts' = [acts EXCEPT ![d] = @ \union as] /\ \A e \in Content : r[e] = Least(reg[d][e], LeastAct(as, e))
  BY <1>2, <1>4
<1> HIDE DEF r
<1> QED
  BY <1>1, <1>3, <1>6, <1>7, RegisterBatch

LEMMA RegistryNext ==
  ASSUME MergeInv, RegIsLeast, [Next]_vars
  PROVE  RegIsLeast'
<1>1. LogOK
  BY DEF MergeInv
<1>2. ASSUME UNCHANGED <<acts, reg>> PROVE RegIsLeast'
  BY <1>2 DEF RegIsLeast
<1>3. ASSUME NEW d \in Device, RebuildDerived(d) PROVE RegIsLeast'
  <2>1. UNCHANGED acts /\ reg' = [reg EXCEPT ![d] = [e \in Content |-> LeastAct(acts[d], e)]]
    BY <1>3 DEF RebuildDerived
  <2> QED
    BY <1>1, <2>1 DEF RegIsLeast, LogOK
<1>4. CASE UNCHANGED vars
  BY <1>2, <1>4 DEF vars
<1>5. CASE Next
  <2>1. PICK d \in Device :
          \/ \E e \in Content : Append(d, e)
          \/ \E e \in Chained : Redact(d, e)
          \/ Publish(d)
          \/ \E k \in docs : Ingest(d, k)
          \/ \E ks \in SUBSET docs : RebuildActs(d, ks) \/ RebuildEvents(d, ks)
          \/ MergeChunk(d) \/ MergeEnd(d)
          \/ RebuildDerived(d)
          \/ Crash(d)
    BY <1>5 DEF Next
  <2>2. CASE \E e \in Content : Append(d, e)
    BY <1>2, <2>2 DEF Append
  <2>3. CASE Publish(d) \/ MergeEnd(d) \/ Crash(d)
    BY <1>2, <2>3 DEF Publish, MergeEnd, Crash, log
  <2>4. ASSUME NEW events, NEW as, Begin(d, events, as) PROVE RegIsLeast'
    BY <1>2, <2>4 DEF Begin, log
  <2>5. CASE \E k \in docs : Ingest(d, k)
    BY <2>4, <2>5 DEF Ingest
  <2>6. CASE \E ks \in SUBSET docs : RebuildActs(d, ks) \/ RebuildEvents(d, ks)
    BY <2>4, <2>6 DEF RebuildActs, RebuildEvents
  <2> QED
    BY <1>1, <1>3, <2>1, <2>2, <2>3, <2>5, <2>6, RedactRegisters, ChunkRegisters
<1> QED
  BY <1>4, <1>5

LEMMA RegistryInit == Init => RegIsLeast
<1> SUFFICES ASSUME Init PROVE RegIsLeast
  OBVIOUS
<1>1. ASSUME NEW d \in Device, NEW e \in Content PROVE reg[d][e] = LeastAct(acts[d], e)
  <2>1. acts[d] = {} /\ reg[d][e] = NoAct
    BY DEF Init
  <2>2. LeastAct({}, e) = NoAct
    BY LeastActIs
  <2> QED
    BY <2>1, <2>2
<1> QED
  BY <1>1 DEF RegIsLeast

LEMMA WholeInvariant == Spec => [](MergeInv /\ FoldInv /\ RegIsLeast)
<1> DEFINE W == MergeInv /\ FoldInv /\ RegIsLeast
<1>1. Init => W
  BY MergeInvInit, FoldInit, RegistryInit
<1>2. W /\ [Next]_vars => W'
  BY MergeInvNext, FoldNext, RegistryNext
<1> HIDE DEF W
<1>3. Spec => []W
  BY <1>1, <1>2, PTL DEF Spec
<1> QED
  BY <1>3 DEF W

-----------------------------------------------------------------------------
(* What follows from the invariant. *)

LEMMA FoldsWhenFree == FoldInv /\ RegIsLeast => DerivedIsFold
<1> SUFFICES ASSUME FoldInv, RegIsLeast, NEW d \in Device, Free(d)
             PROVE  /\ \A r \in Remark \ stale[d] : fts[d][r] = Row(held[d], by[d], r)
                    /\ \A e \in Content : reg[d][e] = LeastAct(acts[d], e)
  BY DEF DerivedIsFold
<1>1. Owed(d) = {}
  BY NothingOwed DEF FoldInv, IdleIsBlank, NoMerge, Owed
<1> QED
  BY <1>1 DEF FoldInv, RowsFollow, RegIsLeast

\* Derived = fold (I7), for every set of devices and events and every chunk size:
\* between merges each event_fts row and each registry row is what
\* rebuild_derived would compute from the truth tables, but for the remarks whose
\* recompute a kill cut off.
THEOREM DerivedFollows == Spec => []DerivedIsFold
<1>1. MergeInv /\ FoldInv /\ RegIsLeast => DerivedIsFold
  BY FoldsWhenFree
<1> QED
  BY <1>1, WholeInvariant, PTL

\* A clean image's journal is in a document (the dirty row of recompute_derived):
\* nothing that a write, a merge or a chunk of one brought waits unmarked, unless a
\* kill cut off the recompute that marks it.
THEOREM NewsIsMarked == Spec => []UnpublishedIsDirty
<1>1. ASSUME FoldInv, NEW d \in Device, Free(d), ~dirty[d], stale[d] = {}
      PROVE  Snapshot(d) \in docs \union {[events |-> {}, acts |-> {}]}
  <2>1. Owed(d) = {}
    BY <1>1, NothingOwed DEF FoldInv, IdleIsBlank, NoMerge, Owed
  <2>2. SnapOf(held[d], by[d], acts[d]) \in docs \union {[events |-> {}, acts |-> {}]}
    BY <1>1, <2>1 DEF FoldInv, CleanIsTold
  <2> QED
    BY <2>2 DEF Snapshot, SnapOf
<1>2. MergeInv /\ FoldInv /\ RegIsLeast => UnpublishedIsDirty
  BY <1>1 DEF UnpublishedIsDirty
<1> QED
  BY <1>2, WholeInvariant, PTL

\* A row depends on the markers only by which events are scrubbed.
LEMMA RowSeesHusks ==
  ASSUME NEW h, NEW b, NEW c, \A e \in h : b[e] = NoAct <=> c[e] = NoAct, NEW r
  PROVE  Row(h, b, r) = Row(h, c, r)
<1>1. \A e \in h : Live(h, b, e) <=> Live(h, c, e)
  BY DEF Live
<1> DEFINE B == {v \in h \intersect Revision : r \in Line[v] /\ Resolves(h, v) /\ Live(h, b, v)}
           C == {v \in h \intersect Revision : r \in Line[v] /\ Resolves(h, v) /\ Live(h, c, v)}
<1>2. B = C
  BY <1>1
<1> HIDE DEF B, C
<1>3. Body(h, b, r) = IF Live(h, b, r) THEN Max({r} \union B) ELSE NoRow
  BY DEF Body, B
<1>4. Body(h, c, r) = IF Live(h, c, r) THEN Max({r} \union C) ELSE NoRow
  BY DEF Body, C
<1> QED
  BY <1>1, <1>2, <1>3, <1>4 DEF Row

LEMMA SameEventsSameView == MergeInv /\ FoldInv => Convergent
<1> SUFFICES ASSUME MergeInv, FoldInv, NEW c \in Device, NEW d \in Device,
                    Free(c), Free(d), stale[c] = {}, stale[d] = {}, HasActs(c), HasActs(d),
                    held[c] = held[d], acts[c] = acts[d]
             PROVE  Scrubbed(c) = Scrubbed(d) /\ fts[c] = fts[d]
  BY DEF Convergent
<1>1. \A x \in Device, e \in Content :
         e \in held[x] /\ (\E a \in acts[x] : a.victim = e) => by[x][e] # NoAct
  BY DEF MergeInv, RegIsActs, Condemning
<1>2. held[c] \subseteq Content
  BY DEF MergeInv, LogOK
<1>3. \A e \in held[c] : by[c][e] = NoAct <=> by[d][e] = NoAct
  BY <1>1, <1>2 DEF HasActs, Scrubbed
<1>4. Scrubbed(c) = Scrubbed(d)
  BY <1>3 DEF Scrubbed
<1>5. Owed(c) = {} /\ Owed(d) = {}
  BY NothingOwed DEF FoldInv, IdleIsBlank, NoMerge, Owed
<1>6. ASSUME NEW r \in Remark PROVE fts[c][r] = fts[d][r]
  <2>1. fts[c][r] = Row(held[c], by[c], r) /\ fts[d][r] = Row(held[d], by[d], r)
    BY <1>5 DEF FoldInv, RowsFollow
  <2>2. Row(held[c], by[c], r) = Row(held[c], by[d], r)
    BY <1>3, RowSeesHusks
  <2> QED
    BY <2>1, <2>2
<1>7. fts[c] = [r \in Remark |-> fts[c][r]] /\ fts[d] = [r \in Remark |-> fts[d][r]]
  BY DEF FoldInv, DerivedTypes
<1>8. fts[c] = fts[d]
  BY <1>6, <1>7
<1> QED
  BY <1>4, <1>8

\* Merge is a set (I6): two devices with the same events and redactions, whatever
\* way each came by them, show the same events and index the same text.
THEOREM MergeIsASet == Spec => []Convergent
<1>1. MergeInv /\ FoldInv /\ RegIsLeast => Convergent
  BY SameEventsSameView
<1> QED
  BY <1>1, WholeInvariant, PTL

=============================================================================
