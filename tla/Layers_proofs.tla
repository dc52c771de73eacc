---------------------------- MODULE Layers_proofs ----------------------------
(***************************************************************************)
(* What is served of the layers of a model.  Level-scoped pushes keep it   *)
(* level by level, for any number of elements, levels and producers, and   *)
(* any number of exports.  And a tag that matches was sent with the body   *)
(* the server would send now, however many pushes and settings saves come  *)
(* between its steps: the index only moves on, so an index that lies       *)
(* between two of one plan gives that plan.                                *)
(***************************************************************************)
EXTENDS ScopedPushes, LayerPolls, TLAPS

-----------------------------------------------------------------------------
(* Pushes *)

PushRecords ==
    [taken_at : Nat \ {0}, scope : (SUBSET Levels) \cup {Nothing}, begun : BOOLEAN, base : Nat,
     carried : SUBSET Lines, sent : SUBSET Lines]

\* What a push sends is on its levels, and it carries over nothing when it is of the whole model.
PushesFit ==
    \A h \in Producers : LET p == pushing[h] IN p # Nothing =>
        /\ p \in PushRecords
        /\ p.taken_at <= exports
        /\ p.scope # Nothing => \A x \in p.sent : x.level \in p.scope
        /\ p.scope = Nothing => p.carried = {}
        /\ p.base \in DOMAIN stored \cup {0}

\* A push whose base is still the latest carries what it would carry if it began now.
CarriedFits ==
    \A h \in Producers : LET p == pushing[h] IN
        p # Nothing /\ p.begun /\ p.scope # Nothing /\ p.base = Latest => p.carried = CarriedElements(p.scope)

\* There is a greatest of what is stored.
LatestThere ==
    /\ DOMAIN stored \subseteq Nat \ {0}
    /\ stored # <<>> => \E n \in DOMAIN stored : \A s \in DOMAIN stored : s <= n
    /\ \A s \in DOMAIN stored : s <= exports /\ stored[s] \subseteq Lines

NamedFit == \A l \in Levels : named[l] \subseteq Lines /\ \A x \in named[l] : x.level = l

ExportsFit == exports \in Nat /\ exports <= MaxTakenAt /\ DOMAIN pushing = Producers

PushInv == ExportsFit /\ PushesFit /\ LatestThere /\ CarriedFits /\ NamedFit /\ ServedIsLastPushed

\* What Latest is.
LEMMA LatestIsGreatest ==
  ASSUME LatestThere
  PROVE  /\ stored = <<>> <=> DOMAIN stored = {}
         /\ stored = <<>> => Latest = 0 /\ Served = {}
         /\ stored # <<>> => /\ Latest \in DOMAIN stored /\ Served = stored[Latest]
                             /\ \A s \in DOMAIN stored : s <= Latest
         /\ Latest \in Nat /\ Served \subseteq Lines
<1>1. DOMAIN <<>> = {}
  OBVIOUS
<1>2. stored # <<>> => Latest \in DOMAIN stored /\ \A s \in DOMAIN stored : s <= Latest
  BY DEF LatestThere, Latest
<1>3. stored = <<>> <=> DOMAIN stored = {}
  BY <1>1, <1>2
<1> QED
  BY <1>2, <1>3 DEF LatestThere, Latest, Served

\* The same of the next state, where a snapshot was stored.
LEMMA LatestAfter ==
  ASSUME LatestThere, NEW t \in Nat \ {0}, t \notin DOMAIN stored, NEW whole \in SUBSET Lines,
         t <= exports, exports' = exports,
         stored' = [s \in DOMAIN stored \cup {t} |-> IF s = t THEN whole ELSE stored[s]]
  PROVE  /\ LatestThere'
         /\ Latest' = IF t < Latest THEN Latest ELSE t
         /\ t < Latest => Served' = Served
         /\ ~(t < Latest) => Served' = whole
         /\ Latest' # Latest => Latest' = t
<1>1. /\ stored # <<>> => Latest \in DOMAIN stored /\ \A s \in DOMAIN stored : s <= Latest
      /\ stored = <<>> => Latest = 0 /\ DOMAIN stored = {}
      /\ stored # <<>> => Served = stored[Latest]
      /\ Latest \in Nat
  BY LatestIsGreatest
<1> DEFINE top == IF t < Latest THEN Latest ELSE t
<1>2. DOMAIN stored' = DOMAIN stored \cup {t}
  OBVIOUS
<1>3. top \in DOMAIN stored' /\ \A s \in DOMAIN stored' : s <= top
  BY <1>1, <1>2 DEF LatestThere
<1>4. stored' # <<>>
  BY <1>2
<1>5. Latest' = top
  <2>1. Latest' \in DOMAIN stored' /\ \A s \in DOMAIN stored' : s <= Latest'
    BY <1>3, <1>4 DEF Latest
  <2>2. DOMAIN stored' \subseteq Nat
    BY <1>2 DEF LatestThere
  <2> QED
    BY <1>3, <2>1, <2>2
<1>6. LatestThere'
  BY <1>2, <1>3 DEF LatestThere
<1>7. Served' = stored'[top]
  BY <1>4, <1>5 DEF Served
<1> QED
  BY <1>1, <1>5, <1>6, <1>7

LEMMA ScopedStarts == ScopedInit => PushInv
<1> SUFFICES ASSUME ScopedInit PROVE PushInv
  OBVIOUS
<1>1. DOMAIN stored = {} /\ Served = {}
  BY DEF ScopedInit, Served
<1> QED
  BY <1>1, ScopedAssumption
  DEF ScopedInit, PushInv, ExportsFit, PushesFit, LatestThere, CarriedFits, NamedFit, ServedIsLastPushed

\* A producer's step changes only its push, and the snapshots stay.
LEMMA ProducerKeeps ==
  ASSUME PushInv, NEW h \in Producers, UNCHANGED <<stored, named, overtaken>>,
         exports' \in Nat, exports <= exports', exports' <= MaxTakenAt, DOMAIN pushing' = Producers,
         \A g \in Producers : g # h => pushing'[g] = pushing[g],
         LET p == pushing'[h] IN p # Nothing =>
            /\ p \in PushRecords
            /\ p.taken_at <= exports'
            /\ p.scope # Nothing => \A x \in p.sent : x.level \in p.scope
            /\ p.scope = Nothing => p.carried = {}
            /\ p.base \in DOMAIN stored \cup {0}
            /\ p.begun /\ p.scope # Nothing /\ p.base = Latest => p.carried = CarriedElements(p.scope)
  PROVE  PushInv'
<1> USE DEF PushInv
<1>1. Latest' = Latest /\ Served' = Served
  BY DEF Latest, Served
<1>2. ExportsFit' /\ NamedFit' /\ ServedIsLastPushed'
  BY <1>1 DEF ExportsFit, NamedFit, ServedIsLastPushed
<1>3. LatestThere'
  <2>1. \A s \in DOMAIN stored : s \in Nat
    BY DEF LatestThere
  <2> QED
    BY <2>1 DEF LatestThere, ExportsFit
<1>4. PushesFit'
  <2> SUFFICES ASSUME NEW g \in Producers, pushing'[g] # Nothing
               PROVE  /\ pushing'[g] \in PushRecords
                      /\ pushing'[g].taken_at <= exports'
                      /\ pushing'[g].scope # Nothing => \A x \in pushing'[g].sent : x.level \in pushing'[g].scope
                      /\ pushing'[g].scope = Nothing => pushing'[g].carried = {}
                      /\ pushing'[g].base \in DOMAIN stored \cup {0}
    BY DEF PushesFit, PushRecords, Lines
  <2>1. CASE g = h
    BY <2>1
  <2>2. CASE g # h
    <3>1. pushing'[g] = pushing[g] /\ pushing[g].taken_at \in Nat
      BY <2>2 DEF PushesFit, PushRecords
    <3> QED
      BY <3>1 DEF PushesFit, ExportsFit
  <2> QED
    BY <2>1, <2>2
<1>5. CarriedFits'
  BY <1>1 DEF CarriedFits, CarriedElements
<1> QED
  BY <1>2, <1>3, <1>4, <1>5

LEMMA ExportKeeps ==
  ASSUME PushInv, NEW h \in Producers, NEW levels \in ((SUBSET Levels) \ {{}}) \cup {Nothing},
         NEW placed \in [Elements -> Levels \cup {Nothing}], Export(h, levels, placed)
  PROVE  PushInv'
<1> DEFINE all == {[id |-> e, level |-> placed[e]] : e \in {e \in Elements : placed[e] # Nothing}}
           sent == IF levels = Nothing THEN all ELSE OnLevels(all, levels)
           p == [taken_at |-> exports', scope |-> levels, begun |-> FALSE, base |-> 0, carried |-> {},
                 sent |-> sent]
<1>1. /\ exports' = exports + 1 /\ exports < MaxTakenAt /\ exports \in Nat
      /\ pushing' = [pushing EXCEPT ![h] = p]
      /\ UNCHANGED <<stored, named, overtaken>>
  BY DEF Export, PushInv, ExportsFit
<1>2. all \subseteq Lines
  BY DEF Lines
<1>3. sent \subseteq Lines /\ (levels # Nothing => \A x \in sent : x.level \in levels)
  BY <1>2 DEF OnLevels
<1> HIDE DEF sent
<1>4. p \in PushRecords
  BY <1>1, <1>3 DEF PushRecords
<1>5. DOMAIN pushing' = Producers /\ pushing'[h] = p /\ \A g \in Producers : g # h => pushing'[g] = pushing[g]
  BY <1>1 DEF PushInv, ExportsFit
<1>6. /\ p.taken_at = exports' /\ p.scope = levels /\ p.sent = sent
      /\ p.begun = FALSE /\ p.base = 0 /\ p.carried = {}
  OBVIOUS
<1> HIDE DEF p
<1>7. exports' \in Nat /\ exports <= exports' /\ exports' <= MaxTakenAt
  BY <1>1, ScopedAssumption
<1> QED
  BY <1>1, <1>3, <1>4, <1>5, <1>6, <1>7, ProducerKeeps

LEMMA BreakOffKeeps ==
  ASSUME PushInv, NEW h \in Producers, BreakOff(h)
  PROVE  PushInv'
<1> DEFINE q == pushing[h]
           p == [q EXCEPT !.begun = FALSE, !.base = 0, !.carried = {}]
<1>1. q # Nothing /\ pushing' = [pushing EXCEPT ![h] = p] /\ UNCHANGED <<exports, stored, named, overtaken>>
  BY DEF BreakOff
<1>2. /\ q \in PushRecords /\ q.taken_at <= exports
      /\ q.scope # Nothing => \A x \in q.sent : x.level \in q.scope
  BY <1>1 DEF PushInv, PushesFit
<1>3. /\ p \in PushRecords /\ p.taken_at = q.taken_at /\ p.scope = q.scope /\ p.sent = q.sent
      /\ p.begun = FALSE /\ p.base = 0 /\ p.carried = {}
  BY <1>2 DEF PushRecords
<1>4. DOMAIN pushing' = Producers /\ pushing'[h] = p /\ \A g \in Producers : g # h => pushing'[g] = pushing[g]
  BY <1>1 DEF PushInv, ExportsFit
<1> HIDE DEF p, q
<1> QED
  BY <1>1, <1>2, <1>3, <1>4, ProducerKeeps DEF PushInv, ExportsFit

LEMMA DropKeeps ==
  ASSUME PushInv, NEW h \in Producers, DropPush(h)
  PROVE  PushInv'
<1>1. /\ UNCHANGED <<exports, stored, named, overtaken>>
      /\ DOMAIN pushing' = Producers /\ pushing'[h] = Nothing
      /\ \A g \in Producers : g # h => pushing'[g] = pushing[g]
  BY DEF DropPush, PushInv, ExportsFit
<1> QED
  BY <1>1, ProducerKeeps DEF PushInv, ExportsFit

LEMMA BeginKeeps ==
  ASSUME PushInv, NEW h \in Producers, Begin(h)
  PROVE  PushInv'
<1> DEFINE q == pushing[h]
           carried == IF q.scope = Nothing THEN {} ELSE CarriedElements(q.scope)
           p == [q EXCEPT !.begun = TRUE, !.base = Latest, !.carried = carried]
<1>1. q # Nothing /\ pushing' = [pushing EXCEPT ![h] = p] /\ UNCHANGED <<exports, stored, named, overtaken>>
  BY DEF Begin
<1>2. /\ q \in PushRecords /\ q.taken_at <= exports
      /\ q.scope # Nothing => \A x \in q.sent : x.level \in q.scope
  BY <1>1 DEF PushInv, PushesFit
<1>3. Latest \in Nat /\ Latest \in DOMAIN stored \cup {0} /\ Served \subseteq Lines
  BY LatestIsGreatest DEF PushInv
<1>4. carried \subseteq Lines
  BY <1>3 DEF CarriedElements
<1> HIDE DEF carried
<1>5. /\ p \in PushRecords /\ p.taken_at = q.taken_at /\ p.scope = q.scope /\ p.sent = q.sent
      /\ p.begun = TRUE /\ p.base = Latest /\ p.carried = carried
  BY <1>2, <1>3, <1>4 DEF PushRecords
<1>6. /\ q.scope = Nothing => carried = {}
      /\ q.scope # Nothing => carried = CarriedElements(q.scope)
  BY DEF carried
<1>7. DOMAIN pushing' = Producers /\ pushing'[h] = p /\ \A g \in Producers : g # h => pushing'[g] = pushing[g]
  BY <1>1 DEF PushInv, ExportsFit
<1> HIDE DEF p, q
<1> QED
  BY <1>1, <1>2, <1>3, <1>5, <1>6, <1>7, ProducerKeeps DEF PushInv, ExportsFit

LEMMA StoreKeeps ==
  ASSUME PushInv, NEW h \in Producers, Store(h)
  PROVE  PushInv'
<1> USE DEF PushInv
<1> DEFINE p == pushing[h]
           t == p.taken_at
           whole == p.sent \cup p.carried
           takes == ~(Refusing /\ whole = {}) /\ t \notin DOMAIN stored
<1>1. p # Nothing /\ p.begun /\ exports' = exports
      /\ (pushing' = [pushing EXCEPT ![h] = Nothing] \/ pushing' = pushing)
  BY DEF Store
<1>2. /\ p \in PushRecords /\ t <= exports
      /\ p.scope # Nothing => \A x \in p.sent : x.level \in p.scope
      /\ p.scope = Nothing => p.carried = {}
  BY <1>1 DEF PushesFit
<1>3. DOMAIN pushing' = Producers /\ \A g \in Producers : pushing'[g] = pushing[g] \/ pushing'[g] = Nothing
  BY <1>1 DEF ExportsFit
<1>4. CASE ~takes
  <2>1. UNCHANGED <<stored, named, overtaken>>
    BY <1>4 DEF Store
  <2>2. Latest' = Latest /\ Served' = Served
    BY <2>1 DEF Latest, Served
  <2>3. ExportsFit' /\ NamedFit' /\ ServedIsLastPushed' /\ LatestThere'
    BY <1>1, <1>3, <2>1, <2>2 DEF ExportsFit, NamedFit, ServedIsLastPushed, LatestThere
  <2>4. PushesFit' /\ CarriedFits'
    BY <1>1, <1>3, <2>1, <2>2 DEF PushesFit, CarriedFits, CarriedElements
  <2> QED
    BY <2>3, <2>4
<1>5. CASE takes
  <2>1. /\ stored' = [s \in DOMAIN stored \cup {t} |-> IF s = t THEN whole ELSE stored[s]]
        /\ named' = [l \in Levels |->
              IF p.scope = Nothing \/ l \in p.scope THEN OnLevels(p.sent, {l}) ELSE named[l]]
        /\ overtaken' = (overtaken \/ t < Latest \/ (p.scope # Nothing /\ p.base # Latest))
    BY <1>5 DEF Store
  <2>2. t \in Nat \ {0} /\ whole \in SUBSET Lines /\ t \notin DOMAIN stored
    BY <1>2, <1>5 DEF PushRecords
  <2>3. /\ LatestThere'
        /\ t < Latest => Served' = Served
        /\ ~(t < Latest) => Served' = whole
        /\ Latest' # Latest => Latest' = t
        /\ Latest' = IF t < Latest THEN Latest ELSE t
    BY <1>1, <1>2, <2>1, <2>2, LatestAfter
  <2>4. ExportsFit' /\ NamedFit'
    BY <1>1, <1>2, <1>3, <2>1 DEF ExportsFit, NamedFit, OnLevels, PushRecords
  <2>5. PushesFit'
    <3>1. DOMAIN stored \subseteq DOMAIN stored'
      BY <2>1
    <3> QED
      BY <1>1, <1>3, <3>1 DEF PushesFit
  <2>6. CarriedFits'
    <3> SUFFICES ASSUME NEW g \in Producers, pushing'[g] # Nothing, pushing'[g].begun,
                        pushing'[g].scope # Nothing, pushing'[g].base = Latest'
                 PROVE  pushing'[g].carried = {x \in Served' : x.level \notin pushing'[g].scope}
      BY DEF CarriedFits, CarriedElements
    <3>1. pushing'[g] = pushing[g] /\ pushing[g].base \in DOMAIN stored \cup {0}
      BY <1>3 DEF PushesFit
    <3>2. Latest' = Latest /\ t # Latest
      <4>1. Latest' # t
        BY <2>2, <3>1
      <4> QED
        BY <2>3, <4>1
    <3>3. t < Latest
      BY <2>3, <3>2
    <3>4. Served' = Served
      BY <2>3, <3>3
    <3> QED
      BY <3>1, <3>2, <3>4 DEF CarriedFits, CarriedElements
  <2>7. ServedIsLastPushed'
    <3> SUFFICES ASSUME ~overtaken' PROVE Served' = UNION {named'[l] : l \in Levels}
      BY DEF ServedIsLastPushed
    <3>1. ~overtaken /\ Served' = whole /\ (p.scope # Nothing => p.base = Latest)
      BY <2>1, <2>3
    <3>2. Served = UNION {named[l] : l \in Levels}
      BY <3>1 DEF ServedIsLastPushed
    <3>3. \A x \in p.sent : x.level \in Levels
      BY <1>2 DEF PushRecords, Lines
    <3>4. CASE p.scope = Nothing
      <4>1. whole = p.sent /\ \A l \in Levels : named'[l] = OnLevels(p.sent, {l})
        BY <1>2, <2>1, <3>4
      <4> QED
        BY <3>1, <3>3, <4>1 DEF OnLevels
    <3>5. CASE p.scope # Nothing
      <4>1. p.carried = {x \in UNION {named[l] : l \in Levels} : x.level \notin p.scope}
        BY <1>1, <3>1, <3>2, <3>5 DEF CarriedFits, CarriedElements
      <4>2. \A l \in Levels : named'[l] = IF l \in p.scope THEN OnLevels(p.sent, {l}) ELSE named[l]
        BY <2>1, <3>5
      <4>3. ASSUME NEW x, x \in whole PROVE \E l \in Levels : x \in named'[l]
        <5>1. CASE x \in p.sent
          BY <5>1, <1>2, <3>3, <3>5, <4>2 DEF OnLevels
        <5>2. CASE x \in p.carried
          <6>1. PICK l \in Levels : x \in named[l]
            BY <5>2, <4>1
          <6>2. x.level = l /\ l \notin p.scope
            BY <5>2, <6>1, <4>1 DEF NamedFit
          <6> QED
            BY <6>1, <6>2, <4>2
        <5> QED
          BY <5>1, <5>2, <4>3
      <4>4. ASSUME NEW l \in Levels, NEW x, x \in named'[l] PROVE x \in whole
        <5>1. CASE l \in p.scope
          BY <5>1, <4>2, <4>4 DEF OnLevels
        <5>2. CASE l \notin p.scope
          BY <5>2, <4>1, <4>2, <4>4 DEF NamedFit
        <5> QED
          BY <5>1, <5>2
      <4> QED
        BY <3>1, <4>3, <4>4
    <3> QED
      BY <3>4, <3>5
  <2> QED
    BY <2>3, <2>4, <2>5, <2>6, <2>7
<1> QED
  BY <1>4, <1>5

LEMMA ScopedSteps == PushInv /\ [ScopedNext]_scopedVars => PushInv'
<1> SUFFICES ASSUME PushInv, [ScopedNext]_scopedVars PROVE PushInv'
  OBVIOUS
<1>1. ASSUME NEW h \in Producers, NEW levels \in ((SUBSET Levels) \ {{}}) \cup {Nothing},
             NEW placed \in [Elements -> Levels \cup {Nothing}], Export(h, levels, placed) PROVE PushInv'
  BY <1>1, ExportKeeps
<1>2. ASSUME NEW h \in Producers, Begin(h) \/ Store(h) \/ BreakOff(h) \/ DropPush(h) PROVE PushInv'
  BY <1>2, BeginKeeps, StoreKeeps, BreakOffKeeps, DropKeeps
<1>3. CASE UNCHANGED scopedVars
  <2>1. Latest' = Latest /\ Served' = Served
    BY <1>3 DEF scopedVars, Latest, Served
  <2> QED
    BY <1>3, <2>1 DEF scopedVars, PushInv, ExportsFit, PushesFit, LatestThere, CarriedFits, CarriedElements,
                      NamedFit, ServedIsLastPushed
<1> QED
  BY <1>1, <1>2, <1>3 DEF ScopedNext

LEMMA ScopedHolds == ScopedSpec => []PushInv
BY ScopedStarts, ScopedSteps, PTL DEF ScopedSpec

\* What is served is, level by level, what was last pushed for the level, however scoped and whole
\* pushes of any number of producers follow one another, break off and are sent again, while none is
\* overtaken.
THEOREM LastPushedIsServed == ScopedSpec => []ServedIsLastPushed
BY ScopedHolds, PTL DEF PushInv

\* Pushes and snapshots hold elements of the model alone, and none is of an export still to come.
THEOREM ScopedTypesHold == ScopedSpec => []ScopedTypeOK
<1>1. PushInv => ScopedTypeOK
  <2> SUFFICES ASSUME PushInv PROVE ScopedTypeOK
    OBVIOUS
  <2>1. exports \in 0..MaxTakenAt
    BY ScopedAssumption DEF PushInv, ExportsFit
  <2>2. ASSUME NEW h \in Producers, pushing[h] # Nothing
        PROVE  pushing[h].sent \cup pushing[h].carried \subseteq Lines /\ pushing[h].taken_at \in 1..exports
    <3>1. pushing[h] \in PushRecords /\ pushing[h].taken_at <= exports
      BY <2>2 DEF PushInv, PushesFit
    <3> QED
      BY <3>1 DEF PushInv, ExportsFit, PushRecords
  <2>3. DOMAIN stored \subseteq 1..exports /\ \A s \in DOMAIN stored : stored[s] \subseteq Lines
    BY DEF PushInv, ExportsFit, LatestThere
  <2> QED
    BY <2>1, <2>2, <2>3 DEF ScopedTypeOK
<1> QED
  BY <1>1, ScopedHolds, PTL

-----------------------------------------------------------------------------
(* Polls *)

Indexes == [Kinds -> [Models -> SnapshotIds \cup {Nothing}]]

\* j is what i may have become: snapshots are added, and none is taken away.
Below(i, j) ==
    \A k \in Kinds, m \in Models :
        i[k][m] # Nothing => j[k][m] # Nothing /\ i[k][m] <= j[k][m]

HasNewest(stamps) == stamps = {} \/ \E n \in stamps : \A s \in stamps : s <= n

\* What may be filed, what may come of it, and its index.
Filings == {f \in [Kinds -> [Models -> SUBSET SnapshotIds]] : \A k \in Kinds, m \in Models : HasNewest(f[k][m])}
More(f, g) == \A k \in Kinds, m \in Models : f[k][m] \subseteq g[k][m]
IndexOf(f) == [k \in Kinds |-> [m \in Models |-> NewestOf(f[k][m])]]

FiledFits ==
    /\ filed \in Filings
    /\ settings \in SettingsFiles /\ scope \in Scopes

\* The tag was made from an index that may have become this one.
TagOfBelow(tag, index, s) ==
    \E i \in Indexes : Below(i, index) /\ tag = TagOf(i, tag.settings, s)

\* While the plan of this kind is still that of the tag, the read was what the tag says, whole.
Vouches(f, tag, kind, read) ==
    \A later \in Indexes :
        Below(IndexOf(f), later) /\ Plan(later, tag.settings, kind, tag.scope.milestone) = tag.plans[kind]
            => read = tag.plans[kind] /\ \A p \in read : p[2] \in f[kind][p[1]]

BodyFits(f, tag, body) ==
    /\ body.scope = tag.scope /\ body.policy = tag.settings.policy
    /\ Vouches(f, tag, "doors", body.doors)
    /\ IF body.policy = "geometry" THEN body.rooms \in Plans /\ Vouches(f, tag, "rooms", body.rooms)
       ELSE body.rooms = Nothing

AnswerFits(r) ==
    /\ r.tag \in EntityTags /\ r.body \in Bodies /\ r.revision \in Plans
    /\ r.tag.scope = r.scope /\ r.body.scope = r.scope
    /\ ~r.torn => BodyFits(filed, r.tag, r.body)

JoiningFits(r) ==
    /\ r.doors \in Plans /\ r.file \in SettingsFiles
    /\ r.tag \in EntityTags /\ TagOfBelow(r.tag, IndexNow, r.scope)
    /\ ~r.torn => r.file = r.tag.settings /\ Vouches(filed, r.tag, "doors", r.doors)

ReadFits ==
    reading # Nothing =>
        /\ "at" \in DOMAIN reading /\ reading.scope \in Scopes
        /\ reading.at = "tagging" => reading.index \in Indexes /\ Below(reading.index, IndexNow)
        /\ reading.at \in {"assembling", "scoping"} =>
              reading.tag \in EntityTags /\ TagOfBelow(reading.tag, IndexNow, reading.scope)
        /\ reading.at \in {"scoping", "opening"} => reading.file \in SettingsFiles
        /\ reading.at = "opening" =>
              /\ reading.index \in Indexes /\ Below(reading.index, IndexNow)
              /\ reading.tag \in EntityTags /\ TagOfBelow(reading.tag, reading.index, reading.scope)
        /\ reading.at = "joining" => JoiningFits(reading)
        /\ reading.at = "parsing" \/ (reading.at = "answered" /\ reading.status = 200) => AnswerFits(reading)

Layers == [payload : Bodies \cup {Nothing}, accepted : Scopes \cup {Nothing},
           tag : EntityTags \cup {Nothing}, revision : Plans \cup {Nothing}]

\* A layer that holds a revision draws a body of its scope.
HeldFits ==
    /\ layer \in Layers
    /\ layer.payload = Nothing <=> layer.tag = Nothing
    /\ layer.revision = Nothing <=> layer.tag = Nothing
    /\ layer.tag = Nothing <=> tagged = Nothing
    /\ layer.tag # Nothing =>
          /\ layer.tag.scope = layer.accepted /\ layer.payload.scope = layer.accepted
          /\ tagged \in Bodies /\ (~torn => BodyFits(filed, layer.tag, tagged))

PollInv == FiledFits /\ ReadFits /\ HeldFits

LEMMA PollStarts == PollInit => PollInv
<1> SUFFICES ASSUME PollInit PROVE PollInv
  OBVIOUS
<1>1. FiledFits
  BY DEF PollInit, FiledFits, Filings, HasNewest
<1>2. ReadFits /\ HeldFits
  BY DEF PollInit, ReadFits, HeldFits, Layers
<1> QED
  BY <1>1, <1>2 DEF PollInv

-----------------------------------------------------------------------------
(* Indexes and plans *)

LEMMA NewestIs ==
  ASSUME NEW stamps \in SUBSET SnapshotIds, HasNewest(stamps)
  PROVE  IF stamps = {} THEN NewestOf(stamps) = Nothing
         ELSE /\ NewestOf(stamps) \in stamps /\ NewestOf(stamps) # Nothing
              /\ \A s \in stamps : s <= NewestOf(stamps)
  BY PollAssumption DEF NewestOf, HasNewest

LEMMA IndexIs ==
  ASSUME NEW f \in Filings
  PROVE  /\ IndexOf(f) \in Indexes
         /\ \A k \in Kinds, m \in Models : IndexOf(f)[k][m] = NewestOf(f[k][m])
<1>1. \A k \in Kinds, m \in Models : NewestOf(f[k][m]) \in SnapshotIds \cup {Nothing}
  BY NewestIs DEF Filings
<1> QED
  BY <1>1 DEF IndexOf, Indexes

LEMMA IndexMovesOn ==
  ASSUME NEW f \in Filings, NEW g \in Filings, More(f, g)
  PROVE  Below(IndexOf(f), IndexOf(g))
<1>1. ASSUME NEW k \in Kinds, NEW m \in Models, f[k][m] # {}
      PROVE  NewestOf(g[k][m]) # Nothing /\ NewestOf(f[k][m]) <= NewestOf(g[k][m])
  <2>1. f[k][m] \subseteq g[k][m] /\ f[k][m] \in SUBSET SnapshotIds /\ g[k][m] \in SUBSET SnapshotIds
    BY DEF More, Filings
  <2>2. HasNewest(f[k][m]) /\ HasNewest(g[k][m])
    BY DEF Filings
  <2>3. NewestOf(f[k][m]) \in f[k][m]
    BY <1>1, <2>1, <2>2, NewestIs
  <2> QED
    BY <1>1, <2>1, <2>2, <2>3, NewestIs
<1>2. ASSUME NEW k \in Kinds, NEW m \in Models, f[k][m] = {}
      PROVE  NewestOf(f[k][m]) = Nothing
  BY <1>2, NewestIs DEF HasNewest
<1> QED
  BY <1>1, <1>2, IndexIs DEF Below

LEMMA BelowIsAnOrder ==
  /\ \A i \in Indexes : Below(i, i)
  /\ \A i, j, l \in Indexes : Below(i, j) /\ Below(j, l) => Below(i, l)
<1>1. ASSUME NEW i \in Indexes, NEW k \in Kinds, NEW m \in Models
      PROVE  i[k][m] # Nothing => i[k][m] \in Nat
  <2>1. i[k][m] \in SnapshotIds \cup {Nothing}
    BY DEF Indexes
  <2> QED
    BY <2>1, PollAssumption
<1> QED
  BY <1>1 DEF Below

PlanOf(index, file, kind, milestone, m) == IF milestone THEN file.pins[kind][m] ELSE index[kind][m]

LEMMA PlanIs ==
  ASSUME NEW index \in Indexes, NEW file \in SettingsFiles, NEW kind \in Kinds, NEW milestone \in BOOLEAN
  PROVE  /\ Plan(index, file, kind, milestone) \in Plans
         /\ \A p \in Models \X SnapshotIds :
               p \in Plan(index, file, kind, milestone) <=>
                  index[kind][p[1]] # Nothing /\ p[2] = PlanOf(index, file, kind, milestone, p[1])
<1> DEFINE id == [m \in Models |-> PlanOf(index, file, kind, milestone, m)]
           planned == {m \in Models : index[kind][m] # Nothing /\ id[m] # Nothing}
<1>1. Plan(index, file, kind, milestone) = {<<m, id[m]>> : m \in planned}
  BY DEF Plan, PlanOf
<1>2. \A m \in Models : id[m] \in SnapshotIds \cup {Nothing}
  BY PollAssumption DEF PlanOf, Indexes
<1> HIDE DEF id
<1>3. ASSUME NEW p \in Models \X SnapshotIds
      PROVE  p \in {<<m, id[m]>> : m \in planned} <=> index[kind][p[1]] # Nothing /\ p[2] = id[p[1]]
  BY <1>2, PollAssumption
<1>4. {<<m, id[m]>> : m \in planned} \in Plans
  BY <1>2 DEF Plans
<1>5. \A m \in Models : id[m] = PlanOf(index, file, kind, milestone, m)
  BY DEF id
<1> QED
  BY <1>1, <1>3, <1>4, <1>5

\* An index between two of one plan has that plan.
LEMMA PlanBetween ==
  ASSUME NEW i \in Indexes, NEW j \in Indexes, NEW l \in Indexes, Below(i, j), Below(j, l),
         NEW file \in SettingsFiles, NEW kind \in Kinds, NEW milestone \in BOOLEAN,
         Plan(i, file, kind, milestone) = Plan(l, file, kind, milestone)
  PROVE  Plan(j, file, kind, milestone) = Plan(i, file, kind, milestone)
<1> DEFINE Of(index) == Plan(index, file, kind, milestone)
<1>1. ASSUME NEW p \in Models \X SnapshotIds PROVE p \in Of(j) <=> p \in Of(i)
  <2> DEFINE m == p[1]
             At(index) == index[kind][m]
  <2>1. /\ p \in Of(i) <=> At(i) # Nothing /\ p[2] = PlanOf(i, file, kind, milestone, m)
        /\ p \in Of(j) <=> At(j) # Nothing /\ p[2] = PlanOf(j, file, kind, milestone, m)
        /\ p \in Of(l) <=> At(l) # Nothing /\ p[2] = PlanOf(l, file, kind, milestone, m)
    BY PlanIs
  <2>2. /\ m \in Models /\ p[2] \in SnapshotIds /\ p = <<m, p[2]>>
        /\ At(i) \in SnapshotIds \cup {Nothing} /\ At(j) \in SnapshotIds \cup {Nothing}
        /\ At(l) \in SnapshotIds \cup {Nothing}
    BY DEF Indexes
  <2>3. /\ At(i) # Nothing => At(j) # Nothing /\ At(i) <= At(j)
        /\ At(j) # Nothing => At(l) # Nothing /\ At(j) <= At(l)
    BY <2>2 DEF Below
  <2>4. CASE milestone
    BY <2>1, <2>3, <2>4 DEF PlanOf
  <2>5. CASE ~milestone
    <3>1. At(l) # Nothing => At(i) = At(l)
      <4> SUFFICES ASSUME At(l) # Nothing PROVE At(i) = At(l)
        OBVIOUS
      <4> DEFINE q == <<m, At(l)>>
      <4>1. q \in Models \X SnapshotIds /\ q[1] = m /\ q[2] = At(l)
        BY <2>2
      <4> HIDE DEF q
      <4>2. q \in Of(l)
        BY <2>5, <4>1, PlanIs DEF PlanOf
      <4>3. q \in Of(i)
        BY <4>2
      <4> QED
        BY <2>5, <4>1, <4>3, PlanIs DEF PlanOf
    <3>2. At(l) # Nothing => At(l) \in Nat
      BY <2>2, PollAssumption
    <3>3. At(j) # Nothing => At(i) = At(j)
      <4> SUFFICES ASSUME At(j) # Nothing PROVE At(i) = At(j)
        OBVIOUS
      <4>1. At(j) \in Nat /\ At(l) \in Nat /\ At(i) = At(l)
        BY <2>2, <2>3, <3>1, <3>2, PollAssumption
      <4>2. At(i) <= At(j) /\ At(j) <= At(l)
        BY <2>2, <2>3, <4>1, PollAssumption
      <4> QED
        BY <4>1, <4>2
    <3> QED
      BY <2>1, <2>3, <2>5, <3>3 DEF PlanOf
  <2> QED
    BY <2>4, <2>5
<1>2. Of(i) \in Plans /\ Of(j) \in Plans
  BY PlanIs
<1> HIDE DEF Of
<1>3. Of(j) = Of(i)
  BY <1>1, <1>2 DEF Plans
<1> QED
  BY <1>3 DEF Of

-----------------------------------------------------------------------------
(* What was said of a tag stays true while snapshots are filed *)

LEMMA VouchesOn ==
  ASSUME NEW f \in Filings, NEW g \in Filings, More(f, g), NEW tag, NEW kind \in Kinds, NEW read \in Plans,
         Vouches(f, tag, kind, read)
  PROVE  Vouches(g, tag, kind, read)
<1> SUFFICES ASSUME NEW later \in Indexes, Below(IndexOf(g), later),
                    Plan(later, tag.settings, kind, tag.scope.milestone) = tag.plans[kind]
             PROVE  read = tag.plans[kind] /\ \A p \in read : p[2] \in g[kind][p[1]]
  BY DEF Vouches
<1>1. Below(IndexOf(f), later)
  BY IndexIs, IndexMovesOn, BelowIsAnOrder
<1>2. read = tag.plans[kind] /\ \A p \in read : p[2] \in f[kind][p[1]]
  BY <1>1 DEF Vouches
<1>3. \A p \in read : p[1] \in Models
  BY DEF Plans
<1> QED
  BY <1>2, <1>3 DEF More

LEMMA BodyFitsOn ==
  ASSUME NEW f \in Filings, NEW g \in Filings, More(f, g), NEW tag, NEW body \in Bodies,
         BodyFits(f, tag, body)
  PROVE  BodyFits(g, tag, body)
<1>1. /\ body.doors \in Plans /\ Vouches(f, tag, "doors", body.doors)
      /\ body.policy = "geometry" => body.rooms \in Plans /\ Vouches(f, tag, "rooms", body.rooms)
  BY DEF BodyFits, Bodies
<1>2. Vouches(g, tag, "doors", body.doors)
  BY <1>1, VouchesOn DEF Kinds
<1>3. body.policy = "geometry" => Vouches(g, tag, "rooms", body.rooms)
  BY <1>1, VouchesOn DEF Kinds
<1> QED
  BY <1>1, <1>2, <1>3 DEF BodyFits

LEMMA TagStaysBelow ==
  ASSUME NEW i \in Indexes, NEW j \in Indexes, Below(i, j), NEW tag, NEW s, TagOfBelow(tag, i, s)
  PROVE  TagOfBelow(tag, j, s)
  BY BelowIsAnOrder DEF TagOfBelow

-----------------------------------------------------------------------------
(* Pushes, saves and switches *)

LEMMA FilingGoesOn ==
  ASSUME PollInv, filed' \in Filings, More(filed, filed'), UNCHANGED <<reading, layer, tagged, torn>>
  PROVE  ReadFits' /\ HeldFits'
<1> DEFINE i == IndexOf(filed)
           j == IndexOf(filed')
<1>1. filed \in Filings /\ i \in Indexes /\ j \in Indexes /\ Below(i, j)
  BY IndexIs, IndexMovesOn DEF PollInv, FiledFits
<1>2. IndexNow = i /\ IndexNow' = j
  BY DEF IndexNow, IndexOf
<1>3. HeldFits'
  <2>1. layer.tag # Nothing /\ ~torn => BodyFits(filed', layer.tag, tagged)
    BY <1>1, BodyFitsOn DEF PollInv, HeldFits
  <2> QED
    BY <2>1 DEF PollInv, HeldFits
<1>4. ReadFits'
  <2> SUFFICES ASSUME reading # Nothing PROVE ReadFits'
    BY DEF ReadFits
  <2> HIDE DEF i, j
  <2>1. reading.at = "tagging" \/ reading.at = "opening" => reading.index \in Indexes /\ Below(reading.index, j)
    BY <1>1, <1>2, BelowIsAnOrder DEF PollInv, ReadFits
  <2>2. reading.at \in {"assembling", "scoping"} =>
           reading.tag \in EntityTags /\ TagOfBelow(reading.tag, j, reading.scope)
    BY <1>1, <1>2, TagStaysBelow DEF PollInv, ReadFits
  <2>3. ASSUME reading.at = "joining" PROVE JoiningFits(reading)'
    <3>1. JoiningFits(reading)
      BY <2>3 DEF PollInv, ReadFits
    <3>2. TagOfBelow(reading.tag, j, reading.scope)
      BY <1>1, <1>2, <3>1, TagStaysBelow DEF JoiningFits
    <3>3. ~reading.torn => Vouches(filed', reading.tag, "doors", reading.doors)
      BY <1>1, <3>1, VouchesOn DEF JoiningFits, Kinds
    <3> QED
      BY <1>2, <3>1, <3>2, <3>3 DEF JoiningFits
  <2>4. ASSUME AnswerFits(reading) PROVE AnswerFits(reading)'
    <3>1. ~reading.torn => BodyFits(filed', reading.tag, reading.body)
      BY <1>1, <2>4, BodyFitsOn DEF AnswerFits
    <3> QED
      BY <2>4, <3>1 DEF AnswerFits
  <2> QED
    BY <1>2, <2>1, <2>2, <2>3, <2>4 DEF PollInv, ReadFits
<1> QED
  BY <1>3, <1>4

LEMMA PushKeeps ==
  ASSUME PollInv, NEW kind \in Kinds, NEW m \in Models, NEW stamp \in SnapshotIds, Push(kind, m, stamp)
  PROVE  PollInv'
<1>1. filed \in Filings /\ filed' = [filed EXCEPT ![kind][m] = @ \cup {stamp}]
  BY DEF PollInv, FiledFits, Push
<1>2. More(filed, filed')
  BY <1>1 DEF More, Filings
<1>3. HasNewest(filed[kind][m] \cup {stamp})
  <2>1. filed[kind][m] \in SUBSET Nat /\ stamp \in Nat /\ HasNewest(filed[kind][m])
    <3>1. filed[kind][m] \in SUBSET SnapshotIds /\ HasNewest(filed[kind][m])
      BY <1>1 DEF Filings
    <3> QED
      BY <3>1, PollAssumption
  <2>2. CASE filed[kind][m] = {}
    <3>1. \A s \in filed[kind][m] \cup {stamp} : s <= stamp
      BY <2>1, <2>2
    <3> QED
      BY <3>1 DEF HasNewest
  <2>3. CASE filed[kind][m] # {}
    <3>1. PICK n \in filed[kind][m] : \A s \in filed[kind][m] : s <= n
      BY <2>1, <2>3 DEF HasNewest
    <3> DEFINE top == IF stamp <= n THEN n ELSE stamp
    <3>2. top \in filed[kind][m] \cup {stamp} /\ \A s \in filed[kind][m] \cup {stamp} : s <= top
      BY <2>1, <3>1
    <3> HIDE DEF top
    <3> QED
      BY <3>2 DEF HasNewest
  <2> QED
    BY <2>2, <2>3
<1>4. filed' \in Filings
  <2>1. filed' \in [Kinds -> [Models -> SUBSET SnapshotIds]]
    BY <1>1 DEF Filings
  <2>2. ASSUME NEW k \in Kinds, NEW o \in Models PROVE HasNewest(filed'[k][o])
    <3>1. CASE k = kind /\ o = m
      <4>1. filed'[k][o] = filed[kind][m] \cup {stamp}
        BY <1>1, <3>1 DEF Filings
      <4> QED
        BY <1>3, <4>1
    <3>2. CASE ~(k = kind /\ o = m)
      <4>1. filed'[k][o] = filed[k][o]
        BY <1>1, <3>2 DEF Filings
      <4> QED
        BY <1>1, <4>1 DEF Filings
    <3> QED
      BY <3>1, <3>2
  <2> QED
    BY <2>1, <2>2 DEF Filings
<1>5. ReadFits' /\ HeldFits'
  BY <1>2, <1>4, FilingGoesOn DEF Push
<1> QED
  BY <1>4, <1>5 DEF PollInv, FiledFits, Push

\* A step that files nothing leaves what was said of tags as it is.
LEMMA ElseIsKept ==
  ASSUME PollInv, UNCHANGED <<filed, layer, tagged, torn>>, reading' \in {reading, Nothing},
         settings' \in SettingsFiles, scope' \in Scopes
  PROVE  PollInv'
<1>1. FiledFits' /\ HeldFits'
  BY DEF PollInv, FiledFits, HeldFits
<1>2. CASE reading' = Nothing
  BY <1>1, <1>2 DEF PollInv, ReadFits
<1>3. CASE reading' = reading
  <2>1. IndexNow' = IndexNow
    BY DEF IndexNow
  <2>2. JoiningFits(reading)' <=> JoiningFits(reading)
    BY <1>3, <2>1 DEF JoiningFits
  <2>3. AnswerFits(reading)' <=> AnswerFits(reading)
    BY <1>3 DEF AnswerFits
  <2> QED
    BY <1>1, <1>3, <2>1, <2>2, <2>3 DEF PollInv, ReadFits
<1> QED
  BY <1>2, <1>3

-----------------------------------------------------------------------------
(* The steps of a read *)

\* A step of the read keeps what is filed and what the layer holds.
LEMMA OneReads ==
  ASSUME PollInv, OnlyReading, reading' # Nothing => ReadFits'
  PROVE  PollInv'
<1>1. FiledFits' /\ HeldFits'
  BY DEF PollInv, OnlyReading, FiledFits, HeldFits
<1>2. ReadFits'
  BY DEF ReadFits
<1> QED
  BY <1>1, <1>2 DEF PollInv

LEMMA IndexFits ==
  ASSUME FiledFits
  PROVE  IndexNow = IndexOf(filed) /\ IndexNow \in Indexes /\ Below(IndexNow, IndexNow)
<1>1. IndexNow = IndexOf(filed)
  BY DEF IndexNow, IndexOf
<1> QED
  BY <1>1, IndexIs, BelowIsAnOrder DEF FiledFits

LEMMA TagIsTyped ==
  ASSUME NEW index \in Indexes, NEW file \in SettingsFiles, NEW s \in Scopes
  PROVE  TagOf(index, file, s) \in EntityTags
<1>1. \A k \in Kinds : Plan(index, file, k, s.milestone) \in Plans
  BY PlanIs, PollAssumption
<1> QED
  BY <1>1 DEF TagOf, EntityTags

LEMMA AskKeeps == ASSUME PollInv, Poll PROVE PollInv'
<1>1. reading' = [at |-> "asked", scope |-> scope, sent |-> IF layer.accepted = scope THEN layer.tag ELSE Nothing]
  BY DEF Poll
<1>2. ReadFits'
  BY <1>1 DEF ReadFits, PollInv, FiledFits
<1> QED
  BY <1>2, OneReads DEF Poll, OnlyReading

LEMMA IndexForTagKeeps == ASSUME PollInv, IndexForTag PROVE PollInv'
<1>1. /\ reading' = [at |-> "tagging", scope |-> reading.scope, sent |-> reading.sent, index |-> IndexNow]
      /\ reading.scope \in Scopes /\ OnlyReading
  BY DEF IndexForTag, ReadIs, PollInv, ReadFits
<1>2. IndexNow \in Indexes /\ Below(IndexNow, IndexNow) /\ IndexNow' = IndexNow
  BY <1>1, IndexFits DEF PollInv, OnlyReading, IndexNow
<1>3. ReadFits'
  BY <1>1, <1>2 DEF ReadFits
<1> QED
  BY <1>1, <1>3, OneReads

LEMMA SettingsForTagKeeps == ASSUME PollInv, SettingsForTag PROVE PollInv'
<1> DEFINE tag == TagOf(reading.index, settings, reading.scope)
<1>1. /\ reading' = IF tag = reading.sent THEN [at |-> "answered", scope |-> reading.scope, status |-> 304]
                    ELSE [at |-> "assembling", scope |-> reading.scope, tag |-> tag]
      /\ reading.scope \in Scopes /\ OnlyReading /\ settings \in SettingsFiles
      /\ reading.index \in Indexes /\ Below(reading.index, IndexNow)
  BY DEF SettingsForTag, ReadIs, PollInv, ReadFits, FiledFits
<1>2. tag \in EntityTags
  BY <1>1, TagIsTyped
<1>3. TagOfBelow(tag, IndexNow, reading.scope)
  BY <1>1 DEF TagOfBelow, TagOf
<1>4. IndexNow' = IndexNow
  BY <1>1 DEF OnlyReading, IndexNow
<1> HIDE DEF tag
<1>5. ReadFits'
  <2>1. CASE tag = reading.sent
    BY <1>1, <2>1 DEF ReadFits
  <2>2. CASE tag # reading.sent
    BY <1>1, <1>2, <1>3, <1>4, <2>2 DEF ReadFits, TagOfBelow
  <2> QED
    BY <2>1, <2>2
<1> QED
  BY <1>1, <1>5, OneReads

LEMMA AssembleKeeps == ASSUME PollInv, Assemble PROVE PollInv'
<1>1. /\ \/ reading' = [at |-> "answered", scope |-> reading.scope, status |-> 204]
         \/ reading' = [at |-> "scoping", scope |-> reading.scope, tag |-> reading.tag, file |-> settings]
      /\ reading.scope \in Scopes /\ OnlyReading /\ settings \in SettingsFiles
      /\ reading.tag \in EntityTags /\ TagOfBelow(reading.tag, IndexNow, reading.scope)
  BY DEF Assemble, ReadIs, PollInv, ReadFits, FiledFits
<1>2. IndexNow' = IndexNow
  BY <1>1 DEF OnlyReading, IndexNow
<1>3. ReadFits'
  BY <1>1, <1>2 DEF ReadFits, TagOfBelow
<1> QED
  BY <1>1, <1>3, OneReads

LEMMA IndexForDoorsKeeps == ASSUME PollInv, IndexForDoors PROVE PollInv'
<1>1. /\ reading' = [at |-> "opening", scope |-> reading.scope, tag |-> reading.tag, file |-> reading.file,
                     index |-> IndexNow]
      /\ reading.scope \in Scopes /\ OnlyReading /\ reading.file \in SettingsFiles
      /\ reading.tag \in EntityTags /\ TagOfBelow(reading.tag, IndexNow, reading.scope)
  BY DEF IndexForDoors, ReadIs, PollInv, ReadFits
<1>2. IndexNow \in Indexes /\ Below(IndexNow, IndexNow) /\ IndexNow' = IndexNow
  BY <1>1, IndexFits DEF PollInv, OnlyReading, IndexNow
<1>3. ReadFits'
  BY <1>1, <1>2 DEF ReadFits, TagOfBelow
<1> QED
  BY <1>1, <1>3, OneReads

\* A plan made after the tag, while the plan to come is still the tag's, is the tag's.
LEMMA LaterPlanIsTagged ==
  ASSUME NEW f \in Filings, NEW tag \in EntityTags, NEW index \in Indexes, NEW kind \in Kinds,
         Below(index, IndexOf(f)), TagOfBelow(tag, index, tag.scope), tag.scope \in Scopes,
         NEW read, read = Plan(index, tag.settings, kind, tag.scope.milestone),
         \A p \in read : p[2] \in f[kind][p[1]]
  PROVE  Vouches(f, tag, kind, read)
<1> SUFFICES ASSUME NEW later \in Indexes, Below(IndexOf(f), later),
                    Plan(later, tag.settings, kind, tag.scope.milestone) = tag.plans[kind]
             PROVE  read = tag.plans[kind]
  BY DEF Vouches
<1>1. PICK i \in Indexes : Below(i, index) /\ tag = TagOf(i, tag.settings, tag.scope)
  BY DEF TagOfBelow
<1>2. tag.plans[kind] = Plan(i, tag.settings, kind, tag.scope.milestone)
  BY <1>1 DEF TagOf
<1>3. Below(index, later)
  BY IndexIs, BelowIsAnOrder
<1>4. tag.settings \in SettingsFiles /\ tag.scope.milestone \in BOOLEAN
  BY PollAssumption DEF EntityTags
<1> QED
  BY <1>1, <1>2, <1>3, <1>4, PlanBetween

LEMMA OpenDoorsKeeps == ASSUME PollInv, OpenDoors PROVE PollInv'
<1> DEFINE plan == Plan(reading.index, settings, "doors", reading.scope.milestone)
           doors == Opened(plan, "doors")
           tag == reading.tag
<1>1. /\ reading' = [at |-> "joining", scope |-> reading.scope, tag |-> tag, file |-> reading.file,
                     doors |-> doors, torn |-> {reading.file, settings} # {tag.settings} \/ doors # plan]
      /\ reading.scope \in Scopes /\ OnlyReading /\ reading.file \in SettingsFiles
      /\ settings \in SettingsFiles /\ filed \in Filings
      /\ reading.index \in Indexes /\ Below(reading.index, IndexNow)
      /\ tag \in EntityTags /\ TagOfBelow(tag, reading.index, reading.scope)
  BY DEF OpenDoors, ReadIs, PollInv, ReadFits, FiledFits
<1>2. IndexNow = IndexOf(filed) /\ IndexNow \in Indexes /\ IndexNow' = IndexNow /\ filed' = filed
  BY <1>1, IndexFits DEF PollInv, OnlyReading, IndexNow
<1>3. TagOfBelow(tag, IndexNow, reading.scope) /\ tag.scope = reading.scope
  BY <1>1, <1>2, TagStaysBelow DEF TagOfBelow, TagOf
<1>4. plan \in Plans /\ doors \in Plans
  <2>1. plan \in Plans
    BY <1>1, PlanIs, PollAssumption DEF Kinds
  <2> QED
    BY <2>1 DEF Opened, Plans
<1>5. ASSUME doors = plan, settings = tag.settings PROVE Vouches(filed, tag, "doors", doors)
  <2>1. \A p \in doors : p[2] \in filed["doors"][p[1]]
    BY DEF Opened
  <2>2. doors = Plan(reading.index, tag.settings, "doors", tag.scope.milestone)
    BY <1>3, <1>5
  <2>3. "doors" \in Kinds
    BY DEF Kinds
  <2> HIDE DEF doors, plan, tag
  <2> QED
    BY <1>1, <1>2, <1>3, <2>1, <2>2, <2>3, LaterPlanIsTagged
<1> HIDE DEF doors, plan, tag
<1>6. JoiningFits(reading)'
  <2>1. /\ reading'.doors = doors /\ reading'.file = reading.file /\ reading'.tag = tag
        /\ reading'.scope = reading.scope
        /\ reading'.torn = ({reading.file, settings} # {tag.settings} \/ doors # plan)
    BY <1>1
  <2>2. ~reading'.torn => reading.file = tag.settings /\ Vouches(filed, tag, "doors", doors)
    BY <1>5, <2>1
  <2> QED
    BY <1>1, <1>2, <1>3, <1>4, <2>1, <2>2 DEF JoiningFits
<1>7. ReadFits'
  BY <1>1, <1>6 DEF ReadFits
<1> QED
  BY <1>1, <1>7, OneReads

LEMMA OpenRoomsKeeps == ASSUME PollInv, OpenRooms PROVE PollInv'
<1> DEFINE plan == Plan(IndexNow, reading.file, "rooms", reading.scope.milestone)
           rooms == Opened(plan, "rooms")
           wanted == reading.file.policy = "geometry"
           body == BodyOf(reading.doors, IF wanted THEN rooms ELSE Nothing, reading.file.policy, reading.scope)
           tag == reading.tag
<1>1. /\ reading' = [at |-> "answered", scope |-> reading.scope, status |-> 200, tag |-> tag,
                     revision |-> reading.doors, body |-> body,
                     torn |-> reading.torn \/ (wanted /\ rooms # plan)]
      /\ reading.scope \in Scopes /\ OnlyReading /\ filed \in Filings /\ JoiningFits(reading)
  BY DEF OpenRooms, ReadIs, PollInv, ReadFits, FiledFits
<1>2. /\ IndexNow = IndexOf(filed) /\ IndexNow \in Indexes /\ Below(IndexNow, IndexNow) /\ filed' = filed
  BY <1>1, IndexFits DEF PollInv, OnlyReading
<1>3. /\ reading.doors \in Plans /\ reading.file \in SettingsFiles /\ tag \in EntityTags
      /\ tag.scope = reading.scope /\ TagOfBelow(tag, IndexNow, reading.scope)
      /\ ~reading.torn => reading.file = tag.settings /\ Vouches(filed, tag, "doors", reading.doors)
  BY <1>1 DEF JoiningFits, TagOfBelow, TagOf
<1>4. rooms \in Plans
  <2>1. plan \in Plans
    BY <1>1, <1>2, <1>3, PlanIs, PollAssumption DEF Kinds
  <2> QED
    BY <2>1 DEF Opened, Plans
<1>5. body \in Bodies
  BY <1>1, <1>3, <1>4, PollAssumption DEF BodyOf, Bodies
<1>6. ASSUME rooms = plan, reading.file = tag.settings PROVE Vouches(filed, tag, "rooms", rooms)
  <2>1. \A p \in rooms : p[2] \in filed["rooms"][p[1]]
    BY DEF Opened
  <2>2. rooms = Plan(IndexNow, tag.settings, "rooms", tag.scope.milestone)
    BY <1>3, <1>6
  <2>3. "rooms" \in Kinds
    BY DEF Kinds
  <2> HIDE DEF rooms, plan, tag
  <2> QED
    BY <1>1, <1>2, <1>3, <2>1, <2>2, <2>3, LaterPlanIsTagged
<1> HIDE DEF rooms, plan, tag
<1>7. ~reading.torn /\ ~(wanted /\ rooms # plan) => BodyFits(filed, tag, body)
  BY <1>3, <1>4, <1>6 DEF BodyFits, BodyOf
<1>8. body.scope = reading.scope
  BY DEF BodyOf
<1> HIDE DEF body, wanted
<1>9. AnswerFits(reading)'
  <2>1. /\ reading'.tag = tag /\ reading'.body = body /\ reading'.revision = reading.doors
        /\ reading'.scope = reading.scope /\ reading'.torn = (reading.torn \/ (wanted /\ rooms # plan))
    BY <1>1
  <2>2. ~reading'.torn => BodyFits(filed, tag, body)
    BY <1>7, <2>1
  <2> QED
    BY <1>2, <1>3, <1>5, <1>8, <2>1, <2>2 DEF AnswerFits
<1>10. ReadFits'
  BY <1>1, <1>9 DEF ReadFits
<1> QED
  BY <1>1, <1>10, OneReads

LEMMA ReceiveKeeps == ASSUME PollInv, Receive PROVE PollInv'
<1>1. /\ reading' = [reading EXCEPT !.at = "parsing"] /\ "at" \in DOMAIN reading
      /\ reading.scope \in Scopes /\ AnswerFits(reading) /\ OnlyReading
  BY DEF Receive, ReadIs, PollInv, ReadFits
<1>2. /\ reading'.at = "parsing" /\ reading'.scope = reading.scope /\ reading'.tag = reading.tag
      /\ reading'.body = reading.body /\ reading'.revision = reading.revision /\ reading'.torn = reading.torn
      /\ "at" \in DOMAIN reading'
  BY <1>1
<1>3. AnswerFits(reading)'
  BY <1>1, <1>2 DEF AnswerFits, OnlyReading
<1>4. ReadFits'
  BY <1>1, <1>2, <1>3 DEF ReadFits
<1> QED
  BY <1>1, <1>4, OneReads

LEMMA TakeBodyKeeps == ASSUME PollInv, TakeBody PROVE PollInv'
<1>1. /\ AnswerFits(reading) /\ reading.scope \in Scopes
      /\ reading' = Nothing /\ tagged' = reading.body /\ torn' = reading.torn
      /\ UNCHANGED <<filed, settings, scope>>
      /\ IF reading.scope = layer.accepted /\ layer.revision = reading.revision
         THEN layer' = [layer EXCEPT !.tag = reading.tag]
         ELSE layer' = [payload |-> reading.body, accepted |-> reading.scope, tag |-> reading.tag,
                        revision |-> reading.revision]
  BY DEF TakeBody, ReadIs, PollInv, ReadFits
<1>2. /\ reading.tag \in EntityTags /\ reading.body \in Bodies /\ reading.revision \in Plans
      /\ reading.tag # Nothing /\ reading.body # Nothing /\ reading.revision # Nothing
      /\ reading.tag.scope = reading.scope /\ reading.body.scope = reading.scope
      /\ ~reading.torn => BodyFits(filed, reading.tag, reading.body)
  BY <1>1, PollAssumption DEF AnswerFits
<1>3. FiledFits' /\ ReadFits'
  BY <1>1 DEF PollInv, FiledFits, ReadFits
<1>4. CASE reading.scope = layer.accepted /\ layer.revision = reading.revision
  <2>1. layer \in Layers /\ layer.revision # Nothing /\ layer.payload # Nothing /\ layer.tag # Nothing
        /\ layer.payload.scope = layer.accepted
    BY <1>2, <1>4 DEF PollInv, HeldFits
  <2>2. /\ layer' \in Layers /\ layer'.tag = reading.tag /\ layer'.payload = layer.payload
        /\ layer'.revision = layer.revision /\ layer'.accepted = layer.accepted
    BY <1>1, <1>2, <1>4, <2>1 DEF Layers
  <2>3. HeldFits'
    BY <1>1, <1>2, <1>4, <2>1, <2>2 DEF HeldFits
  <2> QED
    BY <1>3, <2>3 DEF PollInv
<1>5. CASE ~(reading.scope = layer.accepted /\ layer.revision = reading.revision)
  <2>1. /\ layer' \in Layers /\ layer'.tag = reading.tag /\ layer'.payload = reading.body
        /\ layer'.revision = reading.revision /\ layer'.accepted = reading.scope
    BY <1>1, <1>2, <1>5 DEF Layers
  <2>2. HeldFits'
    BY <1>1, <1>2, <2>1 DEF HeldFits
  <2> QED
    BY <1>3, <2>2 DEF PollInv
<1> QED
  BY <1>4, <1>5

LEMMA ClearLayerKeeps == ASSUME PollInv, ClearLayer PROVE PollInv'
<1>1. /\ layer' = [payload |-> Nothing, accepted |-> scope, tag |-> Nothing,
                   revision |-> IF layer.payload = Nothing THEN layer.revision ELSE Nothing]
      /\ reading' = Nothing /\ tagged' = Nothing /\ torn' = FALSE /\ UNCHANGED <<filed, settings, scope>>
  BY DEF ClearLayer
<1>2. layer.payload = Nothing => layer.revision = Nothing
  BY DEF PollInv, HeldFits
<1>3. HeldFits'
  BY <1>1, <1>2 DEF HeldFits, Layers, PollInv, FiledFits
<1>4. FiledFits' /\ ReadFits'
  BY <1>1 DEF PollInv, FiledFits, ReadFits
<1> QED
  BY <1>3, <1>4 DEF PollInv

-----------------------------------------------------------------------------

LEMMA PollSteps == PollInv /\ [PollNext]_pollVars => PollInv'
<1> SUFFICES ASSUME PollInv, [PollNext]_pollVars PROVE PollInv'
  OBVIOUS
<1>1. CASE UNCHANGED pollVars
  BY <1>1, ElseIsKept DEF pollVars, PollInv, FiledFits
<1>2. ASSUME NEW kind \in Kinds, NEW m \in Models, NEW stamp \in SnapshotIds, Push(kind, m, stamp)
      PROVE  PollInv'
  BY <1>2, PushKeeps
<1>3. ASSUME NEW file \in SettingsFiles, SaveSettings(file) PROVE PollInv'
  BY <1>3, ElseIsKept DEF SaveSettings, PollInv, FiledFits
<1>4. ASSUME NEW s \in Scopes, ShowScope(s) PROVE PollInv'
  BY <1>4, ElseIsKept DEF ShowScope, PollInv, FiledFits
<1>5. CASE KeepLayer
  BY <1>5, ElseIsKept DEF KeepLayer, PollInv, FiledFits
<1>6. CASE DropAnswer
  BY <1>6, ElseIsKept DEF DropAnswer, PollInv, FiledFits
<1>7. CASE Poll \/ IndexForTag \/ SettingsForTag \/ Assemble \/ IndexForDoors \/ OpenDoors \/ OpenRooms
  BY <1>7, AskKeeps, IndexForTagKeeps, SettingsForTagKeeps, AssembleKeeps, IndexForDoorsKeeps,
     OpenDoorsKeeps, OpenRoomsKeeps
<1>8. CASE Receive \/ TakeBody \/ ClearLayer
  BY <1>8, ReceiveKeeps, TakeBodyKeeps, ClearLayerKeeps
<1> QED
  BY <1>1, <1>2, <1>3, <1>4, <1>5, <1>6, <1>7, <1>8 DEF PollNext

LEMMA PollHolds == PollSpec => []PollInv
  BY PollStarts, PollSteps, PTL DEF PollSpec

\* Between the tag and the body it is sent with, any number of pushes and saves may come: while the
\* server would still answer 304 to the tag, the body that came with it is the one it would send.
THEOREM MatchingTagsMeanBodies == PollSpec => []MatchingTagMeansBody
<1>1. ASSUME PollInv PROVE MatchingTagMeansBody
  <2> SUFFICES ASSUME layer.tag # Nothing, ~torn, layer.tag = TagNow(layer.tag.scope)
               PROVE  tagged = BodyNow(layer.tag.scope)
    BY DEF MatchingTagMeansBody
  <2> DEFINE tag == layer.tag
             s == tag.scope
             Now(kind) == Plan(IndexNow, settings, kind, s.milestone)
  <2>1. /\ tag \in EntityTags /\ tagged \in Bodies /\ BodyFits(filed, tag, tagged) /\ filed \in Filings
        /\ FiledFits
    BY <1>1 DEF PollInv, FiledFits, HeldFits, Layers
  <2>2. /\ tag.settings = settings /\ tag.plans["doors"] = Now("doors") /\ tag.plans["rooms"] = Now("rooms")
    BY DEF TagNow, TagOf, Kinds
  <2>3. IndexNow \in Indexes /\ Below(IndexOf(filed), IndexNow)
    BY <2>1, IndexFits
  <2> HIDE DEF tag
  <2>4. tagged.doors = Now("doors") /\ \A p \in tagged.doors : p[2] \in filed["doors"][p[1]]
    BY <2>1, <2>2, <2>3 DEF BodyFits, Vouches
  <2>5. tagged.policy = "geometry" =>
           tagged.rooms = Now("rooms") /\ \A p \in tagged.rooms : p[2] \in filed["rooms"][p[1]]
    BY <2>1, <2>2, <2>3 DEF BodyFits, Vouches
  <2>6. tagged.policy # "geometry" => tagged.rooms = Nothing
    BY <2>1 DEF BodyFits
  <2>7. tagged.policy = settings.policy /\ tagged.scope = s
    BY <2>1, <2>2 DEF BodyFits
  <2>8. Opened(Now("doors"), "doors") = Now("doors")
    BY <2>4 DEF Opened
  <2>9. tagged.policy = "geometry" => Opened(Now("rooms"), "rooms") = Now("rooms")
    BY <2>5 DEF Opened
  <2>10. tagged = [doors |-> tagged.doors, rooms |-> tagged.rooms, policy |-> tagged.policy, scope |-> tagged.scope]
    BY <2>1 DEF Bodies
  <2>11. BodyNow(s) = [doors |-> Now("doors"), rooms |-> IF settings.policy = "geometry" THEN Now("rooms") ELSE Nothing,
                       policy |-> settings.policy, scope |-> s]
    BY <2>7, <2>8, <2>9 DEF BodyNow, BodyOf
  <2>12. tagged = BodyNow(s)
    BY <2>4, <2>5, <2>6, <2>7, <2>10, <2>11
  <2> QED
    BY <2>12 DEF tag
<1> QED
  BY <1>1, PollHolds, PTL

\* Whatever scope is picked while an answer is on its way, what a layer draws and the tag it sends
\* are of the scope it is said to show.
THEOREM CursorsAlwaysAgree == PollSpec => []CursorsAgree
<1>1. PollInv => CursorsAgree
  BY DEF PollInv, HeldFits, CursorsAgree
<1> QED
  BY <1>1, PollHolds, PTL

\* A layer has a payload exactly while it has a tag.
THEOREM LayerTypesHold == PollSpec => []LayerTypeOK
<1>1. PollInv => LayerTypeOK
  BY DEF PollInv, FiledFits, Filings, HeldFits, Layers, LayerTypeOK
<1> QED
  BY <1>1, PollHolds, PTL
=============================================================================
