--------------------------- MODULE Lineages_proofs ---------------------------
(***************************************************************************)
(* What requests that overlap may leave on the disk, for any number of     *)
(* models, handlers and payloads; and what more is true of requests that   *)
(* come one at a time.                                                     *)
(***************************************************************************)
EXTENDS Lineages, FiniteSetTheorems, TLAPS

Storing   == {"storing", "indexing", "renaming"}
Promoting == {"promoting", "promoted", "indexingPromoted", "filing", "filed", "rephasing", "clearing"}
HoldsCopy == {"indexing", "indexingPromoted", "rephasing"}
HoldsBytes == {"promoted", "indexingPromoted", "filing"}

\* A payload that is not refused.
Clean(p) == p.phase # NoPhase /\ (p.kind = "rooms" => p.empty = {})

Named(p) == {p.models[i] : i \in DOMAIN p.models}
Ahead(h) == {queue[h][i] : i \in DOMAIN queue[h]}
FiledFor(p, m) == p.taken_at \in DOMAIN files[<<m, p.kind>>]
FiledAfter(p, m) == p.taken_at \in DOMAIN files'[<<m, p.kind>>]

----------------------------------------------------------------------------
(* The inductive invariant *)

\* Payloads are told apart by taken_at, and there are no more of them than the bound.
SentFits ==
  /\ sent \subseteq Payload /\ IsFiniteSet(sent) /\ Cardinality(sent) <= MaxPayloads
  /\ \A p \in sent : p.taken_at <= Cardinality(sent)
  /\ \A p, q \in sent : p.taken_at = q.taken_at => p = q

\* On the disk there are payloads that were sent and not refused, each under its kind.
DiskFits ==
  /\ manifest \in [Models -> Entry]
  /\ files = [s \in Slots |-> files[s]] /\ pending = [s \in Slots |-> pending[s]]
  /\ \A s \in Slots :
       /\ DOMAIN files[s] \subseteq 1..Cardinality(sent)
       /\ \A t \in DOMAIN files[s] :
            files[s][t] \in sent /\ Clean(files[s][t]) /\ files[s][t].kind = s[2]
       /\ pending[s] # None => pending[s] \in sent /\ Clean(pending[s]) /\ pending[s].kind = s[2]

\* What a request holds, by where it is.
RequestFits(h) ==
  /\ step[h] \in Labels
  /\ step[h] = "idle" => payload[h] = None
  /\ step[h] # "idle" => payload[h] \in sent /\ queue[h] \in Seq(Models) /\ queue[h] # <<>>
  /\ step[h] = "reading" => payload[h].phase # NoPhase /\ queue[h] = payload[h].models
  /\ step[h] \in Storing \cup Promoting => Clean(payload[h])
  /\ step[h] \in Promoting => payload[h].kind \in Promotable
  /\ step[h] \in HoldsBytes => bytes[h] \in sent /\ Clean(bytes[h]) /\ bytes[h].kind = payload[h].kind
  /\ step[h] \in HoldsCopy => copy[h] \in [Models -> Entry]
  /\ step[h] \notin HoldsCopy => copy[h] = None

\* How far an opening's push has come: decided for all its models before any is stored.
OpeningFits(h) ==
  step[h] # "idle" /\ payload[h].kind \notin Quarantining =>
    /\ step[h] \in {"deciding", "reading"} \cup Storing => Ahead(h) \subseteq Named(payload[h])
    /\ step[h] = "deciding" => Named(payload[h]) \subseteq live[h] \cup Ahead(h)
    /\ step[h] \in {"reading"} \cup Storing => Named(payload[h]) \subseteq live[h]
    /\ step[h] \in Storing => \A m \in Named(payload[h]) \ Ahead(h) : FiledFor(payload[h], m)

RequestsFit ==
  /\ step = [h \in Handlers |-> step[h]] /\ payload = [h \in Handlers |-> payload[h]]
  /\ queue = [h \in Handlers |-> queue[h]] /\ live = [h \in Handlers |-> live[h]]
  /\ copy = [h \in Handlers |-> copy[h]] /\ bytes = [h \in Handlers |-> bytes[h]]
  /\ \A h \in Handlers : RequestFits(h) /\ OpeningFits(h)

\* A payload of an opening is filed for all its models, for none, or is being stored.
Whole(p) ==
  \/ \A m \in Named(p) : FiledFor(p, m)
  \/ \A m \in Named(p) : ~FiledFor(p, m)
  \/ \E h \in Handlers : payload[h] = p /\ step[h] \in Storing

WholeUnlessStopped == stops = 0 => \A p \in sent : p.kind \notin Quarantining => Whole(p)

IInv == SentFits /\ DiskFits /\ RequestsFit /\ WholeUnlessStopped /\ stops \in 0..MaxStops

----------------------------------------------------------------------------
(* Payloads and queues *)

\* The models of a payload are a list with something in it.
LEMMA ListedModels ==
  ASSUME NEW o \in Orders
  PROVE  o \in Seq(Models) /\ o # <<>>
<1>1. Cardinality(Models) \in Nat
  BY ModelsAreListed, FS_CardinalityType
<1>2. PICK n \in 1..Cardinality(Models) : o \in [1..n -> Models]
  BY DEF Orders
<1>3. n \in Nat /\ n # 0
  BY <1>1
<1>4. o \in Seq(Models) /\ Len(o) = n
  BY <1>2, <1>3
<1> QED
  BY <1>3, <1>4

\* What there is in a payload.
LEMMA PayloadFields ==
  ASSUME NEW p \in Payload
  PROVE  /\ p.taken_at \in 1..MaxPayloads /\ p.kind \in Kinds /\ p.phase \in Phases \cup {NoPhase}
         /\ p.models \in Seq(Models) /\ p.models # <<>>
         /\ p # None
<1>1. p.taken_at \in 1..MaxPayloads /\ p.kind \in Kinds /\ p.phase \in Phases \cup {NoPhase} /\ p.models \in Orders
  BY DEF Payload
<1> QED
  BY <1>1, ListedModels, SentinelsAreNew

\* Going on by one model leaves the others ahead.
LEMMA OneLess ==
  ASSUME NEW S, NEW q \in Seq(S), q # <<>>
  PROVE  /\ Head(q) \in S /\ Head(q) \in {q[i] : i \in DOMAIN q}
         /\ Len(q) = 1 => {q[i] : i \in DOMAIN q} = {Head(q)}
<1>1. Len(q) \in Nat \ {0} /\ DOMAIN q = 1..Len(q) /\ Head(q) = q[1] /\ q[1] \in S
  OBVIOUS
<1>2. Len(q) = 1 => {q[i] : i \in DOMAIN q} = {Head(q)}
  BY <1>1
<1>3. 1 \in DOMAIN q
  BY <1>1
<1> QED
  BY <1>1, <1>2, <1>3

LEMMA TheOthers ==
  ASSUME NEW S, NEW q \in Seq(S), q # <<>>, Len(q) # 1
  PROVE  /\ Tail(q) \in Seq(S) /\ Tail(q) # <<>>
         /\ {q[i] : i \in DOMAIN q} \subseteq {Head(q)} \cup {Tail(q)[i] : i \in DOMAIN Tail(q)}
         /\ {Tail(q)[i] : i \in DOMAIN Tail(q)} \subseteq {q[i] : i \in DOMAIN q}
<1>1. Len(q) \in Nat \ {0, 1} /\ DOMAIN q = 1..Len(q) /\ Head(q) = q[1]
  OBVIOUS
<1>2. Tail(q) \in Seq(S) /\ Len(Tail(q)) = Len(q) - 1 /\ DOMAIN Tail(q) = 1..(Len(q) - 1)
  BY <1>1
<1>3. \A i \in 1..(Len(q) - 1) : Tail(q)[i] = q[i + 1]
  BY <1>1
<1>4. Tail(q) # <<>>
  <2>1. Len(Tail(q)) # 0
    BY <1>1, <1>2
  <2>2. Len(<<>>) = 0
    OBVIOUS
  <2> QED
    BY <2>1, <2>2, Zenon
<1>5. ASSUME NEW i \in 1..Len(q), i # 1 PROVE \E j \in DOMAIN Tail(q) : Tail(q)[j] = q[i]
  <2>1. i - 1 \in 1..(Len(q) - 1) /\ (i - 1) + 1 = i
    BY <1>1, <1>5
  <2> QED
    BY <1>2, <1>3, <2>1
<1>6. ASSUME NEW j \in DOMAIN Tail(q) PROVE \E i \in DOMAIN q : Tail(q)[j] = q[i]
  <2>1. j + 1 \in DOMAIN q
    BY <1>1, <1>2
  <2> QED
    BY <1>2, <1>3, <2>1
<1>7. {q[i] : i \in DOMAIN q} \subseteq {Head(q)} \cup {Tail(q)[i] : i \in DOMAIN Tail(q)}
  BY <1>1, <1>5
<1>8. {Tail(q)[i] : i \in DOMAIN Tail(q)} \subseteq {q[i] : i \in DOMAIN q}
  BY <1>6
<1> QED
  BY <1>2, <1>4, <1>7, <1>8

\* A payload sent now is the newest; one sent again is known.
LEMMA SendingKeeps ==
  ASSUME SentFits, NEW p \in sent \cup NewPayloads, sent' = sent \cup {p}
  PROVE  /\ SentFits' /\ Cardinality(sent) <= Cardinality(sent') /\ Cardinality(sent) \in Nat
         /\ Cardinality(sent') \in Nat
         /\ p \notin sent => p.taken_at = Cardinality(sent) + 1
<1>1. Cardinality(sent) \in Nat /\ MaxPayloads \in Nat
  BY FS_CardinalityType, LineageBounds DEF SentFits
<1>2. CASE p \in sent
  <2>1. sent' = sent
    BY <1>2
  <2>2. SentFits' /\ Cardinality(sent') = Cardinality(sent)
    BY <2>1 DEF SentFits
  <2> QED
    BY <1>1, <1>2, <2>2
<1>3. CASE p \notin sent
  <2>1. Cardinality(sent) # MaxPayloads
    BY <1>3 DEF NewPayloads
  <2>2. PICK o \in Offers : p = Taken(o, Cardinality(sent) + 1)
    BY <1>3, <2>1 DEF NewPayloads
  <2>3. o \in Offer /\ Cardinality(sent) + 1 \in 1..MaxPayloads
    BY <1>1, <2>1, OffersKnown DEF SentFits
  <2>4. p \in Payload /\ p.taken_at = Cardinality(sent) + 1
    BY <2>2, <2>3 DEF Payload, Offer, Taken
  <2>5. IsFiniteSet(sent') /\ Cardinality(sent') = Cardinality(sent) + 1
    BY <1>3, FS_AddElement DEF SentFits
  <2>6. \A q \in sent : q.taken_at \in Nat /\ q.taken_at <= Cardinality(sent)
    BY PayloadFields DEF SentFits
  <2>7. \A q \in sent' : q.taken_at <= Cardinality(sent')
    BY <1>1, <2>4, <2>5, <2>6
  <2>8. \A q, r \in sent' : q.taken_at = r.taken_at => q = r
    BY <1>1, <2>4, <2>6 DEF SentFits
  <2>9. Cardinality(sent') <= MaxPayloads
    BY <1>1, <2>3, <2>5
  <2>10. sent' \subseteq Payload
    BY <2>4 DEF SentFits
  <2>11. SentFits'
    BY <2>5, <2>7, <2>8, <2>9, <2>10 DEF SentFits
  <2> QED
    BY <1>1, <2>4, <2>5, <2>11
<1> QED
  BY <1>2, <1>3

----------------------------------------------------------------------------
(* What a step of one request leaves of the invariant *)

Shaped(f) == f = [g \in Handlers |-> f[g]]

\* Only the request of h moves.
Moves(h) ==
  /\ Shaped(step)' /\ Shaped(payload)' /\ Shaped(queue)' /\ Shaped(live)' /\ Shaped(copy)' /\ Shaped(bytes)'
  /\ \A g \in Handlers \ {h} :
       /\ step'[g] = step[g] /\ payload'[g] = payload[g] /\ queue'[g] = queue[g]
       /\ live'[g] = live[g] /\ copy'[g] = copy[g] /\ bytes'[g] = bytes[g]

\* Payloads are not forgotten, and files are not removed.
Grows ==
  /\ sent \subseteq sent' /\ Cardinality(sent) <= Cardinality(sent')
  /\ Cardinality(sent) \in Nat /\ Cardinality(sent') \in Nat
  /\ \A s \in Slots : DOMAIN files[s] \subseteq DOMAIN files'[s]

\* A request of an opening goes on storing, or has stored it for all its models.
LeavesWhole(h) ==
  step[h] \in Storing /\ payload[h].kind \notin Quarantining =>
    \/ step'[h] \in Storing /\ payload'[h] = payload[h]
    \/ \A m \in Named(payload[h]) : FiledAfter(payload[h], m)

LEMMA NothingSentGrows ==
  ASSUME SentFits, UNCHANGED sent, \A s \in Slots : DOMAIN files[s] \subseteq DOMAIN files'[s]
  PROVE  Grows
<1>1. Cardinality(sent) \in Nat
  BY FS_CardinalityType DEF SentFits
<1> QED
  BY <1>1 DEF Grows

LEMMA NamedAreModels ==
  ASSUME SentFits, NEW p \in sent
  PROVE  /\ Named(p) \subseteq Models /\ p.kind \in Kinds /\ p # None
         /\ p.models \in Seq(Models) /\ p.models # <<>>
<1>1. p.kind \in Kinds /\ p.models \in Seq(Models) /\ p.models # <<>> /\ p # None
  BY PayloadFields DEF SentFits
<1> QED
  BY <1>1 DEF Named

LEMMA OthersFit ==
  ASSUME SentFits, RequestsFit, NEW h \in Handlers, Moves(h), Grows, RequestFits(h)', OpeningFits(h)'
  PROVE  RequestsFit'
<1>1. ASSUME NEW g \in Handlers \ {h} PROVE RequestFits(g)'
  <2>1. RequestFits(g)
    BY DEF RequestsFit
  <2> QED
    BY <2>1 DEF RequestFits, Moves, Grows
<1>2. ASSUME NEW g \in Handlers \ {h} PROVE OpeningFits(g)'
  <2>1. /\ step'[g] = step[g] /\ payload'[g] = payload[g] /\ queue'[g] = queue[g] /\ live'[g] = live[g]
        /\ OpeningFits(g) /\ RequestFits(g)
    BY DEF RequestsFit, Moves
  <2>2. Ahead(g)' = Ahead(g)
    BY <2>1 DEF Ahead
  <2>3. ASSUME step[g] # "idle", NEW m \in Named(payload[g]), FiledFor(payload[g], m)
        PROVE  FiledAfter(payload[g], m)
    <3>1. <<m, payload[g].kind>> \in Slots
      BY <2>1, <2>3, NamedAreModels DEF RequestFits, Slots
    <3> QED
      BY <2>1, <2>3, <3>1 DEF FiledFor, FiledAfter, Grows
  <2>4. Named(payload[g])' = Named(payload[g])
    BY <2>1 DEF Named
  <2> QED
    BY <2>1, <2>2, <2>3, <2>4 DEF OpeningFits, Storing, FiledFor, FiledAfter
<1>3. Shaped(step)' /\ Shaped(payload)' /\ Shaped(queue)' /\ Shaped(live)' /\ Shaped(copy)' /\ Shaped(bytes)'
  BY DEF Moves
<1> QED
  BY <1>1, <1>2, <1>3 DEF RequestsFit, Shaped

LEMMA DiskStays ==
  ASSUME DiskFits, Grows, UNCHANGED disk
  PROVE  DiskFits'
<1>1. \A n \in 1..Cardinality(sent) : n \in 1..Cardinality(sent')
  BY DEF Grows
<1> QED
  BY <1>1 DEF DiskFits, Grows, disk, Clean

LEMMA WholeStays ==
  ASSUME IInv, NEW h \in Handlers, Moves(h), UNCHANGED <<files, sent>>, LeavesWhole(h), stops' = 0 => stops = 0
  PROVE  WholeUnlessStopped'
<1> SUFFICES ASSUME stops = 0, NEW p \in sent, p.kind \notin Quarantining PROVE Whole(p)'
  BY DEF WholeUnlessStopped
<1>1. \A m : FiledFor(p, m)' = FiledFor(p, m)
  BY DEF FiledFor
<1>2. Whole(p)
  BY DEF IInv, WholeUnlessStopped
<1>3. CASE \E g \in Handlers : payload[g] = p /\ step[g] \in Storing
  <2>1. PICK g \in Handlers : payload[g] = p /\ step[g] \in Storing
    BY <1>3
  <2>2. CASE g = h
    BY <1>1, <2>1, <2>2 DEF LeavesWhole, Whole, FiledAfter, FiledFor
  <2>3. CASE g # h
    BY <2>1, <2>3 DEF Moves, Whole
  <2> QED
    BY <2>2, <2>3
<1>4. CASE ~\E g \in Handlers : payload[g] = p /\ step[g] \in Storing
  BY <1>1, <1>2, <1>4 DEF Whole
<1> QED
  BY <1>3, <1>4

----------------------------------------------------------------------------
(* Answers, and going on to the next model *)

LEMMA AnswerFits ==
  ASSUME RequestsFit, NEW h \in Handlers, Answer(h)
  PROVE  /\ Moves(h) /\ RequestFits(h)' /\ OpeningFits(h)'
         /\ step'[h] = "idle" /\ payload'[h] = None
<1>1. Moves(h)
  BY DEF RequestsFit, Answer, Goto, Moves, Shaped
<1>2. step'[h] = "idle" /\ payload'[h] = None /\ copy'[h] = None
  BY DEF RequestsFit, Answer, Goto
<1>3. RequestFits(h)'
  BY <1>2 DEF RequestFits, Labels, Storing, Promoting, HoldsBytes, HoldsCopy
<1>4. OpeningFits(h)'
  BY <1>2 DEF OpeningFits
<1> QED
  BY <1>1, <1>2, <1>3, <1>4

LEMMA GoingOn ==
  ASSUME NEW h \in Handlers, queue[h] \in Seq(Models), queue[h] # <<>>, Len(queue[h]) # 1,
         queue'[h] = Tail(queue[h])
  PROVE  /\ queue'[h] \in Seq(Models) /\ queue'[h] # <<>>
         /\ Ahead(h) \subseteq {Model(h)} \cup Ahead(h)' /\ Ahead(h)' \subseteq Ahead(h)
<1> DEFINE q == queue[h]
<1>1. q \in Seq(Models) /\ q # <<>> /\ Len(q) # 1
  OBVIOUS
<1> HIDE DEF q
<1>2. /\ Tail(q) \in Seq(Models) /\ Tail(q) # <<>>
      /\ {q[i] : i \in DOMAIN q} \subseteq {Head(q)} \cup {Tail(q)[i] : i \in DOMAIN Tail(q)}
      /\ {Tail(q)[i] : i \in DOMAIN Tail(q)} \subseteq {q[i] : i \in DOMAIN q}
  BY <1>1, TheOthers
<1>3. queue'[h] = Tail(q)
  BY DEF q
<1> QED
  BY <1>2, <1>3 DEF Ahead, Model, q

LEMMA NextModelFits ==
  ASSUME SentFits, RequestsFit, Grows, UNCHANGED sent, NEW h \in Handlers, step[h] \in {"storing", "renaming"},
         NextModel(h, "storing"), payload[h].kind \notin Quarantining => FiledAfter(payload[h], Model(h))
  PROVE  /\ Moves(h) /\ RequestFits(h)' /\ OpeningFits(h)'
         /\ payload[h].kind \notin Quarantining =>
              \/ step'[h] \in Storing /\ payload'[h] = payload[h]
              \/ \A m \in Named(payload[h]) : FiledAfter(payload[h], m)
<1> DEFINE p == payload[h]
<1>1. /\ p \in sent /\ queue[h] \in Seq(Models) /\ queue[h] # <<>> /\ copy[h] = None /\ Clean(p)
      /\ step[h] \in Storing
  BY DEF RequestsFit, RequestFits, Storing, HoldsCopy
<1>2. ASSUME p.kind \notin Quarantining, NEW m \in Named(p) \ Ahead(h) PROVE FiledAfter(p, m)
  <2>1. FiledFor(p, m)
    BY <1>1, <1>2 DEF RequestsFit, OpeningFits, Storing
  <2>2. <<m, p.kind>> \in Slots
    BY <1>1, NamedAreModels DEF Slots
  <2> QED
    BY <2>1, <2>2 DEF FiledFor, FiledAfter, Grows
<1>3. p.kind \notin Quarantining => Named(p) \subseteq live[h] /\ Ahead(h) \subseteq Named(p)
  BY <1>1 DEF RequestsFit, OpeningFits, Storing
<1>4. CASE Len(queue[h]) = 1
  <2>1. Answer(h)
    BY <1>4 DEF NextModel
  <2>2. Ahead(h) = {Model(h)}
    BY <1>1, <1>4, OneLess DEF Ahead, Model
  <2>3. p.kind \notin Quarantining => \A m \in Named(p) : FiledAfter(p, m)
    BY <1>2, <2>2
  <2> QED
    BY <2>1, <2>3, AnswerFits
<1>5. CASE Len(queue[h]) # 1
  <2>1. /\ step' = [step EXCEPT ![h] = "storing"] /\ queue' = [queue EXCEPT ![h] = Tail(@)]
        /\ UNCHANGED <<payload, live, copy, bytes>>
    BY <1>5 DEF NextModel, Goto
  <2>2. Moves(h)
    BY <2>1 DEF RequestsFit, Moves, Shaped
  <2>3. /\ step'[h] = "storing" /\ queue'[h] = Tail(queue[h]) /\ payload'[h] = p /\ live'[h] = live[h]
        /\ copy'[h] = None
    BY <1>1, <2>1 DEF RequestsFit
  <2>4. /\ queue'[h] \in Seq(Models) /\ queue'[h] # <<>>
        /\ Ahead(h) \subseteq {Model(h)} \cup Ahead(h)' /\ Ahead(h)' \subseteq Ahead(h)
    BY <1>1, <1>5, <2>3, GoingOn
  <2>5. RequestFits(h)'
    BY <1>1, <2>3, <2>4 DEF RequestFits, Labels, Storing, Promoting, HoldsBytes, HoldsCopy, Clean
  <2>6. p.kind \notin Quarantining => \A m \in Named(p) \ Ahead(h)' : FiledAfter(p, m)
    BY <1>2, <2>4
  <2>7. OpeningFits(h)'
    BY <1>3, <2>3, <2>4, <2>6 DEF OpeningFits, Storing, Named, FiledFor, FiledAfter
  <2> QED
    BY <2>2, <2>3, <2>5, <2>7 DEF Storing
<1> QED
  BY <1>4, <1>5

----------------------------------------------------------------------------
(* The steps of a push *)

\* What most steps need: no file is filed, nothing is sent, and no stop is taken back.
LEMMA OneRequestMoves ==
  ASSUME IInv, NEW h \in Handlers, Moves(h), RequestFits(h)', OpeningFits(h)', LeavesWhole(h),
         DiskFits', UNCHANGED <<files, sent>>, stops' \in 0..MaxStops, stops' = 0 => stops = 0
  PROVE  IInv'
<1>1. Grows
  BY NothingSentGrows DEF IInv
<1>2. SentFits'
  BY DEF IInv, SentFits
<1>3. RequestsFit'
  BY <1>1, OthersFit DEF IInv
<1>4. WholeUnlessStopped'
  BY WholeStays
<1> QED
  BY <1>2, <1>3, <1>4 DEF IInv

LEMMA OnlyTheRequestMoves ==
  ASSUME IInv, NEW h \in Handlers, Moves(h), RequestFits(h)', OpeningFits(h)', LeavesWhole(h),
         UNCHANGED <<disk, sent>>, stops' \in 0..MaxStops, stops' = 0 => stops = 0
  PROVE  IInv'
<1>1. Grows
  BY NothingSentGrows DEF IInv, disk
<1>2. DiskFits'
  BY <1>1, DiskStays DEF IInv
<1> QED
  BY <1>2, OneRequestMoves DEF disk

LEMMA ReceiveKeeps ==
  ASSUME IInv, NEW h \in Handlers, Receive(h)
  PROVE  IInv'
<1>1. PICK p \in sent \cup NewPayloads :
        /\ sent' = sent \cup {p}
        /\ payload' = [payload EXCEPT ![h] = p] /\ queue' = [queue EXCEPT ![h] = p.models]
  BY DEF Receive
<1>2. /\ step[h] = "idle" /\ step' = [step EXCEPT ![h] = "deciding"]
      /\ UNCHANGED <<disk, live, copy, bytes, worn, stops>>
  BY DEF Receive, Goto
<1>3. /\ SentFits' /\ Cardinality(sent) <= Cardinality(sent') /\ Cardinality(sent) \in Nat
      /\ Cardinality(sent') \in Nat /\ (p \notin sent => p.taken_at = Cardinality(sent) + 1)
  BY <1>1, SendingKeeps DEF IInv
<1>4. Grows
  BY <1>1, <1>2, <1>3 DEF Grows, disk
<1>5. Moves(h)
  BY <1>1, <1>2 DEF IInv, RequestsFit, Moves, Shaped
<1>6. step'[h] = "deciding" /\ payload'[h] = p /\ queue'[h] = p.models /\ copy'[h] = None
  BY <1>1, <1>2 DEF IInv, RequestsFit, RequestFits, HoldsCopy
<1>7. p \in Payload /\ p.models \in Seq(Models) /\ p.models # <<>>
  <2>1. p \in Payload
    BY <1>1, <1>3 DEF SentFits
  <2> QED
    BY <2>1, PayloadFields
<1>8. RequestFits(h)'
  BY <1>1, <1>6, <1>7 DEF RequestFits, Labels, Storing, Promoting, HoldsBytes, HoldsCopy
<1>9. OpeningFits(h)'
  BY <1>6 DEF OpeningFits, Storing, Ahead, Named
<1>10. RequestsFit'
  BY <1>4, <1>5, <1>8, <1>9, OthersFit DEF IInv
<1>11. DiskFits'
  BY <1>2, <1>4, DiskStays DEF IInv
<1>12. WholeUnlessStopped'
  <2> SUFFICES ASSUME stops = 0, NEW q \in sent', q.kind \notin Quarantining PROVE Whole(q)'
    BY <1>2 DEF WholeUnlessStopped
  <2>1. CASE q \in sent
    <3>1. Whole(q)
      BY <2>1 DEF IInv, WholeUnlessStopped
    <3>2. \A m : FiledFor(q, m)' = FiledFor(q, m)
      BY <1>2 DEF FiledFor, disk
    <3>3. (\E g \in Handlers : payload[g] = q /\ step[g] \in Storing) => Whole(q)'
      BY <1>2, <1>5 DEF Moves, Whole, Storing
    <3> QED
      BY <3>1, <3>2, <3>3 DEF Whole
  <2>2. CASE q \notin sent
    <3>1. q = p /\ q.taken_at = Cardinality(sent) + 1
      BY <1>1, <1>3, <2>2
    <3>2. Named(q) \subseteq Models /\ q.kind \in Kinds
      BY <1>3, NamedAreModels, <1>7, <3>1, PayloadFields DEF Named
    <3>3. \A m \in Named(q) : ~FiledFor(q, m)'
      <4> SUFFICES ASSUME NEW m \in Named(q) PROVE q.taken_at \notin DOMAIN files[<<m, q.kind>>]
        BY <1>2 DEF FiledFor, disk
      <4>1. DOMAIN files[<<m, q.kind>>] \subseteq 1..Cardinality(sent)
        BY <3>2 DEF IInv, DiskFits, Slots
      <4> QED
        BY <1>3, <3>1, <4>1
    <3> QED
      BY <3>3 DEF Whole
  <2> QED
    BY <2>1, <2>2
<1> QED
  BY <1>2, <1>3, <1>10, <1>11, <1>12 DEF IInv

LEMMA DecideKeeps ==
  ASSUME IInv, NEW h \in Handlers, Decide(h)
  PROVE  IInv'
<1> DEFINE p == payload[h]
           agrees == Agrees(manifest[Model(h)].phase, p.phase)
           refused == p.phase = NoPhase \/ (~agrees /\ p.kind \notin Quarantining)
<1>1. step[h] = "deciding" /\ UNCHANGED <<disk, sent, worn, stops>>
  BY DEF Decide
<1>2. LeavesWhole(h)
  BY <1>1 DEF LeavesWhole, Storing
<1>3. stops' \in 0..MaxStops /\ (stops' = 0 => stops = 0)
  BY <1>1 DEF IInv
<1>4. CASE refused
  <2>1. Answer(h)
    BY <1>4 DEF Decide
  <2>2. Moves(h) /\ RequestFits(h)' /\ OpeningFits(h)'
    BY <2>1, AnswerFits DEF IInv
  <2> QED
    BY <1>1, <1>2, <1>3, <2>2, OnlyTheRequestMoves
<1>5. CASE ~refused
  <2>1. /\ live' = [live EXCEPT ![h] = IF agrees THEN @ \cup {Model(h)} ELSE @]
        /\ UNCHANGED <<payload, copy, bytes>>
        /\ IF Len(queue[h]) = 1
           THEN step' = [step EXCEPT ![h] = "reading"] /\ queue' = [queue EXCEPT ![h] = p.models]
           ELSE UNCHANGED step /\ queue' = [queue EXCEPT ![h] = Tail(@)]
    BY <1>5 DEF Decide, Goto
  <2>2. Moves(h)
    BY <2>1 DEF IInv, RequestsFit, Moves, Shaped
  <2>3. /\ p \in sent /\ copy[h] = None
        /\ queue[h] \in Seq(Models) /\ queue[h] # <<>> /\ p.models \in Seq(Models) /\ p.models # <<>>
    BY <1>1, NamedAreModels DEF IInv, RequestsFit, RequestFits, HoldsCopy
  <2>4. /\ payload'[h] = p /\ copy'[h] = None
        /\ p.kind \notin Quarantining => live'[h] = live[h] \cup {Model(h)}
    BY <1>5, <2>1, <2>3 DEF IInv, RequestsFit
  <2>5. p.kind \notin Quarantining => Named(p) \subseteq live[h] \cup Ahead(h) /\ Ahead(h) \subseteq Named(p)
    BY <1>1 DEF IInv, RequestsFit, OpeningFits
  <2> DEFINE q == queue[h]
  <2>6. CASE Len(q) = 1
    <3>1. step'[h] = "reading" /\ queue'[h] = p.models
      BY <2>1, <2>6 DEF IInv, RequestsFit
    <3>2. Ahead(h) = {Model(h)}
      BY <2>3, <2>6, OneLess DEF Ahead, Model
    <3>3. RequestFits(h)'
      BY <1>1, <1>5, <2>3, <2>4, <3>1 DEF RequestFits, Labels, Storing, Promoting, HoldsBytes, HoldsCopy
    <3>4. OpeningFits(h)'
      BY <2>4, <2>5, <3>1, <3>2 DEF OpeningFits, Storing, Named, Ahead
    <3> QED
      BY <1>1, <1>2, <1>3, <2>2, <3>3, <3>4, OnlyTheRequestMoves
  <2>7. CASE Len(q) # 1
    <3>1. step'[h] = "deciding" /\ queue'[h] = Tail(q)
      BY <1>1, <2>1, <2>7 DEF IInv, RequestsFit
    <3>2. /\ queue'[h] \in Seq(Models) /\ queue'[h] # <<>>
          /\ Ahead(h) \subseteq {Model(h)} \cup Ahead(h)' /\ Ahead(h)' \subseteq Ahead(h)
      BY <2>3, <2>7, <3>1, GoingOn
    <3>3. RequestFits(h)'
      BY <1>1, <2>3, <2>4, <3>1, <3>2 DEF RequestFits, Labels, Storing, Promoting, HoldsBytes, HoldsCopy
    <3>4. OpeningFits(h)'
      BY <2>4, <2>5, <3>1, <3>2 DEF OpeningFits, Storing, Named
    <3> QED
      BY <1>1, <1>2, <1>3, <2>2, <3>3, <3>4, OnlyTheRequestMoves
  <2> QED
    BY <2>6, <2>7
<1> QED
  BY <1>4, <1>5

LEMMA PublishKeeps ==
  ASSUME IInv, NEW h \in Handlers, Publish(h)
  PROVE  IInv'
<1>1. step[h] = "reading" /\ UNCHANGED <<disk, sent, worn, stops>>
  BY DEF Publish
<1>2. LeavesWhole(h) /\ stops' \in 0..MaxStops /\ (stops' = 0 => stops = 0)
  BY <1>1 DEF LeavesWhole, Storing, IInv
<1>3. CASE Answer(h)
  BY <1>1, <1>2, <1>3, AnswerFits, OnlyTheRequestMoves DEF IInv
<1>4. CASE ~Answer(h)
  <2>1. /\ payload[h].kind # "rooms" \/ payload[h].empty = {}
        /\ step' = [step EXCEPT ![h] = "storing"] /\ UNCHANGED <<payload, queue, live, copy, bytes>>
    BY <1>4 DEF Publish, Goto
  <2>2. Moves(h)
    BY <2>1 DEF IInv, RequestsFit, Moves, Shaped
  <2>3. /\ payload[h] \in sent /\ queue[h] \in Seq(Models) /\ queue[h] # <<>> /\ copy[h] = None
        /\ payload[h].phase # NoPhase /\ queue[h] = payload[h].models /\ step'[h] = "storing"
    BY <1>1, <2>1 DEF IInv, RequestsFit, RequestFits, HoldsCopy
  <2>4. RequestFits(h)'
    BY <1>1, <2>1, <2>3 DEF RequestFits, Labels, Storing, Promoting, HoldsBytes, HoldsCopy, Clean
  <2>5. payload[h].kind \notin Quarantining => Named(payload[h]) \subseteq live[h]
    BY <1>1 DEF IInv, RequestsFit, OpeningFits
  <2>6. OpeningFits(h)'
    BY <2>1, <2>3, <2>5 DEF OpeningFits, Storing, Named, Ahead
  <2> QED
    BY <1>1, <1>2, <2>2, <2>4, <2>6, OnlyTheRequestMoves
<1> QED
  BY <1>3, <1>4

\* A payload in the hand of a request goes into the quarantine.
LEMMA QuarantineKeeps ==
  ASSUME IInv, NEW h \in Handlers, Quarantine(h)
  PROVE  IInv'
<1> DEFINE p == payload[h]
<1>1. /\ step[h] = "storing" /\ Model(h) \notin live[h] /\ NextModel(h, "storing")
      /\ pending' = [pending EXCEPT ![Slot(h)] = p]
      /\ UNCHANGED <<manifest, files, sent, worn, stops>>
  BY DEF Quarantine
<1>2. /\ p \in sent /\ queue[h] \in Seq(Models) /\ queue[h] # <<>> /\ Clean(p)
      /\ Slot(h) \in Slots /\ Slot(h)[2] = p.kind /\ Model(h) \in Models
  <2>1. p \in sent /\ queue[h] \in Seq(Models) /\ queue[h] # <<>> /\ Clean(p)
    BY <1>1 DEF IInv, RequestsFit, RequestFits, Storing
  <2>2. Model(h) \in Models /\ p.kind \in Kinds
    BY <2>1, NamedAreModels, OneLess DEF IInv, Model
  <2> QED
    BY <2>1, <2>2 DEF Slot, Slots
<1>3. Grows
  BY <1>1, NothingSentGrows DEF IInv
<1>4. p.kind \in Quarantining
  <2> SUFFICES ASSUME p.kind \notin Quarantining PROVE FALSE
    OBVIOUS
  <2>1. Named(p) \subseteq live[h] /\ Ahead(h) \subseteq Named(p)
    BY <1>1 DEF IInv, RequestsFit, OpeningFits, Storing
  <2>2. Model(h) \in Ahead(h)
    BY <1>2, OneLess DEF Model, Ahead
  <2> QED
    BY <1>1, <2>1, <2>2
<1>5. Moves(h) /\ RequestFits(h)' /\ OpeningFits(h)' /\ LeavesWhole(h)
  BY <1>1, <1>3, <1>4, NextModelFits DEF IInv, LeavesWhole
<1>6. DiskFits'
  BY <1>1, <1>2 DEF IInv, DiskFits, Clean
<1> QED
  BY <1>1, <1>5, <1>6, OneRequestMoves DEF IInv

LEMMA SkipKeeps ==
  ASSUME IInv, NEW h \in Handlers, Skip(h)
  PROVE  IInv'
<1>1. step[h] = "storing" /\ Filed(h) /\ NextModel(h, "storing") /\ UNCHANGED <<disk, sent, worn, stops>>
  BY DEF Skip
<1>2. Grows /\ FiledAfter(payload[h], Model(h))
  BY <1>1, NothingSentGrows DEF IInv, disk, Filed, Slot, Stamp, FiledAfter
<1>3. Moves(h) /\ RequestFits(h)' /\ OpeningFits(h)' /\ LeavesWhole(h)
  BY <1>1, <1>2, NextModelFits DEF IInv, LeavesWhole
<1> QED
  BY <1>1, <1>3, OnlyTheRequestMoves DEF IInv

\* A read of the manifest takes a request one step on.
LEMMA ManifestIsRead ==
  ASSUME IInv, NEW h \in Handlers, NEW from, NEW to, ReadManifest(h, from, to),
         \/ from = "storing" /\ to = "indexing"
         \/ from = "promoted" /\ to = "indexingPromoted"
         \/ from = "filed" /\ to = "rephasing"
  PROVE  IInv'
<1>1. /\ step[h] = from /\ copy' = [copy EXCEPT ![h] = manifest] /\ step' = [step EXCEPT ![h] = to]
      /\ UNCHANGED <<disk, payload, queue, live, bytes, sent, worn, stops>>
  BY DEF ReadManifest, Goto
<1>2. Moves(h)
  BY <1>1 DEF IInv, RequestsFit, Moves, Shaped
<1>3. /\ step'[h] = to /\ copy'[h] = manifest /\ manifest \in [Models -> Entry]
      /\ RequestFits(h) /\ OpeningFits(h)
  BY <1>1 DEF IInv, RequestsFit, DiskFits
<1>4. RequestFits(h)'
  BY <1>1, <1>3 DEF RequestFits, Labels, Storing, Promoting, HoldsBytes, HoldsCopy, Clean
<1>5. OpeningFits(h)'
  BY <1>1, <1>3 DEF OpeningFits, Storing, Named, Ahead, FiledFor, disk
<1>6. LeavesWhole(h)
  BY <1>1, <1>3 DEF LeavesWhole, Storing
<1> QED
  BY <1>1, <1>2, <1>4, <1>5, <1>6, OnlyTheRequestMoves DEF IInv

\* A write of the manifest is of entries, and of what the request read.
LEMMA ManifestIsWritten ==
  ASSUME IInv, NEW h \in Handlers, NEW from, NEW to, NEW entry \in Entry, WriteBack(h, entry),
         step[h] = from, step' = [step EXCEPT ![h] = to],
         UNCHANGED <<files, pending, payload, queue, live, bytes, sent, stops>>,
         \/ from = "indexing" /\ to = "renaming"
         \/ from = "indexingPromoted" /\ to = "filing"
         \/ from = "rephasing" /\ to = "clearing"
  PROVE  IInv'
<1>1. manifest' = [copy[h] EXCEPT ![Model(h)] = entry] /\ copy' = [copy EXCEPT ![h] = None]
  BY DEF WriteBack
<1>2. Moves(h)
  BY <1>1 DEF IInv, RequestsFit, Moves, Shaped
<1>3. step'[h] = to /\ copy'[h] = None /\ copy[h] \in [Models -> Entry] /\ RequestFits(h) /\ OpeningFits(h)
  BY <1>1 DEF IInv, RequestsFit, RequestFits, HoldsCopy
<1>4. RequestFits(h)'
  BY <1>1, <1>3 DEF RequestFits, Labels, Storing, Promoting, HoldsBytes, HoldsCopy, Clean
<1>5. OpeningFits(h)'
  BY <1>1, <1>3 DEF OpeningFits, Storing, Named, Ahead, FiledFor
<1>6. LeavesWhole(h)
  BY <1>1, <1>3 DEF LeavesWhole, Storing
<1>7. DiskFits'
  BY <1>1, <1>3 DEF IInv, DiskFits, Clean
<1> QED
  BY <1>2, <1>4, <1>5, <1>6, <1>7, OneRequestMoves DEF IInv

LEMMA IndexedIsEntry ==
  ASSUME NEW entry \in Entry, NEW p \in Payload
  PROVE  Indexed(entry, p) \in Entry
<1>1. p.taken_at \in 1..MaxPayloads /\ p.kind \in Kinds /\ p.phase \in Phases \cup {NoPhase}
  BY PayloadFields
<1> DEFINE phase == IF entry.phase = NoPhase THEN p.phase ELSE entry.phase
           index == [entry.index EXCEPT ![p.kind] = @ \cup {p.taken_at}]
<1>2. phase \in Phases \cup {NoPhase} /\ index \in [Kinds -> SUBSET (1..MaxPayloads)]
  BY <1>1 DEF Entry
<1>3. Indexed(entry, p) = [entry EXCEPT !.phase = phase, !.index = index]
  BY DEF Indexed, Entry
<1> HIDE DEF phase, index
<1> QED
  BY <1>2, <1>3 DEF Entry

LEMMA IndexKeeps ==
  ASSUME IInv, NEW h \in Handlers, IndexPush(h) \/ IndexPromoted(h)
  PROVE  IInv'
<1> DEFINE entry == Indexed(copy[h][Model(h)], payload[h])
<1>1. PICK from, to : /\ \/ from = "indexing" /\ to = "renaming"
                         \/ from = "indexingPromoted" /\ to = "filing"
                      /\ WriteIndex(h, from, to)
  BY DEF IndexPush, IndexPromoted
<1>2. /\ step[h] = from /\ WriteBack(h, entry) /\ step' = [step EXCEPT ![h] = to]
      /\ UNCHANGED <<files, pending, payload, queue, live, bytes, sent, stops>>
  BY <1>1 DEF WriteIndex, Goto
<1>3. copy[h] \in [Models -> Entry] /\ Model(h) \in Models /\ payload[h] \in Payload
  <2>1. copy[h] \in [Models -> Entry] /\ queue[h] \in Seq(Models) /\ queue[h] # <<>> /\ payload[h] \in sent
    BY <1>1, <1>2 DEF IInv, RequestsFit, RequestFits, HoldsCopy
  <2> QED
    BY <2>1, OneLess DEF Model, IInv, SentFits
<1>4. entry \in Entry
  BY <1>3, IndexedIsEntry
<1> HIDE DEF entry
<1> QED
  BY <1>1, <1>2, <1>4, ManifestIsWritten

\* What Install leaves of the files: one more at most, and the others as they were.
LEMMA Installing ==
  ASSUME SentFits, DiskFits, NEW p \in sent, NEW q \in sent, Clean(q), NEW slot \in Slots, q.kind = slot[2],
         Install(slot, p.taken_at, q), UNCHANGED <<manifest, pending, sent>>
  PROVE  /\ DiskFits' /\ Grows /\ p.taken_at \in DOMAIN files'[slot]
         /\ files'[slot][p.taken_at] = q
         /\ \A s \in Slots : \A t : ~(s = slot /\ t = p.taken_at) => (t \in DOMAIN files'[s] <=> t \in DOMAIN files[s])
<1> DEFINE more == [t \in DOMAIN files[slot] \cup {p.taken_at} |-> IF t = p.taken_at THEN q ELSE files[slot][t]]
<1>1. files' = [files EXCEPT ![slot] = more] /\ files = [s \in Slots |-> files[s]]
  BY DEF Install, DiskFits
<1>2. files'[slot] = more /\ \A s \in Slots \ {slot} : files'[s] = files[s]
  BY <1>1
<1>3. files' = [s \in Slots |-> files'[s]]
  BY <1>1
<1>4. /\ DOMAIN more = DOMAIN files[slot] \cup {p.taken_at} /\ more[p.taken_at] = q
      /\ \A t \in DOMAIN files[slot] : more[t] = IF t = p.taken_at THEN q ELSE files[slot][t]
  OBVIOUS
<1> HIDE DEF more
<1>5. p.taken_at \in 1..Cardinality(sent)
  <2>1. p.taken_at \in 1..MaxPayloads /\ p.taken_at <= Cardinality(sent)
    BY PayloadFields DEF SentFits
  <2>2. Cardinality(sent) \in Nat
    BY FS_CardinalityType DEF SentFits
  <2> QED
    BY <2>1, <2>2
<1>6. DiskFits'
  <2> SUFFICES ASSUME NEW s \in Slots
               PROVE  /\ DOMAIN files'[s] \subseteq 1..Cardinality(sent)
                      /\ \A t \in DOMAIN files'[s] :
                           files'[s][t] \in sent /\ Clean(files'[s][t]) /\ files'[s][t].kind = s[2]
    BY <1>3 DEF DiskFits, Clean
  <2>1. CASE s = slot
    BY <1>2, <1>4, <1>5, <2>1 DEF DiskFits
  <2>2. CASE s # slot
    BY <1>2, <2>2 DEF DiskFits
  <2> QED
    BY <2>1, <2>2
<1>7. Grows
  BY <1>2, <1>4, NothingSentGrows
<1>8. \A s \in Slots : \A t : ~(s = slot /\ t = p.taken_at) => (t \in DOMAIN files'[s] <=> t \in DOMAIN files[s])
  BY <1>2, <1>4
<1> QED
  BY <1>2, <1>4, <1>6, <1>7, <1>8

LEMMA RenameKeeps ==
  ASSUME IInv, NEW h \in Handlers, Rename(h)
  PROVE  IInv'
<1> DEFINE p == payload[h]
<1>1. /\ step[h] = "renaming" /\ Install(Slot(h), p.taken_at, p) /\ NextModel(h, "storing")
      /\ UNCHANGED <<manifest, pending, sent, worn, stops>>
  BY DEF Rename, Stamp
<1>2. /\ p \in sent /\ Clean(p) /\ Slot(h) \in Slots /\ Slot(h) = <<Model(h), p.kind>>
  <2>1. p \in sent /\ queue[h] \in Seq(Models) /\ queue[h] # <<>> /\ Clean(p)
    BY <1>1 DEF IInv, RequestsFit, RequestFits, Storing
  <2>2. Model(h) \in Models /\ p.kind \in Kinds
    BY <2>1, NamedAreModels, OneLess DEF IInv, Model
  <2> QED
    BY <2>1, <2>2 DEF Slot, Slots
<1>3. /\ DiskFits' /\ Grows /\ p.taken_at \in DOMAIN files'[Slot(h)]
      /\ \A s \in Slots : \A t :
           ~(s = Slot(h) /\ t = p.taken_at) => (t \in DOMAIN files'[s] <=> t \in DOMAIN files[s])
  <2> HIDE DEF p
  <2> QED
    BY <1>1, <1>2, Installing DEF IInv
<1>4. FiledAfter(p, Model(h))
  BY <1>2, <1>3 DEF FiledAfter
<1>5. /\ Moves(h) /\ RequestFits(h)' /\ OpeningFits(h)'
      /\ p.kind \notin Quarantining =>
           \/ step'[h] \in Storing /\ payload'[h] = p
           \/ \A m \in Named(p) : FiledAfter(p, m)
  BY <1>1, <1>3, <1>4, NextModelFits DEF IInv
<1>6. RequestsFit'
  BY <1>3, <1>5, OthersFit DEF IInv
<1>7. WholeUnlessStopped'
  <2> SUFFICES ASSUME stops = 0, NEW q \in sent, q.kind \notin Quarantining PROVE Whole(q)'
    BY <1>1 DEF WholeUnlessStopped
  <2>1. Whole(q)
    BY DEF IInv, WholeUnlessStopped
  <2>2. CASE q = p
    BY <1>5, <2>2 DEF Whole, FiledFor, FiledAfter
  <2>3. CASE q # p
    <3>1. ASSUME NEW m \in Named(q) PROVE FiledFor(q, m)' <=> FiledFor(q, m)
      <4>1. q.taken_at # p.taken_at
        BY <1>2, <2>3 DEF IInv, SentFits
      <4>2. <<m, q.kind>> \in Slots
        BY NamedAreModels DEF IInv, Slots
      <4> QED
        BY <1>3, <4>1, <4>2 DEF FiledFor
    <3>2. (\E g \in Handlers : payload[g] = q /\ step[g] \in Storing)
            => (\E g \in Handlers : payload'[g] = q /\ step'[g] \in Storing)
      BY <1>5, <2>3 DEF Moves
    <3> QED
      BY <2>1, <3>1, <3>2 DEF Whole
  <2> QED
    BY <2>2, <2>3
<1> QED
  BY <1>1, <1>3, <1>6, <1>7 DEF IInv, SentFits

----------------------------------------------------------------------------
(* The steps of an activation *)

LEMMA ActivateKeeps ==
  ASSUME IInv, NEW h \in Handlers, Activate(h)
  PROVE  IInv'
<1>1. PICK s \in Models \X (Kinds \cap Promotable) :
        /\ pending[s] # None
        /\ payload' = [payload EXCEPT ![h] = pending[s]] /\ queue' = [queue EXCEPT ![h] = <<s[1]>>]
  BY DEF Activate
<1>2. /\ step[h] = "idle" /\ step' = [step EXCEPT ![h] = "promoting"]
      /\ UNCHANGED <<disk, live, copy, bytes, sent, worn, stops>>
  BY DEF Activate, Goto
<1>3. s \in Slots /\ s[1] \in Models /\ s[2] \in Promotable
  BY DEF Slots
<1>4. pending[s] \in sent /\ Clean(pending[s]) /\ pending[s].kind \in Promotable
  BY <1>1, <1>3 DEF IInv, DiskFits
<1>5. Moves(h)
  BY <1>1, <1>2 DEF IInv, RequestsFit, Moves, Shaped
<1>6. step'[h] = "promoting" /\ payload'[h] = pending[s] /\ queue'[h] = <<s[1]>> /\ copy'[h] = None
  BY <1>1, <1>2 DEF IInv, RequestsFit, RequestFits, HoldsCopy
<1>7. queue'[h] \in Seq(Models) /\ queue'[h] # <<>>
  BY <1>3, <1>6
<1>8. RequestFits(h)'
  BY <1>2, <1>4, <1>6, <1>7 DEF RequestFits, Labels, Storing, Promoting, HoldsBytes, HoldsCopy, Clean
<1>9. OpeningFits(h)'
  BY <1>6 DEF OpeningFits, Storing
<1>10. LeavesWhole(h)
  BY <1>2 DEF LeavesWhole, Storing
<1> QED
  BY <1>2, <1>5, <1>8, <1>9, <1>10, OnlyTheRequestMoves DEF IInv

\* What an activation works on: rooms of one model.
LEMMA PromotesRooms ==
  ASSUME IInv, NEW h \in Handlers, step[h] \in Promoting
  PROVE  /\ payload[h] \in sent /\ Clean(payload[h]) /\ payload[h].kind \in Promotable
         /\ payload[h].kind \in Quarantining
         /\ queue[h] \in Seq(Models) /\ queue[h] # <<>> /\ Model(h) \in Models
         /\ Slot(h) = <<Model(h), payload[h].kind>> /\ Slot(h) \in Slots
<1>1. /\ payload[h] \in sent /\ Clean(payload[h]) /\ payload[h].kind \in Promotable
      /\ queue[h] \in Seq(Models) /\ queue[h] # <<>>
  BY DEF IInv, RequestsFit, RequestFits, Promoting
<1>2. Model(h) \in Models
  BY <1>1, OneLess DEF Model
<1>3. payload[h].kind \in Kinds
  BY <1>1, NamedAreModels DEF IInv
<1> QED
  BY <1>1, <1>2, <1>3 DEF Slot, Slots, Promotable, Quarantining

LEMMA ReadPendingKeeps ==
  ASSUME IInv, NEW h \in Handlers, ReadPending(h)
  PROVE  IInv'
<1> DEFINE s == Slot(h)
<1>1. step[h] = "promoting" /\ UNCHANGED <<disk, sent, worn, stops>>
  BY DEF ReadPending
<1>2. /\ payload[h] \in sent /\ Clean(payload[h]) /\ payload[h].kind \in Promotable
      /\ queue[h] \in Seq(Models) /\ queue[h] # <<>> /\ s = <<Model(h), payload[h].kind>> /\ s \in Slots
  BY <1>1, PromotesRooms DEF Promoting
<1>3. LeavesWhole(h)
  BY <1>1 DEF LeavesWhole, Storing
<1>4. CASE Answer(h)
  BY <1>1, <1>3, <1>4, AnswerFits, OnlyTheRequestMoves DEF IInv
<1>5. CASE ~Answer(h)
  <2>1. /\ pending[s] # None /\ bytes' = [bytes EXCEPT ![h] = pending[s]]
        /\ step' = [step EXCEPT ![h] = "promoted"] /\ UNCHANGED <<payload, queue, live, copy>>
    BY <1>5 DEF ReadPending, Goto
  <2>2. pending[s] \in sent /\ Clean(pending[s]) /\ pending[s].kind = payload[h].kind
    BY <1>2, <2>1 DEF IInv, DiskFits
  <2>3. Moves(h)
    BY <2>1 DEF IInv, RequestsFit, Moves, Shaped
  <2>4. step'[h] = "promoted" /\ bytes'[h] = pending[s] /\ copy'[h] = None
    BY <1>1, <2>1 DEF IInv, RequestsFit, RequestFits, HoldsCopy
  <2>5. RequestFits(h)'
    BY <1>1, <1>2, <2>1, <2>2, <2>4 DEF RequestFits, Labels, Storing, Promoting, HoldsBytes, HoldsCopy, Clean
  <2>6. OpeningFits(h)'
    BY <2>4 DEF OpeningFits, Storing
  <2> QED
    BY <1>1, <1>3, <2>3, <2>5, <2>6, OnlyTheRequestMoves DEF IInv
<1> QED
  BY <1>4, <1>5

LEMMA FilePromotedKeeps ==
  ASSUME IInv, NEW h \in Handlers, FilePromoted(h)
  PROVE  IInv'
<1> DEFINE p == payload[h]
<1>1. /\ step[h] = "filing" /\ step' = [step EXCEPT ![h] = "filed"]
      /\ UNCHANGED <<manifest, pending, payload, queue, live, copy, bytes, sent, worn, stops>>
  BY DEF FilePromoted, Goto
<1>2. /\ p \in sent /\ Clean(p) /\ p.kind \in Promotable /\ p.kind \in Quarantining
      /\ queue[h] \in Seq(Models) /\ queue[h] # <<>> /\ Slot(h) = <<Model(h), p.kind>> /\ Slot(h) \in Slots
  BY <1>1, PromotesRooms DEF Promoting
<1>3. bytes[h] \in sent /\ Clean(bytes[h]) /\ bytes[h].kind = p.kind
  BY <1>1 DEF IInv, RequestsFit, RequestFits, HoldsBytes
<1>4. Moves(h) /\ step'[h] = "filed" /\ copy'[h] = None
  BY <1>1 DEF IInv, RequestsFit, RequestFits, Moves, Shaped, HoldsCopy
<1>5. RequestFits(h)'
  BY <1>1, <1>2, <1>4 DEF RequestFits, Labels, Storing, Promoting, HoldsBytes, HoldsCopy, Clean
<1>6. OpeningFits(h)'
  BY <1>4 DEF OpeningFits, Storing
<1>7. CASE Filed(h) /\ UNCHANGED files
  <2>1. LeavesWhole(h)
    BY <1>1 DEF LeavesWhole, Storing
  <2> QED
    BY <1>1, <1>4, <1>5, <1>6, <1>7, <2>1, OnlyTheRequestMoves DEF IInv, disk
<1>8. CASE Install(Slot(h), p.taken_at, bytes[h])
  <2>1. /\ DiskFits' /\ Grows
        /\ \A s \in Slots : \A t :
             ~(s = Slot(h) /\ t = p.taken_at) => (t \in DOMAIN files'[s] <=> t \in DOMAIN files[s])
    <3> HIDE DEF p
    <3> DEFINE b == bytes[h]
    <3>1. b \in sent /\ Clean(b) /\ b.kind = Slot(h)[2] /\ Install(Slot(h), p.taken_at, b)
      BY <1>2, <1>3, <1>8
    <3> HIDE DEF b
    <3> QED
      BY <1>1, <1>2, <3>1, Installing DEF IInv
  <2>2. RequestsFit'
    BY <1>4, <1>5, <1>6, <2>1, OthersFit DEF IInv
  <2>3. WholeUnlessStopped'
    <3> SUFFICES ASSUME stops = 0, NEW q \in sent, q.kind \notin Quarantining PROVE Whole(q)'
      BY <1>1 DEF WholeUnlessStopped
    <3>1. Whole(q)
      BY DEF IInv, WholeUnlessStopped
    <3>2. ASSUME NEW m \in Named(q) PROVE FiledFor(q, m)' <=> FiledFor(q, m)
      <4>1. <<m, q.kind>> \in Slots /\ <<m, q.kind>> # Slot(h)
        BY <1>2, NamedAreModels DEF IInv, Slots
      <4> QED
        BY <2>1, <4>1 DEF FiledFor
    <3>3. (\E g \in Handlers : payload[g] = q /\ step[g] \in Storing)
            => (\E g \in Handlers : payload'[g] = q /\ step'[g] \in Storing)
      BY <1>1, <1>4 DEF Moves, Storing
    <3> QED
      BY <3>1, <3>2, <3>3 DEF Whole
  <2> QED
    BY <1>1, <2>1, <2>2, <2>3 DEF IInv, SentFits
<1> QED
  BY <1>7, <1>8 DEF FilePromoted, Stamp

LEMMA RephaseKeeps ==
  ASSUME IInv, NEW h \in Handlers, Rephase(h)
  PROVE  IInv'
<1> DEFINE entry == [copy[h][Model(h)] EXCEPT !.phase = payload[h].phase]
<1>1. /\ step[h] = "rephasing" /\ WriteBack(h, entry) /\ step' = [step EXCEPT ![h] = "clearing"]
      /\ UNCHANGED <<files, pending, payload, queue, live, bytes, sent, stops>>
  BY DEF Rephase, Goto
<1>2. payload[h] \in sent /\ Model(h) \in Models /\ copy[h] \in [Models -> Entry]
  BY <1>1, PromotesRooms DEF Promoting, IInv, RequestsFit, RequestFits, HoldsCopy
<1>3. payload[h].phase \in Phases \cup {NoPhase}
  BY <1>2, PayloadFields DEF IInv, SentFits
<1>4. entry \in Entry
  BY <1>2, <1>3 DEF Entry
<1> HIDE DEF entry
<1> QED
  BY <1>1, <1>4, ManifestIsWritten

LEMMA ClearKeeps ==
  ASSUME IInv, NEW h \in Handlers, Clear(h)
  PROVE  IInv'
<1>1. /\ step[h] = "clearing" /\ Answer(h) /\ pending' = [pending EXCEPT ![Slot(h)] = None]
      /\ UNCHANGED <<manifest, files, sent, worn, stops>>
  BY DEF Clear
<1>2. DiskFits'
  BY <1>1 DEF IInv, DiskFits, Clean
<1>3. LeavesWhole(h)
  BY <1>1 DEF LeavesWhole, Storing
<1> QED
  BY <1>1, <1>2, <1>3, AnswerFits, OneRequestMoves DEF IInv

\* A request that stops leaves the disk as it is, and no opening is promised whole any more.
LEMMA StopKeeps ==
  ASSUME IInv, NEW h \in Handlers, Stop(h)
  PROVE  IInv'
<1>1. stops < MaxStops /\ stops' = stops + 1 /\ Answer(h) /\ UNCHANGED <<disk, sent, worn>>
  BY DEF Stop
<1>2. stops' \in 0..MaxStops /\ stops' # 0
  BY <1>1, LineageBounds DEF IInv
<1>3. Grows
  BY <1>1, NothingSentGrows DEF IInv, disk
<1>4. RequestsFit'
  BY <1>1, <1>3, AnswerFits, OthersFit DEF IInv
<1>5. DiskFits'
  BY <1>1, <1>3, DiskStays DEF IInv
<1>6. SentFits'
  BY <1>1 DEF IInv, SentFits
<1> QED
  BY <1>2, <1>4, <1>5, <1>6 DEF IInv, WholeUnlessStopped

----------------------------------------------------------------------------
(* Requests that overlap *)

LEMMA InitFits == Init => IInv
<1> SUFFICES ASSUME Init PROVE IInv
  OBVIOUS
<1>1. SentFits
  BY FS_EmptySet, LineageBounds DEF Init, SentFits
<1>2. DiskFits
  <2>1. manifest \in [Models -> Entry]
    BY DEF Init, Entry
  <2>2. /\ files = [s \in Slots |-> files[s]] /\ pending = [s \in Slots |-> pending[s]]
        /\ \A s \in Slots : files[s] = <<>> /\ DOMAIN files[s] = {} /\ pending[s] = None
    BY DEF Init
  <2> QED
    BY <2>1, <2>2 DEF DiskFits
<1>3. RequestsFit
  <2>1. /\ step = [h \in Handlers |-> step[h]] /\ payload = [h \in Handlers |-> payload[h]]
        /\ queue = [h \in Handlers |-> queue[h]] /\ live = [h \in Handlers |-> live[h]]
        /\ copy = [h \in Handlers |-> copy[h]] /\ bytes = [h \in Handlers |-> bytes[h]]
        /\ \A h \in Handlers : step[h] = "idle" /\ payload[h] = None /\ copy[h] = None
    BY DEF Init
  <2>2. \A h \in Handlers : RequestFits(h)
    BY <2>1 DEF RequestFits, Labels, Storing, Promoting, HoldsBytes, HoldsCopy
  <2>3. \A h \in Handlers : OpeningFits(h)
    BY <2>1 DEF OpeningFits
  <2> QED
    BY <2>1, <2>2, <2>3 DEF RequestsFit
<1>4. WholeUnlessStopped /\ stops \in 0..MaxStops
  BY LineageBounds DEF Init, WholeUnlessStopped
<1> QED
  BY <1>1, <1>2, <1>3, <1>4 DEF IInv

LEMMA StepsFit == IInv /\ [Next]_vars => IInv'
<1> SUFFICES ASSUME IInv, [Next]_vars PROVE IInv'
  OBVIOUS
<1>1. ASSUME NEW h \in Handlers, Push(h) PROVE IInv'
  <2>1. CASE Commit(h)
    BY <2>1, ManifestIsRead DEF Commit
  <2> QED
    BY <1>1, <2>1, ReceiveKeeps, DecideKeeps, PublishKeeps, QuarantineKeeps, SkipKeeps, IndexKeeps, RenameKeeps
       DEF Push
<1>2. ASSUME NEW h \in Handlers, Promote(h) PROVE IInv'
  <2>1. CASE ReadForPromoted(h)
    BY <2>1, ManifestIsRead DEF ReadForPromoted
  <2>2. CASE ReadForPhase(h)
    BY <2>2, ManifestIsRead DEF ReadForPhase
  <2> QED
    BY <1>2, <2>1, <2>2, ActivateKeeps, ReadPendingKeeps, IndexKeeps, FilePromotedKeeps, RephaseKeeps, ClearKeeps
       DEF Promote
<1>3. CASE UNCHANGED vars
  <2>1. UNCHANGED <<manifest, files, pending, step, payload, queue, live, copy, bytes, sent, worn, stops>>
    BY <1>3 DEF vars, disk, request
  <2>2. SentFits' /\ DiskFits'
    BY <2>1 DEF IInv, SentFits, DiskFits, Clean
  <2>3. RequestsFit'
    <3>1. ASSUME NEW h \in Handlers PROVE RequestFits(h)'
      BY <2>1 DEF IInv, RequestsFit, RequestFits
    <3>2. ASSUME NEW h \in Handlers PROVE OpeningFits(h)'
      BY <2>1 DEF IInv, RequestsFit, OpeningFits, Ahead, FiledFor
    <3> QED
      BY <2>1, <3>1, <3>2 DEF IInv, RequestsFit
  <2>4. WholeUnlessStopped'
    BY <2>1 DEF IInv, WholeUnlessStopped, Whole, Named, FiledFor
  <2> QED
    BY <2>1, <2>2, <2>3, <2>4 DEF IInv
<1> QED
  BY <1>1, <1>2, <1>3, StopKeeps DEF Next

LEMMA AlwaysFits == Spec => []IInv
BY InitFits, StepsFit, PTL DEF Spec

\* However requests overlap and wherever they stop, the disk holds payloads that were pushed, the
\* manifest entries of the models, and each handler what its place in the code needs.
THEOREM LineageTypes == Spec => []LineageTypeOK
<1>1. IInv => LineageTypeOK
  <2> SUFFICES ASSUME IInv PROVE LineageTypeOK
    OBVIOUS
  <2>1. \A s \in Slots : \A n \in DOMAIN files[s] : n \in 1..MaxPayloads
    <3>1. Cardinality(sent) \in Nat /\ MaxPayloads \in Nat /\ Cardinality(sent) <= MaxPayloads
      BY FS_CardinalityType, LineageBounds DEF IInv, SentFits
    <3>2. \A n \in 1..Cardinality(sent) : n \in 1..MaxPayloads
      BY <3>1
    <3> QED
      BY <3>2 DEF IInv, DiskFits
  <2>2. None \notin [Models -> Entry] /\ \A p \in sent : p # None
    BY SentinelsAreNew DEF IInv, SentFits
  <2>3. manifest \in [Models -> Entry] /\ sent \subseteq Payload /\ stops \in 0..MaxStops
    BY DEF IInv, DiskFits, SentFits
  <2>4. \A s \in Slots : pending[s] \in sent \cup {None} /\ \A t \in DOMAIN files[s] : files[s][t] \in sent
    BY DEF IInv, DiskFits
  <2>5. ASSUME NEW h \in Handlers
        PROVE  /\ step[h] \in Labels /\ (step[h] = "idle" <=> payload[h] = None)
               /\ step[h] # "idle" => payload[h] \in sent /\ queue[h] # <<>>
               /\ copy[h] # None <=> step[h] \in {"indexing", "indexingPromoted", "rephasing"}
               /\ copy[h] # None => copy[h] \in [Models -> Entry]
    BY <2>2 DEF IInv, RequestsFit, RequestFits, HoldsCopy
  <2>6. step \in [Handlers -> Labels]
    BY <2>5 DEF IInv, RequestsFit
  <2> QED
    BY <2>1, <2>3, <2>4, <2>5, <2>6 DEF LineageTypeOK
<1> QED
  BY <1>1, AlwaysFits, PTL

\* Nothing of a push that was refused is live or in quarantine, whatever other requests do and
\* wherever one stops (finish_rooms).
THEOREM RefusalsLeaveNoTrace == Spec => []RefusedLeavesNoTrace
<1>1. IInv => RefusedLeavesNoTrace
  BY DEF IInv, DiskFits, Clean, RefusedLeavesNoTrace
<1> QED
  BY <1>1, AlwaysFits, PTL

\* Doors are stored for every model their push names or for none, with any number of requests side by
\* side that may disagree with it or push the same again, as long as none stops (check_opening_ingest).
THEOREM OpeningsAreWhole == Spec => []OpeningsStoredWhole
<1>1. IInv => OpeningsStoredWhole
  <2> SUFFICES ASSUME IInv, stops = 0, NEW p \in sent, p.kind \notin Quarantining
               PROVE  \/ \A i, j \in DOMAIN p.models :
                           (p.taken_at \in DOMAIN files[<<p.models[i], p.kind>>])
                             <=> (p.taken_at \in DOMAIN files[<<p.models[j], p.kind>>])
                      \/ \E h \in Handlers : payload[h] = p /\ step[h] \in {"storing", "indexing", "renaming"}
    BY DEF OpeningsStoredWhole
  <2>1. Whole(p)
    BY DEF IInv, WholeUnlessStopped
  <2> QED
    BY <2>1 DEF Whole, Named, FiledFor, Storing
<1> QED
  BY <1>1, AlwaysFits, PTL

----------------------------------------------------------------------------
(* Requests that come one at a time *)

OneAtATime == \A g, h \in Handlers : g = h

FiledSteps == {"filed", "rephasing", "clearing"}

\* What a request may rely on when no other is answered beside it.
Alone(h) ==
  /\ copy[h] # None => copy[h] = manifest
  /\ step[h] \in Promoting => pending[Slot(h)] = payload[h]
  /\ step[h] \in HoldsBytes => bytes[h] = payload[h]
  /\ step[h] \in {"renaming", "filing"} => Stamp(h) \in manifest[Model(h)].index[payload[h].kind]
  /\ step[h] \in FiledSteps => Filed(h)
  /\ step[h] \in {"indexing", "renaming"} => Model(h) \in live[h]
  /\ step[h] \in {"renaming", "clearing"} => manifest[Model(h)].phase = payload[h].phase
  /\ step[h] \in {"idle"} \cup Promoting => live[h] = {}
  /\ live[h] \subseteq Models
  /\ \A m \in live[h] : Agrees(manifest[m].phase, payload[h].phase)

FilesByTakenAt == \A s \in Slots : \A t \in DOMAIN files[s] : files[s][t].taken_at = t

PhasesAreWorn ==
  /\ worn = [m \in Models |-> worn[m]]
  /\ \A m \in Models : manifest[m].phase # NoPhase => manifest[m].phase \in worn[m]

\* Only what is being activated, in the model it is activated for, may be ahead of the lineage.
BeingActivated(s, p) == \E h \in Handlers : Slot(h) = s /\ payload[h] = p /\ step[h] \in {"filed", "rephasing"}
LiveIsWorn ==
  stops = 0 =>
    \A s \in Slots : \A t \in DOMAIN files[s] :
      files[s][t].phase \in worn[s[1]] \/ BeingActivated(s, files[s][t])

AloneFits ==
  (\A h \in Handlers : Alone(h)) /\ FilesByTakenAt /\ FiledIsIndexed /\ PhasesAreWorn /\ LiveIsWorn

\* What a request that is not idle works on.
LEMMA WorksOn ==
  ASSUME IInv, NEW h \in Handlers, step[h] # "idle"
  PROVE  /\ payload[h] \in sent /\ payload[h] # None /\ payload[h].kind \in Kinds
         /\ queue[h] \in Seq(Models) /\ queue[h] # <<>>
         /\ Model(h) \in Models /\ Slot(h) = <<Model(h), payload[h].kind>> /\ Slot(h) \in Slots
<1>1. payload[h] \in sent /\ queue[h] \in Seq(Models) /\ queue[h] # <<>>
  BY DEF IInv, RequestsFit, RequestFits
<1>2. Model(h) \in Models
  BY <1>1, OneLess DEF Model
<1>3. payload[h].kind \in Kinds /\ payload[h] # None
  BY <1>1, NamedAreModels DEF IInv
<1> QED
  BY <1>1, <1>2, <1>3 DEF Slot, Slots

\* A step that leaves the lineages and the files alone.
LEMMA AloneStays ==
  ASSUME OneAtATime, AloneFits, NEW h \in Handlers, Alone(h)', UNCHANGED <<manifest, files, worn>>,
         stops' = 0 => stops = 0,
         step[h] \in {"filed", "rephasing"} =>
           \/ stops' # 0
           \/ step'[h] \in {"filed", "rephasing"} /\ payload'[h] = payload[h] /\ queue'[h] = queue[h]
  PROVE  AloneFits'
<1>1. \A g \in Handlers : Alone(g)'
  BY DEF OneAtATime
<1>2. FilesByTakenAt' /\ FiledIsIndexed' /\ PhasesAreWorn'
  BY DEF AloneFits, FilesByTakenAt, FiledIsIndexed, PhasesAreWorn
<1>3. LiveIsWorn'
  <2> SUFFICES ASSUME stops' = 0, NEW s \in Slots, NEW t \in DOMAIN files[s], files[s][t].phase \notin worn[s[1]]
               PROVE  BeingActivated(s, files[s][t])'
    BY DEF LiveIsWorn, BeingActivated
  <2>1. BeingActivated(s, files[s][t])
    BY DEF AloneFits, LiveIsWorn
  <2>2. Slot(h) = s /\ payload[h] = files[s][t] /\ step[h] \in {"filed", "rephasing"}
    BY <2>1 DEF BeingActivated, OneAtATime
  <2> QED
    BY <2>2 DEF BeingActivated, Slot, Model
<1> QED
  BY <1>1, <1>2, <1>3 DEF AloneFits

LEMMA AnswerAlone ==
  ASSUME RequestsFit, NEW h \in Handlers, Answer(h)
  PROVE  Alone(h)'
<1>1. step'[h] = "idle" /\ live'[h] = {} /\ copy'[h] = None
  BY DEF RequestsFit, Answer, Goto
<1> QED
  BY <1>1 DEF Alone, Promoting, HoldsBytes, FiledSteps

LEMMA NextModelAlone ==
  ASSUME IInv, AloneFits, NEW h \in Handlers, step[h] \in {"storing", "renaming"}, NextModel(h, "storing"),
         UNCHANGED manifest
  PROVE  Alone(h)'
<1>1. CASE Answer(h)
  BY <1>1, AnswerAlone DEF IInv
<1>2. CASE ~Answer(h)
  <2>1. step' = [step EXCEPT ![h] = "storing"] /\ UNCHANGED <<payload, live, copy, bytes>>
    BY <1>2 DEF NextModel, Goto
  <2>2. step'[h] = "storing" /\ copy[h] = None
    BY <2>1 DEF IInv, RequestsFit, RequestFits, HoldsCopy
  <2> QED
    BY <2>1, <2>2 DEF AloneFits, Alone, Promoting, HoldsBytes, FiledSteps, Agrees
<1> QED
  BY <1>1, <1>2

\* A write of the manifest changes the lineage of the request's model and no other.
LEMMA LineageMoves ==
  ASSUME IInv, AloneFits, NEW h \in Handlers, NEW entry \in Entry, step[h] \in HoldsCopy, WriteBack(h, entry),
         UNCHANGED files, \A k \in Kinds : manifest[Model(h)].index[k] \subseteq entry.index[k]
  PROVE  /\ manifest \in [Models -> Entry] /\ manifest' = [manifest EXCEPT ![Model(h)] = entry]
         /\ Model(h) \in Models /\ manifest'[Model(h)] = entry
         /\ \A m \in Models \ {Model(h)} : manifest'[m] = manifest[m]
         /\ FiledIsIndexed' /\ PhasesAreWorn'
         /\ \A m \in Models : worn[m] \subseteq worn'[m]
         /\ entry.phase # NoPhase => entry.phase \in worn'[Model(h)]
<1>1. copy[h] = manifest /\ manifest \in [Models -> Entry]
  <2>1. copy[h] \in [Models -> Entry]
    BY DEF IInv, RequestsFit, RequestFits
  <2>2. manifest \in [Models -> Entry]
    BY DEF IInv, DiskFits
  <2> QED
    BY <2>1, <2>2, SentinelsAreNew DEF AloneFits, Alone
<1>2. Model(h) \in Models
  BY WorksOn DEF HoldsCopy
<1>3. manifest' = [manifest EXCEPT ![Model(h)] = entry]
  BY <1>1 DEF WriteBack
<1>4. manifest'[Model(h)] = entry /\ \A m \in Models \ {Model(h)} : manifest'[m] = manifest[m]
  BY <1>1, <1>2, <1>3
<1>5. worn' = [m \in Models |-> worn[m] \cup ({manifest'[m].phase} \ {NoPhase})]
  BY DEF WriteBack
<1>6. PhasesAreWorn' /\ \A m \in Models : worn[m] \subseteq worn'[m]
  BY <1>5 DEF PhasesAreWorn
<1>7. FiledIsIndexed'
  <2> SUFFICES ASSUME NEW s \in Slots PROVE DOMAIN files[s] \subseteq manifest'[s[1]].index[s[2]]
    BY DEF FiledIsIndexed
  <2>1. s[1] \in Models /\ s[2] \in Kinds /\ DOMAIN files[s] \subseteq manifest[s[1]].index[s[2]]
    BY DEF AloneFits, FiledIsIndexed, Slots
  <2>2. CASE s[1] = Model(h)
    BY <1>4, <2>1, <2>2
  <2>3. CASE s[1] # Model(h)
    BY <1>4, <2>1, <2>3
  <2> QED
    BY <2>2, <2>3
<1>8. entry.phase # NoPhase => entry.phase \in worn'[Model(h)]
  BY <1>2, <1>4, <1>5
<1> QED
  BY <1>1, <1>2, <1>3, <1>4, <1>6, <1>7, <1>8

\* The entry that a request indexes into keeps its phase, or takes the first.
LEMMA IndexedGrows ==
  ASSUME NEW entry \in Entry, NEW p \in Payload
  PROVE  /\ Indexed(entry, p).phase = IF entry.phase = NoPhase THEN p.phase ELSE entry.phase
         /\ \A k \in Kinds : entry.index[k] \subseteq Indexed(entry, p).index[k]
         /\ p.taken_at \in Indexed(entry, p).index[p.kind]
<1>1. p.kind \in Kinds
  BY PayloadFields
<1>2. entry.index \in [Kinds -> SUBSET (1..MaxPayloads)]
  BY DEF Entry
<1>3. /\ Indexed(entry, p).phase = IF entry.phase = NoPhase THEN p.phase ELSE entry.phase
      /\ Indexed(entry, p).index = [entry.index EXCEPT ![p.kind] = @ \cup {p.taken_at}]
  BY DEF Indexed, Entry
<1> QED
  BY <1>1, <1>2, <1>3

LEMMA IndexAlone ==
  ASSUME OneAtATime, IInv, AloneFits, NEW h \in Handlers, IndexPush(h) \/ IndexPromoted(h)
  PROVE  /\ AloneFits'
         /\ \A m \in Models : manifest[m].phase # NoPhase => manifest'[m].phase = manifest[m].phase
<1> DEFINE p == payload[h]
           entry == Indexed(copy[h][Model(h)], p)
<1>1. PICK from, to : /\ \/ from = "indexing" /\ to = "renaming" /\ IndexPush(h)
                         \/ from = "indexingPromoted" /\ to = "filing" /\ IndexPromoted(h)
                      /\ WriteIndex(h, from, to)
  BY DEF IndexPush, IndexPromoted
<1>2. /\ step[h] = from /\ WriteBack(h, entry) /\ step' = [step EXCEPT ![h] = to]
      /\ UNCHANGED <<files, pending, payload, queue, live, bytes, sent, stops>>
  BY <1>1 DEF WriteIndex, Goto
<1>3. /\ p \in sent /\ p \in Payload /\ p # None /\ Clean(p) /\ Model(h) \in Models
      /\ copy[h] = manifest /\ manifest \in [Models -> Entry] /\ step'[h] = to /\ copy'[h] = None
  <2>1. p \in sent /\ p # None /\ Model(h) \in Models
    BY <1>1, <1>2, WorksOn
  <2>2. copy[h] \in [Models -> Entry] /\ Clean(p)
    BY <1>1, <1>2 DEF IInv, RequestsFit, RequestFits, HoldsCopy, Storing, Promoting
  <2>3. copy[h] = manifest
    BY <2>2, SentinelsAreNew DEF AloneFits, Alone
  <2>4. step'[h] = to /\ copy'[h] = None
    BY <1>2 DEF WriteBack, IInv, RequestsFit
  <2> QED
    BY <2>1, <2>2, <2>3, <2>4 DEF IInv, SentFits
<1>4. manifest[Model(h)] \in Entry
  BY <1>3
<1>5. /\ entry \in Entry
      /\ entry.phase = IF manifest[Model(h)].phase = NoPhase THEN p.phase ELSE manifest[Model(h)].phase
      /\ \A k \in Kinds : manifest[Model(h)].index[k] \subseteq entry.index[k]
      /\ p.taken_at \in entry.index[p.kind]
  BY <1>3, <1>4, IndexedIsEntry, IndexedGrows
<1> HIDE DEF entry
<1>6. /\ manifest'[Model(h)] = entry /\ \A m \in Models \ {Model(h)} : manifest'[m] = manifest[m]
      /\ FiledIsIndexed' /\ PhasesAreWorn' /\ \A m \in Models : worn[m] \subseteq worn'[m]
  BY <1>1, <1>2, <1>5, LineageMoves DEF HoldsCopy
<1>7. \A m \in Models : manifest[m].phase # NoPhase => manifest'[m].phase = manifest[m].phase
  BY <1>5, <1>6
<1>8. Alone(h) /\ live[h] \subseteq Models
  BY DEF AloneFits, Alone
<1>9. \A m \in live[h] : Agrees(manifest'[m].phase, p.phase)
  <2> SUFFICES ASSUME NEW m \in live[h] PROVE manifest'[m].phase \in {NoPhase, p.phase}
    BY DEF Agrees
  <2>1. m \in Models /\ manifest[m].phase \in {NoPhase, p.phase}
    BY <1>8 DEF Alone, Agrees
  <2>2. CASE m = Model(h)
    BY <1>5, <1>6, <2>1, <2>2
  <2>3. CASE m # Model(h)
    BY <1>6, <2>1, <2>3
  <2> QED
    BY <2>2, <2>3
<1>10. to = "renaming" => Model(h) \in live[h] /\ entry.phase = p.phase
  <2> SUFFICES ASSUME to = "renaming" PROVE Model(h) \in live[h] /\ entry.phase = p.phase
    OBVIOUS
  <2>1. Model(h) \in live[h]
    BY <1>1, <1>2, <1>8 DEF Alone
  <2>2. manifest[Model(h)].phase \in {NoPhase, p.phase}
    BY <1>8, <2>1 DEF Alone, Agrees
  <2> QED
    BY <1>5, <2>1, <2>2
<1>11. Alone(h)'
  <2>1. to = "filing" => pending[Slot(h)] = p /\ bytes[h] = p
    BY <1>1, <1>2, <1>8 DEF Alone, Promoting, HoldsBytes
  <2>2. to = "filing" => live[h] = {}
    BY <1>1, <1>2, <1>8 DEF Alone, Promoting
  <2>3. Slot(h)' = Slot(h) /\ Stamp(h)' = p.taken_at /\ Model(h)' = Model(h)
    BY <1>2 DEF Slot, Stamp, Model
  <2> QED
    BY <1>1, <1>2, <1>3, <1>5, <1>6, <1>8, <1>9, <1>10, <2>1, <2>2, <2>3
       DEF Alone, Promoting, HoldsBytes, FiledSteps
<1>12. FilesByTakenAt'
  BY <1>2 DEF AloneFits, FilesByTakenAt
<1>13. LiveIsWorn'
  <2> SUFFICES ASSUME stops = 0, NEW s \in Slots, NEW t \in DOMAIN files[s]
               PROVE  files[s][t].phase \in worn'[s[1]]
    BY <1>2 DEF LiveIsWorn
  <2>1. ~BeingActivated(s, files[s][t])
    BY <1>1, <1>2 DEF BeingActivated, OneAtATime
  <2>2. files[s][t].phase \in worn[s[1]]
    BY <2>1 DEF AloneFits, LiveIsWorn
  <2> QED
    BY <1>6, <2>2 DEF Slots
<1> QED
  BY <1>6, <1>7, <1>11, <1>12, <1>13 DEF AloneFits, OneAtATime

LEMMA RephaseAlone ==
  ASSUME OneAtATime, IInv, AloneFits, NEW h \in Handlers, Rephase(h)
  PROVE  /\ AloneFits'
         /\ \A m \in Models \ {Model(h)} : manifest'[m] = manifest[m]
<1> DEFINE p == payload[h]
           entry == [copy[h][Model(h)] EXCEPT !.phase = p.phase]
<1>1. /\ step[h] = "rephasing" /\ WriteBack(h, entry) /\ step' = [step EXCEPT ![h] = "clearing"]
      /\ UNCHANGED <<files, pending, payload, queue, live, bytes, sent, stops>>
  BY DEF Rephase, Goto
<1>2. /\ p \in sent /\ p \in Payload /\ Clean(p) /\ Model(h) \in Models
      /\ copy[h] = manifest /\ manifest \in [Models -> Entry] /\ step'[h] = "clearing" /\ copy'[h] = None
  <2>1. p \in sent /\ Clean(p) /\ Model(h) \in Models
    BY <1>1, PromotesRooms DEF Promoting
  <2>2. copy[h] \in [Models -> Entry]
    BY <1>1 DEF IInv, RequestsFit, RequestFits, HoldsCopy
  <2>3. copy[h] = manifest
    BY <2>2, SentinelsAreNew DEF AloneFits, Alone
  <2>4. step'[h] = "clearing" /\ copy'[h] = None
    BY <1>1 DEF WriteBack, IInv, RequestsFit
  <2> QED
    BY <2>1, <2>2, <2>3, <2>4 DEF IInv, SentFits
<1>3. /\ entry \in Entry /\ entry.phase = p.phase /\ entry.phase # NoPhase
      /\ entry.index = manifest[Model(h)].index
  <2>1. p.phase \in Phases \cup {NoPhase}
    BY <1>2, PayloadFields
  <2> QED
    BY <1>2, <2>1 DEF Entry, Clean
<1> HIDE DEF entry
<1>4. /\ manifest'[Model(h)] = entry /\ \A m \in Models \ {Model(h)} : manifest'[m] = manifest[m]
      /\ FiledIsIndexed' /\ PhasesAreWorn' /\ \A m \in Models : worn[m] \subseteq worn'[m]
      /\ entry.phase \in worn'[Model(h)]
  BY <1>1, <1>3, LineageMoves DEF HoldsCopy
<1>5. Alone(h) /\ RequestFits(h)
  BY DEF AloneFits, IInv, RequestsFit
<1>6. pending[Slot(h)] = p /\ Filed(h) /\ live[h] = {}
  BY <1>1, <1>5 DEF Alone, Promoting, FiledSteps
<1>7. Slot(h)' = Slot(h) /\ Stamp(h)' = p.taken_at /\ Model(h)' = Model(h)
  BY <1>1 DEF Slot, Stamp, Model
<1>8. Alone(h)'
  BY <1>1, <1>2, <1>3, <1>4, <1>6, <1>7 DEF Alone, Promoting, HoldsBytes, FiledSteps, Filed, Stamp
<1>9. FilesByTakenAt'
  BY <1>1 DEF AloneFits, FilesByTakenAt
<1>10. LiveIsWorn'
  <2> SUFFICES ASSUME stops = 0, NEW s \in Slots, NEW t \in DOMAIN files[s]
               PROVE  files[s][t].phase \in worn'[s[1]]
    BY <1>1 DEF LiveIsWorn
  <2>1. CASE BeingActivated(s, files[s][t])
    <3>1. Slot(h) = s /\ p = files[s][t]
      BY <2>1 DEF BeingActivated, OneAtATime
    <3> QED
      BY <1>3, <1>4, <3>1 DEF Slot
  <2>2. CASE files[s][t].phase \in worn[s[1]]
    BY <1>4, <2>2 DEF Slots
  <2> QED
    BY <2>1, <2>2 DEF AloneFits, LiveIsWorn
<1> QED
  BY <1>4, <1>8, <1>9, <1>10 DEF AloneFits, OneAtATime

LEMMA PushStepsAlone ==
  ASSUME OneAtATime, IInv, AloneFits, NEW h \in Handlers,
         Receive(h) \/ Decide(h) \/ Publish(h) \/ Quarantine(h) \/ Skip(h) \/ Commit(h)
  PROVE  AloneFits'
<1>1. Alone(h) /\ RequestFits(h)
  BY DEF AloneFits, IInv, RequestsFit
<1>2. CASE Receive(h)
  <2>1. step[h] = "idle" /\ UNCHANGED <<disk, live, copy, bytes, worn, stops>>
    BY <1>2 DEF Receive
  <2>2. step'[h] = "deciding" /\ live'[h] = {} /\ copy'[h] = None
    BY <1>1, <1>2, <2>1 DEF Receive, Goto, IInv, RequestsFit, RequestFits, HoldsCopy, Alone
  <2>3. Alone(h)'
    BY <2>2 DEF Alone, Promoting, HoldsBytes, FiledSteps
  <2> QED
    BY <2>1, <2>3, AloneStays DEF disk
<1>3. CASE Decide(h)
  <2> DEFINE p == payload[h]
             lineage == manifest[Model(h)].phase
  <2>1. step[h] = "deciding" /\ UNCHANGED <<disk, sent, worn, stops>>
    BY <1>3 DEF Decide
  <2>2. CASE Answer(h)
    BY <2>1, <2>2, AnswerAlone, AloneStays DEF IInv, disk
  <2>3. CASE ~Answer(h)
    <3>1. /\ live' = [live EXCEPT ![h] = IF Agrees(lineage, p.phase) THEN @ \cup {Model(h)} ELSE @]
          /\ step' = [step EXCEPT ![h] = "reading"] \/ UNCHANGED step
          /\ UNCHANGED <<payload, copy, bytes>>
      BY <1>3, <2>3 DEF Decide, Goto
    <3>2. /\ step'[h] \in {"deciding", "reading"} /\ copy'[h] = None /\ payload'[h] = p
          /\ live'[h] = IF Agrees(lineage, p.phase) THEN live[h] \cup {Model(h)} ELSE live[h]
      BY <1>1, <2>1, <3>1 DEF IInv, RequestsFit, RequestFits, HoldsCopy
    <3>3. Model(h) \in Models /\ live[h] \subseteq Models /\ \A m \in live[h] : Agrees(manifest[m].phase, p.phase)
      BY <1>1, <2>1, WorksOn DEF Alone
    <3>4. live'[h] \subseteq Models /\ \A m \in live'[h] : Agrees(manifest[m].phase, p.phase)
      BY <3>2, <3>3
    <3>5. Alone(h)'
      BY <2>1, <3>2, <3>4 DEF Alone, Promoting, HoldsBytes, FiledSteps, Agrees, disk
    <3> QED
      BY <2>1, <3>5, AloneStays DEF disk
  <2> QED
    BY <2>2, <2>3
<1>4. CASE Publish(h)
  <2>1. step[h] = "reading" /\ UNCHANGED <<disk, sent, worn, stops>>
    BY <1>4 DEF Publish
  <2>2. CASE Answer(h)
    BY <2>1, <2>2, AnswerAlone, AloneStays DEF IInv, disk
  <2>3. CASE ~Answer(h)
    <3>1. step'[h] = "storing" /\ UNCHANGED <<payload, queue, live, copy, bytes>>
      BY <1>4, <2>3 DEF Publish, Goto, IInv, RequestsFit
    <3>2. Alone(h)'
      BY <1>1, <2>1, <3>1 DEF Alone, Promoting, HoldsBytes, FiledSteps, Agrees, disk
    <3> QED
      BY <2>1, <3>2, AloneStays DEF disk
  <2> QED
    BY <2>2, <2>3
<1>5. CASE Quarantine(h) \/ Skip(h)
  <2>1. /\ step[h] = "storing" /\ NextModel(h, "storing")
        /\ UNCHANGED <<manifest, files, worn, stops>>
    BY <1>5 DEF Quarantine, Skip, disk
  <2> QED
    BY <2>1, NextModelAlone, AloneStays
<1>6. CASE Commit(h)
  <2>1. /\ step[h] = "storing" /\ Model(h) \in live[h] /\ UNCHANGED <<disk, payload, queue, live, bytes, worn, stops>>
        /\ step'[h] = "indexing" /\ copy'[h] = manifest
    BY <1>6 DEF Commit, ReadManifest, Goto, IInv, RequestsFit
  <2>2. Alone(h)'
    BY <1>1, <2>1 DEF Alone, Promoting, HoldsBytes, FiledSteps, Agrees, disk, Model
  <2> QED
    BY <2>1, <2>2, AloneStays DEF disk
<1> QED
  BY <1>2, <1>3, <1>4, <1>5, <1>6

\* A file that is installed by the taken_at of its payload.
LEMMA InstallAlone ==
  ASSUME OneAtATime, IInv, AloneFits, NEW h \in Handlers, step[h] \in {"renaming", "filing"},
         Install(Slot(h), Stamp(h), payload[h]), UNCHANGED <<manifest, worn>>
  PROVE  /\ FilesByTakenAt' /\ FiledIsIndexed' /\ PhasesAreWorn'
         /\ Stamp(h) \in DOMAIN files'[Slot(h)] /\ files'[Slot(h)][Stamp(h)] = payload[h]
         /\ \A s \in Slots : \A t \in DOMAIN files'[s] :
              \/ s = Slot(h) /\ t = Stamp(h)
              \/ t \in DOMAIN files[s] /\ files'[s][t] = files[s][t]
<1> DEFINE p == payload[h]
           more == [t \in DOMAIN files[Slot(h)] \cup {Stamp(h)} |->
                      IF t = Stamp(h) THEN p ELSE files[Slot(h)][t]]
<1>1. Slot(h) \in Slots /\ Slot(h) = <<Model(h), p.kind>> /\ Stamp(h) = p.taken_at
  BY WorksOn DEF Stamp
<1>2. files' = [files EXCEPT ![Slot(h)] = more] /\ files = [s \in Slots |-> files[s]]
  BY DEF Install, IInv, DiskFits
<1>3. files'[Slot(h)] = more /\ \A s \in Slots \ {Slot(h)} : files'[s] = files[s]
  BY <1>1, <1>2
<1>4. /\ DOMAIN more = DOMAIN files[Slot(h)] \cup {Stamp(h)} /\ more[Stamp(h)] = p
      /\ \A t \in DOMAIN files[Slot(h)] : t # Stamp(h) => more[t] = files[Slot(h)][t]
  OBVIOUS
<1> HIDE DEF more
<1>5. \A s \in Slots : \A t \in DOMAIN files'[s] :
        \/ s = Slot(h) /\ t = Stamp(h)
        \/ t \in DOMAIN files[s] /\ files'[s][t] = files[s][t]
  BY <1>3, <1>4
<1>6. FilesByTakenAt'
  BY <1>1, <1>3, <1>4, <1>5 DEF AloneFits, FilesByTakenAt
<1>7. FiledIsIndexed'
  <2>1. Stamp(h) \in manifest[Model(h)].index[p.kind]
    BY DEF AloneFits, Alone
  <2> QED
    BY <1>1, <1>5, <2>1 DEF AloneFits, FiledIsIndexed
<1>8. PhasesAreWorn'
  BY DEF AloneFits, PhasesAreWorn
<1> QED
  BY <1>3, <1>4, <1>5, <1>6, <1>7, <1>8

LEMMA RenameAlone ==
  ASSUME OneAtATime, IInv, AloneFits, NEW h \in Handlers, Rename(h)
  PROVE  AloneFits'
<1> DEFINE p == payload[h]
<1>1. /\ step[h] = "renaming" /\ Install(Slot(h), Stamp(h), p) /\ NextModel(h, "storing")
      /\ UNCHANGED <<manifest, pending, sent, worn, stops>>
  BY DEF Rename
<1>2. /\ FilesByTakenAt' /\ FiledIsIndexed' /\ PhasesAreWorn' /\ files'[Slot(h)][Stamp(h)] = p
      /\ \A s \in Slots : \A t \in DOMAIN files'[s] :
           \/ s = Slot(h) /\ t = Stamp(h)
           \/ t \in DOMAIN files[s] /\ files'[s][t] = files[s][t]
  BY <1>1, InstallAlone
<1>3. Alone(h)'
  BY <1>1, NextModelAlone
<1>4. p.phase \in worn[Slot(h)[1]]
  <2>1. manifest[Model(h)].phase = p.phase /\ p.phase # NoPhase
    BY <1>1 DEF AloneFits, Alone, IInv, RequestsFit, RequestFits, Storing, Clean
  <2>2. Model(h) \in Models
    BY <1>1, WorksOn
  <2> QED
    BY <2>1, <2>2 DEF AloneFits, PhasesAreWorn, Slot
<1>5. LiveIsWorn'
  <2> SUFFICES ASSUME stops = 0, NEW s \in Slots, NEW t \in DOMAIN files'[s]
               PROVE  files'[s][t].phase \in worn[s[1]]
    BY <1>1 DEF LiveIsWorn
  <2>1. CASE s = Slot(h) /\ t = Stamp(h)
    BY <1>2, <1>4, <2>1
  <2>2. CASE t \in DOMAIN files[s] /\ files'[s][t] = files[s][t]
    <3>1. ~BeingActivated(s, files[s][t])
      BY <1>1 DEF BeingActivated, OneAtATime
    <3> QED
      BY <2>2, <3>1 DEF AloneFits, LiveIsWorn
  <2> QED
    BY <1>2, <2>1, <2>2
<1> QED
  BY <1>2, <1>3, <1>5 DEF AloneFits, OneAtATime

LEMMA FilePromotedAlone ==
  ASSUME OneAtATime, IInv, AloneFits, NEW h \in Handlers, FilePromoted(h)
  PROVE  AloneFits'
<1> DEFINE p == payload[h]
<1>1. /\ step[h] = "filing" /\ step' = [step EXCEPT ![h] = "filed"]
      /\ UNCHANGED <<manifest, pending, payload, queue, live, copy, bytes, sent, worn, stops>>
  BY DEF FilePromoted, Goto
<1>2. Alone(h) /\ RequestFits(h)
  BY DEF AloneFits, IInv, RequestsFit
<1>3. /\ step'[h] = "filed" /\ copy[h] = None /\ bytes[h] = p /\ pending[Slot(h)] = p /\ live[h] = {}
      /\ Slot(h)' = Slot(h) /\ Stamp(h)' = Stamp(h)
  <2>1. step'[h] = "filed" /\ copy[h] = None /\ bytes[h] = p
    BY <1>1, <1>2 DEF IInv, RequestsFit, RequestFits, HoldsCopy, HoldsBytes, Alone
  <2>2. pending[Slot(h)] = p /\ live[h] = {}
    BY <1>1, <1>2 DEF Alone, Promoting
  <2>3. Slot(h)' = Slot(h) /\ Stamp(h)' = Stamp(h)
    BY <1>1 DEF Slot, Stamp, Model
  <2> QED
    BY <2>1, <2>2, <2>3
<1>4. CASE Filed(h) /\ UNCHANGED files
  <2>1. Alone(h)'
    BY <1>1, <1>3, <1>4 DEF Alone, Promoting, HoldsBytes, FiledSteps, Filed
  <2> QED
    BY <1>1, <1>4, <2>1, AloneStays
<1>5. CASE Install(Slot(h), Stamp(h), p)
  <2>1. /\ FilesByTakenAt' /\ FiledIsIndexed' /\ PhasesAreWorn'
        /\ Stamp(h) \in DOMAIN files'[Slot(h)] /\ files'[Slot(h)][Stamp(h)] = p
        /\ \A s \in Slots : \A t \in DOMAIN files'[s] :
             \/ s = Slot(h) /\ t = Stamp(h)
             \/ t \in DOMAIN files[s] /\ files'[s][t] = files[s][t]
    BY <1>1, <1>5, InstallAlone
  <2>2. Alone(h)'
    BY <1>1, <1>3, <2>1 DEF Alone, Promoting, HoldsBytes, FiledSteps, Filed
  <2>3. LiveIsWorn'
    <3> SUFFICES ASSUME stops = 0, NEW s \in Slots, NEW t \in DOMAIN files'[s]
                 PROVE  \/ files'[s][t].phase \in worn[s[1]]
                        \/ Slot(h)' = s /\ payload'[h] = files'[s][t] /\ step'[h] = "filed"
      BY <1>1 DEF LiveIsWorn, BeingActivated
    <3>1. CASE s = Slot(h) /\ t = Stamp(h)
      BY <1>1, <1>3, <2>1, <3>1
    <3>2. CASE t \in DOMAIN files[s] /\ files'[s][t] = files[s][t]
      <4>1. ~BeingActivated(s, files[s][t])
        BY <1>1 DEF BeingActivated, OneAtATime
      <4> QED
        BY <3>2, <4>1 DEF AloneFits, LiveIsWorn
    <3> QED
      BY <2>1, <3>1, <3>2
  <2> QED
    BY <2>1, <2>2, <2>3 DEF AloneFits, OneAtATime
<1> QED
  BY <1>3, <1>4, <1>5 DEF FilePromoted

LEMMA ActivationAlone ==
  ASSUME OneAtATime, IInv, AloneFits, NEW h \in Handlers,
         Activate(h) \/ ReadPending(h) \/ ReadForPromoted(h) \/ ReadForPhase(h) \/ Clear(h)
  PROVE  AloneFits'
<1>1. Alone(h) /\ RequestFits(h)
  BY DEF AloneFits, IInv, RequestsFit
<1>2. CASE Activate(h)
  <2>1. PICK s \in Models \X (Kinds \cap Promotable) :
          /\ pending[s] # None
          /\ payload' = [payload EXCEPT ![h] = pending[s]] /\ queue' = [queue EXCEPT ![h] = <<s[1]>>]
    BY <1>2 DEF Activate
  <2>2. /\ step[h] = "idle" /\ UNCHANGED <<disk, live, copy, bytes, sent, worn, stops>>
        /\ step'[h] = "promoting" /\ payload'[h] = pending[s] /\ queue'[h] = <<s[1]>>
    BY <1>2, <2>1 DEF Activate, Goto, IInv, RequestsFit
  <2>3. s \in Slots /\ s = <<s[1], s[2]>>
    BY DEF Slots
  <2>4. pending[s].kind = s[2]
    BY <2>1, <2>3 DEF IInv, DiskFits
  <2>5. Slot(h)' = s
    BY <2>2, <2>3, <2>4 DEF Slot, Model
  <2>6. copy[h] = None /\ live[h] = {}
    BY <1>1, <2>2 DEF Alone, RequestFits, HoldsCopy
  <2>7. Alone(h)'
    BY <2>2, <2>5, <2>6 DEF Alone, Promoting, HoldsBytes, FiledSteps, disk
  <2> QED
    BY <2>2, <2>7, AloneStays DEF disk
<1>3. CASE ReadPending(h)
  <2>1. step[h] = "promoting" /\ UNCHANGED <<disk, sent, worn, stops>>
    BY <1>3 DEF ReadPending
  <2>2. CASE Answer(h)
    BY <2>1, <2>2, AnswerAlone, AloneStays DEF IInv, disk
  <2>3. CASE ~Answer(h)
    <3>1. /\ step'[h] = "promoted" /\ bytes'[h] = pending[Slot(h)] /\ UNCHANGED <<payload, queue, live, copy>>
      BY <1>3, <2>3 DEF ReadPending, Goto, IInv, RequestsFit
    <3>2. pending[Slot(h)] = payload[h] /\ copy[h] = None /\ live[h] = {}
      BY <1>1, <2>1 DEF Alone, Promoting, RequestFits, HoldsCopy
    <3>3. Slot(h)' = Slot(h)
      BY <3>1 DEF Slot, Model
    <3>4. Alone(h)'
      BY <2>1, <3>1, <3>2, <3>3 DEF Alone, Promoting, HoldsBytes, FiledSteps, disk
    <3> QED
      BY <2>1, <3>4, AloneStays DEF disk
  <2> QED
    BY <2>2, <2>3
<1>4. CASE ReadForPromoted(h)
  <2>1. /\ step[h] = "promoted" /\ UNCHANGED <<disk, payload, queue, live, bytes, worn, stops>>
        /\ step'[h] = "indexingPromoted" /\ copy'[h] = manifest
    BY <1>4 DEF ReadForPromoted, ReadManifest, Goto, IInv, RequestsFit
  <2>2. pending[Slot(h)] = payload[h] /\ bytes[h] = payload[h] /\ live[h] = {}
    BY <1>1, <2>1 DEF Alone, Promoting, HoldsBytes
  <2>3. Slot(h)' = Slot(h)
    BY <2>1 DEF Slot, Model
  <2>4. Alone(h)'
    BY <2>1, <2>2, <2>3 DEF Alone, Promoting, HoldsBytes, FiledSteps, disk
  <2> QED
    BY <2>1, <2>4, AloneStays DEF disk
<1>5. CASE ReadForPhase(h)
  <2>1. /\ step[h] = "filed" /\ UNCHANGED <<disk, payload, queue, live, bytes, worn, stops>>
        /\ step'[h] = "rephasing" /\ copy'[h] = manifest
    BY <1>5 DEF ReadForPhase, ReadManifest, Goto, IInv, RequestsFit
  <2>2. pending[Slot(h)] = payload[h] /\ Filed(h) /\ live[h] = {}
    BY <1>1, <2>1 DEF Alone, Promoting, FiledSteps
  <2>3. Slot(h)' = Slot(h) /\ Filed(h)' = Filed(h)
    BY <2>1 DEF Slot, Model, Filed, Stamp, disk
  <2>4. Alone(h)'
    BY <2>1, <2>2, <2>3 DEF Alone, Promoting, HoldsBytes, FiledSteps, disk
  <2> QED
    BY <2>1, <2>4, AloneStays DEF disk
<1>6. CASE Clear(h)
  <2>1. step[h] = "clearing" /\ Answer(h) /\ UNCHANGED <<manifest, files, sent, worn, stops>>
    BY <1>6 DEF Clear
  <2> QED
    BY <2>1, AnswerAlone, AloneStays DEF IInv
<1> QED
  BY <1>2, <1>3, <1>4, <1>5, <1>6

LEMMA StopAlone ==
  ASSUME OneAtATime, IInv, AloneFits, NEW h \in Handlers, Stop(h)
  PROVE  AloneFits'
<1>1. stops < MaxStops /\ stops' = stops + 1 /\ Answer(h) /\ UNCHANGED <<disk, worn>>
  BY DEF Stop
<1>2. stops' # 0
  BY <1>1, LineageBounds DEF IInv
<1> QED
  BY <1>1, <1>2, AnswerAlone, AloneStays DEF IInv, disk

LEMMA InitAlone == Init => AloneFits
<1> SUFFICES ASSUME Init PROVE AloneFits
  OBVIOUS
<1>1. /\ \A h \in Handlers : step[h] = "idle" /\ live[h] = {} /\ copy[h] = None
      /\ \A s \in Slots : DOMAIN files[s] = {}
      /\ \A m \in Models : manifest[m].phase = NoPhase
      /\ worn = [m \in Models |-> worn[m]]
  BY DEF Init
<1>2. \A h \in Handlers : Alone(h)
  BY <1>1 DEF Alone, Promoting, HoldsBytes, FiledSteps
<1> QED
  BY <1>1, <1>2 DEF AloneFits, FilesByTakenAt, FiledIsIndexed, PhasesAreWorn, LiveIsWorn

LEMMA StepsAlone ==
  ASSUME OneAtATime
  PROVE  IInv /\ AloneFits /\ [Next]_vars => AloneFits'
<1> SUFFICES ASSUME IInv, AloneFits, [Next]_vars PROVE AloneFits'
  OBVIOUS
<1>1. ASSUME NEW h \in Handlers, Push(h) PROVE AloneFits'
  BY <1>1, PushStepsAlone, IndexAlone, RenameAlone DEF Push
<1>2. ASSUME NEW h \in Handlers, Promote(h) PROVE AloneFits'
  BY <1>2, ActivationAlone, IndexAlone, FilePromotedAlone, RephaseAlone DEF Promote
<1>3. CASE UNCHANGED vars
  <2>1. UNCHANGED <<manifest, files, pending, step, payload, queue, live, copy, bytes, worn, stops>>
    BY <1>3 DEF vars, disk, request
  <2>2. ASSUME NEW h \in Handlers PROVE Alone(h)'
    <3>1. Alone(h) /\ Slot(h)' = Slot(h) /\ Model(h)' = Model(h) /\ Stamp(h)' = Stamp(h) /\ Filed(h)' = Filed(h)
      BY <2>1 DEF AloneFits, Slot, Model, Stamp, Filed
    <3> QED
      BY <2>1, <3>1 DEF Alone, Agrees
  <2>3. FilesByTakenAt' /\ FiledIsIndexed' /\ PhasesAreWorn'
    BY <2>1 DEF AloneFits, FilesByTakenAt, FiledIsIndexed, PhasesAreWorn
  <2>4. LiveIsWorn'
    BY <2>1 DEF AloneFits, LiveIsWorn, BeingActivated, Slot, Model
  <2> QED
    BY <2>2, <2>3, <2>4 DEF AloneFits
<1> QED
  BY <1>1, <1>2, <1>3, StopAlone DEF Next

LEMMA AlwaysAlone ==
  ASSUME OneAtATime
  PROVE  Spec => [](IInv /\ AloneFits)
<1>1. Init => IInv /\ AloneFits
  BY InitFits, InitAlone
<1>2. (IInv /\ AloneFits) /\ [Next]_vars => (IInv /\ AloneFits)'
  BY StepsFit, StepsAlone
<1> QED
  BY <1>1, <1>2, PTL DEF Spec

\* One request at a time, whatever is filed is indexed, also when a request stopped before its file
\* was in place ("the manifest always mirrors what is on disk").
THEOREM FiledAreIndexed ==
  ASSUME OneAtATime
  PROVE  Spec => []FiledIsIndexed
<1>1. IInv /\ AloneFits => FiledIsIndexed
  BY DEF AloneFits
<1> QED
  BY <1>1, AlwaysAlone, PTL

\* One request at a time and none stopped half way, what is live in a lineage names a phase that the
\* lineage had or is moving to (index_snapshot).
THEOREM LiveIsOfThePhase ==
  ASSUME OneAtATime
  PROVE  Spec => []LiveAgreesWithLineage
<1>1. IInv /\ AloneFits => LiveAgreesWithLineage
  BY DEF AloneFits, LiveIsWorn, BeingActivated, LiveAgreesWithLineage
<1> QED
  BY <1>1, AlwaysAlone, PTL

\* One request at a time, only the activation of a model moves a phase that is fixed (promote_pending).
THEOREM PhaseStaysFixed ==
  ASSUME OneAtATime
  PROVE  Spec => PhaseFixed
<1> DEFINE Fixed ==
      \A m \in Models :
        manifest[m].phase \notin {NoPhase, manifest'[m].phase} =>
          \E h \in Handlers : step[h] = "rephasing" /\ Model(h) = m
<1>1. IInv /\ AloneFits /\ [Next]_vars => [Fixed]_vars
  <2> SUFFICES ASSUME IInv, AloneFits, [Next]_vars PROVE Fixed
    OBVIOUS
  <2>1. ASSUME NEW h \in Handlers, IndexPush(h) \/ IndexPromoted(h) PROVE Fixed
    BY <2>1, IndexAlone
  <2>2. ASSUME NEW h \in Handlers, Rephase(h) PROVE Fixed
    <3>1. step[h] = "rephasing"
      BY <2>2 DEF Rephase
    <3> QED
      BY <2>2, <3>1, RephaseAlone
  <2>3. CASE UNCHANGED manifest
    BY <2>3
  <2>4. ASSUME NEW h \in Handlers, Push(h) PROVE UNCHANGED manifest \/ IndexPush(h)
    BY <2>4 DEF Push, Receive, Decide, Publish, Quarantine, Skip, Commit, ReadManifest, Rename, disk
  <2>5. ASSUME NEW h \in Handlers, Promote(h) PROVE UNCHANGED manifest \/ IndexPromoted(h) \/ Rephase(h)
    BY <2>5 DEF Promote, Activate, ReadPending, ReadForPromoted, ReadForPhase, ReadManifest, FilePromoted, Clear, disk
  <2>6. ASSUME NEW h \in Handlers, Stop(h) PROVE UNCHANGED manifest
    BY <2>6 DEF Stop, disk
  <2> HIDE DEF Fixed
  <2> QED
    BY <2>1, <2>2, <2>3, <2>4, <2>5, <2>6 DEF Next, vars, disk
<1> QED
  BY <1>1, AlwaysAlone, PTL DEF Spec, PhaseFixed

\* What a request that clears the quarantine leaves behind.
LEMMA ClearedIsLive ==
  ASSUME IInv, AloneFits, NEW h \in Handlers, step[h] = "clearing"
  PROVE  /\ pending[Slot(h)] = payload[h]
         /\ Stamp(h) \in DOMAIN files[Slot(h)] /\ files[Slot(h)][Stamp(h)] = payload[h]
         /\ manifest[Model(h)].phase = payload[h].phase
<1>1. Slot(h) \in Slots /\ payload[h] \in sent /\ Alone(h)
  BY WorksOn DEF AloneFits
<1>2. /\ pending[Slot(h)] = payload[h] /\ Stamp(h) \in DOMAIN files[Slot(h)]
      /\ manifest[Model(h)].phase = payload[h].phase
  BY <1>1 DEF Alone, Promoting, FiledSteps, Filed
<1>3. files[Slot(h)][Stamp(h)] \in sent /\ files[Slot(h)][Stamp(h)].taken_at = payload[h].taken_at
  BY <1>1, <1>2 DEF IInv, DiskFits, AloneFits, FilesByTakenAt, Stamp
<1>4. files[Slot(h)][Stamp(h)] = payload[h]
  BY <1>1, <1>3 DEF IInv, SentFits
<1> QED
  BY <1>2, <1>4

\* One request at a time, a quarantined payload is given up for a newer one, or once it is filed and
\* is the lineage's phase, wherever an activation stops ("only after the snapshot and manifest are
\* both committed", promote_pending).
THEOREM ClearedLast ==
  ASSUME OneAtATime
  PROVE  Spec => ClearedOnceLive
<1> DEFINE Gone(s) == pending[s] # None /\ pending'[s] = None
           Live(s) ==
             /\ pending[s].taken_at \in DOMAIN files[s]
             /\ files[s][pending[s].taken_at] = pending[s]
             /\ manifest[s[1]].phase = pending[s].phase
           Last == \A s \in Slots : Gone(s) => Live(s)
<1>1. IInv /\ AloneFits /\ [Next]_vars => [Last]_vars
  <2> SUFFICES ASSUME IInv, AloneFits, [Next]_vars, NEW s \in Slots, Gone(s) PROVE Live(s)
    OBVIOUS
  <2>1. ASSUME NEW h \in Handlers, Clear(h) PROVE Live(s)
    <3>1. step[h] = "clearing" /\ pending' = [pending EXCEPT ![Slot(h)] = None]
      BY <2>1 DEF Clear
    <3>2. s = Slot(h)
      BY <3>1 DEF IInv, DiskFits
    <3>3. Stamp(h) = payload[h].taken_at /\ Slot(h)[1] = Model(h)
      BY DEF Stamp, Slot
    <3> QED
      BY <3>1, <3>2, <3>3, ClearedIsLive
  <2>2. ASSUME NEW h \in Handlers, Quarantine(h) PROVE FALSE
    <3>1. pending' = [pending EXCEPT ![Slot(h)] = payload[h]] /\ step[h] = "storing"
      BY <2>2 DEF Quarantine
    <3>2. payload[h] # None
      BY <3>1, WorksOn
    <3> QED
      BY <3>1, <3>2 DEF IInv, DiskFits
  <2>3. ASSUME NEW h \in Handlers, Push(h) PROVE UNCHANGED pending \/ Quarantine(h)
    BY <2>3 DEF Push, Receive, Decide, Publish, Skip, Commit, ReadManifest, IndexPush, WriteIndex, Rename, disk
  <2>4. ASSUME NEW h \in Handlers, Promote(h) PROVE UNCHANGED pending \/ Clear(h)
    BY <2>4 DEF Promote, Activate, ReadPending, ReadForPromoted, ReadForPhase, ReadManifest, IndexPromoted,
                WriteIndex, FilePromoted, Rephase, disk
  <2>5. ASSUME NEW h \in Handlers, Stop(h) PROVE UNCHANGED pending
    BY <2>5 DEF Stop, disk
  <2> QED
    BY <2>1, <2>2, <2>3, <2>4, <2>5 DEF Next, vars, disk
<1> QED
  BY <1>1, AlwaysAlone, PTL DEF Spec, ClearedOnceLive

----------------------------------------------------------------------------
(* Requests that come one at a time implement PhasedLineage *)

PhaseVars == <<[m \in Models |-> manifest[m].phase], files, pending>>

\* What was decided of the models of a push still holds: those it was not accepted for disagree, and
\* what is to be filed is not.
Pushing == {"deciding", "reading"} \cup Storing
DecisionsStand(h) ==
  step[h] \in Pushing =>
    /\ Ahead(h) \subseteq Named(payload[h])
    /\ \A m \in Named(payload[h]) \ live[h] :
         \/ step[h] = "deciding" /\ m \in Ahead(h)
         \/ ~Agrees(manifest[m].phase, payload[h].phase)
    /\ step[h] \in {"indexing", "renaming"} => ~Filed(h)

PhasedFits == sent \subseteq Offered /\ \A h \in Handlers : DecisionsStand(h)

\* A request that goes on, or answers, over a manifest that stays.
LEMMA GoingOnDecided ==
  ASSUME IInv, PhasedFits, NEW h \in Handlers, step[h] \in {"storing", "renaming"}, NextModel(h, "storing"),
         UNCHANGED manifest
  PROVE  DecisionsStand(h)'
<1>1. CASE Answer(h)
  <2>1. step'[h] = "idle"
    BY <1>1, AnswerFits DEF IInv
  <2> QED
    BY <2>1 DEF DecisionsStand, Pushing, Storing
<1>2. CASE ~Answer(h)
  <2>1. /\ Len(queue[h]) # 1 /\ queue' = [queue EXCEPT ![h] = Tail(@)] /\ UNCHANGED <<payload, live>>
    BY <1>2 DEF NextModel
  <2>2. /\ queue[h] \in Seq(Models) /\ queue[h] # <<>> /\ queue'[h] = Tail(queue[h])
    BY <2>1 DEF IInv, RequestsFit, RequestFits
  <2>3. Ahead(h)' \subseteq Ahead(h)
    BY <2>1, <2>2, GoingOn
  <2>4. DecisionsStand(h) /\ step[h] \in Pushing /\ step[h] # "deciding"
    BY DEF PhasedFits, Pushing, Storing
  <2>5. Named(payload[h])' = Named(payload[h])
    BY <2>1 DEF Named
  <2>6. step'[h] = "storing"
    BY <1>2 DEF NextModel, Goto, IInv, RequestsFit
  <2> QED
    BY <2>1, <2>3, <2>4, <2>5, <2>6 DEF DecisionsStand
<1> QED
  BY <1>1, <1>2

\* A request whose models and decisions stay, over a manifest that stays.
LEMMA StayingDecided ==
  ASSUME PhasedFits, NEW h \in Handlers, step[h] \in Pushing, step[h] # "deciding", step'[h] \in {"storing", "indexing"},
         step'[h] = "indexing" => ~Filed(h), UNCHANGED <<payload, queue, live, manifest, files>>
  PROVE  DecisionsStand(h)'
<1>1. DecisionsStand(h) /\ Ahead(h)' = Ahead(h) /\ Named(payload[h])' = Named(payload[h])
  BY DEF PhasedFits, Ahead, Named
<1>2. Filed(h)' = Filed(h)
  BY DEF Filed, Slot, Model, Stamp
<1> QED
  BY <1>1, <1>2 DEF DecisionsStand

LEMMA DecideDecides ==
  ASSUME IInv, PhasedFits, NEW h \in Handlers, Decide(h), ~Answer(h)
  PROVE  DecisionsStand(h)'
<1> DEFINE p == payload[h]
           agrees == Agrees(manifest[Model(h)].phase, p.phase)
<1>1. /\ step[h] = "deciding" /\ UNCHANGED <<payload, manifest>>
      /\ live' = [live EXCEPT ![h] = IF agrees THEN @ \cup {Model(h)} ELSE @]
      /\ \/ Len(queue[h]) = 1 /\ step' = [step EXCEPT ![h] = "reading"] /\ queue' = [queue EXCEPT ![h] = p.models]
         \/ Len(queue[h]) # 1 /\ UNCHANGED step /\ queue' = [queue EXCEPT ![h] = Tail(@)]
  BY DEF Decide, Goto, disk
<1>2. /\ queue[h] \in Seq(Models) /\ queue[h] # <<>>
      /\ live'[h] = IF agrees THEN live[h] \cup {Model(h)} ELSE live[h]
  BY <1>1 DEF IInv, RequestsFit, RequestFits
<1>3. /\ Ahead(h) \subseteq Named(p)
      /\ \A m \in Named(p) \ live[h] : m \in Ahead(h) \/ ~Agrees(manifest[m].phase, p.phase)
  BY <1>1 DEF PhasedFits, DecisionsStand, Pushing
<1>4. Named(p)' = Named(p)
  BY <1>1 DEF Named
<1>5. \A m \in Named(p) \ live'[h] : m = Model(h) => ~Agrees(manifest[m].phase, p.phase)
  BY <1>2
<1>6. CASE Len(queue[h]) = 1
  <2>1. step'[h] = "reading" /\ queue'[h] = p.models
    BY <1>1, <1>6 DEF IInv, RequestsFit
  <2>2. Ahead(h) = {Model(h)}
    BY <1>2, <1>6, OneLess DEF Ahead, Model
  <2>3. Ahead(h)' = Named(p)
    BY <2>1 DEF Ahead, Named
  <2>4. \A m \in Named(p) \ live'[h] : ~Agrees(manifest[m].phase, p.phase)
    BY <1>2, <1>3, <1>5, <2>2
  <2> HIDE DEF p, agrees
  <2> QED
    BY <1>1, <1>4, <2>1, <2>3, <2>4 DEF DecisionsStand, p
<1>7. CASE Len(queue[h]) # 1
  <2>1. step'[h] = "deciding" /\ queue'[h] = Tail(queue[h])
    BY <1>1, <1>7 DEF IInv, RequestsFit
  <2>2. Ahead(h) \subseteq {Model(h)} \cup Ahead(h)' /\ Ahead(h)' \subseteq Ahead(h)
    BY <1>2, <1>7, <2>1, GoingOn
  <2>3. \A m \in Named(p) \ live'[h] : m \in Ahead(h)' \/ ~Agrees(manifest[m].phase, p.phase)
    BY <1>2, <1>3, <1>5, <2>2
  <2> HIDE DEF p, agrees
  <2> QED
    BY <1>1, <1>3, <1>4, <2>1, <2>2, <2>3 DEF DecisionsStand, p
<1> QED
  BY <1>6, <1>7

\* An index that is written fixes no lineage but that of the request's model, which was accepted.
LEMMA IndexDecided ==
  ASSUME OneAtATime, IInv, AloneFits, PhasedFits, NEW h \in Handlers, IndexPush(h)
  PROVE  DecisionsStand(h)'
<1>1. /\ step[h] = "indexing" /\ step'[h] = "renaming" /\ UNCHANGED <<payload, queue, live>>
      /\ manifest' = [copy[h] EXCEPT ![Model(h)] = Indexed(copy[h][Model(h)], payload[h])]
  BY DEF IndexPush, WriteIndex, WriteBack, Goto, IInv, RequestsFit
<1>2. copy[h] = manifest
  <2>1. copy[h] \in [Models -> Entry]
    BY <1>1 DEF IInv, RequestsFit, RequestFits, HoldsCopy
  <2> QED
    BY <2>1, SentinelsAreNew DEF AloneFits, Alone
<1>3. Model(h) \in live[h] /\ DecisionsStand(h) /\ payload[h] \in sent
  BY <1>1, WorksOn DEF AloneFits, Alone, PhasedFits
<1>4. \A m \in Named(payload[h]) \ live[h] : manifest'[m] = manifest[m]
  <2>1. Named(payload[h]) \subseteq Models /\ manifest \in [Models -> Entry]
    BY <1>3, NamedAreModels DEF IInv, DiskFits
  <2> QED
    BY <1>1, <1>2, <1>3, <2>1
<1>5. Ahead(h)' = Ahead(h) /\ Named(payload[h])' = Named(payload[h])
  BY <1>1 DEF Ahead, Named
<1>6. Filed(h)' = Filed(h)
  BY <1>1 DEF Filed, Slot, Model, Stamp, IndexPush, WriteIndex
<1> QED
  BY <1>1, <1>3, <1>4, <1>5, <1>6 DEF DecisionsStand, Pushing, Storing

LEMMA SentOffered ==
  ASSUME IInv, sent \subseteq Offered, NEW h \in Handlers, Receive(h)
  PROVE  sent' \subseteq Offered
<1>1. PICK p \in sent \cup NewPayloads : sent' = sent \cup {p}
  BY DEF Receive
<1>2. CASE p \in sent
  BY <1>1, <1>2
<1>3. CASE p \in NewPayloads
  <2>1. Cardinality(sent) \in Nat /\ Cardinality(sent) <= MaxPayloads /\ MaxPayloads \in Nat
    BY FS_CardinalityType, LineageBounds DEF IInv, SentFits
  <2>2. Cardinality(sent) # MaxPayloads
    BY <1>3 DEF NewPayloads
  <2>3. Cardinality(sent) + 1 \in 1..MaxPayloads
    BY <2>1, <2>2
  <2>4. PICK o \in Offers : p = Taken(o, Cardinality(sent) + 1)
    BY <1>3, <2>2 DEF NewPayloads
  <2> QED
    BY <1>1, <2>3, <2>4 DEF Offered
<1> QED
  BY <1>2, <1>3

LEMMA StepsDecided ==
  ASSUME OneAtATime
  PROVE  IInv /\ AloneFits /\ PhasedFits /\ [Next]_vars => PhasedFits'
<1> SUFFICES ASSUME IInv, AloneFits, PhasedFits, [Next]_vars PROVE PhasedFits'
  OBVIOUS
<1>1. ASSUME NEW h \in Handlers, DecisionsStand(h)', UNCHANGED sent \/ Receive(h) PROVE PhasedFits'
  BY <1>1, SentOffered DEF PhasedFits, OneAtATime
<1>2. ASSUME NEW h \in Handlers, Answer(h), UNCHANGED sent PROVE PhasedFits'
  <2>1. step'[h] = "idle"
    BY <1>2, AnswerFits DEF IInv
  <2>2. DecisionsStand(h)'
    BY <2>1 DEF DecisionsStand, Pushing, Storing
  <2> QED
    BY <1>1, <1>2, <2>2
<1>3. ASSUME NEW h \in Handlers, Receive(h) PROVE PhasedFits'
  <2>1. PICK p \in sent \cup NewPayloads :
          step' = [step EXCEPT ![h] = "deciding"] /\ payload' = [payload EXCEPT ![h] = p]
          /\ queue' = [queue EXCEPT ![h] = p.models]
    BY <1>3 DEF Receive, Goto
  <2>2. step'[h] = "deciding" /\ payload'[h] = p /\ queue'[h] = p.models
    BY <2>1 DEF IInv, RequestsFit
  <2>3. Ahead(h)' = Named(payload[h])'
    BY <2>2 DEF Ahead, Named
  <2>4. DecisionsStand(h)'
    BY <2>2, <2>3 DEF DecisionsStand
  <2> QED
    BY <1>1, <1>3, <2>4
<1>4. ASSUME NEW h \in Handlers, Decide(h) PROVE PhasedFits'
  BY <1>1, <1>2, <1>4, DecideDecides DEF Decide
<1>5. ASSUME NEW h \in Handlers, Publish(h) PROVE PhasedFits'
  <2>1. step[h] = "reading" /\ UNCHANGED <<disk, sent>>
    BY <1>5 DEF Publish
  <2>2. CASE Answer(h)
    BY <1>2, <2>1, <2>2
  <2>3. CASE ~Answer(h)
    <3>1. step'[h] = "storing" /\ UNCHANGED <<payload, queue, live>>
      BY <1>5, <2>3 DEF Publish, Goto, IInv, RequestsFit
    <3> QED
      BY <1>1, <2>1, <3>1, StayingDecided DEF Pushing, Storing, disk
  <2> QED
    BY <2>2, <2>3
<1>6. ASSUME NEW h \in Handlers, Quarantine(h) \/ Skip(h) \/ Rename(h) PROVE PhasedFits'
  <2>1. step[h] \in {"storing", "renaming"} /\ NextModel(h, "storing") /\ UNCHANGED <<manifest, sent>>
    BY <1>6 DEF Quarantine, Skip, Rename, disk
  <2> QED
    BY <1>1, <2>1, GoingOnDecided
<1>7. ASSUME NEW h \in Handlers, Commit(h) PROVE PhasedFits'
  <2>1. /\ step[h] = "storing" /\ step'[h] = "indexing" /\ ~Filed(h)
        /\ UNCHANGED <<disk, payload, queue, live, sent>>
    BY <1>7 DEF Commit, ReadManifest, Goto, IInv, RequestsFit
  <2> QED
    BY <1>1, <2>1, StayingDecided DEF Pushing, Storing, disk
<1>8. ASSUME NEW h \in Handlers, IndexPush(h) PROVE PhasedFits'
  <2>1. UNCHANGED sent
    BY <1>8 DEF IndexPush, WriteIndex
  <2> QED
    BY <1>1, <1>8, <2>1, IndexDecided
<1>9. ASSUME NEW h \in Handlers, Promote(h) PROVE PhasedFits'
  <2>1. CASE Answer(h) /\ UNCHANGED sent
    BY <1>2, <2>1
  <2>2. CASE ~Answer(h)
    <3>1. step'[h] \in Promoting /\ UNCHANGED sent
      BY <1>9, <2>2 DEF Promote, Activate, ReadPending, ReadForPromoted, IndexPromoted, FilePromoted, ReadForPhase,
         ReadManifest, WriteIndex, Rephase, Clear, Goto, Promoting, IInv, RequestsFit
    <3>2. DecisionsStand(h)'
      BY <3>1 DEF DecisionsStand, Pushing, Storing, Promoting
    <3> QED
      BY <1>1, <3>1, <3>2
  <2>3. UNCHANGED sent
    BY <1>9 DEF Promote, Activate, ReadPending, ReadForPromoted, IndexPromoted, FilePromoted, ReadForPhase,
       ReadManifest, WriteIndex, Rephase, Clear
  <2> QED
    BY <2>1, <2>2, <2>3
<1>10. ASSUME NEW h \in Handlers, Stop(h) PROVE PhasedFits'
  BY <1>2, <1>10 DEF Stop
<1>11. CASE UNCHANGED vars
  <2>1. UNCHANGED <<manifest, files, step, payload, queue, live, sent>>
    BY <1>11 DEF vars, disk, request
  <2>2. ASSUME NEW h \in Handlers PROVE DecisionsStand(h)'
    <3>1. DecisionsStand(h) /\ Ahead(h)' = Ahead(h) /\ Named(payload[h])' = Named(payload[h])
      BY <2>1 DEF PhasedFits, Ahead, Named
    <3>2. Filed(h)' = Filed(h)
      BY <2>1 DEF Filed, Slot, Model, Stamp
    <3> QED
      BY <2>1, <3>1, <3>2 DEF DecisionsStand
  <2> QED
    BY <2>1, <2>2 DEF PhasedFits
<1> QED
  BY <1>3, <1>4, <1>5, <1>6, <1>7, <1>8, <1>9, <1>10, <1>11 DEF Next, Push

\* A write of the manifest, seen through the phases alone.
LEMMA PhaseWritten ==
  ASSUME IInv, AloneFits, NEW h \in Handlers, step[h] \in HoldsCopy, NEW entry,
         manifest' = [copy[h] EXCEPT ![Model(h)] = entry]
  PROVE  /\ copy[h] = manifest /\ Model(h) \in Models /\ manifest[Model(h)] \in Entry
         /\ [m \in Models |-> manifest[m].phase]'
              = [[m \in Models |-> manifest[m].phase] EXCEPT ![Model(h)] = entry.phase]
<1>1. copy[h] \in [Models -> Entry] /\ Model(h) \in Models
  BY WorksOn DEF IInv, RequestsFit, RequestFits, HoldsCopy
<1>2. copy[h] = manifest
  BY <1>1, SentinelsAreNew DEF AloneFits, Alone
<1> QED
  BY <1>1, <1>2

\* An index fixes the phase of a lineage that has none, and of no other.
LEMMA IndexFixes ==
  ASSUME IInv, AloneFits, NEW h \in Handlers, IndexPush(h) \/ IndexPromoted(h)
  PROVE  (\E m \in Models : Phased!Fix(m)) \/ UNCHANGED PhaseVars
<1> DEFINE p == payload[h]
           entry == Indexed(copy[h][Model(h)], p)
<1>1. /\ step[h] \in {"indexing", "indexingPromoted"} /\ manifest' = [copy[h] EXCEPT ![Model(h)] = entry]
      /\ UNCHANGED <<files, pending>>
  BY DEF IndexPush, IndexPromoted, WriteIndex, WriteBack
<1> HIDE DEF entry
<1>2. /\ copy[h] = manifest /\ Model(h) \in Models /\ manifest[Model(h)] \in Entry
      /\ [m \in Models |-> manifest[m].phase]'
           = [[m \in Models |-> manifest[m].phase] EXCEPT ![Model(h)] = entry.phase]
  BY <1>1, PhaseWritten DEF HoldsCopy
<1>3. p \in Payload /\ p.phase \in Phases
  <2>1. p \in sent /\ Clean(p)
    BY <1>1 DEF IInv, RequestsFit, RequestFits, Storing, Promoting
  <2> QED
    BY <2>1, PayloadFields DEF IInv, SentFits, Clean
<1>4. entry.phase = IF manifest[Model(h)].phase = NoPhase THEN p.phase ELSE manifest[Model(h)].phase
  BY <1>2, <1>3, IndexedGrows DEF entry
<1>5. CASE manifest[Model(h)].phase = NoPhase
  BY <1>1, <1>2, <1>3, <1>4, <1>5 DEF Phased!Fix
<1>6. CASE manifest[Model(h)].phase # NoPhase
  BY <1>1, <1>2, <1>4, <1>6 DEF PhaseVars
<1> QED
  BY <1>5, <1>6

\* A file that is installed enters its lineage.
LEMMA InstallEnters ==
  ASSUME IInv, NEW h \in Handlers, step[h] # "idle", Install(Slot(h), Stamp(h), payload[h]), ~Filed(h),
         UNCHANGED <<manifest, pending>>
  PROVE  Phased!Enters(Slot(h), payload[h])
BY DEF Install, Filed, Stamp, Phased!Enters

LEMMA RenameJoins ==
  ASSUME IInv, AloneFits, PhasedFits, NEW h \in Handlers, Rename(h)
  PROVE  Phased!Next
<1> DEFINE p == payload[h]
<1>1. /\ step[h] = "renaming" /\ Install(Slot(h), Stamp(h), p) /\ UNCHANGED <<manifest, pending>>
  BY DEF Rename
<1>2. ~Filed(h)
  BY <1>1 DEF PhasedFits, DecisionsStand, Pushing, Storing
<1>3. p \in Offered /\ Slot(h) = <<Model(h), p.kind>> /\ Slot(h) \in Slots /\ Model(h) \in Models
  BY <1>1, WorksOn DEF PhasedFits
<1>4. manifest[Model(h)].phase = p.phase
  BY <1>1 DEF AloneFits, Alone
<1>5. Phased!Enters(Slot(h), p)
  BY <1>1, <1>2, InstallEnters
<1>6. Phased!Join(Slot(h))
  BY <1>3, <1>4, <1>5 DEF Phased!Join
<1> QED
  BY <1>3, <1>6 DEF Phased!Next, Phased!Slots, Slots

LEMMA QuarantineHolds ==
  ASSUME IInv, PhasedFits, NEW h \in Handlers, Quarantine(h)
  PROVE  Phased!Next
<1> DEFINE p == payload[h]
<1>1. /\ step[h] = "storing" /\ Model(h) \notin live[h] /\ UNCHANGED <<manifest, files>>
      /\ pending' = [pending EXCEPT ![Slot(h)] = p]
  BY DEF Quarantine
<1>2. /\ p \in sent /\ p \in Offered /\ queue[h] \in Seq(Models) /\ queue[h] # <<>>
      /\ Slot(h) = <<Model(h), p.kind>> /\ Slot(h) \in Slots /\ Model(h) \in Models
  BY <1>1, WorksOn DEF PhasedFits
<1>3. Model(h) \in Ahead(h)
  BY <1>2, OneLess DEF Ahead, Model
<1>4. Model(h) \in Named(p) \ live[h]
  BY <1>1, <1>3 DEF PhasedFits, DecisionsStand, Pushing, Storing
<1>5. manifest[Model(h)].phase \notin {NoPhase, p.phase}
  BY <1>1, <1>4 DEF PhasedFits, DecisionsStand, Pushing, Storing, Agrees
<1>6. p.kind \in Quarantining
  BY <1>1, <1>4 DEF IInv, RequestsFit, OpeningFits, Storing
<1>7. Slot(h)[1] = Model(h) /\ Slot(h)[2] = p.kind /\ [m \in Models |-> manifest[m].phase][Model(h)] = manifest[Model(h)].phase
  BY <1>2
<1>8. [m \in Models |-> manifest[m].phase]' = [m \in Models |-> manifest[m].phase]
  BY <1>1
<1> HIDE DEF p
<1>9. Phased!Hold(Slot(h))
  BY <1>1, <1>2, <1>5, <1>6, <1>7, <1>8 DEF Phased!Hold
<1> QED
  BY <1>2, <1>9 DEF Phased!Next, Phased!Slots, Slots

LEMMA FilePromotedAdmits ==
  ASSUME IInv, AloneFits, NEW h \in Handlers, FilePromoted(h)
  PROVE  Phased!Next \/ UNCHANGED PhaseVars
<1>1. step[h] = "filing" /\ UNCHANGED <<manifest, pending>>
  BY DEF FilePromoted
<1>2. CASE UNCHANGED files
  BY <1>1, <1>2 DEF PhaseVars
<1>3. CASE ~Filed(h) /\ Install(Slot(h), Stamp(h), bytes[h])
  <2>1. bytes[h] = payload[h] /\ pending[Slot(h)] = payload[h]
    BY <1>1 DEF AloneFits, Alone, Promoting, HoldsBytes
  <2>2. /\ payload[h].kind \in Promotable /\ Slot(h) = <<Model(h), payload[h].kind>> /\ Slot(h) \in Slots
        /\ payload[h] # None
    BY <1>1, PromotesRooms, WorksOn DEF Promoting
  <2>3. Phased!Enters(Slot(h), payload[h])
    BY <1>1, <1>3, <2>1, InstallEnters
  <2>4. Phased!Admit(Slot(h))
    BY <2>1, <2>2, <2>3 DEF Phased!Admit
  <2> QED
    BY <2>2, <2>4 DEF Phased!Next, Phased!Slots, Slots
<1> QED
  BY <1>2, <1>3 DEF FilePromoted

\* The payload a request works on is the one filed by its taken_at.
LEMMA FiledIsLive ==
  ASSUME IInv, AloneFits, NEW h \in Handlers, step[h] \in FiledSteps
  PROVE  /\ pending[Slot(h)] = payload[h] /\ Phased!IsLive(Slot(h), payload[h])
         /\ payload[h].kind \in Promotable /\ payload[h] # None
         /\ Slot(h) = <<Model(h), payload[h].kind>> /\ Slot(h) \in Slots
<1>1. Slot(h) \in Slots /\ payload[h] \in sent /\ Filed(h) /\ pending[Slot(h)] = payload[h]
  BY WorksOn DEF AloneFits, Alone, FiledSteps, Promoting
<1>2. files[Slot(h)][Stamp(h)] \in sent /\ files[Slot(h)][Stamp(h)].taken_at = payload[h].taken_at
  BY <1>1 DEF Filed, IInv, DiskFits, AloneFits, FilesByTakenAt, Stamp
<1>3. files[Slot(h)][Stamp(h)] = payload[h]
  BY <1>1, <1>2 DEF IInv, SentFits
<1>4. payload[h].kind \in Promotable /\ Slot(h) = <<Model(h), payload[h].kind>>
  BY PromotesRooms DEF FiledSteps, Promoting
<1>5. payload[h] # None
  BY WorksOn DEF FiledSteps
<1> QED
  BY <1>1, <1>3, <1>4, <1>5 DEF Phased!IsLive, Filed, Stamp

LEMMA RephaseMoves ==
  ASSUME IInv, AloneFits, NEW h \in Handlers, Rephase(h)
  PROVE  Phased!Next
<1> DEFINE p == payload[h]
           entry == [copy[h][Model(h)] EXCEPT !.phase = p.phase]
<1>1. /\ step[h] = "rephasing" /\ manifest' = [copy[h] EXCEPT ![Model(h)] = entry] /\ UNCHANGED <<files, pending>>
  BY DEF Rephase, WriteBack
<1> HIDE DEF entry
<1>2. /\ copy[h] = manifest /\ Model(h) \in Models /\ manifest[Model(h)] \in Entry
      /\ [m \in Models |-> manifest[m].phase]'
           = [[m \in Models |-> manifest[m].phase] EXCEPT ![Model(h)] = entry.phase]
  BY <1>1, PhaseWritten DEF HoldsCopy
<1>3. entry.phase = p.phase
  BY <1>2 DEF entry, Entry
<1>4. /\ pending[Slot(h)] = p /\ Phased!IsLive(Slot(h), p) /\ p.kind \in Promotable /\ p # None
      /\ Slot(h) = <<Model(h), p.kind>> /\ Slot(h) \in Slots
  BY <1>1, FiledIsLive DEF FiledSteps
<1> HIDE DEF p
<1>5. PICK s \in Slots : s = Slot(h)
  BY <1>4
<1>6. /\ s[1] = Model(h) /\ s[2] \in Promotable /\ pending[s] = p /\ pending[s] # None
      /\ Phased!IsLive(s, pending[s])
  BY <1>4, <1>5 DEF Phased!IsLive
<1>7. [m \in Models |-> manifest[m].phase]'
        = [[m \in Models |-> manifest[m].phase] EXCEPT ![s[1]] = pending[s].phase]
  BY <1>2, <1>3, <1>6
<1>8. Phased!Move(s)
  BY <1>1, <1>6, <1>7 DEF Phased!Move
<1> QED
  BY <1>8 DEF Phased!Next, Phased!Slots, Slots

LEMMA ClearReleases ==
  ASSUME IInv, AloneFits, NEW h \in Handlers, Clear(h)
  PROVE  Phased!Next
<1>1. /\ step[h] = "clearing" /\ pending' = [pending EXCEPT ![Slot(h)] = None] /\ UNCHANGED <<manifest, files>>
  BY DEF Clear
<1>2. /\ pending[Slot(h)] = payload[h] /\ Phased!IsLive(Slot(h), payload[h]) /\ payload[h] # None
      /\ Slot(h) = <<Model(h), payload[h].kind>> /\ Slot(h) \in Slots
  BY <1>1, FiledIsLive DEF FiledSteps
<1>3. manifest[Model(h)].phase = payload[h].phase /\ Model(h) \in Models
  BY <1>1, ClearedIsLive, WorksOn
<1>4. Phased!Release(Slot(h))
  BY <1>1, <1>2, <1>3 DEF Phased!Release
<1> QED
  BY <1>2, <1>4 DEF Phased!Next, Phased!Slots, Slots

LEMMA StepsKeepPhases ==
  ASSUME IInv, AloneFits, PhasedFits, [Next]_vars
  PROVE  [Phased!Next]_PhaseVars
<1>1. CASE UNCHANGED disk
  BY <1>1 DEF disk, PhaseVars
<1>2. ASSUME NEW h \in Handlers, Push(h)
      PROVE  UNCHANGED disk \/ Quarantine(h) \/ IndexPush(h) \/ Rename(h)
  BY <1>2 DEF Push, Receive, Decide, Publish, Skip, Commit, ReadManifest
<1>3. ASSUME NEW h \in Handlers, Promote(h)
      PROVE  UNCHANGED disk \/ IndexPromoted(h) \/ FilePromoted(h) \/ Rephase(h) \/ Clear(h)
  BY <1>3 DEF Promote, Activate, ReadPending, ReadForPromoted, ReadForPhase, ReadManifest
<1>4. ASSUME NEW h \in Handlers, Stop(h) PROVE UNCHANGED disk
  BY <1>4 DEF Stop
<1>5. ASSUME NEW h \in Handlers, IndexPush(h) \/ IndexPromoted(h) PROVE [Phased!Next]_PhaseVars
  BY <1>5, IndexFixes DEF Phased!Next
<1> QED
  BY <1>1, <1>2, <1>3, <1>4, <1>5, QuarantineHolds, RenameJoins, FilePromotedAdmits, RephaseMoves, ClearReleases
     DEF Next, vars

\* One request at a time, wherever it stops, the lineages on the disk are what PhasedLineage says: fixed to a phase
\* once, joined only in it, moved only by what waits and is live already (index_snapshot, promote_pending).
THEOREM LineagesKeepPhases ==
  ASSUME OneAtATime
  PROVE  Spec => KeepsPhases
<1>1. Init => PhasedFits /\ Phased!Init
  <2> SUFFICES ASSUME Init PROVE PhasedFits /\ Phased!Init
    OBVIOUS
  <2>1. PhasedFits
    BY DEF Init, PhasedFits, DecisionsStand, Pushing, Storing
  <2>2. [m \in Models |-> manifest[m].phase] = [m \in Models |-> NoPhase]
    BY DEF Init
  <2> QED
    BY <2>1, <2>2 DEF Init, Phased!Init, Phased!Slots, Slots
<1>2. IInv /\ AloneFits /\ PhasedFits /\ [Next]_vars => PhasedFits' /\ [Phased!Next]_PhaseVars
  BY StepsDecided, StepsKeepPhases
<1>3. Phased!Init /\ [][Phased!Next]_PhaseVars => KeepsPhases
  BY DEF KeepsPhases, Phased!Spec, PhaseVars
<1> QED
  BY <1>1, <1>2, <1>3, AlwaysAlone, PTL DEF Spec

=============================================================================
