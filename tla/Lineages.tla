------------------------------ MODULE Lineages ------------------------------
(***************************************************************************)
(* The lineages of a project: for each model, the snapshots pushed to it,  *)
(* the phase it is fixed to and the one quarantined push of each kind.     *)
(*                                                                         *)
(* The server (handlers.rs, state.rs) answers requests side by side, and   *)
(* the store (storage/fs.rs) has no lock.  A step here is one access to    *)
(* the disk: a manifest read, a manifest written, a file renamed into      *)
(* place or removed; a test whether a file is there belongs to the access  *)
(* that follows it.  project.toml holds every model of the project, so a   *)
(* push to one model writes back what it read of the others.               *)
(*                                                                         *)
(* A payload is known by its taken_at, as its file is: a push that names   *)
(* an earlier taken_at is that payload sent again.  What the rooms, doors  *)
(* and spaces are is left out, and so are names and placements.  Windows   *)
(* and FF&E go the way of doors, ceilings and floors the way of spaces.    *)
(***************************************************************************)
EXTENDS Naturals, Sequences, FiniteSets

CONSTANTS
  Models,      \* models of the project
  Kinds,       \* kinds of snapshot pushed, among rooms, doors and spaces
  Phases,      \* phases a push may name
  NoPhase,     \* no phase: of a lineage never pushed to, or of a push that names none
  None,        \* no payload
  Offers,      \* what producers push: a kind, a phase, models and those that sent no element
  Handlers,    \* requests the server answers at one time
  MaxPayloads, \* bound: distinct payloads pushed
  MaxStops     \* bound: requests that stop half way

Quarantining == {"rooms", "spaces"}  \* a disagreeing push of the other kinds is refused
Promotable   == {"rooms"}            \* the kinds a route can activate

ASSUME KindsKnown == Kinds \subseteq {"rooms", "doors", "spaces"}
ASSUME LineageBounds == MaxPayloads \in Nat /\ MaxStops \in Nat

Orders  == {o \in UNION {[1..n -> Models] : n \in 1..Cardinality(Models)} :
              \A i, j \in DOMAIN o : o[i] = o[j] => i = j}
Offer   == [kind : Kinds, phase : Phases \cup {NoPhase}, models : Orders, empty : SUBSET Models]
Payload == [taken_at : 1..MaxPayloads, kind : Kinds, phase : Phases \cup {NoPhase},
            models : Orders, empty : SUBSET Models]

ASSUME OffersKnown == Offers \subseteq Offer

Slots   == Models \X Kinds
Entry   == [phase : Phases \cup {NoPhase}, index : [Kinds -> SUBSET (1..MaxPayloads)]]

\* project.toml lists the models, and what stands for nothing is nothing else.
ASSUME ModelsAreListed == IsFiniteSet(Models)
ASSUME SentinelsAreNew == NoPhase \notin Phases /\ None \notin Payload /\ None \notin [Models -> Entry]

VARIABLES
  manifest,  \* project.toml, an entry for each model
  files,     \* for a model and a kind, the payload in each snapshot file by its taken_at
  pending,   \* for a model and a kind, the payload in quarantine
  step,      \* what each handler does next
  payload,   \* the payload each handler works on
  queue,     \* the models it has still to go through
  live,      \* the models its push was accepted for
  copy,      \* the manifest as it last read it
  bytes,     \* the quarantined payload it is to file
  sent,      \* the payloads pushed so far
  worn,      \* history: the phases each lineage has had
  stops      \* requests stopped half way so far

disk    == <<manifest, files, pending>>
request == <<step, payload, queue, live, copy, bytes>>
vars    == <<disk, request, sent, worn, stops>>

Init ==
  /\ manifest = [m \in Models |-> [phase |-> NoPhase, index |-> [k \in Kinds |-> {}]]]
  /\ files = [s \in Slots |-> <<>>]
  /\ pending = [s \in Slots |-> None]
  /\ step = [h \in Handlers |-> "idle"]
  /\ payload = [h \in Handlers |-> None]
  /\ queue = [h \in Handlers |-> <<>>]
  /\ live = [h \in Handlers |-> {}]
  /\ copy = [h \in Handlers |-> None]
  /\ bytes = [h \in Handlers |-> None]
  /\ sent = {}
  /\ worn = [m \in Models |-> {}]
  /\ stops = 0

----------------------------------------------------------------------------
(* The request at hand *)

Goto(h, label) == step' = [step EXCEPT ![h] = label]
Model(h) == Head(queue[h])
Slot(h)  == <<Model(h), payload[h].kind>>
Stamp(h) == payload[h].taken_at
Filed(h) == Stamp(h) \in DOMAIN files[Slot(h)]

\* Mutated form of Answer: the models of the request are kept for the next one.
AnswerKeepingModels(h) ==
  /\ Goto(h, "idle")
  /\ UNCHANGED <<payload, queue, live, copy, bytes>>

\* The handler has answered, and forgets the request.
Answer(h) ==
  /\ Goto(h, "idle")
  /\ payload' = [payload EXCEPT ![h] = None]
  /\ queue' = [queue EXCEPT ![h] = <<>>]
  /\ live' = [live EXCEPT ![h] = {}]
  /\ copy' = [copy EXCEPT ![h] = None]
  /\ bytes' = [bytes EXCEPT ![h] = None]

\* On to the next model of the push, or to the answer after the last one.
NextModel(h, label) ==
  IF Len(queue[h]) = 1
  THEN Answer(h)
  ELSE Goto(h, label) /\ queue' = [queue EXCEPT ![h] = Tail(@)] /\ UNCHANGED <<payload, live, copy, bytes>>

----------------------------------------------------------------------------
(* A push: every model is decided, the elements are read, every model is stored *)

\* What is offered, exported at a time of its own.
Taken(o, t) == [taken_at |-> t, kind |-> o.kind, phase |-> o.phase, models |-> o.models, empty |-> o.empty]
Offered     == {Taken(o, t) : o \in Offers, t \in 1..MaxPayloads}

\* What may be pushed now for the first time.
NewPayloads == IF Cardinality(sent) = MaxPayloads THEN {} ELSE {Taken(o, Cardinality(sent) + 1) : o \in Offers}

\* The envelope of a push: a payload taken now, or one sent before.
Receive(h) ==
  /\ step[h] = "idle"
  /\ \E p \in sent \cup NewPayloads :
       /\ sent' = sent \cup {p}
       /\ payload' = [payload EXCEPT ![h] = p]
       /\ queue' = [queue EXCEPT ![h] = p.models]
  /\ Goto(h, "deciding")
  /\ UNCHANGED <<disk, live, copy, bytes, worn, stops>>

\* Mutated form of Agrees: no phase is compared.
AgreesAlways(lineage, phase) == TRUE

\* phases_agree: a lineage without a phase takes any.
Agrees(lineage, phase) == lineage \in {NoPhase, phase}

\* Mutated form of Decide: a refused model is left out and the others go on.
DecideEachAlone(h) ==
  LET lineage == manifest[Model(h)].phase
      agrees  == payload[h].phase # NoPhase /\ Agrees(lineage, payload[h].phase)
  IN
  /\ step[h] = "deciding"
  /\ live' = [live EXCEPT ![h] = IF agrees THEN @ \cup {Model(h)} ELSE @]
  /\ IF Len(queue[h]) = 1
     THEN Goto(h, "reading") /\ queue' = [queue EXCEPT ![h] = payload[h].models]
     ELSE UNCHANGED step /\ queue' = [queue EXCEPT ![h] = Tail(@)]
  /\ UNCHANGED <<disk, payload, copy, bytes, sent, worn, stops>>

\* decide_phase and check_opening_ingest, for the next model of the envelope: the push must name
\* a phase; one that disagrees with the lineage is quarantined or, of an opening, refused.
Decide(h) ==
  LET lineage == manifest[Model(h)].phase
      agrees  == Agrees(lineage, payload[h].phase)
      refused == payload[h].phase = NoPhase \/ (~agrees /\ payload[h].kind \notin Quarantining)
  IN
  /\ step[h] = "deciding"
  /\ \/ refused /\ Answer(h)
     \/ /\ ~refused
        /\ live' = [live EXCEPT ![h] = IF agrees THEN @ \cup {Model(h)} ELSE @]
        /\ IF Len(queue[h]) = 1
           THEN Goto(h, "reading") /\ queue' = [queue EXCEPT ![h] = payload[h].models]
           ELSE UNCHANGED step /\ queue' = [queue EXCEPT ![h] = Tail(@)]
        /\ UNCHANGED <<payload, copy, bytes>>
  /\ UNCHANGED <<disk, sent, worn, stops>>

\* Mutated form of Publish: nobody asks whether each model sent a room.
PublishUnchecked(h) ==
  /\ step[h] = "reading"
  /\ Goto(h, "storing")
  /\ UNCHANGED <<disk, payload, queue, live, copy, bytes, sent, worn, stops>>

\* The elements are read.  A rooms push with a model that sent none is refused whole
\* (reject_empty_rooms); any other is stored, model by model.
Publish(h) ==
  /\ step[h] = "reading"
  /\ \/ /\ payload[h].kind = "rooms" /\ payload[h].empty # {}
        /\ Answer(h)
     \/ /\ payload[h].kind # "rooms" \/ payload[h].empty = {}
        /\ Goto(h, "storing")
        /\ UNCHANGED <<payload, queue, live, copy, bytes>>
  /\ UNCHANGED <<disk, sent, worn, stops>>

\* The next model disagreed: its payload replaces what was in quarantine (put_pending_raw).
Quarantine(h) ==
  /\ step[h] = "storing" /\ Model(h) \notin live[h]
  /\ pending' = [pending EXCEPT ![Slot(h)] = payload[h]]
  /\ NextModel(h, "storing")
  /\ UNCHANGED <<manifest, files, sent, worn, stops>>

\* A payload sent again is skipped, never overwritten (commit).
Skip(h) ==
  /\ step[h] = "storing" /\ Model(h) \in live[h] /\ Filed(h)
  /\ NextModel(h, "storing")
  /\ UNCHANGED <<disk, sent, worn, stops>>

ReadManifest(h, from, to) ==
  /\ step[h] = from
  /\ copy' = [copy EXCEPT ![h] = manifest]
  /\ Goto(h, to)
  /\ UNCHANGED <<disk, payload, queue, live, bytes, sent, worn, stops>>

\* Mutated form of Commit: the snapshot is renamed into place and not indexed.
CommitUnindexed(h) ==
  /\ step[h] = "storing" /\ Model(h) \in live[h] /\ ~Filed(h)
  /\ Goto(h, "renaming")
  /\ UNCHANGED <<disk, payload, queue, live, copy, bytes, sent, worn, stops>>

\* commit: the target is not there, so the snapshot is to be indexed and then renamed into place.
Commit(h) ==
  /\ ReadManifest(h, "storing", "indexing")
  /\ Model(h) \in live[h] /\ ~Filed(h)

\* Mutated form of Indexed: the first push does not fix the phase.
IndexedUnphased(entry, p) == [entry EXCEPT !.index[p.kind] = @ \cup {p.taken_at}]

\* An entry as index_snapshot leaves it: the first phase stays.
Indexed(entry, p) ==
  [entry EXCEPT !.phase = IF @ = NoPhase THEN p.phase ELSE @,
                !.index[p.kind] = @ \cup {p.taken_at}]

\* The manifest is written back whole, as it was read but for the model at hand.
WriteBack(h, entry) ==
  /\ manifest' = [copy[h] EXCEPT ![Model(h)] = entry]
  /\ worn' = [m \in Models |-> worn[m] \cup ({manifest'[m].phase} \ {NoPhase})]
  /\ copy' = [copy EXCEPT ![h] = None]

WriteIndex(h, from, to) ==
  /\ step[h] = from
  /\ WriteBack(h, Indexed(copy[h][Model(h)], payload[h]))
  /\ Goto(h, to)
  /\ UNCHANGED <<files, pending, payload, queue, live, bytes, sent, stops>>

IndexPush(h) == WriteIndex(h, "indexing", "renaming")

\* A snapshot file of `slot`, by the name `taken_at`, now holds p.
Install(slot, taken_at, p) ==
  files' = [files EXCEPT ![slot] =
              [t \in DOMAIN files[slot] \cup {taken_at} |-> IF t = taken_at THEN p ELSE files[slot][t]]]

Rename(h) ==
  /\ step[h] = "renaming"
  /\ Install(Slot(h), Stamp(h), payload[h])
  /\ NextModel(h, "storing")
  /\ UNCHANGED <<manifest, pending, sent, worn, stops>>

----------------------------------------------------------------------------
(* The activation of a quarantined push *)

\* activate_model_pending_snapshot: the pending payload is read for its taken_at and its phase (promote_pending_snapshot).
Activate(h) ==
  /\ step[h] = "idle"
  /\ \E s \in Models \X (Kinds \cap Promotable) :
       /\ pending[s] # None
       /\ payload' = [payload EXCEPT ![h] = pending[s]]
       /\ queue' = [queue EXCEPT ![h] = <<s[1]>>]
  /\ Goto(h, "promoting")
  /\ UNCHANGED <<disk, live, copy, bytes, sent, worn, stops>>

\* The store reads it again for its bytes (promote_pending).
ReadPending(h) ==
  /\ step[h] = "promoting"
  /\ \/ pending[Slot(h)] = None /\ Answer(h)
     \/ /\ pending[Slot(h)] # None
        /\ bytes' = [bytes EXCEPT ![h] = pending[Slot(h)]]
        /\ Goto(h, "promoted")
        /\ UNCHANGED <<payload, queue, live, copy>>
  /\ UNCHANGED <<disk, sent, worn, stops>>

ReadForPromoted(h) == ReadManifest(h, "promoted", "indexingPromoted")
IndexPromoted(h)   == WriteIndex(h, "indexingPromoted", "filing")

\* put_raw: the bytes are filed under the taken_at read first, unless there is such a file.
FilePromoted(h) ==
  /\ step[h] = "filing"
  /\ \/ Filed(h) /\ UNCHANGED files
     \/ ~Filed(h) /\ Install(Slot(h), Stamp(h), bytes[h])
  /\ Goto(h, "filed")
  /\ UNCHANGED <<manifest, pending, payload, queue, live, copy, bytes, sent, worn, stops>>

ReadForPhase(h) == ReadManifest(h, "filed", "rephasing")

\* The one write that moves a phase already fixed.
Rephase(h) ==
  /\ step[h] = "rephasing"
  /\ WriteBack(h, [copy[h][Model(h)] EXCEPT !.phase = payload[h].phase])
  /\ Goto(h, "clearing")
  /\ UNCHANGED <<files, pending, payload, queue, live, bytes, sent, stops>>

\* The quarantine is cleared last, whatever it holds by now.
Clear(h) ==
  /\ step[h] = "clearing"
  /\ pending' = [pending EXCEPT ![Slot(h)] = None]
  /\ Answer(h)
  /\ UNCHANGED <<manifest, files, sent, worn, stops>>

----------------------------------------------------------------------------

\* A request stops where it is: the producer hangs up, the disk refuses a write, the server dies.
Stop(h) ==
  /\ step[h] # "idle" /\ stops < MaxStops
  /\ stops' = stops + 1
  /\ Answer(h)
  /\ UNCHANGED <<disk, sent, worn>>

Push(h) ==
  \/ Receive(h) \/ Decide(h) \/ Publish(h)
  \/ Quarantine(h) \/ Skip(h) \/ Commit(h) \/ IndexPush(h) \/ Rename(h)

Promote(h) ==
  \/ Activate(h) \/ ReadPending(h) \/ ReadForPromoted(h) \/ IndexPromoted(h)
  \/ FilePromoted(h) \/ ReadForPhase(h) \/ Rephase(h) \/ Clear(h)

Next == \E h \in Handlers : Push(h) \/ Promote(h) \/ Stop(h)

Spec == Init /\ [][Next]_vars

----------------------------------------------------------------------------
(* Properties *)

Labels == {"idle", "deciding", "reading", "storing", "indexing", "renaming", "promoting", "promoted",
           "indexingPromoted", "filing", "filed", "rephasing", "clearing"}

LineageTypeOK ==
  /\ manifest \in [Models -> Entry]
  /\ \A s \in Slots : DOMAIN files[s] \subseteq 1..MaxPayloads /\ pending[s] \in sent \cup {None}
  /\ \A s \in Slots : \A t \in DOMAIN files[s] : files[s][t] \in sent
  /\ sent \subseteq Payload
  /\ step \in [Handlers -> Labels]
  /\ \A h \in Handlers :
       /\ step[h] = "idle" <=> payload[h] = None
       /\ step[h] # "idle" => payload[h] \in sent /\ queue[h] # <<>>
       /\ copy[h] # None <=> step[h] \in {"indexing", "indexingPromoted", "rephasing"}
       /\ copy[h] # None => copy[h] \in [Models -> Entry]
  /\ stops \in 0..MaxStops

\* "A refusal drops every sink uncommitted" (finish_rooms) and "every model is decided before any
\* is stored": nothing of a refused push is on the disk, live or in quarantine.  A push is refused
\* when it names no phase or, of rooms, when one of its models sent none.
RefusedLeavesNoTrace ==
  \A s \in Slots : \A p \in {files[s][t] : t \in DOMAIN files[s]} \cup ({pending[s]} \ {None}) :
    p.phase # NoPhase /\ (p.kind = "rooms" => p.empty = {})

\* "A disagreeing rooms push is quarantined and a disagreeing doors push is refused, both before
\* ever reaching here" (index_snapshot): unless a request stopped half way, what is live in a lineage
\* names a phase the lineage had, or is being activated.
LiveAgreesWithLineage ==
  stops = 0 =>
    \A s \in Slots : \A t \in DOMAIN files[s] :
      \/ files[s][t].phase \in worn[s[1]]
      \/ \E h \in Handlers : payload[h] = files[s][t] /\ step[h] \in {"filed", "rephasing"}

\* A doors push is stored for all the models it names or for none, unless it stopped half way:
\* it is never left with the models that agreed.
OpeningsStoredWhole ==
  stops = 0 =>
    \A p \in sent : p.kind \notin Quarantining =>
      \/ \A i, j \in DOMAIN p.models :
           (p.taken_at \in DOMAIN files[<<p.models[i], p.kind>>])
             <=> (p.taken_at \in DOMAIN files[<<p.models[j], p.kind>>])
      \/ \E h \in Handlers : payload[h] = p /\ step[h] \in {"storing", "indexing", "renaming"}

\* "This is the only way a lineage's phase changes after it is first set" (promote_pending).
PhaseFixed ==
  [][\A m \in Models :
       manifest[m].phase \notin {NoPhase, manifest'[m].phase} =>
         \E h \in Handlers : step[h] = "rephasing" /\ Model(h) = m]_vars

\* "The manifest always mirrors what is on disk": whatever is filed is indexed, before it is filed.
FiledIsIndexed == \A s \in Slots : DOMAIN files[s] \subseteq manifest[s[1]].index[s[2]]

\* "Clear the quarantine only after the snapshot and manifest are both committed": a payload
\* leaves the quarantine for a newer one, or when it is filed and is the lineage's phase.
ClearedOnceLive ==
  [][\A s \in Slots :
       pending[s] # None /\ pending'[s] = None =>
         /\ pending[s].taken_at \in DOMAIN files[s]
         /\ files[s][pending[s].taken_at] = pending[s]
         /\ manifest[s[1]].phase = pending[s].phase]_vars

\* "Activate the quarantined push: make it live and re-phase the model to its phase": once an
\* activation is over, the newest rooms of the model are of the phase it moved to.
ActivatedIsNewest ==
  [][\A h \in Handlers : step[h] = "clearing" /\ step'[h] = "idle" /\ stops' = stops =>
       LET filed == files[Slot(h)] IN
       \A t \in DOMAIN filed : (\A u \in DOMAIN filed : u <= t) => filed[t].phase = payload[h].phase]_vars

----------------------------------------------------------------------------
(* Requests that come one at a time implement PhasedLineage *)

Phased == INSTANCE PhasedLineage WITH
            Payloads <- Offered,
            phase <- [m \in Models |-> manifest[m].phase],
            live <- files,
            waiting <- pending

\* One request at a time, stopped at any access to the disk or not: a lineage is fixed to a phase
\* once and moves only to that of a payload that waits and is live ("the only way a lineage's phase
\* changes after it is first set", promote_pending); a push joins a lineage of its phase or waits
\* while it disagrees; what is live is "skipped, never overwritten" (commit).
KeepsPhases == Phased!Spec
=============================================================================
