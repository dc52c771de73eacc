-------------------------- MODULE Blueprints_proofs --------------------------
(***************************************************************************)
(* The blueprint store, for any number of blueprints, pages and rooms, any *)
(* clock and any limits.                                                   *)
(***************************************************************************)
EXTENDS Blueprints, TLAPS

\* What a page shows is the file as it is, or one the file has moved on from.
SeenIsOfThePast ==
    \A p \in Pages : seen[p] # Nothing =>
        LET file == blueprints[seen[p].id]
        IN  file # Nothing /\ (seen[p].copy = file \/ Later(file.taken_at, seen[p].copy.taken_at))

Pinned(a) ==
    /\ Exists(a.blueprint)
    /\ a.revision \in 1..Len(blueprints[a.blueprint].revisions)
    /\ blueprints[a.blueprint].revisions[a.revision] = a.content

\* An assignment that is read and not yet written pins like a written one.
AssigningIsKept == \A p \in Pages : assigning[p] # Nothing => Pinned(assigning[p])

AcceptedOfFiles == \A b \in Ids : ~Exists(b) => accepted[b] = {}

WaitsIn(file) == {w.pending_id : w \in file.pending}
DeclinedIn(file) == {w.pending_id : w \in file.rejected}

\* PushedIsInOnePlace of one file.
InOnePlace(file, ids) ==
    /\ WaitsIn(file) \cup DeclinedIn(file) \cup ids = 1..file.last_pending_id
    /\ WaitsIn(file) \cap DeclinedIn(file) = {} /\ WaitsIn(file) \cap ids = {} /\ DeclinedIn(file) \cap ids = {}
    /\ \A v, w \in file.pending \cup file.rejected : v.pending_id = w.pending_id => v = w

StoreInv ==
    /\ StoreTypeOK /\ SeenIsOfThePast /\ PushedIsInOnePlace /\ PinnedIsKept
    /\ AssigningIsKept /\ AcceptedOfFiles

\* RevisionsKept, of a step.
RevisionsStay == \A b \in Ids : Exists(b) =>
    /\ blueprints'[b] # Nothing
    /\ Len(blueprints'[b].revisions) >= Len(blueprints[b].revisions)
    /\ \A n \in 1..Len(blueprints[b].revisions) :
          blueprints'[b].revisions[n] = blueprints[b].revisions[n]

\* The stamp of a write is later than the one before, and later is an order.
LEMMA StampsGoUp ==
  ASSUME NEW s \in Stamps, NEW time \in Nat
  PROVE  NextStamp(s, time) \in Stamps /\ Later(NextStamp(s, time), s)
BY DEF NextStamp, Later, Stamps

LEMMA LaterIsOrder ==
  ASSUME NEW r \in Stamps, NEW s \in Stamps, NEW t \in Stamps
  PROVE  /\ ~Later(s, s)
         /\ Later(t, s) /\ Later(s, r) => Later(t, r)
BY DEF Later, Stamps

\* The file a write leaves.
LEMMA Written ==
  ASSUME StoreTypeOK, NEW b \in Ids, Exists(b), NEW file \in BlueprintFiles, NEW time \in Times,
         Write(b, file, time)
  PROVE  LET new == blueprints'[b]
         IN  /\ new \in BlueprintFiles /\ Later(new.taken_at, blueprints[b].taken_at)
             /\ new.revisions = file.revisions /\ new.pending = file.pending
             /\ new.rejected = file.rejected /\ new.last_pending_id = file.last_pending_id
             /\ new.current_revision = file.current_revision
             /\ blueprints' \in [Ids -> BlueprintFiles \cup {Nothing}]
             /\ \A c \in Ids : c # b => blueprints'[c] = blueprints[c]
<1> DEFINE stamp == NextStamp(blueprints[b].taken_at, time)
           new == [file EXCEPT !.taken_at = stamp]
<1>1. blueprints[b] \in BlueprintFiles
  BY DEF StoreTypeOK, Exists
<1>2. blueprints[b].taken_at \in Stamps /\ time \in Nat
  BY <1>1, StoreAssumption DEF BlueprintFiles
<1>3. stamp \in Stamps /\ Later(stamp, blueprints[b].taken_at)
  BY <1>2, StampsGoUp
<1>4. blueprints' = [blueprints EXCEPT ![b] = new]
  BY DEF Write
<1> HIDE DEF stamp
<1>5. /\ new \in BlueprintFiles /\ new.taken_at = stamp
      /\ new.revisions = file.revisions /\ new.pending = file.pending
      /\ new.rejected = file.rejected /\ new.last_pending_id = file.last_pending_id
      /\ new.current_revision = file.current_revision
  BY <1>3 DEF BlueprintFiles
<1> HIDE DEF new
<1>6. /\ blueprints'[b] = new /\ blueprints' \in [Ids -> BlueprintFiles \cup {Nothing}]
      /\ \A c \in Ids : c # b => blueprints'[c] = blueprints[c]
  BY <1>4, <1>5 DEF StoreTypeOK
<1> QED
  BY <1>3, <1>5, <1>6

\* A write of one file that goes on from what it held keeps everything, and every revision.
LEMMA GoingOnKeeps ==
  ASSUME StoreInv, NEW b \in Ids, Exists(b),
         blueprints' \in [Ids -> BlueprintFiles \cup {Nothing}],
         \A c \in Ids : c # b => blueprints'[c] = blueprints[c],
         blueprints'[b] \in BlueprintFiles,
         Later(blueprints'[b].taken_at, blueprints[b].taken_at),
         blueprints'[b].current_revision \in 1..Len(blueprints'[b].revisions),
         Len(blueprints'[b].revisions) >= Len(blueprints[b].revisions),
         \A n \in 1..Len(blueprints[b].revisions) : blueprints'[b].revisions[n] = blueprints[b].revisions[n],
         accepted' \in [Ids -> SUBSET Nat], \A c \in Ids : c # b => accepted'[c] = accepted[c],
         InOnePlace(blueprints'[b], accepted'[b]),
         UNCHANGED <<seen, assignments, assigning>>
  PROVE  StoreInv' /\ RevisionsStay
<1> USE DEF StoreInv
<1>1. \A c \in Ids : Exists(c) => blueprints[c] \in BlueprintFiles /\ Len(blueprints[c].revisions) \in Nat
  BY DEF StoreTypeOK, Exists, BlueprintFiles
<1>2. \A c \in Ids : Exists(c)' <=> Exists(c)
  BY NoFileIsNothing DEF Exists
<1>4. StoreTypeOK'
  BY <1>2 DEF StoreTypeOK, Exists
<1>5. ASSUME NEW c \in Ids, Exists(c)
      PROVE  /\ blueprints'[c] # Nothing
             /\ Len(blueprints'[c].revisions) \in Nat
             /\ Len(blueprints'[c].revisions) >= Len(blueprints[c].revisions)
             /\ \A n \in 1..Len(blueprints[c].revisions) :
                    blueprints'[c].revisions[n] = blueprints[c].revisions[n]
             /\ blueprints'[c] = blueprints[c] \/ Later(blueprints'[c].taken_at, blueprints[c].taken_at)
  <2>1. CASE c = b
    BY <2>1, NoFileIsNothing DEF BlueprintFiles
  <2>2. CASE c # b
    <3>1. blueprints'[c] = blueprints[c]
      BY <2>2
    <3>2. blueprints[c] # Nothing /\ Len(blueprints[c].revisions) \in Nat
      BY <1>1, <1>5 DEF Exists
    <3> QED
      BY <3>1, <3>2
  <2> QED
    BY <2>1, <2>2
<1>6. SeenIsOfThePast'
  <2> SUFFICES ASSUME NEW p \in Pages, seen[p] # Nothing
               PROVE  LET file == blueprints'[seen[p].id]
                      IN  file # Nothing /\ (seen[p].copy = file \/ Later(file.taken_at, seen[p].copy.taken_at))
    BY DEF SeenIsOfThePast
  <2> DEFINE c == seen[p].id
  <2>1. /\ c \in Ids /\ Exists(c) /\ seen[p].copy \in BlueprintFiles
        /\ seen[p].copy = blueprints[c] \/ Later(blueprints[c].taken_at, seen[p].copy.taken_at)
    BY DEF StoreTypeOK, SeenIsOfThePast, Exists
  <2>2. CASE blueprints'[c] = blueprints[c]
    BY <2>1, <2>2 DEF Exists
  <2>3. CASE Later(blueprints'[c].taken_at, blueprints[c].taken_at)
    <3>1. /\ blueprints'[c].taken_at \in Stamps /\ blueprints[c].taken_at \in Stamps
          /\ seen[p].copy.taken_at \in Stamps /\ blueprints'[c] # Nothing
      BY <1>1, <1>5, <2>1 DEF BlueprintFiles, Exists
    <3> QED
      BY <2>1, <2>3, <3>1, LaterIsOrder
  <2> QED
    BY <1>5, <2>1, <2>2, <2>3
<1>7. PushedIsInOnePlace'
  <2> SUFFICES ASSUME NEW c \in Ids, blueprints'[c] # Nothing PROVE InOnePlace(blueprints'[c], accepted'[c])
    BY DEF PushedIsInOnePlace, Exists, InOnePlace, WaitsIn, DeclinedIn
  <2>1. CASE c = b
    BY <2>1
  <2>2. CASE c # b
    <3>1. InOnePlace(blueprints[c], accepted[c])
      BY <2>2 DEF PushedIsInOnePlace, Exists, InOnePlace, WaitsIn, DeclinedIn
    <3> QED
      BY <2>2, <3>1
  <2> QED
    BY <2>1, <2>2
<1>8. ASSUME NEW a \in Assignments, Pinned(a) PROVE Pinned(a)'
  <2>1. a.blueprint \in Ids /\ a.revision \in Nat
    BY DEF Assignments
  <2>2. Len(blueprints[a.blueprint].revisions) \in Nat
    BY <1>1, <1>8, <2>1 DEF Pinned
  <2> QED
    BY <1>5, <1>8, <2>1, <2>2 DEF Pinned, Exists
<1>9. PinnedIsKept'
  <2>1. \A r \in Rooms : assignments[r] # Nothing => assignments[r] \in Assignments /\ Pinned(assignments[r])
    BY DEF StoreTypeOK, PinnedIsKept, Pinned, Exists
  <2> QED
    BY <1>8, <2>1 DEF PinnedIsKept, Pinned, Exists
<1>10. AssigningIsKept'
  <2>1. \A p \in Pages : assigning[p] # Nothing => assigning[p] \in Assignments /\ Pinned(assigning[p])
    BY DEF StoreTypeOK, AssigningIsKept
  <2> QED
    BY <1>8, <2>1 DEF AssigningIsKept, Pinned, Exists
<1>11. AcceptedOfFiles'
  BY <1>2, NoFileIsNothing DEF AcceptedOfFiles, Exists
<1> QED
  BY <1>4, <1>5, <1>6, <1>7, <1>9, <1>10, <1>11 DEF RevisionsStay

\* What the three moves of pushed revisions make of a file.
LEMMA PushedWaits ==
  ASSUME NEW file \in BlueprintFiles, NEW new \in BlueprintFiles, NEW ids \in SUBSET Nat,
         InOnePlace(file, ids), NEW content \in Contents,
         new.last_pending_id = file.last_pending_id + 1, new.rejected = file.rejected,
         new.pending = file.pending \cup {[pending_id |-> file.last_pending_id + 1, content |-> content]}
  PROVE  InOnePlace(new, ids)
<1> DEFINE id == file.last_pending_id + 1
<1>1. file.last_pending_id \in Nat
  BY DEF BlueprintFiles
<1>2. WaitsIn(new) = WaitsIn(file) \cup {id} /\ DeclinedIn(new) = DeclinedIn(file)
  <2> DEFINE one == [pending_id |-> id, content |-> content]
  <2>1. new.pending = file.pending \cup {one} /\ one.pending_id = id
    OBVIOUS
  <2> HIDE DEF one, id
  <2> QED
    BY <2>1 DEF WaitsIn, DeclinedIn
<1>3. WaitsIn(file) \cup DeclinedIn(file) \cup ids = 1..file.last_pending_id
  BY DEF InOnePlace
<1>4. id \notin WaitsIn(file) \cup DeclinedIn(file) \cup ids
  BY <1>1, <1>3
<1>5. 1..id = (1..file.last_pending_id) \cup {id}
  BY <1>1
<1>6. \A v, w \in new.pending \cup new.rejected : v.pending_id = w.pending_id => v = w
  <2>1. \A v \in file.pending \cup file.rejected : v.pending_id # id
    BY <1>4 DEF WaitsIn, DeclinedIn
  <2> QED
    BY <2>1 DEF InOnePlace
<1> HIDE DEF id
<1>7. new.last_pending_id = id
  BY DEF id
<1>8. /\ WaitsIn(new) \cup DeclinedIn(new) \cup ids = 1..id
      /\ WaitsIn(new) \cap DeclinedIn(new) = {} /\ WaitsIn(new) \cap ids = {} /\ DeclinedIn(new) \cap ids = {}
  BY <1>2, <1>3, <1>4, <1>5 DEF InOnePlace
<1> QED
  BY <1>6, <1>7, <1>8 DEF InOnePlace

LEMMA WaitingIsTaken ==
  ASSUME NEW file \in BlueprintFiles, NEW new \in BlueprintFiles, NEW ids \in SUBSET Nat,
         InOnePlace(file, ids), NEW w \in file.pending,
         new.last_pending_id = file.last_pending_id, new.pending = file.pending \ {w}
  PROVE  /\ new.rejected = file.rejected => InOnePlace(new, ids \cup {w.pending_id})
         /\ new.rejected = file.rejected \cup {w} => InOnePlace(new, ids)
<1>1. WaitsIn(new) = WaitsIn(file) \ {w.pending_id} /\ w.pending_id \in WaitsIn(file)
  BY DEF WaitsIn, InOnePlace
<1>2. ASSUME new.rejected = file.rejected PROVE InOnePlace(new, ids \cup {w.pending_id})
  <2>1. DeclinedIn(new) = DeclinedIn(file)
    BY <1>2 DEF DeclinedIn
  <2>2. new.pending \cup new.rejected \subseteq file.pending \cup file.rejected
    BY <1>2
  <2>3. \A u, v \in new.pending \cup new.rejected : u.pending_id = v.pending_id => u = v
    BY <2>2 DEF InOnePlace
  <2>4. /\ WaitsIn(new) \cup DeclinedIn(new) \cup (ids \cup {w.pending_id}) = 1..new.last_pending_id
        /\ WaitsIn(new) \cap DeclinedIn(new) = {} /\ WaitsIn(new) \cap (ids \cup {w.pending_id}) = {}
        /\ DeclinedIn(new) \cap (ids \cup {w.pending_id}) = {}
    <3>1. /\ WaitsIn(file) \cup DeclinedIn(file) \cup ids = 1..file.last_pending_id
          /\ WaitsIn(file) \cap DeclinedIn(file) = {} /\ WaitsIn(file) \cap ids = {}
          /\ DeclinedIn(file) \cap ids = {}
      BY DEF InOnePlace
    <3> QED
      BY <1>1, <2>1, <3>1
  <2> QED
    BY <2>3, <2>4 DEF InOnePlace
<1>3. ASSUME new.rejected = file.rejected \cup {w} PROVE InOnePlace(new, ids)
  <2>1. DeclinedIn(new) = DeclinedIn(file) \cup {w.pending_id}
    BY <1>3 DEF DeclinedIn
  <2>2. new.pending \cup new.rejected \subseteq file.pending \cup file.rejected
    BY <1>3
  <2>3. \A u, v \in new.pending \cup new.rejected : u.pending_id = v.pending_id => u = v
    BY <2>2 DEF InOnePlace
  <2>4. /\ WaitsIn(new) \cup DeclinedIn(new) \cup ids = 1..new.last_pending_id
        /\ WaitsIn(new) \cap DeclinedIn(new) = {} /\ WaitsIn(new) \cap ids = {} /\ DeclinedIn(new) \cap ids = {}
    <3>1. /\ WaitsIn(file) \cup DeclinedIn(file) \cup ids = 1..file.last_pending_id
          /\ WaitsIn(file) \cap DeclinedIn(file) = {} /\ WaitsIn(file) \cap ids = {}
          /\ DeclinedIn(file) \cap ids = {}
      BY DEF InOnePlace
    <3> QED
      BY <1>1, <2>1, <3>1
  <2> QED
    BY <2>3, <2>4 DEF InOnePlace
<1> QED
  BY <1>2, <1>3

LEMMA StoreStarts == StoreInit => StoreInv
BY DEF StoreInit, StoreInv, StoreTypeOK, SeenIsOfThePast, PushedIsInOnePlace, PinnedIsKept, AssigningIsKept,
       AcceptedOfFiles, Exists, Pinned

\* What a base that holds says.
LEMMA BaseOfPage ==
  ASSUME StoreInv, NEW p \in Pages, BaseHolds(p)
  PROVE  /\ seen[p].id \in Ids /\ Exists(seen[p].id)
         /\ seen[p].copy = blueprints[seen[p].id]
<1>1. /\ seen[p] # Nothing /\ seen[p].id \in Ids /\ seen[p].copy \in BlueprintFiles
      /\ blueprints[seen[p].id].taken_at = seen[p].copy.taken_at
  BY DEF StoreInv, StoreTypeOK, BaseHolds
<1>2. /\ Exists(seen[p].id) /\ blueprints[seen[p].id] \in BlueprintFiles
      /\ \/ seen[p].copy = blueprints[seen[p].id]
         \/ Later(blueprints[seen[p].id].taken_at, seen[p].copy.taken_at)
  BY <1>1 DEF StoreInv, SeenIsOfThePast, Exists, StoreTypeOK
<1>3. seen[p].copy.taken_at \in Stamps
  BY <1>1 DEF BlueprintFiles
<1> QED
  BY <1>1, <1>2, <1>3, LaterIsOrder

\* A file there is.
LEMMA FileFields ==
  ASSUME StoreInv, NEW b \in Ids, Exists(b)
  PROVE  LET file == blueprints[b]
         IN  /\ file \in BlueprintFiles /\ file.revisions \in Seq(Contents)
             /\ file.pending \subseteq PendingRevisions /\ file.rejected \subseteq PendingRevisions
             /\ file.last_pending_id \in Nat
             /\ file.current_revision \in 1..Len(file.revisions)
             /\ InOnePlace(file, accepted[b])
BY DEF StoreInv, StoreTypeOK, Exists, BlueprintFiles, PushedIsInOnePlace, InOnePlace, WaitsIn, DeclinedIn

\* What Revised leaves of a file.
LEMMA RevisedFile ==
  ASSUME NEW file \in BlueprintFiles, file.current_revision \in 1..Len(file.revisions),
         NEW content \in Contents, NEW current \in BOOLEAN
  PROVE  LET new == Revised(file, content, current)
         IN  /\ new \in BlueprintFiles
             /\ new.current_revision \in 1..Len(new.revisions)
             /\ Len(new.revisions) = Len(file.revisions) + 1
             /\ \A n \in 1..Len(file.revisions) : new.revisions[n] = file.revisions[n]
             /\ new.pending = file.pending /\ new.rejected = file.rejected
             /\ new.last_pending_id = file.last_pending_id
<1> DEFINE longer == Append(file.revisions, content)
           marker == IF current THEN Len(file.revisions) + 1 ELSE file.current_revision
           new == [file EXCEPT !.revisions = longer, !.current_revision = marker]
<1>1. file.revisions \in Seq(Contents)
  BY DEF BlueprintFiles
<1>2. /\ longer \in Seq(Contents) /\ Len(longer) = Len(file.revisions) + 1
      /\ \A n \in 1..Len(file.revisions) : longer[n] = file.revisions[n]
      /\ Len(file.revisions) \in Nat
  BY <1>1
<1> HIDE DEF longer
<1>3. marker \in 1..Len(longer) /\ marker \in Nat
  BY <1>2
<1> HIDE DEF marker
<1>4. /\ new \in BlueprintFiles /\ new.revisions = longer /\ new.current_revision = marker
      /\ new.pending = file.pending /\ new.rejected = file.rejected
      /\ new.last_pending_id = file.last_pending_id
  BY <1>2, <1>3 DEF BlueprintFiles
<1>5. Revised(file, content, current) = new
  BY DEF Revised, longer, marker
<1> QED
  BY <1>2, <1>3, <1>4, <1>5

\* A step that leaves the files alone.
LEMMA OutsideKeeps ==
  ASSUME StoreInv, UNCHANGED <<blueprints, accepted>>,
         seen' \in [Pages -> [id : Ids, copy : BlueprintFiles] \cup {Nothing}],
         \A p \in Pages : seen'[p] # Nothing =>
            seen'[p] = seen[p] \/ (Exists(seen'[p].id) /\ seen'[p].copy = blueprints[seen'[p].id]),
         assignments' \in [Rooms -> Assignments \cup {Nothing}],
         \A r \in Rooms : assignments'[r] # Nothing => Pinned(assignments'[r]),
         assigning' \in [Pages -> Assignments \cup {Nothing}],
         \A p \in Pages : assigning'[p] # Nothing => Pinned(assigning'[p])
  PROVE  StoreInv' /\ RevisionsStay
<1> USE DEF StoreInv
<1>1. StoreTypeOK' /\ AcceptedOfFiles' /\ PushedIsInOnePlace'
  BY DEF StoreTypeOK, Exists, AcceptedOfFiles, PushedIsInOnePlace
<1>2. SeenIsOfThePast'
  BY DEF SeenIsOfThePast, Exists
<1>3. PinnedIsKept' /\ AssigningIsKept'
  BY DEF PinnedIsKept, AssigningIsKept, Pinned, Exists
<1>4. RevisionsStay
  <2>1. \A b \in Ids : Exists(b) => Len(blueprints[b].revisions) \in Nat
    BY DEF Exists, StoreTypeOK, BlueprintFiles
  <2> QED
    BY <2>1 DEF RevisionsStay, Exists
<1> QED
  BY <1>1, <1>2, <1>3, <1>4

LEMMA ReadKeeps ==
  ASSUME StoreInv, NEW p \in Pages, NEW b \in Ids, Read(p, b)
  PROVE  StoreInv' /\ RevisionsStay
<1> DEFINE shows == [id |-> b, copy |-> blueprints[b]]
<1>1. Exists(b) /\ seen' = [seen EXCEPT ![p] = shows]
      /\ UNCHANGED <<blueprints, assignments, assigning, accepted>>
  BY DEF Read
<1>2. shows \in [id : Ids, copy : BlueprintFiles]
  BY <1>1, FileFields
<1>3. /\ seen' \in [Pages -> [id : Ids, copy : BlueprintFiles] \cup {Nothing}]
      /\ \A q \in Pages : seen'[q] = seen[q] \/ seen'[q] = shows
  BY <1>1, <1>2 DEF StoreInv, StoreTypeOK
<1>4. shows.id = b /\ shows.copy = blueprints[b]
  OBVIOUS
<1> HIDE DEF shows
<1> QED
  BY <1>1, <1>3, <1>4, OutsideKeeps DEF StoreInv, StoreTypeOK, PinnedIsKept, AssigningIsKept, Pinned

LEMMA AssigningKeeps ==
  ASSUME StoreInv, NEW p \in Pages, NEW r \in Rooms,
         (\E b \in Ids, n \in 1..MaxRevisions : ReadForAssign(p, r, b, n)) \/ Assign(p)
  PROVE  StoreInv' /\ RevisionsStay
<1>1. /\ \A q \in Rooms : assignments[q] # Nothing => Pinned(assignments[q])
      /\ \A q \in Pages : assigning[q] # Nothing => Pinned(assigning[q])
      /\ assignments \in [Rooms -> Assignments \cup {Nothing}]
      /\ assigning \in [Pages -> Assignments \cup {Nothing}]
      /\ seen \in [Pages -> [id : Ids, copy : BlueprintFiles] \cup {Nothing}]
  BY DEF StoreInv, StoreTypeOK, PinnedIsKept, AssigningIsKept, Pinned
<1>2. ASSUME NEW b \in Ids, NEW n \in 1..MaxRevisions, ReadForAssign(p, r, b, n) PROVE StoreInv' /\ RevisionsStay
  <2> DEFINE a == [room |-> r, blueprint |-> b, revision |-> n, content |-> blueprints[b].revisions[n]]
  <2>1. /\ Exists(b) /\ n \in 1..Len(blueprints[b].revisions) /\ assigning' = [assigning EXCEPT ![p] = a]
        /\ UNCHANGED <<blueprints, seen, assignments, accepted>>
    BY <1>2 DEF ReadForAssign
  <2>2. blueprints[b].revisions[n] \in Contents
    BY <2>1, FileFields
  <2>3. a \in Assignments /\ Pinned(a)
    BY <2>1, <2>2, StoreAssumption DEF Assignments, Pinned
  <2>4. /\ assigning' \in [Pages -> Assignments \cup {Nothing}]
        /\ \A q \in Pages : assigning'[q] = assigning[q] \/ assigning'[q] = a
    BY <1>1, <2>1, <2>3
  <2> HIDE DEF a
  <2> QED
    BY <1>1, <2>1, <2>3, <2>4, OutsideKeeps
<1>3. CASE Assign(p)
  <2>1. /\ assigning[p] # Nothing /\ assigning[p] \in Assignments /\ Pinned(assigning[p])
        /\ assignments' = [assignments EXCEPT ![assigning[p].room] = assigning[p]]
        /\ assigning' = [assigning EXCEPT ![p] = Nothing]
        /\ UNCHANGED <<blueprints, seen, accepted>>
    BY <1>1, <1>3 DEF Assign
  <2>2. /\ assignments' \in [Rooms -> Assignments \cup {Nothing}]
        /\ \A q \in Rooms : assignments'[q] = assignments[q] \/ assignments'[q] = assigning[p]
        /\ assigning' \in [Pages -> Assignments \cup {Nothing}]
        /\ \A q \in Pages : assigning'[q] = assigning[q] \/ assigning'[q] = Nothing
    BY <1>1, <2>1 DEF Assignments
  <2> QED
    BY <1>1, <2>1, <2>2, OutsideKeeps
<1> QED
  BY <1>2, <1>3

LEMMA CreateKeeps ==
  ASSUME StoreInv, NEW b \in Ids, NEW content \in Contents, NEW time \in Times, Create(b, content, time)
  PROVE  StoreInv' /\ RevisionsStay
<1> USE DEF StoreInv
<1> DEFINE new == [taken_at |-> <<time, 0>>, current_revision |-> 1, in_use |-> TRUE,
                   revisions |-> <<content>>, pending |-> {}, rejected |-> {}, last_pending_id |-> 0]
<1>1. /\ ~Exists(b) /\ blueprints' = [blueprints EXCEPT ![b] = new]
      /\ UNCHANGED <<seen, assignments, assigning, accepted>>
  BY DEF Create
<1>2. new \in BlueprintFiles
  <2>1. <<time, 0>> \in Stamps
    BY StoreAssumption DEF Stamps
  <2>2. <<content>> \in Seq(Contents)
    OBVIOUS
  <2> QED
    BY <2>1, <2>2 DEF BlueprintFiles
<1>3. new.current_revision \in 1..Len(new.revisions) /\ InOnePlace(new, {})
  BY DEF InOnePlace, WaitsIn, DeclinedIn
<1> HIDE DEF new
<1>4. /\ blueprints' \in [Ids -> BlueprintFiles \cup {Nothing}] /\ blueprints'[b] = new
      /\ \A c \in Ids : c # b => blueprints'[c] = blueprints[c]
      /\ accepted[b] = {}
  BY <1>1, <1>2 DEF StoreTypeOK, AcceptedOfFiles
<1>5. StoreTypeOK' /\ AcceptedOfFiles'
  BY <1>1, <1>2, <1>3, <1>4, NoFileIsNothing DEF StoreTypeOK, AcceptedOfFiles, Exists
<1>6. \A c \in Ids : Exists(c) => c # b /\ blueprints'[c] = blueprints[c]
  BY <1>1, <1>4
<1>7. SeenIsOfThePast'
  BY <1>1, <1>6 DEF SeenIsOfThePast, Exists, StoreTypeOK
<1>8. PushedIsInOnePlace'
  <2> SUFFICES ASSUME NEW c \in Ids, blueprints'[c] # Nothing PROVE InOnePlace(blueprints'[c], accepted[c])
    BY <1>1 DEF PushedIsInOnePlace, Exists, InOnePlace, WaitsIn, DeclinedIn
  <2>1. CASE c = b
    BY <2>1, <1>3, <1>4
  <2>2. CASE c # b
    BY <2>2, <1>4, FileFields DEF Exists
  <2> QED
    BY <2>1, <2>2
<1>9. PinnedIsKept' /\ AssigningIsKept'
  <2>1. ASSUME NEW a \in Assignments, Pinned(a) PROVE Pinned(a)'
    BY <1>6, <2>1 DEF Pinned, Assignments, Exists
  <2>2. \A r \in Rooms : assignments[r] # Nothing => assignments[r] \in Assignments /\ Pinned(assignments[r])
    BY DEF StoreTypeOK, PinnedIsKept, Pinned
  <2>3. \A p \in Pages : assigning[p] # Nothing => assigning[p] \in Assignments /\ Pinned(assigning[p])
    BY DEF StoreTypeOK, AssigningIsKept
  <2>4. PinnedIsKept'
    BY <1>1, <2>1, <2>2 DEF PinnedIsKept, Pinned
  <2>5. AssigningIsKept'
    BY <1>1, <2>1, <2>3 DEF AssigningIsKept, Pinned, Exists
  <2> QED
    BY <2>4, <2>5
<1>10. RevisionsStay
  <2>1. \A c \in Ids : Exists(c) => Len(blueprints[c].revisions) \in Nat
    BY DEF Exists, StoreTypeOK, BlueprintFiles
  <2> QED
    BY <1>6, <2>1 DEF RevisionsStay, Exists
<1> QED
  BY <1>5, <1>7, <1>8, <1>9, <1>10
\* A revision that is added keeps what was there, whatever becomes of what waits.
LEMMA RevisingKeeps ==
  ASSUME StoreInv, NEW b \in Ids, Exists(b), NEW time \in Times,
         NEW file \in BlueprintFiles, file.revisions = blueprints[b].revisions,
         file.current_revision = blueprints[b].current_revision,
         NEW content \in Contents, NEW current \in BOOLEAN,
         Write(b, Revised(file, content, current), time),
         accepted' \in [Ids -> SUBSET Nat], \A c \in Ids : c # b => accepted'[c] = accepted[c],
         \A new \in BlueprintFiles :
            /\ new.pending = file.pending /\ new.rejected = file.rejected
            /\ new.last_pending_id = file.last_pending_id
            => InOnePlace(new, accepted'[b]),
         UNCHANGED <<seen, assignments, assigning>>
  PROVE  StoreInv' /\ RevisionsStay
<1> DEFINE more == Revised(file, content, current)
<1>1. file.current_revision \in 1..Len(file.revisions) /\ Len(blueprints[b].revisions) \in Nat
  BY FileFields DEF BlueprintFiles
<1>2. /\ more \in BlueprintFiles /\ more.current_revision \in 1..Len(more.revisions)
      /\ Len(more.revisions) = Len(file.revisions) + 1
      /\ \A n \in 1..Len(file.revisions) : more.revisions[n] = file.revisions[n]
      /\ more.pending = file.pending /\ more.rejected = file.rejected
      /\ more.last_pending_id = file.last_pending_id
  BY <1>1, RevisedFile
<1> HIDE DEF more
<1>3. Write(b, more, time)
  BY DEF more
<1>4. /\ blueprints'[b] \in BlueprintFiles /\ Later(blueprints'[b].taken_at, blueprints[b].taken_at)
      /\ blueprints'[b].revisions = more.revisions /\ blueprints'[b].pending = more.pending
      /\ blueprints'[b].rejected = more.rejected /\ blueprints'[b].last_pending_id = more.last_pending_id
      /\ blueprints'[b].current_revision = more.current_revision
      /\ blueprints' \in [Ids -> BlueprintFiles \cup {Nothing}]
      /\ \A c \in Ids : c # b => blueprints'[c] = blueprints[c]
  BY <1>2, <1>3, Written DEF StoreInv
<1>5. InOnePlace(blueprints'[b], accepted'[b])
  BY <1>2, <1>4
<1>6. /\ blueprints'[b].current_revision \in 1..Len(blueprints'[b].revisions)
      /\ Len(blueprints'[b].revisions) >= Len(blueprints[b].revisions)
      /\ \A n \in 1..Len(blueprints[b].revisions) : blueprints'[b].revisions[n] = blueprints[b].revisions[n]
  BY <1>1, <1>2, <1>4
<1> QED
  BY <1>4, <1>5, <1>6, GoingOnKeeps

LEMMA AddRevisionKeeps ==
  ASSUME StoreInv, NEW p \in Pages, NEW content \in Contents, NEW current \in BOOLEAN, NEW time \in Times,
         AddRevision(p, content, current, time)
  PROVE  StoreInv' /\ RevisionsStay
<1> DEFINE b == seen[p].id
<1>1. /\ BaseHolds(p) /\ Write(b, Revised(blueprints[b], content, current), time)
      /\ UNCHANGED <<seen, assignments, assigning, accepted>>
  BY DEF AddRevision
<1>2. b \in Ids /\ Exists(b)
  BY <1>1, BaseOfPage
<1> HIDE DEF b
<1>3. blueprints[b] \in BlueprintFiles /\ InOnePlace(blueprints[b], accepted[b])
  BY <1>2, FileFields
<1>4. \A new \in BlueprintFiles :
         /\ new.pending = blueprints[b].pending /\ new.rejected = blueprints[b].rejected
         /\ new.last_pending_id = blueprints[b].last_pending_id
         => InOnePlace(new, accepted'[b])
  BY <1>1, <1>3 DEF InOnePlace, WaitsIn, DeclinedIn
<1> QED
  BY <1>1, <1>2, <1>3, <1>4, RevisingKeeps DEF StoreInv, StoreTypeOK

LEMMA AcceptKeeps ==
  ASSUME StoreInv, NEW p \in Pages, NEW id, NEW time \in Times, Accept(p, id, time)
  PROVE  StoreInv' /\ RevisionsStay
<1> DEFINE b == seen[p].id
<1>1. /\ BaseHolds(p) /\ UNCHANGED <<seen, assignments, assigning>>
      /\ accepted' = [accepted EXCEPT ![b] = @ \cup {id}]
      /\ \E w \in blueprints[b].pending :
            /\ w.pending_id = id
            /\ Write(b, Revised([blueprints[b] EXCEPT !.pending = @ \ {w}], w.content, TRUE), time)
  BY DEF Accept
<1>2. b \in Ids /\ Exists(b)
  BY <1>1, BaseOfPage
<1> HIDE DEF b
<1>3. PICK w \in blueprints[b].pending :
         /\ w.pending_id = id
         /\ Write(b, Revised([blueprints[b] EXCEPT !.pending = @ \ {w}], w.content, TRUE), time)
  BY <1>1
<1> DEFINE file == [blueprints[b] EXCEPT !.pending = @ \ {w}]
<1>4. /\ blueprints[b] \in BlueprintFiles /\ InOnePlace(blueprints[b], accepted[b])
      /\ w \in PendingRevisions
  BY <1>2, <1>3, FileFields
<1>5. w.content \in Contents /\ w.pending_id \in Nat
  BY <1>4 DEF PendingRevisions
<1>6. /\ file \in BlueprintFiles /\ file.revisions = blueprints[b].revisions
      /\ file.current_revision = blueprints[b].current_revision
      /\ file.pending = blueprints[b].pending \ {w} /\ file.rejected = blueprints[b].rejected
      /\ file.last_pending_id = blueprints[b].last_pending_id
  BY <1>4 DEF BlueprintFiles
<1>7. Write(b, Revised(file, w.content, TRUE), time)
  BY <1>3
<1> HIDE DEF file
<1>8. /\ accepted' \in [Ids -> SUBSET Nat] /\ accepted[b] \in SUBSET Nat
      /\ accepted'[b] = accepted[b] \cup {w.pending_id}
      /\ \A c \in Ids : c # b => accepted'[c] = accepted[c]
  BY <1>1, <1>2, <1>3, <1>5 DEF StoreInv, StoreTypeOK
<1>9. ASSUME NEW new \in BlueprintFiles, new.pending = file.pending, new.rejected = file.rejected,
             new.last_pending_id = file.last_pending_id
      PROVE  InOnePlace(new, accepted'[b])
  BY <1>3, <1>4, <1>6, <1>8, <1>9, WaitingIsTaken
<1> QED
  BY <1>1, <1>2, <1>5, <1>6, <1>7, <1>8, <1>9, RevisingKeeps

\* A write that leaves the revisions as they are.
LEMMA SameRevisionsKeep ==
  ASSUME StoreInv, NEW b \in Ids, Exists(b), NEW time \in Times, NEW file \in BlueprintFiles,
         file.revisions = blueprints[b].revisions,
         file.current_revision \in 1..Len(file.revisions),
         InOnePlace(file, accepted[b]),
         Write(b, file, time), UNCHANGED <<seen, assignments, assigning, accepted>>
  PROVE  StoreInv' /\ RevisionsStay
<1>1. /\ blueprints'[b] \in BlueprintFiles /\ Later(blueprints'[b].taken_at, blueprints[b].taken_at)
      /\ blueprints'[b].revisions = file.revisions /\ blueprints'[b].pending = file.pending
      /\ blueprints'[b].rejected = file.rejected /\ blueprints'[b].last_pending_id = file.last_pending_id
      /\ blueprints'[b].current_revision = file.current_revision
      /\ blueprints' \in [Ids -> BlueprintFiles \cup {Nothing}]
      /\ \A c \in Ids : c # b => blueprints'[c] = blueprints[c]
  BY Written DEF StoreInv
<1>2. InOnePlace(blueprints'[b], accepted'[b])
  BY <1>1 DEF InOnePlace, WaitsIn, DeclinedIn
<1>3. Len(blueprints[b].revisions) \in Nat
  BY FileFields DEF BlueprintFiles
<1>4. /\ blueprints'[b].current_revision \in 1..Len(blueprints'[b].revisions)
      /\ Len(blueprints'[b].revisions) >= Len(blueprints[b].revisions)
      /\ \A n \in 1..Len(blueprints[b].revisions) : blueprints'[b].revisions[n] = blueprints[b].revisions[n]
  BY <1>1, <1>3
<1>5. accepted' \in [Ids -> SUBSET Nat] /\ \A c \in Ids : c # b => accepted'[c] = accepted[c]
  BY DEF StoreInv, StoreTypeOK
<1> QED
  BY <1>1, <1>2, <1>4, <1>5, GoingOnKeeps

LEMMA PushPendingKeeps ==
  ASSUME StoreInv, NEW b \in Ids, NEW content \in Contents, NEW time \in Times, PushPending(b, content, time)
  PROVE  StoreInv' /\ RevisionsStay
<1> DEFINE id == blueprints[b].last_pending_id + 1
           one == [pending_id |-> id, content |-> content]
           file == [blueprints[b] EXCEPT !.last_pending_id = id, !.pending = @ \cup {one}]
<1>1. /\ Exists(b) /\ Write(b, file, time) /\ UNCHANGED <<seen, assignments, assigning, accepted>>
  BY DEF PushPending, Writable
<1>2. /\ blueprints[b] \in BlueprintFiles /\ InOnePlace(blueprints[b], accepted[b])
      /\ blueprints[b].last_pending_id \in Nat /\ accepted[b] \in SUBSET Nat
      /\ blueprints[b].current_revision \in 1..Len(blueprints[b].revisions)
      /\ blueprints[b].pending \subseteq PendingRevisions
  BY <1>1, FileFields DEF StoreInv, StoreTypeOK
<1>3. id \in Nat /\ one \in PendingRevisions
  BY <1>2 DEF PendingRevisions
<1> HIDE DEF one, id
<1>4. /\ file \in BlueprintFiles /\ file.revisions = blueprints[b].revisions
      /\ file.current_revision = blueprints[b].current_revision
      /\ file.pending = blueprints[b].pending \cup {one} /\ file.rejected = blueprints[b].rejected
      /\ file.last_pending_id = id
  BY <1>2, <1>3 DEF BlueprintFiles
<1> HIDE DEF file
<1>5. InOnePlace(file, accepted[b])
  BY <1>2, <1>4, PushedWaits DEF one, id
<1> QED
  BY <1>1, <1>2, <1>4, <1>5, SameRevisionsKeep

LEMMA RejectKeeps ==
  ASSUME StoreInv, NEW p \in Pages, NEW id, NEW time \in Times, Reject(p, id, time)
  PROVE  StoreInv' /\ RevisionsStay
<1> DEFINE b == seen[p].id
<1>1. /\ BaseHolds(p) /\ UNCHANGED <<seen, assignments, assigning, accepted>>
      /\ \E w \in blueprints[b].pending :
            Write(b, [blueprints[b] EXCEPT !.pending = @ \ {w}, !.rejected = @ \cup {w}], time)
  BY DEF Reject
<1>2. b \in Ids /\ Exists(b)
  BY <1>1, BaseOfPage
<1> HIDE DEF b
<1>3. PICK w \in blueprints[b].pending :
         Write(b, [blueprints[b] EXCEPT !.pending = @ \ {w}, !.rejected = @ \cup {w}], time)
  BY <1>1
<1> DEFINE file == [blueprints[b] EXCEPT !.pending = @ \ {w}, !.rejected = @ \cup {w}]
<1>4. /\ blueprints[b] \in BlueprintFiles /\ InOnePlace(blueprints[b], accepted[b])
      /\ w \in PendingRevisions /\ accepted[b] \in SUBSET Nat
      /\ blueprints[b].current_revision \in 1..Len(blueprints[b].revisions)
  BY <1>2, <1>3, FileFields DEF StoreInv, StoreTypeOK
<1>5. /\ file \in BlueprintFiles /\ file.revisions = blueprints[b].revisions
      /\ file.current_revision = blueprints[b].current_revision
      /\ file.pending = blueprints[b].pending \ {w} /\ file.rejected = blueprints[b].rejected \cup {w}
      /\ file.last_pending_id = blueprints[b].last_pending_id
  BY <1>4 DEF BlueprintFiles
<1>6. Write(b, file, time)
  BY <1>3
<1> HIDE DEF file
<1>7. InOnePlace(file, accepted[b])
  BY <1>3, <1>4, <1>5, WaitingIsTaken
<1> QED
  BY <1>1, <1>2, <1>4, <1>5, <1>6, <1>7, SameRevisionsKeep

LEMMA UpdateKeeps ==
  ASSUME StoreInv, NEW p \in Pages, NEW current \in 1..MaxRevisions, NEW in_use \in BOOLEAN, NEW time \in Times,
         Update(p, current, in_use, time)
  PROVE  StoreInv' /\ RevisionsStay
<1> DEFINE b == seen[p].id
           file == [blueprints[b] EXCEPT !.current_revision = current, !.in_use = in_use]
<1>1. /\ BaseHolds(p) /\ Write(b, file, time) /\ UNCHANGED <<seen, assignments, assigning, accepted>>
      /\ current \in 1..Len(blueprints[b].revisions)
  BY DEF Update
<1>2. b \in Ids /\ Exists(b)
  BY <1>1, BaseOfPage
<1> HIDE DEF b
<1>3. blueprints[b] \in BlueprintFiles /\ InOnePlace(blueprints[b], accepted[b]) /\ current \in Nat
  BY <1>2, FileFields, StoreAssumption
<1>4. /\ file \in BlueprintFiles /\ file.revisions = blueprints[b].revisions
      /\ file.current_revision = current
      /\ file.pending = blueprints[b].pending /\ file.rejected = blueprints[b].rejected
      /\ file.last_pending_id = blueprints[b].last_pending_id
  BY <1>3 DEF BlueprintFiles
<1> HIDE DEF file
<1>5. InOnePlace(file, accepted[b])
  BY <1>3, <1>4 DEF InOnePlace, WaitsIn, DeclinedIn
<1> QED
  BY <1>1, <1>2, <1>4, <1>5, SameRevisionsKeep

LEMMA StoreSteps == StoreInv /\ [StoreNext]_storeVars => StoreInv' /\ RevisionsStay
<1> SUFFICES ASSUME StoreInv, [StoreNext]_storeVars PROVE StoreInv' /\ RevisionsStay
  OBVIOUS
<1>1. ASSUME NEW p \in Pages, NEW b \in Ids, Read(p, b) PROVE StoreInv' /\ RevisionsStay
  BY <1>1, ReadKeeps
<1>2. ASSUME NEW time \in Times, NEW b \in Ids, NEW content \in Contents,
             Create(b, content, time) \/ PushPending(b, content, time)
      PROVE  StoreInv' /\ RevisionsStay
  BY <1>2, CreateKeeps, PushPendingKeeps
<1>3. ASSUME NEW time \in Times, NEW p \in Pages, NEW content \in Contents, NEW make_current \in BOOLEAN,
             AddRevision(p, content, make_current, time)
      PROVE  StoreInv' /\ RevisionsStay
  BY <1>3, AddRevisionKeeps
<1>4. ASSUME NEW time \in Times, NEW p \in Pages, NEW id, Accept(p, id, time) \/ Reject(p, id, time)
      PROVE  StoreInv' /\ RevisionsStay
  BY <1>4, AcceptKeeps, RejectKeeps
<1>5. ASSUME NEW time \in Times, NEW p \in Pages, NEW current \in 1..MaxRevisions, NEW in_use \in BOOLEAN,
             Update(p, current, in_use, time)
      PROVE  StoreInv' /\ RevisionsStay
  BY <1>5, UpdateKeeps
<1>6. ASSUME NEW p \in Pages, NEW r \in Rooms,
             \E b \in Ids, n \in 1..MaxRevisions : ReadForAssign(p, r, b, n)
      PROVE  StoreInv' /\ RevisionsStay
  BY <1>6, AssigningKeeps
<1>7. ASSUME NEW p \in Pages, Assign(p) PROVE StoreInv' /\ RevisionsStay
  <2>1. PICK r \in Rooms : TRUE
    <3>1. assigning[p] \in Assignments
      BY <1>7 DEF Assign, StoreInv, StoreTypeOK
    <3> QED
      BY <3>1 DEF Assignments
  <2> QED
    BY <1>7, <2>1, AssigningKeeps
<1>8. ASSUME NEW r \in Rooms, Unassign(r) PROVE StoreInv' /\ RevisionsStay
  <2>1. UNCHANGED <<blueprints, seen, assigning, accepted>>
    BY <1>8 DEF Unassign
  <2>2. /\ assignments' \in [Rooms -> Assignments \cup {Nothing}]
        /\ \A q \in Rooms : assignments'[q] = assignments[q] \/ assignments'[q] = Nothing
    BY <1>8 DEF Unassign, StoreInv, StoreTypeOK
  <2> QED
    BY <2>1, <2>2, OutsideKeeps DEF StoreInv, StoreTypeOK, PinnedIsKept, AssigningIsKept, Pinned
<1>9. CASE UNCHANGED storeVars
  <2>1. UNCHANGED <<blueprints, seen, assignments, assigning, accepted>>
    BY <1>9 DEF storeVars
  <2> QED
    BY <2>1, OutsideKeeps DEF StoreInv, StoreTypeOK, PinnedIsKept, AssigningIsKept, Pinned
<1> QED
  BY <1>1, <1>2, <1>3, <1>4, <1>5, <1>6, <1>7, <1>8, <1>9 DEF StoreNext

LEMMA StoreHolds == StoreSpec => []StoreInv
BY StoreStarts, StoreSteps, PTL DEF StoreSpec

\* A base that still holds is a base of the very file on disk, on any clock: stamps only go up.
THEOREM BasesAreVersions == StoreSpec => []BaseIsVersion
<1>1. StoreInv => BaseIsVersion
  BY BaseOfPage DEF BaseIsVersion
<1> QED
  BY <1>1, StoreHolds, PTL

\* Every pushed revision is in one place, and no two have one id, whatever is accepted or declined.
THEOREM PushesAreInOnePlace == StoreSpec => []PushedIsInOnePlace
BY StoreHolds, PTL DEF StoreInv

\* What an assignment pins is there and is what was pinned, for any number of people at work.
THEOREM PinsAreKept == StoreSpec => []PinnedIsKept
BY StoreHolds, PTL DEF StoreInv

\* No call takes a revision away or changes one.
THEOREM RevisionsAreKept == StoreSpec => RevisionsKept
<1>1. StoreInv /\ [StoreNext]_storeVars =>
         [\A b \in Ids : Exists(b) =>
            /\ blueprints'[b] # Nothing
            /\ Len(blueprints'[b].revisions) >= Len(blueprints[b].revisions)
            /\ \A n \in 1..Len(blueprints[b].revisions) :
                  blueprints'[b].revisions[n] = blueprints[b].revisions[n]]_storeVars
  BY StoreSteps DEF RevisionsStay
<1> QED
  BY <1>1, StoreHolds, PTL DEF StoreSpec, RevisionsKept

\* The files, the pages and the assignments hold what their types say.
THEOREM StoreTypesHold == StoreSpec => []StoreTypeOK
BY StoreHolds, PTL DEF StoreInv
=============================================================================
