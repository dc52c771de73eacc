----------------------------- MODULE Blueprints -----------------------------
(***************************************************************************)
(* The blueprint store (src/blueprints.rs): one file per blueprint, with   *)
(* the revisions people made, the revisions that were pushed and wait for  *)
(* a person, and the ones that were declined.  SAVE_LOCK is held from the  *)
(* read of a file to its rename, so a call of the store is a step; what is *)
(* not under it is a page, which a person read some time ago and whose     *)
(* taken_at the next write names as its base.                              *)
(*                                                                         *)
(* A refused call, and one whose write fails, leaves the file as it was    *)
(* and is no action.  Revision numbers are positions: the code gives the   *)
(* highest number plus one and takes none away.                            *)
(***************************************************************************)
EXTENDS Absence, Naturals, Sequences, FiniteSets

CONSTANTS
    Ids,            \* the ids new_id can give
    Contents,       \* what a revision may hold
    Pages,          \* browser pages, each showing at most one blueprint
    Times,          \* readings of the clock, which may stand still or go back
    MaxRevisions, MaxPending,   \* the limits of the code, made small
    MaxRestamps,    \* bounds the writes while the clock does not move
    Rooms           \* rooms a blueprint may be assigned to

ASSUME StoreAssumption ==
    /\ Times \subseteq Nat
    /\ MaxRevisions \in Nat /\ MaxPending \in Nat /\ MaxRestamps \in Nat

(***************************************************************************)
(* A stamp is a reading of the clock and the number of "~" after it:       *)
(* readings have one width, so stamps compare as strings the way these     *)
(* pairs do.                                                               *)
(***************************************************************************)
Stamps == Nat \X Nat

Later(s, t) == \/ s[1] > t[1]
               \/ s[1] = t[1] /\ s[2] > t[2]

\* Mutated form of NextStamp: a clock that did not move gives the same stamp again.
NextStampOfTheClock(previous, time) ==
    IF time > previous[1] THEN <<time, 0>> ELSE previous

NextStamp(previous, time) ==
    IF time > previous[1] THEN <<time, 0>> ELSE <<previous[1], previous[2] + 1>>

PendingRevisions == [pending_id : Nat, content : Contents]

BlueprintFiles ==
    [taken_at : Stamps, current_revision : Nat, in_use : BOOLEAN, revisions : Seq(Contents),
     pending : SUBSET PendingRevisions, rejected : SUBSET PendingRevisions, last_pending_id : Nat]

Assignments == [room : Rooms, blueprint : Ids, revision : Nat, content : Contents]

ASSUME NoFileIsNothing == Nothing \notin BlueprintFiles /\ Nothing \notin Assignments

VARIABLES
    blueprints,     \* the files
    seen,           \* the blueprint each page shows, as it was when read
    assignments,    \* the assignment of each room (src/assignments.rs)
    assigning,      \* what each page's assign has read and not yet written
    accepted        \* history: the pending ids that became revisions

storeVars == <<blueprints, seen, assignments, assigning, accepted>>

StoreInit ==
    /\ blueprints = [b \in Ids |-> Nothing]
    /\ seen = [p \in Pages |-> Nothing]
    /\ assignments = [r \in Rooms |-> Nothing]
    /\ assigning = [p \in Pages |-> Nothing]
    /\ accepted = [b \in Ids |-> {}]

Exists(b) == blueprints[b] # Nothing

\* The file of b may be written at this time (the bound on "~").
Writable(b, time) ==
    /\ Exists(b)
    /\ NextStamp(blueprints[b].taken_at, time)[2] <= MaxRestamps

Write(b, file, time) ==
    blueprints' = [blueprints EXCEPT ![b] =
                      [file EXCEPT !.taken_at = NextStamp(blueprints[b].taken_at, time)]]

\* The base a page sends is still the version on disk.
BaseHolds(p) ==
    /\ seen[p] # Nothing
    /\ blueprints[seen[p].id].taken_at = seen[p].copy.taken_at

PendingIds(b) == IF Exists(b) THEN {w.pending_id : w \in blueprints[b].pending} ELSE {}

\* Mutated form of Revised: a revision that takes the place of the last one.
RevisedInPlace(file, content, current) ==
    [file EXCEPT !.revisions = [@ EXCEPT ![Len(@)] = content],
                 !.current_revision = IF current THEN Len(file.revisions) ELSE @]

Revised(file, content, current) ==
    [file EXCEPT !.revisions = Append(@, content),
                 !.current_revision = IF current THEN Len(file.revisions) + 1 ELSE @]

-----------------------------------------------------------------------------

Read(p, b) ==
    /\ Exists(b)
    /\ seen' = [seen EXCEPT ![p] = [id |-> b, copy |-> blueprints[b]]]
    /\ UNCHANGED <<blueprints, assignments, assigning, accepted>>

Create(b, content, time) ==
    /\ ~Exists(b)
    /\ blueprints' = [blueprints EXCEPT ![b] =
           [taken_at |-> <<time, 0>>, current_revision |-> 1, in_use |-> TRUE,
            revisions |-> <<content>>, pending |-> {}, rejected |-> {}, last_pending_id |-> 0]]
    /\ UNCHANGED <<seen, assignments, assigning, accepted>>

AddRevision(p, content, make_current, time) ==
    /\ BaseHolds(p)
    /\ LET b == seen[p].id
       IN  /\ Writable(b, time)
           /\ Len(blueprints[b].revisions) < MaxRevisions
           /\ Write(b, Revised(blueprints[b], content, make_current), time)
    /\ UNCHANGED <<seen, assignments, assigning, accepted>>

\* Mutated form of PushPending: the id counts what is on file, and that of an accepted push comes back.
PushPendingOnFile(b, content, time) ==
    /\ Writable(b, time)
    /\ Cardinality(blueprints[b].pending) < MaxPending
    /\ LET id == Cardinality(blueprints[b].pending \cup blueprints[b].rejected) + 1
       IN  Write(b, [blueprints[b] EXCEPT
                        !.last_pending_id = id,
                        !.pending = @ \cup {[pending_id |-> id, content |-> content]}],
                 time)
    /\ UNCHANGED <<seen, assignments, assigning, accepted>>

\* A push names no base: it adds to what waits and changes nothing a reader saw.
PushPending(b, content, time) ==
    /\ Writable(b, time)
    /\ Cardinality(blueprints[b].pending) < MaxPending
    /\ LET id == blueprints[b].last_pending_id + 1
       IN  Write(b, [blueprints[b] EXCEPT
                        !.last_pending_id = id,
                        !.pending = @ \cup {[pending_id |-> id, content |-> content]}],
                 time)
    /\ UNCHANGED <<seen, assignments, assigning, accepted>>

Accept(p, id, time) ==
    /\ BaseHolds(p)
    /\ LET b == seen[p].id
           file == blueprints[b]
       IN  /\ Writable(b, time)
           /\ Len(file.revisions) < MaxRevisions
           /\ \E w \in file.pending :
                 /\ w.pending_id = id
                 /\ Write(b, Revised([file EXCEPT !.pending = @ \ {w}], w.content, TRUE), time)
           /\ accepted' = [accepted EXCEPT ![b] = @ \cup {id}]
    /\ UNCHANGED <<seen, assignments, assigning>>

Reject(p, id, time) ==
    /\ BaseHolds(p)
    /\ LET b == seen[p].id
           file == blueprints[b]
       IN  /\ Writable(b, time)
           /\ \E w \in file.pending :
                 /\ w.pending_id = id
                 /\ Write(b, [file EXCEPT !.pending = @ \ {w},
                                          !.rejected = @ \cup {w}], time)
    /\ UNCHANGED <<seen, assignments, assigning, accepted>>

\* Moves the current marker, or marks the blueprint in use or not.
Update(p, current, in_use, time) ==
    /\ BaseHolds(p)
    /\ LET b == seen[p].id
       IN  /\ Writable(b, time)
           /\ current \in 1..Len(blueprints[b].revisions)
           /\ Write(b, [blueprints[b] EXCEPT !.current_revision = current, !.in_use = in_use], time)
    /\ UNCHANGED <<seen, assignments, assigning, accepted>>

\* assign reads the blueprint before it takes its lock, and writes what it read.  The content is
\* what the person saw: the file names the revision alone.
ReadForAssign(p, r, b, n) ==
    /\ assigning[p] = Nothing
    /\ Exists(b) /\ blueprints[b].in_use
    /\ n \in 1..Len(blueprints[b].revisions)
    /\ assigning' = [assigning EXCEPT ![p] =
           [room |-> r, blueprint |-> b, revision |-> n, content |-> blueprints[b].revisions[n]]]
    /\ UNCHANGED <<blueprints, seen, assignments, accepted>>

\* A room has one assignment: this one takes the place of the last.
Assign(p) ==
    /\ assigning[p] # Nothing
    /\ assignments' = [assignments EXCEPT ![assigning[p].room] = assigning[p]]
    /\ assigning' = [assigning EXCEPT ![p] = Nothing]
    /\ UNCHANGED <<blueprints, seen, accepted>>

Unassign(r) ==
    /\ assignments[r] # Nothing
    /\ assignments' = [assignments EXCEPT ![r] = Nothing]
    /\ UNCHANGED <<blueprints, seen, assigning, accepted>>

StoreNext ==
    \/ \E p \in Pages, b \in Ids : Read(p, b)
    \/ \E time \in Times :
          \/ \E b \in Ids, content \in Contents : Create(b, content, time)
          \/ \E b \in Ids, content \in Contents : PushPending(b, content, time)
          \/ \E p \in Pages, content \in Contents, make_current \in BOOLEAN :
                AddRevision(p, content, make_current, time)
          \/ \E p \in Pages, id \in UNION {PendingIds(b) : b \in Ids} : Accept(p, id, time) \/ Reject(p, id, time)
          \/ \E p \in Pages, current \in 1..MaxRevisions, in_use \in BOOLEAN : Update(p, current, in_use, time)
    \/ \E p \in Pages, r \in Rooms, b \in Ids, n \in 1..MaxRevisions : ReadForAssign(p, r, b, n)
    \/ \E p \in Pages : Assign(p)
    \/ \E r \in Rooms : Unassign(r)

StoreSpec == StoreInit /\ [][StoreNext]_storeVars

-----------------------------------------------------------------------------

StoreTypeOK ==
    /\ blueprints \in [Ids -> BlueprintFiles \cup {Nothing}]
    /\ seen \in [Pages -> [id : Ids, copy : BlueprintFiles] \cup {Nothing}]
    /\ assignments \in [Rooms -> Assignments \cup {Nothing}]
    /\ assigning \in [Pages -> Assignments \cup {Nothing}]
    /\ accepted \in [Ids -> SUBSET Nat]
    /\ \A b \in Ids : Exists(b) => blueprints[b].current_revision \in 1..Len(blueprints[b].revisions)

\* A base that still holds is a base of the very file on disk: nobody decides on a blueprint
\* other than the one the page shows.  `taken_at` is what the code compares for it
\* (add_revision, accept, reject, update), on a clock that may stand still or go back.
BaseIsVersion ==
    \A p \in Pages : BaseHolds(p) => seen[p].copy = blueprints[seen[p].id]

\* Every pushed revision ever received is in one place: it waits, it was rejected, or it became
\* a revision; and no two have one id (`last_pending_id` is a counter for this).
PushedIsInOnePlace ==
    \A b \in Ids : Exists(b) =>
        LET file == blueprints[b]
            waits == {w.pending_id : w \in file.pending}
            declined == {w.pending_id : w \in file.rejected}
        IN  /\ waits \cup declined \cup accepted[b] = 1..file.last_pending_id
            /\ waits \cap declined = {} /\ waits \cap accepted[b] = {} /\ declined \cap accepted[b] = {}
            /\ \A v, w \in file.pending \cup file.rejected : v.pending_id = w.pending_id => v = w

\* What an assignment pins is there and is what the person saw who made it, though the blueprint
\* was read before the lock and edited since (`assign`, `newer_revision`).
PinnedIsKept ==
    \A r \in Rooms : assignments[r] # Nothing =>
        LET a == assignments[r]
        IN  /\ Exists(a.blueprint)
            /\ a.revision \in 1..Len(blueprints[a.blueprint].revisions)
            /\ blueprints[a.blueprint].revisions[a.revision] = a.content

\* Revisions are append-only, whichever call makes them: what an assignment pins never changes
\* and no blueprint goes.
RevisionsKept ==
    [][\A b \in Ids : Exists(b) =>
          /\ blueprints'[b] # Nothing
          /\ Len(blueprints'[b].revisions) >= Len(blueprints[b].revisions)
          /\ \A n \in 1..Len(blueprints[b].revisions) :
                blueprints'[b].revisions[n] = blueprints[b].revisions[n]]_storeVars
=============================================================================
