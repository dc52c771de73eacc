------------------------------ MODULE LayerPolls ------------------------------
(***************************************************************************)
(* The doors layer of a plan on screen.  The page polls                    *)
(* (src-js/viewer/entityPoll.ts) the doors of the scope it shows; the      *)
(* server answers 304 when the entity tag it computes (service/mod.rs) is  *)
(* the one the page holds, and otherwise puts the doors together           *)
(* (service/openings.rs, service/entity_scope.rs).  Every look the server  *)
(* takes at the index or at the settings is a step, so that pushes and     *)
(* settings saves come between the tag and the body it is sent with.       *)
(*                                                                         *)
(* A body is what it is made from: the snapshots of doors, those of rooms  *)
(* when the policy finds the rooms of a door by geometry, the policy and   *)
(* the scope.  A hash is the value it is taken of.  Snapshots are never    *)
(* changed or removed here (see Lineages), and placements are left out.    *)
(***************************************************************************)
EXTENDS Absence, Naturals

CONSTANTS
    Models,         \* models of the project
    SnapshotIds,         \* ids of snapshots
    SettingsFiles,  \* contents the settings may have: a policy, and the pins of a milestone
    Scopes          \* what the page may show: with the milestone or without, and a storey

Kinds == {"rooms", "doors"}
Plans == SUBSET (Models \X SnapshotIds)
EntityTags == [plans : [Kinds -> Plans], settings : SettingsFiles, scope : Scopes]
Bodies == [doors : Plans, rooms : {Nothing} \cup Plans, policy : {"off", "geometry"}, scope : Scopes]

ASSUME PollAssumption ==
    /\ SnapshotIds \subseteq Nat \ {0}
    /\ \A s \in SettingsFiles :
          /\ s.policy \in {"off", "geometry"}
          /\ \A k \in Kinds, m \in Models : s.pins[k][m] \in SnapshotIds \cup {Nothing}
    /\ \A s \in Scopes : s.milestone \in BOOLEAN
    /\ Nothing \notin SnapshotIds /\ Nothing \notin Scopes
    /\ Nothing \notin EntityTags /\ Nothing \notin Bodies
    /\ \A plan \in Plans : plan # Nothing

VARIABLES
    filed,          \* the snapshots of each kind and model
    settings,       \* the registry's content
    scope,          \* what the page shows
    layer,          \* what the layer holds: payload, the scope it was accepted for, tag, revision
    reading,        \* the read under way
    tagged,         \* history: the body that came with the tag the layer holds
    torn            \* history: whether the settings moved between that tag and its body, or a
                    \* milestone pinned a snapshot that was not there

pollVars == <<filed, settings, scope, layer, reading, tagged, torn>>

PollInit ==
    /\ filed = [k \in Kinds |-> [m \in Models |-> {}]]
    /\ settings \in SettingsFiles
    /\ scope \in Scopes
    /\ layer = [payload |-> Nothing, accepted |-> Nothing, tag |-> Nothing, revision |-> Nothing]
    /\ reading = Nothing
    /\ tagged = Nothing /\ torn = FALSE

-----------------------------------------------------------------------------
(* What a read serves *)

\* model_index: the latest snapshot of each kind and model.
NewestOf(stamps) == IF stamps = {} THEN Nothing ELSE CHOOSE n \in stamps : \A s \in stamps : s <= n
IndexNow == [k \in Kinds |-> [m \in Models |-> NewestOf(filed[k][m])]]

\* plan_reads: a model's latest, or what the milestone pins of a model that has any.
Plan(index, file, kind, milestone) ==
    LET id == [m \in Models |-> IF milestone THEN file.pins[kind][m] ELSE index[kind][m]]
    IN  {<<m, id[m]>> : m \in {m \in Models : index[kind][m] # Nothing /\ id[m] # Nothing}}

\* read_planned: a pin whose snapshot is not there is passed over.
Opened(plan, kind) == {p \in plan : p[2] \in filed[kind][p[1]]}

\* Mutated form of TagOf: the doors alone.
TagOfDoors(index, file, s) ==
    [plans |-> [k \in {"doors"} |-> Plan(index, file, k, s.milestone)], settings |-> file, scope |-> s]

\* scope_cursor and etag_for: the plans of both kinds, the settings and the request's scope.
TagOf(index, file, s) ==
    [plans |-> [k \in Kinds |-> Plan(index, file, k, s.milestone)], settings |-> file, scope |-> s]

BodyOf(doors, rooms, policy, s) == [doors |-> doors, rooms |-> rooms, policy |-> policy, scope |-> s]

\* What would be answered if nothing moved meanwhile.
BodyNow(s) ==
    LET Of(kind) == Opened(Plan(IndexNow, settings, kind, s.milestone), kind)
    IN  BodyOf(Of("doors"), IF settings.policy = "geometry" THEN Of("rooms") ELSE Nothing, settings.policy, s)
TagNow(s) == TagOf(IndexNow, settings, s)

-----------------------------------------------------------------------------
(* What moves *)

Push(kind, m, stamp) ==
    /\ stamp \notin filed[kind][m]
    /\ filed' = [filed EXCEPT ![kind][m] = @ \cup {stamp}]
    /\ UNCHANGED <<settings, scope, layer, reading, tagged, torn>>

SaveSettings(file) ==
    /\ file # settings
    /\ settings' = file
    /\ UNCHANGED <<filed, scope, layer, reading, tagged, torn>>

\* A picker or a storey switch: a read of another scope may be cut off, or come all the same.
ShowScope(s) ==
    /\ s # scope
    /\ scope' = s
    /\ \/ UNCHANGED reading
       \/ reading # Nothing /\ reading' = Nothing
    /\ UNCHANGED <<filed, settings, layer, tagged, torn>>

-----------------------------------------------------------------------------
(* The read *)

\* The page asks; only for the scope it holds does it send its tag.
Poll ==
    /\ reading = Nothing
    /\ reading' = [at |-> "asked", scope |-> scope,
                   sent |-> IF layer.accepted = scope THEN layer.tag ELSE Nothing]
    /\ UNCHANGED <<filed, settings, scope, layer, tagged, torn>>

ReadIs(label) == reading # Nothing /\ reading.at = label
OnlyReading == UNCHANGED <<filed, settings, scope, layer, tagged, torn>>

IndexForTag ==
    /\ ReadIs("asked")
    /\ reading' = [at |-> "tagging", scope |-> reading.scope, sent |-> reading.sent, index |-> IndexNow]
    /\ OnlyReading

\* The tag is what the page sent: 304.  Otherwise the body is put together, if doors were ever
\* pushed at all.
SettingsForTag ==
    LET tag == TagOf(reading.index, settings, reading.scope)
    IN  /\ ReadIs("tagging")
        /\ reading' = IF tag = reading.sent THEN [at |-> "answered", scope |-> reading.scope, status |-> 304]
                      ELSE [at |-> "assembling", scope |-> reading.scope, tag |-> tag]
        /\ OnlyReading

\* assemble_openings takes the policy from the registry.
Assemble ==
    /\ ReadIs("assembling")
    /\ reading' = IF \A m \in Models : filed["doors"][m] = {}
                  THEN [at |-> "answered", scope |-> reading.scope, status |-> 204]
                  ELSE [at |-> "scoping", scope |-> reading.scope, tag |-> reading.tag, file |-> settings]
    /\ OnlyReading

\* scope_snapshots looks at the index, and then at the settings anew.
IndexForDoors ==
    /\ ReadIs("scoping")
    /\ reading' = [at |-> "opening", scope |-> reading.scope, tag |-> reading.tag, file |-> reading.file,
                   index |-> IndexNow]
    /\ OnlyReading

OpenDoors ==
    LET plan == Plan(reading.index, settings, "doors", reading.scope.milestone)
    IN  /\ ReadIs("opening")
        /\ reading' = [at |-> "joining", scope |-> reading.scope, tag |-> reading.tag, file |-> reading.file,
                       doors |-> Opened(plan, "doors"),
                       torn |-> {reading.file, settings} # {reading.tag.settings} \/ Opened(plan, "doors") # plan]
        /\ OnlyReading

\* scope_payloads: the rooms, by the index as it is now and the settings the read began with.  The
\* revision in the body is of its doors alone.
OpenRooms ==
    LET plan == Plan(IndexNow, reading.file, "rooms", reading.scope.milestone)
        wanted == reading.file.policy = "geometry"
    IN  /\ ReadIs("joining")
        /\ reading' = [at |-> "answered", scope |-> reading.scope, status |-> 200, tag |-> reading.tag,
                       revision |-> reading.doors,
                       body |-> BodyOf(reading.doors, IF wanted THEN Opened(plan, "rooms") ELSE Nothing,
                                       reading.file.policy, reading.scope),
                       torn |-> reading.torn \/ (wanted /\ Opened(plan, "rooms") # plan)]
        /\ OnlyReading

\* The scope is compared when the answer begins to come, and the body is parsed after.
Receive ==
    /\ ReadIs("answered") /\ reading.scope = scope /\ reading.status = 200
    /\ reading' = [reading EXCEPT !.at = "parsing"]
    /\ OnlyReading

\* Mutated form of TakeBody: the revision vouches for the body whatever scope it was of.
TakeBodyAcrossScopes ==
    /\ ReadIs("parsing")
    /\ reading' = Nothing
    /\ layer' = IF layer.revision = reading.revision THEN [layer EXCEPT !.tag = reading.tag]
                ELSE [payload |-> reading.body, accepted |-> reading.scope, tag |-> reading.tag,
                      revision |-> reading.revision]
    /\ tagged' = reading.body /\ torn' = reading.torn
    /\ UNCHANGED <<filed, settings, scope>>

\* A body of the revision the layer holds for this scope leaves the layer as it is, but for its tag.
TakeBody ==
    LET unchanged == reading.scope = layer.accepted /\ layer.revision = reading.revision
    IN  /\ ReadIs("parsing")
        /\ reading' = Nothing
        /\ layer' = IF unchanged THEN [layer EXCEPT !.tag = reading.tag]
                    ELSE [payload |-> reading.body, accepted |-> reading.scope, tag |-> reading.tag,
                          revision |-> reading.revision]
        /\ tagged' = reading.body /\ torn' = reading.torn
        /\ UNCHANGED <<filed, settings, scope>>

\* 304: what the layer holds is taken for current.
KeepLayer ==
    /\ ReadIs("answered") /\ reading.scope = scope /\ reading.status = 304
    /\ reading' = Nothing
    /\ UNCHANGED <<filed, settings, scope, layer, tagged, torn>>

\* 204: the layer is cleared.
ClearLayer ==
    /\ ReadIs("answered") /\ reading.scope = scope /\ reading.status = 204
    /\ reading' = Nothing
    /\ layer' = [payload |-> Nothing, accepted |-> scope, tag |-> Nothing,
                 revision |-> IF layer.payload = Nothing THEN layer.revision ELSE Nothing]
    /\ tagged' = Nothing /\ torn' = FALSE
    /\ UNCHANGED <<filed, settings, scope>>

\* An answer for a scope that is not shown any more is dropped unread, and so is one that does not
\* arrive whole.
DropAnswer ==
    /\ ReadIs("answered") \/ ReadIs("parsing")
    /\ reading' = Nothing
    /\ UNCHANGED <<filed, settings, scope, layer, tagged, torn>>

PollNext ==
    \/ \E kind \in Kinds, m \in Models, stamp \in SnapshotIds : Push(kind, m, stamp)
    \/ \E file \in SettingsFiles : SaveSettings(file)
    \/ \E s \in Scopes : ShowScope(s)
    \/ Poll
    \/ IndexForTag \/ SettingsForTag \/ Assemble \/ IndexForDoors \/ OpenDoors \/ OpenRooms
    \/ Receive \/ TakeBody \/ KeepLayer \/ ClearLayer \/ DropAnswer

PollSpec == PollInit /\ [][PollNext]_pollVars

-----------------------------------------------------------------------------

LayerTypeOK ==
    /\ filed \in [Kinds -> [Models -> SUBSET SnapshotIds]]
    /\ settings \in SettingsFiles /\ scope \in Scopes
    /\ layer.accepted \in Scopes \cup {Nothing}
    /\ layer.tag \in EntityTags \cup {Nothing} /\ layer.payload \in Bodies \cup {Nothing}
    /\ layer.tag = Nothing <=> tagged = Nothing
    /\ layer.payload = Nothing <=> layer.tag = Nothing

\* A tag that matches never comes with a body that would not: while the server would answer 304 to
\* the tag a page holds, the body it sent with the tag is the one it would send now.  A body read
\* across a settings save, or short of a snapshot its milestone pins, is no such body.
MatchingTagMeansBody ==
    layer.tag # Nothing /\ ~torn /\ layer.tag = TagNow(layer.tag.scope) => tagged = BodyNow(layer.tag.scope)

\* Nothing of one scope ever vouches for another: what a layer draws and the tag it sends are of the
\* scope it is said to show, wherever the pickers went while they were read.
CursorsAgree ==
    layer.tag # Nothing => layer.tag.scope = layer.accepted /\ layer.payload.scope = layer.accepted

\* "A tag is only ever held alongside an accepted payload (see below), so a 304 means what we hold
\* is current" (entityPoll.ts).
HeldIsTagged == layer.tag # Nothing => layer.payload = tagged
=============================================================================
