------------------------------- MODULE Library -------------------------------
(***************************************************************************)
(* The sheet library (src/sheets.rs), whose sheets are generic or bound to *)
(* one blueprint, and the bundles of sheets that travel with a push of a   *)
(* blueprint (src/blueprint_bundle.rs).  Blueprints and sheets have a lock *)
(* each, and a request of src/blueprints_api.rs makes several calls: a     *)
(* step is one call, and anything may happen between two.                  *)
(*                                                                         *)
(* Of the blueprint store (module Blueprints) only what waits with a       *)
(* pending revision is kept here, its bundle.                              *)
(*                                                                         *)
(* A sheet stands for its identity (Revit sheet id and document title).    *)
(* A decision about a sheet names the version it was made on and is        *)
(* refused if that has moved, so only decisions on the record as it stands *)
(* are actions.                                                            *)
(***************************************************************************)
EXTENDS Absence, Naturals, Sequences, FiniteSets

CONSTANTS
    Owners,             \* blueprints, by id
    Callers,            \* each with at most one request under way
    Bundles,            \* [sheets |-> number of each sheet carried, take_over |-> BOOLEAN];
                        \* one without sheets leaves the library alone
    MaxWaiting,         \* pending revisions a blueprint may have
    Sheets, Numbers,    \* sheets by identity, and the numbers they may carry
    Generic,            \* bound to no blueprint
    ButtonNumbers,      \* the numbers the Sheets button may push each sheet with
    MaxStash            \* pending pushes a sheet may hold

ASSUME LibraryAssumption ==
    /\ Generic \notin Owners /\ \A waiting \in SUBSET Bundles : waiting # Nothing
    /\ MaxWaiting \in Nat /\ MaxStash \in Nat
    /\ \A bundle \in Bundles : /\ DOMAIN bundle.sheets \subseteq Sheets
                               /\ DOMAIN bundle.sheets # {}
                               /\ \A s \in DOMAIN bundle.sheets : bundle.sheets[s] \in Numbers
    /\ \A s \in Sheets : ButtonNumbers[s] \subseteq Numbers

VARIABLES
    pushed,         \* the bundles waiting with the pending revisions of each blueprint
    sheets,         \* the sheet files
    request,        \* what the request of each caller is about to do
    carried,        \* history: the bundle last applied to each blueprint
    given,          \* history: the sheets people accepted for each blueprint
    byHand,         \* history: sheets whose binding a person accepted with a renumbering
    disturbed       \* history: a request overlapped another, or was cut short

libraryVars == <<pushed, sheets, request, carried, given, byHand, disturbed>>

Idle == [at |-> "idle", id |-> Nothing, bundle |-> Nothing]

LibraryInit ==
    /\ pushed = [b \in Owners |-> Nothing]
    /\ sheets = [s \in Sheets |-> Nothing]
    /\ request = [p \in Callers |-> Idle]
    /\ carried = [b \in Owners |-> Nothing]
    /\ given = [b \in Owners |-> {}]
    /\ byHand = {}
    /\ disturbed = FALSE

Made(b) == pushed[b] # Nothing
OnFile(s) == sheets[s] # Nothing
BoundTo(s, b) == OnFile(s) /\ sheets[s].blueprint = b
IsIdle(p) == request[p].at = "idle"
NoneUnderWay == \A p \in Callers : IsIdle(p)

\* The next thing the request of p does; back to idle it is answered.
Goes(p, at) == request' = [request EXCEPT ![p].at = at]
Ends(p) == request' = [request EXCEPT ![p] = Idle]

\* A caller's request begins; another one being under way is remembered.
Takes(p, r) ==
    /\ IsIdle(p)
    /\ request' = [request EXCEPT ![p] = r]
    /\ disturbed' = (disturbed \/ ~NoneUnderWay)

-----------------------------------------------------------------------------
(* Sheets *)

\* sheets::push of one sheet onto its record: new, updated in place, or its number changed and stashed.
Shelved(record, number, b) ==
    IF record = Nothing THEN [number |-> number, blueprint |-> b, pending |-> <<>>]
    ELSE IF record.number = number THEN [record EXCEPT !.blueprint = IF b = Generic THEN @ ELSE b]
    ELSE [record EXCEPT !.pending = Append(@, [number |-> number, blueprint |-> b])]

StashFull(s, number) ==
    OnFile(s) /\ sheets[s].number # number /\ Len(sheets[s].pending) >= MaxStash

\* The Sheets button: bound to nothing.  A push of several is this for each of them, up to
\* the first that is refused or cannot be written.
PushSheet(s, number) ==
    /\ ~StashFull(s, number)
    /\ sheets' = [sheets EXCEPT ![s] = Shelved(@, number, Generic)]
    /\ UNCHANGED <<carried, byHand>>

Without(seq, i) == SubSeq(seq, 1, i - 1) \o SubSeq(seq, i + 1, Len(seq))

AcceptSheet(s, i) ==
    /\ OnFile(s) /\ i \in DOMAIN sheets[s].pending
    /\ LET w == sheets[s].pending[i]
       IN /\ sheets' = [sheets EXCEPT ![s] =
              [number |-> w.number, blueprint |-> IF w.blueprint = Generic THEN @.blueprint ELSE w.blueprint,
               pending |-> Without(@.pending, i)]]
          /\ byHand' = byHand \cup (IF w.blueprint = Generic THEN {} ELSE {s})
    /\ UNCHANGED carried

RejectSheet(s, i) ==
    /\ OnFile(s) /\ i \in DOMAIN sheets[s].pending
    /\ sheets' = [sheets EXCEPT ![s].pending = Without(@, i)]
    /\ UNCHANGED <<carried, byHand>>

DeleteSheet(s) ==
    /\ OnFile(s)
    /\ sheets' = [sheets EXCEPT ![s] = Nothing]
    /\ byHand' = byHand \ {s}
    /\ UNCHANGED carried

-----------------------------------------------------------------------------
(* Bundles *)

Carries(bundle) == IF bundle = Nothing THEN {} ELSE DOMAIN bundle.sheets

\* Mutated form of Conflicts: every bundle takes over.
ConflictsUnasked(bundle, b) == {}

\* Sheets of the bundle that are bound to a blueprint other than b.
Conflicts(bundle, b) ==
    IF bundle = Nothing \/ bundle.take_over THEN {}
    ELSE {s \in Carries(bundle) : OnFile(s) /\ sheets[s].blueprint \notin {b, Generic}}

\* apply: the check again, before anything is bound.
Check(p) ==
    /\ request[p].at = "check"
    /\ IF Conflicts(request[p].bundle, request[p].id) = {}
       THEN Goes(p, "bind")
       ELSE Ends(p)
    /\ UNCHANGED <<sheets, carried, byHand, disturbed>>

Bindable(p) == {s \in Carries(request[p].bundle) : ~StashFull(s, request[p].bundle.sheets[s])}

BoundBy(p, some) ==
    sheets' = [s \in Sheets |->
        IF s \in some THEN Shelved(sheets[s], request[p].bundle.sheets[s], request[p].id) ELSE sheets[s]]

Bind(p) ==
    /\ request[p].at = "bind"
    /\ Bindable(p) = Carries(request[p].bundle)
    /\ BoundBy(p, Bindable(p))
    /\ Goes(p, "unbind")
    /\ UNCHANGED <<carried, byHand, disturbed>>

\* A stash that is full, a write that fails or the server's end: some sheets are bound, the rest not.
BindCutShort(p) ==
    /\ request[p].at = "bind"
    /\ \E some \in SUBSET Bindable(p) : BoundBy(p, some)
    /\ Ends(p)
    /\ disturbed' = TRUE
    /\ UNCHANGED <<carried, byHand>>

HeldBy(b) == {s \in Sheets : BoundTo(s, b)}

\* unbind_missing: what the blueprint holds and the bundle no longer carries.
Missing(p) == HeldBy(request[p].id) \ Carries(request[p].bundle)

Unbound(some) == [s \in Sheets |-> IF s \in some THEN [sheets[s] EXCEPT !.blueprint = Generic] ELSE sheets[s]]

\* Mutated form of Unbind: only the sheets of the bundle are looked at.
UnbindNone(p) ==
    /\ request[p].at = "unbind"
    /\ sheets' = Unbound(Missing(p) \cap Carries(request[p].bundle))
    /\ carried' = [carried EXCEPT ![request[p].id] = request[p].bundle]
    /\ byHand' = byHand \ HeldBy(request[p].id)
    /\ Ends(p)
    /\ UNCHANGED disturbed

Unbind(p) ==
    /\ request[p].at = "unbind"
    /\ sheets' = Unbound(Missing(p))
    /\ carried' = [carried EXCEPT ![request[p].id] = request[p].bundle]
    /\ byHand' = byHand \ HeldBy(request[p].id)
    /\ Ends(p)
    /\ UNCHANGED disturbed

UnbindCutShort(p) ==
    /\ request[p].at = "unbind"
    /\ \E some \in SUBSET Missing(p) : sheets' = Unbound(some)
    /\ Ends(p)
    /\ disturbed' = TRUE
    /\ UNCHANGED <<carried, byHand>>

-----------------------------------------------------------------------------
(* Requests.  A push from Revit (http_push_from_revit) is CreateChecked or *)
(* PushChecked with a bundle that takes over, which of the two by whether  *)
(* the name it sends is on file; nothing here reads names.                 *)

UnchangedShelf == UNCHANGED <<sheets, carried, byHand>>

\* The blueprint is made or its revision accepted, and the bundle goes on to be applied.
GoesOnWith(p, b) ==
    /\ request' = [request EXCEPT ![p] = [@ EXCEPT !.at = "check", !.id = b]]
    /\ given' = [given EXCEPT ![b] = @ \cup Carries(request[p].bundle)]

CreateChecked(p, bundle) ==
    /\ Conflicts(bundle, Nothing) = {}
    /\ Takes(p, [at |-> "create", id |-> Nothing, bundle |-> bundle])
    /\ UNCHANGED <<pushed, given>> /\ UnchangedShelf

CreateBlueprint(p, b) ==
    /\ request[p].at = "create"
    /\ ~Made(b)
    /\ pushed' = [pushed EXCEPT ![b] = {}]
    /\ GoesOnWith(p, b)
    /\ UNCHANGED disturbed /\ UnchangedShelf

PushChecked(p, b, bundle) ==
    /\ Made(b)
    /\ Conflicts(bundle, b) = {}
    /\ Takes(p, [at |-> "push", id |-> b, bundle |-> bundle])
    /\ UNCHANGED <<pushed, given>> /\ UnchangedShelf

\* Mutated form of PushRevision: the sheets are bound as soon as the push is in.
PushRevisionAndApply(p) ==
    /\ request[p].at = "push"
    /\ Cardinality(pushed[request[p].id]) < MaxWaiting
    /\ pushed' = [pushed EXCEPT ![request[p].id] = @ \cup {request[p].bundle}]
    /\ Goes(p, "check")
    /\ UNCHANGED <<given, disturbed>> /\ UnchangedShelf

\* Two pushes of one bundle wait as one here.
PushRevision(p) ==
    /\ request[p].at = "push"
    /\ Cardinality(pushed[request[p].id]) < MaxWaiting
    /\ pushed' = [pushed EXCEPT ![request[p].id] = @ \cup {request[p].bundle}]
    /\ Ends(p)
    /\ UNCHANGED <<given, disturbed>> /\ UnchangedShelf

\* The bundle that waits with the revision is read before the revision is accepted.
ReadWaiting(p, b) ==
    /\ Made(b)
    /\ \E bundle \in pushed[b] : Takes(p, [at |-> "accept", id |-> b, bundle |-> bundle])
    /\ UNCHANGED <<pushed, given>> /\ UnchangedShelf

AcceptRevision(p) ==
    /\ request[p].at = "accept"
    /\ request[p].bundle \in pushed[request[p].id]
    /\ pushed' = [pushed EXCEPT ![request[p].id] = @ \ {request[p].bundle}]
    /\ GoesOnWith(p, request[p].id)
    /\ UNCHANGED disturbed /\ UnchangedShelf

\* A request of one step, whoever else is at work.
RejectRevision(b) ==
    /\ Made(b)
    /\ \E bundle \in pushed[b] : pushed' = [pushed EXCEPT ![b] = @ \ {bundle}]
    /\ disturbed' = (disturbed \/ ~NoneUnderWay)
    /\ UNCHANGED <<request, given>> /\ UnchangedShelf

\* Refused, or failed, with nothing written by this call: for a stale base, a limit, a write that
\* fails, the server's end.
GiveUp(p) ==
    /\ request[p].at \in {"create", "push", "accept", "check"}
    /\ Ends(p)
    /\ disturbed' = (disturbed \/ request[p].at = "check")
    /\ UNCHANGED <<pushed, given>> /\ UnchangedShelf

ApplyBundle(p) ==
    /\ Check(p) \/ Bind(p) \/ BindCutShort(p) \/ Unbind(p) \/ UnbindCutShort(p)
    /\ UNCHANGED <<pushed, given>>

\* People and the Sheets button at the library.
AtTheLibrary ==
    /\ \E s \in Sheets :
          \/ \E number \in ButtonNumbers[s] : PushSheet(s, number)
          \/ \E i \in 1..MaxStash : AcceptSheet(s, i) \/ RejectSheet(s, i)
          \/ DeleteSheet(s)
    /\ disturbed' = (disturbed \/ ~NoneUnderWay)
    /\ UNCHANGED <<pushed, given, request>>

LibraryNext ==
    \/ \E p \in Callers :
          \/ ApplyBundle(p) \/ GiveUp(p) \/ PushRevision(p) \/ AcceptRevision(p)
          \/ \E bundle \in Bundles :
                CreateChecked(p, bundle) \/ \E b \in Owners : PushChecked(p, b, bundle)
          \/ \E b \in Owners : CreateBlueprint(p, b) \/ ReadWaiting(p, b)
    \/ \E b \in Owners : RejectRevision(b)
    \/ AtTheLibrary

LibrarySpec == LibraryInit /\ [][LibraryNext]_libraryVars

-----------------------------------------------------------------------------

Records == [number : Numbers, blueprint : Owners \cup {Generic},
            pending : Seq([number : Numbers, blueprint : Owners \cup {Generic}])]

LibraryTypeOK ==
    /\ pushed \in [Owners -> (SUBSET Bundles) \cup {Nothing}]
    /\ sheets \in [Sheets -> Records \cup {Nothing}]
    /\ request \in [Callers -> [at : {"idle", "create", "push", "accept", "check", "bind", "unbind"},
                             id : Owners \cup {Nothing}, bundle : Bundles \cup {Nothing}]]
    /\ \A p \in Callers : request[p].at \in {"check", "bind", "unbind"} => request[p].id \in Owners
    /\ \A s \in Sheets : OnFile(s) => Len(sheets[s].pending) <= MaxStash

\* Whatever overlaps and whatever stops half way, a sheet is bound to a blueprint only if a person
\* took a revision that carries it: what comes with a push waits with it, and goes if it is rejected.
BoundWasAccepted ==
    \A s \in Sheets, b \in Owners :
        \/ BoundTo(s, b)
        \/ OnFile(s) /\ \E i \in DOMAIN sheets[s].pending : sheets[s].pending[i].blueprint = b
        => s \in given[b]

\* While requests come one at a time and none is cut short, the sheets bound to a blueprint are
\* among those of the bundle applied to it last: what it no longer carries was unbound.  A
\* renumbering accepted by a person binds as it says, whatever was applied since.
BoundAreCarried ==
    ~disturbed /\ NoneUnderWay =>
        \A s \in Sheets, b \in Owners : BoundTo(s, b) => s \in Carries(carried[b]) \cup byHand

\* Under the same conditions a sheet goes from one blueprint to another only if the bundle says
\* to take it over, or by a person's accepting a renumbering: the check made at the push is made
\* again when the bundle is applied, and by then the sheet may be another's.
TakenOnlyIfAsked ==
    [][\A s \in Sheets, b, c \in Owners :
          ~disturbed' /\ b # c /\ BoundTo(s, b) /\ BoundTo(s, c)' =>
              \/ \E p \in Callers : request[p].at = "bind" /\ request[p].bundle.take_over
              \/ s \in byHand']_libraryVars
=============================================================================
