------------------------------- MODULE MCDesk -------------------------------
(***************************************************************************)
(* The stores people work on from their desks share no state, so that one  *)
(* run checks them side by side: a behaviour is one of one store, and the  *)
(* others stay as they begin.                                              *)
(***************************************************************************)
EXTENDS Blueprints, Library, TagRules, Settings, ApprovalGate, ScopedPushes, LayerPolls,
        SnapshotIds, TLC

CONSTANTS p1, p2, c1, c2, b1, b2, s1, s2, t1, t2, t3, i1, g1, g2, x1, x2, h1, h2, m1

VARIABLE desk

deskVars == <<desk, storeVars, libraryVars, tagVars, settingsVars, gateVars, scopedVars, pollVars,
              idVars>>

MCTimes == 1..2

Imported == [sheets |-> (s2 :> 1), take_over |-> FALSE]
Renumbered == [sheets |-> (s1 :> 2 @@ s2 :> 1), take_over |-> TRUE]
MCBundles == {Imported, Renumbered}
MCNumbers == 1..2
MCButtonNumbers == (s1 :> {1} @@ s2 :> {})

MCItemOf == (t1 :> i1 @@ t2 :> Nothing @@ t3 :> i1)

Pins(doors, rooms) == [doors |-> (m1 :> doors), rooms |-> (m1 :> rooms)]
File(policy, pins) == [policy |-> policy, pins |-> pins]
MCSettingsFiles == {File("off", Pins(Nothing, Nothing)), File("geometry", Pins(1, 1))}
MCScopes == {[milestone |-> FALSE, storey |-> 1], [milestone |-> TRUE, storey |-> 1]}

Stamped(separator, hour, rest, fraction, code, offset) ==
  [day |-> 1, separator |-> separator, hour |-> hour, mark |-> Colon, rest |-> rest, fraction |-> fraction,
   zone |-> [code |-> code, offset |-> offset]]

\* The whole second, two halves of it that are one moment, a later second, two with a t before the time,
\* and one of another zone, which is refused.
MixedIds ==
  {Stamped(84, 10, 0, <<>>, 90, 0), Stamped(84, 10, 0, <<5>>, 90, 0), Stamped(84, 10, 0, <<5>>, 43, 0),
   Stamped(84, 10, 30, <<2>>, 90, 0), Stamped(116, 10, 0, <<2>>, 90, 0), Stamped(116, 10, 30, <<2>>, 90, 0),
   Stamped(84, 11, 30, <<1>>, 43, 60)}

\* Pages, changes and producers may be exchanged for one another, and so may contents, payloads and
\* two tags of one item.  A behaviour is one of a single store, so each exchange does for several.
Swaps(pairs) ==
    {f \in Permutations(UNION pairs) :
        \/ \A pair \in pairs : \A x \in pair : f[x] = x
        \/ \A pair \in pairs : \A x \in pair : f[x] \in pair \ {x}}
Exchanges == Swaps({{p1, p2}, {g1, g2}, {h1, h2}}) \cup Swaps({{c1, c2}, {x1, x2}, {t1, t3}})

DeskInit ==
    /\ desk \in {"blueprints", "library", "tags", "settings", "gate", "pushes", "polls", "ids"}
    /\ StoreInit /\ LibraryInit /\ TagInit /\ SettingsInit /\ GateInit /\ ScopedInit
    /\ PollInit /\ IdInit
    /\ desk = "polls" \/ <<settings, scope>> = CHOOSE start \in SettingsFiles \X Scopes : TRUE

DeskNext ==
    /\ UNCHANGED desk
    /\ IF desk = "blueprints" THEN StoreNext ELSE UNCHANGED storeVars
    /\ IF desk = "library" THEN LibraryNext ELSE UNCHANGED libraryVars
    /\ IF desk = "tags" THEN TagNext ELSE UNCHANGED tagVars
    /\ IF desk = "settings" THEN SettingsNext ELSE UNCHANGED settingsVars
    /\ IF desk = "gate" THEN GateNext ELSE UNCHANGED gateVars
    /\ IF desk = "pushes" THEN ScopedNext ELSE UNCHANGED scopedVars
    /\ IF desk = "polls" THEN PollNext ELSE UNCHANGED pollVars
    /\ IF desk = "ids" THEN IdNext ELSE UNCHANGED idVars

DeskSpec == DeskInit /\ [][DeskNext]_deskVars

\* Every store holds what its types say, limits included.
DeskTypeOK ==
    /\ StoreTypeOK /\ LibraryTypeOK /\ TagTypeOK /\ SettingsTypeOK /\ GateTypeOK /\ ScopedTypeOK
    /\ LayerTypeOK /\ IdTypeOK
=============================================================================
