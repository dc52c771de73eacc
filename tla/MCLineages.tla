---------------------------- MODULE MCLineages -----------------------------
(* Lineages of two models, with one request at a time or two. *)
EXTENDS Lineages, TLC

CONSTANTS m1, m2

Handling == Permutations(Handlers)

Pushed(kind, phase, models, empty) == [kind |-> kind, phase |-> phase, models |-> models, empty |-> empty]

\* Rooms of one model, in either phase.
RoomsOfOne == {Pushed("rooms", p, <<m1>>, {}) : p \in Phases}

\* Rooms of either model, in either phase.
RoomsOfEither == RoomsOfOne \cup {Pushed("rooms", p, <<m2>>, {}) : p \in Phases}

\* Rooms of both models at once, one of which may have sent none.
RoomsOfBoth == {Pushed("rooms", p, <<m1, m2>>, e) : p \in Phases, e \in {{}, {m2}}}

\* Rooms nobody filtered to a phase.
Unphased == {Pushed("rooms", NoPhase, <<m1>>, {})}

\* Spaces of one model, quarantined like rooms but never activated.
SpacesOfOne == {Pushed("spaces", p, <<m1>>, {}) : p \in Phases}

DoorsOfBoth == {Pushed("doors", p, <<m1, m2>>, {}) : p \in Phases}

\* Everything, for one request at a time.
AllOffers == RoomsOfOne \cup RoomsOfBoth \cup Unphased \cup SpacesOfOne \cup DoorsOfBoth

\* For two at a time: doors that may disagree in one model, and rooms that are refused.
MixedOffers == {Pushed("rooms", "existing", <<m1>>, {}), Pushed("rooms", "new", <<m1, m2>>, {m2}),
                Pushed("doors", "new", <<m1, m2>>, {m2})}
=============================================================================
