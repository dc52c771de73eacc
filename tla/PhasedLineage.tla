--------------------------- MODULE PhasedLineage ---------------------------
(***************************************************************************)
(* What the lineages of a project promise, with the requests, the index    *)
(* and the order of disk accesses left out.  A lineage is fixed to a phase *)
(* once.  What is pushed joins it only in that phase, and what disagrees   *)
(* waits, one payload for each kind.  A payload that waits is admitted,    *)
(* then the lineage moves to its phase, and only then is it released.      *)
(* Nothing that is live is ever changed or taken away.                     *)
(***************************************************************************)
CONSTANTS
  Models,        \* models of the project
  Kinds,         \* kinds of snapshot
  Payloads,      \* what may be pushed
  Phases,        \* phases a lineage may be of
  NoPhase,       \* of a lineage that is not fixed yet
  None,          \* no payload
  Quarantining,  \* kinds whose disagreeing payloads wait
  Promotable     \* kinds a lineage can move for

VARIABLES
  phase,    \* the phase each model is fixed to
  live,     \* for a model and a kind, the live payloads by their taken_at
  waiting   \* for a model and a kind, the payload that waits

Slots == Models \X Kinds

Init ==
  /\ phase = [m \in Models |-> NoPhase]
  /\ live = [s \in Slots |-> <<>>]
  /\ waiting = [s \in Slots |-> None]

IsLive(s, p) == p.taken_at \in DOMAIN live[s] /\ live[s][p.taken_at] = p

\* p becomes live beside what was.
Enters(s, p) ==
  /\ p.taken_at \notin DOMAIN live[s]
  /\ live' = [live EXCEPT ![s] = [t \in DOMAIN live[s] \cup {p.taken_at} |->
                                    IF t = p.taken_at THEN p ELSE live[s][t]]]
  /\ UNCHANGED <<phase, waiting>>

\* The first push of a model fixes its phase.
Fix(m) ==
  /\ UNCHANGED <<live, waiting>>
  /\ phase[m] = NoPhase
  /\ \E p \in Phases : phase' = [phase EXCEPT ![m] = p]

\* A push joins the lineage it agrees with.
Join(s) == \E p \in Payloads : p.kind = s[2] /\ p.phase = phase[s[1]] /\ Enters(s, p)

\* A push that disagrees with the lineage waits, in the place of what waited.
Hold(s) ==
  /\ UNCHANGED <<phase, live>>
  /\ s[2] \in Quarantining
  /\ \E p \in Payloads :
       /\ p.kind = s[2] /\ phase[s[1]] \notin {NoPhase, p.phase}
       /\ waiting' = [waiting EXCEPT ![s] = p]

\* What waits becomes live, before the lineage is of its phase.
Admit(s) == s[2] \in Promotable /\ waiting[s] # None /\ Enters(s, waiting[s])

\* The lineage moves to the phase of what it has admitted.
Move(s) ==
  /\ UNCHANGED <<live, waiting>>
  /\ s[2] \in Promotable /\ waiting[s] # None /\ IsLive(s, waiting[s])
  /\ phase' = [phase EXCEPT ![s[1]] = waiting[s].phase]

\* What is live, in a lineage of its phase, waits no longer.
Release(s) ==
  /\ UNCHANGED <<phase, live>>
  /\ waiting[s] # None /\ IsLive(s, waiting[s]) /\ phase[s[1]] = waiting[s].phase
  /\ waiting' = [waiting EXCEPT ![s] = None]

Next ==
  \/ \E m \in Models : Fix(m)
  \/ \E s \in Slots : Join(s) \/ Hold(s) \/ Admit(s) \/ Move(s) \/ Release(s)

Spec == Init /\ [][Next]_<<phase, live, waiting>>
=============================================================================
