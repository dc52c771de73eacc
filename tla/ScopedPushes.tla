----------------------------- MODULE ScopedPushes -----------------------------
(***************************************************************************)
(* Level-scoped pushes of one kind of element to one model                 *)
(* (src/scoped_push.rs): a producer sends what is on some levels of the    *)
(* Revit model, and the server completes it, from the snapshot that is     *)
(* latest when the push begins, with what is on the others.  The result is *)
(* stored as a snapshot like any other.  A push is read as it is sent, so  *)
(* that others may be stored between its beginning and its end.            *)
(*                                                                         *)
(* An element is its id and its level.  taken_at is drawn at the export;   *)
(* the latest snapshot is the one with the greatest.  Phases, quarantine   *)
(* and the steps of storing are those of Lineages, and left out here.      *)
(***************************************************************************)
EXTENDS Absence, Naturals

CONSTANTS
    Elements,       \* ids of elements in Revit
    Levels,         \* ids of the levels of the model
    Producers,      \* sessions that push
    MaxTakenAt,     \* bounds the exports
    Refusing        \* whether the kind is refused when nothing of the model is left (rooms)

ASSUME ScopedAssumption == MaxTakenAt \in Nat /\ Refusing \in BOOLEAN

Lines == [id : Elements, level : Levels]

VARIABLES
    exports,        \* exports so far
    pushing,        \* the push of each producer
    stored,         \* the snapshots, by taken_at
    named,          \* history: for each level, the last push stored that named it
    overtaken       \* history: whether a push was stored against another snapshot than it began with,
                    \* or after one taken later

scopedVars == <<exports, pushing, stored, named, overtaken>>

ScopedInit ==
    /\ exports = 0
    /\ pushing = [h \in Producers |-> Nothing]
    /\ stored = <<>>
    /\ named = [l \in Levels |-> {}]
    /\ overtaken = FALSE

\* get_latest_raw: which snapshot is served.
Latest == IF stored = <<>> THEN 0 ELSE CHOOSE n \in DOMAIN stored : \A s \in DOMAIN stored : s <= n
Served == IF stored = <<>> THEN {} ELSE stored[Latest]

OnLevels(lines, levels) == {x \in lines : x.level \in levels}

-----------------------------------------------------------------------------
(* The producer *)

\* People place, move and delete elements between two exports as they like: the level of each is
\* read when it is exported.  in_scope: those on the levels asked for are sent, or all of them when
\* the push is not scoped.
Export(h, scope, placed) ==
    LET all == {[id |-> e, level |-> placed[e]] : e \in {e \in Elements : placed[e] # Nothing}}
    IN  /\ pushing[h] = Nothing
        /\ exports < MaxTakenAt
        /\ exports' = exports + 1
        /\ pushing' = [pushing EXCEPT ![h] =
              [taken_at |-> exports', scope |-> scope, begun |-> FALSE, base |-> 0, carried |-> {},
               sent |-> IF scope = Nothing THEN all ELSE OnLevels(all, scope)]]
        /\ UNCHANGED <<stored, named, overtaken>>

\* The push breaks off, or its answer is lost: it is sent again, or given up.
BreakOff(h) ==
    /\ pushing[h] # Nothing /\ pushing[h].begun
    /\ pushing' = [pushing EXCEPT ![h] = [@ EXCEPT !.begun = FALSE, !.base = 0, !.carried = {}]]
    /\ UNCHANGED <<exports, stored, named, overtaken>>

DropPush(h) ==
    /\ pushing[h] # Nothing
    /\ pushing' = [pushing EXCEPT ![h] = Nothing]
    /\ UNCHANGED <<exports, stored, named, overtaken>>

-----------------------------------------------------------------------------
(* The server *)

\* Mutated form of CarriedElements: what is on the levels of the push is kept, not the rest.
CarriedOnLevels(levels) == OnLevels(Served, levels)

\* carried_elements: what the latest snapshot holds on other levels than those of the push.
CarriedElements(levels) == {x \in Served : x.level \notin levels}

\* scope_stream reads the envelope, and for a scoped push the latest snapshot.
Begin(h) ==
    LET p == pushing[h]
    IN  /\ p # Nothing /\ ~p.begun
        /\ pushing' = [pushing EXCEPT ![h] =
              [@ EXCEPT !.begun = TRUE, !.base = Latest,
                        !.carried = IF p.scope = Nothing THEN {} ELSE CarriedElements(p.scope)]]
        /\ UNCHANGED <<exports, stored, named, overtaken>>

\* The handler has read the last line, carried ones included, and stores the whole: unless there is
\* nothing, or a snapshot of that taken_at is there already.  The answer may be lost (BreakOff needs
\* the push to be going on), so the producer may keep it.
Store(h) ==
    LET p == pushing[h]
        whole == p.sent \cup p.carried
        takes == ~(Refusing /\ whole = {}) /\ p.taken_at \notin DOMAIN stored
    IN  /\ p # Nothing /\ p.begun
        /\ \/ takes
              /\ stored' = [s \in DOMAIN stored \cup {p.taken_at} |->
                              IF s = p.taken_at THEN whole ELSE stored[s]]
              /\ named' = [l \in Levels |->
                    IF p.scope = Nothing \/ l \in p.scope THEN OnLevels(p.sent, {l}) ELSE named[l]]
              /\ overtaken' = (overtaken \/ p.taken_at < Latest \/ (p.scope # Nothing /\ p.base # Latest))
           \/ ~takes /\ UNCHANGED <<stored, named, overtaken>>
        /\ \/ pushing' = [pushing EXCEPT ![h] = Nothing]
           \/ UNCHANGED pushing
        /\ UNCHANGED exports

ScopedNext ==
    \E h \in Producers :
        \/ \E scope \in ((SUBSET Levels) \ {{}}) \cup {Nothing}, placed \in [Elements -> Levels \cup {Nothing}] :
              Export(h, scope, placed)
        \/ Begin(h) \/ Store(h) \/ BreakOff(h) \/ DropPush(h)

ScopedSpec == ScopedInit /\ [][ScopedNext]_scopedVars

-----------------------------------------------------------------------------

ScopedTypeOK ==
    /\ exports \in 0..MaxTakenAt
    /\ \A h \in Producers : pushing[h] # Nothing =>
          pushing[h].sent \cup pushing[h].carried \subseteq Lines /\ pushing[h].taken_at \in 1..exports
    /\ DOMAIN stored \subseteq 1..exports
    /\ \A s \in DOMAIN stored : stored[s] \subseteq Lines

\* What is served holds, level by level, what was last pushed for the level, however scoped and
\* whole pushes follow one another, are sent twice or break off: unless a push was overtaken by
\* another, which the code says it does not guard against (scoped_push.rs:27-29).
ServedIsLastPushed ==
    ~overtaken => Served = UNION {named[l] : l \in Levels}
=============================================================================
