----------------------------- MODULE ApprovalGate -----------------------------
(***************************************************************************)
(* The human gate for writes of the dRofus server                          *)
(* (crates/drofus-mcp/src/approval): a change is proposed, a person        *)
(* decides on a page the proposer cannot reach, and an approved change is  *)
(* applied, once.  The book of changes is behind a mutex; what a call does *)
(* after letting go of it, the lines of the audit log and the run itself,  *)
(* are steps of their own.  The process may stop at any step, and the book *)
(* is lost with it.                                                        *)
(***************************************************************************)
EXTENDS Absence, Naturals, FiniteSets

CONSTANTS
    Changes,        \* ids, drawn at random and never twice
    Payloads,       \* what a change would send; a hash tells two apart
    TTL,            \* how long a proposal lasts
    MaxClock,       \* bounds the clock
    MaxUndecided    \* MAX_PENDING, made small

ASSUME GateAssumption == TTL \in Nat /\ MaxClock \in Nat /\ MaxUndecided \in Nat

VARIABLES
    entries,        \* the book
    drawn,          \* the ids given so far
    clock,
    shown,          \* what the open page lists: changes and the payloads they had
    lines,          \* audit lines about to be written by calls that do not wait for them
    applying,       \* changes marked applied whose line is not yet written
    running,        \* changes whose line is written and which are about to run
    log,            \* the audit log
    decisions,      \* history: what the person decided of each change, and on which payload
    ran             \* history: the payloads that ran, and how often

gateVars == <<entries, drawn, clock, shown, lines, applying, running, log, decisions, ran>>

GateInit ==
    /\ entries = [c \in Changes |-> Nothing]
    /\ clock = 0
    /\ drawn = {} /\ shown = {} /\ lines = {} /\ applying = {} /\ running = {} /\ log = {}
    /\ decisions = [c \in Changes |-> {}]
    /\ ran = [c \in Changes |-> [p \in Payloads |-> 0]]

Known(c) == entries[c] # Nothing

\* phase_now: what is not applied lapses when its time is up.
PhaseNow(c) ==
    IF entries[c].phase \in {"pending", "approved"} /\ clock - entries[c].created >= TTL
    THEN "expired" ELSE entries[c].phase

Undecided == {c \in Changes : Known(c) /\ PhaseNow(c) \in {"pending", "approved"}}

\* What is over and older than the time to live leaves the book.
Kept(c) ==
    /\ Known(c)
    /\ PhaseNow(c) \in {"pending", "approved"} \/ clock - entries[c].created < TTL

Propose(c, payload) ==
    /\ c \notin drawn
    /\ drawn' = drawn \cup {c}
    /\ Cardinality(Undecided) < MaxUndecided
    /\ entries' = [d \in Changes |->
          IF d = c THEN [payload |-> payload, phase |-> "pending", created |-> clock]
          ELSE IF Kept(d) THEN entries[d] ELSE Nothing]
    /\ lines' = lines \cup {[event |-> "proposed", id |-> c]}
    /\ UNCHANGED <<clock, shown, applying, running, log, decisions, ran>>

\* The page is drawn from the book, and drawn again when it likes.
Show ==
    /\ shown' = {[id |-> c, payload |-> entries[c].payload] :
                    c \in {d \in Changes : Known(d) /\ PhaseNow(d) = "pending"}}
    /\ UNCHANGED <<drawn, entries, clock, lines, applying, running, log, decisions, ran>>

\* Mutated form of Decide: whatever the change has come to in the meantime.
DecideAnew(row, approve) ==
    /\ Known(row.id)
    /\ entries[row.id].payload = row.payload
    /\ entries' = [entries EXCEPT ![row.id].phase = IF approve THEN "approved" ELSE "rejected"]
    /\ lines' = lines \cup {[event |-> IF approve THEN "approved" ELSE "rejected", id |-> row.id]}
    /\ decisions' = [decisions EXCEPT ![row.id] = @ \cup {[approve |-> approve, payload |-> row.payload]}]
    /\ UNCHANGED <<drawn, clock, shown, applying, running, log, ran>>

Decide(row, approve) ==
    /\ Known(row.id)
    /\ entries[row.id].payload = row.payload
    /\ PhaseNow(row.id) = "pending"
    /\ entries' = [entries EXCEPT ![row.id].phase = IF approve THEN "approved" ELSE "rejected"]
    /\ lines' = lines \cup {[event |-> IF approve THEN "approved" ELSE "rejected", id |-> row.id]}
    /\ decisions' = [decisions EXCEPT ![row.id] = @ \cup {[approve |-> approve, payload |-> row.payload]}]
    /\ UNCHANGED <<drawn, clock, shown, applying, running, log, ran>>

\* A line of proposed, approved and rejected: written, or lost with a warning.
WriteLine(line) ==
    /\ lines' = lines \ {line}
    /\ log' \in {log, log \cup {line}}
    /\ UNCHANGED <<drawn, entries, clock, shown, applying, running, decisions, ran>>

Apply(c) ==
    /\ Known(c) /\ PhaseNow(c) = "approved"
    /\ entries' = [entries EXCEPT ![c].phase = "applied"]
    /\ applying' = applying \cup {[id |-> c, payload |-> entries[c].payload]}
    /\ UNCHANGED <<drawn, clock, shown, lines, running, log, decisions, ran>>

\* The line of applied: without it the change is spent and does not run.
WriteApplied(a) ==
    /\ applying' = applying \ {a}
    /\ \/ log' = log \cup {[event |-> "applied", id |-> a.id]} /\ running' = running \cup {a}
       \/ UNCHANGED <<log, running>>
    /\ UNCHANGED <<drawn, entries, clock, shown, lines, decisions, ran>>

Run(a) ==
    /\ running' = running \ {a}
    /\ ran' = [ran EXCEPT ![a.id][a.payload] = @ + 1]
    /\ UNCHANGED <<drawn, entries, clock, shown, lines, applying, log, decisions>>

\* The process ends; an open page stays open.
StopGate ==
    /\ entries' = [c \in Changes |-> Nothing]
    /\ lines' = {} /\ applying' = {} /\ running' = {}
    /\ UNCHANGED <<drawn, clock, shown, log, decisions, ran>>

Tick ==
    /\ clock < MaxClock
    /\ clock' = clock + 1
    /\ UNCHANGED <<drawn, entries, shown, lines, applying, running, log, decisions, ran>>

GateNext ==
    \/ \E c \in Changes :
          \/ \E payload \in Payloads : Propose(c, payload)
          \/ Apply(c)
    \/ Show
    \/ \E row \in shown, approve \in BOOLEAN : Decide(row, approve)
    \/ \E line \in lines : WriteLine(line)
    \/ \E a \in applying : WriteApplied(a)
    \/ \E a \in running : Run(a)
    \/ StopGate \/ Tick

GateSpec == GateInit /\ [][GateNext]_gateVars

-----------------------------------------------------------------------------

Rows == [id : Changes, payload : Payloads]
Events == {"proposed", "approved", "rejected", "applied"}

GateTypeOK ==
    /\ entries \in [Changes -> [payload : Payloads, created : Nat,
                                phase : {"pending", "approved", "rejected", "applied"}] \cup {Nothing}]
    /\ clock \in Nat
    /\ drawn \subseteq Changes /\ shown \subseteq Rows /\ applying \subseteq Rows /\ running \subseteq Rows
    /\ lines \subseteq [event : Events, id : Changes] /\ log \subseteq [event : Events, id : Changes]
    /\ Cardinality(Undecided) <= MaxUndecided

\* What runs is what a person approved and never rejected, payload and all; it runs at most once,
\* however often it is applied and decided on stale pages; and the log says so before it runs.
RunsAsApproved ==
    \A c \in Changes, p \in Payloads : ran[c][p] > 0 =>
        /\ decisions[c] = {[approve |-> TRUE, payload |-> p]}
        /\ ran[c][p] = 1
        /\ [event |-> "applied", id |-> c] \in log
=============================================================================
