------------------------------ MODULE TaskRuns ------------------------------
(***************************************************************************)
(* Runs of the Tasks button in Revit sessions against the room task store  *)
(* of RoomTasks, with the people who dismiss and resend tasks meanwhile.   *)
(*                                                                         *)
(* A run (tasks_entry of extractor/pyRevit/room_m/room_mate.py) lists the  *)
(* queued tasks of the open model, claims the ones a person ticked, hands  *)
(* them group by group to apply_run.run, and at the end reports as failed  *)
(* whatever it has not reported.  Within a group the whole list is checked *)
(* first, what will not run is reported, then each task is written and     *)
(* reported in turn.  A report that does not reach the server is not sent  *)
(* again: the run takes it for sent (apply_run.post).                      *)
(*                                                                         *)
(* Where a run can differ from another run is kept as a choice: which      *)
(* tasks the checks stop, whether a check or a write raises, where Revit   *)
(* dies.  What is checked and what is written in Revit are left out.       *)
(***************************************************************************)
EXTENDS RoomTasks, FiniteSetsExt

CONSTANTS
  ModelOf,    \* the model open in each session
  MaxLost,    \* bound: requests or answers the network may lose
  MaxFaults   \* bound: claims and reports the server may cut short

ASSUME RunBounds == MaxLost \in Nat /\ MaxFaults \in Nat

HandlerOf == [populate_room |-> "apply", update_room |-> "apply", create_rls |-> "rls"]
Order     == <<"apply", "rls">>
SweepTurn == Len(Order) + 1

ASSUME KindsAssumption == TaskKinds \subseteq DOMAIN HandlerOf
ASSUME ReportsAssumption == {"completed", "failed", "aborted"} \subseteq Results

VARIABLES
  pc,        \* where each run is
  chosen,    \* the tasks ticked in the window, until the claim
  held,      \* the tasks the claim answered with
  turn,      \* index in Order of the group being run, then SweepTurn
  todo,      \* tasks of the group still to write
  outbox,    \* the reports about to be posted
  told,      \* the tasks the run takes for reported
  wrote,     \* the tasks written in Revit
  recorded,  \* history: <<i, n, s>>, a report of s was recorded on attempt n of task i
  missed,    \* history: what was handed by a claim without an answer, or not recorded when posted
  lost,      \* requests and answers lost so far
  faults     \* claims and reports cut short so far

runVars == <<pc, chosen, held, turn, todo, outbox, told, wrote>>
allVars == <<tasks, handed, runVars, recorded, missed, lost, faults>>

Idle == {"choosing", "ended", "dead"}

RunInit ==
  /\ TasksInit
  /\ pc = [s \in Sessions |-> "choosing"]
  /\ turn = [s \in Sessions |-> 1]
  /\ outbox = [s \in Sessions |-> <<>>]
  /\ chosen = [s \in Sessions |-> {}] /\ held = chosen /\ todo = chosen
  /\ told = chosen /\ wrote = chosen
  /\ recorded = {} /\ missed = {} /\ lost = 0 /\ faults = 0

Goto(s, label) == pc' = [pc EXCEPT ![s] = label]
LoseOne  == lost < MaxLost /\ lost' = lost + 1 /\ UNCHANGED faults
FaultOne == faults < MaxFaults /\ faults' = faults + 1 /\ UNCHANGED lost

----------------------------------------------------------------------------
(* Choosing and claiming *)

\* The window lists the model's queued tasks, and a person ticks some of them.
Choose(s) ==
  /\ pc[s] = "choosing"
  /\ \E ids \in SUBSET Claimable(ModelOf[s], TaskKinds, {}) :
       ids # {} /\ chosen' = [chosen EXCEPT ![s] = ids]
  /\ Goto(s, "claiming")
  /\ UNCHANGED <<tasks, handed, held, turn, todo, outbox, told, wrote, recorded, missed, lost, faults>>

\* The claim answers; with nothing, the run is over.
ClaimAnswered(s) ==
  LET taken == Claimable(ModelOf[s], TaskKinds, chosen[s]) IN
  /\ pc[s] = "claiming"
  /\ \/ Claim(s, ModelOf[s], TaskKinds, chosen[s]) /\ Goto(s, "checking")
     \/ taken = {} /\ Goto(s, "ended") /\ UNCHANGED <<tasks, handed>>
  /\ held' = [held EXCEPT ![s] = taken]
  /\ chosen' = [chosen EXCEPT ![s] = {}]
  /\ UNCHANGED <<turn, todo, outbox, told, wrote, recorded, missed, lost, faults>>

\* The claim fails for the run, though the server opened some of the tasks or all: the answer
\* is lost, or the server stopped half way.  The run has nothing to report on.
ClaimUnanswered(s) ==
  /\ pc[s] = "claiming"
  /\ \/ Claim(s, ModelOf[s], TaskKinds, chosen[s]) /\ LoseOne
     \/ FaultOne /\ \E n \in DOMAIN tasks : ClaimCutShort(s, ModelOf[s], TaskKinds, chosen[s], n)
  /\ missed' = missed \cup (handed' \ handed)
  /\ Goto(s, "ended")
  /\ chosen' = [chosen EXCEPT ![s] = {}]
  /\ UNCHANGED <<held, turn, todo, outbox, told, wrote, recorded>>

----------------------------------------------------------------------------
(* Running the groups *)

Members(s) ==
  IF turn[s] = SweepTurn THEN {}
  ELSE {i \in held[s] : HandlerOf[tasks[i].key.kind] = Order[turn[s]]}

\* Mutated form of EndGroup: the sweep is missed by one.
EndGroupLate(s) ==
  /\ turn' = [turn EXCEPT ![s] = @ + 1]
  /\ todo' = [todo EXCEPT ![s] = {}]
  /\ Goto(s, IF turn[s] = SweepTurn THEN "sweeping" ELSE "checking")
  /\ UNCHANGED <<tasks, handed, chosen, held, outbox, told, wrote, recorded, missed, lost, faults>>

\* Mutated form of EndGroup: the turn is not passed on.
EndGroupAgain(s) ==
  /\ todo' = [todo EXCEPT ![s] = {}]
  /\ Goto(s, IF turn[s] = Len(Order) THEN "sweeping" ELSE "checking")
  /\ UNCHANGED <<tasks, handed, chosen, held, turn, outbox, told, wrote, recorded, missed, lost, faults>>

\* The group is over, because it is done or because it raised.
EndGroup(s) ==
  /\ turn' = [turn EXCEPT ![s] = @ + 1]
  /\ todo' = [todo EXCEPT ![s] = {}]
  /\ Goto(s, IF turn[s] = Len(Order) THEN "sweeping" ELSE "checking")
  /\ UNCHANGED <<tasks, handed, chosen, held, outbox, told, wrote, recorded, missed, lost, faults>>

\* A group with no task is skipped; reading the model or asking about warnings may raise.
SkipGroup(s) == pc[s] = "checking" /\ EndGroup(s)

\* Mutated form of Check: work starts before what was stopped is reported.
CheckWorkFirst(s) ==
  /\ pc[s] = "checking" /\ Members(s) # {}
  /\ \E stopped \in SUBSET Members(s) : todo' = [todo EXCEPT ![s] = Members(s) \ stopped]
  /\ Goto(s, "writing")
  /\ UNCHANGED <<tasks, handed, chosen, held, turn, outbox, told, wrote, recorded, missed, lost, faults>>

\* The whole group is checked, and what is stopped is reported before any work: aborted by its
\* checks or at the warnings, or all failed by a check that raised.
Check(s) ==
  /\ pc[s] = "checking" /\ Members(s) # {}
  /\ \E stopped \in SUBSET Members(s), why \in {"aborted", "failed"} :
       /\ why = "failed" => stopped = Members(s)
       /\ todo' = [todo EXCEPT ![s] = Members(s) \ stopped]
       /\ outbox' = [outbox EXCEPT ![s] = [i \in stopped |-> why]]
  /\ Goto(s, "posting")
  /\ UNCHANGED <<tasks, handed, chosen, held, turn, told, wrote, recorded, missed, lost, faults>>

\* Mutated form of Write: the group is written through and reported at its end.
WriteAll(s) ==
  /\ pc[s] = "writing" /\ todo[s] # {}
  /\ wrote' = [wrote EXCEPT ![s] = @ \cup todo[s]]
  /\ outbox' = [outbox EXCEPT ![s] = [i \in todo[s] |-> "completed"]]
  /\ todo' = [todo EXCEPT ![s] = {}]
  /\ Goto(s, "posting")
  /\ UNCHANGED <<tasks, handed, chosen, held, turn, told, recorded, missed, lost, faults>>

\* The next task, oldest first, is written in Revit, or the writer raises and leaves the model
\* as it was; either way its report is next.
Write(s) ==
  LET i == Min(todo[s]) IN
  /\ pc[s] = "writing" /\ todo[s] # {}
  /\ \E result \in Results \ {"aborted"} :
       /\ outbox' = [outbox EXCEPT ![s] = [j \in {i} |-> result]]
       /\ wrote' = [wrote EXCEPT ![s] = IF result = "failed" THEN @ ELSE @ \cup {i}]
  /\ todo' = [todo EXCEPT ![s] = @ \ {i}]
  /\ Goto(s, "posting")
  /\ UNCHANGED <<tasks, handed, chosen, held, turn, told, recorded, missed, lost, faults>>

FinishGroup(s) == pc[s] = "writing" /\ todo[s] = {} /\ EndGroup(s)

\* Mutated form of Stranded: the last group alone is swept.
StrandedInLastGroup(s) == {i \in held[s] \ told[s] : HandlerOf[tasks[i].key.kind] = "rls"}

\* What the run still has to free at its end.
Stranded(s) == held[s] \ told[s]

\* The end of the run: whatever it has not reported is reported failed.
Sweep(s) ==
  /\ pc[s] = "sweeping"
  /\ outbox' = [outbox EXCEPT ![s] = [i \in Stranded(s) |-> "failed"]]
  /\ Goto(s, "posting")
  /\ UNCHANGED <<tasks, handed, chosen, held, turn, todo, told, wrote, recorded, missed, lost, faults>>

----------------------------------------------------------------------------
(* Posting reports *)

\* Mutated form of Post: a report that does not come through ends the run, and nothing is swept.
PostGivingUp(s) ==
  LET rows == Recordable(DOMAIN outbox[s]) IN
  /\ pc[s] = "posting"
  /\ \E written \in SUBSET rows :
       /\ Report(outbox[s], written)
       /\ recorded' = recorded \cup {<<i, Len(tasks[i].attempts), s>> : i \in written}
       /\ missed' = missed \cup {<<i, Len(tasks[i].attempts), s>> : i \in rows \ written}
       /\ \/ written = rows /\ UNCHANGED <<lost, faults>>
          \/ written # rows /\ FaultOne
          \/ written = {} /\ rows # {} /\ LoseOne
       /\ Goto(s, IF turn[s] = SweepTurn \/ written # rows THEN "ended" ELSE "writing")
  /\ told' = [told EXCEPT ![s] = @ \cup DOMAIN outbox[s]]
  /\ outbox' = [outbox EXCEPT ![s] = <<>>]
  /\ UNCHANGED <<chosen, held, turn, todo, wrote>>

\* The server takes the posted rows it can record, or only `written` of them when it faults,
\* or the post is lost.  The run goes on and takes every row for reported.
Post(s) ==
  LET rows == Recordable(DOMAIN outbox[s]) IN
  /\ pc[s] = "posting"
  /\ \E written \in SUBSET rows :
       /\ Report(outbox[s], written)
       /\ recorded' = recorded \cup {<<i, Len(tasks[i].attempts), s>> : i \in written}
       /\ missed' = missed \cup {<<i, Len(tasks[i].attempts), s>> : i \in rows \ written}
       /\ \/ written = rows /\ UNCHANGED <<lost, faults>>
          \/ written # rows /\ FaultOne
          \/ written = {} /\ rows # {} /\ LoseOne
  /\ told' = [told EXCEPT ![s] = @ \cup DOMAIN outbox[s]]
  /\ outbox' = [outbox EXCEPT ![s] = <<>>]
  /\ Goto(s, IF turn[s] = SweepTurn THEN "ended" ELSE "writing")
  /\ UNCHANGED <<chosen, held, turn, todo, wrote>>

\* Revit dies, and nothing more is heard of the run.
Die(s) ==
  /\ pc[s] \notin Idle
  /\ Goto(s, "dead")
  /\ UNCHANGED <<tasks, handed, chosen, held, turn, todo, outbox, told, wrote, recorded, missed, lost, faults>>

----------------------------------------------------------------------------

\* A step of the run itself, once its tasks are chosen.
RunStep(s) ==
  \/ ClaimAnswered(s) \/ ClaimUnanswered(s)
  \/ SkipGroup(s) \/ Check(s) \/ Write(s) \/ FinishGroup(s) \/ Sweep(s) \/ Post(s)

\* People at the task page, who see no more of a run than the state of its tasks.
People ==
  /\ \/ \E key \in Keys : Create(key)
     \/ \E i \in DOMAIN tasks : Dismiss(i) \/ Resend(i)
  /\ UNCHANGED <<runVars, recorded, missed, lost, faults>>

RunNext == People \/ \E s \in Sessions : Choose(s) \/ RunStep(s) \/ Die(s)

\* A run is one script on one thread: while Revit lives it goes on to its end.
RunSpec == RunInit /\ [][RunNext]_allVars /\ \A s \in Sessions : WF_allVars(RunStep(s))

----------------------------------------------------------------------------
(* Properties *)

RunTypeOK ==
  /\ TypeOK
  /\ pc \in [Sessions -> Idle \cup {"claiming", "checking", "writing", "posting", "sweeping"}]
  /\ turn \in [Sessions -> 1..SweepTurn]
  /\ {chosen, held, todo, told, wrote} \subseteq [Sessions -> SUBSET (1..MaxTasks)]
  /\ \A s \in Sessions : outbox[s] \in [DOMAIN outbox[s] -> Results]
  /\ recorded \cup missed \subseteq (1..MaxTasks) \X (1..MaxAttempts) \X Sessions
  /\ lost \in 0..MaxLost /\ faults \in 0..MaxFaults

\* Attempt n of task i is the last one and still unreported.
OpenAttempt(i, n) ==
  i \in DOMAIN tasks /\ tasks[i].state = "in_progress" /\ Len(tasks[i].attempts) = n

\* "Nothing stays claimed" (room_mate.py, tasks_entry): the server holds a task in progress for a
\* run that ended only if the answer to its claim or its own report went missing.  What is lost of
\* one task, or of one post, leaves no other task behind.
NothingStaysClaimed ==
  \A h \in handed : pc[h[3]] = "ended" => h \in missed \/ ~OpenAttempt(h[1], h[2])

\* "A session that dies halfway has reported everything before the one it died in" (apply_run):
\* of what a run wrote in Revit, at most the task it is at is not reported.
WorkIsReportedAsItGoes == \A s \in Sessions : Cardinality(wrote[s] \ told[s]) <= 1

\* "Report what will not run before any work" (apply_run): whenever the run is about to write a
\* task, every other task of the group is reported or still to be written after it.
StoppedTasksReportedFirst ==
  \A s \in Sessions : pc[s] = "writing" => Members(s) \ todo[s] \subseteq told[s]

\* A report is recorded on the attempt that was opened for the run that says it: "a task's
\* attempts are kept, each with what the session said" (tasks.rs).
ReportsAreTheAttemptsOwn == recorded \subseteq handed

\* What the run of s has left to do, as a number: the groups to come, then in the group it is at a
\* report and a write for each task it may hold.
StepsLeft(s) ==
  LET group  == 2 * MaxTasks + 4
      groups == (SweepTurn - turn[s]) * group
  IN  CASE pc[s] = "choosing" -> SweepTurn * group + 1
        [] pc[s] = "claiming" -> SweepTurn * group
        [] pc[s] \in {"checking", "sweeping"} -> groups + group - 1
        [] pc[s] = "posting" -> groups + 2 * Cardinality(todo[s]) + 1
        [] pc[s] = "writing" -> groups + 2 * Cardinality(todo[s])
        [] OTHER -> 0

\* A run comes to its end in a bounded number of steps, whatever raises and whatever is lost: each
\* step of its own brings it nearer, and nothing that others do takes it back.
RunsComeToAnEnd ==
  [][\A s \in Sessions :
       /\ StepsLeft(s)' <= StepsLeft(s)
       /\ RunStep(s) => StepsLeft(s)' < StepsLeft(s)]_allVars

\* A task handed to a run is settled in the end, reported or taken back by a person, unless Revit
\* dies or it is the very task whose claim or report went missing: no attempt stays open for good.
HandedTasksAreSettled ==
  \A i \in 1..MaxTasks, n \in 1..MaxAttempts, s \in Sessions :
    <<i, n, s>> \in handed ~> (pc[s] = "dead" \/ <<i, n, s>> \in missed \/ ~OpenAttempt(i, n))
=============================================================================
