----------------------------- MODULE RoomTasks -----------------------------
(***************************************************************************)
(* The room task store of the server (src/src/tasks.rs): one JSON file per *)
(* task, moved by people (create, dismiss, resend) and by Revit sessions   *)
(* (claim, report).                                                        *)
(*                                                                         *)
(* Every call that writes holds SAVE_LOCK from its first read to its last  *)
(* write, so a call is one step here.  A file is installed by rename, so a *)
(* task is seen whole.  A call that writes several files may still stop    *)
(* half way (a write that fails, a server that dies): ClaimCutShort and    *)
(* the argument `written` of Report are those outcomes.                    *)
(*                                                                         *)
(* Tasks are numbered in the order they were made, which is the order      *)
(* list_all sorts them in.  What a task asks Revit to do is left out; its  *)
(* kind, model and room are kept, since a task is refused by them.         *)
(***************************************************************************)
EXTENDS Naturals, Sequences, FiniteSets

CONSTANTS
  TaskKinds,    \* kinds of task (populate_room, create_rls, update_room)
  TaskModels,   \* models a task may be for
  Rooms,        \* rooms a task may be for
  Sessions,     \* runs of the Tasks button in a Revit session
  MaxTasks,     \* MAX_TASKS_PER_PROJECT: tasks a project may hold
  MaxAttempts,  \* bound of the model: no task is resent beyond so many attempts
  Results,      \* what a session may report (is_report); the store treats them alike
  NoStatus      \* an attempt nobody has reported on

ASSUME BoundsAssumption == MaxTasks \in Nat /\ MaxAttempts \in Nat \ {0}

Unreported == {"queued", "in_progress", "dismissed"}
States     == Unreported \cup Results

ASSUME ResultsAssumption == NoStatus \notin Results /\ Unreported \cap Results = {}

Keys == [kind : TaskKinds, model : TaskModels, room : Rooms]
Task == [key : Keys, state : States, attempts : Seq(Results \cup {NoStatus})]

VARIABLES
  tasks,     \* the task files, oldest first
  handed     \* history: <<i, n, s>>, attempt n of task i was opened by a claim of s

taskVars == <<tasks, handed>>

TasksInit == tasks = <<>> /\ handed = {}

----------------------------------------------------------------------------
(* What the calls ask of the store *)

IsLive(task) == task.state \in {"queued", "in_progress"}

\* Another task of this key is waiting or being worked on.
Clash(key, i) == \E j \in DOMAIN tasks \ {i} : IsLive(tasks[j]) /\ tasks[j].key = key

\* Mutated form of Claimable: whatever is live is handed over.
ClaimableLive(model, kinds, ids) ==
  {i \in DOMAIN tasks : IsLive(tasks[i]) /\ tasks[i].key.model = model}

\* What claim_chosen hands over: empty `kinds` or `ids` narrow nothing.
Claimable(model, kinds, ids) ==
  {i \in DOMAIN tasks :
     /\ tasks[i].state = "queued"
     /\ tasks[i].key.model = model
     /\ kinds = {} \/ tasks[i].key.kind \in kinds
     /\ ids = {} \/ i \in ids}

\* Mutated form of Recordable: a report is taken for a task that is over.
RecordableAnyState(ids) == {i \in ids \cap DOMAIN tasks : tasks[i].attempts # <<>>}

\* The tasks among `ids` a report may still be recorded for.
Recordable(ids) == {i \in ids \cap DOMAIN tasks : tasks[i].state = "in_progress"}

\* Mutated form of Opened: the attempt of a resent task takes the last one's place.
OpenedInPlace(task) ==
  [task EXCEPT !.state = "in_progress",
               !.attempts = IF @ = <<>> THEN <<NoStatus>> ELSE [@ EXCEPT ![Len(@)] = NoStatus]]

\* A task as a claim leaves it.
Opened(task) ==
  [task EXCEPT !.state = "in_progress", !.attempts = Append(@, NoStatus)]

\* Mutated form of Finished: the result goes on the task, and its attempt is left open.
FinishedStateOnly(task, status) == [task EXCEPT !.state = status]

\* A task as a report of `status` leaves it.
Finished(task, status) ==
  [task EXCEPT !.state = status, !.attempts[Len(task.attempts)] = status]

\* The store after a claim opened the tasks `ids`.
Open(ids) == tasks' = [i \in DOMAIN tasks |-> IF i \in ids THEN Opened(tasks[i]) ELSE tasks[i]]

----------------------------------------------------------------------------
(* The calls *)

\* Mutated form of Create: the limit is missed by one.
CreatePastTheLimit(key) ==
  /\ Len(tasks) <= MaxTasks
  /\ ~Clash(key, 0)
  /\ tasks' = Append(tasks, [key |-> key, state |-> "queued", attempts |-> <<>>])
  /\ UNCHANGED handed

\* create: refused when the store is full or the room has such a task already.
Create(key) ==
  /\ Len(tasks) < MaxTasks
  /\ ~Clash(key, 0)
  /\ tasks' = Append(tasks, [key |-> key, state |-> "queued", attempts |-> <<>>])
  /\ UNCHANGED handed

\* claim_chosen that answers: every claimable task is opened for session s.
Claim(s, model, kinds, ids) ==
  LET taken == Claimable(model, kinds, ids) IN
  /\ taken # {}
  /\ Open(taken)
  /\ handed' = handed \cup {<<i, Len(tasks[i].attempts) + 1, s>> : i \in taken}

\* claim_chosen that does not answer: the oldest claimable tasks were written, then a
\* write failed or the server died, and what was written stays in progress.
ClaimCutShort(s, model, kinds, ids, n) ==
  LET taken == {i \in Claimable(model, kinds, ids) : i <= n} IN
  /\ taken # {}
  /\ Open(taken)
  /\ handed' = handed \cup {<<i, Len(tasks[i].attempts) + 1, s>> : i \in taken}

\* report: each row stands alone.  `batch` maps tasks to the results a session says; `written` are
\* the rows recorded, all of the recordable ones unless a write failed on the way.
Report(batch, written) ==
  /\ written \subseteq Recordable(DOMAIN batch)
  /\ tasks' = [i \in DOMAIN tasks |-> IF i \in written THEN Finished(tasks[i], batch[i]) ELSE tasks[i]]
  /\ UNCHANGED handed

\* dismiss: from any state but dismissed; an open attempt stays as it is.
Dismiss(i) ==
  /\ i \in DOMAIN tasks
  /\ tasks[i].state # "dismissed"
  /\ tasks' = [tasks EXCEPT ![i].state = "dismissed"]
  /\ UNCHANGED handed

\* Mutated form of Resend: the clash with another live task is not looked for.
ResendUnchecked(i) ==
  /\ i \in DOMAIN tasks
  /\ tasks[i].state # "queued"
  /\ Len(tasks[i].attempts) < MaxAttempts
  /\ tasks' = [tasks EXCEPT ![i].state = "queued"]
  /\ UNCHANGED handed

\* resend: from any state but queued, unless another task of the key is live.
Resend(i) ==
  /\ i \in DOMAIN tasks
  /\ tasks[i].state # "queued"
  /\ ~Clash(tasks[i].key, i)
  /\ Len(tasks[i].attempts) < MaxAttempts
  /\ tasks' = [tasks EXCEPT ![i].state = "queued"]
  /\ UNCHANGED handed

----------------------------------------------------------------------------
(* Any session may claim at any time, and report what it was handed, late or twice. *)

HandedTo(s) == {i \in DOMAIN tasks : \E n \in 1..MaxAttempts : <<i, n, s>> \in handed}

TasksNext ==
  \/ \E key \in Keys : Create(key)
  \/ \E s \in Sessions, model \in TaskModels, kinds \in SUBSET TaskKinds, ids \in SUBSET DOMAIN tasks :
        \/ Claim(s, model, kinds, ids)
        \/ \E n \in DOMAIN tasks : ClaimCutShort(s, model, kinds, ids, n)
  \/ \E s \in Sessions : \E ids \in SUBSET HandedTo(s) : \E batch \in [ids -> Results] :
        \E written \in SUBSET ids : Report(batch, written)
  \/ \E i \in DOMAIN tasks : Dismiss(i) \/ Resend(i)

TasksSpec == TasksInit /\ [][TasksNext]_taskVars

----------------------------------------------------------------------------
(* Properties *)

\* The store holds tasks, and the history names attempts of tasks it may hold.
TypeOK ==
  /\ tasks \in Seq(Task)
  /\ Len(tasks) <= MaxTasks
  /\ handed \subseteq (1..MaxTasks) \X (1..MaxAttempts) \X Sessions

\* No two live tasks are of one kind for one room of one model: "two would be handed out
\* together, and the second would find the room populated" (tasks.rs, create and resend).
OneLiveTaskPerRoom ==
  \A i, j \in DOMAIN tasks :
    IsLive(tasks[i]) /\ IsLive(tasks[j]) /\ tasks[i].key = tasks[j].key => i = j

\* A task is in progress exactly while its last attempt may still be reported on; a task that
\* holds a result has that result on its last attempt.  So a report never overwrites another.
LastAttemptTellsState ==
  \A i \in DOMAIN tasks :
    LET attempts == tasks[i].attempts IN
    /\ tasks[i].state = "in_progress" => attempts # <<>> /\ attempts[Len(attempts)] = NoStatus
    /\ tasks[i].state \in Results => attempts # <<>> /\ attempts[Len(attempts)] = tasks[i].state

\* "Nothing is ever deleted: a task's attempts are kept, each with what the session said": no
\* task leaves, no attempt leaves, and what was said of an attempt is never changed.
AttemptsKept ==
  [][/\ DOMAIN tasks \subseteq DOMAIN tasks'
     /\ \A i \in DOMAIN tasks :
          /\ tasks'[i].key = tasks[i].key
          /\ DOMAIN tasks[i].attempts \subseteq DOMAIN tasks'[i].attempts
          /\ \A n \in DOMAIN tasks[i].attempts :
               tasks[i].attempts[n] # NoStatus => tasks'[i].attempts[n] = tasks[i].attempts[n]]_taskVars

\* An attempt belongs to the one claim that opened it: "marking each in_progress so another
\* session is not given it" (tasks.rs, claim), whatever was resent and claimed again.
OneSessionPerAttempt ==
  \A a, b \in handed : a[1] = b[1] /\ a[2] = b[2] => a[3] = b[3]

\* Tickets of the abstract slots are attempts <<i, n>>; these two pairs are none.
FreeSlot == <<0, 0>>
WaitingSlot == <<0, 1>>

\* What the slot of a key holds: the live task of that key, as the abstract slots see it.
SlotOf(key) ==
  LET live == {i \in DOMAIN tasks : IsLive(tasks[i]) /\ tasks[i].key = key} IN
  IF live = {} THEN FreeSlot
  ELSE LET i == CHOOSE i \in live : TRUE IN
       IF tasks[i].state = "queued" THEN WaitingSlot ELSE <<i, Len(tasks[i].attempts)>>

AsSlots == INSTANCE RoomSlots WITH
  Tickets <- (1..MaxTasks) \X (1..MaxAttempts),
  Free    <- FreeSlot,
  Waiting <- WaitingSlot,
  slot    <- [key \in Keys |-> SlotOf(key)],
  spent   <- UNION {{<<i, n>> : n \in DOMAIN tasks[i].attempts} : i \in DOMAIN tasks}

\* The store implements the slots: a room's slot is handed over only while it waits, and each
\* go at a task is a ticket of its own.
KeepsSlots == AsSlots!Spec
=============================================================================
