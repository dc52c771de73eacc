-------------------------- MODULE RoomTasks_proofs --------------------------
(***************************************************************************)
(* The safety properties of the room task store and of the runs of the     *)
(* Tasks button against it, for any number of kinds, models, rooms,        *)
(* sessions, tasks and attempts, and any bounds on what is lost.           *)
(***************************************************************************)
EXTENDS TaskRuns, FiniteSetTheorems, TLAPS

\* A task waits only while it may be handed over once more within the bound.
AttemptsInBounds ==
  \A i \in DOMAIN tasks :
    /\ Len(tasks[i].attempts) <= MaxAttempts
    /\ tasks[i].state = "queued" => Len(tasks[i].attempts) < MaxAttempts

\* The history of claims names attempts the store holds, never one that is still to come.
HandedAreHeld ==
  \A h \in handed : h[1] \in DOMAIN tasks /\ h[2] \in DOMAIN tasks[h[1]].attempts

\* The inductive invariant.
IInv ==
  /\ TypeOK
  /\ OneLiveTaskPerRoom
  /\ LastAttemptTellsState
  /\ AttemptsInBounds
  /\ HandedAreHeld
  /\ OneSessionPerAttempt

\* What there is in a task.
LEMMA TaskFields ==
  ASSUME NEW t \in Task
  PROVE  /\ t.key \in Keys /\ t.state \in States /\ t.attempts \in Seq(Results \cup {NoStatus})
         /\ DOMAIN t = {"key", "state", "attempts"}
BY DEF Task

\* What a claim makes of one task.
LEMMA OpenedTask ==
  ASSUME NEW t \in Task
  PROVE  /\ Opened(t) \in Task
         /\ Opened(t).key = t.key
         /\ Opened(t).state = "in_progress"
         /\ Opened(t).attempts = Append(t.attempts, NoStatus)
<1> DEFINE more == Append(t.attempts, NoStatus)
<1>1. t.attempts \in Seq(Results \cup {NoStatus})
  BY DEF Task
<1>2. more \in Seq(Results \cup {NoStatus})
  BY <1>1
<1>3. "in_progress" \in States
  BY DEF States, Unreported
<1>4. Opened(t) = [t EXCEPT !.state = "in_progress", !.attempts = more]
  BY DEF Opened
<1> HIDE DEF more
<1>5. /\ Opened(t) \in Task /\ Opened(t).key = t.key
      /\ Opened(t).state = "in_progress" /\ Opened(t).attempts = more
  BY <1>2, <1>3, <1>4 DEF Task
<1> QED
  BY <1>5 DEF more

\* What a report makes of one task whose last attempt it is about.
LEMMA FinishedTask ==
  ASSUME NEW t \in Task, t.attempts # <<>>, NEW status \in Results
  PROVE  /\ Finished(t, status) \in Task
         /\ Finished(t, status).key = t.key
         /\ Finished(t, status).state = status
         /\ Len(Finished(t, status).attempts) = Len(t.attempts)
         /\ DOMAIN Finished(t, status).attempts = DOMAIN t.attempts
         /\ Finished(t, status).attempts[Len(t.attempts)] = status
         /\ \A n \in DOMAIN t.attempts :
              n # Len(t.attempts) => Finished(t, status).attempts[n] = t.attempts[n]
<1> DEFINE said == [t.attempts EXCEPT ![Len(t.attempts)] = status]
<1>1. t.attempts \in Seq(Results \cup {NoStatus}) /\ t.state \in States /\ t.key \in Keys
  BY DEF Task
<1>2. Len(t.attempts) \in DOMAIN t.attempts
  BY <1>1
<1>3. said \in Seq(Results \cup {NoStatus}) /\ Len(said) = Len(t.attempts) /\ DOMAIN said = DOMAIN t.attempts
  BY <1>1, <1>2
<1>4. Finished(t, status) = [t EXCEPT !.state = status, !.attempts = said]
  BY DEF Finished, Task
<1>5. status \in States
  BY DEF States
<1> QED
  BY <1>1, <1>2, <1>3, <1>4, <1>5 DEF Task

\* Rewriting tasks in place keeps the store a sequence of as many tasks.
LEMMA InPlace ==
  ASSUME TypeOK, NEW f, f = [i \in DOMAIN tasks |-> f[i]], \A i \in DOMAIN tasks : f[i] \in Task
  PROVE  f \in Seq(Task) /\ Len(f) = Len(tasks) /\ DOMAIN f = DOMAIN tasks
<1>1. tasks \in Seq(Task) /\ Len(tasks) \in Nat /\ DOMAIN tasks = 1..Len(tasks)
  BY DEF TypeOK
<1>2. f \in [1..Len(tasks) -> Task]
  BY <1>1
<1> QED
  BY <1>1, <1>2

----------------------------------------------------------------------------

\* Both outcomes of a claim open some queued tasks for a session.
LEMMA OpeningKeeps ==
  ASSUME IInv, NEW s \in Sessions, NEW taken \in SUBSET DOMAIN tasks,
         \A i \in taken : tasks[i].state = "queued",
         Open(taken),
         handed' = handed \cup {<<i, Len(tasks[i].attempts) + 1, s>> : i \in taken}
  PROVE  IInv'
<1>1. /\ tasks \in Seq(Task) /\ Len(tasks) \in Nat /\ DOMAIN tasks = 1..Len(tasks)
      /\ \A i \in DOMAIN tasks : tasks[i] \in Task
  BY DEF IInv, TypeOK
<1>2. \A i \in DOMAIN tasks :
        /\ tasks[i].attempts \in Seq(Results \cup {NoStatus})
        /\ Len(tasks[i].attempts) \in Nat
        /\ DOMAIN tasks[i].attempts = 1..Len(tasks[i].attempts)
  BY <1>1, TaskFields
<1>3. tasks' = [i \in DOMAIN tasks |-> IF i \in taken THEN Opened(tasks[i]) ELSE tasks[i]]
  BY DEF Open
<1>4. \A i \in taken :
        /\ tasks'[i] \in Task
        /\ tasks'[i].key = tasks[i].key
        /\ tasks'[i].state = "in_progress"
        /\ tasks'[i].attempts = Append(tasks[i].attempts, NoStatus)
  BY <1>1, <1>3, OpenedTask
<1>5. \A i \in DOMAIN tasks \ taken : tasks'[i] = tasks[i]
  BY <1>3
<1>6. tasks' \in Seq(Task) /\ Len(tasks') = Len(tasks) /\ DOMAIN tasks' = DOMAIN tasks
  <2>1. tasks' = [i \in DOMAIN tasks |-> tasks'[i]]
    BY <1>3
  <2> QED
    BY <2>1, <1>1, <1>4, <1>5, InPlace DEF IInv
<1>7. \A i \in taken :
        /\ Len(tasks'[i].attempts) = Len(tasks[i].attempts) + 1
        /\ DOMAIN tasks'[i].attempts = 1..(Len(tasks[i].attempts) + 1)
        /\ tasks'[i].attempts[Len(tasks'[i].attempts)] = NoStatus
        /\ tasks'[i].attempts # <<>>
  BY <1>2, <1>4
<1>8. \A i \in taken : Len(tasks[i].attempts) + 1 \in 1..MaxAttempts
  BY <1>2, BoundsAssumption DEF IInv, AttemptsInBounds
<1>9. TypeOK'
  <2>1. \A i \in taken : <<i, Len(tasks[i].attempts) + 1, s>> \in (1..MaxTasks) \X (1..MaxAttempts) \X Sessions
    BY <1>1, <1>8, BoundsAssumption DEF IInv, TypeOK
  <2> QED
    BY <1>6, <2>1 DEF IInv, TypeOK
<1>10. OneLiveTaskPerRoom'
  <2>1. \A i \in DOMAIN tasks : tasks'[i].key = tasks[i].key /\ (IsLive(tasks'[i]) => IsLive(tasks[i]))
    BY <1>4, <1>5 DEF IsLive
  <2> QED
    BY <2>1, <1>6 DEF IInv, OneLiveTaskPerRoom
<1>11. LastAttemptTellsState'
  <2> SUFFICES ASSUME NEW i \in DOMAIN tasks
               PROVE /\ tasks'[i].state = "in_progress" =>
                          tasks'[i].attempts # <<>> /\ tasks'[i].attempts[Len(tasks'[i].attempts)] = NoStatus
                     /\ tasks'[i].state \in Results =>
                          tasks'[i].attempts # <<>> /\ tasks'[i].attempts[Len(tasks'[i].attempts)] = tasks'[i].state
    BY <1>6 DEF LastAttemptTellsState
  <2>1. CASE i \in taken
    BY <2>1, <1>4, <1>7, ResultsAssumption DEF Unreported
  <2>2. CASE i \notin taken
    BY <2>2, <1>5 DEF IInv, LastAttemptTellsState
  <2> QED
    BY <2>1, <2>2
<1>12. AttemptsInBounds'
  <2> SUFFICES ASSUME NEW i \in DOMAIN tasks
               PROVE /\ Len(tasks'[i].attempts) <= MaxAttempts
                     /\ tasks'[i].state = "queued" => Len(tasks'[i].attempts) < MaxAttempts
    BY <1>6 DEF AttemptsInBounds
  <2>1. CASE i \in taken
    BY <2>1, <1>4, <1>7, <1>8
  <2>2. CASE i \notin taken
    BY <2>2, <1>5 DEF IInv, AttemptsInBounds
  <2> QED
    BY <2>1, <2>2
<1>13. HandedAreHeld'
  <2> SUFFICES ASSUME NEW h \in handed'
               PROVE  h[1] \in DOMAIN tasks /\ h[2] \in DOMAIN tasks'[h[1]].attempts
    BY <1>6 DEF HandedAreHeld
  <2>1. CASE h \in handed
    <3>1. h[1] \in DOMAIN tasks /\ h[2] \in 1..Len(tasks[h[1]].attempts)
      BY <2>1, <1>2 DEF IInv, HandedAreHeld
    <3>2. CASE h[1] \in taken
      BY <3>1, <3>2, <1>2, <1>7
    <3>3. CASE h[1] \notin taken
      BY <3>1, <3>3, <1>2, <1>5
    <3> QED
      BY <3>2, <3>3
  <2>2. CASE h \notin handed
    <3>1. PICK i \in taken : h = <<i, Len(tasks[i].attempts) + 1, s>>
      BY <2>2
    <3> QED
      BY <3>1, <1>2, <1>7
  <2> QED
    BY <2>1, <2>2
<1>14. OneSessionPerAttempt'
  <2> SUFFICES ASSUME NEW a \in handed', NEW b \in handed', a[1] = b[1], a[2] = b[2]
               PROVE  a[3] = b[3]
    BY DEF OneSessionPerAttempt
  <2>1. \A h \in handed : h[1] \in DOMAIN tasks /\ h[2] \in 1..Len(tasks[h[1]].attempts)
    BY <1>2 DEF IInv, HandedAreHeld
  <2>2. \A h \in handed' \ handed : h[1] \in DOMAIN tasks /\ h[2] = Len(tasks[h[1]].attempts) + 1 /\ h[3] = s
    OBVIOUS
  <2>3. CASE a \in handed /\ b \in handed
    BY <2>3 DEF IInv, OneSessionPerAttempt
  <2>4. CASE a \notin handed /\ b \notin handed
    BY <2>4, <2>2
  <2>5. CASE (a \in handed) # (b \in handed)
    BY <2>1, <2>2, <2>5, <1>2
  <2> QED
    BY <2>3, <2>4, <2>5
<1> QED
  BY <1>9, <1>10, <1>11, <1>12, <1>13, <1>14 DEF IInv

\* A report closes the open attempts of tasks in progress.
LEMMA ReportKeeps ==
  ASSUME IInv, NEW batch, NEW written, Report(batch, written),
         \A i \in written : batch[i] \in Results
  PROVE  IInv'
<1>1. /\ tasks \in Seq(Task) /\ Len(tasks) \in Nat /\ DOMAIN tasks = 1..Len(tasks)
      /\ \A i \in DOMAIN tasks : tasks[i] \in Task
  BY DEF IInv, TypeOK
<1>2. \A i \in written : i \in DOMAIN tasks /\ tasks[i].state = "in_progress"
  BY DEF Report, Recordable
<1>3. \A i \in written : tasks[i].attempts # <<>>
  BY <1>2 DEF IInv, LastAttemptTellsState
<1>4. tasks' = [i \in DOMAIN tasks |-> IF i \in written THEN Finished(tasks[i], batch[i]) ELSE tasks[i]]
  BY DEF Report
<1>5. \A i \in written :
        /\ tasks'[i] \in Task
        /\ tasks'[i].key = tasks[i].key
        /\ tasks'[i].state = batch[i]
        /\ Len(tasks'[i].attempts) = Len(tasks[i].attempts)
        /\ DOMAIN tasks'[i].attempts = DOMAIN tasks[i].attempts
        /\ tasks'[i].attempts[Len(tasks'[i].attempts)] = batch[i]
  BY <1>1, <1>2, <1>3, <1>4, FinishedTask
<1>6. \A i \in DOMAIN tasks \ written : tasks'[i] = tasks[i]
  BY <1>4
<1>7. tasks' \in Seq(Task) /\ Len(tasks') = Len(tasks) /\ DOMAIN tasks' = DOMAIN tasks
  <2>1. tasks' = [i \in DOMAIN tasks |-> tasks'[i]]
    BY <1>4
  <2> QED
    BY <2>1, <1>1, <1>5, <1>6, InPlace DEF IInv
<1>8. handed' = handed
  BY DEF Report
<1>9. TypeOK'
  BY <1>7, <1>8 DEF IInv, TypeOK
<1>10. OneLiveTaskPerRoom'
  <2>1. \A i \in DOMAIN tasks : tasks'[i].key = tasks[i].key /\ (IsLive(tasks'[i]) => IsLive(tasks[i]))
    BY <1>2, <1>5, <1>6 DEF IsLive
  <2> QED
    BY <2>1, <1>7 DEF IInv, OneLiveTaskPerRoom
<1>11. LastAttemptTellsState'
  <2> SUFFICES ASSUME NEW i \in DOMAIN tasks
               PROVE /\ tasks'[i].state = "in_progress" =>
                          tasks'[i].attempts # <<>> /\ tasks'[i].attempts[Len(tasks'[i].attempts)] = NoStatus
                     /\ tasks'[i].state \in Results =>
                          tasks'[i].attempts # <<>> /\ tasks'[i].attempts[Len(tasks'[i].attempts)] = tasks'[i].state
    BY <1>7 DEF LastAttemptTellsState
  <2>1. CASE i \in written
    <3>1. tasks'[i].state # "in_progress"
      BY <2>1, <1>5, ResultsAssumption DEF Unreported
    <3>2. tasks'[i].attempts # <<>>
      <4>1. tasks[i].attempts \in Seq(Results \cup {NoStatus}) /\ Len(tasks[i].attempts) # 0
        BY <1>1, <1>3, <2>1, TaskFields
      <4>2. Len(tasks'[i].attempts) # 0
        BY <4>1, <1>5, <2>1
      <4> QED
        BY <4>2
    <3> QED
      BY <3>1, <3>2, <2>1, <1>5
  <2>2. CASE i \notin written
    BY <2>2, <1>6 DEF IInv, LastAttemptTellsState
  <2> QED
    BY <2>1, <2>2
<1>12. AttemptsInBounds'
  <2> SUFFICES ASSUME NEW i \in DOMAIN tasks
               PROVE /\ Len(tasks'[i].attempts) <= MaxAttempts
                     /\ tasks'[i].state = "queued" => Len(tasks'[i].attempts) < MaxAttempts
    BY <1>7 DEF AttemptsInBounds
  <2>1. CASE i \in written
    BY <2>1, <1>5, ResultsAssumption DEF IInv, AttemptsInBounds, Unreported
  <2>2. CASE i \notin written
    BY <2>2, <1>6 DEF IInv, AttemptsInBounds
  <2> QED
    BY <2>1, <2>2
<1>13. HandedAreHeld'
  BY <1>5, <1>6, <1>7, <1>8 DEF IInv, HandedAreHeld
<1>14. OneSessionPerAttempt'
  BY <1>8 DEF IInv, OneSessionPerAttempt
<1> QED
  BY <1>9, <1>10, <1>11, <1>12, <1>13, <1>14 DEF IInv

\* A new task is queued, has no attempt, and no live task has its key.
LEMMA CreateKeeps ==
  ASSUME IInv, NEW key \in Keys, Create(key)
  PROVE  IInv'
<1> DEFINE task == [key |-> key, state |-> "queued", attempts |-> <<>>]
<1>1. tasks \in Seq(Task) /\ Len(tasks) \in Nat /\ DOMAIN tasks = 1..Len(tasks)
  BY DEF IInv, TypeOK
<1>2. task \in Task
  BY DEF Task, States, Unreported
<1>3. tasks' = Append(tasks, task) /\ handed' = handed
  BY DEF Create
<1> HIDE DEF task
<1>4. /\ tasks' \in Seq(Task) /\ Len(tasks') = Len(tasks) + 1
      /\ DOMAIN tasks' = DOMAIN tasks \cup {Len(tasks) + 1}
      /\ \A i \in DOMAIN tasks : tasks'[i] = tasks[i]
      /\ tasks'[Len(tasks) + 1] = task /\ Len(tasks) + 1 \notin DOMAIN tasks
  BY <1>1, <1>2, <1>3
<1>5. task.key = key /\ task.state = "queued" /\ task.attempts = <<>>
  BY DEF task
<1>6. TypeOK'
  <2>1. Len(tasks') <= MaxTasks
    BY <1>1, <1>4, BoundsAssumption DEF Create
  <2> QED
    BY <2>1, <1>3, <1>4 DEF IInv, TypeOK
<1>7. OneLiveTaskPerRoom'
  <2>1. \A i \in DOMAIN tasks : ~(IsLive(tasks[i]) /\ tasks[i].key = key)
    BY <1>1 DEF Create, Clash
  <2>2. \A i, j \in DOMAIN tasks : IsLive(tasks'[i]) /\ IsLive(tasks'[j]) /\ tasks'[i].key = tasks'[j].key => i = j
    BY <1>4 DEF IInv, OneLiveTaskPerRoom
  <2>3. \A i \in DOMAIN tasks : ~(IsLive(tasks'[i]) /\ tasks'[i].key = tasks'[Len(tasks) + 1].key)
    BY <2>1, <1>4, <1>5
  <2> QED
    BY <2>2, <2>3, <1>4 DEF OneLiveTaskPerRoom
<1>8. LastAttemptTellsState'
  <2>1. task.state # "in_progress" /\ task.state \notin Results
    BY <1>5, ResultsAssumption DEF Unreported
  <2> QED
    BY <2>1, <1>4 DEF IInv, LastAttemptTellsState
<1>9. AttemptsInBounds'
  <2>1. Len(task.attempts) < MaxAttempts
    BY <1>5, BoundsAssumption
  <2> QED
    BY <2>1, <1>4, BoundsAssumption DEF IInv, AttemptsInBounds
<1>10. HandedAreHeld'
  BY <1>3, <1>4 DEF IInv, HandedAreHeld
<1>11. OneSessionPerAttempt'
  BY <1>3 DEF IInv, OneSessionPerAttempt
<1> QED
  BY <1>6, <1>7, <1>8, <1>9, <1>10, <1>11 DEF IInv

\* People move the state of one task and nothing else; to queued only if that is no clash.
LEMMA MovingKeeps ==
  ASSUME IInv, NEW i \in DOMAIN tasks, NEW state \in {"queued", "dismissed"},
         tasks' = [tasks EXCEPT ![i].state = state], handed' = handed,
         state = "queued" => ~Clash(tasks[i].key, i) /\ Len(tasks[i].attempts) < MaxAttempts
  PROVE  IInv'
<1>1. /\ tasks \in Seq(Task) /\ Len(tasks) \in Nat /\ DOMAIN tasks = 1..Len(tasks)
      /\ \A j \in DOMAIN tasks : tasks[j] \in Task
  BY DEF IInv, TypeOK
<1>2. /\ tasks'[i] \in Task
      /\ tasks'[i].key = tasks[i].key
      /\ tasks'[i].state = state
      /\ tasks'[i].attempts = tasks[i].attempts
  BY <1>1 DEF Task, States, Unreported
<1>3. \A j \in DOMAIN tasks : j # i => tasks'[j] = tasks[j]
  BY <1>1
<1>4. tasks' \in Seq(Task) /\ Len(tasks') = Len(tasks) /\ DOMAIN tasks' = DOMAIN tasks
  <2>1. tasks' = [j \in DOMAIN tasks |-> tasks'[j]]
    BY <1>1
  <2> QED
    BY <2>1, <1>1, <1>2, <1>3, InPlace DEF IInv
<1>5. TypeOK'
  BY <1>4 DEF IInv, TypeOK
<1>6. OneLiveTaskPerRoom'
  <2>1. CASE state = "queued"
    <3>1. \A j \in DOMAIN tasks : j # i => ~(IsLive(tasks[j]) /\ tasks[j].key = tasks[i].key)
      BY <2>1 DEF Clash
    <3> QED
      BY <3>1, <1>2, <1>3, <1>4 DEF IInv, OneLiveTaskPerRoom
  <2>2. CASE state = "dismissed"
    <3>1. ~IsLive(tasks'[i])
      BY <2>2, <1>2 DEF IsLive
    <3> QED
      BY <3>1, <1>3, <1>4 DEF IInv, OneLiveTaskPerRoom
  <2> QED
    BY <2>1, <2>2
<1>7. LastAttemptTellsState'
  <2>1. tasks'[i].state # "in_progress" /\ tasks'[i].state \notin Results
    BY <1>2, ResultsAssumption DEF Unreported
  <2> QED
    BY <2>1, <1>3, <1>4 DEF IInv, LastAttemptTellsState
<1>8. AttemptsInBounds'
  BY <1>2, <1>3, <1>4 DEF IInv, AttemptsInBounds
<1>9. HandedAreHeld'
  BY <1>2, <1>3, <1>4 DEF IInv, HandedAreHeld
<1>10. OneSessionPerAttempt'
  BY DEF IInv, OneSessionPerAttempt
<1> QED
  BY <1>5, <1>6, <1>7, <1>8, <1>9, <1>10 DEF IInv

----------------------------------------------------------------------------

\* An empty store satisfies the invariant.
LEMMA InitInv == TasksInit => IInv
<1> SUFFICES ASSUME TasksInit PROVE IInv
  OBVIOUS
<1>1. tasks = <<>> /\ handed = {}
  BY DEF TasksInit
<1>2. TypeOK
  BY <1>1, BoundsAssumption DEF TypeOK
<1> QED
  BY <1>1, <1>2 DEF IInv, OneLiveTaskPerRoom, LastAttemptTellsState, AttemptsInBounds, HandedAreHeld,
                    OneSessionPerAttempt

\* Every call keeps the invariant, one step of the proof for each.
LEMMA NextInv == IInv /\ [TasksNext]_taskVars => IInv'
<1> SUFFICES ASSUME IInv, [TasksNext]_taskVars PROVE IInv'
  OBVIOUS
<1>1. ASSUME NEW key \in Keys, Create(key) PROVE IInv'
  BY <1>1, CreateKeeps
<1>2. ASSUME NEW s \in Sessions, NEW model \in TaskModels, NEW kinds, NEW ids, Claim(s, model, kinds, ids)
      PROVE  IInv'
  <2>1. /\ Claimable(model, kinds, ids) \subseteq DOMAIN tasks
        /\ \A i \in Claimable(model, kinds, ids) : tasks[i].state = "queued"
    BY DEF Claimable
  <2> QED
    BY <1>2, <2>1, OpeningKeeps DEF Claim
<1>3. ASSUME NEW s \in Sessions, NEW model \in TaskModels, NEW kinds, NEW ids, NEW n,
             ClaimCutShort(s, model, kinds, ids, n)
      PROVE  IInv'
  <2> DEFINE taken == {i \in Claimable(model, kinds, ids) : i <= n}
  <2>1. taken \subseteq DOMAIN tasks /\ \A i \in taken : tasks[i].state = "queued"
    BY DEF Claimable
  <2>2. Open(taken) /\ handed' = handed \cup {<<i, Len(tasks[i].attempts) + 1, s>> : i \in taken}
    BY <1>3 DEF ClaimCutShort
  <2> HIDE DEF taken
  <2> QED
    BY <2>1, <2>2, OpeningKeeps
<1>4. ASSUME NEW ids, NEW batch \in [ids -> Results], NEW written \in SUBSET ids, Report(batch, written)
      PROVE  IInv'
  BY <1>4, ReportKeeps
<1>5. ASSUME NEW i \in DOMAIN tasks, Dismiss(i) PROVE IInv'
  BY <1>5, MovingKeeps DEF Dismiss
<1>6. ASSUME NEW i \in DOMAIN tasks, Resend(i) PROVE IInv'
  BY <1>6, MovingKeeps DEF Resend
<1>7. CASE UNCHANGED taskVars
  BY <1>7 DEF taskVars, IInv, TypeOK, OneLiveTaskPerRoom, LastAttemptTellsState, AttemptsInBounds,
              HandedAreHeld, OneSessionPerAttempt, IsLive
<1> QED
  BY <1>1, <1>2, <1>3, <1>4, <1>5, <1>6, <1>7 DEF TasksNext

\* The store keeps its invariant whatever is called and in whatever order.
THEOREM Invariant == TasksSpec => []IInv
<1> QED
  BY InitInv, NextInv, PTL DEF TasksSpec

\* The store holds tasks, within its limit (TypeOK).
THEOREM TypeCorrect == TasksSpec => []TypeOK
<1>1. IInv => TypeOK
  BY DEF IInv
<1> QED
  BY <1>1, Invariant, PTL

\* Create and resend never leave two live tasks for one kind, model and room.
THEOREM OneLiveTask == TasksSpec => []OneLiveTaskPerRoom
<1>1. IInv => OneLiveTaskPerRoom
  BY DEF IInv
<1> QED
  BY <1>1, Invariant, PTL

\* A task in progress has an open last attempt, a finished one its result there.
THEOREM LastAttempt == TasksSpec => []LastAttemptTellsState
<1>1. IInv => LastAttemptTellsState
  BY DEF IInv
<1> QED
  BY <1>1, Invariant, PTL

\* Claims never open one attempt of a task for two sessions.
THEOREM OneSession == TasksSpec => []OneSessionPerAttempt
<1>1. IInv => OneSessionPerAttempt
  BY DEF IInv
<1> QED
  BY <1>1, Invariant, PTL

----------------------------------------------------------------------------
(* What a step may do to the tasks that are there *)

\* A task that is there stays, with its key, its attempts and what was said of them.
Keeps ==
  /\ DOMAIN tasks \subseteq DOMAIN tasks'
  /\ \A i \in DOMAIN tasks :
       /\ tasks'[i].key = tasks[i].key
       /\ DOMAIN tasks[i].attempts \subseteq DOMAIN tasks'[i].attempts
       /\ \A n \in DOMAIN tasks[i].attempts :
            tasks[i].attempts[n] # NoStatus => tasks'[i].attempts[n] = tasks[i].attempts[n]

\* A claim appends an attempt to each task it opens.
LEMMA OpeningAppends ==
  ASSUME TypeOK, NEW taken, Open(taken)
  PROVE  Keeps
<1>1. \A i \in DOMAIN tasks : tasks[i] \in Task /\ tasks[i].attempts \in Seq(Results \cup {NoStatus})
  BY TaskFields DEF TypeOK
<1>2. DOMAIN tasks' = DOMAIN tasks
  BY DEF Open
<1> SUFFICES ASSUME NEW i \in DOMAIN tasks
             PROVE  /\ tasks'[i].key = tasks[i].key
                    /\ DOMAIN tasks[i].attempts \subseteq DOMAIN tasks'[i].attempts
                    /\ \A n \in DOMAIN tasks[i].attempts : tasks'[i].attempts[n] = tasks[i].attempts[n]
  BY <1>2 DEF Keeps
<1>3. CASE i \in taken
  <2>1. tasks'[i].key = tasks[i].key /\ tasks'[i].attempts = Append(tasks[i].attempts, NoStatus)
    BY <1>1, <1>3, OpenedTask DEF Open
  <2> QED
    BY <1>1, <2>1
<1>4. CASE i \notin taken
  BY <1>4 DEF Open
<1> QED
  BY <1>3, <1>4

\* A report touches nothing but the open attempt of a task in progress.
LEMMA ReportFillsIn ==
  ASSUME IInv, NEW batch, NEW written, Report(batch, written),
         \A i \in written : batch[i] \in Results
  PROVE  Keeps
<1>1. /\ \A i \in DOMAIN tasks : tasks[i] \in Task
      /\ \A i \in written : i \in DOMAIN tasks /\ tasks[i].state = "in_progress"
  BY DEF IInv, TypeOK, Report, Recordable
<1>2. \A i \in written :
        tasks[i].attempts # <<>> /\ tasks[i].attempts[Len(tasks[i].attempts)] = NoStatus
  BY <1>1 DEF IInv, LastAttemptTellsState
<1>3. tasks' = [i \in DOMAIN tasks |-> IF i \in written THEN Finished(tasks[i], batch[i]) ELSE tasks[i]]
  BY DEF Report
<1> SUFFICES ASSUME NEW i \in DOMAIN tasks
             PROVE  /\ tasks'[i].key = tasks[i].key
                    /\ DOMAIN tasks[i].attempts \subseteq DOMAIN tasks'[i].attempts
                    /\ \A n \in DOMAIN tasks[i].attempts :
                         tasks[i].attempts[n] # NoStatus => tasks'[i].attempts[n] = tasks[i].attempts[n]
  BY <1>3 DEF Keeps
<1>4. CASE i \in written
  <2>1. /\ Finished(tasks[i], batch[i]).key = tasks[i].key
        /\ DOMAIN Finished(tasks[i], batch[i]).attempts = DOMAIN tasks[i].attempts
        /\ \A n \in DOMAIN tasks[i].attempts : n # Len(tasks[i].attempts) =>
             Finished(tasks[i], batch[i]).attempts[n] = tasks[i].attempts[n]
    BY <1>1, <1>2, <1>4, FinishedTask
  <2> QED
    BY <1>2, <1>3, <1>4, <2>1
<1>5. CASE i \notin written
  BY <1>3, <1>5
<1> QED
  BY <1>4, <1>5

\* Dismissing and resending a task leave its attempts alone.
LEMMA MovingLeaves ==
  ASSUME TypeOK, NEW i \in DOMAIN tasks, NEW state, tasks' = [tasks EXCEPT ![i].state = state]
  PROVE  Keeps
<1>1. tasks[i] \in Task
  BY DEF TypeOK
<1>2. /\ DOMAIN tasks' = DOMAIN tasks
      /\ tasks'[i] = [tasks[i] EXCEPT !.state = state]
      /\ \A j \in DOMAIN tasks : j # i => tasks'[j] = tasks[j]
  BY DEF TypeOK
<1>3. tasks'[i].key = tasks[i].key /\ tasks'[i].attempts = tasks[i].attempts
  BY <1>1, <1>2 DEF Task
<1> QED
  BY <1>2, <1>3 DEF Keeps

\* Every call keeps the attempts.
LEMMA NextKeeps == IInv /\ [TasksNext]_taskVars => [Keeps]_taskVars
<1> SUFFICES ASSUME IInv, TasksNext PROVE Keeps
  OBVIOUS
<1>1. TypeOK
  BY DEF IInv
<1>2. ASSUME NEW key \in Keys, Create(key) PROVE Keeps
  <2> DEFINE task == [key |-> key, state |-> "queued", attempts |-> <<>>]
  <2>1. tasks' = Append(tasks, task)
    BY <1>2 DEF Create
  <2> HIDE DEF task
  <2>2. DOMAIN tasks \subseteq DOMAIN tasks' /\ \A i \in DOMAIN tasks : tasks'[i] = tasks[i]
    BY <1>1, <2>1 DEF TypeOK
  <2> QED
    BY <2>2 DEF Keeps
<1>3. ASSUME NEW s, NEW model, NEW kinds, NEW ids, Claim(s, model, kinds, ids) PROVE Keeps
  BY <1>1, <1>3, OpeningAppends DEF Claim
<1>4. ASSUME NEW s, NEW model, NEW kinds, NEW ids, NEW n, ClaimCutShort(s, model, kinds, ids, n)
      PROVE  Keeps
  BY <1>1, <1>4, OpeningAppends DEF ClaimCutShort
<1>5. ASSUME NEW ids, NEW batch \in [ids -> Results], NEW written \in SUBSET ids, Report(batch, written)
      PROVE  Keeps
  BY <1>5, ReportFillsIn
<1>6. ASSUME NEW i \in DOMAIN tasks, Dismiss(i) PROVE Keeps
  BY <1>1, <1>6, MovingLeaves DEF Dismiss
<1>7. ASSUME NEW i \in DOMAIN tasks, Resend(i) PROVE Keeps
  BY <1>1, <1>7, MovingLeaves DEF Resend
<1> QED
  BY <1>2, <1>3, <1>4, <1>5, <1>6, <1>7 DEF TasksNext

\* "Nothing is ever deleted" (tasks.rs): no call loses a task, an attempt or what was said of one.
THEOREM AttemptsAreKept == TasksSpec => AttemptsKept
<1>1. AttemptsKept <=> [][Keeps]_taskVars
  BY DEF AttemptsKept, Keeps
<1> QED
  BY <1>1, NextKeeps, Invariant, PTL DEF TasksSpec
----------------------------------------------------------------------------
(* The store implements the slots *)

LiveIn(store, key)  == {i \in DOMAIN store : IsLive(store[i]) /\ store[i].key = key}
TheTask(store, key) == CHOOSE i \in LiveIn(store, key) : TRUE
Holds(task, i)      == IF task.state = "queued" THEN WaitingSlot ELSE <<i, Len(task.attempts)>>

\* SlotOf and the tickets given, of any store.
SlotIn(store, key) ==
  IF LiveIn(store, key) = {} THEN FreeSlot ELSE Holds(store[TheTask(store, key)], TheTask(store, key))

SpentIn(store) == UNION {{<<i, n>> : n \in DOMAIN store[i].attempts} : i \in DOMAIN store}

SlotVars ==
  <<[key \in Keys |-> SlotOf(key)],
    UNION {{<<i, n>> : n \in DOMAIN tasks[i].attempts} : i \in DOMAIN tasks}>>

LEMMA SlotMap ==
  /\ [key \in Keys |-> SlotOf(key)] = [key \in Keys |-> SlotIn(tasks, key)]
  /\ [key \in Keys |-> SlotOf(key)]' = [key \in Keys |-> SlotIn(tasks', key)]
<1>1. \A key : SlotOf(key) = SlotIn(tasks, key)
  BY DEF SlotOf, SlotIn, LiveIn, TheTask, Holds
<1>2. \A key : SlotOf(key)' = SlotIn(tasks', key)
  BY DEF SlotOf, SlotIn, LiveIn, TheTask, Holds, IsLive
<1> QED
  BY <1>1, <1>2

\* The slot of a key with one live task is what that task is.
LEMMA SlotOfLive ==
  ASSUME NEW store, NEW key, NEW i \in DOMAIN store, IsLive(store[i]), store[i].key = key,
         \A j \in DOMAIN store : IsLive(store[j]) /\ store[j].key = key => j = i
  PROVE  SlotIn(store, key) = Holds(store[i], i)
<1>1. LiveIn(store, key) = {i}
  BY DEF LiveIn
<1>2. LiveIn(store, key) # {} /\ TheTask(store, key) = i
  BY <1>1 DEF TheTask
<1> QED
  BY <1>2 DEF SlotIn

LEMMA SlotOfNone ==
  ASSUME NEW store, NEW key, \A j \in DOMAIN store : ~(IsLive(store[j]) /\ store[j].key = key)
  PROVE  SlotIn(store, key) = FreeSlot
BY DEF SlotIn, LiveIn

\* A slot stays as it is when the live tasks of its key do.
LEMMA SlotStays ==
  ASSUME NEW f, NEW g, NEW key,
         \A i : (i \in DOMAIN f /\ IsLive(f[i]) /\ f[i].key = key)
                  <=> (i \in DOMAIN g /\ IsLive(g[i]) /\ g[i].key = key),
         \A i \in DOMAIN f : IsLive(f[i]) /\ f[i].key = key => g[i] = f[i]
  PROVE  SlotIn(g, key) = SlotIn(f, key)
<1>1. LiveIn(g, key) = LiveIn(f, key) /\ \A i \in LiveIn(f, key) : g[i] = f[i]
  BY DEF LiveIn
<1>2. TheTask(g, key) = TheTask(f, key)
  BY <1>1 DEF TheTask
<1>3. LiveIn(f, key) # {} => TheTask(f, key) \in LiveIn(f, key)
  BY DEF TheTask
<1> QED
  BY <1>1, <1>2, <1>3 DEF SlotIn

\* The slots of two stores whose tasks have as many attempts are spent alike.
LEMMA SpentStays ==
  ASSUME NEW f, NEW g, DOMAIN f = DOMAIN g, \A i \in DOMAIN f : DOMAIN f[i].attempts = DOMAIN g[i].attempts
  PROVE  SpentIn(f) = SpentIn(g)
BY DEF SpentIn

\* Free and waiting are no tickets, and are told apart.
LEMMA NoTickets ==
  /\ FreeSlot # WaitingSlot
  /\ FreeSlot \notin (1..MaxTasks) \X (1..MaxAttempts) /\ WaitingSlot \notin (1..MaxTasks) \X (1..MaxAttempts)
BY DEF FreeSlot, WaitingSlot

\* What the slots hold, in the words of the abstract slots.
LEMMA SlotsOfTasks ==
  ASSUME IInv, NEW i \in DOMAIN tasks
  PROVE  /\ tasks[i].key \in Keys
         /\ tasks[i].state = "queued" => SlotIn(tasks, tasks[i].key) = WaitingSlot
         /\ tasks[i].state = "in_progress" =>
              /\ SlotIn(tasks, tasks[i].key) = <<i, Len(tasks[i].attempts)>>
              /\ <<i, Len(tasks[i].attempts)>> \in (1..MaxTasks) \X (1..MaxAttempts)
<1>1. tasks[i] \in Task /\ tasks[i].attempts \in Seq(Results \cup {NoStatus}) /\ tasks[i].key \in Keys
  BY TaskFields DEF IInv, TypeOK
<1>2. ASSUME IsLive(tasks[i])
      PROVE  SlotIn(tasks, tasks[i].key) = Holds(tasks[i], i)
  <2>1. \A j \in DOMAIN tasks : IsLive(tasks[j]) /\ tasks[j].key = tasks[i].key => j = i
    BY <1>2 DEF IInv, OneLiveTaskPerRoom
  <2> QED
    BY <1>2, <2>1, SlotOfLive
<1>3. i \in 1..MaxTasks
  BY BoundsAssumption DEF IInv, TypeOK
<1>4. tasks[i].state = "in_progress" => Len(tasks[i].attempts) \in 1..MaxAttempts
  BY <1>1, BoundsAssumption DEF IInv, LastAttemptTellsState, AttemptsInBounds
<1> QED
  BY <1>1, <1>2, <1>3, <1>4 DEF IsLive, Holds

\* A claim hands the slots over, each under a ticket of its own.
LEMMA OpeningHandsOver ==
  ASSUME IInv, IInv', NEW taken \in SUBSET DOMAIN tasks, \A i \in taken : tasks[i].state = "queued", Open(taken)
  PROVE  [AsSlots!Next]_SlotVars
<1> DEFINE ks == {tasks[i].key : i \in taken}
           holder == [k \in ks |-> CHOOSE i \in taken : tasks[i].key = k]
           ticket == [k \in ks |-> <<holder[k], Len(tasks[holder[k]].attempts) + 1>>]
<1>1. /\ DOMAIN tasks' = DOMAIN tasks
      /\ \A i \in DOMAIN tasks : tasks[i] \in Task /\ tasks[i].attempts \in Seq(Results \cup {NoStatus})
      /\ \A i \in taken : /\ tasks'[i].key = tasks[i].key /\ tasks'[i].state = "in_progress"
                          /\ tasks'[i].attempts = Append(tasks[i].attempts, NoStatus)
      /\ \A i \in DOMAIN tasks \ taken : tasks'[i] = tasks[i]
  <2>1. \A i \in DOMAIN tasks : tasks[i] \in Task /\ tasks[i].attempts \in Seq(Results \cup {NoStatus})
    BY TaskFields DEF IInv, TypeOK
  <2> QED
    BY <2>1, OpenedTask DEF Open
<1>2. \A i \in taken : /\ Len(tasks'[i].attempts) = Len(tasks[i].attempts) + 1
                       /\ Len(tasks[i].attempts) \in Nat
                       /\ DOMAIN tasks[i].attempts = 1..Len(tasks[i].attempts)
                       /\ DOMAIN tasks'[i].attempts = 1..(Len(tasks[i].attempts) + 1)
  BY <1>1
<1>3. \A i, j \in taken : tasks[i].key = tasks[j].key => i = j
  BY DEF IInv, OneLiveTaskPerRoom, IsLive
<1>4. \A i \in taken : tasks[i].key \in ks /\ holder[tasks[i].key] = i
  BY <1>3
<1>5. \A k \in ks : holder[k] \in taken /\ tasks[holder[k]].key = k
  BY <1>4
<1>6. ks \in SUBSET Keys
  BY SlotsOfTasks
<1> HIDE DEF ks, holder
<1>7. \A k \in ks : ticket[k] = <<holder[k], Len(tasks[holder[k]].attempts) + 1>>
  OBVIOUS
<1>8. ticket = [k \in ks |-> ticket[k]]
  OBVIOUS
<1> HIDE DEF ticket
<1>9. \A i \in taken : ticket[tasks[i].key] = <<i, Len(tasks[i].attempts) + 1>>
  BY <1>4, <1>7
<1>10. \A i \in taken : <<i, Len(tasks[i].attempts) + 1>> \in (1..MaxTasks) \X (1..MaxAttempts)
  <2> SUFFICES ASSUME NEW i \in taken PROVE i \in 1..MaxTasks /\ Len(tasks[i].attempts) + 1 \in 1..MaxAttempts
    OBVIOUS
  <2>1. i \in 1..MaxTasks
    BY BoundsAssumption DEF IInv, TypeOK
  <2>2. Len(tasks[i].attempts) < MaxAttempts
    BY DEF IInv, AttemptsInBounds
  <2> QED
    BY <1>2, <2>1, <2>2, BoundsAssumption
<1>11. ticket \in [ks -> (1..MaxTasks) \X (1..MaxAttempts)]
  <2>1. \A k \in ks : ticket[k] \in (1..MaxTasks) \X (1..MaxAttempts)
    BY <1>5, <1>7, <1>10
  <2> QED
    BY <1>8, <2>1
<1>12. \A k \in ks : SlotIn(tasks, k) = WaitingSlot /\ ticket[k] \notin SpentIn(tasks)
  <2> SUFFICES ASSUME NEW k \in ks PROVE SlotIn(tasks, k) = WaitingSlot /\ ticket[k] \notin SpentIn(tasks)
    OBVIOUS
  <2> DEFINE i == holder[k]
  <2>1. i \in taken /\ tasks[i].key = k /\ ticket[k] = <<i, Len(tasks[i].attempts) + 1>>
    BY <1>5, <1>7
  <2> HIDE DEF i
  <2>2. SlotIn(tasks, k) = WaitingSlot
    BY <2>1, SlotsOfTasks
  <2>3. Len(tasks[i].attempts) + 1 \notin DOMAIN tasks[i].attempts
    BY <1>2, <2>1
  <2> QED
    BY <2>1, <2>2, <2>3 DEF SpentIn
<1>13. \A j, k \in ks : ticket[j] = ticket[k] => j = k
  BY <1>5, <1>7
<1>14. \A k \in Keys : SlotIn(tasks', k) = IF k \in ks THEN ticket[k] ELSE SlotIn(tasks, k)
  <2> SUFFICES ASSUME NEW k \in Keys
               PROVE  SlotIn(tasks', k) = IF k \in ks THEN ticket[k] ELSE SlotIn(tasks, k)
    OBVIOUS
  <2>1. CASE k \in ks
    <3> DEFINE i == holder[k]
    <3>1. i \in taken /\ tasks[i].key = k /\ ticket[k] = <<i, Len(tasks[i].attempts) + 1>>
      BY <1>5, <1>7, <2>1
    <3> HIDE DEF i
    <3>2. IsLive(tasks'[i]) /\ tasks'[i].key = k /\ i \in DOMAIN tasks' /\ tasks'[i].state # "queued"
      BY <1>1, <3>1 DEF IsLive
    <3>3. \A j \in DOMAIN tasks' : IsLive(tasks'[j]) /\ tasks'[j].key = k => j = i
      BY <3>2 DEF IInv, OneLiveTaskPerRoom, IsLive
    <3>4. SlotIn(tasks', k) = Holds(tasks'[i], i)
      BY <3>2, <3>3, SlotOfLive
    <3> QED
      BY <1>2, <2>1, <3>1, <3>2, <3>4 DEF Holds
  <2>2. CASE k \notin ks
    <3>1. \A i \in DOMAIN tasks : tasks[i].key = k \/ tasks'[i].key = k => tasks'[i] = tasks[i]
      BY <1>1, <1>4, <2>2
    <3>2. SlotIn(tasks', k) = SlotIn(tasks, k)
      BY <1>1, <3>1, SlotStays
    <3> QED
      BY <2>2, <3>2
  <2> QED
    BY <2>1, <2>2
<1>15. SpentIn(tasks') = SpentIn(tasks) \cup {ticket[k] : k \in ks}
  <2>1. ASSUME NEW i \in DOMAIN tasks, NEW n \in DOMAIN tasks'[i].attempts
        PROVE  n \in DOMAIN tasks[i].attempts \/ (i \in taken /\ n = Len(tasks[i].attempts) + 1)
    BY <1>1, <1>2
  <2>2. ASSUME NEW i \in DOMAIN tasks, NEW n \in DOMAIN tasks'[i].attempts
        PROVE  <<i, n>> \in SpentIn(tasks) \/ \E k \in ks : <<i, n>> = ticket[k]
    BY <1>4, <1>9, <2>1 DEF SpentIn
  <2>3. ASSUME NEW x \in SpentIn(tasks') PROVE x \in SpentIn(tasks) \/ \E k \in ks : x = ticket[k]
    <3>1. PICK i \in DOMAIN tasks' : \E n \in DOMAIN tasks'[i].attempts : x = <<i, n>>
      BY DEF SpentIn
    <3>2. PICK n \in DOMAIN tasks'[i].attempts : x = <<i, n>>
      BY <3>1
    <3>3. i \in DOMAIN tasks
      BY <1>1
    <3>4. <<i, n>> \in SpentIn(tasks) \/ \E k \in ks : <<i, n>> = ticket[k]
      BY <2>2, <3>3
    <3> QED
      BY <3>2, <3>4
  <2>4. \A i \in DOMAIN tasks : DOMAIN tasks[i].attempts \subseteq DOMAIN tasks'[i].attempts
    BY <1>1, <1>2
  <2>5. SpentIn(tasks) \subseteq SpentIn(tasks')
    BY <1>1, <2>4 DEF SpentIn
  <2>6. \A i \in taken : i \in DOMAIN tasks' /\ Len(tasks[i].attempts) + 1 \in DOMAIN tasks'[i].attempts
    BY <1>1, <1>2
  <2>7. \A i \in taken : <<i, Len(tasks[i].attempts) + 1>> \in SpentIn(tasks')
    BY <2>6 DEF SpentIn
  <2>8. \A k \in ks : ticket[k] \in SpentIn(tasks')
    BY <1>5, <1>7, <2>7
  <2> QED
    BY <2>5, <2>8, <2>3
<1>16. PICK k, t : k = ks /\ t = ticket
  OBVIOUS
<1>17. AsSlots!HandOver(k, t)
  BY <1>6, <1>12, <1>13, <1>14, <1>15, <1>16, SlotMap DEF AsSlots!HandOver, SpentIn
<1>18. k \in SUBSET Keys /\ t \in [k -> (1..MaxTasks) \X (1..MaxAttempts)]
  BY <1>6, <1>11, <1>16
<1> QED
  BY <1>17, <1>18 DEF AsSlots!Next
\* Tasks that are over, and no others, leave their slots free.
LEMMA OverVacates ==
  ASSUME IInv, NEW over \in SUBSET DOMAIN tasks, DOMAIN tasks' = DOMAIN tasks,
         \A i \in over : IsLive(tasks[i]) /\ tasks'[i].key = tasks[i].key /\ ~IsLive(tasks'[i]),
         \A i \in DOMAIN tasks \ over :
           tasks'[i].key = tasks[i].key /\ (IsLive(tasks[i]) \/ IsLive(tasks'[i]) => tasks'[i] = tasks[i]),
         \A i \in DOMAIN tasks : DOMAIN tasks'[i].attempts = DOMAIN tasks[i].attempts
  PROVE  AsSlots!Next
<1>1. PICK ks : ks = {tasks[i].key : i \in over}
  OBVIOUS
<1>2. ks \in SUBSET Keys
  <2>1. \A i \in over : tasks[i].key \in Keys
    BY SlotsOfTasks
  <2> QED
    BY <1>1, <2>1
<1>3. \A k \in ks : SlotIn(tasks, k) # FreeSlot
  <2> SUFFICES ASSUME NEW i \in over PROVE SlotIn(tasks, tasks[i].key) # FreeSlot
    BY <1>1
  <2> QED
    BY SlotsOfTasks, NoTickets DEF IsLive
<1>4. ASSUME NEW k \in ks PROVE SlotIn(tasks', k) = FreeSlot
  <2>1. PICK i \in over : tasks[i].key = k
    BY <1>1
  <2>2. \A j \in DOMAIN tasks : IsLive(tasks[j]) /\ tasks[j].key = k => j = i
    BY <2>1 DEF IInv, OneLiveTaskPerRoom
  <2>3. \A j \in DOMAIN tasks' : ~(IsLive(tasks'[j]) /\ tasks'[j].key = k)
    BY <2>1, <2>2
  <2> QED
    BY <2>3, SlotOfNone
<1>5. ASSUME NEW k \in Keys \ ks PROVE SlotIn(tasks', k) = SlotIn(tasks, k)
  <2>1. \A i \in DOMAIN tasks : (IsLive(tasks[i]) /\ tasks[i].key = k) \/ (IsLive(tasks'[i]) /\ tasks'[i].key = k)
          => tasks'[i] = tasks[i]
    BY <1>1
  <2>2. \A i : (i \in DOMAIN tasks /\ IsLive(tasks[i]) /\ tasks[i].key = k)
                 <=> (i \in DOMAIN tasks' /\ IsLive(tasks'[i]) /\ tasks'[i].key = k)
    BY <2>1
  <2> QED
    BY <2>1, <2>2, SlotStays
<1>6. SpentIn(tasks') = SpentIn(tasks)
  BY SpentStays
<1>7. AsSlots!Vacate(ks)
  BY <1>2, <1>3, <1>4, <1>5, <1>6, SlotMap DEF AsSlots!Vacate, SpentIn
<1> QED
  BY <1>2, <1>7 DEF AsSlots!Next

LEMMA ReportVacates ==
  ASSUME IInv, NEW batch, NEW written, Report(batch, written), \A i \in written : batch[i] \in Results
  PROVE  AsSlots!Next
<1>1. tasks' = [i \in DOMAIN tasks |-> IF i \in written THEN Finished(tasks[i], batch[i]) ELSE tasks[i]]
  BY DEF Report
<1>2. /\ \A i \in DOMAIN tasks : tasks[i] \in Task
      /\ \A i \in written : i \in DOMAIN tasks /\ tasks[i].state = "in_progress" /\ tasks[i].attempts # <<>>
  BY DEF IInv, TypeOK, Report, Recordable, LastAttemptTellsState
<1>3. \A i \in written :
        /\ tasks'[i].key = tasks[i].key /\ tasks'[i].state \in Results
        /\ DOMAIN tasks'[i].attempts = DOMAIN tasks[i].attempts
  BY <1>1, <1>2, FinishedTask
<1>4. \A i \in written : IsLive(tasks[i]) /\ ~IsLive(tasks'[i])
  BY <1>2, <1>3, ResultsAssumption DEF IsLive, Unreported
<1>5. DOMAIN tasks' = DOMAIN tasks /\ \A i \in DOMAIN tasks \ written : tasks'[i] = tasks[i]
  BY <1>1
<1>6. written \in SUBSET DOMAIN tasks
  BY <1>2
<1> QED
  BY <1>3, <1>4, <1>5, <1>6, OverVacates

\* What dismissing or resending makes of one task.
LEMMA MovedTask ==
  ASSUME TypeOK, NEW i \in DOMAIN tasks, NEW state, tasks' = [tasks EXCEPT ![i].state = state]
  PROVE  /\ DOMAIN tasks' = DOMAIN tasks
         /\ tasks'[i].key = tasks[i].key /\ tasks'[i].state = state /\ tasks'[i].attempts = tasks[i].attempts
         /\ \A j \in DOMAIN tasks \ {i} : tasks'[j] = tasks[j]
<1>1. tasks[i] \in Task
  BY DEF TypeOK
<1>2. /\ DOMAIN tasks' = DOMAIN tasks
      /\ tasks'[i] = [tasks[i] EXCEPT !.state = state]
      /\ \A j \in DOMAIN tasks : j # i => tasks'[j] = tasks[j]
  BY DEF TypeOK
<1>3. /\ tasks'[i].key = tasks[i].key /\ tasks'[i].state = state /\ tasks'[i].attempts = tasks[i].attempts
  BY <1>1, <1>2 DEF Task
<1> QED
  BY <1>2, <1>3

LEMMA DismissVacates ==
  ASSUME IInv, NEW i \in DOMAIN tasks, Dismiss(i)
  PROVE  AsSlots!Next
<1>1. /\ DOMAIN tasks' = DOMAIN tasks
      /\ tasks'[i].key = tasks[i].key /\ ~IsLive(tasks'[i]) /\ tasks'[i].attempts = tasks[i].attempts
      /\ \A j \in DOMAIN tasks \ {i} : tasks'[j] = tasks[j]
  <2>1. /\ DOMAIN tasks' = DOMAIN tasks
        /\ tasks'[i].key = tasks[i].key /\ tasks'[i].state = "dismissed" /\ tasks'[i].attempts = tasks[i].attempts
        /\ \A j \in DOMAIN tasks \ {i} : tasks'[j] = tasks[j]
    BY MovedTask DEF Dismiss, IInv
  <2> QED
    BY <2>1 DEF IsLive
<1>2. CASE IsLive(tasks[i])
  <2>1. {i} \in SUBSET DOMAIN tasks
    OBVIOUS
  <2>2. /\ \A j \in {i} : IsLive(tasks[j]) /\ tasks'[j].key = tasks[j].key /\ ~IsLive(tasks'[j])
        /\ \A j \in DOMAIN tasks \ {i} :
             tasks'[j].key = tasks[j].key /\ (IsLive(tasks[j]) \/ IsLive(tasks'[j]) => tasks'[j] = tasks[j])
        /\ \A j \in DOMAIN tasks : DOMAIN tasks'[j].attempts = DOMAIN tasks[j].attempts
    BY <1>1, <1>2
  <2> QED
    BY <1>1, <2>1, <2>2, OverVacates
<1>3. CASE ~IsLive(tasks[i])
  <2>1. /\ \A j \in DOMAIN tasks :
             tasks'[j].key = tasks[j].key /\ (IsLive(tasks[j]) \/ IsLive(tasks'[j]) => tasks'[j] = tasks[j])
        /\ \A j \in DOMAIN tasks : DOMAIN tasks'[j].attempts = DOMAIN tasks[j].attempts
    BY <1>1, <1>3
  <2>2. /\ {} \in SUBSET DOMAIN tasks /\ DOMAIN tasks \ {} = DOMAIN tasks
        /\ \A j \in {} : IsLive(tasks[j]) /\ tasks'[j].key = tasks[j].key /\ ~IsLive(tasks'[j])
    OBVIOUS
  <2> QED
    BY <1>1, <2>1, <2>2, OverVacates
<1> QED
  BY <1>2, <1>3

\* Resending queues a task whose slot is free, or takes it back from a session.
LEMMA ResendQueues ==
  ASSUME IInv, IInv', NEW i \in DOMAIN tasks, Resend(i)
  PROVE  AsSlots!Next
<1>1. /\ DOMAIN tasks' = DOMAIN tasks
      /\ tasks'[i].key = tasks[i].key /\ tasks'[i].state = "queued" /\ tasks'[i].attempts = tasks[i].attempts
      /\ \A j \in DOMAIN tasks \ {i} : tasks'[j] = tasks[j]
  BY MovedTask DEF Resend, IInv
<1>2. PICK k : k = tasks[i].key
  OBVIOUS
<1>3. k \in Keys
  BY <1>2, SlotsOfTasks
<1>4. \A j \in DOMAIN tasks \ {i} : ~(IsLive(tasks[j]) /\ tasks[j].key = k)
  BY <1>2 DEF Resend, Clash
<1>5. SlotIn(tasks', k) = WaitingSlot
  <2>1. \A j \in DOMAIN tasks' : IsLive(tasks'[j]) /\ tasks'[j].key = k => j = i
    BY <1>1, <1>4
  <2>2. IsLive(tasks'[i]) /\ tasks'[i].key = k /\ i \in DOMAIN tasks'
    BY <1>1, <1>2 DEF IsLive
  <2> QED
    BY <1>1, <2>1, <2>2, SlotOfLive DEF Holds
<1>6. ASSUME NEW j \in Keys, j # k PROVE SlotIn(tasks', j) = SlotIn(tasks, j)
  <2>1. \A n \in DOMAIN tasks : tasks[n].key = j \/ tasks'[n].key = j => tasks'[n] = tasks[n]
    BY <1>1, <1>2, <1>6
  <2> QED
    BY <1>1, <2>1, SlotStays
<1>7. SpentIn(tasks') = SpentIn(tasks)
  BY <1>1, SpentStays
<1>8. CASE tasks[i].state = "in_progress"
  <2>1. SlotIn(tasks, k) \in (1..MaxTasks) \X (1..MaxAttempts)
    BY <1>2, <1>8, SlotsOfTasks
  <2>2. AsSlots!TakeBack(k)
    BY <1>3, <1>5, <1>6, <1>7, <2>1, SlotMap DEF AsSlots!TakeBack, SpentIn
  <2> QED
    BY <1>3, <2>2 DEF AsSlots!Next
<1>9. CASE tasks[i].state # "in_progress"
  <2>1. ~IsLive(tasks[i])
    BY <1>9 DEF Resend, IsLive
  <2>2. \A j \in DOMAIN tasks : ~(IsLive(tasks[j]) /\ tasks[j].key = k)
    BY <1>4, <2>1
  <2>3. SlotIn(tasks, k) = FreeSlot
    BY <2>2, SlotOfNone
  <2>4. AsSlots!Queue(k)
    BY <1>3, <1>5, <1>6, <1>7, <2>3, SlotMap DEF AsSlots!Queue, SpentIn
  <2> QED
    BY <1>3, <2>4 DEF AsSlots!Next
<1> QED
  BY <1>8, <1>9

LEMMA CreateQueues ==
  ASSUME IInv, IInv', NEW key \in Keys, Create(key)
  PROVE  AsSlots!Next
<1> DEFINE task == [key |-> key, state |-> "queued", attempts |-> <<>>]
           new == Len(tasks) + 1
<1>1. tasks' = Append(tasks, task)
  BY DEF Create
<1>2. task.key = key /\ task.state = "queued" /\ DOMAIN task.attempts = {} /\ IsLive(task)
  BY DEF IsLive
<1> HIDE DEF task
<1>3. /\ DOMAIN tasks' = DOMAIN tasks \cup {new} /\ new \notin DOMAIN tasks
      /\ \A i \in DOMAIN tasks : tasks'[i] = tasks[i]
      /\ tasks'[new] = task
  BY <1>1 DEF IInv, TypeOK
<1> HIDE DEF new
<1>4. \A j \in DOMAIN tasks : ~(IsLive(tasks[j]) /\ tasks[j].key = key)
  <2>1. 0 \notin DOMAIN tasks
    BY DEF IInv, TypeOK
  <2> QED
    BY <2>1 DEF Create, Clash
<1>5. SlotIn(tasks, key) = FreeSlot
  BY <1>4, SlotOfNone
<1>6. SlotIn(tasks', key) = WaitingSlot
  <2>1. \A j \in DOMAIN tasks' : IsLive(tasks'[j]) /\ tasks'[j].key = key => j = new
    BY <1>3, <1>4
  <2>2. IsLive(tasks'[new]) /\ tasks'[new].key = key /\ new \in DOMAIN tasks' /\ tasks'[new].state = "queued"
    BY <1>2, <1>3
  <2> QED
    BY <2>1, <2>2, SlotOfLive DEF Holds
<1>7. ASSUME NEW k \in Keys, k # key PROVE SlotIn(tasks', k) = SlotIn(tasks, k)
  <2>1. \A i : (i \in DOMAIN tasks /\ IsLive(tasks[i]) /\ tasks[i].key = k)
                 <=> (i \in DOMAIN tasks' /\ IsLive(tasks'[i]) /\ tasks'[i].key = k)
    BY <1>2, <1>3, <1>7
  <2> QED
    BY <1>3, <2>1, SlotStays
<1>8. SpentIn(tasks') = SpentIn(tasks)
  <2>1. \A x : x \in SpentIn(tasks') <=> x \in SpentIn(tasks)
    BY <1>2, <1>3 DEF SpentIn
  <2> QED
    BY <2>1
<1>9. AsSlots!Queue(key)
  BY <1>5, <1>6, <1>7, <1>8, SlotMap DEF AsSlots!Queue, SpentIn
<1> QED
  BY <1>9 DEF AsSlots!Next

LEMMA StepsKeepSlots == IInv /\ IInv' /\ [TasksNext]_taskVars => [AsSlots!Next]_SlotVars
<1> SUFFICES ASSUME IInv, IInv', [TasksNext]_taskVars PROVE [AsSlots!Next]_SlotVars
  OBVIOUS
<1>1. ASSUME NEW s, NEW model, NEW kinds, NEW ids, Claim(s, model, kinds, ids) PROVE [AsSlots!Next]_SlotVars
  <2>1. /\ Claimable(model, kinds, ids) \in SUBSET DOMAIN tasks /\ Open(Claimable(model, kinds, ids))
        /\ \A i \in Claimable(model, kinds, ids) : tasks[i].state = "queued"
    BY <1>1 DEF Claim, Claimable
  <2> QED
    BY <2>1, OpeningHandsOver
<1>2. ASSUME NEW s, NEW model, NEW kinds, NEW ids, NEW n, ClaimCutShort(s, model, kinds, ids, n)
      PROVE  [AsSlots!Next]_SlotVars
  <2> DEFINE taken == {i \in Claimable(model, kinds, ids) : i <= n}
  <2>1. taken \in SUBSET DOMAIN tasks /\ Open(taken) /\ \A i \in taken : tasks[i].state = "queued"
    BY <1>2 DEF ClaimCutShort, Claimable
  <2> HIDE DEF taken
  <2> QED
    BY <2>1, OpeningHandsOver
<1>3. ASSUME NEW ids, NEW batch \in [ids -> Results], NEW written \in SUBSET ids, Report(batch, written)
      PROVE  AsSlots!Next
  BY <1>3, ReportVacates
<1>4. CASE UNCHANGED taskVars
  <2>1. tasks' = tasks
    BY <1>4 DEF taskVars
  <2> QED
    BY <2>1 DEF SlotVars, SlotOf
<1> QED
  BY <1>1, <1>2, <1>3, <1>4, CreateQueues, DismissVacates, ResendQueues DEF TasksNext

\* The store implements the slots: a room's slot is handed over only while it waits, each go at a
\* task under a ticket never given before.
THEOREM StoreKeepsSlots == TasksSpec => KeepsSlots
<1>1. TasksInit => AsSlots!Init
  <2> SUFFICES ASSUME TasksInit PROVE AsSlots!Init
    OBVIOUS
  <2>1. DOMAIN tasks = {}
    BY DEF TasksInit
  <2>2. \A key : SlotIn(tasks, key) = FreeSlot
    BY <2>1, SlotOfNone
  <2>3. SpentIn(tasks) = {}
    BY <2>1 DEF SpentIn
  <2> QED
    BY <2>2, <2>3, SlotMap DEF AsSlots!Init, SpentIn
<1>2. AsSlots!Init /\ [][AsSlots!Next]_SlotVars => KeepsSlots
  BY DEF KeepsSlots, AsSlots!Spec, SlotVars
<1> QED
  BY <1>1, <1>2, StepsKeepSlots, Invariant, PTL DEF TasksSpec

----------------------------------------------------------------------------
(* Runs of the Tasks button: the inductive invariant *)

Early == {"choosing", "claiming"}

RunShapes ==
  /\ pc = [s \in Sessions |-> pc[s]] /\ turn = [s \in Sessions |-> turn[s]]
  /\ chosen = [s \in Sessions |-> chosen[s]] /\ held = [s \in Sessions |-> held[s]]
  /\ todo = [s \in Sessions |-> todo[s]] /\ outbox = [s \in Sessions |-> outbox[s]]
  /\ told = [s \in Sessions |-> told[s]] /\ wrote = [s \in Sessions |-> wrote[s]]

\* What a run holds is what it was handed, and it works on nothing else.
HoldsHanded(s) ==
  /\ pc[s] \in Idle \cup {"claiming", "checking", "writing", "posting", "sweeping"} /\ turn[s] \in 1..SweepTurn
  /\ chosen[s] \subseteq DOMAIN tasks /\ held[s] \subseteq HandedTo(s)
  /\ todo[s] \subseteq held[s] /\ told[s] \subseteq held[s] /\ wrote[s] \subseteq held[s]
  /\ DOMAIN outbox[s] \subseteq held[s] /\ outbox[s] \in [DOMAIN outbox[s] -> Results]
  /\ pc[s] \in Early => held[s] = {}
  /\ pc[s] \in Early \cup {"checking", "writing"} => turn[s] # SweepTurn
  /\ pc[s] = "sweeping" => turn[s] = SweepTurn

\* What a run wrote is reported, or it is the one task about to be.
WritesReported(s) ==
  /\ pc[s] \notin {"posting", "dead"} => wrote[s] \subseteq told[s]
  /\ pc[s] = "posting" => wrote[s] \subseteq told[s] \cup DOMAIN outbox[s]
  /\ \A i, j \in wrote[s] \ told[s] : i = j

\* The tasks of the group a run is at are reported, about to be, or still to write; at the end
\* of the run all it holds are.
GroupReported(s) ==
  /\ pc[s] = "writing" => Members(s) \ todo[s] \subseteq told[s]
  /\ pc[s] = "posting" /\ turn[s] # SweepTurn => Members(s) \ todo[s] \subseteq told[s] \cup DOMAIN outbox[s]
  /\ pc[s] = "posting" /\ turn[s] = SweepTurn => held[s] \subseteq told[s] \cup DOMAIN outbox[s]
  /\ pc[s] = "ended" => held[s] \subseteq told[s]

RunFits(s) == HoldsHanded(s) /\ WritesReported(s) /\ GroupReported(s)

\* What was handed to a run is held by it, and what the run reported is not open for it, unless
\* that very claim or report went missing.
Settled(h) ==
  /\ pc[h[3]] \notin Early
  /\ \/ h \in missed
     \/ h[1] \in held[h[3]] /\ (h[1] \in told[h[3]] => ~OpenAttempt(h[1], h[2]))

Counted ==
  /\ recorded \cup missed \subseteq (1..MaxTasks) \X (1..MaxAttempts) \X Sessions
  /\ lost \in 0..MaxLost /\ faults \in 0..MaxFaults

RInv ==
  /\ IInv /\ RunShapes /\ Counted
  /\ \A s \in Sessions : RunFits(s)
  /\ \A h \in handed : Settled(h)


\* Nothing changes in the run of t.
Untouched(t) ==
  /\ pc'[t] = pc[t] /\ turn'[t] = turn[t] /\ chosen'[t] = chosen[t] /\ held'[t] = held[t]
  /\ todo'[t] = todo[t] /\ outbox'[t] = outbox[t] /\ told'[t] = told[t] /\ wrote'[t] = wrote[t]

\* What runs may count on whatever happens to the store: tasks stay with their keys, the history
\* of claims stays, and an attempt that is over is never open again.
Grows ==
  /\ DOMAIN tasks \subseteq DOMAIN tasks' /\ handed \subseteq handed'
  /\ \A i \in DOMAIN tasks : tasks'[i].key = tasks[i].key
  /\ \A i \in DOMAIN tasks : \A n \in DOMAIN tasks[i].attempts : ~OpenAttempt(i, n) => ~OpenAttempt(i, n)'

\* The least of some numbers is one of them.
LEMMA LeastOf ==
  ASSUME NEW S \in SUBSET Nat, S # {}
  PROVE  Min(S) \in S
<1> DEFINE R == OpToRel(<, Nat)
<1>1. IsWellFoundedOn(R, Nat)
  BY NatLessThanWellFounded
<1>2. \A a, b \in Nat : a < b => <<a, b>> \in R
  BY DEF OpToRel
<1> HIDE DEF R
<1>3. PICK x \in S : \A y \in S : ~(<<y, x>> \in R)
  BY <1>1, WFMin
<1>4. \A y \in S : ~(y < x)
  BY <1>2, <1>3
<1>5. \A y \in S : x <= y
  BY <1>4
<1> QED
  BY <1>5 DEF Min

\* Opening queued tasks gives each an attempt of its own, and reopens none.
LEMMA OpeningReopensNone ==
  ASSUME TypeOK, NEW taken, \A i \in taken : tasks[i].state = "queued", Open(taken),
         NEW i \in DOMAIN tasks, NEW n \in DOMAIN tasks[i].attempts, ~OpenAttempt(i, n)
  PROVE  ~OpenAttempt(i, n)'
<1>1. tasks[i] \in Task /\ tasks[i].attempts \in Seq(Results \cup {NoStatus})
  BY TaskFields DEF TypeOK
<1>2. n \in 1..Len(tasks[i].attempts)
  BY <1>1
<1>3. CASE i \in taken
  <2>1. tasks'[i].attempts = Append(tasks[i].attempts, NoStatus)
    BY <1>1, <1>3, OpenedTask DEF Open
  <2>2. Len(tasks'[i].attempts) = Len(tasks[i].attempts) + 1
    BY <1>1, <2>1
  <2> QED
    BY <1>1, <1>2, <2>2 DEF OpenAttempt
<1>4. CASE i \notin taken
  <2>1. tasks'[i] = tasks[i]
    BY <1>4 DEF Open
  <2> QED
    BY <2>1 DEF OpenAttempt
<1> QED
  BY <1>3, <1>4

\* No call reopens an attempt, loses a task or forgets a claim.
LEMMA NextGrows == IInv /\ [TasksNext]_taskVars => Grows
<1> SUFFICES ASSUME IInv, [TasksNext]_taskVars PROVE Grows
  OBVIOUS
<1>1. TypeOK
  BY DEF IInv
<1>2. DOMAIN tasks \subseteq DOMAIN tasks' /\ \A i \in DOMAIN tasks : tasks'[i].key = tasks[i].key
  BY NextKeeps DEF Keeps, taskVars
<1>3. handed \subseteq handed'
  BY DEF TasksNext, Create, Claim, ClaimCutShort, Report, Dismiss, Resend, taskVars
<1> SUFFICES ASSUME NEW i \in DOMAIN tasks, NEW n \in DOMAIN tasks[i].attempts, ~OpenAttempt(i, n)
             PROVE  ~OpenAttempt(i, n)'
  BY <1>2, <1>3 DEF Grows
<1>4. ASSUME tasks'[i] = tasks[i] PROVE ~OpenAttempt(i, n)'
  BY <1>4 DEF OpenAttempt
<1>5. ASSUME tasks'[i].state # "in_progress" PROVE ~OpenAttempt(i, n)'
  BY <1>5 DEF OpenAttempt
<1>6. ASSUME NEW key \in Keys, Create(key) PROVE ~OpenAttempt(i, n)'
  <2> DEFINE task == [key |-> key, state |-> "queued", attempts |-> <<>>]
  <2>1. tasks' = Append(tasks, task)
    BY <1>6 DEF Create
  <2> HIDE DEF task
  <2>2. tasks'[i] = tasks[i]
    BY <1>1, <2>1 DEF TypeOK
  <2> QED
    BY <1>4, <2>2
<1>7. ASSUME NEW s, NEW model, NEW kinds, NEW ids, Claim(s, model, kinds, ids) PROVE ~OpenAttempt(i, n)'
  <2>1. \A j \in Claimable(model, kinds, ids) : tasks[j].state = "queued"
    BY DEF Claimable
  <2> QED
    BY <1>1, <1>7, <2>1, OpeningReopensNone DEF Claim
<1>8. ASSUME NEW s, NEW model, NEW kinds, NEW ids, NEW m, ClaimCutShort(s, model, kinds, ids, m)
      PROVE  ~OpenAttempt(i, n)'
  <2> DEFINE taken == {j \in Claimable(model, kinds, ids) : j <= m}
  <2>1. Open(taken)
    BY <1>8 DEF ClaimCutShort
  <2>2. \A j \in taken : tasks[j].state = "queued"
    BY DEF Claimable
  <2> HIDE DEF taken
  <2> QED
    BY <1>1, <2>1, <2>2, OpeningReopensNone
<1>9. ASSUME NEW ids, NEW batch \in [ids -> Results], NEW written \in SUBSET ids, Report(batch, written)
      PROVE  ~OpenAttempt(i, n)'
  <2>1. tasks'[i] = IF i \in written THEN Finished(tasks[i], batch[i]) ELSE tasks[i]
    BY <1>9 DEF Report
  <2>2. CASE i \in written
    <3>1. tasks[i] \in Task /\ tasks[i].state = "in_progress" /\ batch[i] \in Results
      BY <1>1, <1>9, <2>2 DEF TypeOK, Report, Recordable
    <3>2. tasks[i].attempts # <<>>
      BY <3>1 DEF IInv, LastAttemptTellsState
    <3>3. tasks'[i].state = batch[i]
      BY <2>1, <2>2, <3>1, <3>2, FinishedTask
    <3> QED
      BY <1>5, <3>1, <3>3, ResultsAssumption DEF Unreported
  <2>3. CASE i \notin written
    BY <1>4, <2>1, <2>3
  <2> QED
    BY <2>2, <2>3
<1>10. ASSUME NEW j \in DOMAIN tasks, NEW state \in {"queued", "dismissed"},
              tasks' = [tasks EXCEPT ![j].state = state]
       PROVE  ~OpenAttempt(i, n)'
  <2>1. tasks[j] \in Task
    BY <1>1 DEF TypeOK
  <2>2. j = i => tasks'[i].state = state
    BY <1>10, <2>1 DEF Task
  <2>3. j # i => tasks'[i] = tasks[i]
    BY <1>10
  <2> QED
    BY <1>4, <1>5, <2>2, <2>3
<1>11. ASSUME NEW j \in DOMAIN tasks, Dismiss(j) \/ Resend(j) PROVE ~OpenAttempt(i, n)'
  BY <1>10, <1>11 DEF Dismiss, Resend
<1>12. CASE UNCHANGED taskVars
  BY <1>4, <1>12 DEF taskVars
<1> QED
  BY <1>6, <1>7, <1>8, <1>9, <1>11, <1>12 DEF TasksNext

----------------------------------------------------------------------------

\* Where nothing changes in a run, what it holds and what it reported stay right.
LEMMA UntouchedFits ==
  ASSUME NEW t \in Sessions, RunFits(t), Grows, Untouched(t)
  PROVE  RunFits(t)'
<1>1. HandedTo(t) \subseteq HandedTo(t)' /\ HandedTo(t) \subseteq DOMAIN tasks
  BY DEF HandedTo, Grows
<1>2. \A i \in held[t] : tasks'[i].key = tasks[i].key
  BY <1>1 DEF RunFits, HoldsHanded, Grows
<1>3. Members(t)' = Members(t)
  BY <1>2 DEF Members, Untouched
<1>4. HoldsHanded(t)'
  BY <1>1 DEF RunFits, HoldsHanded, Grows, Untouched
<1>5. WritesReported(t)'
  BY DEF RunFits, WritesReported, Untouched
<1>6. GroupReported(t)'
  BY <1>3 DEF RunFits, GroupReported, Untouched
<1> QED
  BY <1>4, <1>5, <1>6 DEF RunFits

\* A step of the runs in S and of the store keeps the invariant when those runs still fit.
LEMMA RunsMove ==
  ASSUME RInv, [TasksNext]_taskVars, NEW S \in SUBSET Sessions, RunShapes', Counted',
         missed \subseteq missed',
         \A t \in Sessions \ S : Untouched(t),
         \A s \in S : RunFits(s)',
         \A h \in handed' : h[3] \in S => Settled(h)',
         \A h \in handed' : h[3] \notin S => h \in handed
  PROVE  RInv'
<1>1. IInv' /\ Grows
  BY NextInv, NextGrows DEF RInv
<1>2. \A s \in Sessions : RunFits(s)'
  BY <1>1, UntouchedFits DEF RInv
<1>3. ASSUME NEW h \in handed' PROVE Settled(h)'
  <2>1. CASE h[3] \in S
    BY <2>1
  <2>2. CASE h[3] \notin S
    <3>1. h \in handed /\ h[3] \in Sessions /\ Settled(h)
      BY <2>2 DEF RInv, IInv, TypeOK
    <3>2. Untouched(h[3])
      BY <2>2, <3>1
    <3>3. h[1] \in DOMAIN tasks /\ h[2] \in DOMAIN tasks[h[1]].attempts
      BY <3>1 DEF RInv, IInv, HandedAreHeld
    <3>4. ~OpenAttempt(h[1], h[2]) => ~OpenAttempt(h[1], h[2])'
      BY <1>1, <3>3 DEF Grows
    <3> QED
      BY <3>1, <3>2, <3>4 DEF Settled, Untouched
  <2> QED
    BY <2>1, <2>2
<1> QED
  BY <1>1, <1>2, <1>3 DEF RInv

\* The same of a step of one run.
LEMMA OneRunMoves ==
  ASSUME RInv, [TasksNext]_taskVars, NEW s \in Sessions, RunShapes', Counted',
         missed \subseteq missed',
         \A t \in Sessions \ {s} : Untouched(t), RunFits(s)',
         \A h \in handed' : h[3] = s => Settled(h)',
         \A h \in handed' \ handed : h[3] = s
  PROVE  RInv'
<1>1. \A h \in handed' : h[3] \in {s} => Settled(h)'
  OBVIOUS
<1>2. \A h \in handed' : h[3] \notin {s} => h \in handed
  OBVIOUS
<1> QED
  BY <1>1, <1>2, RunsMove

\* A step of one run that leaves the store and what is held and reported alone.
LEMMA QuietStep ==
  ASSUME RInv, NEW s \in Sessions, UNCHANGED <<tasks, handed, recorded, missed, lost, faults>>,
         RunShapes', \A t \in Sessions \ {s} : Untouched(t),
         held'[s] = held[s], told'[s] = told[s], pc[s] \in Early \/ pc'[s] \notin Early,
         RunFits(s)'
  PROVE  RInv'
<1>1. [TasksNext]_taskVars
  BY DEF taskVars
<1>2. Counted'
  BY DEF RInv, Counted
<1>3. ASSUME NEW h \in handed', h[3] = s PROVE Settled(h)'
  <2>1. Settled(h)
    BY <1>3 DEF RInv
  <2>2. OpenAttempt(h[1], h[2])' = OpenAttempt(h[1], h[2])
    BY DEF OpenAttempt
  <2> QED
    BY <1>3, <2>1, <2>2 DEF Settled
<1>4. \A h \in handed' : h[3] \in {s} => Settled(h)'
  BY <1>3
<1> QED
  BY <1>1, <1>2, <1>4, RunsMove

----------------------------------------------------------------------------
(* The steps of a run that leave the store alone *)

\* Where in Order a run may be.
LEMMA Turns == Len(Order) = 2 /\ SweepTurn = 3 /\ 1..SweepTurn = {1, 2, 3}
BY DEF Order, SweepTurn

\* Choosing: the tasks ticked are in the store.
LEMMA ChooseKeeps ==
  ASSUME RInv, NEW s \in Sessions, Choose(s)
  PROVE  RInv'
<1>1. RunShapes /\ RunFits(s)
  BY DEF RInv
<1>2. PICK ids \in SUBSET Claimable(ModelOf[s], TaskKinds, {}) : chosen' = [chosen EXCEPT ![s] = ids]
  BY DEF Choose
<1>3. pc[s] = "choosing" /\ pc' = [pc EXCEPT ![s] = "claiming"]
  BY DEF Choose, Goto
<1>4. UNCHANGED <<tasks, handed, held, turn, todo, outbox, told, wrote, recorded, missed, lost, faults>>
  BY DEF Choose
<1>5. pc'[s] = "claiming" /\ chosen'[s] = ids
  BY <1>1, <1>2, <1>3 DEF RunShapes
<1>6. RunShapes' /\ \A t \in Sessions \ {s} : Untouched(t)
  BY <1>1, <1>2, <1>3, <1>4 DEF RunShapes, Untouched
<1>7. ids \subseteq DOMAIN tasks /\ HandedTo(s)' = HandedTo(s)
  BY <1>4 DEF Claimable, HandedTo
<1>8. HoldsHanded(s)'
  BY <1>1, <1>3, <1>4, <1>5, <1>7 DEF RunFits, HoldsHanded, Early
<1>9. WritesReported(s)' /\ GroupReported(s)'
  BY <1>1, <1>3, <1>4, <1>5 DEF RunFits, WritesReported, GroupReported
<1> QED
  BY <1>3, <1>4, <1>6, <1>8, <1>9, QuietStep DEF RunFits, Early

\* The end of a group, where whatever was written is reported.
LEMMA EndGroupKeeps ==
  ASSUME RInv, NEW s \in Sessions, pc[s] \in {"checking", "writing"}, EndGroup(s)
  PROVE  RInv'
<1>1. RunShapes /\ RunFits(s)
  BY DEF RInv
<1>2. turn' = [turn EXCEPT ![s] = turn[s] + 1] /\ todo' = [todo EXCEPT ![s] = {}]
  BY DEF EndGroup
<1>3. pc' = [pc EXCEPT ![s] = IF turn[s] = Len(Order) THEN "sweeping" ELSE "checking"]
  BY DEF EndGroup, Goto
<1>4. UNCHANGED <<tasks, handed, chosen, held, outbox, told, wrote, recorded, missed, lost, faults>>
  BY DEF EndGroup
<1>5. /\ pc'[s] = IF turn[s] = Len(Order) THEN "sweeping" ELSE "checking"
      /\ turn'[s] = turn[s] + 1 /\ todo'[s] = {}
  BY <1>1, <1>2, <1>3 DEF RunShapes
<1>6. RunShapes' /\ \A t \in Sessions \ {s} : Untouched(t)
  BY <1>1, <1>2, <1>3, <1>4 DEF RunShapes, Untouched
<1>7. turn[s] \in {1, 2}
  BY <1>1, Turns DEF RunFits, HoldsHanded
<1>8. pc'[s] \in {"sweeping", "checking"} /\ turn'[s] \in 1..SweepTurn /\ (pc'[s] = "sweeping" <=> turn'[s] = SweepTurn)
  BY <1>5, <1>7, Turns
<1>9. HandedTo(s)' = HandedTo(s)
  BY <1>4 DEF HandedTo
<1>10. HoldsHanded(s)'
  BY <1>1, <1>4, <1>5, <1>8, <1>9 DEF RunFits, HoldsHanded, Early
<1>11. WritesReported(s)' /\ GroupReported(s)'
  BY <1>1, <1>4, <1>8 DEF RunFits, WritesReported, GroupReported
<1>12. pc'[s] \notin Early
  BY <1>8 DEF Early
<1> QED
  BY <1>4, <1>6, <1>10, <1>11, <1>12, QuietStep DEF RunFits

\* Checking: what the checks stop is about to be reported, the rest of the group is to be written.
LEMMA CheckKeeps ==
  ASSUME RInv, NEW s \in Sessions, Check(s)
  PROVE  RInv'
<1>1. RunShapes /\ RunFits(s)
  BY DEF RInv
<1>2. PICK stopped \in SUBSET Members(s), why \in {"aborted", "failed"} :
        /\ todo' = [todo EXCEPT ![s] = Members(s) \ stopped]
        /\ outbox' = [outbox EXCEPT ![s] = [i \in stopped |-> why]]
  BY DEF Check
<1>3. pc[s] = "checking" /\ pc' = [pc EXCEPT ![s] = "posting"]
  BY DEF Check, Goto
<1>4. UNCHANGED <<tasks, handed, chosen, held, turn, told, wrote, recorded, missed, lost, faults>>
  BY DEF Check
<1>5. pc'[s] = "posting" /\ todo'[s] = Members(s) \ stopped /\ outbox'[s] = [i \in stopped |-> why]
  BY <1>1, <1>2, <1>3 DEF RunShapes
<1>6. RunShapes' /\ \A t \in Sessions \ {s} : Untouched(t)
  BY <1>1, <1>2, <1>3, <1>4 DEF RunShapes, Untouched
<1>7. HandedTo(s)' = HandedTo(s) /\ Members(s)' = Members(s) /\ Members(s) \subseteq held[s]
  BY <1>4 DEF HandedTo, Members
<1>8. why \in Results
  BY ReportsAssumption
<1>9. DOMAIN outbox'[s] = stopped /\ outbox'[s] \in [stopped -> Results]
  BY <1>5, <1>8
<1>10. HoldsHanded(s)'
  BY <1>1, <1>3, <1>4, <1>5, <1>7, <1>9 DEF RunFits, HoldsHanded, Early
<1>11. WritesReported(s)'
  BY <1>1, <1>3, <1>4, <1>5 DEF RunFits, WritesReported
<1>12. turn'[s] # SweepTurn /\ Members(s) \ todo'[s] \subseteq DOMAIN outbox'[s]
  BY <1>1, <1>3, <1>4, <1>5, <1>9 DEF RunFits, HoldsHanded
<1>13. GroupReported(s)'
  BY <1>5, <1>7, <1>12 DEF GroupReported
<1>14. pc'[s] \notin Early
  BY <1>5 DEF Early
<1> QED
  BY <1>4, <1>6, <1>10, <1>11, <1>13, <1>14, QuietStep DEF RunFits

\* Writing: everything written before is reported, so only the task at hand is not.
LEMMA WriteKeeps ==
  ASSUME RInv, NEW s \in Sessions, Write(s)
  PROVE  RInv'
<1> DEFINE i == Min(todo[s])
<1>1. RunShapes /\ RunFits(s) /\ DOMAIN tasks \subseteq Nat
  BY DEF RInv, IInv, TypeOK
<1>2. i \in todo[s]
  <2>1. todo[s] \in SUBSET Nat
    BY <1>1 DEF RunFits, HoldsHanded, HandedTo
  <2> QED
    BY <2>1, LeastOf DEF Write
<1>3. PICK result \in Results \ {"aborted"} :
        /\ outbox' = [outbox EXCEPT ![s] = [j \in {i} |-> result]]
        /\ wrote' = [wrote EXCEPT ![s] = IF result = "failed" THEN @ ELSE @ \cup {i}]
  BY DEF Write
<1>4. pc[s] = "writing" /\ pc' = [pc EXCEPT ![s] = "posting"] /\ todo' = [todo EXCEPT ![s] = @ \ {i}]
  BY DEF Write, Goto
<1>5. UNCHANGED <<tasks, handed, chosen, held, turn, told, recorded, missed, lost, faults>>
  BY DEF Write
<1> HIDE DEF i
<1>6. /\ pc'[s] = "posting" /\ todo'[s] = todo[s] \ {i}
      /\ outbox'[s] = [j \in {i} |-> result]
      /\ wrote[s] \subseteq wrote'[s] /\ wrote'[s] \subseteq wrote[s] \cup {i}
  BY <1>1, <1>3, <1>4 DEF RunShapes
<1>7. RunShapes' /\ \A t \in Sessions \ {s} : Untouched(t)
  BY <1>1, <1>3, <1>4, <1>5 DEF RunShapes, Untouched
<1>8. HandedTo(s)' = HandedTo(s) /\ Members(s)' = Members(s)
  BY <1>5 DEF HandedTo, Members
<1>9. DOMAIN outbox'[s] = {i} /\ outbox'[s] \in [{i} -> Results]
  BY <1>6
<1>10. HoldsHanded(s)'
  BY <1>1, <1>2, <1>4, <1>5, <1>6, <1>8, <1>9 DEF RunFits, HoldsHanded, Early
<1>11. wrote[s] \subseteq told[s]
  BY <1>1, <1>4 DEF RunFits, WritesReported
<1>12. WritesReported(s)'
  BY <1>5, <1>6, <1>9, <1>11 DEF WritesReported
<1>13. Members(s) \ todo[s] \subseteq told[s] /\ turn'[s] # SweepTurn
  BY <1>1, <1>4, <1>5 DEF RunFits, HoldsHanded, GroupReported
<1>14. GroupReported(s)'
  BY <1>5, <1>6, <1>8, <1>9, <1>13 DEF GroupReported
<1>15. pc'[s] \notin Early
  BY <1>6 DEF Early
<1> QED
  BY <1>5, <1>7, <1>10, <1>12, <1>14, <1>15, QuietStep DEF RunFits

\* The sweep: the reports about to be posted are of all that is not reported.
LEMMA SweepKeeps ==
  ASSUME RInv, NEW s \in Sessions, Sweep(s)
  PROVE  RInv'
<1>1. RunShapes /\ RunFits(s)
  BY DEF RInv
<1>2. outbox' = [outbox EXCEPT ![s] = [i \in Stranded(s) |-> "failed"]]
  BY DEF Sweep
<1>3. pc[s] = "sweeping" /\ pc' = [pc EXCEPT ![s] = "posting"]
  BY DEF Sweep, Goto
<1>4. UNCHANGED <<tasks, handed, chosen, held, turn, todo, told, wrote, recorded, missed, lost, faults>>
  BY DEF Sweep
<1>5. pc'[s] = "posting" /\ outbox'[s] = [i \in held[s] \ told[s] |-> "failed"]
  BY <1>1, <1>2, <1>3 DEF RunShapes, Stranded
<1>6. RunShapes' /\ \A t \in Sessions \ {s} : Untouched(t)
  BY <1>1, <1>2, <1>3, <1>4 DEF RunShapes, Untouched
<1>7. DOMAIN outbox'[s] = held[s] \ told[s] /\ outbox'[s] \in [held[s] \ told[s] -> Results]
  BY <1>5, ReportsAssumption
<1>8. HandedTo(s)' = HandedTo(s)
  BY <1>4 DEF HandedTo
<1>9. HoldsHanded(s)'
  BY <1>1, <1>3, <1>4, <1>5, <1>7, <1>8 DEF RunFits, HoldsHanded, Early
<1>10. WritesReported(s)'
  BY <1>1, <1>3, <1>4, <1>5 DEF RunFits, WritesReported
<1>11. GroupReported(s)'
  BY <1>1, <1>3, <1>4, <1>5, <1>7 DEF RunFits, HoldsHanded, GroupReported
<1>12. pc'[s] \notin Early
  BY <1>5 DEF Early
<1> QED
  BY <1>4, <1>6, <1>9, <1>10, <1>11, <1>12, QuietStep DEF RunFits

\* The death of Revit: at most the task at hand was not reported.
LEMMA DieKeeps ==
  ASSUME RInv, NEW s \in Sessions, Die(s)
  PROVE  RInv'
<1>1. RunShapes /\ RunFits(s)
  BY DEF RInv
<1>2. pc' = [pc EXCEPT ![s] = "dead"]
  BY DEF Die, Goto
<1>3. UNCHANGED <<tasks, handed, chosen, held, turn, todo, outbox, told, wrote, recorded, missed, lost, faults>>
  BY DEF Die
<1>4. pc'[s] = "dead"
  BY <1>1, <1>2 DEF RunShapes
<1>5. RunShapes' /\ \A t \in Sessions \ {s} : Untouched(t)
  BY <1>1, <1>2, <1>3 DEF RunShapes, Untouched
<1>6. HandedTo(s)' = HandedTo(s)
  BY <1>3 DEF HandedTo
<1>7. HoldsHanded(s)' /\ WritesReported(s)' /\ GroupReported(s)'
  BY <1>1, <1>3, <1>4, <1>6 DEF RunFits, HoldsHanded, WritesReported, GroupReported, Early, Idle
<1>8. pc'[s] \notin Early
  BY <1>4 DEF Early
<1> QED
  BY <1>3, <1>5, <1>7, <1>8, QuietStep DEF RunFits

----------------------------------------------------------------------------
(* The steps of a run that reach the store *)

\* A claim that opens tasks is one the store's specification allows.
LEMMA ClaimIsNext ==
  ASSUME RInv, NEW s \in Sessions, NEW n,
         \/ Claim(s, ModelOf[s], TaskKinds, chosen[s])
         \/ n \in DOMAIN tasks /\ ClaimCutShort(s, ModelOf[s], TaskKinds, chosen[s], n)
  PROVE  TasksNext
<1>1. \A i \in DOMAIN tasks : tasks[i] \in Task /\ tasks[i].key \in Keys /\ tasks[i].key.model \in TaskModels
  BY TaskFields DEF RInv, IInv, TypeOK, Keys
<1>2. Claimable(ModelOf[s], TaskKinds, chosen[s]) # {}
  BY DEF Claim, ClaimCutShort
<1>3. ModelOf[s] \in TaskModels
  BY <1>1, <1>2 DEF Claimable
<1>4. chosen[s] \in SUBSET DOMAIN tasks /\ TaskKinds \in SUBSET TaskKinds
  BY DEF RInv, RunFits, HoldsHanded
<1> QED
  BY <1>3, <1>4 DEF TasksNext

\* Before its claim a run has been handed nothing.
LEMMA EarlyIsUnhanded ==
  ASSUME RInv, NEW s, pc[s] \in Early
  PROVE  \A h \in handed : h[3] # s
BY DEF RInv, Settled

\* The claim answers: what the run holds is what was opened for it.
LEMMA ClaimAnsweredKeeps ==
  ASSUME RInv, NEW s \in Sessions, ClaimAnswered(s)
  PROVE  RInv'
<1> DEFINE taken == Claimable(ModelOf[s], TaskKinds, chosen[s])
<1>1. RunShapes /\ RunFits(s)
  BY DEF RInv
<1>2. held' = [held EXCEPT ![s] = taken] /\ chosen' = [chosen EXCEPT ![s] = {}]
  BY DEF ClaimAnswered
<1>3. UNCHANGED <<turn, todo, outbox, told, wrote, recorded, missed, lost, faults>>
  BY DEF ClaimAnswered
<1>4. pc[s] = "claiming" /\ pc[s] \in Early
  BY DEF ClaimAnswered, Early
<1>5. PICK label \in {"checking", "ended"} : pc' = [pc EXCEPT ![s] = label]
  BY DEF ClaimAnswered, Goto
<1>6. \/ Claim(s, ModelOf[s], TaskKinds, chosen[s])
      \/ taken = {} /\ UNCHANGED <<tasks, handed>>
  BY DEF ClaimAnswered
<1>7. [TasksNext]_taskVars
  BY <1>6, ClaimIsNext DEF taskVars
<1>8. \/ /\ Open(taken)
         /\ handed' = handed \cup {<<i, Len(tasks[i].attempts) + 1, s>> : i \in taken}
      \/ taken = {} /\ UNCHANGED <<tasks, handed>>
  BY <1>6 DEF Claim
<1>9. taken \subseteq DOMAIN tasks /\ \A i \in taken : Len(tasks[i].attempts) + 1 \in 1..MaxAttempts
  <2>1. \A i \in DOMAIN tasks : tasks[i].attempts \in Seq(Results \cup {NoStatus})
    BY TaskFields DEF RInv, IInv, TypeOK
  <2>2. \A i \in taken : i \in DOMAIN tasks /\ tasks[i].state = "queued"
    BY DEF Claimable
  <2>3. \A i \in taken : Len(tasks[i].attempts) < MaxAttempts
    BY <2>2 DEF RInv, IInv, AttemptsInBounds
  <2> QED
    BY <2>1, <2>2, <2>3, BoundsAssumption
<1> HIDE DEF taken
<1>10. pc'[s] = label /\ held'[s] = taken /\ chosen'[s] = {}
  BY <1>1, <1>2, <1>5 DEF RunShapes
<1>11. RunShapes' /\ \A t \in Sessions \ {s} : Untouched(t)
  BY <1>1, <1>2, <1>3, <1>5 DEF RunShapes, Untouched
<1>12. DOMAIN tasks' = DOMAIN tasks
  BY <1>8 DEF Open
<1>13. taken \subseteq HandedTo(s)'
  <2> SUFFICES ASSUME NEW i \in taken PROVE i \in HandedTo(s)'
    OBVIOUS
  <2>1. <<i, Len(tasks[i].attempts) + 1, s>> \in handed'
    BY <1>8
  <2>2. i \in DOMAIN tasks'
    BY <1>9, <1>12
  <2> QED
    BY <1>9, <2>1, <2>2 DEF HandedTo
<1>14. held[s] = {} /\ told[s] = {} /\ todo[s] = {} /\ wrote[s] = {} /\ DOMAIN outbox[s] = {}
  BY <1>1, <1>4 DEF RunFits, HoldsHanded
<1>15. HoldsHanded(s)'
  BY <1>1, <1>3, <1>4, <1>10, <1>13, <1>14 DEF RunFits, HoldsHanded, Early, Idle
<1>16. WritesReported(s)'
  BY <1>3, <1>10, <1>14 DEF WritesReported
<1>17. GroupReported(s)'
  <2>1. label = "ended" => taken = {}
    <3>1. CASE taken = {}
      BY <3>1
    <3>2. CASE taken # {}
      <4>1. pc' = [pc EXCEPT ![s] = "checking"]
        BY <3>2 DEF ClaimAnswered, Goto, taken
      <4>2. pc'[s] = "checking"
        BY <1>1, <4>1 DEF RunShapes
      <4> QED
        BY <1>10, <4>2
    <3> QED
      BY <3>1, <3>2
  <2> QED
    BY <1>10, <2>1 DEF GroupReported
<1>18. \A h \in handed' \ handed : h[1] \in taken /\ h[3] = s
  BY <1>8
<1>19. ASSUME NEW h \in handed', h[3] = s PROVE Settled(h)'
  <2>1. h[1] \in taken /\ h[3] = s
    BY <1>4, <1>18, <1>19, EarlyIsUnhanded
  <2>2. pc'[s] \notin Early
    BY <1>10 DEF Early
  <2>3. h[1] \in held'[s] /\ h[1] \notin told'[s]
    BY <1>3, <1>10, <1>14, <2>1
  <2> QED
    BY <2>1, <2>2, <2>3 DEF Settled
<1>20. Counted'
  BY <1>3 DEF RInv, Counted
<1>21. RunFits(s)' /\ \A h \in handed' \ handed : h[3] = s
  BY <1>15, <1>16, <1>17, <1>18 DEF RunFits
<1> QED
  BY <1>3, <1>7, <1>11, <1>19, <1>20, <1>21, OneRunMoves

\* The claim fails for the run: it holds nothing, and what was opened for it went missing.
LEMMA ClaimUnansweredKeeps ==
  ASSUME RInv, NEW s \in Sessions, ClaimUnanswered(s)
  PROVE  RInv'
<1>1. RunShapes /\ RunFits(s) /\ Counted
  BY DEF RInv
<1>2. pc[s] = "claiming" /\ pc' = [pc EXCEPT ![s] = "ended"] /\ chosen' = [chosen EXCEPT ![s] = {}]
  BY DEF ClaimUnanswered, Goto
<1>3. UNCHANGED <<held, turn, todo, outbox, told, wrote, recorded>>
  BY DEF ClaimUnanswered
<1>4. pc'[s] = "ended" /\ chosen'[s] = {} /\ pc[s] \in Early
  BY <1>1, <1>2 DEF RunShapes, Early
<1>5. RunShapes' /\ \A t \in Sessions \ {s} : Untouched(t)
  BY <1>1, <1>2, <1>3 DEF RunShapes, Untouched
<1>6. TasksNext
  BY ClaimIsNext DEF ClaimUnanswered
<1>7. missed' = missed \cup (handed' \ handed) /\ Counted'
  <2>1. missed' = missed \cup (handed' \ handed)
    BY DEF ClaimUnanswered
  <2>2. handed' \subseteq (1..MaxTasks) \X (1..MaxAttempts) \X Sessions
    BY <1>6, NextInv DEF RInv, IInv, TypeOK
  <2>3. lost' \in 0..MaxLost /\ faults' \in 0..MaxFaults
    BY <1>1, RunBounds DEF ClaimUnanswered, LoseOne, FaultOne, Counted
  <2> QED
    BY <1>1, <1>3, <2>1, <2>2, <2>3 DEF Counted
<1>8. \A h \in handed' \ handed : h[3] = s
  <2>1. ASSUME NEW taken, handed' = handed \cup {<<i, Len(tasks[i].attempts) + 1, s>> : i \in taken}
        PROVE  \A h \in handed' \ handed : h[3] = s
    BY <2>1
  <2>2. CASE Claim(s, ModelOf[s], TaskKinds, chosen[s])
    BY <2>1, <2>2 DEF Claim
  <2>3. CASE \E n \in DOMAIN tasks : ClaimCutShort(s, ModelOf[s], TaskKinds, chosen[s], n)
    BY <2>1, <2>3 DEF ClaimCutShort
  <2> QED
    BY <2>2, <2>3 DEF ClaimUnanswered
<1>9. held[s] = {} /\ told[s] = {} /\ todo[s] = {} /\ wrote[s] = {} /\ DOMAIN outbox[s] = {}
  BY <1>1, <1>4 DEF RunFits, HoldsHanded
<1>10. HoldsHanded(s)' /\ WritesReported(s)' /\ GroupReported(s)'
  BY <1>1, <1>3, <1>4, <1>9 DEF RunFits, HoldsHanded, WritesReported, GroupReported, Early, Idle
<1>11. ASSUME NEW h \in handed', h[3] = s PROVE Settled(h)'
  <2>1. h \notin handed
    BY <1>4, <1>11, EarlyIsUnhanded
  <2> QED
    BY <1>4, <1>7, <1>11, <2>1 DEF Settled, Early
<1>12. RunFits(s)'
  BY <1>10 DEF RunFits
<1> QED
  BY <1>5, <1>6, <1>7, <1>8, <1>11, <1>12, OneRunMoves

\* What a post may record is what the store's specification lets the run report.
LEMMA PostIsNext ==
  ASSUME RInv, NEW s \in Sessions, NEW written, written \subseteq Recordable(DOMAIN outbox[s]),
         Report(outbox[s], written)
  PROVE  TasksNext /\ written \subseteq DOMAIN outbox[s] /\ \A i \in written : outbox[s][i] \in Results
<1>1. DOMAIN outbox[s] \in SUBSET HandedTo(s) /\ outbox[s] \in [DOMAIN outbox[s] -> Results]
  BY DEF RInv, RunFits, HoldsHanded
<1>2. written \in SUBSET DOMAIN outbox[s]
  BY DEF Recordable
<1> QED
  BY <1>1, <1>2 DEF TasksNext

\* No attempt of a task that the rows name is open once they are recorded; of a row that is not,
\* the attempt that went missing alone.
LEMMA PostSettles ==
  ASSUME RInv, NEW s \in Sessions, NEW written \in SUBSET Recordable(DOMAIN outbox[s]),
         Report(outbox[s], written), NEW i \in DOMAIN tasks, i \in DOMAIN outbox[s], NEW n,
         n = Len(tasks[i].attempts) => i \notin Recordable(DOMAIN outbox[s]) \ written
  PROVE  ~OpenAttempt(i, n)'
<1> DEFINE rows == Recordable(DOMAIN outbox[s])
<1>1. tasks'[i] = IF i \in written THEN Finished(tasks[i], outbox[s][i]) ELSE tasks[i]
  BY DEF Report
<1>2. written \subseteq rows /\ (i \in rows <=> tasks[i].state = "in_progress")
  BY DEF Recordable
<1>3. tasks[i] \in Task /\ outbox[s][i] \in Results
  BY DEF RInv, IInv, TypeOK, RunFits, HoldsHanded
<1> HIDE DEF rows
<1>4. CASE i \in written
  <2>1. tasks[i].attempts # <<>>
    BY <1>2, <1>4 DEF RInv, IInv, LastAttemptTellsState
  <2>2. tasks'[i].state = outbox[s][i]
    BY <1>1, <1>3, <1>4, <2>1, FinishedTask
  <2> QED
    BY <1>3, <2>2, ResultsAssumption DEF OpenAttempt, Unreported
<1>5. CASE i \notin written
  BY <1>1, <1>2, <1>5 DEF OpenAttempt, rows
<1> QED
  BY <1>4, <1>5

\* A post: what it names counts as reported, and unless it is lost or cut short it is.
LEMMA PostKeeps ==
  ASSUME RInv, NEW s \in Sessions, Post(s)
  PROVE  RInv'
<1> DEFINE rows == Recordable(DOMAIN outbox[s])
<1>1. RunShapes /\ RunFits(s) /\ Counted
  BY DEF RInv
<1>2. PICK written \in SUBSET rows :
        /\ Report(outbox[s], written)
        /\ recorded' = recorded \cup {<<i, Len(tasks[i].attempts), s>> : i \in written}
        /\ missed' = missed \cup {<<i, Len(tasks[i].attempts), s>> : i \in rows \ written}
        /\ \/ written = rows /\ UNCHANGED <<lost, faults>>
           \/ written # rows /\ FaultOne
           \/ written = {} /\ rows # {} /\ LoseOne
  BY DEF Post
<1>3. /\ pc[s] = "posting" /\ told' = [told EXCEPT ![s] = @ \cup DOMAIN outbox[s]]
      /\ outbox' = [outbox EXCEPT ![s] = <<>>]
  BY DEF Post
<1>4. pc' = [pc EXCEPT ![s] = IF turn[s] = SweepTurn THEN "ended" ELSE "writing"]
  BY DEF Post, Goto
<1>5. UNCHANGED <<chosen, held, turn, todo, wrote>>
  BY DEF Post
<1>6. TasksNext /\ written \subseteq DOMAIN outbox[s] /\ \A i \in written : outbox[s][i] \in Results
  BY <1>2, PostIsNext
<1>7. /\ pc'[s] = IF turn[s] = SweepTurn THEN "ended" ELSE "writing"
      /\ told'[s] = told[s] \cup DOMAIN outbox[s] /\ outbox'[s] = <<>>
  BY <1>1, <1>3, <1>4 DEF RunShapes
<1>8. RunShapes' /\ \A t \in Sessions \ {s} : Untouched(t)
  BY <1>1, <1>3, <1>4, <1>5 DEF RunShapes, Untouched
<1>9. Grows /\ handed' = handed
  BY <1>2, <1>6, NextGrows DEF RInv, Report
<1>10. HandedTo(s) \subseteq HandedTo(s)' /\ HandedTo(s) \subseteq DOMAIN tasks
  BY <1>9 DEF HandedTo, Grows
<1>11. Members(s)' = Members(s)
  <2>1. held'[s] = held[s] /\ turn'[s] = turn[s] /\ \A i \in held[s] : tasks'[i].key = tasks[i].key
    BY <1>1, <1>5, <1>9, <1>10 DEF RunFits, HoldsHanded, Grows
  <2> QED
    BY <2>1 DEF Members
<1>12. DOMAIN outbox'[s] = {} /\ outbox'[s] \in [{} -> Results]
  BY <1>7
<1>13. pc'[s] \in {"ended", "writing"} /\ pc'[s] \notin Early
  BY <1>7 DEF Early
<1>14. HoldsHanded(s)'
  BY <1>1, <1>5, <1>7, <1>9, <1>10, <1>12, <1>13 DEF RunFits, HoldsHanded, Early, Idle, Grows
<1>15. WritesReported(s)'
  BY <1>1, <1>3, <1>5, <1>7 DEF RunFits, WritesReported
<1>16. GroupReported(s)'
  BY <1>1, <1>3, <1>5, <1>7, <1>11 DEF RunFits, GroupReported
<1>17. Counted'
  <2>1. lost' \in 0..MaxLost /\ faults' \in 0..MaxFaults
    BY <1>1, <1>2, RunBounds DEF LoseOne, FaultOne, Counted
  <2>2. \A i \in rows : <<i, Len(tasks[i].attempts), s>> \in (1..MaxTasks) \X (1..MaxAttempts) \X Sessions
    <3> SUFFICES ASSUME NEW i \in rows
                 PROVE  i \in 1..MaxTasks /\ Len(tasks[i].attempts) \in 1..MaxAttempts
      OBVIOUS
    <3>1. i \in DOMAIN tasks /\ tasks[i].state = "in_progress"
      BY DEF Recordable
    <3>2. tasks[i].attempts \in Seq(Results \cup {NoStatus}) /\ tasks \in Seq(Task) /\ Len(tasks) <= MaxTasks
      BY <3>1, TaskFields DEF RInv, IInv, TypeOK
    <3>3. tasks[i].attempts # <<>> /\ Len(tasks[i].attempts) <= MaxAttempts
      BY <3>1 DEF RInv, IInv, LastAttemptTellsState, AttemptsInBounds
    <3> QED
      BY <3>1, <3>2, <3>3, BoundsAssumption
  <2> QED
    BY <1>1, <1>2, <2>1, <2>2 DEF Counted
<1>18. missed \subseteq missed'
  BY <1>2
<1>19. ASSUME NEW h \in handed', h[3] = s PROVE Settled(h)'
  <2>1. h \in handed /\ Settled(h) /\ h[1] \in DOMAIN tasks /\ h[2] \in DOMAIN tasks[h[1]].attempts
    BY <1>9, <1>19 DEF RInv, IInv, HandedAreHeld
  <2>2. h = <<h[1], h[2], s>>
    BY <1>19, <2>1 DEF RInv, IInv, TypeOK
  <2> SUFFICES ASSUME h \notin missed'
               PROVE  h[1] \in held[s] /\ (h[1] \in told'[s] => ~OpenAttempt(h[1], h[2])')
    BY <1>5, <1>13, <1>19 DEF Settled
  <2>3. h[1] \in held[s] /\ (h[1] \in told[s] => ~OpenAttempt(h[1], h[2]))
    BY <1>18, <1>19, <2>1 DEF Settled
  <2>4. CASE h[1] \in told[s]
    BY <1>9, <2>1, <2>3, <2>4 DEF Grows
  <2>5. CASE h[1] \in DOMAIN outbox[s]
    <3>1. h[2] = Len(tasks[h[1]].attempts) => h[1] \notin rows \ written
      BY <1>2, <2>2
    <3>2. Report(outbox[s], written) /\ written \in SUBSET rows
      BY <1>2
    <3> QED
      BY <2>1, <2>3, <2>5, <3>1, <3>2, PostSettles
  <2> QED
    BY <1>7, <2>3, <2>4, <2>5
<1>20. RunFits(s)'
  BY <1>14, <1>15, <1>16 DEF RunFits
<1> QED
  BY <1>6, <1>8, <1>9, <1>17, <1>18, <1>19, <1>20, OneRunMoves

\* People leave every run as it is.
LEMMA PeopleKeep ==
  ASSUME RInv, People
  PROVE  RInv'
<1>1. TasksNext /\ handed' = handed
  BY DEF People, TasksNext, Create, Dismiss, Resend
<1>2. UNCHANGED <<pc, chosen, held, turn, todo, outbox, told, wrote, recorded, missed, lost, faults>>
  BY DEF People, runVars
<1>3. RunShapes' /\ Counted' /\ \A t \in Sessions : Untouched(t)
  BY <1>2 DEF RInv, RunShapes, Counted, Untouched
<1>4. {} \in SUBSET Sessions
  OBVIOUS
<1> QED
  BY <1>1, <1>2, <1>3, <1>4, RunsMove

----------------------------------------------------------------------------
(* Runs of the Tasks button: the theorems *)

\* Before any call and any run the invariant holds.
LEMMA RunInitInv == RunInit => RInv
<1> SUFFICES ASSUME RunInit PROVE RInv
  OBVIOUS
<1>1. IInv /\ handed = {}
  BY InitInv DEF RunInit, TasksInit
<1>2. RunShapes /\ Counted
  BY RunBounds DEF RunInit, RunShapes, Counted
<1>3. ASSUME NEW s \in Sessions PROVE RunFits(s)
  <2>1. /\ pc[s] = "choosing" /\ turn[s] = 1 /\ outbox[s] = <<>> /\ chosen[s] = {} /\ held[s] = {}
        /\ todo[s] = {} /\ told[s] = {} /\ wrote[s] = {}
    BY DEF RunInit
  <2>2. DOMAIN outbox[s] = {} /\ outbox[s] \in [{} -> Results]
    BY <2>1
  <2> QED
    BY <2>1, <2>2, Turns DEF RunFits, HoldsHanded, WritesReported, GroupReported, Idle
<1> QED
  BY <1>1, <1>2, <1>3 DEF RInv

\* Every step of a run and of people keeps the invariant, one step of the proof for each.
LEMMA RunNextInv == RInv /\ [RunNext]_allVars => RInv'
<1> SUFFICES ASSUME RInv, [RunNext]_allVars PROVE RInv'
  OBVIOUS
<1>1. CASE People
  BY <1>1, PeopleKeep
<1>2. ASSUME NEW s \in Sessions, Choose(s) \/ Check(s) \/ Write(s) \/ Sweep(s) \/ Die(s) PROVE RInv'
  BY <1>2, ChooseKeeps, CheckKeeps, WriteKeeps, SweepKeeps, DieKeeps
<1>3. ASSUME NEW s \in Sessions, SkipGroup(s) \/ FinishGroup(s) PROVE RInv'
  BY <1>3, EndGroupKeeps DEF SkipGroup, FinishGroup
<1>4. ASSUME NEW s \in Sessions, ClaimAnswered(s) \/ ClaimUnanswered(s) \/ Post(s) PROVE RInv'
  BY <1>4, ClaimAnsweredKeeps, ClaimUnansweredKeeps, PostKeeps
<1>5. CASE UNCHANGED allVars
  <2>1. UNCHANGED <<tasks, handed, pc, chosen, held, turn, todo, outbox, told, wrote, recorded, missed, lost, faults>>
    BY <1>5 DEF allVars, runVars
  <2>2. [TasksNext]_taskVars /\ RunShapes' /\ Counted' /\ \A t \in Sessions : Untouched(t)
    BY <2>1 DEF taskVars, RInv, RunShapes, Counted, Untouched
  <2>3. {} \in SUBSET Sessions
    OBVIOUS
  <2> QED
    BY <2>1, <2>2, <2>3, RunsMove
<1> QED
  BY <1>1, <1>2, <1>3, <1>4, <1>5 DEF RunNext, RunStep

\* The runs and the people between them keep the invariant.
THEOREM RunInvariant == RunSpec => []RInv
<1> QED
  BY RunInitInv, RunNextInv, PTL DEF RunSpec

\* A run makes no call the store's own specification does not allow: whatever holds of the store
\* under any callers holds of it under the runs.
THEOREM RunsUseTheStore == RunSpec => TasksSpec
<1>1. RunInit => TasksInit
  BY DEF RunInit
<1>2. RInv /\ [RunNext]_allVars => [TasksNext]_taskVars
  <2> SUFFICES ASSUME RInv, RunNext PROVE [TasksNext]_taskVars
    BY DEF allVars, taskVars
  <2>1. CASE People
    BY <2>1 DEF People, TasksNext
  <2>2. ASSUME NEW s \in Sessions,
               Choose(s) \/ Check(s) \/ Write(s) \/ Sweep(s) \/ Die(s) \/ SkipGroup(s) \/ FinishGroup(s)
        PROVE  UNCHANGED taskVars
    BY <2>2 DEF Choose, Check, Write, Sweep, Die, SkipGroup, FinishGroup, EndGroup, taskVars
  <2>3. ASSUME NEW s \in Sessions, ClaimAnswered(s) PROVE [TasksNext]_taskVars
    BY <2>3, ClaimIsNext DEF ClaimAnswered, taskVars
  <2>4. ASSUME NEW s \in Sessions, ClaimUnanswered(s) PROVE TasksNext
    BY <2>4, ClaimIsNext DEF ClaimUnanswered
  <2>5. ASSUME NEW s \in Sessions, Post(s) PROVE TasksNext
    BY <2>5, PostIsNext DEF Post
  <2> QED
    BY <2>1, <2>2, <2>3, <2>4, <2>5 DEF RunNext, RunStep
<1> QED
  BY <1>1, <1>2, RunInvariant, PTL DEF RunSpec, TasksSpec

\* The variables of the runs keep their types (RunTypeOK).
THEOREM RunTypes == RunSpec => []RunTypeOK
<1>1. RInv => RunTypeOK
  <2> SUFFICES ASSUME RInv PROVE RunTypeOK
    OBVIOUS
  <2>1. TypeOK /\ RunShapes /\ Counted /\ \A s \in Sessions : HoldsHanded(s)
    BY DEF RInv, IInv, RunFits
  <2>2. DOMAIN tasks \subseteq 1..MaxTasks
    BY <2>1, BoundsAssumption DEF TypeOK
  <2>3. ASSUME NEW s \in Sessions
        PROVE  /\ pc[s] \in Idle \cup {"claiming", "checking", "writing", "posting", "sweeping"}
               /\ turn[s] \in 1..SweepTurn /\ outbox[s] \in [DOMAIN outbox[s] -> Results]
               /\ chosen[s] \in SUBSET (1..MaxTasks) /\ held[s] \in SUBSET (1..MaxTasks)
               /\ todo[s] \in SUBSET (1..MaxTasks) /\ told[s] \in SUBSET (1..MaxTasks)
               /\ wrote[s] \in SUBSET (1..MaxTasks)
    <3>1. HandedTo(s) \subseteq 1..MaxTasks
      BY <2>2 DEF HandedTo
    <3> QED
      BY <2>1, <2>2, <3>1 DEF HoldsHanded
  <2>4. /\ pc \in [Sessions -> Idle \cup {"claiming", "checking", "writing", "posting", "sweeping"}]
        /\ turn \in [Sessions -> 1..SweepTurn]
    BY <2>1, <2>3 DEF RunShapes
  <2>5. /\ chosen \in [Sessions -> SUBSET (1..MaxTasks)] /\ held \in [Sessions -> SUBSET (1..MaxTasks)]
        /\ todo \in [Sessions -> SUBSET (1..MaxTasks)] /\ told \in [Sessions -> SUBSET (1..MaxTasks)]
        /\ wrote \in [Sessions -> SUBSET (1..MaxTasks)]
    BY <2>1, <2>3 DEF RunShapes
  <2> QED
    BY <2>1, <2>3, <2>4, <2>5 DEF RunTypeOK, Counted
<1> QED
  BY <1>1, RunInvariant, PTL

\* "Nothing stays claimed" (room_mate.py, tasks_entry): a run that came to its end has left no
\* attempt open, whatever it skipped or failed at and whatever was lost of other tasks, but those
\* whose own claim or report went missing.
THEOREM NothingIsLeftClaimed == RunSpec => []NothingStaysClaimed
<1>1. RInv => NothingStaysClaimed
  <2> SUFFICES ASSUME RInv, NEW h \in handed, pc[h[3]] = "ended", h \notin missed
               PROVE  ~OpenAttempt(h[1], h[2])
    BY DEF NothingStaysClaimed
  <2>1. h[3] \in Sessions
    BY DEF RInv, IInv, TypeOK
  <2>2. held[h[3]] \subseteq told[h[3]]
    BY <2>1 DEF RInv, RunFits, GroupReported
  <2> QED
    BY <2>2 DEF RInv, Settled
<1> QED
  BY <1>1, RunInvariant, PTL

\* "A session that dies halfway has reported everything before the one it died in" (apply_run), for
\* any number of tasks and runs.
THEOREM WorkIsReported == RunSpec => []WorkIsReportedAsItGoes
<1>1. RInv => WorkIsReportedAsItGoes
  <2> SUFFICES ASSUME RInv, NEW s \in Sessions
               PROVE  Cardinality(wrote[s] \ told[s]) <= 1
    BY DEF WorkIsReportedAsItGoes
  <2>1. \A i, j \in wrote[s] \ told[s] : i = j
    BY DEF RInv, RunFits, WritesReported
  <2>2. CASE wrote[s] \ told[s] = {}
    BY <2>2, FS_EmptySet
  <2>3. CASE wrote[s] \ told[s] # {}
    <3>1. PICK i : wrote[s] \ told[s] = {i}
      BY <2>1, <2>3
    <3>2. Cardinality({i}) = 1
      BY FS_Singleton
    <3> QED
      BY <3>1, <3>2
  <2> QED
    BY <2>2, <2>3
<1> QED
  BY <1>1, RunInvariant, PTL

\* "Report what will not run before any work" (apply_run): a run that is about to write has reported
\* every task of the group it will not.
THEOREM StoppedFirst == RunSpec => []StoppedTasksReportedFirst
<1>1. RInv => StoppedTasksReportedFirst
  BY DEF RInv, RunFits, GroupReported, StoppedTasksReportedFirst
<1> QED
  BY <1>1, RunInvariant, PTL

----------------------------------------------------------------------------
(* Runs of the Tasks button: they end *)

\* What StepsLeft makes of where a run is, of its group and of the number of tasks to write.
Rank(where, t, left) ==
  LET group  == 2 * MaxTasks + 4
      groups == IF t = 1 THEN group + group ELSE IF t = 2 THEN group ELSE 0
  IN  CASE where = "choosing" -> group + group + group + 1
        [] where = "claiming" -> group + group + group
        [] where \in {"checking", "sweeping"} -> groups + group - 1
        [] where = "posting" -> groups + 2 * left + 1
        [] where = "writing" -> groups + 2 * left
        [] OTHER -> 0

Left(s) == Cardinality(todo[s])

\* What a run has to write is finite, and no more than the store may hold.
LEMMA LeftIsBounded ==
  ASSUME RInv, NEW s \in Sessions
  PROVE  IsFiniteSet(todo[s]) /\ Left(s) \in 0..MaxTasks
<1>1. todo[s] \in SUBSET (1..MaxTasks)
  <2>1. DOMAIN tasks \subseteq 1..MaxTasks
    BY BoundsAssumption DEF RInv, IInv, TypeOK
  <2> QED
    BY <2>1 DEF RInv, RunFits, HoldsHanded, HandedTo
<1>2. IsFiniteSet(1..MaxTasks) /\ Cardinality(1..MaxTasks) = MaxTasks
  BY BoundsAssumption, FS_Interval
<1>3. IsFiniteSet(todo[s]) /\ Cardinality(todo[s]) <= MaxTasks
  BY <1>1, <1>2, FS_Subset
<1> QED
  BY <1>3, FS_CardinalityType, BoundsAssumption DEF Left

\* The number is the rank, in every state and in the next.
LEMMA StepsLeftIsRank ==
  ASSUME RInv, NEW s \in Sessions
  PROVE  StepsLeft(s) = Rank(pc[s], turn[s], Left(s))
<1>1. turn[s] \in {1, 2, 3}
  BY Turns DEF RInv, RunFits, HoldsHanded
<1>2. MaxTasks \in Nat
  BY BoundsAssumption
<1>3. CASE turn[s] = 1
  BY <1>2, <1>3, Turns, SMTT(30) DEF StepsLeft, Rank, Left
<1>4. CASE turn[s] = 2
  BY <1>2, <1>4, Turns, SMTT(30) DEF StepsLeft, Rank, Left
<1>5. CASE turn[s] = 3
  BY <1>2, <1>5, Turns, SMTT(30) DEF StepsLeft, Rank, Left
<1> QED
  BY <1>1, <1>3, <1>4, <1>5

\* In every state of the runs the number is the rank.
Ranked ==
  \A s \in Sessions :
    /\ StepsLeft(s) = Rank(pc[s], turn[s], Left(s))
    /\ IsFiniteSet(todo[s]) /\ Left(s) \in 0..MaxTasks

LEMMA RunsAreRanked == RInv => Ranked
BY LeftIsBounded, StepsLeftIsRank DEF Ranked

\* Each step of a run brings it nearer to its end.
LEMMA RunStepNears ==
  ASSUME RInv, Ranked, Ranked', NEW s \in Sessions, RunStep(s)
  PROVE  Rank(pc'[s], turn'[s], Left(s)') < Rank(pc[s], turn[s], Left(s))
<1>1. RunShapes /\ HoldsHanded(s) /\ MaxTasks \in Nat /\ turn[s] \in {1, 2, 3}
  BY BoundsAssumption, Turns DEF RInv, RunFits, HoldsHanded
<1>2. Left(s) \in 0..MaxTasks /\ Left(s)' \in 0..MaxTasks
  BY DEF Ranked
<1>3. ASSUME NEW label, Goto(s, label) PROVE pc'[s] = label
  BY <1>1, <1>3 DEF Goto, RunShapes
<1>4. CASE ClaimAnswered(s)
  <2>1. pc[s] = "claiming" /\ pc'[s] \in {"checking", "ended"} /\ turn'[s] = turn[s]
    BY <1>3, <1>4 DEF ClaimAnswered
  <2> QED
    BY <1>1, <1>2, <2>1 DEF Rank
<1>5. CASE ClaimUnanswered(s)
  <2>1. pc[s] = "claiming" /\ pc'[s] = "ended"
    BY <1>3, <1>5 DEF ClaimUnanswered
  <2> QED
    BY <1>1, <1>2, <2>1 DEF Rank
<1>6. ASSUME EndGroup(s), pc[s] \in {"checking", "writing"}, pc[s] = "writing" => todo[s] = {}
      PROVE  Rank(pc'[s], turn'[s], Left(s)') < Rank(pc[s], turn[s], Left(s))
  <2>1. turn'[s] = turn[s] + 1 /\ pc'[s] \in {"sweeping", "checking"}
    BY <1>1, <1>3, <1>6 DEF EndGroup, RunShapes
  <2>2. turn[s] \in {1, 2}
    BY <1>1, <1>6, Turns DEF HoldsHanded
  <2> QED
    BY <1>1, <1>2, <1>6, <2>1, <2>2 DEF Rank
<1>7. CASE Check(s)
  <2>1. pc[s] = "checking" /\ pc'[s] = "posting" /\ turn'[s] = turn[s]
    BY <1>3, <1>7 DEF Check
  <2> QED
    BY <1>1, <1>2, <2>1 DEF Rank
<1>8. CASE Write(s)
  <2>1. pc[s] = "writing" /\ pc'[s] = "posting" /\ turn'[s] = turn[s]
    BY <1>3, <1>8 DEF Write
  <2>2. Left(s)' = Left(s) - 1
    <3>1. todo[s] \in SUBSET Nat /\ todo[s] # {}
      BY <1>1, <1>8 DEF Write, HoldsHanded, HandedTo, RInv, IInv, TypeOK
    <3>2. Min(todo[s]) \in todo[s]
      BY <3>1, LeastOf
    <3>3. todo'[s] = todo[s] \ {Min(todo[s])}
      BY <1>1, <1>8 DEF Write, RunShapes
    <3>4. IsFiniteSet(todo[s])
      BY DEF Ranked
    <3>5. Cardinality(todo[s] \ {Min(todo[s])}) = Cardinality(todo[s]) - 1
      BY <3>2, <3>4, FS_RemoveElement
    <3> QED
      BY <3>3, <3>5 DEF Left
  <2> QED
    BY <1>1, <1>2, <2>1, <2>2 DEF Rank
<1>9. CASE Sweep(s)
  <2>1. pc[s] = "sweeping" /\ pc'[s] = "posting" /\ turn'[s] = turn[s]
    BY <1>3, <1>9 DEF Sweep
  <2> QED
    BY <1>1, <1>2, <2>1 DEF Rank
<1>10. CASE Post(s)
  <2>1. pc[s] = "posting" /\ pc'[s] \in {"ended", "writing"} /\ turn'[s] = turn[s] /\ todo'[s] = todo[s]
    BY <1>3, <1>10 DEF Post
  <2>2. Left(s)' = Left(s)
    BY <2>1 DEF Left
  <2> QED
    BY <1>1, <1>2, <2>1, <2>2 DEF Rank
<1>11. CASE SkipGroup(s) \/ FinishGroup(s)
  BY <1>6, <1>11 DEF SkipGroup, FinishGroup
<1> QED
  BY <1>4, <1>5, <1>7, <1>8, <1>9, <1>10, <1>11 DEF RunStep

\* A step of another run or of people leaves this run where it is.
LEMMA OthersLeaveARun ==
  ASSUME RInv, NEW t \in Sessions, \/ People
                                   \/ \E s \in Sessions \ {t} : Choose(s) \/ RunStep(s) \/ Die(s)
                                   \/ UNCHANGED allVars
  PROVE  pc'[t] = pc[t] /\ turn'[t] = turn[t] /\ todo'[t] = todo[t]
<1>1. RunShapes
  BY DEF RInv
<1>2. ASSUME People \/ UNCHANGED allVars PROVE UNCHANGED <<pc, turn, todo>>
  BY <1>2 DEF People, allVars, runVars
<1>3. ASSUME NEW s \in Sessions \ {t}, Choose(s) \/ ClaimAnswered(s) \/ ClaimUnanswered(s) \/ Die(s)
      PROVE  pc'[t] = pc[t] /\ turn' = turn /\ todo' = todo
  BY <1>1, <1>3 DEF Choose, ClaimAnswered, ClaimUnanswered, Die, Goto, RunShapes
<1>4. ASSUME NEW s \in Sessions \ {t}, SkipGroup(s) \/ FinishGroup(s)
      PROVE  pc'[t] = pc[t] /\ turn'[t] = turn[t] /\ todo'[t] = todo[t]
  BY <1>1, <1>4 DEF SkipGroup, FinishGroup, EndGroup, Goto, RunShapes
<1>5. ASSUME NEW s \in Sessions \ {t}, Check(s) \/ Write(s)
      PROVE  pc'[t] = pc[t] /\ turn' = turn /\ todo'[t] = todo[t]
  BY <1>1, <1>5 DEF Check, Write, Goto, RunShapes
<1>6. ASSUME NEW s \in Sessions \ {t}, Sweep(s) \/ Post(s)
      PROVE  pc'[t] = pc[t] /\ turn' = turn /\ todo' = todo
  BY <1>1, <1>6 DEF Sweep, Post, Goto, RunShapes
<1> QED
  BY <1>2, <1>3, <1>4, <1>5, <1>6 DEF RunStep

\* Nothing takes a run back: not what it does itself, not what others do, not the death of Revit.
LEMMA NothingTakesARunBack ==
  ASSUME RInv, Ranked, Ranked', [RunNext]_allVars, NEW t \in Sessions
  PROVE  Rank(pc'[t], turn'[t], Left(t)') <= Rank(pc[t], turn[t], Left(t))
<1> DEFINE Before == Rank(pc[t], turn[t], Left(t))
           After  == Rank(pc'[t], turn'[t], Left(t)')
<1>1. RunShapes /\ MaxTasks \in Nat /\ turn[t] \in {1, 2, 3} /\ Left(t) \in 0..MaxTasks
  BY BoundsAssumption, Turns DEF RInv, RunFits, HoldsHanded, Ranked
<1>2. Before \in Nat
  BY <1>1 DEF Rank
<1>3. CASE RunStep(t)
  <2>1. After < Before
    BY <1>3, RunStepNears
  <2>2. turn'[t] \in {1, 2, 3, 4} /\ Left(t)' \in 0..MaxTasks
    BY <1>1, <1>3 DEF Ranked, RunStep, ClaimAnswered, ClaimUnanswered, SkipGroup, FinishGroup, EndGroup,
                      Check, Write, Sweep, Post, RunShapes
  <2>3. After \in Nat
    BY <1>1, <2>2 DEF Rank
  <2> QED
    BY <1>2, <2>1, <2>3
<1>4. CASE Choose(t)
  <2>1. pc[t] = "choosing" /\ pc'[t] = "claiming"
    BY <1>1, <1>4 DEF Choose, Goto, RunShapes
  <2> QED
    BY <1>1, <2>1 DEF Rank
<1>5. CASE Die(t)
  <2>1. pc'[t] = "dead"
    BY <1>1, <1>5 DEF Die, Goto, RunShapes
  <2>2. After = 0
    BY <2>1 DEF Rank
  <2> QED
    BY <1>2, <2>2
<1>6. CASE \/ People
           \/ \E s \in Sessions \ {t} : Choose(s) \/ RunStep(s) \/ Die(s)
           \/ UNCHANGED allVars
  <2>1. pc'[t] = pc[t] /\ turn'[t] = turn[t] /\ todo'[t] = todo[t]
    BY <1>6, OthersLeaveARun
  <2>2. After = Before
    BY <2>1 DEF Left
  <2> QED
    BY <1>2, <2>2
<1> QED
  BY <1>3, <1>4, <1>5, <1>6 DEF RunNext

\* A run comes to its end in a bounded number of steps, whatever raises in it and whatever is lost:
\* the sweep that frees what is left is never more than StepsLeft steps away (tasks_entry).
THEOREM RunsEnd == RunSpec => RunsComeToAnEnd
<1>1. RInv /\ Ranked /\ Ranked' /\ [RunNext]_allVars
        => [\A s \in Sessions : /\ StepsLeft(s)' <= StepsLeft(s)
                                /\ RunStep(s) => StepsLeft(s)' < StepsLeft(s)]_allVars
  <2> SUFFICES ASSUME RInv, Ranked, Ranked', [RunNext]_allVars, NEW s \in Sessions
               PROVE  /\ StepsLeft(s)' <= StepsLeft(s)
                      /\ RunStep(s) => StepsLeft(s)' < StepsLeft(s)
    OBVIOUS
  <2>1. /\ StepsLeft(s) = Rank(pc[s], turn[s], Left(s))
        /\ StepsLeft(s)' = Rank(pc'[s], turn'[s], Left(s)')
    BY DEF Ranked
  <2> QED
    BY <2>1, NothingTakesARunBack, RunStepNears
<1> QED
  BY <1>1, RunInvariant, RunsAreRanked, PTL DEF RunSpec, RunsComeToAnEnd
=============================================================================
