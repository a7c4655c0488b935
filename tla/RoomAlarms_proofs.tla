--------------------------- MODULE RoomAlarms_proofs ---------------------------
(***************************************************************************)
(* Machine-checked proofs about RoomAlarms, for any number of players and  *)
(* of tasks under way, every grace period, start delay, length of time and *)
(* number of faults.                                                       *)
(***************************************************************************)
EXTENDS RoomAlarms, TLAPS, NaturalsInduction, WellFoundedInduction

(***************************************************************************)
(* The invariant: what the alarm of a room is computed from.               *)
(***************************************************************************)

Tables == [Players -> Nat \cup {Absent, Connected}]

TaskInv(task) ==
  /\ task.at \in {"idle", "activate", "schedule", "sweep", "listSessions", "findFinish"}
  /\ task.at = "activate" => task.existing \in Nat \cup {Absent, Connected}
  /\ task.at = "findFinish" => task.sessions \in Tables

\* What the room and the scheduler have stored are times, and what a task has read
\* is a table of sessions.
AlarmInv ==
  /\ clock \in Nat
  /\ startAt \in Nat \cup {None}
  /\ sessions \in Tables
  /\ mapped \in Nat \cup {None} /\ leaked \subseteq Nat
  /\ tasks = [c \in Callers |-> tasks[c]]
  /\ \A c \in Callers : TaskInv(tasks[c])

(***************************************************************************)
(* The next alarm.                                                         *)
(***************************************************************************)

\* A set of times that is not empty has an earliest one.
LEMMA EarliestIsInteger ==
  ASSUME NEW S, S \subseteq Nat \cup {None}
  PROVE  Earliest(S) \in Int
<1>1. CASE S = {}
  BY <1>1 DEF Earliest, None
<1>2. CASE None \in S
  <2>1. \A u \in S : None <= u
    BY DEF None
  <2>2. \E t \in S : \A u \in S : t <= u
    BY <1>2, <2>1
  <2>3. Earliest(S) \in S
    BY <1>2, <2>2 DEF Earliest
  <2>4. Earliest(S) \in Nat \cup {None}
    BY <2>3
  <2>5. QED
    BY <2>4 DEF None
<1>3. CASE S # {} /\ None \notin S
  <2>1. S \in SUBSET Nat
    BY <1>3
  <2>2. PICK t \in S : \A u \in S : ~(<<u, t>> \in OpToRel(<, Nat))
    BY <1>3, <2>1, NatLessThanWellFounded, WFMin
  <2>3. \A u \in S : t <= u
    <3> TAKE u \in S
    <3>1. ~(u < t)
      BY <2>1, <2>2 DEF OpToRel
    <3>2. u \in Nat /\ t \in Nat
      BY <2>1
    <3>3. QED
      BY <3>1, <3>2
  <2>4. Earliest(S) \in S
    BY <1>3, <2>3 DEF Earliest
  <2>5. Earliest(S) \in Nat
    BY <2>1, <2>4
  <2>6. QED
    BY <2>5
<1>4. QED
  BY <1>1, <1>2, <1>3

\* What nextAlarmAt returns is a time, or None.
LEMMA AlarmIsInteger ==
  ASSUME AlarmInv, NEW s, NEW ss \in Tables, NEW finished
  PROVE  Alarm(s, ss, finished) \in Int
<1> DEFINE A == IF s = "scheduled" THEN {startAt} ELSE {}
           Q == {q \in Players : Away(q, ss) /\ ~(Matching(s) /\ q \in finished)}
           B == {ss[p] + Grace : p \in Q}
<1>1. A \subseteq Nat \cup {None}
  BY DEF AlarmInv
<1>2. ASSUME NEW p \in Q PROVE ss[p] + Grace \in Nat
  <2>1. ss[p] \in Nat \cup {Absent, Connected} /\ ss[p] >= 0
    BY DEF Tables, Away
  <2>2. QED
    BY <2>1, AlarmAssumption DEF Absent, Connected
<1>3. B \subseteq Nat \cup {None}
  BY <1>2
<1>4. Alarm(s, ss, finished) = Earliest(A \cup B)
  BY DEF Alarm
<1> HIDE DEF A, B
<1>5. QED
  BY <1>1, <1>3, <1>4, EarliestIsInteger

\* The alarm depends on nothing but the room that is stored.
LEMMA SameAlarm ==
  ASSUME UNCHANGED stored
  PROVE  NextAlarm' = NextAlarm
BY DEF stored, NextAlarm, Alarm, Earliest, Away, Matching

(***************************************************************************)
(* Steps keep the invariant.                                               *)
(***************************************************************************)

\* A task goes on to something well formed.
LEMMA TaskReplaced ==
  ASSUME AlarmInv, NEW c \in Callers, NEW t, TaskInv(t), tasks' = [tasks EXCEPT ![c] = t]
  PROVE  /\ tasks' = [d \in Callers |-> tasks'[d]]
         /\ \A d \in Callers : TaskInv(tasks'[d])
         /\ tasks'[c] = t /\ \A d \in Callers : d # c => tasks'[d] = tasks[d]
<1>1. tasks = [d \in Callers |-> tasks[d]]
  BY DEF AlarmInv
<1>2. tasks' = [d \in Callers |-> IF d = c THEN t ELSE tasks[d]]
  BY <1>1
<1>3. tasks'[c] = t /\ \A d \in Callers : d # c => tasks'[d] = tasks[d]
  BY <1>2
<1>4. QED
  BY <1>2, <1>3 DEF AlarmInv

\* What a task may go on to.
LEMMA TaskKinds ==
  /\ TaskInv(Idle) /\ TaskInv(Scheduling) /\ TaskInv(Sweeping)
  /\ Idle.at = "idle" /\ Scheduling.at = "schedule" /\ Sweeping.at = "sweep"
  /\ \A p, s : Activating(p, s).at = "activate" /\ Activating(p, s).existing = s
  /\ \A s : TaskInv(ReadsSessions(s)) /\ ReadsSessions(s).at = "listSessions"
            /\ ReadsSessions(s).status = s
  /\ \A s, ss : (ss \in Tables => TaskInv(ReadsFinishes(s, ss)))
                /\ ReadsFinishes(s, ss).at = "findFinish" /\ ReadsFinishes(s, ss).status = s /\ ReadsFinishes(s, ss).sessions = ss
BY DEF TaskInv, Idle, Scheduling, Sweeping, Activating, ReadsSessions, ReadsFinishes

\* A step of the engine leaves its task with a call of schedule or a socket to
\* activate, unless the engine throws.
LEMMA EngineContinues ==
  ASSUME AlarmInv, NEW c \in Callers, EngineStep(c) \/ Sweep(c)
  PROVE  \E t : /\ TaskInv(t) /\ t # Sweeping /\ tasks' = [tasks EXCEPT ![c] = t]
                /\ t.at \in {"activate", "schedule"} \/ ActivateFails(c)
<1>0. Scheduling # Sweeping /\ Idle # Sweeping
  BY TaskKinds
<1>1. ASSUME NEW p \in Players, Connect(c, p)
      PROVE  \E t : /\ TaskInv(t) /\ t # Sweeping /\ tasks' = [tasks EXCEPT ![c] = t]
                    /\ t.at = "activate"
  <2>1. PICK t : t = Activating(p, sessions[p])
    OBVIOUS
  <2>2. sessions[p] \in Nat \cup {Absent, Connected}
    BY DEF AlarmInv, Tables
  <2>3. t.at = "activate" /\ TaskInv(t) /\ t # Sweeping
    BY <2>1, <2>2, TaskKinds DEF TaskInv
  <2>4. tasks' = [tasks EXCEPT ![c] = t]
    BY <1>1, <2>1 DEF Connect
  <2>5. QED
    BY <2>3, <2>4
<1>2. CASE \E p \in Players : Connect(c, p)
  BY <1>1, <1>2
<1>3. CASE \/ \E p \in Players : Disconnect(c, p) \/ Finish(c, p)
           \/ Activate(c) \/ StartIsScheduled(c) \/ OtherFrame(c) \/ Sweep(c)
  <2>1. tasks' = [tasks EXCEPT ![c] = Scheduling]
    BY <1>3 DEF Disconnect, Finish, Activate, StartIsScheduled, OtherFrame, Sweep, ThenSchedules
  <2>2. QED
    BY <1>0, <2>1, TaskKinds
<1>4. CASE ActivateFails(c)
  <2>1. tasks' = [tasks EXCEPT ![c] = Idle]
    BY <1>4 DEF ActivateFails
  <2>2. QED
    BY <1>0, <1>4, <2>1, TaskKinds
<1>5. QED
  BY <1>2, <1>3, <1>4 DEF EngineStep

\* A step of schedule, or one that fails, never leaves its task to sweep.
LEMMA ScheduleContinues ==
  ASSUME AlarmInv, NEW c \in Callers, ScheduleStep(c) \/ CallFails(c)
  PROVE  \E t : TaskInv(t) /\ t # Sweeping /\ tasks' = [tasks EXCEPT ![c] = t]
<1>1. CASE Schedule(c)
  <2>1. CASE stopped
    BY <1>1, <2>1, TaskKinds DEF Schedule, Continue
  <2>2. CASE ~stopped
    <3>1. PICK t : t = ReadsSessions(status) /\ tasks' = [tasks EXCEPT ![c] = t]
      BY <1>1, <2>2 DEF Schedule, Continue
    <3>2. QED
      BY <3>1, TaskKinds
  <2>3. QED
    BY <2>1, <2>2
<1>2. CASE ListSessions(c)
  <2>1. PICK t : t = ReadsFinishes(tasks[c].status, sessions)
    OBVIOUS
  <2>2. tasks' = [tasks EXCEPT ![c] = t]
    BY <1>2, <2>1 DEF ListSessions, Continue
  <2>3. TaskInv(t) /\ t # Sweeping
    <3>1. t.at = "findFinish"
      BY <2>1, TaskKinds
    <3>2. QED
      BY <2>1, <3>1, TaskKinds DEF AlarmInv
  <2>4. QED
    BY <2>2, <2>3
<1>3. CASE SetTimer(c) \/ CallFails(c)
  <2>1. tasks' = [tasks EXCEPT ![c] = Idle]
    BY <1>3 DEF SetTimer, CallFails, Continue
  <2>2. QED
    BY <2>1, TaskKinds
<1>4. QED
  BY <1>1, <1>2, <1>3 DEF ScheduleStep

\* A timer leaves its task to sweep, unless the server has stopped.
LEMMA FireContinues ==
  ASSUME NEW c \in Callers, NEW u, Fire(c, u)
  PROVE  /\ TaskInv(RunTask) /\ tasks' = [tasks EXCEPT ![c] = RunTask]
         /\ RunTask = (IF stopped THEN Idle ELSE Sweeping) /\ Idle # Sweeping
BY TaskKinds DEF Fire, Continue, RunTask

\* The timers of the scheduler are times, running ones and the one it knows.
LEMMA TimersKept ==
  ASSUME AlarmInv, [Next]_vars
  PROVE  mapped' \in Nat \cup {None} /\ leaked' \subseteq Nat
<1>1. clock \in Nat /\ mapped \in Nat \cup {None} /\ leaked \subseteq Nat
  BY DEF AlarmInv
<1>2. Timers \subseteq Nat
  BY <1>1 DEF Timers
<1>3. ASSUME NEW c \in Callers, EngineStep(c) \/ Sweep(c) \/ CallFails(c)
      PROVE  UNCHANGED <<mapped, leaked>>
  BY <1>3 DEF EngineStep, Connect, Disconnect, Finish, Activate, ActivateFails, StartIsScheduled,
              OtherFrame, Sweep, CallFails, ThenSchedules, timerSet
<1>4. ASSUME NEW c \in Callers, SetTimer(c)
      PROVE  mapped' \in Nat \cup {None} /\ leaked' \subseteq Nat
  <2>1. tasks[c].at = "findFinish" /\ TaskInv(tasks[c])
    BY <1>4 DEF SetTimer, AlarmInv
  <2>2. PICK next \in Int : next = Alarm(tasks[c].status, tasks[c].sessions, done)
    BY <2>1, AlarmIsInteger DEF TaskInv
  <2>3. mapped' = (IF next = None \/ next > clock THEN next ELSE clock) /\ leaked' = Timers
    BY <1>4, <2>2 DEF SetTimer, LeaksTheOther, Timers
  <2>4. mapped' \in Nat \cup {None}
    BY <1>1, <2>2, <2>3
  <2>5. QED
    BY <1>2, <2>3, <2>4
<1>5. ASSUME NEW c \in Callers, Schedule(c) \/ ListSessions(c) \/ \E t \in Timers : Fire(c, t)
      PROVE  mapped' \in {mapped, None} /\ leaked' \subseteq Timers
  BY <1>5 DEF Schedule, ListSessions, Fire, Timers, timerSet
<1>6. CASE Tick \/ Stop \/ Restart \/ UNCHANGED vars
  BY <1>1, <1>6 DEF Tick, Stop, Restart, RestartFor, vars, timerSet
<1>7. QED
  BY <1>1, <1>2, <1>3, <1>4, <1>5, <1>6 DEF Next, ScheduleStep

\* The engine stores times.
LEMMA TablesKept ==
  ASSUME AlarmInv, NEW c \in Callers, EngineStep(c) \/ Sweep(c)
  PROVE  startAt' \in Nat \cup {None} /\ sessions' \in Tables /\ clock' = clock
<1>1. clock \in Nat /\ startAt \in Nat \cup {None} /\ sessions \in Tables
  BY DEF AlarmInv
<1>2. DropExpired \in Tables
  BY <1>1 DEF DropExpired, Tables
<1>3. ASSUME NEW p \in Players, NEW v \in Nat \cup {Absent, Connected},
             sessions' = [sessions EXCEPT ![p] = v]
      PROVE  sessions' \in Tables
  BY <1>1, <1>3 DEF Tables
<1>4. CASE \E p \in Players : Connect(c, p) \/ Disconnect(c, p)
  <2>1. PICK p \in Players, v \in Nat \cup {Absent, Connected} :
           sessions' = [sessions EXCEPT ![p] = v]
    BY <1>1, <1>4 DEF Connect, Disconnect
  <2>2. sessions' \in Tables
    BY <1>3, <2>1
  <2>3. QED
    BY <1>1, <1>4, <2>2 DEF Connect, Disconnect, ThenSchedules
<1>5. CASE \E p \in Players : Finish(c, p)
  BY <1>1, <1>2, <1>5 DEF Finish, ThenSchedules
<1>6. CASE Activate(c) \/ OtherFrame(c)
  BY <1>1, <1>6 DEF Activate, OtherFrame, ThenSchedules, stored
<1>7. CASE StartIsScheduled(c)
  <2>1. clock + StartDelay \in Nat
    BY <1>1, AlarmAssumption
  <2>2. QED
    BY <1>1, <1>7, <2>1 DEF StartIsScheduled, ThenSchedules
<1>8. CASE ActivateFails(c)
  <2>1. tasks[c].at = "activate" /\ sessions' = [sessions EXCEPT ![tasks[c].player] = tasks[c].existing]
        /\ UNCHANGED <<clock, startAt>>
    BY <1>8 DEF ActivateFails
  <2>2. tasks[c].existing \in Nat \cup {Absent, Connected}
    BY <2>1 DEF AlarmInv, TaskInv
  <2>3. sessions' \in Tables
    BY <1>1, <2>1, <2>2 DEF Tables
  <2>4. QED
    BY <1>1, <2>1, <2>3
<1>9. CASE Sweep(c)
  BY <1>1, <1>2, <1>9 DEF Sweep, ThenSchedules
<1>10. QED
  BY <1>4, <1>5, <1>6, <1>7, <1>8, <1>9 DEF EngineStep

\* The invariant holds when the server first starts, and every step keeps it.
LEMMA AlarmInvHolds == Spec => []AlarmInv
<1>1. Init => AlarmInv
  <2> SUFFICES ASSUME Init PROVE AlarmInv
    OBVIOUS
  <2>1. tasks = [c \in Callers |-> Idle] /\ \A c \in Callers : tasks[c] = Idle
    BY DEF Init
  <2>2. clock \in Nat /\ startAt \in Nat \cup {None} /\ sessions \in Tables
        /\ mapped \in Nat \cup {None} /\ leaked \subseteq Nat
    BY DEF Init, Tables
  <2>3. QED
    BY <2>1, <2>2, TaskKinds DEF AlarmInv
<1>2. AlarmInv /\ [Next]_vars => AlarmInv'
  <2> SUFFICES ASSUME AlarmInv, [Next]_vars PROVE AlarmInv'
    OBVIOUS
  <2>0. mapped' \in Nat \cup {None} /\ leaked' \subseteq Nat
    BY TimersKept
  <2>1. ASSUME NEW c \in Callers, EngineStep(c) \/ Sweep(c) PROVE AlarmInv'
    <3>1. PICK t : TaskInv(t) /\ tasks' = [tasks EXCEPT ![c] = t]
      BY <2>1, EngineContinues
    <3>2. QED
      BY <2>0, <2>1, <3>1, TaskReplaced, TablesKept DEF AlarmInv
  <2>2. ASSUME NEW c \in Callers, ScheduleStep(c) \/ CallFails(c) PROVE AlarmInv'
    <3>1. PICK t : TaskInv(t) /\ tasks' = [tasks EXCEPT ![c] = t]
      BY <2>2, ScheduleContinues
    <3>2. UNCHANGED <<clock, startAt, sessions>>
      BY <2>2 DEF ScheduleStep, Schedule, ListSessions, SetTimer, CallFails, Continue, stored
    <3>3. QED
      BY <2>0, <3>1, <3>2, TaskReplaced DEF AlarmInv
  <2>3. ASSUME NEW c \in Callers, NEW t \in Timers, Fire(c, t) PROVE AlarmInv'
    <3>1. PICK u : TaskInv(u) /\ tasks' = [tasks EXCEPT ![c] = u]
      BY <2>3, FireContinues
    <3>2. UNCHANGED <<clock, startAt, sessions>>
      BY <2>3 DEF Fire, Continue, stored
    <3>3. QED
      BY <2>0, <3>1, <3>2, TaskReplaced DEF AlarmInv
  <2>4. CASE Tick \/ Stop \/ UNCHANGED vars
    BY <2>0, <2>4 DEF Tick, Stop, vars, stored, AlarmInv
  <2>5. CASE Restart
    <3>1. PICK c \in Callers : RestartFor(c)
      BY <2>5 DEF Restart
    <3>2. tasks' = [d \in Callers |-> IF d = c /\ SomeoneConnected THEN Scheduling ELSE Idle]
      BY <3>1 DEF RestartFor, RescheduleRecovered
    <3>3. sessions' \in Tables /\ UNCHANGED <<clock, startAt>>
      BY <3>1 DEF RestartFor, AlarmInv, Tables
    <3>4. tasks' = [d \in Callers |-> tasks'[d]] /\ \A d \in Callers : TaskInv(tasks'[d])
      BY <3>2, TaskKinds
    <3>5. QED
      BY <2>0, <3>3, <3>4 DEF AlarmInv
  <2>6. QED
    BY <2>1, <2>2, <2>3, <2>4, <2>5 DEF Next
<1>3. QED
  BY <1>1, <1>2, PTL DEF Spec

(***************************************************************************)
(* What the scheduler promises.                                            *)
(***************************************************************************)

\* A step that gives no task anything else to sweep for.
LEMMA NoNewSweep ==
  ASSUME AlarmInv, stopped, [Next]_vars, NEW c \in Callers, tasks'[c] = Sweeping
  PROVE  tasks[c] = Sweeping
<1>1. ASSUME NEW d \in Callers, NEW t, TaskInv(t), t # Sweeping, tasks' = [tasks EXCEPT ![d] = t]
      PROVE  tasks[c] = Sweeping
  <2>1. tasks'[d] = t /\ (d # c => tasks'[c] = tasks[c])
    BY <1>1, TaskReplaced
  <2>2. QED
    BY <1>1, <2>1
<1>2. ASSUME NEW d \in Callers, EngineStep(d) \/ Sweep(d) PROVE tasks[c] = Sweeping
  BY <1>1, <1>2, EngineContinues
<1>3. ASSUME NEW d \in Callers, ScheduleStep(d) \/ CallFails(d) PROVE tasks[c] = Sweeping
  BY <1>1, <1>3, ScheduleContinues
<1>4. ASSUME NEW d \in Callers, NEW u \in Timers, Fire(d, u) PROVE tasks[c] = Sweeping
  <2>1. TaskInv(RunTask) /\ tasks' = [tasks EXCEPT ![d] = RunTask] /\ RunTask # Sweeping
    BY <1>4, FireContinues
  <2>2. QED
    BY <1>1, <2>1
<1>5. CASE Tick \/ Stop \/ UNCHANGED vars
  BY <1>5 DEF Tick, Stop, vars
<1>6. CASE Restart
  <2>1. PICK d \in Callers : RestartFor(d)
    BY <1>6 DEF Restart
  <2>2. tasks'[c] = IF c = d /\ SomeoneConnected THEN Scheduling ELSE Idle
    BY <2>1 DEF RestartFor, RescheduleRecovered
  <2>3. QED
    BY <2>2, TaskKinds
<1>7. QED
  BY <1>2, <1>3, <1>4, <1>5, <1>6 DEF Next

\* Once stop() has been called, no timer starts another sweep of the closed
\* database, though a call of schedule under way may still set one (#run).
THEOREM StoppedTimersAreHarmless == Spec => StoppedServersDoNotSweep
<1>1. AlarmInv /\ [Next]_vars
        => [stopped => \A c \in Callers : tasks'[c] = Sweeping => tasks[c] = Sweeping]_vars
  BY NoNewSweep
<1>2. QED
  BY <1>1, AlarmInvHolds, PTL DEF Spec, StoppedServersDoNotSweep

\* A task that is activating a socket, calling schedule or sweeping is one that
\* will look at the room.
LEMMA BusyTasksWatch ==
  ASSUME NEW c \in Callers, tasks'[c].at \in {"activate", "schedule", "sweep"}
  PROVE  Watched'
BY DEF Watched, WillWatch

\* What is in time stays in time, for timers and for tasks that will set one, as
\* long as the stored room is the same.
LEMMA StaysInTime ==
  ASSUME AlarmInv, UNCHANGED stored, clock' \in Nat, clock <= clock'
  PROVE  /\ \A t \in Int : InTime(t) => InTime(t)'
         /\ \A task : TaskInv(task) /\ WillWatch(task) => WillWatch(task)'
<1>1. NextAlarm' = NextAlarm
  BY SameAlarm
<1>2. ASSUME NEW t \in Int, InTime(t) PROVE InTime(t)'
  <2>1. t # None /\ (t <= NextAlarm \/ t <= clock) /\ clock \in Nat
    BY <1>2 DEF InTime, AlarmInv
  <2>2. t <= clock => t <= clock'
    BY <2>1
  <2>3. QED
    BY <1>1, <2>1, <2>2 DEF InTime
<1>3. ASSUME NEW task, TaskInv(task), WillWatch(task) PROVE WillWatch(task)'
  <2>1. CASE task.at = "listSessions"
    <3>1. PICK t \in Int : t = Alarm(task.status, sessions, done)
      BY AlarmIsInteger DEF AlarmInv
    <3>2. Alarm(task.status, sessions, done)' = t
      BY <3>1 DEF stored, Alarm, Earliest, Matching, Away
    <3>3. InTime(t)
      BY <1>3, <2>1, <3>1 DEF WillWatch
    <3>4. InTime(t)'
      BY <1>2, <3>3
    <3>5. InTime(Alarm(task.status, sessions, done))'
      BY <3>2, <3>4 DEF InTime
    <3>6. QED
      BY <2>1, <3>5 DEF WillWatch
  <2>2. CASE task.at = "findFinish"
    <3>1. PICK t \in Int : t = Alarm(task.status, task.sessions, done)
      BY <1>3, <2>2, AlarmIsInteger DEF TaskInv
    <3>2. Alarm(task.status, task.sessions, done)' = t
      BY <3>1 DEF stored, Alarm, Earliest, Matching, Away
    <3>3. InTime(t)
      BY <1>3, <2>2, <3>1 DEF WillWatch
    <3>4. InTime(t)'
      BY <1>2, <3>3
    <3>5. InTime(Alarm(task.status, task.sessions, done))'
      BY <3>2, <3>4 DEF InTime
    <3>6. QED
      BY <2>2, <3>5 DEF WillWatch
  <2>3. CASE task.at \notin {"listSessions", "findFinish"}
    BY <1>3, <2>3 DEF WillWatch
  <2>4. QED
    BY <2>1, <2>2, <2>3
<1>4. QED
  BY <1>2, <1>3

\* Setting the timer leaves the room to the timer it set, early enough whenever
\* what the task had read was, or to those that were running.
LEMMA SetTimerWatches ==
  ASSUME AlarmInv, Watched, NEW c \in Callers, SetTimer(c)
  PROVE  Watched'
<1>1. PICK next : next = Alarm(tasks[c].status, tasks[c].sessions, done)
  OBVIOUS
<1>2. /\ tasks[c].at = "findFinish"
      /\ mapped' = (IF next = None \/ next > clock THEN next ELSE clock)
      /\ leaked' = Timers /\ UNCHANGED <<clock, status, startAt, sessions, done>>
      /\ tasks' = [tasks EXCEPT ![c] = Idle]
  BY <1>1 DEF SetTimer, LeaksTheOther, Continue, stored, Timers
<1>3. NextAlarm' = NextAlarm
  BY <1>2, SameAlarm DEF stored
<1>4. Timers \subseteq Timers' /\ (mapped' # None => mapped' \in Timers')
  BY <1>2 DEF Timers
<1>5. CASE NextAlarm = None
  BY <1>3, <1>5 DEF Watched
<1>6. CASE \E t \in Timers : InTime(t)
  <2>1. PICK t \in Timers : InTime(t)
    BY <1>6
  <2>2. t \in Timers' /\ InTime(t)'
    BY <1>2, <1>3, <1>4, <2>1 DEF InTime
  <2>3. QED
    BY <2>2 DEF Watched
<1>7. CASE WillWatch(tasks[c])
  <2>1. InTime(next)
    BY <1>1, <1>2, <1>7 DEF WillWatch
  <2>2. mapped' # None /\ (mapped' = next \/ mapped' = clock)
    BY <1>2, <2>1 DEF InTime, AlarmInv, None
  <2>3. mapped' = next => mapped' <= NextAlarm \/ mapped' <= clock
    BY <2>1 DEF InTime
  <2>4. mapped' = clock => mapped' <= clock
    BY DEF AlarmInv
  <2>5. PICK t \in Timers' : t = mapped' /\ t # None /\ (t <= NextAlarm \/ t <= clock)
    BY <1>4, <2>2, <2>3, <2>4
  <2>6. InTime(t)'
    BY <1>2, <1>3, <2>5 DEF InTime
  <2>7. QED
    BY <2>5, <2>6 DEF Watched
<1>8. CASE \E d \in Callers : d # c /\ WillWatch(tasks[d])
  <2>1. PICK d \in Callers : d # c /\ WillWatch(tasks[d])
    BY <1>8
  <2>2. tasks'[d] = tasks[d]
    BY <1>2, <2>1, TaskKinds, TaskReplaced
  <2>3. PICK task : task = tasks[d] /\ task = tasks'[d] /\ TaskInv(task) /\ WillWatch(task)
    BY <2>1, <2>2 DEF AlarmInv
  <2>4. WillWatch(task)'
    BY <1>2, <2>3, StaysInTime DEF AlarmInv, stored
  <2>5. QED
    BY <2>1, <2>3, <2>4 DEF Watched
<1>9. QED
  BY <1>5, <1>6, <1>7, <1>8 DEF Watched

\* A call of schedule that has cleared the timer knows the status the room has.
LEMMA ScheduleWatches ==
  ASSUME AlarmInv, ~stopped, NEW c \in Callers, Schedule(c)
  PROVE  Watched'
<1>1. PICK task : task = ReadsSessions(status) /\ tasks' = [tasks EXCEPT ![c] = task]
                  /\ UNCHANGED <<clock, status, startAt, sessions, done>>
  BY DEF Schedule, Continue, stored
<1>2. task.at = "listSessions" /\ task.status = status /\ tasks'[c] = task
  BY <1>1, TaskKinds, TaskReplaced
<1>3. NextAlarm' = NextAlarm
  BY <1>1, SameAlarm DEF stored
<1>4. CASE NextAlarm = None
  BY <1>3, <1>4 DEF Watched
<1>5. CASE NextAlarm # None
  <2>1. PICK t \in Int : t = NextAlarm
    BY AlarmIsInteger DEF NextAlarm, AlarmInv
  <2>2. Alarm(task.status, sessions, done)' = t /\ NextAlarm' = t
    <3>1. Alarm(task.status, sessions, done) = t
      BY <1>2, <2>1 DEF NextAlarm
    <3>2. QED
      BY <1>1, <1>3, <2>1, <3>1 DEF Alarm, Earliest, Matching, Away
  <2>3. InTime(Alarm(task.status, sessions, done))'
    BY <1>5, <2>1, <2>2 DEF InTime
  <2>4. WillWatch(task)'
    BY <1>2, <2>3 DEF WillWatch
  <2>5. QED
    BY <1>2, <2>4 DEF Watched
<1>6. QED
  BY <1>4, <1>5

\* What is read of the sessions, once the stored room is watched, is what it has.
LEMMA ListSessionsWatches ==
  ASSUME AlarmInv, Watched, NEW c \in Callers, ListSessions(c)
  PROVE  Watched'
<1>1. PICK task, was : /\ was = tasks[c] /\ was.at = "listSessions" /\ TaskInv(was)
                       /\ task = ReadsFinishes(was.status, sessions)
                       /\ tasks' = [tasks EXCEPT ![c] = task]
                       /\ UNCHANGED <<clock, status, startAt, sessions, done, mapped, leaked>>
  BY DEF ListSessions, Continue, stored, timerSet, AlarmInv
<1>2. /\ task.at = "findFinish" /\ task.status = was.status /\ task.sessions = sessions
      /\ TaskInv(task) /\ tasks'[c] = task
      /\ \A d \in Callers : d # c => tasks'[d] = tasks[d]
  <2>1. task.at = "findFinish" /\ task.status = was.status /\ task.sessions = sessions /\ TaskInv(task)
    BY <1>1, TaskKinds DEF AlarmInv
  <2>2. QED
    BY <1>1, <2>1, TaskReplaced
<1>3. NextAlarm' = NextAlarm /\ Timers' = Timers /\ clock \in Nat
  BY <1>1, SameAlarm DEF stored, Timers, AlarmInv
<1>4. CASE NextAlarm = None \/ \E t \in Timers : InTime(t)
  BY <1>1, <1>3, <1>4 DEF Watched, InTime
<1>5. CASE WillWatch(tasks[c])
  <2>1. InTime(Alarm(was.status, sessions, done))
    BY <1>1, <1>5 DEF WillWatch
  <2>2. WillWatch(task)
    BY <1>2, <2>1 DEF WillWatch
  <2>3. WillWatch(task)'
    BY <1>1, <1>2, <1>3, <2>2, StaysInTime DEF stored
  <2>4. QED
    BY <1>2, <2>3 DEF Watched
<1>6. CASE \E d \in Callers : d # c /\ WillWatch(tasks[d])
  <2>1. PICK d \in Callers : d # c /\ WillWatch(tasks[d])
    BY <1>6
  <2>2. PICK other : other = tasks[d] /\ other = tasks'[d] /\ TaskInv(other) /\ WillWatch(other)
    BY <1>2, <2>1 DEF AlarmInv
  <2>3. WillWatch(other)'
    BY <1>1, <1>3, <2>2, StaysInTime DEF stored
  <2>4. QED
    BY <2>1, <2>2, <2>3 DEF Watched
<1>7. QED
  BY <1>4, <1>5, <1>6 DEF Watched

\* The clock takes no watcher away, nor does a step that changes nothing.
LEMMA TimeWatches ==
  ASSUME AlarmInv, Watched, Tick \/ UNCHANGED vars
  PROVE  Watched'
<1>1. /\ UNCHANGED <<status, startAt, sessions, done, mapped, leaked, tasks>>
      /\ clock \in Nat /\ clock' \in Nat /\ clock <= clock'
  BY DEF Tick, vars, stored, timerSet, AlarmInv
<1>2. NextAlarm' = NextAlarm /\ Timers' = Timers /\ Timers \subseteq Nat
  BY <1>1, SameAlarm DEF stored, Timers, AlarmInv
<1>3. CASE NextAlarm = None
  BY <1>2, <1>3 DEF Watched
<1>4. CASE \E t \in Timers : InTime(t)
  <2>1. PICK t \in Int : t \in Timers /\ InTime(t)
    BY <1>2, <1>4
  <2>2. InTime(t)'
    BY <1>1, <2>1, StaysInTime DEF stored
  <2>3. t \in Timers'
    BY <1>2, <2>1
  <2>4. QED
    BY <2>2, <2>3 DEF Watched
<1>5. CASE \E c \in Callers : WillWatch(tasks[c])
  <2>1. PICK c \in Callers : WillWatch(tasks[c])
    BY <1>5
  <2>2. PICK task : task = tasks[c] /\ task = tasks'[c] /\ TaskInv(task) /\ WillWatch(task)
    BY <1>1, <2>1 DEF AlarmInv
  <2>3. WillWatch(task)'
    BY <1>1, <2>2, StaysInTime DEF stored
  <2>4. QED
    BY <2>1, <2>2, <2>3 DEF Watched
<1>6. QED
  BY <1>3, <1>4, <1>5 DEF Watched

\* The steps that may leave a room without anything that will look at it.
LEMMA WhatForgets ==
  ASSUME AlarmInv, [Next]_vars, ~stopped, ~stopped', Watched, ~Watched'
  PROVE  \/ \E c \in Callers : CallFails(c) \/ ActivateFails(c)
         \/ Restart /\ ~SomeoneConnected
<1>1. ASSUME NEW c \in Callers, EngineStep(c) \/ Sweep(c) PROVE ActivateFails(c)
  <2>1. PICK t : /\ TaskInv(t) /\ tasks' = [tasks EXCEPT ![c] = t]
                 /\ t.at \in {"activate", "schedule"} \/ ActivateFails(c)
    BY <1>1, EngineContinues
  <2>2. tasks'[c] = t
    BY <2>1, TaskReplaced
  <2>3. QED
    BY <2>1, <2>2, BusyTasksWatch
<1>2. ASSUME NEW c \in Callers, ScheduleStep(c) PROVE FALSE
  BY <1>2, ScheduleWatches, ListSessionsWatches, SetTimerWatches DEF ScheduleStep
<1>3. ASSUME NEW c \in Callers, NEW t \in Timers, Fire(c, t) PROVE FALSE
  <2>1. TaskInv(Sweeping) /\ tasks' = [tasks EXCEPT ![c] = Sweeping] /\ Sweeping.at = "sweep"
    BY <1>3, FireContinues, TaskKinds
  <2>2. tasks'[c] = Sweeping
    BY <2>1, TaskReplaced
  <2>3. QED
    BY <2>1, <2>2, BusyTasksWatch
<1>4. CASE Tick \/ UNCHANGED vars
  BY <1>4, TimeWatches
<1>5. CASE Stop
  BY <1>5 DEF Stop
<1>6. CASE Restart
  <2>1. PICK c \in Callers : RestartFor(c)
    BY <1>6 DEF Restart
  <2>2. CASE SomeoneConnected
    <3>1. tasks'[c] = Scheduling
      BY <2>1, <2>2 DEF RestartFor, RescheduleRecovered
    <3>2. QED
      BY <3>1, TaskKinds, BusyTasksWatch
  <2>3. QED
    BY <1>6, <2>2
<1>7. QED
  BY <1>1, <1>2, <1>3, <1>4, <1>5, <1>6 DEF Next

\* However many calls of schedule overlap, tear each other's reads or overwrite
\* each other's timers, a room that needs attention keeps a timer or a task on its
\* way to set one: while the server runs, only an error of the storage, a reconnect
\* that is taken back and a restart with nobody connected leave it without.
THEOREM RoomsAreRemembered == Spec => OnlyTheseForgetARoom
<1>1. AlarmInv /\ [Next]_vars
        => [~stopped /\ ~stopped' /\ Watched /\ ~Watched' =>
              \/ \E c \in Callers : CallFails(c) \/ ActivateFails(c)
              \/ Restart /\ ~SomeoneConnected]_vars
  BY WhatForgets
<1>2. QED
  BY <1>1, AlarmInvHolds, PTL DEF Spec, OnlyTheseForgetARoom
=============================================================================
