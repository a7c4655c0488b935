------------------------------ MODULE RoomAlarms ------------------------------
(***************************************************************************)
(* The sparse room timers of RelayPlay's Node server (class                *)
(* RoomAlarmScheduler of packages/node/src/room-alarms.ts) with their      *)
(* callers: the WebSocket gateway, start-up and shutdown of the server.    *)
(* Nothing polls a room: what is due happens only if a timer is running.   *)
(*                                                                         *)
(* One room.  Engine operations run one at a time (KeyedSerialQueue), but  *)
(* nextAlarmAt is not queued and awaits between its reads, so calls of     *)
(* schedule overlap each other and everything else.  The engine appears    *)
(* with what alarms depend on; module RoomEngine has all of it.            *)
(*                                                                         *)
(* A definition placed right before the one it varies (and used by no      *)
(* action) is a plausible mistake for the mutation runs.                   *)
(***************************************************************************)
EXTENDS Integers, FiniteSets

CONSTANTS
  Players,       \* authenticated player ids
  Callers,       \* asynchronous tasks that may be under way at once
  Grace,         \* room.disconnectGraceMs, in ticks of the clock
  StartDelay,    \* delay of a scheduled start, in ticks
  MaxClock,      \* bound: the last tick
  MaxFaults      \* bound: storage errors and restarts of the process

ASSUME AlarmAssumption ==
  /\ Grace \in Nat /\ StartDelay \in Nat /\ MaxClock \in Nat
  /\ MaxFaults \in Nat

VARIABLES
  clock,
  \* stored: the room's status and start time, its sessions, who has an outcome
  status, startAt, sessions, done,
  \* RoomAlarmScheduler: the running timer in #timers, running timers that
  \* #timers has lost, #stopped
  mapped, leaked, stopped,
  tasks,         \* what each asynchronous task is about to do
  faults

stored   == <<status, startAt, sessions, done>>
timerSet == <<mapped, leaked, stopped>>
vars     == <<clock, status, startAt, sessions, done, mapped, leaked, stopped,
              tasks, faults>>

None      == -1
Absent    == -2
Connected == -3
Ticks     == 0 .. MaxClock
Times     == 0 .. MaxClock + Grace + StartDelay

\* The value of sessions[p]: absent, connected, or disconnected since a tick.
Away(p, ss) == ss[p] >= 0

Idle             == [at |-> "idle"]
Activating(p, s) == [at |-> "activate", player |-> p, existing |-> s]
Scheduling       == [at |-> "schedule"]      \* schedule() is called next
Sweeping         == [at |-> "sweep"]         \* engine.sweep() is queued
\* Inside nextAlarmAt, with what has been read so far.
ReadsSessions(s)     == [at |-> "listSessions", status |-> s]
ReadsFinishes(s, ss) == [at |-> "findFinish", status |-> s, sessions |-> ss]

Free(c) == tasks[c] = Idle
\* The room's queue is free: no operation is waiting for a socket's activation.
QueueFree == \A c \in Callers : tasks[c].at # "activate"

Timers == leaked \cup ({mapped} \ {None})
Earliest(S) == IF S = {} THEN None ELSE CHOOSE t \in S : \A u \in S : t <= u

(***************************************************************************)
(* The engine, as far as alarms see it                                     *)
(***************************************************************************)

Matching(s) == s \in {"scheduled", "running"}

\* nextAlarmAt, from what its reads returned (startAt is set only once).
Alarm(s, ss, finished) ==
  Earliest((IF s = "scheduled" THEN {startAt} ELSE {})
    \cup {ss[p] + Grace : p \in {q \in Players :
            Away(q, ss) /\ ~(Matching(s) /\ q \in finished)}})

\* advanceRoom.
Advanced == IF status = "scheduled" /\ startAt <= clock THEN "running" ELSE status

ExpiredLater(p) == Away(p, sessions) /\ sessions[p] + Grace < clock
Expired(p) == Away(p, sessions) /\ sessions[p] + Grace <= clock

\* During a match the participants are exactly the players with a session
\* (ParticipantsKeepTheirSessions of RoomEngine).
Participants == {p \in Players : sessions[p] # Absent}
StatusWhenDone(d) == IF Matching(Advanced) /\ Participants \subseteq d
                     THEN "finished" ELSE Advanced
DropExpired == [p \in Players |-> IF Expired(p) THEN Absent ELSE sessions[p]]

Init ==
  /\ clock = 0
  /\ status = "waiting" /\ startAt = None
  /\ sessions = [p \in Players |-> Absent] /\ done = {}
  /\ mapped = None /\ leaked = {} /\ stopped = FALSE
  /\ tasks = [c \in Callers |-> Idle]
  /\ faults = 0

Tick ==
  /\ clock < MaxClock
  /\ clock' = clock + 1
  /\ UNCHANGED <<stored, timerSet, tasks, faults>>

(***************************************************************************)
(* Operations of the engine that a task of the gateway makes; each is      *)
(* followed by schedule(), unless it throws.                               *)
(***************************************************************************)

Serves(c) == Free(c) /\ QueueFree
ThenSchedules(c) ==
  /\ tasks' = [tasks EXCEPT ![c] = Scheduling]
  /\ UNCHANGED <<clock, timerSet, faults>>

\* engine.connect stores the connected session, then activates the socket.
Connect(c, p) ==
  /\ Serves(c) /\ ~stopped
  /\ sessions[p] = Absent => Advanced = "waiting"
  /\ sessions[p] # Connected
  /\ sessions' = [sessions EXCEPT ![p] = Connected]
  /\ status' = Advanced
  /\ tasks' = [tasks EXCEPT ![c] = Activating(p, sessions[p])]
  /\ UNCHANGED <<clock, startAt, done, timerSet, faults>>

Activate(c) ==
  /\ tasks[c].at = "activate"
  /\ ThenSchedules(c)
  /\ UNCHANGED stored

\* The socket is gone: the session is put back, connect rejects, and the
\* gateway does not call schedule().
ActivateFails(c) ==
  /\ tasks[c].at = "activate"
  /\ sessions' = [sessions EXCEPT ![tasks[c].player] = tasks[c].existing]
  /\ tasks' = [tasks EXCEPT ![c] = Idle]
  /\ UNCHANGED <<clock, status, startAt, done, timerSet, faults>>

DisconnectUnscheduled(c, p) ==
  /\ Serves(c)
  /\ sessions[p] = Connected
  /\ sessions' = [sessions EXCEPT ![p] = clock]
  /\ UNCHANGED <<clock, status, startAt, done, timerSet, tasks, faults>>
Disconnect(c, p) ==
  /\ Serves(c)
  /\ sessions[p] = Connected
  /\ sessions' = [sessions EXCEPT ![p] = clock]
  /\ UNCHANGED <<status, startAt, done>>
  /\ ThenSchedules(c)

\* A "ready" completes the quorum.
StartIsScheduled(c) ==
  /\ Serves(c) /\ ~stopped
  /\ status = "waiting"
  /\ Participants # {} /\ \A p \in Participants : sessions[p] = Connected
  /\ status' = "scheduled" /\ startAt' = clock + StartDelay
  /\ UNCHANGED <<sessions, done>>
  /\ ThenSchedules(c)

Finish(c, p) ==
  /\ Serves(c) /\ ~stopped
  /\ Advanced = "running"
  /\ sessions[p] = Connected /\ p \notin done
  /\ done' = done \cup {p}
  /\ status' = StatusWhenDone(done')
  /\ sessions' = IF status' = "finished" THEN DropExpired ELSE sessions
  /\ UNCHANGED startAt
  /\ ThenSchedules(c)

\* Any other frame of a connected player.
OtherFrame(c) ==
  /\ Serves(c) /\ ~stopped
  /\ \E p \in Players : sessions[p] = Connected
  /\ status' = Advanced
  /\ UNCHANGED <<startAt, sessions, done>>
  /\ ThenSchedules(c)

(***************************************************************************)
(* schedule                                                                *)
(***************************************************************************)

Continue(c, task) ==
  /\ tasks' = [tasks EXCEPT ![c] = task]
  /\ UNCHANGED <<clock, stored, faults>>

\* The timer in #timers is cleared; nextAlarmAt reads the room.
Schedule(c) ==
  /\ tasks[c].at = "schedule"
  /\ IF stopped
     THEN Continue(c, Idle) /\ UNCHANGED timerSet
     ELSE Continue(c, ReadsSessions(status)) /\ mapped' = None /\ UNCHANGED <<leaked, stopped>>

ListSessions(c) ==
  /\ tasks[c].at = "listSessions"
  /\ Continue(c, ReadsFinishes(tasks[c].status, sessions))
  /\ UNCHANGED timerSet

\* An entry that another call put into #timers meanwhile is overwritten, or
\* deleted, but its timer still runs.
LeaksTheOther == leaked \cup ({mapped} \ {None})

SetTimer(c) ==
  /\ tasks[c].at = "findFinish"
  /\ LET next == Alarm(tasks[c].status, tasks[c].sessions, done) IN
       mapped' = IF next = None \/ next > clock THEN next ELSE clock
  /\ leaked' = LeaksTheOther
  /\ Continue(c, Idle)
  /\ UNCHANGED stopped

(***************************************************************************)
(* A timer fires                                                           *)
(***************************************************************************)

\* #run.
RunTaskAlways == Sweeping
RunTask == IF stopped THEN Idle ELSE Sweeping

\* Whatever #timers holds is deleted, the firing timer's entry or not.
Fire(c, t) ==
  /\ Free(c)
  /\ t \in Timers /\ t <= clock
  /\ leaked' = Timers \ {t} /\ mapped' = None
  /\ Continue(c, RunTask)
  /\ UNCHANGED stopped

\* engine.sweep: forfeits the expired of a match, forgets those of any other room.
Sweep(c) ==
  /\ tasks[c].at = "sweep" /\ QueueFree
  /\ done' = IF Matching(Advanced) THEN done \cup {p \in Players : Expired(p)} ELSE done
  /\ status' = StatusWhenDone(done')
  /\ sessions' = IF Matching(status') THEN sessions ELSE DropExpired
  /\ UNCHANGED startAt
  /\ ThenSchedules(c)

\* The storage throws in sweep or nextAlarmAt: logged, and that is all.
CallFails(c) ==
  /\ faults < MaxFaults
  /\ tasks[c].at \in {"sweep", "listSessions", "findFinish"}
  /\ faults' = faults + 1
  /\ tasks' = [tasks EXCEPT ![c] = Idle]
  /\ UNCHANGED <<clock, stored, timerSet>>

(***************************************************************************)
(* The server's life cycle                                                 *)
(***************************************************************************)

\* RelayPlayNodeServer.stop: the timers in #timers are cleared; sockets are
\* closed, each with its Disconnect.
Stop ==
  /\ ~stopped /\ faults < MaxFaults
  /\ stopped' = TRUE /\ mapped' = None
  /\ UNCHANGED <<clock, stored, leaked, tasks, faults>>

SomeoneConnected == \E p \in Players : sessions[p] = Connected

\* The process ends, killed or stopped, and starts again: sessions that are
\* connected become disconnected, and only a room that had one is scheduled
\* (the server listens only after that call; here players come back at once).
RescheduleRecovered(c) ==
  [d \in Callers |-> IF d = c /\ SomeoneConnected THEN Scheduling ELSE Idle]

RestartFor(c) ==
  /\ faults < MaxFaults
  /\ faults' = faults + 1
  /\ sessions' = [p \in Players |-> IF sessions[p] = Connected THEN clock ELSE sessions[p]]
  /\ mapped' = None /\ leaked' = {} /\ stopped' = FALSE
  /\ tasks' = RescheduleRecovered(c)
  /\ UNCHANGED <<clock, status, startAt, done>>
Restart == \E c \in Callers : RestartFor(c)

ScheduleStep(c) == Schedule(c) \/ ListSessions(c) \/ SetTimer(c)
EngineStep(c) ==
  \/ \E p \in Players : Connect(c, p) \/ Disconnect(c, p) \/ Finish(c, p)
  \/ Activate(c) \/ ActivateFails(c) \/ StartIsScheduled(c) \/ OtherFrame(c)

Next ==
  \/ Tick \/ Stop \/ Restart
  \/ \E c \in Callers :
       \/ EngineStep(c) \/ ScheduleStep(c)
       \/ \E t \in Timers : Fire(c, t)
       \/ Sweep(c) \/ CallFails(c)

Spec == Init /\ [][Next]_vars

\* The event loop goes on with every task, and runs a timer that has expired
\* even when frames keep coming.
FairSpec ==
  /\ Spec
  /\ \A c \in Callers : WF_vars(ScheduleStep(c) \/ Activate(c) \/ ActivateFails(c))
  /\ SF_vars(\E c \in Callers : Sweep(c))
  /\ SF_vars(\E c \in Callers : \E t \in Timers : Fire(c, t))

(***************************************************************************)
(* Properties                                                              *)
(***************************************************************************)

\* What is due next in the stored room.
NextAlarm == Alarm(status, sessions, done)

InTime(t) == t # None /\ (t <= NextAlarm \/ t <= clock)

\* The task will set a timer that is early enough, whatever it has read so far.
WillWatch(task) ==
  CASE task.at = "idle"         -> FALSE
    [] task.at = "listSessions" -> InTime(Alarm(task.status, sessions, done))
    [] task.at = "findFinish"   -> InTime(Alarm(task.status, task.sessions, done))
    [] OTHER                    -> TRUE

\* Something will look at the room in time: a timer, or a task on its way to
\* set one.
Watched ==
  \/ NextAlarm = None
  \/ \E t \in Timers : InTime(t)
  \/ \E c \in Callers : WillWatch(tasks[c])

\* Overlapping, torn and repeated calls of schedule never leave a room that
\* will need attention without any: while the server runs, only an error of
\* the storage, a reconnect that is taken back, and a restart with nobody
\* connected do.
OnlyTheseForgetARoom ==
  [][~stopped /\ ~stopped' /\ Watched /\ ~Watched' =>
       \/ \E c \in Callers : CallFails(c) \/ ActivateFails(c)
       \/ Restart /\ ~SomeoneConnected]_vars

\* After stop() no timer touches the room any more, though a call of schedule
\* that was under way may still set one.
StoppedServersDoNotSweep ==
  [][stopped => \A c \in Callers : tasks'[c] = Sweeping => tasks[c] = Sweeping]_vars

\* What is due in a room that is watched is dealt with, unless the room is
\* forgotten (see OnlyTheseForgetARoom) or the server stopped.
Due == NextAlarm # None /\ NextAlarm <= clock
DueRoomsAreSwept == (Due /\ Watched /\ ~stopped) ~> (~Due \/ ~Watched \/ stopped)

=============================================================================
