------------------------------- MODULE Health -------------------------------
(***************************************************************************)
(* The supervisor (internal/health) beside the sync engine it watches and  *)
(* the configuration that changes under both.  A check reads the clock,    *)
(* asks SQLite, and then reads the switch, the status, the policy and the  *)
(* interval one after the other; it publishes an event once per episode.   *)
(* The loop of the sync engine appears as its timetable only (Scheduler    *)
(* has the rest): a round is due one interval after the ticker was reset,  *)
(* and at once when sync is resumed.                                       *)
(*                                                                         *)
(* Time is counted in units; none passes while somebody is due, and none   *)
(* within a check, which asks SQLite for two seconds at most.  The clocks  *)
(* stop at the bounds where no comparison can tell them apart.             *)
(***************************************************************************)
EXTENDS Integers, FiniteSetsExt

CONSTANTS
  Policies,   \* states to publish: [enabled, interval, timeout, alert], times in units
  Grace,      \* StartupGrace
  MaxChanges, \* bound: publications
  MaxFaults   \* bound: SQLite stops answering or answers again

ASSUME HealthAssumption ==
  /\ Policies \subseteq [enabled : BOOLEAN, interval : Nat \ {0}, timeout : Nat \ {0},
                          alert : BOOLEAN]
  /\ Policies # {} /\ Grace \in Nat \ {0}

VARIABLES
  config,         \* the published state
  answers,        \* SQLite answers within its two seconds
  \* the sync engine
  loop,           \* "off", "idle", "round", "closing", "ended"
  pendingResume, tickerInterval,
  roundCompleted, \* the round is one of the ticker or of a trigger
  lastRound,      \* "none", "good", "bad"
  \* clocks
  ticked, synced, begun, process,
  main,           \* step of run.go
  \* the supervisor
  at, seen, wasUnhealthy, published,
  changes, faults,
  \* history
  moved,          \* the timetable was changed since the last round
  excused,        \* it was when this check read the status, or since
  told            \* events since a check last found all well

clocks  == <<ticked, synced, begun, process>>
engine  == <<loop, pendingResume, tickerInterval, roundCompleted, lastRound>>
checker == <<at, seen, wasUnhealthy, published>>
vars == <<config, answers, engine, clocks, main, checker, changes, faults, moved,
          excused, told>>

Later(clock, bound) == IF clock > bound THEN clock ELSE clock + 1

MaxInterval == Max({p.interval : p \in Policies})
MaxTimeout  == Max({p.timeout : p \in Policies})
MaxLapse    == MaxInterval + MaxTimeout

Init ==
  /\ config \in Policies
  /\ answers = TRUE
  /\ loop = "off" /\ pendingResume = FALSE /\ tickerInterval = config.interval
  /\ roundCompleted = FALSE /\ lastRound = "none"
  /\ ticked = 0 /\ synced = 0 /\ begun = 0 /\ process = 0
  /\ main = "wait"
  /\ at = "off" /\ seen = {}
  /\ wasUnhealthy = FALSE /\ published = FALSE
  /\ changes = 0 /\ faults = 0
  /\ moved = FALSE /\ excused = FALSE /\ told = 0

-----------------------------------------------------------------------------
(***************************************************************************)
(* The sync engine.                                                        *)
(***************************************************************************)
EngineOnly ==
  UNCHANGED <<config, answers, main, checker, changes, faults, excused, told>>

Running == loop \in {"idle", "round", "closing"}

\* Run: the first round begins at once unless sync is paused.
LoopStarts ==
  /\ loop = "off"
  /\ loop' = IF config.enabled THEN "round" ELSE "idle"
  /\ pendingResume' = FALSE /\ tickerInterval' = config.interval
  /\ ticked' = 0 /\ begun' = 0
  /\ UNCHANGED <<roundCompleted, lastRound, synced, process, moved>> /\ EngineOnly

TickDue == config.enabled /\ ticked >= tickerInterval

\* At a tick, at a manual trigger (at any time) or at a resume, which resets
\* the ticker before its round.
BeginRound ==
  /\ loop = "idle" /\ config.enabled /\ main # "ended"
  /\ loop' = "round" /\ begun' = 0
  /\ IF pendingResume
     THEN tickerInterval' = config.interval /\ ticked' = 0
     ELSE UNCHANGED <<tickerInterval, ticked>>
  /\ pendingResume' = FALSE /\ roundCompleted' = ~pendingResume
  /\ UNCHANGED <<lastRound, synced, process, moved>> /\ EngineOnly

NewInterval ==
  /\ loop = "idle" /\ config.enabled /\ ~pendingResume
  /\ tickerInterval # config.interval
  /\ tickerInterval' = config.interval /\ ticked' = 0
  /\ UNCHANGED <<loop, pendingResume, roundCompleted, lastRound, synced, begun, process, moved>> /\ EngineOnly

\* syncAll: the time and the outcome of the round in one critical section.
Conclude ==
  /\ loop = "round"
  /\ loop' = "closing"
  /\ lastRound' \in {"good", "bad"}
  /\ synced' = 0 /\ moved' = FALSE
  /\ process' = 0  \* nobody asks for it again
  /\ UNCHANGED <<pendingResume, tickerInterval, roundCompleted, ticked, begun>> /\ EngineOnly

\* Its deferred call clears roundStarted; a round of the ticker or of a
\* trigger resets the ticker, the first one and that of a resume do not.
EndRound ==
  /\ loop = "closing"
  /\ loop' = "idle" /\ begun' = 0
  /\ IF roundCompleted /\ config.enabled
     THEN tickerInterval' = config.interval /\ ticked' = 0
     ELSE UNCHANGED <<tickerInterval, ticked>>
  /\ roundCompleted' = FALSE
  /\ UNCHANGED <<pendingResume, lastRound, synced, process, moved>> /\ EngineOnly

LoopEnds ==
  /\ main = "ended" /\ loop = "idle"
  /\ loop' = "ended"
  /\ UNCHANGED <<pendingResume, tickerInterval, roundCompleted, lastRound, clocks, moved>> /\ EngineOnly

-----------------------------------------------------------------------------
(***************************************************************************)
(* The configuration, and SQLite.                                          *)
(***************************************************************************)
\* ApplyState; the supervisor is woken after it.  Only a pause leaves the
\* timetable as it was.
Publish ==
  /\ changes < MaxChanges
  /\ changes' = changes + 1
  /\ config' \in Policies
  /\ pendingResume' = (config'.enabled /\ (pendingResume \/ ~config.enabled))
  /\ LET moves == \/ config'.enabled /\ ~config.enabled
                  \/ config'.interval # config.interval \/ config'.timeout < config.timeout
     IN moved' = (moved \/ moves) /\ excused' = (excused \/ moves)
  /\ UNCHANGED <<answers, loop, tickerInterval, roundCompleted, lastRound, clocks, main, checker, faults, told>>

Fault ==
  /\ faults < MaxFaults /\ faults' = faults + 1
  /\ answers' = ~answers
  /\ UNCHANGED <<config, engine, clocks, main, checker, changes, moved, excused, told>>

-----------------------------------------------------------------------------
(***************************************************************************)
(* The supervisor: Evaluate step by step, then check.                      *)
(***************************************************************************)
CheckerUnchanged ==
  UNCHANGED <<config, answers, engine, clocks, main, changes, faults, moved>>

Moves(from, to) == at = from /\ at' = to

\* The first check, or one at a tick or at a wake, at any time; SQLite first.
BeginCheck ==
  /\ Moves("first", "switch") \/ Moves("select", "switch")
  /\ seen' = [answers |-> answers]
  /\ UNCHANGED <<wasUnhealthy, published, excused, told>> /\ CheckerUnchanged

\* Status reads the switch before it takes the lock.
ReadSwitch ==
  /\ Moves("switch", "status")
  /\ seen' = [answers |-> seen.answers, enabled |-> config.enabled]
  /\ UNCHANGED <<wasUnhealthy, published, excused, told>> /\ CheckerUnchanged

ReadStatus ==
  /\ Moves("status", "policy")
  /\ seen' = [answers |-> seen.answers, enabled |-> seen.enabled,
              running |-> Running, started |-> loop # "off",
              inRound |-> loop \in {"round", "closing"}, last |-> lastRound,
              synced |-> synced, begun |-> begun, process |-> process]
  /\ excused' = moved
  /\ UNCHANGED <<wasUnhealthy, published, told>> /\ CheckerUnchanged

StopReason(s) == ~s.running /\ (s.started \/ s.process > Grace)

\* Mutant of StallReason: a round underway does not count.
StallReasonInRound(s, interval, timeout) == s.last # "none" /\ s.synced > interval + timeout

StallReason(s, interval, timeout) ==
  ~s.inRound /\ IF s.last # "none" THEN s.synced > interval + timeout ELSE s.process > timeout

Reasons(s, interval, timeout) ==
  {r \in {"sqlite", "stopped", "slow", "failed", "stalled"} :
     \/ r = "sqlite"  /\ ~s.answers
     \/ r = "stopped" /\ StopReason(s)
     \/ /\ s.enabled
        /\ \/ r = "slow"    /\ s.inRound /\ s.begun > timeout
           \/ r = "failed"  /\ s.last = "bad"
           \/ r = "stalled" /\ StallReason(s, interval, timeout)}

ReadPolicy ==
  /\ Moves("policy", "interval")
  /\ seen' = [status |-> seen, timeout |-> config.timeout]
  /\ UNCHANGED <<wasUnhealthy, published, excused, told>> /\ CheckerUnchanged

ReadInterval ==
  /\ Moves("interval", "decide")
  /\ seen' = Reasons(seen.status, config.interval, seen.timeout)
  /\ UNCHANGED <<wasUnhealthy, published, excused, told>> /\ CheckerUnchanged

\* Mutant of Announced: the switch is not asked.
AnnouncedAnyway(before) == TRUE

\* An event is published if the switch is on, the first time in the episode.
Announced(before) == before \/ config.alert

\* check after Evaluate.
Decide ==
  /\ Moves("decide", "select")
  /\ \/ seen = {} /\ wasUnhealthy' = FALSE /\ published' = FALSE /\ told' = 0
     \/ /\ seen # {}
        /\ wasUnhealthy' = TRUE
        /\ LET before == wasUnhealthy /\ published IN
             /\ published' = Announced(before)
             /\ told' = IF config.alert /\ ~before THEN told + 1 ELSE told
  /\ seen' = {} /\ excused' = FALSE
  /\ CheckerUnchanged

SupervisorReturns ==
  /\ Moves("select", "done")
  /\ main = "joinSupervisor"
  /\ UNCHANGED <<seen, wasUnhealthy, published, excused, told>> /\ CheckerUnchanged

-----------------------------------------------------------------------------
(***************************************************************************)
(* run.go: the engine before its supervisor, and the supervisor out before *)
(* the engine.                                                             *)
(***************************************************************************)
MainMoves(from, to) ==
  /\ main = from /\ main' = to
  /\ UNCHANGED <<config, answers, engine, clocks, changes, faults, moved, excused,
                 told>>

\* waitSyncerRunning gives up after its two seconds.
StartSupervisor ==
  /\ MainMoves("wait", "serve")
  /\ Running \/ process > 0
  /\ at' = "first"
  /\ UNCHANGED <<seen, wasUnhealthy, published>>

BeginShutdown == MainMoves("serve", "joinSupervisor") /\ UNCHANGED checker

\* Mutant of Joined: main does not wait for the supervisor.
JoinedAtOnce == TRUE

Joined == at = "done"

StopEngine == MainMoves("joinSupervisor", "ended") /\ Joined /\ UNCHANGED checker

-----------------------------------------------------------------------------
(***************************************************************************)
(* Time.                                                                   *)
(***************************************************************************)
Due ==
  \/ loop = "off" /\ process >= Grace
  \/ loop = "idle" /\ config.enabled /\ (pendingResume \/ tickerInterval # config.interval)
  \/ loop = "idle" /\ TickDue
  \/ loop = "closing"
  \/ at \notin {"off", "select", "done"}

TimePasses ==
  /\ ~Due
  /\ ticked' = IF roundCompleted \/ ~config.enabled THEN ticked ELSE Later(ticked, tickerInterval - 1)
  /\ synced' = IF lastRound = "none" THEN 0 ELSE Later(synced, MaxLapse)
  /\ begun' = IF loop = "round" THEN Later(begun, MaxTimeout) ELSE 0
  /\ process' = IF lastRound = "none" THEN Later(process, MaxTimeout + Grace) ELSE process
  /\ UNCHANGED <<config, answers, engine, main, checker, changes, faults, moved, excused, told>>

Check ==
  BeginCheck \/ ReadSwitch \/ ReadStatus \/ ReadPolicy \/ ReadInterval \/ Decide

Next ==
  \/ LoopStarts \/ BeginRound \/ NewInterval \/ Conclude \/ EndRound \/ LoopEnds
  \/ Publish \/ Fault
  \/ Check \/ SupervisorReturns
  \/ StartSupervisor \/ BeginShutdown \/ StopEngine
  \/ TimePasses

Spec == Init /\ [][Next]_vars

\* The supervisor's ticker goes on, and a check does not hang: SQLite is given
\* two seconds, the rest is memory.
FairSpec == Spec /\ WF_vars(Check)

-----------------------------------------------------------------------------
(***************************************************************************)
(* Properties.                                                             *)
(***************************************************************************)
\* A stall is never reported of an engine that keeps its timetable: not
\* during a long round, nor between two reads of a check, but only if the
\* timetable was moved since the last round, by a resume or a new interval
\* or timeout.
StallsAreReal == at = "decide" /\ "stalled" \in seen => excused

\* An ordinary start and an ordinary shutdown never look like a dead engine.
NoStopAlarm == at = "decide" => "stopped" \notin seen

\* An episode is announced once, however the reasons change and the switch
\* is turned meanwhile, and one that lasts is announced if the switch stays on.
AnnouncedAtLast ==
  <>[](~answers /\ config.alert /\ main = "serve" /\ at # "off") => <>[](told = 1)

=============================================================================
