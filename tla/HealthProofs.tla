----------------------------- MODULE HealthProofs -----------------------------
(***************************************************************************)
(* Theorems about Health, for any policies, grace, publications and faults *)
(* the assumption on the constants allows.                                 *)
(***************************************************************************)
EXTENDS Health, TLAPS

\* The values the variables range over; what a check has seen takes its
\* shape from the step it has reached (Seen).
TypeOK ==
  /\ config \in Policies
  /\ loop \in {"off", "idle", "round", "closing", "ended"}
  /\ lastRound \in {"none", "good", "bad"}
  /\ main \in {"wait", "serve", "joinSupervisor", "ended"}
  /\ at \in {"off", "first", "select", "switch", "status", "policy", "interval", "decide", "done"}
  /\ answers \in BOOLEAN /\ pendingResume \in BOOLEAN /\ roundCompleted \in BOOLEAN
  /\ wasUnhealthy \in BOOLEAN /\ published \in BOOLEAN
  /\ moved \in BOOLEAN /\ excused \in BOOLEAN
  /\ tickerInterval \in Nat \ {0}
  /\ ticked \in Nat /\ synced \in Nat /\ begun \in Nat /\ process \in Nat
  /\ told \in Nat

\* The policies are what the code accepts: positive durations and switches.
LEMMA PolicyFacts ==
  ASSUME TypeOK
  PROVE  /\ config.enabled \in BOOLEAN /\ config.alert \in BOOLEAN
         /\ config.interval \in Nat \ {0} /\ config.timeout \in Nat \ {0}
         /\ Grace \in Nat \ {0}
BY HealthAssumption DEF HealthAssumption, TypeOK

\* A clock counts one unit, or has stopped.
LEMMA LaterFacts ==
  ASSUME NEW c \in Nat, NEW b
  PROVE  /\ Later(c, b) \in Nat /\ Later(c, b) <= c + 1
         /\ b \in Int /\ c <= b => Later(c, b) = c + 1
         /\ b \in Int /\ c <= b + 1 => Later(c, b) <= b + 1
BY DEF Later

\* Where the engine, main and the supervisor are relative to each other.
Stages ==
  /\ lastRound = "none" => synced = 0
  /\ loop = "off" => process <= Grace /\ lastRound = "none"
  /\ loop = "closing" => synced = 0 /\ lastRound # "none"
  /\ loop \in {"off", "idle"} => ~roundCompleted
  /\ loop = "ended" => main = "ended"
  /\ main = "ended" => at = "done"

\* An engine whose timetable nobody moved since its last round, and which is
\* not paused, waits for a ticker that was reset no earlier than that round.
Timetable ==
  config.enabled /\ ~moved /\ loop = "idle" =>
    /\ lastRound # "none"
    /\ synced # 0 => synced <= ticked /\ ticked <= tickerInterval
                     /\ tickerInterval = config.interval

\* In time: within a round, or one interval after the last one, or, before
\* the first one, within the timeout.
InTime(inRound, last, sync, proc, interval, timeout) ==
  inRound \/ IF last # "none" THEN sync <= interval ELSE proc <= timeout

\* What a check has read does not look like a dead engine, step by step.
SeenAlive ==
  /\ at = "policy" => ~StopReason(seen)
  /\ at = "interval" => ~StopReason(seen.status)

\* What it has read is of an engine in time, step by step, unless somebody
\* moved the timetable.
SeenInTime ==
  /\ at = "status" /\ seen.enabled /\ ~moved =>
       InTime(loop \in {"round", "closing"}, lastRound, synced, process,
              config.interval, config.timeout)
  /\ at = "policy" =>
       /\ seen.synced \in Nat /\ seen.process \in Nat
       /\ seen.enabled /\ ~excused =>
            InTime(seen.inRound, seen.last, seen.synced, seen.process,
                   config.interval, config.timeout)
  /\ at = "interval" =>
       /\ seen.status.synced \in Nat /\ seen.status.process \in Nat /\ seen.timeout \in Nat
       /\ seen.status.enabled /\ ~excused =>
            InTime(seen.status.inRound, seen.status.last, seen.status.synced,
                   seen.status.process, config.interval, seen.timeout)

\* At most one event in an episode, and who has told it remembers.
Episode ==
  /\ told <= 1
  /\ told = 1 => wasUnhealthy /\ published

AliveInv == TypeOK /\ Stages /\ SeenAlive /\ NoStopAlarm

TimelyInv == AliveInv /\ Timetable /\ SeenInTime /\ StallsAreReal

\* The timeout is not shorter than the grace a start is given.
Patient == \A p \in Policies : Grace <= p.timeout

-----------------------------------------------------------------------------
\* The steps of the engine keep the types.
LEMMA EngineType ==
  TypeOK /\ (LoopStarts \/ BeginRound \/ NewInterval \/ Conclude \/ EndRound \/ LoopEnds) => TypeOK'
<1> USE PolicyFacts DEF TypeOK, EngineOnly, checker, clocks
<1>1. TypeOK /\ LoopStarts => TypeOK'
  <2> SUFFICES ASSUME TypeOK, LoopStarts PROVE TypeOK'
    OBVIOUS
  <2>1. loop' \in {"round", "idle"}
    BY DEF LoopStarts
  <2>2. tickerInterval' \in Nat \ {0} /\ ticked' \in Nat /\ begun' \in Nat /\ pendingResume' \in BOOLEAN
    BY DEF LoopStarts
  <2> QED
    BY <2>1, <2>2 DEF LoopStarts
<1>2. TypeOK /\ BeginRound => TypeOK'
  <2> SUFFICES ASSUME TypeOK, BeginRound PROVE TypeOK'
    OBVIOUS
  <2>1. roundCompleted' \in BOOLEAN /\ pendingResume' \in BOOLEAN
    BY Zenon DEF BeginRound
  <2>2. tickerInterval' \in Nat \ {0} /\ ticked' \in Nat
    BY DEF BeginRound
  <2> QED
    BY <2>1, <2>2 DEF BeginRound
<1>3. TypeOK /\ NewInterval => TypeOK'
  BY DEF NewInterval
<1>4. TypeOK /\ Conclude => TypeOK'
  <2> SUFFICES ASSUME TypeOK, Conclude PROVE TypeOK'
    OBVIOUS
  <2>1. lastRound' \in {"none", "good", "bad"} /\ moved' \in BOOLEAN
    BY DEF Conclude
  <2>2. synced' \in Nat /\ process' \in Nat
    BY DEF Conclude
  <2> QED
    BY <2>1, <2>2 DEF Conclude
<1>5. TypeOK /\ EndRound => TypeOK'
  <2> SUFFICES ASSUME TypeOK, EndRound PROVE TypeOK'
    OBVIOUS
  <2>1. tickerInterval' \in Nat \ {0} /\ ticked' \in Nat /\ begun' \in Nat
    BY DEF EndRound
  <2>2. roundCompleted' \in BOOLEAN
    BY DEF EndRound
  <2> QED
    BY <2>1, <2>2 DEF EndRound
<1>6. TypeOK /\ LoopEnds => TypeOK'
  BY DEF LoopEnds
<1> QED
  BY <1>1, <1>2, <1>3, <1>4, <1>5, <1>6

\* So do publications, faults and the steps of run.go.
LEMMA OthersType ==
  TypeOK /\ (Publish \/ Fault \/ SupervisorReturns \/ StartSupervisor \/ BeginShutdown \/ StopEngine)
    => TypeOK'
<1>1. TypeOK /\ Publish => TypeOK'
  BY PolicyFacts DEF TypeOK, Publish, checker, clocks
<1>2. TypeOK /\ (Fault \/ SupervisorReturns) => TypeOK'
  <2>1. Fault => answers' \in BOOLEAN
    BY Zenon DEF Fault
  <2> QED
    BY <2>1 DEF TypeOK, Fault, SupervisorReturns, CheckerUnchanged, Moves, engine, checker, clocks
<1>3. TypeOK /\ (StartSupervisor \/ BeginShutdown \/ StopEngine) => TypeOK'
  BY DEF TypeOK, StartSupervisor, BeginShutdown, StopEngine, MainMoves, engine, checker, clocks
<1> QED
  BY <1>1, <1>2, <1>3

\* So do the steps of a check.
LEMMA CheckType ==
  TypeOK /\ Check => TypeOK'
<1>1. TypeOK /\ (BeginCheck \/ ReadSwitch \/ ReadStatus \/ ReadPolicy \/ ReadInterval) => TypeOK'
  BY DEF TypeOK, BeginCheck, ReadSwitch, ReadStatus, ReadPolicy, ReadInterval, CheckerUnchanged,
         Moves, engine, clocks
<1>2. TypeOK /\ Decide => TypeOK'
  <2> SUFFICES ASSUME TypeOK, Decide PROVE TypeOK'
    OBVIOUS
  <2>1. wasUnhealthy' \in BOOLEAN /\ published' \in BOOLEAN
    BY PolicyFacts, Zenon DEF TypeOK, Decide, Announced
  <2>2. told' \in Nat
    BY DEF TypeOK, Decide
  <2> QED
    BY <2>1, <2>2 DEF TypeOK, Decide, CheckerUnchanged, Moves, engine, clocks
<1> QED
  BY <1>1, <1>2 DEF Check

\* So does time.
LEMMA TimeType ==
  TypeOK /\ TimePasses => TypeOK'
<1> SUFFICES ASSUME TypeOK, TimePasses PROVE TypeOK'
  OBVIOUS
<1>1. ticked' \in Nat /\ synced' \in Nat /\ begun' \in Nat /\ process' \in Nat
  BY LaterFacts DEF TypeOK, TimePasses
<1> QED
  BY <1>1 DEF TypeOK, TimePasses, engine, checker

Engine == LoopStarts \/ BeginRound \/ NewInterval \/ Conclude \/ EndRound \/ LoopEnds
RunGo  == StartSupervisor \/ BeginShutdown \/ StopEngine

LEMMA TypeStep ==
  TypeOK /\ [Next]_vars => TypeOK'
<1>1. TypeOK /\ UNCHANGED vars => TypeOK'
  BY DEF TypeOK, vars, engine, clocks, checker
<1> QED
  BY <1>1, EngineType, OthersType, CheckType, TimeType DEF Next

-----------------------------------------------------------------------------
\* The engine, main and the supervisor keep their order: the supervisor is
\* out before the engine ends.
LEMMA StagesStep ==
  TypeOK /\ Stages /\ [Next]_vars => Stages'
<1> SUFFICES ASSUME TypeOK, Stages, [Next]_vars PROVE Stages'
  OBVIOUS
<1> USE DEF Stages, TypeOK
<1>1. CASE LoopStarts \/ BeginRound \/ NewInterval
  BY <1>1 DEF LoopStarts, BeginRound, NewInterval, EngineOnly, checker
<1>2. CASE Conclude \/ EndRound \/ LoopEnds
  BY <1>2 DEF Conclude, EndRound, LoopEnds, EngineOnly, checker, clocks
<1>3. CASE Publish \/ Fault
  BY <1>3 DEF Publish, Fault, engine, checker, clocks
<1>4. CASE Check
  BY <1>4 DEF Check, BeginCheck, ReadSwitch, ReadStatus, ReadPolicy, ReadInterval, Decide, Moves,
              CheckerUnchanged, engine, clocks
<1>5. CASE SupervisorReturns
  BY <1>5 DEF SupervisorReturns, Moves, CheckerUnchanged, engine, clocks
<1>6. CASE RunGo
  BY <1>6 DEF RunGo, StartSupervisor, BeginShutdown, StopEngine, MainMoves, Joined, engine, checker, clocks
<1>7. CASE TimePasses
  <2>1. loop = "off" => process' <= Grace
    BY <1>7, HealthAssumption DEF TimePasses, Due, Later, HealthAssumption
  <2> QED
    BY <1>7, <2>1 DEF TimePasses, Due, engine, checker
<1>8. CASE UNCHANGED vars
  BY <1>8 DEF vars, engine, clocks, checker
<1> QED
  BY <1>1, <1>2, <1>3, <1>4, <1>5, <1>6, <1>7, <1>8 DEF Next, RunGo

\* An engine read off is within its grace, one read ended has no reader left.
LEMMA AliveStep ==
  AliveInv /\ [Next]_vars => (SeenAlive /\ NoStopAlarm)'
<1> SUFFICES ASSUME AliveInv, [Next]_vars PROVE (SeenAlive /\ NoStopAlarm)'
  OBVIOUS
<1> USE DEF AliveInv, SeenAlive, NoStopAlarm
<1>1. CASE Engine
  BY <1>1 DEF Engine, LoopStarts, BeginRound, NewInterval, Conclude, EndRound, LoopEnds, EngineOnly,
              checker, StopReason
<1>2. CASE Publish \/ Fault
  BY <1>2 DEF Publish, Fault, checker, StopReason
<1>3. CASE BeginCheck \/ ReadSwitch
  BY <1>3 DEF BeginCheck, ReadSwitch, Moves
<1>4. CASE ReadStatus
  <2>1. at' = "policy" /\ seen'.running = Running /\ seen'.started = (loop # "off") /\ seen'.process = process
    BY <1>4 DEF ReadStatus, Moves
  <2>2. loop = "off" => process <= Grace
    BY DEF Stages
  <2>3. loop # "ended"
    BY <1>4 DEF ReadStatus, Moves, Stages
  <2>4. ~(process > Grace) \/ loop # "off"
    BY <2>2, PolicyFacts DEF TypeOK
  <2>5. Running \/ loop = "off"
    BY <2>3 DEF TypeOK, Running
  <2> QED
    BY <2>1, <2>4, <2>5 DEF StopReason, Running
<1>5. CASE ReadPolicy
  BY <1>5 DEF ReadPolicy, Moves
<1>6. CASE ReadInterval
  <2>1. at' = "decide" /\ seen' = Reasons(seen.status, config.interval, seen.timeout) /\ ~StopReason(seen.status)
    BY <1>6 DEF ReadInterval, Moves
  <2>2. "stopped" \notin Reasons(seen.status, config.interval, seen.timeout)
    BY <2>1 DEF Reasons
  <2> QED
    BY <2>1, <2>2
<1>7. CASE Decide \/ SupervisorReturns
  BY <1>7 DEF Decide, SupervisorReturns, Moves
<1>8. CASE RunGo
  BY <1>8 DEF RunGo, StartSupervisor, BeginShutdown, StopEngine, MainMoves, checker, StopReason
<1>9. CASE TimePasses \/ UNCHANGED vars
  BY <1>9 DEF TimePasses, vars, checker, StopReason
<1> QED
  BY <1>1, <1>2, <1>3, <1>4, <1>5, <1>6, <1>7, <1>8, <1>9 DEF Next, Check, Engine, RunGo

-----------------------------------------------------------------------------
\* Between two rounds no more time passes than the ticker has counted since
\* it was reset.
LEMMA TimetableStep ==
  TypeOK /\ Stages /\ Timetable /\ [Next]_vars => Timetable'
<1> SUFFICES ASSUME TypeOK, Stages, Timetable, [Next]_vars,
                    config'.enabled, ~moved', loop' = "idle"
             PROVE  /\ lastRound' # "none"
                    /\ synced' # 0 => synced' <= ticked' /\ ticked' <= tickerInterval'
                                      /\ tickerInterval' = config'.interval
  BY DEF Timetable
<1> USE DEF Timetable
<1>1. CASE LoopStarts \/ BeginRound \/ Conclude \/ LoopEnds
  BY <1>1 DEF LoopStarts, BeginRound, Conclude, LoopEnds, EngineOnly
<1>2. CASE NewInterval
  BY <1>2 DEF NewInterval, EngineOnly
<1>3. CASE EndRound
  BY <1>3 DEF EndRound, Stages
<1>4. CASE Publish
  <2>1. ~moved /\ loop = "idle" /\ config.enabled /\ config'.interval = config.interval
    BY <1>4 DEF Publish
  <2> QED
    BY <1>4, <2>1 DEF Publish, clocks
<1>5. CASE Fault \/ Check \/ SupervisorReturns \/ RunGo \/ UNCHANGED vars
  <2>1. UNCHANGED <<config, moved, engine, clocks>>
    BY <1>5 DEF Fault, Check, BeginCheck, ReadSwitch, ReadStatus, ReadPolicy, ReadInterval, Decide,
                SupervisorReturns, CheckerUnchanged, RunGo, StartSupervisor, BeginShutdown, StopEngine,
                MainMoves, vars
  <2> QED
    BY <2>1 DEF engine, clocks
<1>6. CASE TimePasses
  <2>1. config.enabled /\ ~moved /\ loop = "idle" /\ ~roundCompleted /\ lastRound # "none"
    BY <1>6 DEF TimePasses, Stages, engine
  <2>2. tickerInterval = config.interval /\ ticked < tickerInterval
    BY <1>6, <2>1 DEF TimePasses, Due, TickDue, TypeOK
  <2>3. ticked' = ticked + 1
    BY <1>6, <2>1, <2>2, LaterFacts DEF TimePasses, TypeOK
  <2>4. synced' <= synced + 1
    BY <1>6, <2>1, LaterFacts DEF TimePasses, TypeOK
  <2>5. synced' \in Nat /\ synced' <= ticked'
    BY <2>1, <2>3, <2>4, TypeStep DEF TypeOK
  <2> QED
    BY <1>6, <2>1, <2>2, <2>3, <2>5 DEF TimePasses, TypeOK, engine
<1> QED
  BY <1>1, <1>2, <1>3, <1>4, <1>5, <1>6 DEF Next, RunGo

\* The engine a check has found in time is still in time when the check
\* comes to the status: a round begins and ends, nobody waits meanwhile.
LEMMA StatusStep ==
  ASSUME TypeOK, Stages, SeenInTime, at = "status", seen.enabled,
         Engine \/ Publish \/ Fault \/ RunGo \/ TimePasses \/ UNCHANGED vars,
         ~moved', at' = "status"
  PROVE  InTime(loop \in {"round", "closing"}, lastRound, synced, process,
                config.interval, config.timeout)'
<1> USE DEF SeenInTime, InTime
<1>1. CASE LoopStarts
  BY <1>1, PolicyFacts DEF LoopStarts, EngineOnly, Stages, TypeOK
<1>2. CASE BeginRound \/ Conclude
  BY <1>2 DEF BeginRound, Conclude
<1>3. CASE NewInterval
  BY <1>3 DEF NewInterval, EngineOnly
<1>4. CASE EndRound
  BY <1>4, PolicyFacts DEF EndRound, EngineOnly, Stages
<1>5. CASE LoopEnds
  BY <1>5 DEF LoopEnds, Stages
<1>6. CASE Publish
  <2>1. ~moved /\ config'.interval = config.interval /\ ~(config'.timeout < config.timeout)
    BY <1>6 DEF Publish
  <2>2. config.timeout <= config'.timeout
    BY <1>6, <2>1, HealthAssumption DEF Publish, HealthAssumption, TypeOK
  <2>3. config'.timeout \in Nat
    BY <1>6, HealthAssumption DEF Publish, HealthAssumption
  <2> QED
    BY <1>6, <2>1, <2>2, <2>3, PolicyFacts DEF Publish, clocks, TypeOK
<1>7. CASE Fault \/ RunGo \/ UNCHANGED vars
  <2>1. UNCHANGED <<config, moved, engine, clocks>>
    BY <1>7 DEF Fault, RunGo, StartSupervisor, BeginShutdown, StopEngine, MainMoves, vars
  <2> QED
    BY <2>1 DEF engine, clocks
<1>8. CASE TimePasses
  BY <1>8 DEF TimePasses, Due
<1> QED
  BY <1>1, <1>2, <1>3, <1>4, <1>5, <1>6, <1>7, <1>8 DEF Engine

\* What a check reads when it asks for the switch.
LEMMA SwitchReads ==
  ASSUME Patient, TypeOK, Stages, Timetable, at # "done", config.enabled, ~moved
  PROVE  InTime(loop \in {"round", "closing"}, lastRound, synced, process,
                config.interval, config.timeout)
<1>1. loop # "ended"
  BY DEF Stages
<1>2. CASE loop = "off"
  BY <1>2, PolicyFacts DEF Patient, Stages, InTime, TypeOK
<1>3. CASE loop = "idle"
  <2>1. lastRound # "none"
    BY <1>3 DEF Timetable
  <2>2. synced <= config.interval
    BY <1>3, PolicyFacts DEF Timetable, TypeOK
  <2> QED
    BY <2>1, <2>2 DEF InTime
<1> QED
  BY <1>1, <1>2, <1>3 DEF InTime, TypeOK

\* An engine in time is not stalled.
LEMMA InTimeNotStalled ==
  ASSUME NEW s, NEW interval \in Nat, NEW timeout \in Nat, s.synced \in Nat, s.process \in Nat,
         InTime(s.inRound, s.last, s.synced, s.process, interval, timeout)
  PROVE  ~StallReason(s, interval, timeout)
BY DEF InTime, StallReason

\* What a check has read stays in time of whatever is published meanwhile.
LEMMA InTimeStep ==
  ASSUME Patient, TimelyInv, [Next]_vars
  PROVE  SeenInTime'
<1> USE DEF TimelyInv, AliveInv
<1>1. CASE at' = "status"
  <2> SUFFICES ASSUME seen'.enabled, ~moved'
               PROVE  InTime(loop \in {"round", "closing"}, lastRound, synced, process,
                             config.interval, config.timeout)'
    BY <1>1 DEF SeenInTime
  <2>1. CASE ReadSwitch
    <3>1. at # "done" /\ config.enabled /\ ~moved
      BY <2>1 DEF ReadSwitch, Moves, CheckerUnchanged
    <3>2. InTime(loop \in {"round", "closing"}, lastRound, synced, process, config.interval, config.timeout)
      BY <3>1, SwitchReads
    <3> QED
      BY <2>1, <3>2 DEF ReadSwitch, CheckerUnchanged, engine, clocks
  <2>2. CASE Engine \/ Publish \/ Fault \/ RunGo \/ TimePasses \/ UNCHANGED vars
    <3>1. at = "status" /\ seen.enabled
      BY <1>1, <2>2 DEF Engine, LoopStarts, BeginRound, NewInterval, Conclude, EndRound, LoopEnds,
                        EngineOnly, Publish, Fault, RunGo, StartSupervisor, BeginShutdown, StopEngine,
                        MainMoves, TimePasses, vars, checker
    <3> QED
      BY <1>1, <2>2, <3>1, StatusStep
  <2>3. CASE BeginCheck \/ ReadStatus \/ ReadPolicy \/ ReadInterval \/ Decide \/ SupervisorReturns
    BY <1>1, <2>3 DEF BeginCheck, ReadStatus, ReadPolicy, ReadInterval, Decide, SupervisorReturns, Moves
  <2> QED
    BY <2>1, <2>2, <2>3 DEF Next, Check, Engine, RunGo
<1>2. CASE at' = "policy" /\ ReadStatus
  <2>1. at = "status" /\ excused' = moved /\ config' = config
    BY <1>2 DEF ReadStatus, Moves, CheckerUnchanged
  <2>2. /\ seen'.enabled = seen.enabled /\ seen'.inRound = (loop \in {"round", "closing"})
        /\ seen'.last = lastRound /\ seen'.synced = synced /\ seen'.process = process
    BY <1>2 DEF ReadStatus
  <2>3. seen'.synced \in Nat /\ seen'.process \in Nat
    BY <2>2 DEF TypeOK
  <2>4. ASSUME seen'.enabled, ~excused'
        PROVE  InTime(seen'.inRound, seen'.last, seen'.synced, seen'.process, config'.interval, config'.timeout)
    <3>1. InTime(loop \in {"round", "closing"}, lastRound, synced, process, config.interval, config.timeout)
      BY <2>1, <2>2, <2>4 DEF SeenInTime
    <3> QED
      BY <2>1, <2>2, <3>1 DEF InTime
  <2> QED
    BY <1>2, <2>3, <2>4 DEF SeenInTime
<1>3. CASE at' = "interval" /\ ReadPolicy
  <2>1. at = "policy" /\ excused' = excused /\ config' = config
    BY <1>3 DEF ReadPolicy, Moves, CheckerUnchanged
  <2>2. seen'.status = seen /\ seen'.timeout = config.timeout
    BY <1>3 DEF ReadPolicy
  <2> QED
    BY <1>3, <2>1, <2>2, PolicyFacts DEF SeenInTime
<1>4. CASE at' \in {"policy", "interval"} /\ Publish
  <2>1. at' = at /\ seen' = seen
    BY <1>4 DEF Publish, checker
  <2>2. ~excused' => ~excused /\ config'.interval = config.interval /\ ~(config'.timeout < config.timeout)
    BY <1>4 DEF Publish
  <2>3. config.timeout \in Nat /\ config'.timeout \in Nat
    BY <1>4, HealthAssumption DEF Publish, HealthAssumption, TypeOK
  <2> QED
    BY <1>4, <2>1, <2>2, <2>3 DEF SeenInTime, InTime
<1>5. CASE /\ at' \in {"policy", "interval"}
           /\ Engine \/ Fault \/ RunGo \/ TimePasses \/ UNCHANGED vars
  <2>1. at' = at /\ seen' = seen /\ excused' = excused /\ config' = config
    BY <1>5 DEF Engine, LoopStarts, BeginRound, NewInterval, Conclude, EndRound, LoopEnds,
                EngineOnly, Fault, RunGo, StartSupervisor, BeginShutdown, StopEngine,
                MainMoves, TimePasses, vars, checker
  <2> QED
    BY <1>5, <2>1 DEF SeenInTime
<1>6. CASE /\ at' \in {"policy", "interval"}
           /\ BeginCheck \/ ReadSwitch \/ ReadInterval \/ Decide \/ SupervisorReturns
  BY <1>6 DEF BeginCheck, ReadSwitch, ReadInterval, Decide, SupervisorReturns, Moves
<1>7. CASE at' \in {"policy", "interval"}
  <2>1. ReadStatus => at' = "policy"
    BY DEF ReadStatus, Moves
  <2>2. ReadPolicy => at' = "interval"
    BY DEF ReadPolicy, Moves
  <2> QED
    BY <1>2, <1>3, <1>4, <1>5, <1>6, <1>7, <2>1, <2>2 DEF Next, Check, Engine, RunGo
<1> QED
  BY <1>1, <1>7 DEF SeenInTime

\* The verdict is about an engine in time.
LEMMA StallsStep ==
  ASSUME TimelyInv, [Next]_vars
  PROVE  StallsAreReal'
<1> USE DEF TimelyInv, AliveInv
<1>1. CASE ReadInterval
  <2>1. at = "interval" /\ excused' = excused /\ seen' = Reasons(seen.status, config.interval, seen.timeout)
    BY <1>1 DEF ReadInterval, Moves
  <2>2. ASSUME "stalled" \in seen', ~excused
        PROVE  FALSE
    <3>1. seen.status.enabled /\ StallReason(seen.status, config.interval, seen.timeout)
      BY <2>1, <2>2 DEF Reasons
    <3>2. /\ seen.status.synced \in Nat /\ seen.status.process \in Nat /\ seen.timeout \in Nat
          /\ InTime(seen.status.inRound, seen.status.last, seen.status.synced,
                    seen.status.process, config.interval, seen.timeout)
      BY <2>1, <2>2, <3>1 DEF SeenInTime
    <3> QED
      BY <3>1, <3>2, InTimeNotStalled, PolicyFacts
  <2> QED
    BY <2>1, <2>2 DEF StallsAreReal
<1>2. CASE BeginCheck \/ ReadSwitch \/ ReadStatus \/ ReadPolicy \/ Decide \/ SupervisorReturns
  BY <1>2 DEF BeginCheck, ReadSwitch, ReadStatus, ReadPolicy, Decide, SupervisorReturns, Moves, StallsAreReal
<1>3. CASE Engine \/ Publish \/ Fault \/ RunGo \/ TimePasses \/ UNCHANGED vars
  <2>1. at' = "decide" => at = "decide" /\ seen' = seen
    BY <1>3 DEF Engine, LoopStarts, BeginRound, NewInterval, Conclude, EndRound, LoopEnds,
                EngineOnly, Publish, Fault, RunGo, StartSupervisor, BeginShutdown, StopEngine,
                MainMoves, TimePasses, vars, checker
  <2>2. Publish /\ excused => excused'
    BY DEF Publish
  <2>3. ~Publish /\ excused => excused'
    BY <1>3 DEF Engine, LoopStarts, BeginRound, NewInterval, Conclude, EndRound, LoopEnds,
                EngineOnly, Fault, RunGo, StartSupervisor, BeginShutdown, StopEngine,
                MainMoves, TimePasses, vars
  <2> QED
    BY <2>1, <2>2, <2>3 DEF StallsAreReal
<1> QED
  BY <1>1, <1>2, <1>3 DEF Next, Check, Engine, RunGo

\* Only the verdict counts events, and once it has counted one it remembers.
LEMMA EpisodeStep ==
  TypeOK /\ Episode /\ [Next]_vars => Episode'
<1> SUFFICES ASSUME TypeOK, Episode, [Next]_vars PROVE Episode'
  OBVIOUS
<1>1. CASE Decide
  <2>1. CASE seen = {} /\ wasUnhealthy' = FALSE /\ published' = FALSE /\ told' = 0
    BY <2>1 DEF Episode
  <2>2. CASE seen # {} /\ wasUnhealthy /\ published
    <3>1. wasUnhealthy' /\ published' /\ told' = told
      BY <1>1, <2>2 DEF Decide, Announced
    <3> QED
      BY <3>1 DEF Episode
  <2>3. CASE seen # {} /\ ~(wasUnhealthy /\ published)
    <3>1. told = 0
      BY <2>3 DEF Episode, TypeOK
    <3>2. wasUnhealthy' /\ (published' <=> config.alert)
      BY <1>1, <2>3 DEF Decide, Announced
    <3>3. told' = IF config.alert THEN 1 ELSE 0
      BY <1>1, <2>3, <3>1 DEF Decide
    <3> QED
      BY <3>2, <3>3 DEF Episode
  <2> QED
    BY <1>1, <2>1, <2>2, <2>3 DEF Decide
<1>2. CASE ~Decide
  <2>1. told' = told /\ wasUnhealthy' = wasUnhealthy /\ published' = published
    BY <1>2 DEF Next, Check, LoopStarts, BeginRound, NewInterval, Conclude, EndRound, LoopEnds,
                EngineOnly, Publish, Fault, BeginCheck, ReadSwitch, ReadStatus, ReadPolicy, ReadInterval,
                SupervisorReturns, StartSupervisor, BeginShutdown, StopEngine, MainMoves, TimePasses,
                vars, checker
  <2> QED
    BY <2>1 DEF Episode
<1> QED
  BY <1>1, <1>2

-----------------------------------------------------------------------------
LEMMA InitInv ==
  Init => TimelyInv /\ Episode
<1> SUFFICES ASSUME Init PROVE TimelyInv /\ Episode
  OBVIOUS
<1>1. TypeOK
  BY HealthAssumption DEF Init, TypeOK, HealthAssumption
<1>2. Stages
  BY HealthAssumption DEF Init, Stages, HealthAssumption
<1>3. SeenAlive /\ NoStopAlarm /\ Timetable /\ SeenInTime /\ StallsAreReal
  BY DEF Init, SeenAlive, NoStopAlarm, Timetable, SeenInTime, StallsAreReal
<1>4. Episode
  BY DEF Init, Episode
<1> QED
  BY <1>1, <1>2, <1>3, <1>4 DEF TimelyInv, AliveInv

LEMMA AliveInductive ==
  AliveInv /\ [Next]_vars => AliveInv'
BY TypeStep, StagesStep, AliveStep DEF AliveInv

LEMMA TimelyInductive ==
  ASSUME Patient
  PROVE  TimelyInv /\ [Next]_vars => TimelyInv'
BY AliveInductive, TimetableStep, InTimeStep, StallsStep DEF TimelyInv, AliveInv

\* The variables keep their types (health.go, run.go, the syncer's status).
THEOREM HealthTypeCorrect == Spec => []TypeOK
<1>1. Init => TypeOK
  BY InitInv DEF TimelyInv, AliveInv
<1> QED
  BY <1>1, TypeStep, PTL DEF Spec

\* An ordinary start and an ordinary shutdown never look like a dead engine,
\* for any grace and any policies: main starts the supervisor after the
\* engine, joins it before the engine is stopped, and a check that finds the
\* engine off finds it within its grace.
THEOREM NoFalseStopAlarm == Spec => []NoStopAlarm
<1>1. Init => AliveInv
  BY InitInv DEF TimelyInv
<1>2. AliveInv => NoStopAlarm
  BY DEF AliveInv
<1> QED
  BY <1>1, <1>2, AliveInductive, PTL DEF Spec

\* A stall is never reported of an engine that keeps its timetable, for any
\* intervals and for any timeouts that give a start its grace.
THEOREM NoFalseStall ==
  ASSUME Patient
  PROVE  Spec => []StallsAreReal
<1>1. Init => TimelyInv
  BY InitInv
<1>2. TimelyInv => StallsAreReal
  BY DEF TimelyInv
<1>3. TimelyInv /\ [Next]_vars => TimelyInv'
  BY TimelyInductive
<1> QED
  BY <1>1, <1>2, <1>3, PTL DEF Spec

\* An episode of ill health is announced at most once, however its reasons
\* change and the switch is turned meanwhile (check, health.go).
THEOREM ToldOnce == Spec => [](told <= 1)
<1>1. Init => TypeOK /\ Episode
  BY InitInv DEF TimelyInv, AliveInv
<1>2. TypeOK /\ Episode /\ [Next]_vars => (TypeOK /\ Episode)'
  BY TypeStep, EpisodeStep
<1>3. Episode => told <= 1
  BY DEF Episode
<1> QED
  BY <1>1, <1>2, <1>3, PTL DEF Spec
====
