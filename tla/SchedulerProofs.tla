-------------------------- MODULE SchedulerProofs --------------------------
(***************************************************************************)
(* The safety of Scheduler for any set of intervals, any number of trigger *)
(* requests and any number of published configurations.                    *)
(***************************************************************************)
EXTENDS Scheduler, TLAPS

(***************************************************************************)
(* The inductive invariant.                                                *)
(***************************************************************************)
Began == {"mark", "first", "select", "pending?", "enabled?", "gate", "begin", "snapshot",
          "round", "consume", "drain", "notify"}

\* Who owns doneCh: runGuard and neverStarted are decided in critical sections
\* of s.mu and exclude each other from then on.
Ownership ==
  /\ runGuard => pc # "never"
  /\ pc \in Began => runGuard
  /\ stopped <=> stopper # "idle"
  /\ stopped => (neverStarted <=> ~runGuard)
  /\ stopClosed <=> stopper = "returned"
  /\ pc = "returned" => stopped
  /\ inRound <=> pc \in {"snapshot", "round"}
  /\ running <=> pc \in Began \ {"mark"}
  /\ doneCloses = IF \/ runGuard /\ pc = "returned"
                     \/ ~runGuard /\ stopper = "returned"
                  THEN 1 ELSE 0

\* A round can begin after Stop only if it passed the gate before, once.
Lateness ==
  /\ lateRounds \in 0..1
  /\ ~stopped \/ pc = "begin" => lateRounds = 0

\* Past the check of the switch there is no pause older than the wake-up.
PauseKept ==
  /\ pausedAtWake => ~state.enabled
  /\ pc \in {"gate", "begin", "snapshot", "round", "drain"} => ~pausedAtWake

\* What has not been consumed is announced, or the loop is about to look.
Announced ==
  /\ latest.gen <= state.gen
  /\ \/ control \/ notifying
     \/ pc \in {"never", "mark", "first", "consume", "returned"}
     \/ latest = state /\ enabled = state.enabled /\ ~pendingResume

IInv == TypeOK /\ Ownership /\ Lateness /\ PauseKept /\ Announced

-----------------------------------------------------------------------------
USE DEF published, channels, loop, others, history

\* It holds before Run is called.
LEMMA InitInvariant == Init => IInv
<1> SUFFICES ASSUME Init PROVE IInv
  OBVIOUS
<1>1. /\ state \in StateType /\ latest = state
      /\ state.gen = 0 /\ state.interval \in Intervals
  BY DEF Init, StateType
<1>2. applied \in 0..latest.gen /\ tickerInterval \in Intervals
  <2>1. applied = 0 /\ tickerInterval = state.interval
    BY DEF Init
  <2> QED
    BY <1>1, <2>1
<1>3. TypeOK
  <2>1. {pendingResume, stopped, runGuard, running, inRound, control, trigger, stopClosed, enabled,
         roundCompleted, ran, notifying, neverStarted, pausedAtWake} \subseteq BOOLEAN
    BY DEF Init
  <2>2. /\ ticker = "off" /\ pc = "never" /\ site = "start"
        /\ checked = {} /\ stopper = "idle" /\ owed = {} /\ doneCloses = 0 /\ lateRounds = 0
    BY DEF Init
  <2> QED
    BY <1>1, <1>2, <2>1, <2>2 DEF TypeOK
<1>4. Ownership
  BY DEF Init, Ownership, Began
<1>5. Lateness /\ PauseKept /\ Announced
  BY <1>1 DEF Init, Lateness, PauseKept, Announced
<1> QED
  BY <1>3, <1>4, <1>5 DEF IInv

-----------------------------------------------------------------------------
(***************************************************************************)
(* Every step keeps the invariant: first the steps of everybody else, then *)
(* the wake-ups, then the rest of the loop.                                *)
(***************************************************************************)
\* A published state is one of the states; a new one is younger than all seen.
LEMMA PublishStep ==
  ASSUME IInv, Publish
  PROVE  IInv'
<1>1. PICK e \in BOOLEAN, i \in Intervals :
        /\ state' = [enabled |-> e, interval |-> i, gen |-> state.gen + 1]
        /\ pendingResume' = (pendingResume \/ ResumeEdge(state'))
        /\ owed' = IF ~state.enabled /\ e THEN owed \union {"resume"} ELSE owed
        /\ pausedAtWake' = (pausedAtWake /\ ~e)
  BY Zenon DEF Publish
<1>2. /\ state' \in StateType /\ state'.enabled = e
      /\ state'.gen = state.gen + 1 /\ state.gen \in Nat /\ latest.gen \in Nat
  BY <1>1 DEF IInv, TypeOK, StateType
<1>3. pendingResume' \in BOOLEAN /\ pausedAtWake' \in BOOLEAN
  BY <1>1, Zenon
<1>4. owed' \subseteq {"trigger", "resume"}
  BY <1>1 DEF IInv, TypeOK
<1>5. TypeOK'
  BY <1>2, <1>3, <1>4 DEF IInv, TypeOK, Publish
<1>6. Ownership'
  BY DEF IInv, Ownership, Publish
<1>7. Lateness' /\ PauseKept'
  BY <1>1, <1>2 DEF IInv, Lateness, PauseKept, Publish
<1>8. Announced'
  BY <1>2 DEF IInv, Announced, Publish
<1> QED
  BY <1>5, <1>6, <1>7, <1>8 DEF IInv

\* Notifications, requests, ticks and Stop.
LEMMA OthersStep ==
  ASSUME IInv, NotifyControl \/ CheckTrigger \/ TriggerSync \/ StopMarks \/ StopCloses \/ Tick
  PROVE  IInv'
<1>1. CASE NotifyControl
  <2>1. TypeOK'
    <3>1. control' /\ ~notifying' /\ control' \in BOOLEAN /\ notifying' \in BOOLEAN
      BY <1>1, Zenon DEF NotifyControl, Deposit
    <3> QED
      BY <1>1, <3>1 DEF IInv, TypeOK, NotifyControl
  <2>2. Ownership'
    BY <1>1 DEF IInv, TypeOK, Ownership, Began, NotifyControl, Deposit
  <2>3. Lateness' /\ PauseKept'
    BY <1>1 DEF IInv, TypeOK, Ownership, Lateness, PauseKept, NotifyControl, Deposit
  <2>4. Announced'
    BY <1>1 DEF IInv, Ownership, Announced, NotifyControl, Deposit
  <2> QED
    BY <2>1, <2>2, <2>3, <2>4 DEF IInv
<1>2. CASE CheckTrigger
  <2>1. TypeOK'
    BY <1>2 DEF IInv, TypeOK, CheckTrigger
  <2>2. Ownership'
    BY <1>2 DEF IInv, TypeOK, Ownership, Began, CheckTrigger
  <2>3. Lateness' /\ PauseKept'
    BY <1>2 DEF IInv, TypeOK, Ownership, Lateness, PauseKept, CheckTrigger
  <2>4. Announced'
    BY <1>2 DEF IInv, Ownership, Announced, CheckTrigger
  <2> QED
    BY <2>1, <2>2, <2>3, <2>4 DEF IInv
<1>3. CASE TriggerSync
  <2>1. TypeOK'
    BY <1>3 DEF IInv, TypeOK, StateType, TriggerSync, Queue
  <2>2. Ownership'
    BY <1>3 DEF IInv, TypeOK, Ownership, Began, TriggerSync, Queue
  <2>3. Lateness' /\ PauseKept'
    BY <1>3 DEF IInv, TypeOK, Ownership, Lateness, PauseKept, TriggerSync, Queue
  <2>4. Announced'
    BY <1>3 DEF IInv, TypeOK, StateType, Announced, TriggerSync, Queue
  <2> QED
    BY <2>1, <2>2, <2>3, <2>4 DEF IInv
<1>4. CASE StopMarks
  <2>1. TypeOK'
    BY <1>4 DEF IInv, TypeOK, StopMarks, NeverStarted
  <2>2. Ownership'
    BY <1>4 DEF IInv, TypeOK, Ownership, Began, StopMarks, NeverStarted
  <2>3. Lateness' /\ PauseKept'
    BY <1>4 DEF IInv, TypeOK, Ownership, Lateness, PauseKept, StopMarks, NeverStarted
  <2>4. Announced'
    BY <1>4 DEF IInv, Ownership, Announced, StopMarks, NeverStarted
  <2> QED
    BY <2>1, <2>2, <2>3, <2>4 DEF IInv
<1>5. CASE StopCloses
  <2>1. TypeOK'
    BY <1>5 DEF IInv, TypeOK, Ownership, StopCloses
  <2>2. Ownership'
    BY <1>5 DEF IInv, TypeOK, Ownership, Began, StopCloses
  <2>3. Lateness' /\ PauseKept'
    BY <1>5 DEF IInv, TypeOK, Ownership, Lateness, PauseKept, StopCloses
  <2>4. Announced'
    BY <1>5 DEF IInv, TypeOK, StateType, Announced, StopCloses
  <2> QED
    BY <2>1, <2>2, <2>3, <2>4 DEF IInv
<1>6. CASE Tick
  <2>1. TypeOK'
    BY <1>6 DEF IInv, TypeOK, StateType, Tick
  <2>2. Ownership'
    BY <1>6 DEF IInv, TypeOK, Ownership, Began, Tick
  <2>3. Lateness' /\ PauseKept'
    BY <1>6 DEF IInv, TypeOK, Ownership, Lateness, PauseKept, Tick
  <2>4. Announced'
    BY <1>6 DEF IInv, TypeOK, StateType, Announced, Tick
  <2> QED
    BY <2>1, <2>2, <2>3, <2>4 DEF IInv
<1> QED
  BY <1>1, <1>2, <1>3, <1>4, <1>5, <1>6

\* Run closes a doneCh that nobody has closed.
LEMMA ReturnClosesOnce ==
  ASSUME IInv, pc \in Began, Return
  PROVE  doneCloses' \in 0..1 /\ running' \in BOOLEAN /\ pc' = "returned" /\ site' = site
<1>1. doneCloses = 0
  BY DEF IInv, Ownership, Began
<1>2. doneCloses' \in 0..1
  BY <1>1 DEF Return
<1>3. running' \in BOOLEAN /\ pc' = "returned" /\ site' = site
  BY Zenon DEF Return
<1> QED
  BY <1>2, <1>3

\* A loop that waits and wakes up holds no round, and leaves what is announced
\* announced unless it goes on to look itself.
LEMMA WakeStep ==
  ASSUME IInv, WakeByTick \/ WakeByTrigger \/ WakeByControl \/ WakeByStop
  PROVE  IInv'
<1>1. CASE WakeByTick
  <2>1. TypeOK'
    BY <1>1 DEF IInv, TypeOK, StateType, WakeByTick, Woken
  <2>2. Ownership'
    BY <1>1 DEF IInv, TypeOK, Ownership, Began, WakeByTick, Woken
  <2>3. Lateness' /\ PauseKept'
    BY <1>1 DEF IInv, TypeOK, Ownership, Lateness, PauseKept, WakeByTick, Woken
  <2>4. Announced'
    BY <1>1 DEF IInv, TypeOK, StateType, Announced, WakeByTick, Woken
  <2> QED
    BY <2>1, <2>2, <2>3, <2>4 DEF IInv
<1>2. CASE WakeByTrigger
  <2>1. TypeOK'
    BY <1>2 DEF IInv, TypeOK, StateType, WakeByTrigger, Woken
  <2>2. Ownership'
    BY <1>2 DEF IInv, TypeOK, Ownership, Began, WakeByTrigger, Woken
  <2>3. Lateness' /\ PauseKept'
    BY <1>2 DEF IInv, TypeOK, Ownership, Lateness, PauseKept, WakeByTrigger, Woken
  <2>4. Announced'
    BY <1>2 DEF IInv, TypeOK, StateType, Announced, WakeByTrigger, Woken
  <2> QED
    BY <2>1, <2>2, <2>3, <2>4 DEF IInv
<1>3. CASE WakeByControl
  <2>1. TypeOK'
    BY <1>3 DEF IInv, TypeOK, StateType, WakeByControl, Woken, Goto
  <2>2. Ownership'
    BY <1>3 DEF IInv, TypeOK, Ownership, Began, WakeByControl, Woken, Goto
  <2>3. Lateness' /\ PauseKept'
    BY <1>3 DEF IInv, TypeOK, Ownership, Lateness, PauseKept, WakeByControl, Woken, Goto
  <2>4. Announced'
    BY <1>3 DEF IInv, TypeOK, StateType, Announced, WakeByControl, Woken, Goto
  <2> QED
    BY <2>1, <2>2, <2>3, <2>4 DEF IInv
<1>4. CASE WakeByStop
  <2>1. TypeOK'
    <3>1. doneCloses' \in 0..1 /\ running' \in BOOLEAN /\ pc' = "returned" /\ site' = site
      BY <1>4, ReturnClosesOnce DEF WakeByStop, Began
    <3> QED
      BY <1>4, <3>1 DEF IInv, TypeOK, WakeByStop
  <2>2. Ownership'
    BY <1>4 DEF IInv, TypeOK, Ownership, Began, WakeByStop, Return
  <2>3. Lateness' /\ PauseKept'
    BY <1>4 DEF IInv, TypeOK, Ownership, Lateness, PauseKept, WakeByStop, Return
  <2>4. Announced'
    BY <1>4 DEF IInv, Ownership, Announced, WakeByStop, Return
  <2> QED
    BY <2>1, <2>2, <2>3, <2>4 DEF IInv
<1> QED
  BY <1>1, <1>2, <1>3, <1>4

\* What the loop reads from the published state.
LEMMA StateFacts ==
  ASSUME IInv
  PROVE  /\ state.enabled \in BOOLEAN /\ state.interval \in Intervals
         /\ latest.gen \in Nat /\ applied \in 0..latest.gen /\ applied \in 0..state.gen
BY DEF IInv, TypeOK, Announced, StateType

\* Consuming the state keeps what is known of the state in use.
LEMMA ConsumeType ==
  ASSUME IInv, Consume, state' = state, applied' = applied
  PROVE  /\ latest' \in StateType /\ applied' \in 0..latest'.gen
         /\ enabled' \in BOOLEAN /\ pendingResume' \in BOOLEAN
<1>1. latest' \in StateType /\ applied' \in 0..latest'.gen
  BY StateFacts DEF IInv, TypeOK, Consume
<1>2. enabled' \in BOOLEAN /\ pendingResume' \in BOOLEAN
  BY StateFacts, Zenon DEF Consume
<1> QED
  BY <1>1, <1>2

\* The head of Run: the guard decides under the lock whether it runs at all.
LEMMA StartStep ==
  ASSUME IInv, RunStarts \/ MarkRunning \/ FirstConsume
  PROVE  IInv'
<1>1. CASE RunStarts
  <2>1. TypeOK'
    <3>1. runGuard' \in BOOLEAN
      <4>1. runGuard \in BOOLEAN
        BY DEF IInv, TypeOK
      <4> QED
        BY <1>1, <4>1, Zenon DEF RunStarts
    <3>2. pc' \in {"returned", "mark"} /\ site' = site
      BY <1>1, Zenon DEF RunStarts, Goto
    <3> QED
      BY <1>1, <3>1, <3>2, ZenonT(60) DEF IInv, TypeOK, RunStarts
  <2>2. Ownership'
    BY <1>1 DEF IInv, TypeOK, Ownership, Began, RunStarts, Goto
  <2>3. Lateness' /\ PauseKept'
    BY <1>1 DEF IInv, TypeOK, Ownership, Lateness, PauseKept, RunStarts, Goto
  <2>4. Announced'
    BY <1>1 DEF IInv, TypeOK, StateType, Announced, RunStarts, Goto
  <2> QED
    BY <2>1, <2>2, <2>3, <2>4 DEF IInv
<1>2. CASE MarkRunning
  <2>1. TypeOK'
    BY <1>2 DEF IInv, TypeOK, MarkRunning, Goto
  <2>2. Ownership'
    BY <1>2 DEF IInv, TypeOK, Ownership, Began, MarkRunning, Goto
  <2>3. Lateness' /\ PauseKept'
    BY <1>2 DEF IInv, TypeOK, Ownership, Lateness, PauseKept, MarkRunning, Goto
  <2>4. Announced'
    BY <1>2 DEF IInv, TypeOK, StateType, Announced, MarkRunning, Goto
  <2> QED
    BY <2>1, <2>2, <2>3, <2>4 DEF IInv
<1>3. CASE FirstConsume
  <2>1. TypeOK'
    <3>1. /\ latest' \in StateType /\ applied' \in 0..latest'.gen
          /\ enabled' \in BOOLEAN /\ pendingResume' \in BOOLEAN
      BY <1>3, ConsumeType DEF FirstConsume
    <3> QED
      BY <1>3, <3>1, StateFacts DEF IInv, TypeOK, FirstConsume
  <2>2. Ownership'
    BY <1>3 DEF IInv, TypeOK, Ownership, Began, FirstConsume, Consume
  <2>3. Lateness' /\ PauseKept'
    BY <1>3 DEF IInv, TypeOK, Ownership, Lateness, PauseKept, FirstConsume, Consume
  <2>4. Announced'
    BY <1>3 DEF IInv, TypeOK, StateType, Announced, FirstConsume, Consume
  <2> QED
    BY <2>1, <2>2, <2>3, <2>4 DEF IInv
<1> QED
  BY <1>1, <1>2, <1>3

\* Checks, gate and round: a refused round never touches doneCh twice.
LEMMA RoundStep ==
  ASSUME IInv, CheckPending \/ CheckEnabled \/ BeginRound \/ Gate \/ RoundReads \/ RoundEnds
  PROVE  IInv'
<1>1. CASE CheckPending
  <2>1. TypeOK'
    BY <1>1 DEF IInv, TypeOK, CheckPending, Goto
  <2>2. Ownership'
    BY <1>1 DEF IInv, TypeOK, Ownership, Began, CheckPending, Goto
  <2>3. Lateness' /\ PauseKept'
    BY <1>1 DEF IInv, TypeOK, Ownership, Lateness, PauseKept, CheckPending, Goto
  <2>4. Announced'
    BY <1>1 DEF IInv, TypeOK, StateType, Announced, CheckPending, Goto
  <2> QED
    BY <2>1, <2>2, <2>3, <2>4 DEF IInv
<1>2. CASE CheckEnabled
  <2>1. TypeOK'
    BY <1>2 DEF IInv, TypeOK, CheckEnabled, StillEnabled, AfterRefusal, Goto
  <2>2. Ownership'
    BY <1>2 DEF IInv, TypeOK, Ownership, Began, CheckEnabled, StillEnabled, AfterRefusal, Goto
  <2>3. Lateness' /\ PauseKept'
    BY <1>2 DEF IInv, TypeOK, Ownership, Lateness, PauseKept, CheckEnabled, StillEnabled,
           AfterRefusal, Goto
  <2>4. Announced'
    BY <1>2 DEF IInv, TypeOK, StateType, Announced, CheckEnabled, StillEnabled, AfterRefusal,
           Goto
  <2> QED
    BY <2>1, <2>2, <2>3, <2>4 DEF IInv
<1>3. CASE BeginRound
  <2>1. TypeOK'
    BY <1>3 DEF IInv, TypeOK, BeginRound, Goto
  <2>2. Ownership'
    BY <1>3 DEF IInv, TypeOK, Ownership, Began, BeginRound, Goto
  <2>3. Lateness' /\ PauseKept'
    BY <1>3 DEF IInv, TypeOK, Ownership, Lateness, PauseKept, BeginRound, Goto
  <2>4. Announced'
    BY <1>3 DEF IInv, TypeOK, StateType, Announced, BeginRound, Goto
  <2> QED
    BY <2>1, <2>2, <2>3, <2>4 DEF IInv
<1>4. CASE Gate
  <2>1. TypeOK'
    <3>1. CASE Return
      <4>1. doneCloses' \in 0..1 /\ running' \in BOOLEAN /\ pc' = "returned" /\ site' = site
        BY <1>4, <3>1, ReturnClosesOnce DEF Gate, Began
      <4> QED
        BY <1>4, <4>1 DEF IInv, TypeOK, Gate
    <3>2. CASE UNCHANGED <<running, doneCloses>>
      BY <1>4, <3>2 DEF IInv, TypeOK, Gate, Return, Goto, AfterRefusal
    <3> QED
      BY <1>4, <3>1, <3>2 DEF Gate
  <2>2. Ownership'
    <3>1. CASE Return
      <4>1. stopped /\ runGuard /\ pc = "gate" /\ doneCloses = 0
        BY <1>4, <3>1 DEF IInv, Ownership, Began, Gate, MayBegin, Return, Goto, AfterRefusal
      <4>2. doneCloses' = 1
        BY <3>1, <4>1 DEF Return
      <4> QED
        BY <1>4, <3>1, <4>1, <4>2 DEF IInv, Ownership, Began, Gate, Return
    <3>2. CASE UNCHANGED <<running, doneCloses>> /\ pc' \in {"begin", "consume", "select"}
      BY <1>4, <3>2 DEF IInv, Ownership, Began, Gate
    <3> QED
      BY <1>4, <3>1, <3>2 DEF Gate, Goto, AfterRefusal
  <2>3. Lateness' /\ PauseKept'
    BY <1>4 DEF IInv, TypeOK, Ownership, Lateness, PauseKept, Gate, MayBegin, Return, Goto,
           AfterRefusal
  <2>4. Announced'
    BY <1>4 DEF IInv, TypeOK, StateType, Announced, Gate, MayBegin, Return, Goto, AfterRefusal
  <2> QED
    BY <2>1, <2>2, <2>3, <2>4 DEF IInv
<1>5. CASE RoundReads
  <2>1. TypeOK'
    <3>1. ran' \in BOOLEAN
      BY <1>5, StateFacts, Zenon DEF RoundReads
    <3> QED
      BY <1>5, <3>1 DEF IInv, TypeOK, RoundReads, Goto
  <2>2. Ownership'
    BY <1>5 DEF IInv, TypeOK, Ownership, Began, RoundReads, Goto
  <2>3. Lateness' /\ PauseKept'
    BY <1>5 DEF IInv, TypeOK, Ownership, Lateness, PauseKept, RoundReads, Goto
  <2>4. Announced'
    BY <1>5 DEF IInv, TypeOK, StateType, Announced, RoundReads, Goto
  <2> QED
    BY <2>1, <2>2, <2>3, <2>4 DEF IInv
<1>6. CASE RoundEnds
  <2>1. TypeOK'
    <3>1. /\ roundCompleted' \in BOOLEAN /\ inRound' \in BOOLEAN /\ ran' \in BOOLEAN
          /\ site' = site
      BY <1>6, Zenon DEF RoundEnds, Goto
    <3>2. pc' \in {"select", "notify", "consume"}
      BY <1>6 DEF RoundEnds, Goto
    <3> QED
      BY <1>6, <3>1, <3>2, ZenonT(60) DEF IInv, TypeOK, RoundEnds
  <2>2. Ownership'
    BY <1>6 DEF IInv, TypeOK, Ownership, Began, RoundEnds, Goto
  <2>3. Lateness' /\ PauseKept'
    BY <1>6 DEF IInv, TypeOK, Ownership, Lateness, PauseKept, RoundEnds, Goto
  <2>4. Announced'
    BY <1>6 DEF IInv, TypeOK, StateType, Announced, RoundEnds, Goto
  <2> QED
    BY <2>1, <2>2, <2>3, <2>4 DEF IInv
<1> QED
  BY <1>1, <1>2, <1>3, <1>4, <1>5, <1>6

\* The state is consumed whole, and reported only then.
LEMMA ConsumeStep ==
  ASSUME IInv, ConsumeControl \/ DrainTrigger \/ NotifyStateApplied
  PROVE  IInv'
<1>1. CASE ConsumeControl
  <2>1. TypeOK'
    <3>1. /\ latest' \in StateType /\ applied' \in 0..latest'.gen
          /\ enabled' \in BOOLEAN /\ pendingResume' \in BOOLEAN
      BY <1>1, ConsumeType DEF ConsumeControl
    <3>2. /\ tickerInterval' \in Intervals /\ ticker' \in {"off", "armed", "due"}
          /\ pc' \in {"drain", "notify"}
      BY <1>1, StateFacts DEF IInv, TypeOK, ConsumeControl, RestartTicker, Goto
    <3>3. site' = site
      BY <1>1 DEF ConsumeControl, Goto
    <3> QED
      BY <1>1, <3>1, <3>2, <3>3 DEF IInv, TypeOK, ConsumeControl
  <2>2. Ownership'
    BY <1>1 DEF IInv, TypeOK, Ownership, Began, ConsumeControl, Consume, RestartTicker, Goto
  <2>3. Lateness' /\ PauseKept'
    BY <1>1 DEF IInv, TypeOK, Ownership, Lateness, PauseKept, ConsumeControl, Consume,
           RestartTicker, Goto
  <2>4. Announced'
    BY <1>1 DEF IInv, TypeOK, StateType, Announced, ConsumeControl, Consume, RestartTicker, Goto
  <2> QED
    BY <2>1, <2>2, <2>3, <2>4 DEF IInv
<1>2. CASE DrainTrigger
  <2>1. TypeOK'
    BY <1>2 DEF IInv, TypeOK, DrainTrigger
  <2>2. Ownership'
    BY <1>2 DEF IInv, TypeOK, Ownership, Began, DrainTrigger
  <2>3. Lateness' /\ PauseKept'
    BY <1>2 DEF IInv, TypeOK, Ownership, Lateness, PauseKept, DrainTrigger
  <2>4. Announced'
    BY <1>2 DEF IInv, TypeOK, StateType, Announced, DrainTrigger
  <2> QED
    BY <2>1, <2>2, <2>3, <2>4 DEF IInv
<1>3. CASE NotifyStateApplied
  <2>1. TypeOK'
    BY <1>3, StateFacts DEF IInv, TypeOK, NotifyStateApplied, Goto
  <2>2. Ownership'
    BY <1>3 DEF IInv, TypeOK, Ownership, Began, NotifyStateApplied, Goto
  <2>3. Lateness' /\ PauseKept'
    BY <1>3 DEF IInv, TypeOK, Ownership, Lateness, PauseKept, NotifyStateApplied, Goto
  <2>4. Announced'
    BY <1>3 DEF IInv, TypeOK, StateType, Announced, NotifyStateApplied, Goto
  <2> QED
    BY <2>1, <2>2, <2>3, <2>4 DEF IInv
<1> QED
  BY <1>1, <1>2, <1>3

\* No step breaks it.
LEMMA NextInvariant == IInv /\ [Next]_vars => IInv'
<1>1. IInv /\ UNCHANGED vars => IInv'
  BY DEF IInv, TypeOK, Ownership, Lateness, PauseKept, Announced, vars
<1> QED
  BY <1>1, PublishStep, OthersStep, WakeStep, StartStep, RoundStep, ConsumeStep DEF Next, Run,
         Ended

\* The invariant holds for any number of requests, publications and intervals.
THEOREM Inductive == Spec => []IInv
BY InitInvariant, NextInvariant, PTL DEF Spec

\* doneCh is closed at most once, whatever the order of Run and Stop.
THEOREM TypeCorrect == Spec => []TypeOK
<1>1. IInv => TypeOK
  BY DEF IInv
<1> QED
  BY <1>1, Inductive, PTL

\* Wait returns only when no round is in flight and none can begin.
THEOREM QuietWhenDone == Spec => []DoneMeansQuiet
<1>1. IInv => DoneMeansQuiet
  BY DEF IInv, TypeOK, Ownership, Began, DoneMeansQuiet
<1> QED
  BY <1>1, Inductive, PTL

\* At most one round begins after Stop.
THEOREM LateRounds == Spec => []AtMostOneLateRound
<1>1. IInv => AtMostOneLateRound
  BY DEF IInv, Lateness, AtMostOneLateRound
<1> QED
  BY <1>1, Inductive, PTL

\* A pause that was there when the loop woke up holds the round back.
THEOREM PauseHolds == Spec => []NoRoundAfterPause
<1>1. IInv => NoRoundAfterPause
  BY DEF IInv, Ownership, PauseKept, NoRoundAfterPause
<1> QED
  BY <1>1, Inductive, PTL

\* The loop never falls asleep on an old configuration that nothing announces.
THEOREM WakeupsKept == Spec => []NoLostWakeup
<1>1. IInv => NoLostWakeup
  BY DEF IInv, Announced, NoLostWakeup
<1> QED
  BY <1>1, Inductive, PTL

=============================================================================
