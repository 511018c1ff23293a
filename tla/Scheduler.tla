----------------------------- MODULE Scheduler -----------------------------
(***************************************************************************)
(* The scheduling loop of the sync engine (syncer.Run) with everything     *)
(* that acts on it: the config coordinator that publishes a new            *)
(* RuntimeState and then notifies, the HTTP handler of manual triggers,    *)
(* the ticker, and Stop.  A step is one critical section of s.mu or of the *)
(* RuntimeManager, or one channel operation.  What a round does is         *)
(* TargetSync's subject; here it begins, takes its snapshot and ends.      *)
(***************************************************************************)
EXTENDS Naturals

CONSTANTS
  Intervals,   \* sync intervals a configuration may have
  Clients,     \* requests to /api/sync/trigger
  MaxPublish   \* bound: configurations published after the initial one

ASSUME SchedulerAssumption == MaxPublish \in Nat

VARIABLES
  \* guarded by s.mu and by the RuntimeManager
  state,         \* the published RuntimeState; `gen` stands for its pointer
  pendingResume, \* a published false -> true the loop has not consumed
  stopped, runGuard, running,
  inRound,       \* roundStarted # nil
  applied,       \* the state last reported by onStateApplied
  \* channels
  control,       \* a token in controlCh (capacity 1)
  trigger,       \* a token in triggerCh (capacity 1)
  stopClosed,    \* stopCh is closed
  doneCloses,    \* times doneCh was closed
  \* the goroutine of Run
  pc, site,      \* next step; the call site of beginRound
  enabled,       \* its own phase
  roundCompleted, tickerInterval,
  ticker,        \* "off", "armed", or "due": a tick waits in ticker.C
  latest,        \* the state of the last consumeControlState
  ran,           \* the round in flight found sync enabled in its snapshot
  \* the others
  notifying,     \* ApplyState is between publishing and notifyControl
  checked,       \* trigger requests that have seen Status().Enabled
  stopper,       \* Stop: "idle", "closing", "returned"
  neverStarted,
  \* history
  owed,          \* accepted triggers and resumes no round has answered yet
  pausedAtWake,  \* the loop last woke up with a pause in force ever since
  lateRounds     \* rounds begun after Stop

published == <<state, pendingResume>>
channels  == <<control, trigger, stopClosed, doneCloses>>
loop      == <<pc, site, enabled, roundCompleted, tickerInterval, ticker, latest, ran>>
others    == <<notifying, checked, stopper, neverStarted>>
history   == <<owed, pausedAtWake, lateRounds>>
vars == <<published, stopped, runGuard, running, inRound, applied, channels, loop, others,
          history>>

StateType == [enabled : BOOLEAN, interval : Intervals, gen : Nat]

Init ==
  /\ state \in [enabled : BOOLEAN, interval : Intervals, gen : {0}]
  /\ latest = state /\ ran = TRUE /\ tickerInterval = state.interval
  /\ applied = 0
  /\ pendingResume = FALSE /\ stopped = FALSE /\ runGuard = FALSE /\ running = FALSE
  /\ inRound = FALSE
  /\ control = FALSE /\ trigger = FALSE /\ stopClosed = FALSE /\ doneCloses = 0
  /\ pc = "never" /\ site = "start" /\ enabled = FALSE /\ roundCompleted = FALSE
  /\ ticker = "off"
  /\ notifying = FALSE /\ checked = {} /\ stopper = "idle" /\ neverStarted = FALSE
  /\ owed = {} /\ pausedAtWake = FALSE /\ lateRounds = 0

-----------------------------------------------------------------------------
(***************************************************************************)
(* The coordinator: applyStateLocked in one critical section, then the     *)
(* notification outside it.  Its own mutex serialises it.                  *)
(***************************************************************************)
ResumeEdge(next) == ~state.enabled /\ next.enabled

Publish ==
  /\ ~notifying /\ state.gen < MaxPublish
  /\ \E e \in BOOLEAN, i \in Intervals :
       LET next == [enabled |-> e, interval |-> i, gen |-> state.gen + 1] IN
         /\ state' = next
         /\ pendingResume' = (pendingResume \/ ResumeEdge(next))
         /\ owed' = IF ~state.enabled /\ e THEN owed \union {"resume"} ELSE owed
         /\ pausedAtWake' = (pausedAtWake /\ ~e)
  /\ notifying' = TRUE
  /\ UNCHANGED <<stopped, runGuard, running, inRound, applied, channels, loop, checked, stopper,
                 neverStarted, lateRounds>>

\* Mutant of Deposit: an unbuffered channel takes a token only from a reader.
DepositUnbuffered == control' = (pc = "select")

\* The buffered, non-blocking send of notifyControl.
Deposit == control' = TRUE

NotifyControl ==
  /\ notifying
  /\ Deposit
  /\ notifying' = FALSE
  /\ UNCHANGED <<published, stopped, runGuard, running, inRound, applied, trigger, stopClosed,
                 doneCloses, loop, checked, stopper, neverStarted, history>>

-----------------------------------------------------------------------------
(***************************************************************************)
(* handleSyncTrigger: the check of the switch, then TriggerSync, then 202. *)
(***************************************************************************)
CheckTrigger ==
  /\ state.enabled
  /\ \E c \in Clients \ checked : checked' = checked \union {c}
  /\ UNCHANGED <<published, stopped, runGuard, running, inRound, applied, channels, loop,
                 notifying, stopper, neverStarted, history>>

\* Mutant of Queue: the token is lost while the loop is not waiting for it.
QueueUnbuffered == trigger' = (pc = "select")

\* The non-blocking send; a request that finds a token merges into it.
Queue == trigger' = TRUE

TriggerSync ==
  /\ \E c \in checked : checked' = checked \ {c}
  /\ Queue
  /\ owed' = owed \union {"trigger"}
  /\ UNCHANGED <<published, stopped, runGuard, running, inRound, applied, control, stopClosed,
                 doneCloses, loop, notifying, stopper, neverStarted, pausedAtWake, lateRounds>>

-----------------------------------------------------------------------------
(***************************************************************************)
(* Stop.                                                                   *)
(***************************************************************************)
\* Mutants of NeverStarted: ownership judged by the wrong flag; given up.
NotRunningYet == ~running
NeverOwned    == FALSE

NeverStarted == ~runGuard

StopMarks ==
  /\ stopper = "idle"
  /\ stopped' = TRUE
  /\ neverStarted' = NeverStarted
  /\ stopper' = "closing"
  /\ UNCHANGED <<published, runGuard, running, inRound, applied, channels, loop, notifying,
                 checked, history>>

StopCloses ==
  /\ stopper = "closing"
  /\ stopClosed' = TRUE
  /\ doneCloses' = IF neverStarted THEN doneCloses + 1 ELSE doneCloses
  /\ stopper' = "returned"
  /\ UNCHANGED <<published, stopped, runGuard, running, inRound, applied, control, trigger,
                 loop, notifying, checked, neverStarted, history>>

\* The runtime sends a tick; a waiting tick absorbs it.
Tick ==
  /\ ticker = "armed"
  /\ ticker' = "due"
  /\ UNCHANGED <<published, stopped, runGuard, running, inRound, applied, channels, pc, site,
                 enabled, roundCompleted, tickerInterval, latest, ran, others, history>>

-----------------------------------------------------------------------------
(***************************************************************************)
(* Run.                                                                    *)
(***************************************************************************)
Goto(step) == pc' = step /\ UNCHANGED site

\* The deferred calls: setRunning(false), then close(doneCh).
Return ==
  /\ pc' = "returned" /\ running' = FALSE /\ doneCloses' = doneCloses + 1
  /\ UNCHANGED site

\* The runGuard section: Stop is absorbing.
RunStarts ==
  /\ pc = "never"
  /\ \/ stopped /\ Goto("returned") /\ UNCHANGED runGuard
     \/ ~stopped /\ runGuard' = TRUE /\ Goto("mark")
  /\ UNCHANGED <<published, stopped, running, inRound, applied, channels, enabled,
                 roundCompleted, tickerInterval, ticker, latest, ran, others, history>>

MarkRunning ==
  /\ pc = "mark"
  /\ running' = TRUE
  /\ Goto("first")
  /\ UNCHANGED <<published, stopped, runGuard, inRound, applied, channels, enabled,
                 roundCompleted, tickerInterval, ticker, latest, ran, others, history>>

\* Mutant of RestartTicker: the new interval is noted but the ticker not reset.
NoteInterval(interval) == tickerInterval' = interval /\ UNCHANGED ticker

\* ticker.Reset: a tick already waiting is discarded (Go 1.23 and later).
RestartTicker(interval) == tickerInterval' = interval /\ ticker' = "armed"

\* consumeControlState: state and mark in one critical section.
Consume == latest' = state /\ enabled' = state.enabled /\ pendingResume' = FALSE

FirstConsume ==
  /\ pc = "first"
  /\ Consume
  /\ tickerInterval' = state.interval /\ ticker' = "armed"
  /\ site' = "start"
  /\ pc' = IF state.enabled THEN "gate" ELSE "select"
  /\ UNCHANGED <<state, stopped, runGuard, running, inRound, applied, channels,
                 roundCompleted, ran, others, history>>

Woken ==
  /\ pc = "select"
  /\ pausedAtWake' = ~state.enabled
  /\ roundCompleted' = FALSE
  /\ UNCHANGED <<published, stopped, runGuard, running, inRound, applied, stopClosed,
                 enabled, tickerInterval, latest, ran, others, owed, lateRounds>>

\* The selects.  A paused loop listens to control and stop only.
WakeByTick ==
  /\ Woken /\ enabled /\ ticker = "due"
  /\ ticker' = "armed"
  /\ pc' = "pending?" /\ site' = "tick"
  /\ UNCHANGED <<control, trigger, doneCloses>>

WakeByTrigger ==
  /\ Woken /\ enabled /\ trigger
  /\ trigger' = FALSE
  /\ pc' = "pending?" /\ site' = "trigger"
  /\ UNCHANGED <<control, ticker, doneCloses>>

WakeByControl ==
  /\ Woken /\ control
  /\ control' = FALSE
  /\ Goto("consume")
  /\ UNCHANGED <<trigger, ticker, doneCloses>>

WakeByStop ==
  /\ pc = "select" /\ stopClosed
  /\ Return
  /\ UNCHANGED <<published, stopped, runGuard, inRound, applied, control, trigger, stopClosed,
                 enabled, roundCompleted, tickerInterval, ticker, latest, ran, others, history>>

\* hasPendingResume: an ordinary round gives way to the resume.
CheckPending ==
  /\ pc = "pending?"
  /\ Goto(IF pendingResume THEN "consume" ELSE "enabled?")
  /\ UNCHANGED <<published, stopped, runGuard, running, inRound, applied, channels, enabled,
                 roundCompleted, tickerInterval, ticker, latest, ran, others, history>>

\* Where a refused round goes on: `break` of the ticker, `continue` of the
\* trigger branch.
AfterRefusal == IF site = "tick" THEN "consume" ELSE "select"

\* Mutant of StillEnabled: the loop trusts its own phase.
PhaseEnabled == enabled

\* IsEnabled.
StillEnabled == state.enabled

CheckEnabled ==
  /\ pc = "enabled?"
  /\ Goto(IF StillEnabled THEN "gate" ELSE AfterRefusal)
  /\ UNCHANGED <<published, stopped, runGuard, running, inRound, applied, channels, enabled,
                 roundCompleted, tickerInterval, ticker, latest, ran, others, history>>

\* Mutant of MayBegin: a round is never refused.
AlwaysBegin == TRUE

MayBegin == ~stopped

\* beginRound, its check of isStopped ...
Gate ==
  /\ pc = "gate"
  /\ \/ MayBegin /\ Goto("begin") /\ UNCHANGED <<running, doneCloses>>
     \/ /\ ~MayBegin /\ site \in {"start", "resume"}
        /\ Return
     \/ /\ ~MayBegin /\ site \notin {"start", "resume"}
        /\ Goto(AfterRefusal) /\ UNCHANGED <<running, doneCloses>>
  /\ UNCHANGED <<published, stopped, runGuard, inRound, applied, control, trigger, stopClosed,
                 enabled, roundCompleted, tickerInterval, ticker, latest, ran, others, history>>

\* ... and, in another critical section, the start of the round.
BeginRound ==
  /\ pc = "begin"
  /\ inRound' = TRUE
  /\ lateRounds' = IF stopped THEN lateRounds + 1 ELSE lateRounds
  /\ Goto("snapshot")
  /\ UNCHANGED <<published, stopped, runGuard, running, applied, channels, enabled,
                 roundCompleted, tickerInterval, ticker, latest, ran, others,
                 owed, pausedAtWake>>

\* syncAll reads the snapshot it works on to the end.
RoundReads ==
  /\ pc = "snapshot"
  /\ ran' = state.enabled
  /\ owed' = {}
  /\ Goto("round")
  /\ UNCHANGED <<published, stopped, runGuard, running, inRound, applied, channels, enabled,
                 roundCompleted, tickerInterval, ticker, latest, others,
                 pausedAtWake, lateRounds>>

RoundEnds ==
  /\ pc = "round"
  /\ inRound' = FALSE
  /\ Goto(CASE site = "start"  -> "select"
            [] site = "resume" -> "notify"
            [] OTHER           -> "consume")
  /\ roundCompleted' = (site \notin {"start", "resume"})
  /\ ran' = TRUE
  /\ UNCHANGED <<published, stopped, runGuard, running, applied, channels, enabled,
                 tickerInterval, ticker, latest, others, history>>

\* Mutant of IntervalChanged: an interval takes effect with the next round.
IntervalIgnored == FALSE

IntervalChanged == state.interval # tickerInterval

\* The state is read again after every wake-up, whatever caused it.
ConsumeControl ==
  /\ pc = "consume"
  /\ Consume
  /\ \/ /\ state.enabled /\ (~enabled \/ pendingResume)
        /\ RestartTicker(state.interval)
        /\ Goto("drain")
     \/ /\ enabled /\ state.enabled /\ ~pendingResume
        /\ IF roundCompleted \/ IntervalChanged
           THEN RestartTicker(state.interval) ELSE UNCHANGED <<ticker, tickerInterval>>
        /\ Goto("notify")
     \/ /\ enabled /\ ~state.enabled
        /\ ticker' = "off" /\ UNCHANGED tickerInterval
        /\ Goto("notify")
     \/ /\ ~enabled /\ ~state.enabled
        /\ UNCHANGED <<ticker, tickerInterval>>
        /\ Goto("notify")
  /\ UNCHANGED <<state, stopped, runGuard, running, inRound, applied, channels,
                 roundCompleted, ran, others, history>>

DrainTrigger ==
  /\ pc = "drain"
  /\ trigger' = FALSE
  /\ pc' = "gate" /\ site' = "resume"
  /\ UNCHANGED <<published, stopped, runGuard, running, inRound, applied, control, stopClosed,
                 doneCloses, enabled, roundCompleted, tickerInterval, ticker, latest, ran,
                 others, history>>

NotifyStateApplied ==
  /\ pc = "notify"
  /\ applied' = latest.gen
  /\ Goto("select")
  /\ UNCHANGED <<published, stopped, runGuard, running, inRound, channels, enabled,
                 roundCompleted, tickerInterval, ticker, latest, ran, others, history>>

-----------------------------------------------------------------------------
Run ==
  \/ RunStarts \/ MarkRunning \/ FirstConsume
  \/ WakeByTick \/ WakeByTrigger \/ WakeByControl \/ WakeByStop
  \/ CheckPending \/ CheckEnabled \/ Gate \/ BeginRound \/ RoundReads \/ RoundEnds
  \/ ConsumeControl \/ DrainTrigger \/ NotifyStateApplied

\* Run has returned and everybody else is done.
Ended == pc = "returned" /\ stopper = "returned" /\ UNCHANGED vars

Next ==
  \/ Run \/ Publish \/ NotifyControl \/ CheckTrigger \/ TriggerSync
  \/ StopMarks \/ StopCloses \/ Tick \/ Ended

Spec == Init /\ [][Next]_vars

\* Goroutines run on; a select chooses among its ready cases at random, so a
\* case that is ready again and again is chosen at last; a begun request ends.
\* Nobody has to publish, to trigger or to stop.
FairSpec ==
  /\ Spec
  /\ WF_vars(Run) /\ SF_vars(WakeByControl) /\ SF_vars(WakeByTrigger) /\ SF_vars(WakeByStop)
  /\ WF_vars(NotifyControl) /\ WF_vars(TriggerSync) /\ WF_vars(StopCloses)

\* Time goes by, and the select does not pass over the ticker for ever.
TimeGoesBy == WF_vars(Tick) /\ SF_vars(WakeByTick)

-----------------------------------------------------------------------------
(***************************************************************************)
(* Properties.                                                             *)
(***************************************************************************)
\* The values the variables range over; doneCh is closed at most once (a
\* second close panics).
TypeOK ==
  /\ state \in StateType /\ latest \in StateType
  /\ {pendingResume, stopped, runGuard, running, inRound, control, trigger, stopClosed, enabled,
      roundCompleted, ran, notifying, neverStarted, pausedAtWake} \subseteq BOOLEAN
  /\ applied \in 0..latest.gen /\ tickerInterval \in Intervals
  /\ ticker \in {"off", "armed", "due"}
  /\ pc \in {"never", "mark", "first", "select", "pending?", "enabled?", "gate", "begin",
             "snapshot", "round", "consume", "drain", "notify", "returned"}
  /\ site \in {"start", "tick", "trigger", "resume"}
  /\ checked \subseteq Clients /\ stopper \in {"idle", "closing", "returned"}
  /\ owed \subseteq {"trigger", "resume"}
  /\ doneCloses \in 0..1 /\ lateRounds \in Nat

\* Once doneCh is closed no round is in flight and none can begin: Wait means
\* what it says, whichever of Stop and Run closed the channel.
DoneMeansQuiet ==
  doneCloses > 0 => stopped /\ pc \in {"never", "returned"} /\ ~inRound /\ ~running

\* Stop lets at most one more round begin: the one that had passed the gate.
AtMostOneLateRound == lateRounds <= 1

\* A pause that is in force when the loop wakes up holds back the ticker and
\* the manual trigger, although the loop itself has not consumed it yet.
NoRoundAfterPause == inRound => ~pausedAtWake

\* No lost wake-up: a loop about to block, with nothing underway that would
\* wake it, has consumed the published state, switch and resume included.
NoLostWakeup ==
  pc = "select" /\ ~control /\ ~notifying =>
    latest = state /\ enabled = state.enabled /\ ~pendingResume

\* An accepted trigger, and a resume, even one merged with the pause, is
\* answered without waiting for a tick, by a round that reads its snapshot
\* after it, unless a pause or Stop intervenes.
RequestsServed ==
  \A request \in {"trigger", "resume"} :
    (request \in owed) ~> (request \notin owed \/ ~state.enabled \/ stopped)

\* Every published state is applied, its interval included, or overtaken; as
\* publications are bounded, this is to say: the last one is.
Settles ==
  []<>(stopped \/ (applied = state.gen /\ (state.enabled => tickerInterval = state.interval)))

\* Once Stop is called, doneCh is closed, whether or not Run ever ran.
StopCompletes == stopped ~> (doneCloses > 0)

\* While sync is enabled and time goes by, rounds recur: no pause and resume
\* leaves the loop without a running ticker.
RoundsRecur == TimeGoesBy => []<>(inRound \/ ~state.enabled \/ stopped)

=============================================================================
