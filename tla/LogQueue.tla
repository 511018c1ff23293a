------------------------------ MODULE LogQueue ------------------------------
(***************************************************************************)
(* QueuedLogWriter: publishers hand target results to a bounded ring, one  *)
(* worker writes them to SQLite, and Stop drains the ring within a budget  *)
(* that a timer and the worker itself watch over.  A step is one critical  *)
(* section of q.mu, one channel or timer operation, or one write.      *)
(* A record stands for its rank among the admitted ones.                   *)
(***************************************************************************)
EXTENDS Naturals, Sequences

CONSTANT Capacity \* length of the ring

ASSUME LogQueueAssumption == Capacity \in Nat \ {0}

VARIABLES
  \* guarded by q.mu
  ring,
  accepting, expired,
  deadline,           \* the deadline is set
  overflow, abandoned, \* dropped records that no report has named yet
  \* channels, context, timer and clock
  wake,               \* the token of the wake channel
  cancelled,          \* q.ctx
  timer,              \* "off", "armed", "fired", "cancelling", "stopped", "done"
  due,                \* the deadline has passed
  \* the worker and Stop
  worker, hand,       \* next step; the record taken from the ring, or 0
  stopper,
  notifiers,          \* calls of Enqueue between append and notify
  \* history: records admitted, refused, written, failed, named by a report
  admitted, refused, written, failed, reported

ringVars   == <<ring, accepting, expired, deadline, overflow, abandoned>>
signalVars == <<wake, cancelled, timer, due>>
actorVars  == <<worker, hand, stopper, notifiers>>
countVars  == <<admitted, refused, written, failed, reported>>
logVars == <<ringVars, signalVars, actorVars, countVars>>

LogInit ==
  /\ ring = <<>> /\ accepting = TRUE /\ expired = FALSE /\ deadline = FALSE
  /\ overflow = 0 /\ abandoned = 0
  /\ wake = FALSE /\ cancelled = FALSE /\ timer = "off" /\ due = FALSE
  /\ worker = "loop" /\ hand = 0 /\ stopper = "idle" /\ notifiers = 0
  /\ admitted = 0 /\ refused = 0 /\ written = 0 /\ failed = 0 /\ reported = 0

-----------------------------------------------------------------------------
(***************************************************************************)
(* Enqueue, by a publisher: the critical section, then notify outside it.  *)
(***************************************************************************)
\* A full ring gives up its oldest record.
Overflow ==
  /\ ring' = Append(Tail(ring), admitted + 1)
  /\ overflow' = overflow + 1

Enqueue ==
  /\ accepting
  /\ \/ Len(ring) = Capacity /\ Overflow
     \/ Len(ring) < Capacity /\ ring' = Append(ring, admitted + 1) /\ UNCHANGED overflow
  /\ admitted' = admitted + 1
  /\ notifiers' = notifiers + 1
  /\ UNCHANGED <<accepting, expired, deadline, abandoned, signalVars, worker, hand, stopper, refused, written, failed, reported>>

Refuse ==
  /\ ~accepting
  /\ refused' = refused + 1
  /\ UNCHANGED <<ringVars, signalVars, actorVars, admitted, written, failed, reported>>

\* The non-blocking send into the wake channel of capacity 1.
Notify ==
  /\ notifiers > 0
  /\ wake' = TRUE
  /\ notifiers' = notifiers - 1
  /\ UNCHANGED <<ringVars, cancelled, timer, due, worker, hand, stopper, countVars>>

-----------------------------------------------------------------------------
(***************************************************************************)
(* expire, by the timer or by the worker: whoever comes first abandons     *)
(* what is pending, and then cancels the SQL underway.                     *)
(***************************************************************************)
Abandon ==
  /\ expired' = TRUE /\ accepting' = FALSE
  /\ abandoned' = abandoned + Len(ring)
  /\ ring' = <<>>

DeadlinePasses ==
  /\ deadline /\ ~due
  /\ due' = TRUE
  /\ UNCHANGED <<ringVars, wake, cancelled, timer, actorVars, countVars>>

TimerFires ==
  /\ timer = "armed" /\ due
  /\ timer' = "fired"
  /\ UNCHANGED <<ringVars, wake, cancelled, due, actorVars, countVars>>

TimerExpires ==
  /\ timer = "fired"
  /\ \/ ~expired /\ Abandon /\ timer' = "cancelling"
     \/ expired /\ timer' = "done" /\ UNCHANGED <<ring, accepting, expired, abandoned>>
  /\ UNCHANGED <<deadline, overflow, wake, cancelled, due, actorVars, countVars>>

TimerCancels ==
  /\ timer = "cancelling"
  /\ cancelled' = TRUE /\ wake' = TRUE
  /\ timer' = "done"
  /\ UNCHANGED <<ringVars, due, actorVars, countVars>>

-----------------------------------------------------------------------------
(***************************************************************************)
(* run, the worker.                                                        *)
(***************************************************************************)
Overdue == deadline /\ due /\ ~expired

At(from, to) == worker = from /\ worker' = to

FindOverdue ==
  /\ At("loop", "expire") /\ Overdue
  /\ UNCHANGED <<ringVars, signalVars, hand, stopper, notifiers, countVars>>

WorkerExpires ==
  /\ worker = "expire"
  /\ \/ ~expired /\ Abandon /\ worker' = "cancelling"
     \/ expired /\ worker' = "loop" /\ UNCHANGED <<ring, accepting, expired, abandoned>>
  /\ UNCHANGED <<deadline, overflow, signalVars, hand, stopper, notifiers, countVars>>

WorkerCancels ==
  /\ At("cancelling", "loop")
  /\ cancelled' = TRUE /\ wake' = TRUE
  /\ UNCHANGED <<ringVars, timer, due, hand, stopper, notifiers, countVars>>

Take ==
  /\ At("loop", "write") /\ ~Overdue
  /\ ring # <<>>
  /\ hand' = Head(ring) /\ ring' = Tail(ring)
  /\ UNCHANGED <<accepting, expired, deadline, overflow, abandoned, signalVars, stopper,
                 notifiers, countVars>>

Sleep ==
  /\ At("loop", "asleep") /\ ~Overdue
  /\ ring = <<>> /\ accepting
  /\ UNCHANGED <<ringVars, signalVars, hand, stopper, notifiers, countVars>>

Awake ==
  /\ At("asleep", "loop")
  /\ wake /\ wake' = FALSE
  /\ UNCHANGED <<ringVars, cancelled, timer, due, hand, stopper, notifiers, countVars>>

Quit ==
  /\ At("loop", "last") /\ ~Overdue
  /\ ring = <<>> /\ ~accepting
  /\ UNCHANGED <<ringVars, signalVars, hand, stopper, notifiers, countVars>>

\* The write, AddSyncLogContext.  It fails under a cancelled context; when the
\* trimming of old rows fails after the INSERT, the error is logged all the same.
Write ==
  /\ At("write", "report")
  /\ hand' = 0
  /\ \/ ~cancelled /\ written' = written + 1 /\ UNCHANGED failed
     \/ failed' = failed + 1 /\ UNCHANGED written
  /\ UNCHANGED <<ringVars, signalVars, stopper, notifiers, admitted, refused, reported>>

\* One line of the program's log names all drops since the last one.
NameDrops ==
  /\ reported' = reported + overflow + abandoned
  /\ overflow' = 0 /\ abandoned' = 0

\* Between writes, unless the window since the last report is still open.
ReportDrops ==
  /\ At("report", "loop")
  /\ \/ overflow + abandoned > 0 /\ NameDrops
     \/ UNCHANGED <<overflow, abandoned, reported>>
  /\ UNCHANGED <<ring, accepting, expired, deadline, signalVars, hand, stopper, notifiers, 
                 admitted, refused, written, failed>>

\* The deferred calls of run: the last report, cancel, close(done).
CloseDone ==
  /\ At("last", "done")
  /\ NameDrops
  /\ cancelled' = TRUE
  /\ UNCHANGED <<ring, accepting, expired, deadline, wake, timer, due, hand, stopper, notifiers,
                 admitted, refused, written, failed>>

-----------------------------------------------------------------------------
(***************************************************************************)
(* Stop.                                                                   *)
(***************************************************************************)
StopAt(from, to) == stopper = from /\ stopper' = to

StopFreezes ==
  /\ StopAt("idle", "arm")
  /\ accepting' = FALSE /\ deadline' = TRUE
  /\ UNCHANGED <<ring, expired, overflow, abandoned, signalVars, worker, hand, notifiers, 
                 countVars>>

StopArms ==
  /\ StopAt("arm", "unsubscribe")
  /\ timer' = "armed"
  /\ UNCHANGED <<ringVars, wake, cancelled, due, worker, hand, notifiers, countVars>>

\* The ingress goes from the event bus; see EventBus.
StopUnsubscribes ==
  /\ StopAt("unsubscribe", "notify")
  /\ UNCHANGED <<ringVars, signalVars, worker, hand, notifiers, countVars>>

StopNotifies ==
  /\ StopAt("notify", "join")
  /\ wake' = TRUE
  /\ UNCHANGED <<ringVars, cancelled, timer, due, worker, hand, notifiers, countVars>>

StopJoins ==
  /\ stopper = "join" /\ worker = "done"
  /\ \/ timer = "armed" /\ timer' = "stopped" /\ stopper' = "returned"
     \/ timer # "armed" /\ stopper' = "timer" /\ UNCHANGED timer
  /\ UNCHANGED <<ringVars, wake, cancelled, due, worker, hand, notifiers, countVars>>

\* timer.Stop() was too late: wait for expiredDone.
StopJoinsTimer ==
  /\ StopAt("timer", "returned")
  /\ timer = "done"
  /\ UNCHANGED <<ringVars, signalVars, worker, hand, notifiers, countVars>>

-----------------------------------------------------------------------------
Worker ==
  \/ FindOverdue \/ WorkerExpires \/ WorkerCancels \/ Take \/ Sleep \/ Awake \/ Quit
  \/ Write \/ ReportDrops \/ CloseDone
Timer == TimerFires \/ TimerExpires \/ TimerCancels
Joins == StopArms \/ StopNotifies \/ StopJoins \/ StopJoinsTimer

LogNext ==
  \/ Enqueue \/ Refuse \/ Notify \/ DeadlinePasses \/ Worker \/ Timer \/ Joins
  \/ StopFreezes \/ StopUnsubscribes

LogSpec == LogInit /\ [][LogNext]_logVars

-----------------------------------------------------------------------------
(***************************************************************************)
(* Properties.                                                             *)
(***************************************************************************)
LogTypeOK ==
  /\ ring \in Seq(Nat) /\ Len(ring) <= Capacity
  /\ accepting \in BOOLEAN /\ expired \in BOOLEAN /\ deadline \in BOOLEAN
  /\ wake \in BOOLEAN /\ cancelled \in BOOLEAN /\ due \in BOOLEAN
  /\ overflow \in Nat /\ abandoned \in Nat /\ hand \in Nat /\ notifiers \in Nat
  /\ timer \in {"off", "armed", "fired", "cancelling", "stopped", "done"}
  /\ worker \in {"loop", "expire", "cancelling", "write", "report", "asleep", "last", "done"}
  /\ stopper \in {"idle", "arm", "unsubscribe", "notify", "join", "timer", "returned"}
  /\ admitted \in Nat /\ refused \in Nat /\ written \in Nat /\ failed \in Nat
  /\ reported \in Nat

InHand == IF worker = "write" THEN 1 ELSE 0

\* Every admitted result is in the table, known to have failed, pending, in
\* the worker's hand, or in the count of drops: none vanishes and none is
\* counted twice, whoever expires the queue and when.
Accounted ==
  admitted = written + failed + Len(ring) + InHand + overflow + abandoned + reported

\* The ring holds the newest admitted results in their order: only the oldest
\* make room, and the worker's record is older than all of them.
NewestKept ==
  /\ \A i \in 1..Len(ring) : ring[i] = admitted - Len(ring) + i
  /\ hand <= admitted - Len(ring)

\* A worker asleep with nobody about to wake it has nothing to do.
SleepsOnlyWhenIdle ==
  worker = "asleep" /\ ~wake /\ notifiers = 0 =>
    ring = <<>> /\ (accepting \/ stopper \in {"arm", "unsubscribe", "notify"})

\* When Stop returns the worker and the timer are over, nothing is pending,
\* and every drop has been named: SQLite may be closed.
StopJoinsAll ==
  stopper = "returned" =>
    /\ worker = "done" /\ timer \in {"stopped", "done"}
    /\ ring = <<>> /\ overflow + abandoned = 0

=============================================================================
