-------------------------- MODULE LifecycleProofs ---------------------------
(***************************************************************************)
(* Proofs about Lifecycle and the two components it drives, the log queue  *)
(* and the event bus: for a ring of any length, any number of results,     *)
(* publishers, requests, alert channels, limits, alert sets and events, and*)
(* at whatever moment the process is told to end.                          *)
(***************************************************************************)
EXTENDS Lifecycle, TLAPS, SequenceTheorems, FiniteSetTheorems, FunctionTheorems

-----------------------------------------------------------------------------
(***************************************************************************)
(* Part 1.  The log queue, by itself.                                      *)
(***************************************************************************)

(***************************************************************************)
(* The invariant.  Everything hangs on the order of Stop: accepting and    *)
(* the deadline change together, and only under a deadline does anybody    *)
(* expire the queue.                                                       *)
(***************************************************************************)
\* Stop has frozen the queue, and only it starts the timer.
Frozen ==
  /\ accepting <=> stopper = "idle"
  /\ deadline <=> stopper # "idle"
  /\ due => deadline
  /\ timer = "off" <=> stopper \in {"idle", "arm"}

\* Whoever expires the queue does so under the deadline, and leaves it empty.
Expiring ==
  /\ expired \/ worker \in {"expire", "cancelling"} => deadline
  /\ expired => ring = <<>>

\* A worker about to return has found the queue empty for good.
Leaving ==
  /\ worker \in {"last", "done"} => ring = <<>> /\ ~accepting
  /\ worker = "done" => overflow = 0 /\ abandoned = 0

\* Stop waits for the worker first, then for the timer it could not stop.
Joining ==
  /\ stopper \in {"timer", "returned"} => worker = "done"
  /\ stopper = "returned" => timer \in {"stopped", "done"}

\* The worker sleeps over a result only until the publisher has notified it,
\* and does not sleep through the end.
Awakened ==
  worker = "asleep" /\ ~wake =>
    /\ notifiers > 0 \/ ring = <<>>
    /\ stopper \in {"idle", "arm", "unsubscribe", "notify"}

LogIInv ==
  /\ LogTypeOK /\ Frozen /\ Expiring /\ Leaving /\ Joining /\ Awakened /\ Accounted /\ NewestKept

-----------------------------------------------------------------------------
(***************************************************************************)
(* The ring.                                                               *)
(***************************************************************************)
LEMMA CapacityBound == Capacity \in Nat /\ Capacity >= 1
BY LogQueueAssumption DEF LogQueueAssumption

LEMMA RingTail ==
  ASSUME NEW s \in Seq(Nat), s # <<>>
  PROVE  /\ Head(s) = s[1] /\ Head(s) \in Nat /\ Tail(s) \in Seq(Nat)
         /\ Len(s) \in Nat /\ Len(s) >= 1 /\ Len(Tail(s)) = Len(s) - 1
         /\ \A i \in 1..Len(Tail(s)) : Tail(s)[i] = s[i + 1]
<1>1. Len(s) \in Nat /\ Len(s) >= 1
  BY EmptySeq, LenProperties
<1> QED
  BY <1>1, HeadTailProperties

LEMMA RingAppend ==
  ASSUME NEW s \in Seq(Nat), NEW r \in Nat
  PROVE  /\ Append(s, r) \in Seq(Nat) /\ Append(s, r) # <<>>
         /\ Len(s) \in Nat /\ Len(Append(s, r)) = Len(s) + 1
         /\ \A i \in 1..Len(s) : Append(s, r)[i] = s[i]
         /\ Append(s, r)[Len(s) + 1] = r
BY AppendProperties, LenProperties

LEMMA RingEmpty == <<>> \in Seq(Nat) /\ Len(<<>>) = 0
OBVIOUS

\* A full ring holds something.
LEMMA RingFull ==
  ASSUME ring \in Seq(Nat), Len(ring) = Capacity
  PROVE  ring # <<>>
BY CapacityBound, RingEmpty


-----------------------------------------------------------------------------
(***************************************************************************)
(* The steps.                                                              *)
(***************************************************************************)
\* A full ring gives up its head, and the rest moves up by one.
LEMMA OverflowRing ==
  ASSUME LogTypeOK, NewestKept, Len(ring) = Capacity, Overflow
  PROVE  /\ ring' \in Seq(Nat) /\ Len(ring') = Len(ring) /\ ring' # <<>>
         /\ \A i \in 1..Len(ring') : ring'[i] = admitted + 1 - Len(ring') + i
<1> DEFINE t == Tail(ring)
<1>1. /\ t \in Seq(Nat) /\ Len(t) = Len(ring) - 1 /\ Len(ring) \in Nat /\ Len(ring) >= 1
      /\ \A i \in 1..Len(t) : t[i] = ring[i + 1]
  BY RingFull, RingTail DEF LogTypeOK
<1>2. admitted + 1 \in Nat
  BY DEF LogTypeOK
<1>3. ring' = Append(t, admitted + 1)
  BY DEF Overflow
<1>4. /\ ring' \in Seq(Nat) /\ ring' # <<>> /\ Len(ring') = Len(t) + 1
      /\ \A i \in 1..Len(t) : ring'[i] = t[i]
      /\ ring'[Len(t) + 1] = admitted + 1
  <2> HIDE DEF t
  <2> QED
    BY <1>1, <1>2, <1>3, RingAppend
<1> HIDE DEF t
<1>5. ASSUME NEW i \in 1..Len(ring')
      PROVE  ring'[i] = admitted + 1 - Len(ring') + i
  <2>1. CASE i = Len(t) + 1
    BY <2>1, <1>1, <1>4 DEF LogTypeOK
  <2>2. CASE i \in 1..Len(t)
    <3>1. ring'[i] = ring[i + 1] /\ i + 1 \in 1..Len(ring)
      BY <2>2, <1>1, <1>4
    <3>2. ring[i + 1] = admitted - Len(ring) + (i + 1)
      BY <3>1 DEF NewestKept
    <3>3. Len(ring') = Len(ring) /\ admitted \in Nat /\ i \in Nat
      BY <2>2, <1>1, <1>4 DEF LogTypeOK
    <3> QED
      BY <3>1, <3>2, <3>3, <1>1
  <2> QED
    BY <2>1, <2>2, <1>1, <1>4
<1> QED
  BY <1>1, <1>4, <1>5

\* A ring with room keeps what it holds and takes one more.
LEMMA RoomyRing ==
  ASSUME LogTypeOK, NewestKept, ring' = Append(ring, admitted + 1)
  PROVE  /\ ring' \in Seq(Nat) /\ Len(ring') = Len(ring) + 1 /\ Len(ring) \in Nat /\ ring' # <<>>
         /\ \A i \in 1..Len(ring') : ring'[i] = admitted + 1 - Len(ring') + i
<1>1. ring \in Seq(Nat) /\ admitted + 1 \in Nat
  BY DEF LogTypeOK
<1>2. /\ ring' \in Seq(Nat) /\ ring' # <<>> /\ Len(ring) \in Nat /\ Len(ring') = Len(ring) + 1
      /\ \A i \in 1..Len(ring) : ring'[i] = ring[i]
      /\ ring'[Len(ring) + 1] = admitted + 1
  BY <1>1, RingAppend
<1>3. ASSUME NEW i \in 1..Len(ring')
      PROVE  ring'[i] = admitted + 1 - Len(ring') + i
  <2>1. CASE i = Len(ring) + 1
    BY <2>1, <1>2 DEF LogTypeOK
  <2>2. CASE i \in 1..Len(ring)
    <3>1. ring'[i] = ring[i] /\ ring[i] = admitted - Len(ring) + i
      BY <2>2, <1>2 DEF NewestKept
    <3> QED
      BY <3>1, <2>2, <1>2 DEF LogTypeOK
  <2> QED
    BY <2>1, <2>2, <1>2
<1> QED
  BY <1>2, <1>3

\* Enqueue admits a result, into the room there is or in place of the oldest.
LEMMA EnqueueStep ==
  ASSUME LogIInv, Enqueue
  PROVE  LogIInv'
<1> USE DEF LogIInv
<1>1. \/ /\ Len(ring) = Capacity /\ Overflow
      \/ /\ Len(ring) < Capacity /\ ring' = Append(ring, admitted + 1) /\ overflow' = overflow
  BY DEF Enqueue
<1>2. Len(ring) \in Nat /\ accepting /\ stopper = "idle" /\ ~expired
  BY RingTail, RingEmpty DEF LogTypeOK, Frozen, Expiring, Enqueue
<1>3. /\ ring' \in Seq(Nat) /\ ring' # <<>> /\ Len(ring') <= Capacity /\ Len(ring') \in Nat
      /\ overflow' \in Nat
      /\ Len(ring') + overflow' = Len(ring) + overflow + 1 /\ Len(ring') <= Len(ring) + 1
      /\ \A i \in 1..Len(ring') : ring'[i] = admitted + 1 - Len(ring') + i
  <2>1. CASE Len(ring) = Capacity /\ Overflow
    <3>1. overflow' = overflow + 1
      BY <2>1 DEF Overflow
    <3> QED
      BY <2>1, <3>1, <1>2, OverflowRing, CapacityBound DEF LogTypeOK
  <2>2. CASE Len(ring) < Capacity /\ ring' = Append(ring, admitted + 1) /\ overflow' = overflow
    BY <2>2, <1>2, RoomyRing, CapacityBound DEF LogTypeOK
  <2> QED
    BY <1>1, <2>1, <2>2
<1>4. /\ admitted' = admitted + 1 /\ notifiers' = notifiers + 1
      /\ UNCHANGED <<accepting, expired, deadline, abandoned, signalVars, worker, hand, stopper,
                     refused, written, failed, reported>>
  BY DEF Enqueue
<1>5. /\ admitted' = admitted + 1 /\ hand' = hand /\ abandoned' = abandoned
      /\ written' = written /\ failed' = failed /\ reported' = reported /\ worker' = worker
  BY <1>4
<1>6. LogTypeOK'
  BY <1>3, <1>4 DEF LogTypeOK, signalVars
<1>7. Frozen'
  BY <1>4 DEF Frozen, signalVars
<1>8. Expiring'
  BY <1>2, <1>4 DEF Expiring
<1>9. Leaving'
  BY <1>2, <1>4 DEF Leaving
<1>10. Joining'
  BY <1>4 DEF Joining, signalVars
<1>11. Awakened'
  BY <1>2, <1>4 DEF Awakened, LogTypeOK, signalVars
<1>12. Accounted'
  <2>1. /\ admitted \in Nat /\ written \in Nat /\ failed \in Nat /\ overflow \in Nat
        /\ abandoned \in Nat /\ reported \in Nat
    BY DEF LogTypeOK
  <2>2. PICK n \in Nat, m \in Nat, p \in Nat :
          n = Len(ring) /\ m = Len(ring') /\ p = overflow' /\ m + p = n + overflow + 1
    BY <1>2, <1>3
  <2>3. PICK h \in Nat : h = InHand /\ h = InHand'
    <3>1. InHand \in Nat /\ InHand' = InHand
      BY <1>5 DEF InHand
    <3> QED
      BY <3>1
  <2>4. admitted = written + failed + n + h + overflow + abandoned + reported
    BY <2>2, <2>3 DEF Accounted
  <2>5. admitted + 1 = written + failed + m + h + p + abandoned + reported
    <3>1. n \in Nat /\ m \in Nat /\ p \in Nat /\ h \in Nat /\ m + p = n + overflow + 1
      BY <2>2, <2>3
    <3> QED
      BY <2>1, <2>4, <3>1
  <2>6. /\ written' = written /\ failed' = failed /\ abandoned' = abandoned
        /\ reported' = reported /\ admitted' = admitted + 1
    BY <1>5
  <2> QED
    BY <2>2, <2>3, <2>5, <2>6 DEF Accounted
<1>13. NewestKept'
  <2>1. hand' <= admitted' - Len(ring')
    <3>1. Len(ring') <= Len(ring) + 1 /\ Len(ring') \in Nat
      BY <1>3
    <3> QED
      BY <3>1, <1>2, <1>5 DEF NewestKept, LogTypeOK
  <2>2. \A i \in 1..Len(ring') : ring'[i] = admitted' - Len(ring') + i
    BY <1>3, <1>5 DEF LogTypeOK
  <2> QED
    BY <2>1, <2>2 DEF NewestKept
<1> QED
  BY <1>6, <1>7, <1>8, <1>9, <1>10, <1>11, <1>12, <1>13

\* Expiry moves the whole ring into the count of abandoned results.
LEMMA AbandonStep ==
  ASSUME LogIInv, deadline, Abandon,
         UNCHANGED <<deadline, overflow, wake, cancelled, due, hand, stopper, notifiers, countVars>>,
         \/ timer = "fired" /\ timer' = "cancelling" /\ worker' = worker
         \/ worker = "expire" /\ worker' = "cancelling" /\ timer' = timer
  PROVE  LogIInv'
<1> USE DEF LogIInv, Abandon
<1>1. Len(ring) \in Nat /\ ring' = <<>> /\ Len(ring') = 0 /\ ring' \in Seq(Nat)
  BY RingTail, RingEmpty DEF LogTypeOK
<1>2. stopper # "idle" /\ (timer = "fired" => stopper \notin {"idle", "arm", "returned"})
  BY DEF Frozen, LogTypeOK, Joining
<1>3. abandoned' = abandoned + Len(ring) /\ expired' = TRUE /\ accepting' = FALSE
  OBVIOUS
<1>4. LogTypeOK'
  <2>1. Len(ring') <= Capacity /\ abandoned' \in Nat /\ ring' \in Seq(Nat)
    BY <1>1, <1>3, CapacityBound DEF LogTypeOK
  <2>2. worker' \in {worker, "cancelling"} /\ timer' \in {timer, "cancelling"}
    OBVIOUS
  <2>3. /\ deadline' = deadline /\ overflow' = overflow /\ wake' = wake /\ cancelled' = cancelled
        /\ due' = due /\ hand' = hand /\ stopper' = stopper /\ notifiers' = notifiers
        /\ countVars' = countVars
    OBVIOUS
  <2> HIDE DEF Abandon
  <2> QED
    BY <2>1, <2>2, <2>3, <1>3 DEF LogTypeOK, countVars
<1>5. Frozen'
  <2>1. accepting' = FALSE /\ deadline' = deadline /\ due' = due /\ stopper' = stopper
    OBVIOUS
  <2>2. timer' = "off" <=> timer = "off"
    BY DEF LogTypeOK
  <2> QED
    BY <2>1, <2>2, <1>2 DEF Frozen
<1>6. Expiring'
  BY <1>1 DEF Expiring
<1>7. Leaving'
  <2>1. worker' \in {"last", "done"} => worker \in {"last", "done"}
    OBVIOUS
  <2>2. worker' = "done" => overflow' = 0 /\ abandoned' = 0
    BY <2>1, <1>1, RingEmpty DEF Leaving, LogTypeOK
  <2> QED
    BY <2>2, <1>1 DEF Leaving
<1>8. Joining'
  BY <1>2 DEF Joining
<1>9. Awakened'
  BY <1>1 DEF Awakened
<1>10. Accounted'
  BY <1>1 DEF Accounted, InHand, LogTypeOK, countVars
<1>11. NewestKept'
  BY <1>1 DEF NewestKept, LogTypeOK, countVars
<1> QED
  BY <1>4, <1>5, <1>6, <1>7, <1>8, <1>9, <1>10, <1>11

\* The worker takes the oldest record out of the ring.
LEMMA TakeStep ==
  ASSUME LogIInv, Take
  PROVE  LogIInv'
<1> USE DEF LogIInv
<1>1. /\ worker = "loop" /\ worker' = "write" /\ hand' = Head(ring) /\ ring' = Tail(ring)
      /\ ring # <<>>
      /\ UNCHANGED <<accepting, expired, deadline, overflow, abandoned, signalVars, stopper,
                     notifiers, countVars>>
  BY DEF Take, At
<1>2. /\ Head(ring) = ring[1] /\ Head(ring) \in Nat /\ Tail(ring) \in Seq(Nat)
      /\ Len(ring) \in Nat /\ Len(ring) >= 1 /\ Len(Tail(ring)) = Len(ring) - 1
      /\ \A i \in 1..Len(Tail(ring)) : Tail(ring)[i] = ring[i + 1]
  BY <1>1, RingTail DEF LogTypeOK
<1>3. LogTypeOK'
  BY <1>1, <1>2, CapacityBound DEF LogTypeOK, signalVars, countVars
<1>4. Frozen'
  BY <1>1 DEF Frozen, signalVars
<1>5. Expiring'
  BY <1>1 DEF Expiring
<1>6. Leaving'
  BY <1>1 DEF Leaving
<1>7. Joining'
  BY <1>1 DEF Joining, signalVars
<1>8. Awakened'
  BY <1>1 DEF Awakened
<1>9. Accounted'
  BY <1>1, <1>2 DEF Accounted, InHand, LogTypeOK, countVars
<1>10. NewestKept'
  <2>1. Len(ring') = Len(ring) - 1 /\ admitted' = admitted
    BY <1>1, <1>2 DEF countVars
  <2>2. hand' = admitted - Len(ring) + 1
    BY <1>1, <1>2 DEF NewestKept
  <2>3. ASSUME NEW i \in 1..Len(ring')
        PROVE  ring'[i] = admitted' - Len(ring') + i
    <3>1. ring'[i] = ring[i + 1] /\ i + 1 \in 1..Len(ring)
      BY <2>1, <1>1, <1>2
    <3> QED
      BY <3>1, <2>1, <1>2 DEF NewestKept, LogTypeOK
  <2> QED
    BY <2>1, <2>2, <2>3, <1>2 DEF NewestKept, LogTypeOK
<1> QED
  BY <1>3, <1>4, <1>5, <1>6, <1>7, <1>8, <1>9, <1>10

\* A step that leaves the ring alone leaves its order alone.
LEMMA RingUnmoved ==
  ASSUME LogIInv, UNCHANGED <<ring, admitted, hand>>
  PROVE  NewestKept' /\ Len(ring) \in Nat
BY RingTail, RingEmpty DEF LogIInv, NewestKept, LogTypeOK

LEMMA RefuseStep ==
  ASSUME LogIInv, Refuse
  PROVE  LogIInv'
<1> USE DEF LogIInv, Refuse, ringVars, signalVars, actorVars, countVars
<1>1. LogTypeOK'
  BY DEF LogTypeOK
<1>2. (Frozen /\ Expiring /\ Leaving /\ Joining /\ Awakened)'
  BY DEF Frozen, Expiring, Leaving, Joining, Awakened, LogTypeOK
<1>3. Accounted'
  BY DEF Accounted, InHand, LogTypeOK
<1>4. NewestKept'
  BY RingUnmoved
<1> QED
  BY <1>1, <1>2, <1>3, <1>4

LEMMA NotifyStep ==
  ASSUME LogIInv, Notify
  PROVE  LogIInv'
<1> USE DEF LogIInv, Notify, ringVars, signalVars, actorVars, countVars
<1>1. LogTypeOK'
  BY DEF LogTypeOK
<1>2. (Frozen /\ Expiring /\ Leaving /\ Joining /\ Awakened)'
  BY DEF Frozen, Expiring, Leaving, Joining, Awakened, LogTypeOK
<1>3. Accounted'
  BY DEF Accounted, InHand, LogTypeOK
<1>4. NewestKept'
  BY RingUnmoved
<1> QED
  BY <1>1, <1>2, <1>3, <1>4

LEMMA DeadlinePassesStep ==
  ASSUME LogIInv, DeadlinePasses
  PROVE  LogIInv'
<1> USE DEF LogIInv, DeadlinePasses, ringVars, signalVars, actorVars, countVars
<1>1. LogTypeOK'
  BY DEF LogTypeOK
<1>2. (Frozen /\ Expiring /\ Leaving /\ Joining /\ Awakened)'
  BY DEF Frozen, Expiring, Leaving, Joining, Awakened, LogTypeOK
<1>3. Accounted'
  BY DEF Accounted, InHand, LogTypeOK
<1>4. NewestKept'
  BY RingUnmoved
<1> QED
  BY <1>1, <1>2, <1>3, <1>4

LEMMA FindOverdueStep ==
  ASSUME LogIInv, FindOverdue
  PROVE  LogIInv'
<1> USE DEF LogIInv, FindOverdue, At, Overdue, ringVars, signalVars, actorVars, countVars
<1>1. LogTypeOK'
  BY DEF LogTypeOK
<1>2. (Frozen /\ Expiring /\ Leaving /\ Joining /\ Awakened)'
  BY DEF Frozen, Expiring, Leaving, Joining, Awakened, LogTypeOK
<1>3. Accounted'
  BY DEF Accounted, InHand, LogTypeOK
<1>4. NewestKept'
  BY RingUnmoved
<1> QED
  BY <1>1, <1>2, <1>3, <1>4

LEMMA WorkerCancelsStep ==
  ASSUME LogIInv, WorkerCancels
  PROVE  LogIInv'
<1> USE DEF LogIInv, WorkerCancels, At, ringVars, signalVars, actorVars, countVars
<1>1. LogTypeOK'
  BY DEF LogTypeOK
<1>2. (Frozen /\ Expiring /\ Leaving /\ Joining /\ Awakened)'
  BY DEF Frozen, Expiring, Leaving, Joining, Awakened, LogTypeOK
<1>3. Accounted'
  BY DEF Accounted, InHand, LogTypeOK
<1>4. NewestKept'
  BY RingUnmoved
<1> QED
  BY <1>1, <1>2, <1>3, <1>4

LEMMA SleepStep ==
  ASSUME LogIInv, Sleep
  PROVE  LogIInv'
<1> USE DEF LogIInv, Sleep, At, ringVars, signalVars, actorVars, countVars
<1>1. LogTypeOK'
  BY DEF LogTypeOK
<1>2. (Frozen /\ Expiring /\ Leaving /\ Joining /\ Awakened)'
  BY DEF Frozen, Expiring, Leaving, Joining, Awakened, LogTypeOK
<1>3. Accounted'
  BY DEF Accounted, InHand, LogTypeOK
<1>4. NewestKept'
  BY RingUnmoved
<1> QED
  BY <1>1, <1>2, <1>3, <1>4

LEMMA AwakeStep ==
  ASSUME LogIInv, Awake
  PROVE  LogIInv'
<1> USE DEF LogIInv, Awake, At, ringVars, signalVars, actorVars, countVars
<1>1. LogTypeOK'
  BY DEF LogTypeOK
<1>2. (Frozen /\ Expiring /\ Leaving /\ Joining /\ Awakened)'
  BY DEF Frozen, Expiring, Leaving, Joining, Awakened, LogTypeOK
<1>3. Accounted'
  BY DEF Accounted, InHand, LogTypeOK
<1>4. NewestKept'
  BY RingUnmoved
<1> QED
  BY <1>1, <1>2, <1>3, <1>4

LEMMA QuitStep ==
  ASSUME LogIInv, Quit
  PROVE  LogIInv'
<1> USE DEF LogIInv, Quit, At, ringVars, signalVars, actorVars, countVars
<1>1. LogTypeOK'
  BY DEF LogTypeOK
<1>2. (Frozen /\ Expiring /\ Leaving /\ Joining /\ Awakened)'
  BY DEF Frozen, Expiring, Leaving, Joining, Awakened, LogTypeOK
<1>3. Accounted'
  BY DEF Accounted, InHand, LogTypeOK
<1>4. NewestKept'
  BY RingUnmoved
<1> QED
  BY <1>1, <1>2, <1>3, <1>4

LEMMA WriteStep ==
  ASSUME LogIInv, Write
  PROVE  LogIInv'
<1> USE DEF LogIInv, Write, At, ringVars, signalVars, actorVars, countVars
<1>1. LogTypeOK'
  BY DEF LogTypeOK
<1>2. (Frozen /\ Expiring /\ Leaving /\ Joining /\ Awakened)'
  BY DEF Frozen, Expiring, Leaving, Joining, Awakened, LogTypeOK
<1>3. Accounted'
  BY DEF Accounted, InHand, LogTypeOK
<1>4. NewestKept'
  BY DEF NewestKept, LogTypeOK
<1> QED
  BY <1>1, <1>2, <1>3, <1>4

LEMMA ReportDropsStep ==
  ASSUME LogIInv, ReportDrops
  PROVE  LogIInv'
<1> USE DEF LogIInv, ReportDrops, At, NameDrops, ringVars, signalVars, actorVars, countVars
<1>1. LogTypeOK'
  BY DEF LogTypeOK
<1>2. (Frozen /\ Expiring /\ Leaving /\ Joining /\ Awakened)'
  BY DEF Frozen, Expiring, Leaving, Joining, Awakened, LogTypeOK
<1>3. Accounted'
  BY DEF Accounted, InHand, LogTypeOK
<1>4. NewestKept'
  BY RingUnmoved
<1> QED
  BY <1>1, <1>2, <1>3, <1>4

LEMMA CloseDoneStep ==
  ASSUME LogIInv, CloseDone
  PROVE  LogIInv'
<1> USE DEF LogIInv, CloseDone, At, NameDrops, ringVars, signalVars, actorVars, countVars
<1>1. LogTypeOK'
  BY DEF LogTypeOK
<1>2. (Frozen /\ Expiring /\ Leaving /\ Joining /\ Awakened)'
  BY DEF Frozen, Expiring, Leaving, Joining, Awakened, LogTypeOK
<1>3. Accounted'
  BY DEF Accounted, InHand, LogTypeOK
<1>4. NewestKept'
  BY RingUnmoved
<1> QED
  BY <1>1, <1>2, <1>3, <1>4

LEMMA TimerFiresStep ==
  ASSUME LogIInv, TimerFires
  PROVE  LogIInv'
<1> USE DEF LogIInv, TimerFires, ringVars, signalVars, actorVars, countVars
<1>1. LogTypeOK'
  BY DEF LogTypeOK
<1>2. (Frozen /\ Expiring /\ Leaving /\ Joining /\ Awakened)'
  BY DEF Frozen, Expiring, Leaving, Joining, Awakened, LogTypeOK
<1>3. Accounted'
  BY DEF Accounted, InHand, LogTypeOK
<1>4. NewestKept'
  BY RingUnmoved
<1> QED
  BY <1>1, <1>2, <1>3, <1>4

LEMMA TimerCancelsStep ==
  ASSUME LogIInv, TimerCancels
  PROVE  LogIInv'
<1> USE DEF LogIInv, TimerCancels, ringVars, signalVars, actorVars, countVars
<1>1. LogTypeOK'
  BY DEF LogTypeOK
<1>2. (Frozen /\ Expiring /\ Leaving /\ Joining /\ Awakened)'
  BY DEF Frozen, Expiring, Leaving, Joining, Awakened, LogTypeOK
<1>3. Accounted'
  BY DEF Accounted, InHand, LogTypeOK
<1>4. NewestKept'
  BY RingUnmoved
<1> QED
  BY <1>1, <1>2, <1>3, <1>4

LEMMA StopFreezesStep ==
  ASSUME LogIInv, StopFreezes
  PROVE  LogIInv'
<1> USE DEF LogIInv, StopFreezes, StopAt, ringVars, signalVars, actorVars, countVars
<1>1. LogTypeOK'
  BY DEF LogTypeOK
<1>2. (Frozen /\ Expiring /\ Leaving /\ Joining /\ Awakened)'
  BY DEF Frozen, Expiring, Leaving, Joining, Awakened, LogTypeOK
<1>3. Accounted'
  BY DEF Accounted, InHand, LogTypeOK
<1>4. NewestKept'
  BY RingUnmoved
<1> QED
  BY <1>1, <1>2, <1>3, <1>4

LEMMA StopArmsStep ==
  ASSUME LogIInv, StopArms
  PROVE  LogIInv'
<1> USE DEF LogIInv, StopArms, StopAt, ringVars, signalVars, actorVars, countVars
<1>1. LogTypeOK'
  BY DEF LogTypeOK
<1>2. (Frozen /\ Expiring /\ Leaving /\ Joining /\ Awakened)'
  BY DEF Frozen, Expiring, Leaving, Joining, Awakened, LogTypeOK
<1>3. Accounted'
  BY DEF Accounted, InHand, LogTypeOK
<1>4. NewestKept'
  BY RingUnmoved
<1> QED
  BY <1>1, <1>2, <1>3, <1>4

LEMMA StopUnsubscribesStep ==
  ASSUME LogIInv, StopUnsubscribes
  PROVE  LogIInv'
<1> USE DEF LogIInv, StopUnsubscribes, StopAt, ringVars, signalVars, actorVars, countVars
<1>1. LogTypeOK'
  BY DEF LogTypeOK
<1>2. (Frozen /\ Expiring /\ Leaving /\ Joining /\ Awakened)'
  BY DEF Frozen, Expiring, Leaving, Joining, Awakened, LogTypeOK
<1>3. Accounted'
  BY DEF Accounted, InHand, LogTypeOK
<1>4. NewestKept'
  BY RingUnmoved
<1> QED
  BY <1>1, <1>2, <1>3, <1>4

LEMMA StopNotifiesStep ==
  ASSUME LogIInv, StopNotifies
  PROVE  LogIInv'
<1> USE DEF LogIInv, StopNotifies, StopAt, ringVars, signalVars, actorVars, countVars
<1>1. LogTypeOK'
  BY DEF LogTypeOK
<1>2. (Frozen /\ Expiring /\ Leaving /\ Joining /\ Awakened)'
  BY DEF Frozen, Expiring, Leaving, Joining, Awakened, LogTypeOK
<1>3. Accounted'
  BY DEF Accounted, InHand, LogTypeOK
<1>4. NewestKept'
  BY RingUnmoved
<1> QED
  BY <1>1, <1>2, <1>3, <1>4

LEMMA StopJoinsStep ==
  ASSUME LogIInv, StopJoins
  PROVE  LogIInv'
<1> USE DEF LogIInv, StopJoins, ringVars, signalVars, actorVars, countVars
<1>1. LogTypeOK'
  BY DEF LogTypeOK
<1>2. (Frozen /\ Expiring /\ Leaving /\ Joining /\ Awakened)'
  BY DEF Frozen, Expiring, Leaving, Joining, Awakened, LogTypeOK
<1>3. Accounted'
  BY DEF Accounted, InHand, LogTypeOK
<1>4. NewestKept'
  BY RingUnmoved
<1> QED
  BY <1>1, <1>2, <1>3, <1>4

LEMMA StopJoinsTimerStep ==
  ASSUME LogIInv, StopJoinsTimer
  PROVE  LogIInv'
<1> USE DEF LogIInv, StopJoinsTimer, StopAt, ringVars, signalVars, actorVars, countVars
<1>1. LogTypeOK'
  BY DEF LogTypeOK
<1>2. (Frozen /\ Expiring /\ Leaving /\ Joining /\ Awakened)'
  BY DEF Frozen, Expiring, Leaving, Joining, Awakened, LogTypeOK
<1>3. Accounted'
  BY DEF Accounted, InHand, LogTypeOK
<1>4. NewestKept'
  BY RingUnmoved
<1> QED
  BY <1>1, <1>2, <1>3, <1>4

\* The timer and the worker expire the queue once between them.
LEMMA TimerExpiresStep ==
  ASSUME LogIInv, TimerExpires
  PROVE  LogIInv'
<1>1. CASE ~expired /\ Abandon /\ timer' = "cancelling"
  <2>1. deadline
    BY DEF LogIInv, Frozen, TimerExpires
  <2> QED
    BY <1>1, <2>1, AbandonStep DEF TimerExpires, actorVars
<1>2. CASE /\ expired /\ timer' = "done"
           /\ UNCHANGED <<ring, accepting, expired, abandoned>>
  <2> USE <1>2 DEF LogIInv, TimerExpires, actorVars, countVars
  <2>1. LogTypeOK'
    BY DEF LogTypeOK
  <2>2. (Frozen /\ Expiring /\ Leaving /\ Joining /\ Awakened)'
    BY DEF Frozen, Expiring, Leaving, Joining, Awakened, LogTypeOK
  <2>3. Accounted'
    BY DEF Accounted, InHand, LogTypeOK
  <2>4. NewestKept'
    BY RingUnmoved
  <2> QED
    BY <2>1, <2>2, <2>3, <2>4
<1> QED
  BY <1>1, <1>2 DEF TimerExpires

LEMMA WorkerExpiresStep ==
  ASSUME LogIInv, WorkerExpires
  PROVE  LogIInv'
<1>1. CASE ~expired /\ Abandon /\ worker' = "cancelling"
  <2>1. deadline
    BY DEF LogIInv, Expiring, WorkerExpires
  <2> QED
    BY <1>1, <2>1, AbandonStep DEF WorkerExpires, signalVars
<1>2. CASE /\ expired /\ worker' = "loop"
           /\ UNCHANGED <<ring, accepting, expired, abandoned>>
  <2> USE <1>2 DEF LogIInv, WorkerExpires, signalVars, countVars
  <2>1. LogTypeOK'
    BY DEF LogTypeOK
  <2>2. (Frozen /\ Expiring /\ Leaving /\ Joining /\ Awakened)'
    BY DEF Frozen, Expiring, Leaving, Joining, Awakened, LogTypeOK
  <2>3. Accounted'
    BY DEF Accounted, InHand, LogTypeOK
  <2>4. NewestKept'
    BY RingUnmoved
  <2> QED
    BY <2>1, <2>2, <2>3, <2>4
<1> QED
  BY <1>1, <1>2 DEF WorkerExpires

-----------------------------------------------------------------------------
(***************************************************************************)
(* The theorems.                                                           *)
(***************************************************************************)
LEMMA LogInitIInv == LogInit => LogIInv
<1> SUFFICES ASSUME LogInit PROVE LogIInv
  OBVIOUS
<1> USE DEF LogInit
<1>1. LogTypeOK
  <2>1. ring \in Seq(Nat) /\ Len(ring) <= Capacity
    BY RingEmpty, CapacityBound
  <2> QED
    BY <2>1 DEF LogTypeOK
<1>2. Frozen /\ Expiring /\ Leaving /\ Joining /\ Awakened
  BY DEF Frozen, Expiring, Leaving, Joining, Awakened
<1>3. Accounted
  BY RingEmpty DEF Accounted, InHand
<1>4. NewestKept
  BY RingEmpty DEF NewestKept
<1> QED
  BY <1>1, <1>2, <1>3, <1>4 DEF LogIInv

LEMMA LogStep == LogIInv /\ [LogNext]_logVars => LogIInv'
<1> SUFFICES ASSUME LogIInv, [LogNext]_logVars PROVE LogIInv'
  OBVIOUS
<1>1. CASE Worker
  BY <1>1, FindOverdueStep, WorkerExpiresStep, WorkerCancelsStep, TakeStep, SleepStep, AwakeStep,
     QuitStep, WriteStep, ReportDropsStep, CloseDoneStep DEF Worker
<1>2. CASE Timer
  BY <1>2, TimerFiresStep, TimerExpiresStep, TimerCancelsStep DEF Timer
<1>3. CASE Joins
  BY <1>3, StopArmsStep, StopNotifiesStep, StopJoinsStep, StopJoinsTimerStep DEF Joins
<1>4. CASE UNCHANGED logVars
  BY <1>4 DEF logVars, ringVars, signalVars, actorVars, countVars, LogIInv, LogTypeOK, Frozen,
     Expiring, Leaving, Joining, Awakened, Accounted, InHand, NewestKept
<1> QED
  BY <1>1, <1>2, <1>3, <1>4, EnqueueStep, RefuseStep, NotifyStep, DeadlinePassesStep,
     StopFreezesStep, StopUnsubscribesStep DEF LogNext

\* The queue keeps its invariant for ever.
THEOREM QueueInvariant == LogSpec => []LogIInv
<1> QED
  BY LogInitIInv, LogStep, PTL DEF LogSpec

\* Whatever the length of the ring, and whoever expires the queue and when, no
\* admitted result vanishes from the accounts of QueuedLogWriter or is counted twice.
THEOREM QueueAccounts == LogSpec => []Accounted
<1>1. LogIInv => Accounted
  BY DEF LogIInv
<1> QED
  BY <1>1, QueueInvariant, PTL

\* Overflow costs the oldest results only, and the rest are written in their order.
THEOREM QueueKeepsNewest == LogSpec => []NewestKept
<1>1. LogIInv => NewestKept
  BY DEF LogIInv
<1> QED
  BY <1>1, QueueInvariant, PTL

\* No wake-up is lost: a worker left asleep has nothing to write, and Stop will
\* notify it if it has not yet.
THEOREM QueueWakes == LogSpec => []SleepsOnlyWhenIdle
<1>1. LogIInv => SleepsOnlyWhenIdle
  BY DEF LogIInv, Awakened, Frozen, LogTypeOK, SleepsOnlyWhenIdle
<1> QED
  BY <1>1, QueueInvariant, PTL

\* When Stop returns, nobody touches SQLite any more and every drop was named.
THEOREM QueueStops == LogSpec => []StopJoinsAll
<1>1. LogIInv => StopJoinsAll
  BY DEF LogIInv, Joining, Leaving, LogTypeOK, StopJoinsAll
<1> QED
  BY <1>1, QueueInvariant, PTL

-----------------------------------------------------------------------------
(***************************************************************************)
(* Part 2.  The event bus, by itself.                                      *)
(***************************************************************************)

(***************************************************************************)
(* The invariant.                                                          *)
(***************************************************************************)
Subscribers == [type : AlertTypes, channel : Channels, gen : Nat]
Deliveries  == [at : {"ready", "send", "drop"}, event : Nat, channel : Channels, gen : Nat]

\* The bus never holds subscribers of two alert sets at once.
OneSetAtATime ==
  /\ subscribers \subseteq Subscribers /\ IsFiniteSet(subscribers)
  /\ current.gen \in Nat /\ current.gen > 0
  /\ applying = NoSet \/
       (/\ applying.gen = current.gen + 1
        /\ applying.events \subseteq AlertTypes /\ applying.channels \subseteq Channels)
  /\ \/ \A s \in subscribers : s.gen = current.gen
     \/ applying # NoSet /\ \A s \in subscribers : s.gen = applying.gen

\* What a publication has captured is of one type and of one alert set.
CapturedTogether ==
  /\ job = [p \in Publishers |-> job[p]]
  /\ \A p \in Publishers :
       /\ job[p] = NoJob \/ job[p].at \in {"spawn", "admit", "notify"}
       /\ job[p].at = "spawn" =>
            /\ job[p].event \in Nat /\ job[p].event <= events
            /\ job[p].subs \subseteq Subscribers
            /\ \A s, u \in job[p].subs : s.gen = u.gen /\ s.type = u.type

\* An event and a channel name one callback, and a captured event has none yet.
EventsOnce ==
  /\ events \in Nat /\ tasks \subseteq Deliveries
  /\ \A t \in tasks : t.event <= events
  /\ \A t, u \in tasks : t.event = u.event /\ t.channel = u.channel => t = u
  /\ \A t, u \in tasks : t.event = u.event => t.gen = u.gen
  /\ \A p \in Publishers : job[p].at = "spawn" =>
       /\ \A t \in tasks : t.event # job[p].event
       /\ \A q \in Publishers : job[q].at = "spawn" /\ job[q].event = job[p].event => q = p

\* The callbacks captured or underway, by event and channel.
CapturedBy(p) == {x \in Nat \X Channels :
  job[p].at = "spawn" /\ x[1] = job[p].event /\ \E s \in job[p].subs : s.channel = x[2]}
Underway == {x \in Nat \X Channels : \E t \in tasks : x[1] = t.event /\ x[2] = t.channel}
Awaited == Underway \union UNION {CapturedBy(p) : p \in Publishers}

\* The wait group counts them.
CallbacksCounted ==
  IsFiniteSet(Awaited) /\ callbackWG = Cardinality(Awaited)

Sending(c) == {t \in tasks : t.channel = c /\ t.at = "send"}

\* A slot is held by a delivery.
SlotsCounted ==
  /\ slots = [c \in Channels |-> slots[c]]
  /\ \A c \in Channels :
       /\ IsFiniteSet(Sending(c)) /\ slots[c] = Cardinality(Sending(c))
       /\ slots[c] <= Limit

\* The wait group of a limiter counts its armed timer and its running callback.
Shapes ==
  /\ dropTimer = [c \in Channels |-> dropTimer[c]] /\ flusher = [c \in Channels |-> flusher[c]]
  /\ diagnosticsWG = [c \in Channels |-> diagnosticsWG[c]]
  /\ diagnosticsClosed = [c \in Channels |-> diagnosticsClosed[c]]

LimiterCounted(timerState, flush, count, closed) ==
  /\ flush \in {"none", "flush", "write", "leave"}
  /\ count = (IF timerState = "armed" THEN 1 ELSE 0) + (IF flush = "none" THEN 0 ELSE 1)
  /\ closed \in BOOLEAN
  /\ closed => timerState = "nil"
  /\ flush \in {"flush", "write"} /\ ~closed => timerState = "fired"

DiagnosticsCounted ==
  /\ Shapes
  /\ \A c \in Channels :
       LimiterCounted(dropTimer[c], flusher[c], diagnosticsWG[c], diagnosticsClosed[c])

BusIInv ==
  /\ OneSetAtATime /\ CapturedTogether /\ EventsOnce /\ CallbacksCounted /\ SlotsCounted
  /\ DiagnosticsCounted

-----------------------------------------------------------------------------
LEMMA Limits == Limit \in Nat /\ Limit >= 1 /\ MaxSets \in Nat /\ IsFiniteSet(Channels)
BY EventBusAssumption DEF EventBusAssumption

LEMMA SetsAreOfChannels ==
  ASSUME NEW set \in AlertSets
  PROVE  set.events \subseteq AlertTypes /\ set.channels \subseteq Channels
BY AlertSetsAssumption DEF AlertSetsAssumption

\* What a configuration asks for is finite.
LEMMA WantedFinite ==
  ASSUME NEW set, set.events \subseteq AlertTypes, set.channels \subseteq Channels,
         set.gen \in Nat
  PROVE  /\ Wanted(set) \subseteq Subscribers /\ IsFiniteSet(Wanted(set))
         /\ \A s \in Wanted(set) : s.gen = set.gen
<1>1. /\ Wanted(set) \subseteq Subscribers
      /\ \A s \in Wanted(set) : s.gen = set.gen
  BY DEF Wanted, Subscribers
<1> DEFINE pairs == set.events \X set.channels
           f == [x \in pairs |-> [type |-> x[1], channel |-> x[2], gen |-> set.gen]]
<1>2. IsFiniteSet(AlertTypes)
  <2>1. IsFiniteSet({} \union {"error"})
    BY FS_EmptySet, FS_AddElement
  <2>2. IsFiniteSet(({} \union {"error"}) \union {"dns"})
    BY <2>1, FS_AddElement
  <2>3. IsFiniteSet((({} \union {"error"}) \union {"dns"}) \union {"unhealthy"})
    BY <2>2, FS_AddElement
  <2>4. AlertTypes = (({} \union {"error"}) \union {"dns"}) \union {"unhealthy"}
    BY DEF AlertTypes
  <2> QED
    BY <2>3, <2>4
<1>3. IsFiniteSet(pairs)
  <2>1. IsFiniteSet(set.events) /\ IsFiniteSet(set.channels)
    BY <1>2, Limits, FS_Subset
  <2> QED
    BY <2>1, FS_Product
<1>4. f \in Surjection(pairs, Wanted(set))
  <2>1. f \in [pairs -> Wanted(set)]
    BY DEF Wanted
  <2>2. ASSUME NEW s \in Wanted(set)
        PROVE  \E x \in pairs : f[x] = s
    <3>1. <<s.type, s.channel>> \in pairs
      BY DEF Wanted
    <3>2. f[<<s.type, s.channel>>] = s
      BY <3>1 DEF Wanted
    <3> QED
      BY <3>1, <3>2
  <2> QED
    BY <2>1, <2>2 DEF Surjection
<1> QED
  <2> HIDE DEF pairs, f
  <2> QED
    BY <1>1, <1>3, <1>4, FS_Surjection

LEMMA BusInitIInv == BusInit => BusIInv
<1> SUFFICES ASSUME BusInit
             PROVE  BusIInv
  OBVIOUS
<1>1. PICK set \in AlertSets :
        /\ current = [gen |-> 1, events |-> set.events, channels |-> set.channels]
        /\ subscribers = Wanted(current)
  BY DEF BusInit
<1>2. OneSetAtATime
  <2>1. current.gen = 1 /\ current.events = set.events /\ current.channels = set.channels
    BY <1>1
  <2>2. /\ Wanted(current) \subseteq Subscribers /\ IsFiniteSet(Wanted(current))
        /\ \A s \in Wanted(current) : s.gen = current.gen
    BY <2>1, SetsAreOfChannels, WantedFinite
  <2>3. applying = NoSet
    BY DEF BusInit
  <2> QED
    BY <1>1, <2>1, <2>2, <2>3 DEF OneSetAtATime
<1>3. \A p \in Publishers : job[p] = NoJob /\ job[p].at # "spawn"
  BY DEF BusInit, NoJob
<1>4. CapturedTogether
  BY <1>3 DEF BusInit, CapturedTogether
<1>5. EventsOnce
  BY <1>3 DEF BusInit, EventsOnce
<1>6. CallbacksCounted
  <2>1. Awaited = {}
    BY <1>3 DEF BusInit, Awaited, Underway, CapturedBy
  <2> QED
    BY <2>1, FS_EmptySet DEF CallbacksCounted, BusInit
<1>7. SlotsCounted
  <2>1. \A c \in Channels : Sending(c) = {} /\ slots[c] = 0
    BY DEF Sending, BusInit
  <2> QED
    BY <2>1, FS_EmptySet, Limits DEF SlotsCounted, BusInit
<1>8. DiagnosticsCounted
  BY DEF DiagnosticsCounted, LimiterCounted, Shapes, BusInit
<1> QED
  BY <1>2, <1>4, <1>5, <1>6, <1>7, <1>8 DEF BusIInv

-----------------------------------------------------------------------------
(***************************************************************************)
(* The alert set: the old subscribers are gone before the new ones come.   *)
(***************************************************************************)
LEMMA BeginApplyStep ==
  ASSUME OneSetAtATime, BeginApply
  PROVE  OneSetAtATime'
<1>1. PICK set \in AlertSets :
        applying' = [gen |-> current.gen + 1, events |-> set.events, channels |-> set.channels]
  BY DEF BeginApply
<1>2. /\ applying'.gen = current.gen + 1
      /\ applying'.events \subseteq AlertTypes /\ applying'.channels \subseteq Channels
  BY <1>1, SetsAreOfChannels
<1>3. applying = NoSet /\ UNCHANGED <<subscribers, current>>
  BY DEF BeginApply
<1> QED
  BY <1>2, <1>3 DEF OneSetAtATime

LEMMA UnsubscribeStep ==
  ASSUME OneSetAtATime, Unsubscribe
  PROVE  OneSetAtATime'
<1>1. PICK s : subscribers' = subscribers \ {s}
  BY DEF Unsubscribe
<1>2. subscribers' \subseteq subscribers /\ IsFiniteSet(subscribers')
  BY <1>1, FS_RemoveElement DEF OneSetAtATime
<1> QED
  BY <1>2 DEF OneSetAtATime, Unsubscribe

\* With the set to come, none of the old one is left.
LEMMA OldGone ==
  ASSUME OneSetAtATime, applying # NoSet, Old = {}
  PROVE  \A s \in subscribers : s.gen = applying.gen
BY DEF OneSetAtATime, Old

LEMMA SubscribeStep ==
  ASSUME OneSetAtATime, Subscribe
  PROVE  OneSetAtATime'
<1>1. applying # NoSet /\ Old = {} /\ UNCHANGED <<current, applying>>
  BY DEF Subscribe, MaySubscribe
<1>2. \A s \in subscribers : s.gen = applying.gen
  BY <1>1, OldGone
<1>3. PICK s \in Wanted(applying) : subscribers' = subscribers \union {s}
  <2>1. \E s : s \in Wanted(applying) \ subscribers
    BY DEF Subscribe
  <2>2. (CHOOSE s \in Wanted(applying) \ subscribers : TRUE) \in Wanted(applying)
    BY <2>1
  <2> QED
    BY <2>2 DEF Subscribe
<1>4. s \in Subscribers /\ s.gen = applying.gen
  BY <1>1, <1>3, WantedFinite DEF OneSetAtATime
<1>5. IsFiniteSet(subscribers')
  BY <1>3, FS_AddElement DEF OneSetAtATime
<1>6. \A u \in subscribers' : u \in Subscribers /\ u.gen = applying.gen
  BY <1>2, <1>3, <1>4 DEF OneSetAtATime
<1> QED
  BY <1>1, <1>5, <1>6 DEF OneSetAtATime

LEMMA EndApplyStep ==
  ASSUME OneSetAtATime, EndApply
  PROVE  OneSetAtATime'
<1>1. applying # NoSet /\ Old = {} /\ current' = applying /\ applying' = NoSet
      /\ subscribers' = subscribers
  BY DEF EndApply
<1>2. \A s \in subscribers : s.gen = applying.gen
  BY <1>1, OldGone
<1> QED
  BY <1>1, <1>2 DEF OneSetAtATime

-----------------------------------------------------------------------------
(***************************************************************************)
(* The limiter's diagnostics.                                              *)
(***************************************************************************)
LEMMA OneLimiter ==
  ASSUME DiagnosticsCounted, Shapes', NEW c \in Channels,
         \A d \in Channels \ {c} :
           /\ dropTimer'[d] = dropTimer[d] /\ flusher'[d] = flusher[d]
           /\ diagnosticsWG'[d] = diagnosticsWG[d]
           /\ diagnosticsClosed'[d] = diagnosticsClosed[d],
         LimiterCounted(dropTimer'[c], flusher'[c], diagnosticsWG'[c], diagnosticsClosed'[c])
  PROVE  DiagnosticsCounted'
BY DEF DiagnosticsCounted

LEMMA ScheduleStep ==
  ASSUME DiagnosticsCounted, NEW c \in Channels, ScheduleDropTimer(c),
         ~diagnosticsClosed[c], dropTimer[c] # "armed", UNCHANGED diagnosticsClosed,
         \/ UNCHANGED flusher /\ dropTimer[c] = "nil"
         \/ flusher[c] = "write" /\ flusher' = [flusher EXCEPT ![c] = "leave"]
  PROVE  DiagnosticsCounted'
<1>1. \A d \in Channels \ {c} :
        /\ dropTimer'[d] = dropTimer[d] /\ flusher'[d] = flusher[d]
        /\ diagnosticsWG'[d] = diagnosticsWG[d]
  BY DEF ScheduleDropTimer, DiagnosticsCounted, LimiterCounted, Shapes
<1>2. dropTimer'[c] = "armed" /\ diagnosticsWG'[c] = diagnosticsWG[c] + 1
  BY DEF ScheduleDropTimer, DiagnosticsCounted, LimiterCounted, Shapes
<1>3. \/ flusher'[c] = flusher[c] /\ flusher[c] \in {"none", "leave"}
      \/ flusher[c] = "write" /\ flusher'[c] = "leave"
  BY DEF DiagnosticsCounted, LimiterCounted, Shapes
<1>4. Shapes'
  BY DEF ScheduleDropTimer, DiagnosticsCounted, Shapes
<1>5. LimiterCounted(dropTimer'[c], flusher'[c], diagnosticsWG'[c], diagnosticsClosed'[c])
  BY <1>2, <1>3 DEF DiagnosticsCounted, LimiterCounted
<1> QED
  BY <1>1, <1>4, <1>5, OneLimiter

LEMMA DiagnosticsStep ==
  ASSUME DiagnosticsCounted, NEW c \in Channels,
         \/ DropTimerFires(c) \/ FlushWrites(c) \/ FlushEnds(c) \/ FlushReschedules(c)
         \/ FlushLeaves(c) \/ StopDiagnostics(c)
  PROVE  DiagnosticsCounted'
<1>1. CASE DropTimerFires(c)
  <2>1. \A d \in Channels \ {c} :
              /\ dropTimer'[d] = dropTimer[d]
              /\ flusher'[d] = flusher[d]
              /\ diagnosticsWG'[d] = diagnosticsWG[d]
              /\ diagnosticsClosed'[d] = diagnosticsClosed[d]
    BY <1>1 DEF DropTimerFires, FlushAt, FlushUnchanged, DiagnosticsCounted, LimiterCounted, Shapes
  <2>2. /\ dropTimer[c] = "armed" /\ dropTimer'[c] = "fired"
        /\ flusher[c] = "none" /\ flusher'[c] = "flush"
        /\ diagnosticsWG'[c] = diagnosticsWG[c] /\ diagnosticsClosed'[c] = diagnosticsClosed[c]
    BY <1>1 DEF DropTimerFires, FlushAt, FlushUnchanged, DiagnosticsCounted, LimiterCounted, Shapes
  <2>3. Shapes'
    BY <1>1 DEF DropTimerFires, FlushAt, FlushUnchanged, DiagnosticsCounted, Shapes
  <2> QED
    BY <2>1, <2>2, <2>3, OneLimiter DEF DiagnosticsCounted, LimiterCounted
<1>2. CASE FlushWrites(c)
  BY <1>2 DEF FlushWrites, FlushAt, FlushUnchanged, DiagnosticsCounted, LimiterCounted, Shapes
<1>3. CASE FlushEnds(c)
  BY <1>3 DEF FlushEnds, FlushAt, FlushUnchanged, DiagnosticsCounted, LimiterCounted, Shapes
<1>4. CASE FlushReschedules(c)
  <2>1. CASE ~diagnosticsClosed[c] /\ ScheduleDropTimer(c)
    <3>1. /\ flusher[c] = "write" /\ flusher' = [flusher EXCEPT ![c] = "leave"]
          /\ UNCHANGED diagnosticsClosed
      BY <1>4 DEF FlushReschedules, FlushAt, FlushUnchanged
    <3> QED
      BY <2>1, <3>1, ScheduleStep DEF DiagnosticsCounted, LimiterCounted
  <2>2. CASE diagnosticsClosed[c] /\ UNCHANGED <<dropTimer, diagnosticsWG>>
    BY <1>4, <2>2 DEF FlushReschedules, FlushAt, FlushUnchanged, DiagnosticsCounted,
                      LimiterCounted, Shapes
  <2> QED
    BY <1>4, <2>1, <2>2 DEF FlushReschedules
<1>5. CASE FlushLeaves(c)
  <2>1. \A d \in Channels \ {c} :
              /\ dropTimer'[d] = dropTimer[d]
              /\ flusher'[d] = flusher[d]
              /\ diagnosticsWG'[d] = diagnosticsWG[d]
              /\ diagnosticsClosed'[d] = diagnosticsClosed[d]
    BY <1>5 DEF FlushLeaves, FlushAt, FlushUnchanged, DiagnosticsCounted, LimiterCounted, Shapes
  <2>2. /\ dropTimer'[c] = dropTimer[c] /\ flusher[c] = "leave" /\ flusher'[c] = "none"
        /\ diagnosticsWG'[c] = diagnosticsWG[c] - 1 /\ diagnosticsClosed'[c] = diagnosticsClosed[c]
    BY <1>5 DEF FlushLeaves, FlushAt, FlushUnchanged, DiagnosticsCounted, LimiterCounted, Shapes
  <2>3. Shapes'
    BY <1>5 DEF FlushLeaves, FlushAt, FlushUnchanged, DiagnosticsCounted, Shapes
  <2> QED
    BY <2>1, <2>2, <2>3, OneLimiter DEF DiagnosticsCounted, LimiterCounted
<1>6. CASE StopDiagnostics(c)
  <2>1. \A d \in Channels \ {c} :
              /\ dropTimer'[d] = dropTimer[d]
              /\ flusher'[d] = flusher[d]
              /\ diagnosticsWG'[d] = diagnosticsWG[d]
              /\ diagnosticsClosed'[d] = diagnosticsClosed[d]
    BY <1>6 DEF StopDiagnostics, DiagnosticsCounted, LimiterCounted, Shapes
  <2>2. /\ dropTimer'[c] = "nil" /\ flusher'[c] = flusher[c] /\ diagnosticsClosed'[c] = TRUE
        /\ diagnosticsWG'[c] = IF dropTimer[c] = "armed" THEN diagnosticsWG[c] - 1
                               ELSE diagnosticsWG[c]
    BY <1>6 DEF StopDiagnostics, DiagnosticsCounted, LimiterCounted, Shapes
  <2>3. Shapes'
    BY <1>6 DEF StopDiagnostics, DiagnosticsCounted, Shapes
  <2>4. LimiterCounted(dropTimer'[c], flusher'[c], diagnosticsWG'[c], diagnosticsClosed'[c])
    <3>1. LimiterCounted(dropTimer[c], flusher[c], diagnosticsWG[c], diagnosticsClosed[c])
      BY DEF DiagnosticsCounted
    <3>2. CASE dropTimer[c] = "armed"
      <4>1. /\ diagnosticsWG[c] = 1 + (IF flusher[c] = "none" THEN 0 ELSE 1)
            /\ flusher[c] \in {"none", "leave", "flush", "write"}
        BY <3>1, <3>2 DEF LimiterCounted
      <4>2. diagnosticsWG'[c] = IF flusher[c] = "none" THEN 0 ELSE 1
        BY <2>2, <3>2, <4>1
      <4>3. dropTimer'[c] = "nil" /\ flusher'[c] = flusher[c] /\ diagnosticsClosed'[c] = TRUE
        BY <2>2
      <4>4. LimiterCounted("nil", flusher[c], IF flusher[c] = "none" THEN 0 ELSE 1, TRUE)
        BY <4>1 DEF LimiterCounted
      <4> QED
        BY <4>2, <4>3, <4>4
    <3>3. CASE dropTimer[c] # "armed"
      BY <2>2, <3>1, <3>3 DEF LimiterCounted
    <3> QED
      BY <3>2, <3>3
  <2> QED
    BY <2>1, <2>3, <2>4, OneLimiter
<1> QED
  BY <1>1, <1>2, <1>3, <1>4, <1>5, <1>6

-----------------------------------------------------------------------------
(***************************************************************************)
(* Publishers.                                                             *)
(***************************************************************************)
\* All subscribers of an event are of one alert set.
LEMMA SubscribersOfOneSet ==
  ASSUME OneSetAtATime, NEW s \in subscribers, NEW u \in subscribers
  PROVE  s.gen = u.gen
BY DEF OneSetAtATime

LEMMA CaptureStep ==
  ASSUME OneSetAtATime, CapturedTogether, EventsOnce, NEW p \in Publishers, NEW type,
         Capture(p, type)
  PROVE  /\ CapturedTogether' /\ EventsOnce'
         /\ \A q \in Publishers \ {p} : job'[q] = job[q]
         /\ job'[p].at = "spawn" /\ job'[p].event = events + 1
         /\ job[p].at # "spawn" /\ job'[p].subs \subseteq subscribers
         /\ callbackWG' = callbackWG + Cardinality(job'[p].subs)
         /\ \A s \in job'[p].subs : s.type = type
<1> DEFINE subs == {s \in subscribers : s.type = type /\ ~callbacksStopped}
           new == [at |-> "spawn", event |-> events + 1, subs |-> subs, logged |-> type \in ingress]
<1>1. /\ job[p] = NoJob /\ events' = events + 1 /\ UNCHANGED <<tasks, subscribers>>
      /\ job' = [job EXCEPT ![p] = new] /\ callbackWG' = callbackWG + Cardinality(subs)
  BY Zenon DEF Capture, subscriptionVars
<1>2. /\ job' = [q \in Publishers |-> job'[q]]
      /\ \A q \in Publishers \ {p} : job'[q] = job[q]
      /\ job'[p] = new
  BY <1>1 DEF CapturedTogether
<1>3. job'[p].at = "spawn" /\ job'[p].event = events + 1 /\ job'[p].subs = subs
  BY <1>2
<1>4. /\ subs \subseteq subscribers /\ subs \subseteq Subscribers
      /\ \A s, u \in subs : s.gen = u.gen /\ s.type = u.type
      /\ \A s \in subs : s.type = type
  BY SubscribersOfOneSet DEF OneSetAtATime
<1>5. job[p].at # "spawn"
  BY <1>1 DEF NoJob
<1> HIDE DEF subs, new
<1>6. CapturedTogether'
  BY <1>1, <1>2, <1>3, <1>4 DEF CapturedTogether, EventsOnce
<1>7. EventsOnce'
  <2>1. events \in Nat /\ \A t \in tasks : t.event \in Nat /\ t.event <= events
    BY DEF EventsOnce, Deliveries
  <2>2. \A q \in Publishers : job[q].at = "spawn" => job[q].event \in Nat /\ job[q].event <= events
    BY DEF CapturedTogether
  <2> QED
    BY <1>1, <1>2, <1>3, <1>5, <2>1, <2>2 DEF EventsOnce
<1> QED
  BY <1>1, <1>2, <1>3, <1>4, <1>5, <1>6, <1>7

LEMMA SpawnStep ==
  ASSUME CapturedTogether, EventsOnce, NEW p \in Publishers, Spawn(p)
  PROVE  /\ CapturedTogether' /\ EventsOnce'
         /\ job[p].at = "spawn" /\ job'[p].at # "spawn"
         /\ \A q \in Publishers \ {p} : job'[q] = job[q]
         /\ tasks' = tasks \union
              {[at |-> "ready", event |-> job[p].event, channel |-> s.channel, gen |-> s.gen] :
                 s \in job[p].subs}
<1> DEFINE new == {[at |-> "ready", event |-> job[p].event, channel |-> s.channel,
                    gen |-> s.gen] : s \in job[p].subs}
<1>1. /\ job[p].at = "spawn" /\ tasks' = tasks \union new /\ UNCHANGED events
      /\ job' = [job EXCEPT ![p] = IF job[p].logged THEN [at |-> "admit"] ELSE NoJob]
  BY DEF Spawn
<1>2. /\ job' = [q \in Publishers |-> job'[q]]
      /\ \A q \in Publishers \ {p} : job'[q] = job[q]
      /\ job'[p] = [at |-> "admit"] \/ job'[p] = NoJob
  BY <1>1 DEF CapturedTogether
<1>3. job'[p].at \in {"admit", "idle"}
  BY <1>2 DEF NoJob
<1>4. CapturedTogether'
  BY <1>1, <1>2, <1>3 DEF CapturedTogether
<1>5. /\ job[p].event \in Nat /\ job[p].event <= events /\ job[p].subs \subseteq Subscribers
      /\ \A s, u \in job[p].subs : s.gen = u.gen /\ s.type = u.type
  BY <1>1 DEF CapturedTogether
<1>6. ASSUME NEW t \in new
      PROVE  /\ t \in Deliveries /\ t.event = job[p].event
             /\ \E s \in job[p].subs : t.channel = s.channel /\ t.gen = s.gen
             /\ t.at = "ready"
  BY <1>5, <1>6 DEF Subscribers, Deliveries
<1>7. ASSUME NEW t \in new, NEW u \in new
      PROVE  t.gen = u.gen /\ (t.channel = u.channel => t = u)
  BY <1>5, <1>7 DEF Subscribers
<1>8. \A t \in tasks : t.event # job[p].event
  BY <1>1 DEF EventsOnce
<1> HIDE DEF new
<1>9. tasks' \subseteq Deliveries /\ \A t \in tasks' : t.event <= events'
  BY <1>1, <1>5, <1>6 DEF EventsOnce
<1>10. \A t, u \in tasks' : t.event = u.event => t.gen = u.gen /\ (t.channel = u.channel => t = u)
  BY <1>1, <1>6, <1>7, <1>8 DEF EventsOnce
<1>11. ASSUME NEW q \in Publishers, job'[q].at = "spawn"
       PROVE  /\ \A t \in tasks' : t.event # job'[q].event
              /\ \A r \in Publishers : job'[r].at = "spawn" /\ job'[r].event = job'[q].event
                   => r = q
  <2>1. q # p /\ job'[q] = job[q] /\ job[q].event # job[p].event
    BY <1>1, <1>2, <1>3, <1>11 DEF EventsOnce
  <2> QED
    BY <1>1, <1>2, <1>3, <1>6, <1>11, <2>1 DEF EventsOnce
<1>12. EventsOnce'
  BY <1>1, <1>9, <1>10, <1>11 DEF EventsOnce
<1> QED
  BY <1>1, <1>2, <1>3, <1>4, <1>12 DEF new

LEMMA JobMovesStep ==
  ASSUME CapturedTogether, EventsOnce, NEW p \in Publishers,
         NEW from \in {"admit", "notify"}, NEW to \in {"notify", "idle"}, JobMoves(p, from, to)
  PROVE  /\ CapturedTogether' /\ EventsOnce'
         /\ job[p].at # "spawn" /\ job'[p].at # "spawn"
         /\ \A q \in Publishers \ {p} : job'[q] = job[q]
<1>1. /\ job[p].at = from /\ UNCHANGED <<tasks, events>>
      /\ job' = [job EXCEPT ![p] = [at |-> to]]
  BY DEF JobMoves
<1>2. /\ job' = [q \in Publishers |-> job'[q]]
      /\ \A q \in Publishers \ {p} : job'[q] = job[q]
      /\ job'[p] = [at |-> to]
  BY <1>1 DEF CapturedTogether
<1>3. job'[p].at = to /\ (job'[p] = NoJob \/ to = "notify")
  BY <1>2 DEF NoJob
<1>4. CapturedTogether'
  BY <1>1, <1>2, <1>3 DEF CapturedTogether
<1>5. EventsOnce'
  BY <1>1, <1>2, <1>3 DEF EventsOnce
<1> QED
  BY <1>1, <1>2, <1>3, <1>4, <1>5

-----------------------------------------------------------------------------
(***************************************************************************)
(* Callbacks.                                                              *)
(***************************************************************************)
\* A callback that moves on keeps its name and its place.
LEMMA BecomesStep ==
  ASSUME EventsOnce, NEW t \in tasks, NEW at \in {"send", "drop"}, Becomes(t, at),
         UNCHANGED <<job, events>>
  PROVE  /\ EventsOnce' /\ Underway' = Underway
         /\ \E u \in Deliveries :
              /\ tasks' = (tasks \ {t}) \union {u}
              /\ u.at = at /\ u.event = t.event /\ u.channel = t.channel /\ u.gen = t.gen
<1> DEFINE u == [t EXCEPT !.at = at]
<1>1. t \in Deliveries /\ tasks' = (tasks \ {t}) \union {u}
  BY DEF Becomes, EventsOnce
<1>2. /\ u \in Deliveries
      /\ u.at = at /\ u.event = t.event /\ u.channel = t.channel /\ u.gen = t.gen
  BY <1>1 DEF Deliveries
<1> HIDE DEF u
<1>3. EventsOnce'
  BY <1>1, <1>2 DEF EventsOnce
<1>4. Underway' = Underway
  BY <1>1, <1>2 DEF Underway
<1> QED
  BY <1>1, <1>2, <1>3, <1>4

LEMMA EndsStep ==
  ASSUME EventsOnce, NEW t \in tasks, tasks' = tasks \ {t}, UNCHANGED <<job, events>>
  PROVE  EventsOnce' /\ Underway' = Underway \ {<<t.event, t.channel>>}
<1>1. EventsOnce'
  BY DEF EventsOnce
<1>2. ASSUME NEW x \in Nat \X Channels
      PROVE  x \in Underway' <=> x \in Underway /\ x # <<t.event, t.channel>>
  <2>1. x = <<x[1], x[2]>>
    OBVIOUS
  <2>2. \A u \in tasks : u # t => u.event # t.event \/ u.channel # t.channel
    BY DEF EventsOnce
  <2> QED
    BY <2>1, <2>2 DEF Underway
<1> QED
  BY <1>1, <1>2 DEF Underway

\* A callback underway is not captured as well.
LEMMA UnderwayNotCaptured ==
  ASSUME CapturedTogether, EventsOnce, NEW t \in tasks
  PROVE  /\ <<t.event, t.channel>> \in Underway
         /\ \A p \in Publishers : <<t.event, t.channel>> \notin CapturedBy(p)
<1>1. t \in Deliveries
  BY DEF EventsOnce
<1>2. <<t.event, t.channel>> \in Nat \X Channels
  BY <1>1 DEF Deliveries
<1> QED
  BY <1>2 DEF EventsOnce, Underway, CapturedBy

\* The end of a callback takes one from the wait group.
LEMMA EndCounts ==
  ASSUME CapturedTogether, EventsOnce, CallbacksCounted, NEW t \in tasks,
         tasks' = tasks \ {t}, UNCHANGED <<job, events>>, callbackWG' = callbackWG - 1
  PROVE  CallbacksCounted'
<1> DEFINE x == <<t.event, t.channel>>
<1>1. Underway' = Underway \ {x} /\ \A p \in Publishers : CapturedBy(p)' = CapturedBy(p)
  BY EndsStep DEF CapturedBy
<1>2. x \in Underway /\ \A p \in Publishers : x \notin CapturedBy(p)
  BY UnderwayNotCaptured
<1> HIDE DEF x
<1>3. Awaited' = Awaited \ {x} /\ x \in Awaited
  BY <1>1, <1>2 DEF Awaited
<1> QED
  BY <1>3, FS_RemoveElement DEF CallbacksCounted

\* A publication adds one for each subscriber it has captured.
LEMMA CaptureCounts ==
  ASSUME OneSetAtATime, CapturedTogether, EventsOnce, CallbacksCounted,
         NEW p \in Publishers, NEW type, Capture(p, type)
  PROVE  CallbacksCounted'
<1> DEFINE subs == job'[p].subs
           e == events + 1
           new == CapturedBy(p)'
           f == [s \in subs |-> <<e, s.channel>>]
<1>1. /\ \A q \in Publishers \ {p} : job'[q] = job[q]
      /\ job'[p].at = "spawn" /\ job'[p].event = e /\ job[p].at # "spawn"
      /\ subs \subseteq subscribers /\ callbackWG' = callbackWG + Cardinality(subs)
      /\ \A s \in subs : s.type = type
      /\ UNCHANGED tasks
  <2>1. UNCHANGED tasks
    BY Zenon DEF Capture
  <2> QED
    BY <2>1, CaptureStep
<1>2. /\ IsFiniteSet(subs) /\ e \in Nat /\ subs \subseteq Subscribers
      /\ \A s, u \in subs : s.channel = u.channel => s = u
  <2>1. IsFiniteSet(subs) /\ subs \subseteq Subscribers
    BY <1>1, FS_Subset DEF OneSetAtATime
  <2>2. ASSUME NEW s \in subs, NEW u \in subs, s.channel = u.channel
        PROVE  s = u
    <3>1. s.gen = u.gen /\ s.type = u.type
      BY <1>1, SubscribersOfOneSet
    <3> QED
      BY <2>1, <2>2, <3>1 DEF Subscribers
  <2> QED
    BY <2>1, <2>2 DEF EventsOnce
<1>3. new = {x \in Nat \X Channels : x[1] = e /\ \E s \in subs : s.channel = x[2]}
  BY <1>1 DEF CapturedBy
<1> HIDE DEF new, subs, e
<1>4. f \in Bijection(subs, new)
  <2>1. \A s \in subs : f[s] \in new /\ f[s][2] = s.channel
    BY <1>2, <1>3 DEF Subscribers
  <2>2. f \in [subs -> new] /\ \A s, u \in subs : f[s] = f[u] => s = u
    BY <1>2, <2>1
  <2>3. ASSUME NEW x \in new
        PROVE  \E s \in subs : f[s] = x
    BY <1>3
  <2> HIDE DEF f
  <2> QED
    BY <2>2, <2>3, Fun_IsBij
<1>5. IsFiniteSet(new) /\ Cardinality(new) = Cardinality(subs)
  <2> HIDE DEF f
  <2> QED
    BY <1>2, <1>4, FS_Bijection DEF ExistsBijection
<1>6. Awaited' = Awaited \union new
  <2>1. Underway' = Underway
    BY <1>1 DEF Underway
  <2>2. \A q \in Publishers \ {p} : CapturedBy(q)' = CapturedBy(q)
    BY <1>1 DEF CapturedBy
  <2>3. CapturedBy(p) = {}
    BY <1>1 DEF CapturedBy
  <2> QED
    BY <2>1, <2>2, <2>3 DEF Awaited, new
<1>7. Awaited \intersect new = {}
  <2>1. ASSUME NEW x \in Awaited
        PROVE  x[1] # e
    <3>1. CASE x \in Underway
      BY <3>1 DEF Underway, EventsOnce, Deliveries, e
    <3>2. CASE \E q \in Publishers : x \in CapturedBy(q)
      BY <3>2 DEF CapturedBy, CapturedTogether, EventsOnce, e
    <3> QED
      BY <3>1, <3>2 DEF Awaited
  <2> QED
    BY <1>3, <2>1
<1>8. /\ IsFiniteSet(Awaited') /\ Cardinality(Awaited') = Cardinality(Awaited) + Cardinality(new)
  <2>1. IsFiniteSet(Awaited) /\ Cardinality(Awaited) \in Nat /\ Cardinality(new) \in Nat
    BY <1>5, FS_CardinalityType DEF CallbacksCounted
  <2>2. Cardinality(Awaited \intersect new) = 0
    BY <1>7, FS_EmptySet
  <2>3. /\ IsFiniteSet(Awaited \union new)
        /\ Cardinality(Awaited \union new)
             = Cardinality(Awaited) + Cardinality(new) - Cardinality(Awaited \intersect new)
    BY <1>5, <2>1, FS_Union
  <2> QED
    BY <1>6, <2>1, <2>2, <2>3
<1> QED
  BY <1>1, <1>5, <1>8 DEF CallbacksCounted, subs

\* What has been captured starts, and is awaited as before.
LEMMA SpawnCounts ==
  ASSUME CapturedTogether, EventsOnce, CallbacksCounted, NEW p \in Publishers, Spawn(p)
  PROVE  CallbacksCounted'
<1>1. /\ job[p].at = "spawn" /\ job'[p].at # "spawn"
      /\ \A q \in Publishers \ {p} : job'[q] = job[q]
      /\ tasks' = tasks \union
           {[at |-> "ready", event |-> job[p].event, channel |-> s.channel, gen |-> s.gen] :
              s \in job[p].subs}
      /\ UNCHANGED callbackWG
  BY SpawnStep DEF Spawn
<1>2. Underway' = Underway \union CapturedBy(p)
  <2> DEFINE new == {[at |-> "ready", event |-> job[p].event, channel |-> s.channel,
                      gen |-> s.gen] : s \in job[p].subs}
  <2>1. ASSUME NEW x \in Nat \X Channels
        PROVE  x \in CapturedBy(p) <=> \E t \in new : x[1] = t.event /\ x[2] = t.channel
    <3> DEFINE of(s) == [at |-> "ready", event |-> job[p].event, channel |-> s.channel,
                         gen |-> s.gen]
    <3>1. \A s : of(s).event = job[p].event /\ of(s).channel = s.channel
      OBVIOUS
    <3>2. \A t : t \in new <=> \E s \in job[p].subs : t = of(s)
      OBVIOUS
    <3>3. x \in CapturedBy(p)
            <=> x[1] = job[p].event /\ \E s \in job[p].subs : s.channel = x[2]
      BY <1>1 DEF CapturedBy
    <3> HIDE DEF new, of
    <3> QED
      BY <3>1, <3>2, <3>3
  <2>2. tasks' = tasks \union new
    BY <1>1
  <2>3. CapturedBy(p) \subseteq Nat \X Channels
    BY DEF CapturedBy
  <2> HIDE DEF new
  <2> QED
    BY <2>1, <2>2, <2>3 DEF Underway
<1>3. CapturedBy(p)' = {} /\ \A q \in Publishers \ {p} : CapturedBy(q)' = CapturedBy(q)
  BY <1>1 DEF CapturedBy
<1>4. Awaited' = Awaited
  BY <1>2, <1>3 DEF Awaited
<1> QED
  BY <1>1, <1>4 DEF CallbacksCounted

LEMMA JobMovesCounts ==
  ASSUME CapturedTogether, EventsOnce, CallbacksCounted, NEW p \in Publishers,
         NEW from \in {"admit", "notify"}, NEW to \in {"notify", "idle"}, JobMoves(p, from, to)
  PROVE  CallbacksCounted'
<1>1. \A q \in Publishers : CapturedBy(q)' = CapturedBy(q)
  BY JobMovesStep DEF CapturedBy
<1>2. UNCHANGED <<tasks, callbackWG>>
  BY DEF JobMoves
<1>3. Awaited' = Awaited
  BY <1>1, <1>2 DEF Awaited, Underway
<1> QED
  BY <1>2, <1>3 DEF CallbacksCounted

-----------------------------------------------------------------------------
(***************************************************************************)
(* The slots.                                                              *)
(***************************************************************************)
LEMMA SlotsStep ==
  ASSUME SlotsCounted, UNCHANGED slots, \A c \in Channels : Sending(c)' = Sending(c)
  PROVE  SlotsCounted'
BY DEF SlotsCounted

LEMMA AcquireStep ==
  ASSUME CapturedTogether, EventsOnce, CallbacksCounted, SlotsCounted, NEW t \in tasks, Acquire(t)
  PROVE  CapturedTogether' /\ EventsOnce' /\ CallbacksCounted' /\ SlotsCounted'
<1>1. /\ t.at = "ready" /\ UNCHANGED <<job, events, callbackWG>>
      /\ \/ slots[t.channel] < Limit /\ Becomes(t, "send")
            /\ slots' = [slots EXCEPT ![t.channel] = slots[t.channel] + 1]
         \/ Becomes(t, "drop") /\ UNCHANGED slots
  BY DEF Acquire, HasSlot
<1>2. PICK at \in {"send", "drop"} :
        /\ Becomes(t, at)
        /\ \/ /\ at = "send" /\ slots[t.channel] < Limit
              /\ slots' = [slots EXCEPT ![t.channel] = slots[t.channel] + 1]
           \/ at = "drop" /\ UNCHANGED slots
  BY <1>1
<1>3. PICK u \in Deliveries :
        /\ tasks' = (tasks \ {t}) \union {u}
        /\ u.at = at /\ u.event = t.event /\ u.channel = t.channel /\ u.gen = t.gen
  BY <1>1, <1>2, BecomesStep
<1>4. EventsOnce' /\ Underway' = Underway
  BY <1>1, <1>2, BecomesStep
<1>5. CapturedTogether' /\ \A p \in Publishers : CapturedBy(p)' = CapturedBy(p)
  BY <1>1 DEF CapturedTogether, CapturedBy
<1>6. CallbacksCounted'
  BY <1>1, <1>4, <1>5 DEF CallbacksCounted, Awaited
<1>7. SlotsCounted'
  <2>1. CASE at = "drop"
    <3>1. \A c \in Channels : Sending(c)' = Sending(c)
      BY <1>1, <1>3, <2>1 DEF Sending
    <3> QED
      BY <1>2, <2>1, <3>1, SlotsStep
  <2>2. CASE at = "send"
    <3>1. t.channel \in Channels
      BY DEF EventsOnce, Deliveries
    <3>2. \A c \in Channels \ {t.channel} : Sending(c)' = Sending(c)
      BY <1>1, <1>3, <2>2 DEF Sending
    <3>3. Sending(t.channel)' = Sending(t.channel) \union {u} /\ u \notin Sending(t.channel)
      <4>1. u \notin tasks
        BY <1>1, <1>3, <2>2 DEF EventsOnce
      <4> QED
        BY <1>1, <1>3, <2>2, <4>1 DEF Sending
    <3>4. /\ IsFiniteSet(Sending(t.channel))
          /\ slots[t.channel] = Cardinality(Sending(t.channel)) /\ slots[t.channel] \in Nat
      BY <3>1, FS_CardinalityType DEF SlotsCounted
    <3>5. /\ IsFiniteSet(Sending(t.channel)')
          /\ Cardinality(Sending(t.channel)') = slots[t.channel] + 1
      BY <3>3, <3>4, FS_AddElement
    <3>6. /\ slots' = [c \in Channels |-> slots'[c]] /\ slots'[t.channel] = slots[t.channel] + 1
          /\ \A c \in Channels \ {t.channel} : slots'[c] = slots[c]
      BY <1>2, <2>2, <3>1 DEF SlotsCounted
    <3>7. slots'[t.channel] <= Limit
      BY <1>2, <2>2, <3>4, <3>6, Limits
    <3>8. ASSUME NEW c \in Channels
          PROVE  /\ IsFiniteSet(Sending(c)') /\ slots'[c] = Cardinality(Sending(c)')
                 /\ slots'[c] <= Limit
      <4>1. CASE c = t.channel
        BY <3>5, <3>6, <3>7, <4>1
      <4>2. CASE c # t.channel
        BY <3>2, <3>6, <4>2 DEF SlotsCounted
      <4> QED
        BY <4>1, <4>2
    <3> QED
      BY <3>6, <3>8 DEF SlotsCounted
  <2> QED
    BY <2>1, <2>2
<1> QED
  BY <1>4, <1>5, <1>6, <1>7

LEMMA SendStep ==
  ASSUME CapturedTogether, EventsOnce, CallbacksCounted, SlotsCounted, NEW t \in tasks, Send(t)
  PROVE  CapturedTogether' /\ EventsOnce' /\ CallbacksCounted' /\ SlotsCounted'
<1>1. /\ t.at = "send" /\ tasks' = tasks \ {t} /\ callbackWG' = callbackWG - 1
      /\ UNCHANGED job /\ UNCHANGED events
      /\ slots' = [slots EXCEPT ![t.channel] = slots[t.channel] - 1]
  BY DEF Send
<1>2. EventsOnce' /\ CallbacksCounted'
  BY <1>1, EndsStep, EndCounts
<1>3. CapturedTogether'
  BY <1>1 DEF CapturedTogether
<1>4. t.channel \in Channels
  BY DEF EventsOnce, Deliveries
<1>5. /\ \A c \in Channels \ {t.channel} : Sending(c)' = Sending(c)
      /\ Sending(t.channel)' = Sending(t.channel) \ {t} /\ t \in Sending(t.channel)
  BY <1>1 DEF Sending
<1>6. /\ IsFiniteSet(Sending(t.channel))
      /\ slots[t.channel] = Cardinality(Sending(t.channel)) /\ slots[t.channel] \in Nat
      /\ slots[t.channel] <= Limit
  BY <1>4, FS_CardinalityType DEF SlotsCounted
<1>7. /\ IsFiniteSet(Sending(t.channel)')
      /\ Cardinality(Sending(t.channel)') = slots[t.channel] - 1
  BY <1>5, <1>6, FS_RemoveElement
<1>8. /\ slots' = [c \in Channels |-> slots'[c]] /\ slots'[t.channel] = slots[t.channel] - 1
      /\ \A c \in Channels \ {t.channel} : slots'[c] = slots[c]
  BY <1>1, <1>4 DEF SlotsCounted
<1>9. slots'[t.channel] <= Limit
  BY <1>6, <1>8, Limits
<1>10. ASSUME NEW c \in Channels
       PROVE  /\ IsFiniteSet(Sending(c)') /\ slots'[c] = Cardinality(Sending(c)')
              /\ slots'[c] <= Limit
  <2>1. CASE c = t.channel
    BY <1>7, <1>8, <1>9, <2>1
  <2>2. CASE c # t.channel
    BY <1>5, <1>8, <2>2 DEF SlotsCounted
  <2> QED
    BY <2>1, <2>2
<1>11. SlotsCounted'
  BY <1>8, <1>10 DEF SlotsCounted
<1> QED
  BY <1>2, <1>3, <1>11

LEMMA LogDroppedStep ==
  ASSUME CapturedTogether, EventsOnce, CallbacksCounted, SlotsCounted, DiagnosticsCounted,
         NEW t \in tasks, LogDropped(t)
  PROVE  /\ CapturedTogether' /\ EventsOnce' /\ CallbacksCounted' /\ SlotsCounted'
         /\ DiagnosticsCounted'
<1> DEFINE c == t.channel
<1>1. /\ t.at = "drop" /\ tasks' = tasks \ {t} /\ callbackWG' = callbackWG - 1
      /\ UNCHANGED job /\ UNCHANGED events /\ UNCHANGED slots
      /\ UNCHANGED flusher /\ UNCHANGED diagnosticsClosed
      /\ \/ UNCHANGED dropTimer /\ UNCHANGED diagnosticsWG
         \/ ~diagnosticsClosed[c] /\ dropTimer[c] = "nil" /\ ScheduleDropTimer(c)
  BY DEF LogDropped
<1>2. EventsOnce' /\ CallbacksCounted'
  BY <1>1, EndsStep, EndCounts
<1>3. CapturedTogether'
  BY <1>1 DEF CapturedTogether
<1>4. \A d \in Channels : Sending(d)' = Sending(d)
  BY <1>1 DEF Sending
<1>5. c \in Channels
  BY DEF EventsOnce, Deliveries
<1>6. DiagnosticsCounted'
  <2> HIDE DEF c
  <2>1. CASE UNCHANGED dropTimer /\ UNCHANGED diagnosticsWG
    BY <1>1, <2>1 DEF DiagnosticsCounted, Shapes
  <2>2. CASE ~diagnosticsClosed[c] /\ dropTimer[c] = "nil" /\ ScheduleDropTimer(c)
    BY <1>1, <1>5, <2>2, ScheduleStep
  <2> QED
    BY <1>1, <2>1, <2>2
<1> QED
  BY <1>1, <1>2, <1>3, <1>4, <1>6, SlotsStep

-----------------------------------------------------------------------------
(***************************************************************************)
(* The whole step.                                                         *)
(***************************************************************************)
LEMMA PublisherStep ==
  ASSUME BusIInv, NEW p \in Publishers,
         \/ \E type \in LoggedTypes \union AlertTypes : Capture(p, type)
         \/ Spawn(p) \/ (\E to \in {"notify", "idle"} : JobMoves(p, "admit", to))
         \/ JobMoves(p, "notify", "idle")
  PROVE  BusIInv'
<1> USE DEF BusIInv
<1>1. ASSUME NEW type, Capture(p, type)
      PROVE  BusIInv'
  <2>1. /\ UNCHANGED subscribers /\ UNCHANGED current /\ UNCHANGED applying
        /\ UNCHANGED tasks /\ UNCHANGED slots /\ UNCHANGED dropTimer /\ UNCHANGED flusher
        /\ UNCHANGED diagnosticsWG /\ UNCHANGED diagnosticsClosed
    BY <1>1, Zenon DEF Capture, subscriptionVars, limiterVars
  <2>2. CapturedTogether' /\ EventsOnce' /\ CallbacksCounted'
    BY <1>1, CaptureStep, CaptureCounts
  <2>3. OneSetAtATime'
    BY <2>1 DEF OneSetAtATime
  <2>4. SlotsCounted' /\ DiagnosticsCounted'
    BY <2>1 DEF SlotsCounted, Sending, DiagnosticsCounted, Shapes
  <2> QED
    BY <2>2, <2>3, <2>4
<1>2. ASSUME Spawn(p)
      PROVE  BusIInv'
  <2>1. /\ UNCHANGED subscribers /\ UNCHANGED current /\ UNCHANGED applying
        /\ UNCHANGED slots /\ UNCHANGED dropTimer /\ UNCHANGED flusher
        /\ UNCHANGED diagnosticsWG /\ UNCHANGED diagnosticsClosed
    BY <1>2 DEF Spawn, subscriptionVars, limiterVars
  <2>2. CapturedTogether' /\ EventsOnce' /\ CallbacksCounted'
    BY <1>2, SpawnStep, SpawnCounts
  <2>3. OneSetAtATime'
    BY <2>1 DEF OneSetAtATime
  <2>4. DiagnosticsCounted'
    BY <2>1 DEF DiagnosticsCounted, Shapes
  <2>5. \A c \in Channels : Sending(c)' = Sending(c)
    <3> DEFINE new == {[at |-> "ready", event |-> job[p].event, channel |-> s.channel,
                        gen |-> s.gen] : s \in job[p].subs}
    <3>1. tasks' = tasks \union new /\ \A t \in new : t.at = "ready"
      BY <1>2, SpawnStep
    <3> HIDE DEF new
    <3> QED
      BY <3>1 DEF Sending
  <2> QED
    BY <2>1, <2>2, <2>3, <2>4, <2>5, SlotsStep
<1>3. ASSUME NEW from \in {"admit", "notify"}, NEW to \in {"notify", "idle"},
             JobMoves(p, from, to)
      PROVE  BusIInv'
  <2>1. /\ UNCHANGED subscribers /\ UNCHANGED current /\ UNCHANGED applying
        /\ UNCHANGED tasks /\ UNCHANGED slots /\ UNCHANGED dropTimer /\ UNCHANGED flusher
        /\ UNCHANGED diagnosticsWG /\ UNCHANGED diagnosticsClosed
    BY <1>3 DEF JobMoves, subscriptionVars, limiterVars
  <2>2. CapturedTogether' /\ EventsOnce' /\ CallbacksCounted'
    BY <1>3, JobMovesStep, JobMovesCounts
  <2>3. OneSetAtATime'
    BY <2>1 DEF OneSetAtATime
  <2>4. SlotsCounted' /\ DiagnosticsCounted'
    BY <2>1 DEF SlotsCounted, Sending, DiagnosticsCounted, Shapes
  <2> QED
    BY <2>2, <2>3, <2>4
<1> QED
  BY <1>1, <1>2, <1>3

LEMMA CallbackStep ==
  ASSUME BusIInv, Callback
  PROVE  BusIInv'
<1> USE DEF BusIInv
<1>1. PICK t \in tasks : Acquire(t) \/ Send(t) \/ LogDropped(t)
  BY DEF Callback
<1>2. UNCHANGED subscribers /\ UNCHANGED current /\ UNCHANGED applying
  BY <1>1 DEF Acquire, Send, LogDropped, subscriptionVars
<1>3. OneSetAtATime'
  BY <1>2 DEF OneSetAtATime
<1>4. CASE Acquire(t) \/ Send(t)
  <2>1. /\ UNCHANGED dropTimer /\ UNCHANGED flusher
        /\ UNCHANGED diagnosticsWG /\ UNCHANGED diagnosticsClosed
    BY <1>4 DEF Acquire, Send
  <2>2. DiagnosticsCounted'
    BY <2>1 DEF DiagnosticsCounted, Shapes
  <2> QED
    BY <1>3, <1>4, <2>2, AcquireStep, SendStep
<1>5. CASE LogDropped(t)
  BY <1>3, <1>5, LogDroppedStep
<1> QED
  BY <1>1, <1>4, <1>5

LEMMA LimiterStep ==
  ASSUME BusIInv, NEW c \in Channels,
         \/ DropTimerFires(c) \/ FlushWrites(c) \/ FlushEnds(c) \/ FlushReschedules(c)
         \/ FlushLeaves(c) \/ StopDiagnostics(c)
  PROVE  BusIInv'
<1>1. /\ UNCHANGED subscribers /\ UNCHANGED current /\ UNCHANGED applying
      /\ UNCHANGED callbackWG /\ UNCHANGED job /\ UNCHANGED tasks /\ UNCHANGED slots
      /\ UNCHANGED events
  BY DEF DropTimerFires, FlushWrites, FlushEnds, FlushReschedules, FlushLeaves, StopDiagnostics,
         FlushUnchanged, subscriptionVars
<1>2. DiagnosticsCounted'
  BY DiagnosticsStep DEF BusIInv
<1>3. OneSetAtATime' /\ CapturedTogether'
  BY <1>1 DEF BusIInv, OneSetAtATime, CapturedTogether
<1>4. EventsOnce' /\ CallbacksCounted'
  BY <1>1 DEF BusIInv, EventsOnce, CallbacksCounted, Awaited, Underway, CapturedBy
<1>5. SlotsCounted'
  BY <1>1 DEF BusIInv, SlotsCounted, Sending
<1> QED
  BY <1>2, <1>3, <1>4, <1>5 DEF BusIInv

\* Steps that leave the publishers, the callbacks and the limiters alone.
LEMMA SubscriptionStep ==
  ASSUME BusIInv,
         \/ BeginApply \/ Unsubscribe \/ Subscribe \/ EndApply \/ UnsubscribeIngress
         \/ FreezeCallbacks \/ UNCHANGED busVars
  PROVE  BusIInv'
<1>1. /\ UNCHANGED callbackWG /\ UNCHANGED job /\ UNCHANGED tasks /\ UNCHANGED events
      /\ UNCHANGED slots /\ UNCHANGED dropTimer /\ UNCHANGED flusher
      /\ UNCHANGED diagnosticsWG /\ UNCHANGED diagnosticsClosed
  BY DEF BeginApply, Unsubscribe, Subscribe, EndApply, UnsubscribeIngress, FreezeCallbacks,
         ApplyUnchanged, limiterVars, busVars
<1>2. OneSetAtATime'
  <2>1. CASE UnsubscribeIngress \/ FreezeCallbacks \/ UNCHANGED busVars
    <3>1. UNCHANGED subscribers /\ UNCHANGED current /\ UNCHANGED applying
      BY <2>1 DEF UnsubscribeIngress, FreezeCallbacks, busVars, subscriptionVars
    <3> QED
      BY <3>1 DEF BusIInv, OneSetAtATime
  <2> QED
    BY <2>1, BeginApplyStep, UnsubscribeStep, SubscribeStep, EndApplyStep DEF BusIInv
<1>3. CapturedTogether' /\ EventsOnce'
  BY <1>1 DEF BusIInv, CapturedTogether, EventsOnce
<1>4. CallbacksCounted'
  BY <1>1 DEF BusIInv, CallbacksCounted, Awaited, Underway, CapturedBy
<1>5. SlotsCounted' /\ DiagnosticsCounted'
  BY <1>1 DEF BusIInv, SlotsCounted, Sending, DiagnosticsCounted, Shapes
<1> QED
  BY <1>2, <1>3, <1>4, <1>5 DEF BusIInv

LEMMA BusStep ==
  ASSUME BusIInv, [BusNext]_busVars
  PROVE  BusIInv'
<1>1. CASE UNCHANGED busVars
  BY <1>1, SubscriptionStep
<1>2. CASE BusNext
  <2>1. CASE Flush \/ \E c \in Channels : DropTimerFires(c) \/ StopDiagnostics(c)
    BY <2>1, LimiterStep DEF Flush
  <2> QED
    BY <1>2, <2>1, PublisherStep, CallbackStep, SubscriptionStep DEF BusNext, Apply
<1> QED
  BY <1>1, <1>2

-----------------------------------------------------------------------------
(***************************************************************************)
(* Theorems.                                                               *)
(***************************************************************************)
\* Through every publication, replacement of the alert set, delivery, drop and
\* drain, the bus holds subscribers of one alert set only, and its wait group
\* and those of the limiters count exactly what they wait for.
THEOREM BusInvariant == BusSpec => []BusIInv
<1>1. BusIInv /\ [BusNext]_busVars => BusIInv'
  BY BusStep
<1> QED
  BY <1>1, BusInitIInv, PTL DEF BusSpec

\* At most Limit deliveries are underway per channel, whichever instances of
\* the notifier they belong to (InFlightLimiter.TryAcquire).
THEOREM DeliveriesAreLimited == BusSpec => []InFlightLimited
<1>1. BusIInv => InFlightLimited
  BY DEF BusIInv, SlotsCounted, Sending, InFlightLimited
<1> QED
  BY <1>1, BusInvariant, PTL

\* No event reaches two instances of a channel, although AlertManager.Apply
\* replaces them one subscription at a time.
THEOREM EventsReachOneInstance == BusSpec => []OneInstancePerEvent
<1>1. BusIInv => OneInstancePerEvent
  BY DEF BusIInv, EventsOnce, OneInstancePerEvent
<1> QED
  BY <1>1, BusInvariant, PTL

\* Once nothing is awaited, no callback runs and none is captured.
LEMMA DrainedIsEmpty ==
  ASSUME BusIInv, Drained
  PROVE  tasks = {} /\ \A p \in Publishers : job[p].at = "spawn" => job[p].subs = {}
<1>1. Awaited = {}
  BY FS_EmptySet DEF BusIInv, CallbacksCounted, Drained
<1>2. tasks = {}
  <2>1. ASSUME NEW t \in tasks
        PROVE  FALSE
    BY <1>1, UnderwayNotCaptured DEF BusIInv, Awaited
  <2> QED
    BY <2>1
<1>3. ASSUME NEW p \in Publishers, job[p].at = "spawn", NEW s \in job[p].subs
      PROVE  FALSE
  <2>1. job[p].event \in Nat /\ s.channel \in Channels
    BY <1>3 DEF BusIInv, CapturedTogether, Subscribers
  <2>2. <<job[p].event, s.channel>> \in CapturedBy(p)
    BY <1>3, <2>1 DEF CapturedBy
  <2> QED
    BY <1>1, <2>2 DEF Awaited
<1> QED
  BY <1>2, <1>3

\* DrainSubscribers returns when the wait group is zero: no callback runs then,
\* and no publisher is about to start one it had captured before the freeze.
THEOREM DrainedMeansDone ==
  BusSpec =>
    [](Drained => tasks = {} /\ \A p \in Publishers : job[p].at = "spawn" => job[p].subs = {})
<1>1. BusIInv =>
        (Drained => tasks = {} /\ \A p \in Publishers : job[p].at = "spawn" => job[p].subs = {})
  BY DrainedIsEmpty
<1> QED
  BY <1>1, BusInvariant, PTL

-----------------------------------------------------------------------------
(***************************************************************************)
(* Part 3.  The process around them.                                       *)
(***************************************************************************)

(***************************************************************************)
(* The invariant: what main has already waited for, at each of its steps.  *)
(***************************************************************************)
Last            == {"closeStore", "exit"}
AfterLogs       == Last \union {"deferred"}
AfterDrain      == AfterLogs \union {"stopLogs", "resources"}
AfterRequests   == AfterDrain \union {"freeze", "drain"}
AfterSyncer     == AfterRequests \union {"joinRequests"}
AfterHTTP       == AfterSyncer \union {"joinSyncer"}
AfterSupervisor == AfterHTTP \union {"stopSyncer", "joinHTTP"}

\* Supervisor, HTTP server and syncer are joined in this order.
Stages ==
  /\ syncer \in {"off", "between", "round", "done"}
  /\ supervisor \in {"off", "running", "done"}
  /\ main = "bind" =>
       syncer = "off" /\ supervisor = "off" /\ serving = "off" /\ shutter = "off"
  /\ main \in AfterSupervisor => supervisor \in {"off", "done"}
  /\ main \in AfterHTTP => \/ serving = "off" /\ shutter = "off"
                           \/ serving = "ended" /\ shutter = "done"
  /\ main \in AfterSyncer => syncer \in {"off", "done"}
  /\ shutter \notin {"off", "mark"} => requestsClosed

\* Who publishes is not over.
Producers ==
  /\ \A g \in Groups : job[g] # NoJob => syncer = "round"
  /\ job[Supervisor] # NoJob => supervisor = "running"

\* The server's wait group counts the handlers, and none begins once it is zero.
Handlers ==
  /\ request = [r \in Requests |-> request[r]]
  /\ serving = "off" => \A r \in Requests : request[r] = "none"
  /\ IsFiniteSet(Handling) /\ requestWG = Cardinality(Handling)
  /\ main \in AfterRequests => Handling = {}

\* The drain and the alert resources are over.
Quiet ==
  /\ main \in AfterDrain \union {"bind"} => tasks = {}
  /\ main \in Last => \A c \in Channels : dropTimer[c] # "armed" /\ flusher[c] = "none"

\* The log queue is open to everyone main still has to wait for.
LogsOpen ==
  /\ stopper # "idle" => main \in AfterLogs \union {"stopLogs"}
  /\ main \in AfterLogs => stopper = "returned"
  /\ stopper = "idle" => ingress = LoggedTypes

\* Target results on their way to the log queue.
Pending == {p \in Publishers :
  job[p].at = "admit" \/ (job[p].at = "spawn" /\ job[p].logged)}

ResultsCounted == results = admitted + Cardinality(Pending)

IInv ==
  /\ BusIInv /\ LogIInv /\ Stages /\ Producers /\ Handlers /\ Quiet /\ LogsOpen /\ ResultsCounted

-----------------------------------------------------------------------------
LEMMA Publishing ==
  /\ Publishers = Groups \union {Supervisor} /\ Supervisor \notin Groups
  /\ IsFiniteSet(Publishers) /\ RoundTypes \subseteq {"target", "error", "dns"}
BY LifecycleAssumption DEF LifecycleAssumption

LEMMA InitIInv == Init => IInv
<1> SUFFICES ASSUME Init
             PROVE  IInv
  OBVIOUS
<1> USE DEF Init
<1>1. BusIInv /\ LogIInv
  BY BusInitIInv, LogInitIInv
<1>2. Stages
  BY DEF Stages, AfterSupervisor, AfterHTTP, AfterSyncer, AfterRequests, AfterDrain, AfterLogs, Last
<1>3. /\ \A p \in Publishers : job[p] = NoJob /\ job[p].at = "idle"
      /\ tasks = {} /\ ingress = LoggedTypes
  BY DEF BusInit, NoJob
<1>4. Producers
  BY <1>3, Publishing DEF Producers
<1>5. Handlers
  <2>1. Handling = {}
    BY DEF Handling
  <2> QED
    BY <2>1, FS_EmptySet DEF Handlers, AfterRequests, AfterDrain, AfterLogs, Last
<1>6. Quiet
  BY <1>3 DEF Quiet, Last
<1>7. LogsOpen
  BY <1>3 DEF LogsOpen, AfterLogs, Last, LogInit
<1>8. ResultsCounted
  <2>1. Pending = {}
    BY <1>3 DEF Pending
  <2> QED
    BY <2>1, FS_EmptySet DEF ResultsCounted, LogInit
<1> QED
  BY <1>1, <1>2, <1>4, <1>5, <1>6, <1>7, <1>8 DEF IInv

-----------------------------------------------------------------------------
(***************************************************************************)
(* Every step of the process is one of the bus, or leaves the bus alone;   *)
(* and so with the log queue.                                              *)
(***************************************************************************)
LEMMA StepOfBus ==
  ASSUME [Next]_vars
  PROVE  [BusNext]_busVars
<1> USE DEF BusNext, Apply
<1>1. CASE UNCHANGED vars
  BY <1>1 DEF vars
<1>2. CASE Bind \/ BindFails
  BY <1>2 DEF Bind, BindFails, MainOnly
<1>3. CASE Main
  <2>1. CASE BeginShutdown \/ StopSupervisor \/ JoinSupervisor \/ StopSyncer \/ JoinHTTP
               \/ JoinSyncer \/ JoinRequests \/ CloseStore
    BY <2>1 DEF BeginShutdown, StopSupervisor, JoinSupervisor, StopSyncer, JoinHTTP, JoinSyncer,
                JoinRequests, CloseStore, Stop, MainOnly
  <2>2. CASE DrainSubscribers \/ CloseResources \/ StopLogs
    BY <2>2 DEF DrainSubscribers, CloseResources, StopLogs, MainOnly
  <2> QED
    BY <1>3, <2>1, <2>2 DEF Main
<1>4. CASE Server \/ ServeFails
  BY <1>4 DEF Server, ServeFails, ShutdownMarks, ShutdownCloses, ShutdownEnds, ShutterMoves
<1>5. CASE BeginRound \/ EndRound \/ SyncerReturns \/ SupervisorReturns
  BY <1>5 DEF BeginRound, EndRound, SyncerReturns, SupervisorReturns
<1>6. CASE Publish
  <2>1. CASE \E g \in Groups, type \in RoundTypes : Capture(g, type)
    <3>1. RoundTypes \subseteq LoggedTypes \union AlertTypes /\ Groups \subseteq Publishers
      BY Publishing DEF LoggedTypes, AlertTypes
    <3> QED
      BY <2>1, <3>1
  <2>2. CASE Capture(Supervisor, "unhealthy")
    <3>1. "unhealthy" \in LoggedTypes \union AlertTypes /\ Supervisor \in Publishers
      BY Publishing DEF LoggedTypes, AlertTypes
    <3> QED
      BY <2>2, <3>1
  <2> QED
    BY <1>6, <2>1, <2>2 DEF Publish
<1>7. CASE Deliver \/ Admit \/ Notified
  BY <1>7 DEF Deliver, Admit, Notified
<1>8. CASE Bus /\ UNCHANGED <<logVars, mainVars>>
  BY <1>8 DEF Bus
<1>9. CASE Logs /\ UNCHANGED <<busVars, mainVars>>
  BY <1>9
<1>10. CASE (Unsubscribe \/ Subscribe) /\ UNCHANGED <<logVars, mainVars>>
  BY <1>10
<1>11. CASE \E r \in Requests : Arrive(r) \/ Save(r) \/ Handler(r)
  BY <1>11 DEF Arrive, Save, Handler, Serve, Saved, Return
<1>12. CASE Exited
  BY <1>12 DEF Exited, vars
<1> QED
  BY <1>1, <1>2, <1>3, <1>4, <1>5, <1>6, <1>7, <1>8, <1>9, <1>10, <1>11, <1>12 DEF Next

LEMMA StepOfLogs ==
  ASSUME [Next]_vars
  PROVE  [LogNext]_logVars
<1> USE DEF LogNext
<1>1. CASE UNCHANGED vars
  BY <1>1 DEF vars
<1>2. CASE Bind \/ BindFails
  BY <1>2 DEF Bind, BindFails, MainOnly
<1>3. CASE Main
  <2>1. CASE BeginShutdown \/ StopSupervisor \/ JoinSupervisor \/ StopSyncer \/ JoinHTTP
               \/ JoinSyncer \/ JoinRequests \/ CloseStore
    BY <2>1 DEF BeginShutdown, StopSupervisor, JoinSupervisor, StopSyncer, JoinHTTP, JoinSyncer,
                JoinRequests, CloseStore, Stop, MainOnly
  <2>2. CASE DrainSubscribers \/ CloseResources \/ StopLogs
    BY <2>2 DEF DrainSubscribers, CloseResources, StopLogs, MainOnly
  <2> QED
    BY <1>3, <2>1, <2>2 DEF Main
<1>4. CASE Server \/ ServeFails
  BY <1>4 DEF Server, ServeFails, ShutdownMarks, ShutdownCloses, ShutdownEnds, ShutterMoves
<1>5. CASE BeginRound \/ EndRound \/ SyncerReturns \/ SupervisorReturns
  BY <1>5 DEF BeginRound, EndRound, SyncerReturns, SupervisorReturns, Mutes
<1>6. CASE Publish \/ Deliver \/ Admit \/ Notified
  BY <1>6 DEF Publish, Deliver, Admit, Notified, Mutes
<1>7. CASE Bus /\ UNCHANGED <<logVars, mainVars>>
  BY <1>7
<1>8. CASE Logs /\ UNCHANGED <<busVars, mainVars>>
  BY <1>8 DEF Logs
<1>9. CASE (Unsubscribe \/ Subscribe) /\ UNCHANGED <<logVars, mainVars>>
  BY <1>9
<1>10. CASE \E r \in Requests : Arrive(r) \/ Save(r) \/ Handler(r)
  BY <1>10 DEF Arrive, Save, Handler, Serve, Saved, Return, ServerUnchanged
<1>11. CASE Exited
  BY <1>11 DEF Exited, vars
<1> QED
  BY <1>1, <1>2, <1>3, <1>4, <1>5, <1>6, <1>7, <1>8, <1>9, <1>10, <1>11 DEF Next

-----------------------------------------------------------------------------
(***************************************************************************)
(* Steps that leave the stages alone, and those that do not.               *)
(***************************************************************************)
stageVars == <<main, syncer, supervisor, serving, shutter, requestsClosed>>

LEMMA StagesUnmoved ==
  ASSUME Stages, UNCHANGED stageVars
  PROVE  Stages'
BY DEF Stages, stageVars

LEMMA OthersKeepStages ==
  ASSUME \/ UNCHANGED vars \/ Exited
         \/ Publish \/ Deliver \/ Admit \/ Notified
         \/ Bus /\ UNCHANGED <<logVars, mainVars>>
         \/ Logs /\ UNCHANGED <<busVars, mainVars>>
         \/ (Unsubscribe \/ Subscribe) /\ UNCHANGED <<logVars, mainVars>>
         \/ \E r \in Requests : Arrive(r) \/ Save(r) \/ Handler(r)
  PROVE  UNCHANGED stageVars
<1> USE DEF stageVars, mainVars, partVars, serverVars
<1>1. CASE UNCHANGED vars \/ Exited
  BY <1>1 DEF vars, Exited
<1>2. CASE Publish
  BY <1>2 DEF Publish, Mutes
<1>3. CASE Deliver \/ Admit \/ Notified
  BY <1>3 DEF Deliver, Admit, Notified
<1>4. CASE UNCHANGED mainVars
  BY <1>4
<1>5. CASE \E r \in Requests : Arrive(r) \/ Save(r) \/ Handler(r)
  BY <1>5 DEF Arrive, Save, Handler, Serve, Saved, Return, ServerUnchanged
<1> QED
  BY <1>1, <1>2, <1>3, <1>4, <1>5

LEMMA StagesStep ==
  ASSUME Stages, [Next]_vars
  PROVE  Stages'
<1> USE DEF stageVars, Stages, MainMoves, MainOnly, partVars, serverVars,
            AfterSupervisor, AfterHTTP, AfterSyncer, AfterRequests, AfterDrain, AfterLogs, Last
<1>1. CASE Bind
  BY <1>1 DEF Bind
<1>2. CASE BindFails
  BY <1>2 DEF BindFails
<1>3. CASE BeginShutdown
  BY <1>3 DEF BeginShutdown
<1>4. CASE StopSupervisor
  BY <1>4 DEF StopSupervisor, Stop
<1>5. CASE JoinSupervisor
  BY <1>5 DEF JoinSupervisor
<1>6. CASE StopSyncer
  BY <1>6 DEF StopSyncer, Stop
<1>7. CASE JoinHTTP
  BY <1>7 DEF JoinHTTP
<1>8. CASE JoinSyncer
  BY <1>8 DEF JoinSyncer, SyncerJoined
<1>9. CASE JoinRequests
  BY <1>9 DEF JoinRequests
<1>10. CASE DrainSubscribers
  BY <1>10 DEF DrainSubscribers
<1>11. CASE CloseResources
  <2>1. CASE main' = main
    BY <1>11, <2>1 DEF CloseResources, mainVars
  <2>2. CASE main' # main
    BY <1>11, <2>2 DEF CloseResources, mainVars
  <2> QED
    BY <2>1, <2>2
<1>12. CASE StopLogs
  BY <1>12 DEF StopLogs, mainVars
<1>13. CASE CloseStore
  BY <1>13 DEF CloseStore
<1>14. CASE Server
  BY <1>14 DEF Server, ShutdownMarks, ShutdownCloses, ShutdownEnds, ShutterMoves
<1>15. CASE ServeFails
  BY <1>15 DEF ServeFails
<1>16. CASE BeginRound
  BY <1>16 DEF BeginRound, Mutes
<1>17. CASE EndRound
  BY <1>17 DEF EndRound, Mutes
<1>18. CASE SyncerReturns
  BY <1>18 DEF SyncerReturns, Mutes
<1>19. CASE SupervisorReturns
  BY <1>19 DEF SupervisorReturns, Mutes
<1> QED
  BY <1>1, <1>2, <1>3, <1>4, <1>5, <1>6, <1>7, <1>8, <1>9, <1>10, <1>11, <1>12, <1>13, <1>14,
     <1>15, <1>16, <1>17, <1>18, <1>19, OthersKeepStages, StagesUnmoved DEF Next, Main

-----------------------------------------------------------------------------
(***************************************************************************)
(* Publishers.                                                             *)
(***************************************************************************)
LEMMA OthersKeepJobs ==
  ASSUME [Next]_vars, ~Publish, ~Deliver, ~Admit, ~Notified
  PROVE  UNCHANGED job
<1> USE DEF busVars
<1>1. CASE UNCHANGED vars \/ Exited
  BY <1>1 DEF vars, Exited
<1>2. CASE Bind \/ BindFails
  BY <1>2 DEF Bind, BindFails, MainOnly
<1>3. CASE Main
  <2>1. CASE BeginShutdown \/ StopSupervisor \/ JoinSupervisor \/ StopSyncer \/ JoinHTTP
               \/ JoinSyncer \/ JoinRequests \/ CloseStore
    BY <2>1 DEF BeginShutdown, StopSupervisor, JoinSupervisor, StopSyncer, JoinHTTP, JoinSyncer,
                JoinRequests, CloseStore, Stop, MainOnly
  <2>2. CASE DrainSubscribers \/ CloseResources \/ StopLogs
    BY <2>2 DEF DrainSubscribers, CloseResources, StopLogs, MainOnly, FreezeCallbacks,
                StopDiagnostics, UnsubscribeIngress
  <2> QED
    BY <1>3, <2>1, <2>2 DEF Main
<1>4. CASE Server \/ ServeFails
  BY <1>4 DEF Server, ServeFails, ShutdownMarks, ShutdownCloses, ShutdownEnds, ShutterMoves
<1>5. CASE BeginRound \/ EndRound \/ SyncerReturns \/ SupervisorReturns
  BY <1>5 DEF BeginRound, EndRound, SyncerReturns, SupervisorReturns
<1>6. CASE Bus /\ UNCHANGED <<logVars, mainVars>>
  BY <1>6 DEF Bus, Callback, Flush, Acquire, Send, LogDropped, DropTimerFires, FlushWrites,
              FlushEnds, FlushReschedules, FlushLeaves, FlushUnchanged
<1>7. CASE Logs /\ UNCHANGED <<busVars, mainVars>>
  BY <1>7
<1>8. CASE (Unsubscribe \/ Subscribe) /\ UNCHANGED <<logVars, mainVars>>
  BY <1>8 DEF Unsubscribe, Subscribe, ApplyUnchanged
<1>9. CASE \E r \in Requests : Arrive(r) \/ Save(r) \/ Handler(r)
  BY <1>9 DEF Arrive, Save, Handler, Serve, Saved, Return, BeginApply, EndApply, ApplyUnchanged
<1> QED
  BY <1>1, <1>2, <1>3, <1>4, <1>5, <1>6, <1>7, <1>8, <1>9 DEF Next

\* A publisher with something to deliver, to admit or to notify is not idle.
LEMMA JobGoesOn ==
  ASSUME BusIInv, Deliver \/ Admit \/ Notified
  PROVE  \E p \in Publishers :
           /\ job[p] # NoJob /\ \A q \in Publishers \ {p} : job'[q] = job[q]
<1> USE DEF BusIInv
<1>1. CASE Deliver
  <2>1. PICK p \in Publishers : Spawn(p)
    BY <1>1 DEF Deliver
  <2>2. job[p].at = "spawn" /\ \A q \in Publishers \ {p} : job'[q] = job[q]
    BY <2>1, SpawnStep
  <2> QED
    BY <2>2 DEF NoJob
<1>2. CASE Admit \/ Notified
  <2>1. PICK p \in Publishers, from \in {"admit", "notify"}, to \in {"notify", "idle"} :
          JobMoves(p, from, to)
    BY <1>2 DEF Admit, Notified
  <2>2. job[p].at = from /\ \A q \in Publishers \ {p} : job'[q] = job[q]
    BY <2>1, JobMovesStep DEF JobMoves
  <2> QED
    BY <2>2 DEF NoJob
<1> QED
  BY <1>1, <1>2

LEMMA ProducersStep ==
  ASSUME BusIInv, Stages, Producers, [Next]_vars
  PROVE  Producers'
<1>1. CASE Publish
  <2>1. UNCHANGED syncer /\ UNCHANGED supervisor
    BY <1>1 DEF Publish, partVars
  <2>2. CASE \E g \in Groups, type \in RoundTypes : syncer = "round" /\ Capture(g, type)
    <3>1. PICK g \in Groups, type \in RoundTypes : syncer = "round" /\ Capture(g, type)
      BY <2>2
    <3>2. g \in Publishers /\ \A q \in Publishers \ {g} : job'[q] = job[q]
      BY <3>1, Publishing, CaptureStep DEF BusIInv
    <3> QED
      BY <2>1, <3>1, <3>2, Publishing DEF Producers
  <2>3. CASE supervisor = "running" /\ Capture(Supervisor, "unhealthy")
    <3>1. \A q \in Publishers \ {Supervisor} : job'[q] = job[q]
      BY <2>3, Publishing, CaptureStep DEF BusIInv
    <3> QED
      BY <2>1, <2>3, <3>1, Publishing DEF Producers
  <2> QED
    BY <1>1, <2>2, <2>3 DEF Publish
<1>2. CASE Deliver \/ Admit \/ Notified
  <2>1. UNCHANGED syncer /\ UNCHANGED supervisor
    BY <1>2 DEF Deliver, Admit, Notified, mainVars, partVars
  <2>2. PICK p \in Publishers :
          job[p] # NoJob /\ \A q \in Publishers \ {p} : job'[q] = job[q]
    BY <1>2, JobGoesOn
  <2> QED
    BY <2>1, <2>2, Publishing DEF Producers
<1>3. CASE ~(Publish \/ Deliver \/ Admit \/ Notified)
  <2>1. UNCHANGED job
    BY <1>3, OthersKeepJobs
  <2>2. /\ syncer = "round" /\ syncer' # "round" => \A g \in Groups : job[g] = NoJob
        /\ supervisor = "running" /\ supervisor' # "running" => job[Supervisor] = NoJob
    <3> USE DEF MainOnly, partVars, Stages, MainMoves
    <3>1. CASE Bind
      BY <3>1 DEF Bind
    <3>2. CASE BindFails \/ BeginShutdown \/ StopSupervisor \/ JoinSupervisor \/ StopSyncer
               \/ JoinHTTP \/ JoinSyncer \/ JoinRequests \/ CloseStore
      BY <3>2 DEF BindFails, BeginShutdown, StopSupervisor, JoinSupervisor, StopSyncer, JoinHTTP,
                  JoinSyncer, JoinRequests, CloseStore, Stop
    <3>3. CASE DrainSubscribers \/ CloseResources \/ StopLogs
      BY <3>3 DEF DrainSubscribers, CloseResources, StopLogs, mainVars
    <3>4. CASE Server \/ ServeFails
      BY <3>4 DEF Server, ServeFails, ShutdownMarks, ShutdownCloses, ShutdownEnds, ShutterMoves
    <3>5. CASE BeginRound \/ EndRound \/ SyncerReturns \/ SupervisorReturns
      BY <3>5 DEF BeginRound, EndRound, SyncerReturns, SupervisorReturns
    <3> QED
      BY <1>3, <3>1, <3>2, <3>3, <3>4, <3>5, OthersKeepStages DEF Next, Main, stageVars
  <2> QED
    BY <2>1, <2>2 DEF Producers
<1> QED
  BY <1>1, <1>2, <1>3

\* From the drain on, and before anything has started, nobody publishes.
LEMMA NobodyPublishes ==
  ASSUME BusIInv, Stages, Producers, main \in AfterSyncer \union {"bind"}
  PROVE  /\ \A p \in Publishers : job[p] = NoJob
         /\ ~Publish /\ ~Deliver /\ ~Admit /\ ~Notified
<1>1. syncer # "round" /\ supervisor # "running"
  BY DEF Stages, AfterSupervisor, AfterHTTP
<1>2. \A p \in Publishers : job[p] = NoJob
  BY <1>1, Publishing DEF Producers
<1> QED
  BY <1>1, <1>2, JobGoesOn DEF Publish

-----------------------------------------------------------------------------
(***************************************************************************)
(* The HTTP server.                                                        *)
(***************************************************************************)
\* Apart from the server's own steps nobody touches a request, and nothing
\* takes the server back to where it was before Serve.
LEMMA OthersKeepRequests ==
  ASSUME [Next]_vars, \A r \in Requests : ~Arrive(r) /\ ~Save(r) /\ ~Handler(r)
  PROVE  /\ UNCHANGED request /\ UNCHANGED requestWG
         /\ serving' = "off" => serving = "off"
         /\ main' \in AfterRequests => main \in AfterRequests \/ JoinRequests \/ BindFails
<1> USE DEF serverVars, mainVars, MainOnly, MainMoves,
            AfterRequests, AfterDrain, AfterLogs, Last
<1>1. CASE UNCHANGED vars \/ Exited
  BY <1>1 DEF vars, Exited
<1>2. CASE Bind
  BY <1>2 DEF Bind
<1>3. CASE BindFails
  BY <1>3 DEF BindFails
<1>4. CASE BeginShutdown
  BY <1>4 DEF BeginShutdown
<1>5. CASE StopSupervisor \/ JoinSupervisor \/ StopSyncer \/ JoinHTTP \/ JoinSyncer
  BY <1>5 DEF StopSupervisor, JoinSupervisor, StopSyncer, JoinHTTP, JoinSyncer, Stop
<1>6. CASE JoinRequests
  BY <1>6 DEF JoinRequests
<1>7. CASE DrainSubscribers
  BY <1>7 DEF DrainSubscribers
<1>8. CASE CloseResources
  BY <1>8 DEF CloseResources
<1>9. CASE StopLogs
  BY <1>9 DEF StopLogs
<1>10. CASE CloseStore
  BY <1>10 DEF CloseStore
<1>11. CASE Server \/ ServeFails
  BY <1>11 DEF Server, ServeFails, ShutdownMarks, ShutdownCloses, ShutdownEnds, ShutterMoves
<1>12. CASE BeginRound \/ EndRound \/ SyncerReturns \/ SupervisorReturns
  BY <1>12 DEF BeginRound, EndRound, SyncerReturns, SupervisorReturns, Mutes
<1>13. CASE Publish
  BY <1>13 DEF Publish, Mutes
<1>14. CASE Deliver \/ Admit \/ Notified
  BY <1>14 DEF Deliver, Admit, Notified
<1>15. CASE UNCHANGED mainVars
  BY <1>15
<1> QED
  BY <1>1, <1>2, <1>3, <1>4, <1>5, <1>6, <1>7, <1>8, <1>9, <1>10, <1>11, <1>12, <1>13, <1>14,
     <1>15 DEF Next, Main

LEMMA RequestStep ==
  ASSUME Stages, Handlers, NEW r \in Requests, Arrive(r) \/ Save(r) \/ Handler(r)
  PROVE  Handlers'
<1>1. /\ UNCHANGED main /\ UNCHANGED serving
      /\ request' = [q \in Requests |-> request'[q]]
      /\ \A q \in Requests \ {r} : request'[q] = request[q]
  BY DEF Handlers, Arrive, Save, Handler, Serve, Saved, Return, RequestMoves, ServerUnchanged
<1>2. serving # "off"
  BY DEF Handlers, Arrive, Save, Handler, Serve, Saved, Return, RequestMoves
<1>3. \/ r \in Handling /\ Handling' = Handling \ {r} /\ requestWG' = requestWG - 1
      \/ /\ r \notin Handling /\ Handling' = Handling \union {r} /\ requestWG' = requestWG + 1
         /\ ~requestsClosed
      \/ Handling' = Handling /\ UNCHANGED requestWG
  <2>1. CASE Arrive(r)
    BY <1>1, <2>1 DEF Arrive, RequestMoves, Handling, Handlers
  <2>2. CASE Save(r) \/ Saved(r)
    BY <1>1, <2>2 DEF Save, Saved, RequestMoves, Handling, Handlers
  <2>3. CASE Serve(r)
    BY <1>1, <2>3 DEF Serve, RequestMoves, Handling, Handlers
  <2>4. CASE Return(r)
    BY <1>1, <2>4 DEF Return, Handling, Handlers
  <2> QED
    BY <2>1, <2>2, <2>3, <2>4 DEF Handler
<1>4. IsFiniteSet(Handling') /\ requestWG' = Cardinality(Handling')
  <2>1. IsFiniteSet(Handling) /\ requestWG = Cardinality(Handling) /\ requestWG \in Nat
    BY FS_CardinalityType DEF Handlers
  <2> QED
    BY <1>3, <2>1, FS_AddElement, FS_RemoveElement
<1>5. main \in AfterRequests => requestsClosed
  BY <1>2 DEF Stages, AfterHTTP, AfterSyncer
<1>6. main' \in AfterRequests => Handling' = {}
  BY <1>1, <1>3, <1>5 DEF Handlers
<1> QED
  BY <1>1, <1>2, <1>4, <1>6 DEF Handlers

LEMMA HandlersStep ==
  ASSUME Stages, Handlers, [Next]_vars
  PROVE  Handlers'
<1>1. CASE \A r \in Requests : ~Arrive(r) /\ ~Save(r) /\ ~Handler(r)
  <2>1. /\ UNCHANGED request /\ UNCHANGED requestWG /\ UNCHANGED Handling
        /\ serving' = "off" => serving = "off"
        /\ main' \in AfterRequests => main \in AfterRequests \/ JoinRequests \/ BindFails
    BY <1>1, OthersKeepRequests DEF Handling
  <2>2. JoinRequests \/ BindFails => Handling = {}
    <3>1. CASE JoinRequests
      BY <3>1, FS_EmptySet DEF JoinRequests, Handlers
    <3>2. CASE BindFails
      BY <3>2 DEF BindFails, MainMoves, Stages, Handlers, Handling
    <3> QED
      BY <3>1, <3>2
  <2> QED
    BY <2>1, <2>2 DEF Handlers
<1> QED
  BY <1>1, RequestStep


-----------------------------------------------------------------------------
(***************************************************************************)
(* The end: the drain, the alert resources, the log queue.                 *)
(***************************************************************************)
\* What main has waited for when it takes the steps that matter here.
LEMMA MainGoesOn ==
  ASSUME [Next]_vars
  PROVE  /\ main' \in AfterDrain \union {"bind"} =>
              main \in AfterDrain \union {"bind"} \/ (Drained /\ UNCHANGED tasks)
         /\ main' \in Last =>
              \/ main \in Last
              \/ /\ \A c \in Channels : diagnosticsClosed[c] /\ diagnosticsWG[c] = 0
                 /\ UNCHANGED dropTimer /\ UNCHANGED flusher
         /\ main' \in AfterLogs => main \in AfterLogs \/ (stopper = "returned" /\ UNCHANGED stopper)
         /\ main \in AfterLogs \union {"stopLogs"} => main' \in AfterLogs \union {"stopLogs"}
<1> USE DEF mainVars, MainOnly, MainMoves, AfterDrain, AfterLogs, Last
<1>1. CASE UNCHANGED vars \/ Exited
  BY <1>1 DEF vars, Exited
<1>2. CASE Bind
  BY <1>2 DEF Bind
<1>3. CASE BindFails
  BY <1>3 DEF BindFails
<1>4. CASE BeginShutdown
  BY <1>4 DEF BeginShutdown
<1>5. CASE StopSupervisor \/ JoinSupervisor \/ StopSyncer \/ JoinHTTP \/ JoinSyncer \/ JoinRequests
  BY <1>5 DEF StopSupervisor, JoinSupervisor, StopSyncer, JoinHTTP, JoinSyncer, JoinRequests, Stop
<1>6. CASE DrainSubscribers
  <2>1. CASE MainMoves("freeze", "drain")
    BY <2>1
  <2>2. CASE MainMoves("drain", "resources") /\ Drained /\ MainOnly
    BY <2>2 DEF busVars
  <2> QED
    BY <1>6, <2>1, <2>2 DEF DrainSubscribers
<1>7. CASE CloseResources
  <2>1. CASE UNCHANGED mainVars
    BY <1>7, <2>1
  <2>2. CASE /\ \A c \in Channels : diagnosticsClosed[c]
             /\ main' = IF main = "resources" THEN "stopLogs" ELSE "closeStore"
             /\ MainOnly
    <3>1. \A c \in Channels : diagnosticsClosed[c] /\ diagnosticsWG[c] = 0
      BY <1>7, <2>2 DEF CloseResources
    <3>2. UNCHANGED dropTimer /\ UNCHANGED flusher
      BY <2>2 DEF busVars, limiterVars
    <3> QED
      BY <1>7, <2>2, <3>1, <3>2 DEF CloseResources
  <2> QED
    BY <1>7, <2>1, <2>2 DEF CloseResources
<1>8. CASE StopLogs
  BY <1>8 DEF StopLogs, logVars, actorVars
<1>9. CASE CloseStore
  BY <1>9 DEF CloseStore
<1>10. CASE Server \/ ServeFails
  BY <1>10 DEF Server, ServeFails, ShutdownMarks, ShutdownCloses, ShutdownEnds, ShutterMoves
<1>11. CASE BeginRound \/ EndRound \/ SyncerReturns \/ SupervisorReturns
  BY <1>11 DEF BeginRound, EndRound, SyncerReturns, SupervisorReturns, Mutes
<1>12. CASE Publish
  BY <1>12 DEF Publish, Mutes
<1>13. CASE Deliver \/ Admit \/ Notified
  BY <1>13 DEF Deliver, Admit, Notified
<1>14. CASE UNCHANGED mainVars
  BY <1>14
<1>15. CASE \E r \in Requests : Arrive(r) \/ Save(r) \/ Handler(r)
  BY <1>15 DEF Arrive, Save, Handler, Serve, Saved, Return, ServerUnchanged
<1> QED
  BY <1>1, <1>2, <1>3, <1>4, <1>5, <1>6, <1>7, <1>8, <1>9, <1>10, <1>11, <1>12, <1>13, <1>14,
     <1>15 DEF Next, Main

\* Callbacks come from publications alone; the timers of the drops from
\* callbacks, themselves and CloseResources.
LEMMA OthersKeepAlerts ==
  ASSUME [Next]_vars, ~Publish, ~Deliver, ~Admit, ~Notified, tasks = {}
  PROVE  /\ UNCHANGED tasks
         /\ \/ Flush \/ (\E c \in Channels : DropTimerFires(c)) \/ CloseResources
            \/ UNCHANGED dropTimer /\ UNCHANGED flusher
<1> USE DEF busVars, limiterVars
<1>1. CASE UNCHANGED vars \/ Exited
  BY <1>1 DEF vars, Exited
<1>2. CASE Bind \/ BindFails
  BY <1>2 DEF Bind, BindFails, MainOnly
<1>3. CASE Main
  <2>1. CASE BeginShutdown \/ StopSupervisor \/ JoinSupervisor \/ StopSyncer \/ JoinHTTP
               \/ JoinSyncer \/ JoinRequests \/ CloseStore
    BY <2>1 DEF BeginShutdown, StopSupervisor, JoinSupervisor, StopSyncer, JoinHTTP, JoinSyncer,
                JoinRequests, CloseStore, Stop, MainOnly
  <2>2. CASE DrainSubscribers \/ CloseResources \/ StopLogs
    BY <2>2 DEF DrainSubscribers, CloseResources, StopLogs, MainOnly, FreezeCallbacks,
                StopDiagnostics, UnsubscribeIngress
  <2> QED
    BY <1>3, <2>1, <2>2 DEF Main
<1>4. CASE Server \/ ServeFails
  BY <1>4 DEF Server, ServeFails, ShutdownMarks, ShutdownCloses, ShutdownEnds, ShutterMoves
<1>5. CASE BeginRound \/ EndRound \/ SyncerReturns \/ SupervisorReturns
  BY <1>5 DEF BeginRound, EndRound, SyncerReturns, SupervisorReturns
<1>6. CASE Bus /\ UNCHANGED <<logVars, mainVars>>
  <2>1. ~Callback
    BY DEF Callback
  <2> QED
    BY <1>6, <2>1 DEF Bus, Flush, DropTimerFires, FlushWrites, FlushEnds, FlushReschedules,
                      FlushLeaves, FlushUnchanged
<1>7. CASE Logs /\ UNCHANGED <<busVars, mainVars>>
  BY <1>7
<1>8. CASE (Unsubscribe \/ Subscribe) /\ UNCHANGED <<logVars, mainVars>>
  BY <1>8 DEF Unsubscribe, Subscribe, ApplyUnchanged
<1>9. CASE \E r \in Requests : Arrive(r) \/ Save(r) \/ Handler(r)
  BY <1>9 DEF Arrive, Save, Handler, Serve, Saved, Return, BeginApply, EndApply, ApplyUnchanged
<1> QED
  BY <1>1, <1>2, <1>3, <1>4, <1>5, <1>6, <1>7, <1>8, <1>9 DEF Next

LEMMA QuietStep ==
  ASSUME BusIInv, Stages, Producers, Quiet, [Next]_vars
  PROVE  Quiet'
<1>1. ASSUME main' \in AfterDrain \union {"bind"}
      PROVE  tasks' = {}
  <2>1. CASE main \in AfterDrain \union {"bind"}
    <3>1. main \in AfterSyncer \union {"bind"} /\ tasks = {}
      BY <2>1 DEF AfterSyncer, AfterRequests, Quiet
    <3> QED
      BY <3>1, NobodyPublishes, OthersKeepAlerts
  <2>2. CASE Drained /\ UNCHANGED tasks
    BY <2>2, DrainedIsEmpty
  <2> QED
    BY <1>1, <2>1, <2>2, MainGoesOn
<1>2. ASSUME main' \in Last, NEW c \in Channels
      PROVE  dropTimer'[c] # "armed" /\ flusher'[c] = "none"
  <2>1. CASE main \in Last
    <3>1. main \in AfterSyncer \union {"bind"} /\ tasks = {}
      BY <2>1 DEF AfterSyncer, AfterRequests, AfterDrain, AfterLogs, Quiet
    <3>2. ~CloseResources
      BY <2>1 DEF CloseResources, Last
    <3>3. ~Flush /\ \A d \in Channels : ~DropTimerFires(d)
      BY <2>1 DEF Quiet, Flush, DropTimerFires, FlushWrites, FlushEnds, FlushReschedules,
                  FlushLeaves, FlushAt
    <3> QED
      BY <2>1, <3>1, <3>2, <3>3, NobodyPublishes, OthersKeepAlerts DEF Quiet
  <2>2. CASE /\ \A d \in Channels : diagnosticsClosed[d] /\ diagnosticsWG[d] = 0
             /\ UNCHANGED dropTimer /\ UNCHANGED flusher
    BY <2>2 DEF BusIInv, DiagnosticsCounted, LimiterCounted
  <2> QED
    BY <1>2, <2>1, <2>2, MainGoesOn
<1> QED
  BY <1>1, <1>2 DEF Quiet

LEMMA LogsOpenStep ==
  ASSUME Stages, LogsOpen, [Next]_vars
  PROVE  LogsOpen'
<1>1. /\ stopper' # "idle" => stopper # "idle" \/ main = "stopLogs"
      /\ stopper = "returned" => stopper' = "returned"
      /\ stopper' = "idle" => stopper = "idle" /\ UNCHANGED ingress
  <2> USE DEF logVars, actorVars, busVars
  <2>1. CASE UNCHANGED vars \/ Exited
    BY <2>1 DEF vars, Exited
  <2>2. CASE Bind \/ BindFails
    BY <2>2 DEF Bind, BindFails, MainOnly
  <2>3. CASE Main
    <3>1. CASE BeginShutdown \/ StopSupervisor \/ JoinSupervisor \/ StopSyncer \/ JoinHTTP
                 \/ JoinSyncer \/ JoinRequests \/ CloseStore
      BY <3>1 DEF BeginShutdown, StopSupervisor, JoinSupervisor, StopSyncer, JoinHTTP, JoinSyncer,
                  JoinRequests, CloseStore, Stop, MainOnly
    <3>2. CASE DrainSubscribers \/ CloseResources
      BY <3>2 DEF DrainSubscribers, CloseResources, MainOnly, FreezeCallbacks, StopDiagnostics
    <3>3. CASE StopLogs
      BY <3>3 DEF StopLogs, MainOnly, StopFreezes, StopUnsubscribes, StopAt, UnsubscribeIngress
    <3> QED
      BY <2>3, <3>1, <3>2, <3>3 DEF Main
  <2>4. CASE Server \/ ServeFails
    BY <2>4 DEF Server, ServeFails, ShutdownMarks, ShutdownCloses, ShutdownEnds, ShutterMoves
  <2>5. CASE BeginRound \/ EndRound \/ SyncerReturns \/ SupervisorReturns
    BY <2>5 DEF BeginRound, EndRound, SyncerReturns, SupervisorReturns, Mutes
  <2>6. CASE Publish
    <3>1. UNCHANGED stopper
      BY <2>6 DEF Publish, Mutes
    <3>2. UNCHANGED ingress
      BY <2>6 DEF Publish, Capture
    <3> QED
      BY <3>1, <3>2
  <2>7. CASE Deliver \/ Admit \/ Notified
    BY <2>7 DEF Deliver, Admit, Notified, Spawn, JobMoves, Enqueue, Refuse, Notify
  <2>8. CASE Bus /\ UNCHANGED <<logVars, mainVars>>
    BY <2>8 DEF Bus, Callback, Flush, Acquire, Send, LogDropped, DropTimerFires, FlushWrites,
                FlushEnds, FlushReschedules, FlushLeaves, FlushUnchanged
  <2>9. CASE Logs /\ UNCHANGED <<busVars, mainVars>>
    BY <2>9 DEF Logs, Worker, Timer, Joins, DeadlinePasses, FindOverdue, WorkerExpires,
                WorkerCancels, Take, Sleep, Awake, Quit, Write, ReportDrops, CloseDone,
                TimerFires, TimerExpires, TimerCancels, StopArms, StopNotifies, StopJoins,
                StopJoinsTimer, StopAt
  <2>10. CASE (Unsubscribe \/ Subscribe) /\ UNCHANGED <<logVars, mainVars>>
    BY <2>10 DEF Unsubscribe, Subscribe, ApplyUnchanged
  <2>11. CASE \E r \in Requests : Arrive(r) \/ Save(r) \/ Handler(r)
    BY <2>11 DEF Arrive, Save, Handler, Serve, Saved, Return, BeginApply, EndApply,
                 ApplyUnchanged, ServerUnchanged
  <2> QED
    BY <2>1, <2>2, <2>3, <2>4, <2>5, <2>6, <2>7, <2>8, <2>9, <2>10, <2>11 DEF Next
<1>2. /\ main' \in AfterLogs => main \in AfterLogs \/ (stopper = "returned" /\ UNCHANGED stopper)
      /\ main \in AfterLogs \union {"stopLogs"} => main' \in AfterLogs \union {"stopLogs"}
  BY MainGoesOn
<1> QED
  BY <1>1, <1>2 DEF LogsOpen


-----------------------------------------------------------------------------
(***************************************************************************)
(* Target results.                                                         *)
(***************************************************************************)
LEMMA OthersKeepResults ==
  ASSUME [Next]_vars, ~Publish, ~Admit
  PROVE  UNCHANGED results /\ UNCHANGED admitted
<1> USE DEF mainVars, logVars, countVars
<1>1. CASE UNCHANGED vars \/ Exited
  BY <1>1 DEF vars, Exited
<1>2. CASE Bind \/ BindFails
  BY <1>2 DEF Bind, BindFails, MainOnly
<1>3. CASE Main
  <2>1. CASE BeginShutdown \/ StopSupervisor \/ JoinSupervisor \/ StopSyncer \/ JoinHTTP
               \/ JoinSyncer \/ JoinRequests \/ CloseStore
    BY <2>1 DEF BeginShutdown, StopSupervisor, JoinSupervisor, StopSyncer, JoinHTTP, JoinSyncer,
                JoinRequests, CloseStore, Stop, MainOnly
  <2>2. CASE DrainSubscribers \/ CloseResources \/ StopLogs
    BY <2>2 DEF DrainSubscribers, CloseResources, StopLogs, MainOnly, StopFreezes,
                StopUnsubscribes
  <2> QED
    BY <1>3, <2>1, <2>2 DEF Main
<1>4. CASE Server \/ ServeFails
  BY <1>4 DEF Server, ServeFails, ShutdownMarks, ShutdownCloses, ShutdownEnds, ShutterMoves
<1>5. CASE BeginRound \/ EndRound \/ SyncerReturns \/ SupervisorReturns
  BY <1>5 DEF BeginRound, EndRound, SyncerReturns, SupervisorReturns, Mutes
<1>6. CASE Deliver \/ Notified
  BY <1>6 DEF Deliver, Notified, Notify
<1>7. CASE UNCHANGED <<logVars, mainVars>>
  BY <1>7
<1>8. CASE Logs /\ UNCHANGED <<busVars, mainVars>>
  BY <1>8 DEF Logs, Worker, Timer, Joins, DeadlinePasses, FindOverdue, WorkerExpires,
              WorkerCancels, Take, Sleep, Awake, Quit, Write, ReportDrops, CloseDone,
              TimerFires, TimerExpires, TimerCancels, StopArms, StopNotifies, StopJoins,
              StopJoinsTimer
<1>9. CASE \E r \in Requests : Arrive(r) \/ Save(r) \/ Handler(r)
  BY <1>9 DEF Arrive, Save, Handler, Serve, Saved, Return, ServerUnchanged
<1> QED
  BY <1>1, <1>2, <1>3, <1>4, <1>5, <1>6, <1>7, <1>8, <1>9 DEF Next

\* A publisher still has an open log queue before it.
LEMMA QueueIsOpen ==
  ASSUME BusIInv, LogIInv, Stages, Producers, LogsOpen,
         Publish \/ \E p \in Publishers : job[p] # NoJob
  PROVE  accepting /\ ingress = LoggedTypes
<1>1. main \notin AfterLogs \union {"stopLogs"}
  BY NobodyPublishes DEF AfterSyncer, AfterRequests, AfterDrain
<1>2. stopper = "idle"
  BY <1>1 DEF LogsOpen
<1> QED
  BY <1>2 DEF LogsOpen, LogIInv, Frozen

\* A logged publication is pending from its capture on.
LEMMA CapturePends ==
  ASSUME BusIInv, NEW p \in Publishers, NEW type, Capture(p, type)
  PROVE  /\ p \notin Pending
         /\ Pending' = IF type \in ingress THEN Pending \union {p} ELSE Pending
<1>1. /\ \A q \in Publishers \ {p} : job'[q] = job[q]
      /\ job'[p].at = "spawn" /\ job[p] = NoJob
  <2>1. job[p] = NoJob
    BY Zenon DEF Capture
  <2> QED
    BY <2>1, CaptureStep DEF BusIInv
<1>2. job'[p].logged <=> type \in ingress
  <2> DEFINE subs == {s \in subscribers : s.type = type /\ ~callbacksStopped}
             new == [at |-> "spawn", event |-> events + 1, subs |-> subs,
                     logged |-> type \in ingress]
  <2>1. job' = [job EXCEPT ![p] = new]
    BY Zenon DEF Capture
  <2>2. job'[p] = new
    <3> HIDE DEF new
    <3> QED
      BY <2>1 DEF BusIInv, CapturedTogether
  <2>3. new.logged <=> type \in ingress
    <3> HIDE DEF subs
    <3> QED
      OBVIOUS
  <2> HIDE DEF new
  <2> QED
    BY <2>2, <2>3
<1>3. p \notin Pending
  BY <1>1 DEF Pending, NoJob
<1> QED
  BY <1>1, <1>2, <1>3 DEF Pending

LEMMA PendingFinite == IsFiniteSet(Pending) /\ Cardinality(Pending) \in Nat
BY Publishing, FS_Subset, FS_CardinalityType DEF Pending

LEMMA ResultsStep ==
  ASSUME BusIInv, LogIInv, Stages, Producers, LogsOpen, ResultsCounted, [Next]_vars
  PROVE  ResultsCounted'
<1>1. admitted \in Nat /\ IsFiniteSet(Pending) /\ Cardinality(Pending) \in Nat
  BY PendingFinite DEF LogIInv, LogTypeOK
<1>2. CASE Publish
  <2>1. UNCHANGED admitted /\ ingress = LoggedTypes
    BY <1>2, QueueIsOpen DEF Publish, Mutes, logVars, countVars
  <2>2. CASE \E g \in Groups, type \in RoundTypes :
               /\ Capture(g, type)
               /\ results' = IF type \in LoggedTypes THEN results + 1 ELSE results
    <3>1. PICK g \in Groups, type \in RoundTypes :
            /\ Capture(g, type)
            /\ results' = IF type \in LoggedTypes THEN results + 1 ELSE results
      BY <2>2
    <3>2. /\ g \notin Pending
          /\ Pending' = IF type \in LoggedTypes THEN Pending \union {g} ELSE Pending
      BY <2>1, <3>1, CapturePends, Publishing
    <3>3. /\ Cardinality(Pending \union {g}) = Cardinality(Pending) + 1
          /\ results = admitted + Cardinality(Pending)
      BY <1>1, <3>2, FS_AddElement DEF ResultsCounted
    <3>4. results' = admitted' + Cardinality(Pending')
      BY <1>1, <2>1, <3>1, <3>2, <3>3
    <3> QED
      BY <3>4 DEF ResultsCounted
  <2>3. CASE Capture(Supervisor, "unhealthy") /\ UNCHANGED results
    <3>1. Pending' = Pending
      BY <2>1, <2>3, CapturePends, Publishing DEF LoggedTypes
    <3> QED
      BY <2>1, <2>3, <3>1 DEF ResultsCounted
  <2> QED
    BY <1>2, <2>2, <2>3 DEF Publish
<1>3. CASE Deliver
  <2>1. PICK p \in Publishers : Spawn(p)
    BY <1>3 DEF Deliver
  <2>2. /\ job[p].at = "spawn" /\ \A q \in Publishers \ {p} : job'[q] = job[q]
        /\ job'[p] = IF job[p].logged THEN [at |-> "admit"] ELSE NoJob
    BY <2>1 DEF Spawn, BusIInv, CapturedTogether
  <2>3. Pending' = Pending
    BY <2>2 DEF Pending, NoJob
  <2>4. UNCHANGED admitted /\ UNCHANGED results
    BY <1>3 DEF Deliver, logVars, countVars, mainVars
  <2> QED
    BY <2>3, <2>4 DEF ResultsCounted
<1>4. CASE Admit
  <2>1. PICK p \in Publishers :
          /\ JobMoves(p, "admit", IF accepting THEN "notify" ELSE "idle")
          /\ IF accepting THEN Enqueue ELSE Refuse
    BY <1>4 DEF Admit
  <2>2. job[p].at = "admit" /\ job[p] # NoJob
    BY <2>1 DEF JobMoves, NoJob
  <2>3. JobMoves(p, "admit", "notify") /\ Enqueue
    BY <2>1, <2>2, QueueIsOpen
  <2>4. job'[p].at = "notify" /\ \A q \in Publishers \ {p} : job'[q] = job[q]
    BY <2>3 DEF JobMoves, BusIInv, CapturedTogether
  <2>5. p \in Pending /\ Pending' = Pending \ {p}
    BY <2>2, <2>4 DEF Pending
  <2>6. admitted' = admitted + 1 /\ UNCHANGED results
    BY <1>4, <2>3 DEF Enqueue, Admit, mainVars
  <2>7. /\ Cardinality(Pending') = Cardinality(Pending) - 1
        /\ results = admitted + Cardinality(Pending)
    BY <1>1, <2>5, FS_RemoveElement DEF ResultsCounted
  <2>8. results' = admitted' + Cardinality(Pending')
    BY <1>1, <2>6, <2>7
  <2> QED
    BY <2>8 DEF ResultsCounted
<1>5. CASE Notified
  <2>1. PICK p \in Publishers : JobMoves(p, "notify", "idle")
    BY <1>5 DEF Notified
  <2>2. /\ job[p].at = "notify" /\ job'[p].at = "idle"
        /\ \A q \in Publishers \ {p} : job'[q] = job[q]
    BY <2>1 DEF JobMoves, BusIInv, CapturedTogether
  <2>3. Pending' = Pending
    BY <2>2 DEF Pending
  <2>4. UNCHANGED admitted /\ UNCHANGED results
    BY <1>5 DEF Notified, Notify, countVars, mainVars
  <2> QED
    BY <2>3, <2>4 DEF ResultsCounted
<1>6. CASE ~(Publish \/ Deliver \/ Admit \/ Notified)
  <2>1. UNCHANGED job /\ UNCHANGED results /\ UNCHANGED admitted
    BY <1>6, OthersKeepJobs, OthersKeepResults
  <2> QED
    BY <2>1 DEF ResultsCounted, Pending
<1> QED
  BY <1>2, <1>3, <1>4, <1>5, <1>6

-----------------------------------------------------------------------------
(***************************************************************************)
(* The theorems.                                                           *)
(***************************************************************************)
LEMMA NobodyIsLeft ==
  ASSUME IInv
  PROVE  NothingOutlives
<1> USE DEF IInv
<1>1. ASSUME main \in AfterDrain
      PROVE  /\ tasks = {} /\ \A p \in Publishers : job[p] = NoJob
             /\ {syncer, supervisor} \subseteq {"off", "done"}
             /\ Handling = {}
  <2>1. main \in AfterSyncer /\ main \in AfterRequests /\ main \in AfterSupervisor
    BY <1>1 DEF AfterSupervisor, AfterHTTP, AfterSyncer, AfterRequests
  <2>2. tasks = {}
    BY <1>1 DEF Quiet
  <2>3. \A p \in Publishers : job[p] = NoJob
    BY <2>1, NobodyPublishes
  <2>4. syncer \in {"off", "done"} /\ supervisor \in {"off", "done"}
    BY <2>1 DEF Stages
  <2>5. Handling = {}
    BY <2>1 DEF Handlers
  <2> QED
    BY <2>2, <2>3, <2>4, <2>5
<1>2. ASSUME main \in Last
      PROVE  /\ worker = "done" /\ stopper = "returned" /\ timer \in {"stopped", "done"}
             /\ \A c \in Channels : dropTimer[c] # "armed" /\ flusher[c] = "none"
  <2>1. stopper = "returned"
    BY <1>2 DEF LogsOpen, AfterLogs
  <2>2. worker = "done" /\ timer \in {"stopped", "done"}
    BY <2>1 DEF LogIInv, Joining
  <2>3. \A c \in Channels : dropTimer[c] # "armed" /\ flusher[c] = "none"
    BY <1>2 DEF Quiet
  <2> QED
    BY <2>1, <2>2, <2>3
<1>3. main \in {"resources", "stopLogs", "deferred", "closeStore", "exit"} => main \in AfterDrain
  BY DEF AfterDrain, AfterLogs, Last
<1>4. main \in {"closeStore", "exit"} => main \in Last
  BY DEF Last
<1> QED
  BY <1>1, <1>2, <1>3, <1>4 DEF NothingOutlives

LEMMA WholeStep ==
  ASSUME IInv, [Next]_vars
  PROVE  IInv'
<1>1. BusIInv' /\ LogIInv'
  BY StepOfBus, StepOfLogs, BusStep, LogStep DEF IInv
<1> QED
  BY <1>1, StagesStep, ProducersStep, HandlersStep, QuietStep, LogsOpenStep, ResultsStep DEF IInv

\* At each of its steps main can rely on what it has waited for before.
THEOREM LifecycleInvariant == Spec => []IInv
<1>1. IInv /\ [Next]_vars => IInv'
  BY WholeStep
<1> QED
  BY <1>1, InitIInv, PTL DEF Spec

\* The process implements the event bus: runWebUI, rounds, supervisor and
\* handlers take its steps in an order of their own, and none it does not have.
THEOREM ProcessDrivesBus == Spec => BusSpec
<1>1. [Next]_vars => [BusNext]_busVars
  BY StepOfBus
<1>2. Init => BusInit
  BY DEF Init
<1> QED
  BY <1>1, <1>2, PTL DEF Spec, BusSpec

\* The process implements the log queue: publishers and the deferred Stop take
\* the steps QueuedLogWriter has, so everything proved of the queue holds of it here.
THEOREM ProcessDrivesLogQueue == Spec => LogSpec
<1>1. [Next]_vars => [LogNext]_logVars
  BY StepOfLogs
<1>2. Init => LogInit
  BY DEF Init
<1> QED
  BY <1>1, <1>2, PTL DEF Spec, LogSpec

\* At most Limit deliveries of a channel are underway, through every change of
\* the configuration and through the shutdown.
THEOREM ProcessLimitsDeliveries == Spec => []InFlightLimited
<1> QED
  BY ProcessDrivesBus, DeliveriesAreLimited, PTL

\* Whenever a configuration is saved, no event alerts the old and the new
\* instance of one channel.
THEOREM ProcessAlertsOneInstance == Spec => []OneInstancePerEvent
<1> QED
  BY ProcessDrivesBus, EventsReachOneInstance, PTL

\* No target result a round has published is refused by a log queue that closed
\* before it: main stops the queue after the last publisher.
THEOREM ResultsAreKept == Spec => []NoResultLost
<1>1. IInv => NoResultLost
  BY DEF IInv, LogIInv, ResultsCounted, Pending, NoResultLost
<1> QED
  BY <1>1, LifecycleInvariant, PTL

\* From the drain on nobody publishes, delivers or handles a request, and when
\* the database is closed nobody is left to use it: the order of the shutdown
\* in runWebUI is right for any number of groups, requests and channels.
THEOREM NobodyOutlives == Spec => []NothingOutlives
<1>1. IInv => NothingOutlives
  BY NobodyIsLeft
<1> QED
  BY <1>1, LifecycleInvariant, PTL
=============================================================================
