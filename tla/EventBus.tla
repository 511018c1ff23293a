------------------------------ MODULE EventBus ------------------------------
(***************************************************************************)
(* The event bus, the alert set the configuration installs on it, and the  *)
(* limiter of each alert channel with the timer that summarises its drops. *)
(* Publish captures its subscribers under the lock and serves them outside *)
(* it: a goroutine per alert subscriber, and the log queue's ingress       *)
(* inline.  A step is one critical section, one channel operation, or one  *)
(* whole delivery by SMTP or HTTP.                                         *)
(***************************************************************************)
EXTENDS Naturals, FiniteSets

CONSTANTS
  Publishers, \* goroutines of a round, and the supervisor
  Channels,   \* alert channels: email, webhook
  Limit,      \* InFlightLimit: deliveries underway per channel
  AlertSets,  \* what configurations ask for: [events, channels]
  MaxEvents,  \* bound: events published
  MaxSets     \* bound: alert sets applied after the first

ASSUME EventBusAssumption ==
  /\ Limit \in Nat \ {0} /\ MaxEvents \in Nat /\ MaxSets \in Nat
  /\ IsFiniteSet(Channels)

AlertTypes  == {"error", "dns", "unhealthy"}
LoggedTypes == {"target", "error"}

ASSUME AlertSetsAssumption ==
  AlertSets \subseteq [events : SUBSET AlertTypes, channels : SUBSET Channels]

VARIABLES
  \* guarded by the bus
  subscribers,      \* [type, channel, gen]; `gen` stands for the instance
  ingress,          \* event types with the log queue's ingress
  callbacksStopped,
  callbackWG,
  \* AlertManager: the current set, and the one Apply is about to install
  current, applying,
  \* goroutines
  job,              \* what each publisher is about
  tasks,            \* alert callbacks
  \* per channel: InFlightLimiter and its diagnostics
  slots, dropped, dropTimer, flusher, diagnosticsWG, diagnosticsClosed,
  \* history
  events            \* events published

subscriptionVars == <<subscribers, current, applying>>
limiterVars == <<slots, dropped, dropTimer, flusher, diagnosticsWG, diagnosticsClosed>>
busVars == <<subscriptionVars, ingress, callbacksStopped, callbackWG, job, tasks, limiterVars,
             events>>

NoJob == [at |-> "idle"]
NoSet == [gen |-> 0]

Wanted(set) == [type : set.events, channel : set.channels, gen : {set.gen}]

BusInit ==
  /\ \E set \in AlertSets :
       /\ current = [gen |-> 1, events |-> set.events, channels |-> set.channels]
       /\ subscribers = Wanted(current)
  /\ applying = NoSet
  /\ ingress = LoggedTypes
  /\ callbacksStopped = FALSE /\ callbackWG = 0
  /\ job = [p \in Publishers |-> NoJob]
  /\ tasks = {}
  /\ slots = [c \in Channels |-> 0]
  /\ dropped = [c \in Channels |-> FALSE]
  /\ dropTimer = [c \in Channels |-> "nil"]
  /\ flusher = [c \in Channels |-> "none"]
  /\ diagnosticsWG = [c \in Channels |-> 0]
  /\ diagnosticsClosed = [c \in Channels |-> FALSE]
  /\ events = 0

-----------------------------------------------------------------------------
(***************************************************************************)
(* Publish.                                                                *)
(***************************************************************************)
\* Under the read lock: the subscribers of the event and their registration.
Capture(p, type) ==
  /\ job[p] = NoJob /\ events < MaxEvents
  /\ LET subs == {s \in subscribers : s.type = type /\ ~callbacksStopped} IN
       /\ callbackWG' = callbackWG + Cardinality(subs)
       /\ job' = [job EXCEPT ![p] = [at |-> "spawn", event |-> events + 1, subs |-> subs,
                                     logged |-> type \in ingress]]
  /\ events' = events + 1
  /\ UNCHANGED <<subscriptionVars, ingress, callbacksStopped, tasks, limiterVars>>

\* The goroutines start; channel subscribers never block and are left out.
Spawn(p) ==
  /\ job[p].at = "spawn"
  /\ tasks' = tasks \union
       {[at |-> "ready", event |-> job[p].event, channel |-> s.channel, gen |-> s.gen] :
          s \in job[p].subs}
  /\ job' = [job EXCEPT ![p] = IF job[p].logged THEN [at |-> "admit"] ELSE NoJob]
  /\ UNCHANGED <<subscriptionVars, ingress, callbacksStopped, callbackWG, limiterVars, events>>

\* The ingress call is the log queue's Enqueue; Publish returns after it.
JobMoves(p, from, to) ==
  /\ job[p].at = from
  /\ job' = [job EXCEPT ![p] = [at |-> to]]
  /\ UNCHANGED <<subscriptionVars, ingress, callbacksStopped, callbackWG, tasks, limiterVars,
                 events>>

\* The cancel functions of SubscribeIngress.
UnsubscribeIngress ==
  /\ ingress' = {}
  /\ UNCHANGED <<subscriptionVars, callbacksStopped, callbackWG, job, tasks, limiterVars, events>>

-----------------------------------------------------------------------------
(***************************************************************************)
(* Alert callbacks: OnEvent of the email and the webhook notifier.         *)
(***************************************************************************)
Becomes(t, at) == tasks' = (tasks \ {t}) \union {[t EXCEPT !.at = at]}

\* Mutant of HasSlot: every instance counts its own deliveries.
HasSlotOfInstance(t) ==
  Cardinality({u \in tasks : u.channel = t.channel /\ u.gen = t.gen /\ u.at = "send"}) < Limit

HasSlot(t) == slots[t.channel] < Limit

Acquire(t) ==
  /\ t.at = "ready"
  /\ \/ /\ HasSlot(t)
        /\ slots' = [slots EXCEPT ![t.channel] = slots[t.channel] + 1]
        /\ Becomes(t, "send")
     \/ ~HasSlot(t) /\ Becomes(t, "drop") /\ UNCHANGED slots
  /\ UNCHANGED <<subscriptionVars, ingress, callbacksStopped, callbackWG, job, dropped, dropTimer,
                 flusher, diagnosticsWG, diagnosticsClosed, events>>

\* The delivery succeeds or fails; the slot is released, then the goroutine ends.
Send(t) ==
  /\ t.at = "send"
  /\ slots' = [slots EXCEPT ![t.channel] = slots[t.channel] - 1]
  /\ tasks' = tasks \ {t}
  /\ callbackWG' = callbackWG - 1
  /\ UNCHANGED <<subscriptionVars, ingress, callbacksStopped, job, dropped, dropTimer, flusher,
                 diagnosticsWG, diagnosticsClosed, events>>

ScheduleDropTimer(c) ==
  /\ dropTimer' = [dropTimer EXCEPT ![c] = "armed"]
  /\ diagnosticsWG' = [diagnosticsWG EXCEPT ![c] = diagnosticsWG[c] + 1]

\* logDropped: the first drop is logged at once, later ones by the timer.
LogDropped(t) ==
  LET c == t.channel IN
    /\ t.at = "drop"
    /\ \/ diagnosticsClosed[c] /\ UNCHANGED <<dropped, dropTimer, diagnosticsWG>>
       \/ /\ ~diagnosticsClosed[c] /\ dropTimer[c] # "nil"
          /\ dropped' = [dropped EXCEPT ![c] = TRUE]
          /\ UNCHANGED <<dropTimer, diagnosticsWG>>
       \/ /\ ~diagnosticsClosed[c] /\ dropTimer[c] = "nil"
          /\ ScheduleDropTimer(c)
          /\ UNCHANGED dropped
    /\ tasks' = tasks \ {t}
    /\ callbackWG' = callbackWG - 1
    /\ UNCHANGED <<subscriptionVars, ingress, callbacksStopped, job, slots, flusher,
                   diagnosticsClosed, events>>

-----------------------------------------------------------------------------
(***************************************************************************)
(* flushDrops, the callback of the drop timer.  dropTimer is "fired" while *)
(* the pointer still names a timer that has run out.                       *)
(***************************************************************************)
FlushUnchanged == UNCHANGED <<subscriptionVars, ingress, callbacksStopped, callbackWG, job, tasks,
                              slots, diagnosticsClosed, events>>

FlushAt(c, from, to) == flusher[c] = from /\ flusher' = [flusher EXCEPT ![c] = to]

DropTimerFires(c) ==
  /\ dropTimer[c] = "armed"
  /\ FlushAt(c, "none", "flush")
  /\ dropTimer' = [dropTimer EXCEPT ![c] = "fired"]
  /\ UNCHANGED <<dropped, diagnosticsWG>> /\ FlushUnchanged

FlushWrites(c) ==
  /\ FlushAt(c, "flush", "write")
  /\ ~diagnosticsClosed[c] /\ dropped[c]
  /\ dropped' = [dropped EXCEPT ![c] = FALSE]
  /\ UNCHANGED <<dropTimer, diagnosticsWG>> /\ FlushUnchanged

FlushEnds(c) ==
  /\ FlushAt(c, "flush", "leave")
  /\ \/ diagnosticsClosed[c] /\ UNCHANGED dropTimer
     \/ ~diagnosticsClosed[c] /\ ~dropped[c] /\ dropTimer' = [dropTimer EXCEPT ![c] = "nil"]
  /\ UNCHANGED <<dropped, diagnosticsWG>> /\ FlushUnchanged

FlushReschedules(c) ==
  /\ FlushAt(c, "write", "leave")
  /\ \/ ~diagnosticsClosed[c] /\ ScheduleDropTimer(c)
     \/ diagnosticsClosed[c] /\ UNCHANGED <<dropTimer, diagnosticsWG>>
  /\ UNCHANGED dropped /\ FlushUnchanged

FlushLeaves(c) ==
  /\ FlushAt(c, "leave", "none")
  /\ diagnosticsWG' = [diagnosticsWG EXCEPT ![c] = diagnosticsWG[c] - 1]
  /\ UNCHANGED <<dropped, dropTimer>> /\ FlushUnchanged

\* StopDiagnostics up to its Wait: a timer stopped in time is accounted for here.
StopDiagnostics(c) ==
  /\ ~diagnosticsClosed[c]
  /\ diagnosticsClosed' = [diagnosticsClosed EXCEPT ![c] = TRUE]
  /\ diagnosticsWG' = [diagnosticsWG EXCEPT ![c] =
                         IF dropTimer[c] = "armed" THEN diagnosticsWG[c] - 1
                         ELSE diagnosticsWG[c]]
  /\ dropTimer' = [dropTimer EXCEPT ![c] = "nil"]
  /\ dropped' = [dropped EXCEPT ![c] = FALSE]
  /\ UNCHANGED <<subscriptionVars, ingress, callbacksStopped, callbackWG, job, tasks, slots,
                 flusher, events>>

-----------------------------------------------------------------------------
(***************************************************************************)
(* AlertManager.Apply under its mutex: each Unsubscribe and Subscribe      *)
(* takes the bus's lock on its own.                                        *)
(***************************************************************************)
BeginApply ==
  /\ applying = NoSet /\ current.gen <= MaxSets
  /\ \E set \in AlertSets :
       applying' = [gen |-> current.gen + 1, events |-> set.events, channels |-> set.channels]
  /\ UNCHANGED <<subscribers, current, ingress, callbacksStopped, callbackWG, job, tasks,
                 limiterVars, events>>

ApplyUnchanged ==
  UNCHANGED <<ingress, callbacksStopped, callbackWG, job, tasks, limiterVars, events>>

Old == {s \in subscribers : s.gen = current.gen}

Unsubscribe ==
  /\ applying # NoSet
  /\ Old # {} /\ subscribers' = subscribers \ {CHOOSE s \in Old : TRUE}
  /\ UNCHANGED <<current, applying>> /\ ApplyUnchanged

\* Mutant of MaySubscribe: the new set comes before the old one goes.
MaySubscribeEarly == applying # NoSet

MaySubscribe == applying # NoSet /\ Old = {}

Subscribe ==
  /\ MaySubscribe
  /\ ~Wanted(applying) \subseteq subscribers
  /\ subscribers' = subscribers \union {CHOOSE s \in Wanted(applying) \ subscribers : TRUE}
  /\ UNCHANGED <<current, applying>> /\ ApplyUnchanged

EndApply ==
  /\ applying # NoSet /\ Old = {} /\ Wanted(applying) \subseteq subscribers
  /\ current' = applying /\ applying' = NoSet
  /\ UNCHANGED subscribers /\ ApplyUnchanged

\* DrainSubscribers up to its Wait.
FreezeCallbacks ==
  /\ callbacksStopped' = TRUE
  /\ UNCHANGED <<subscriptionVars, ingress, callbackWG, job, tasks, limiterVars, events>>

\* Mutant of Drained: the wait is for deliveries, not for all callbacks.
DrainedOfDeliveries == \A t \in tasks : t.at # "send"

Drained == callbackWG = 0

Callback == \E t \in tasks : Acquire(t) \/ Send(t) \/ LogDropped(t)
Flush == \E c \in Channels :
           FlushWrites(c) \/ FlushEnds(c) \/ FlushReschedules(c) \/ FlushLeaves(c)
Apply == Unsubscribe \/ Subscribe \/ EndApply

BusNext ==
  \/ \E p \in Publishers :
       \/ \E type \in LoggedTypes \union AlertTypes : Capture(p, type)
       \/ Spawn(p) \/ (\E to \in {"notify", "idle"} : JobMoves(p, "admit", to))
       \/ JobMoves(p, "notify", "idle")
  \/ Callback \/ Flush \/ \E c \in Channels : DropTimerFires(c) \/ StopDiagnostics(c)
  \/ BeginApply \/ Apply \/ UnsubscribeIngress \/ FreezeCallbacks

BusSpec == BusInit /\ [][BusNext]_busVars

-----------------------------------------------------------------------------
(***************************************************************************)
(* Properties.                                                             *)
(***************************************************************************)
\* At most Limit deliveries are underway per channel, those of replaced
\* instances included.
InFlightLimited ==
  \A c \in Channels :
    Cardinality({t \in tasks : t.channel = c /\ t.at = "send"}) <= Limit

\* No event goes to an old and a new instance of one channel, although an
\* alert set is replaced while it is published.
OneInstancePerEvent ==
  \A t, u \in tasks : t.event = u.event /\ t.channel = u.channel => t.gen = u.gen

=============================================================================
