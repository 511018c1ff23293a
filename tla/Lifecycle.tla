----------------------------- MODULE Lifecycle ------------------------------
(***************************************************************************)
(* The process: runWebUI and the HTTP server around the event bus and the  *)
(* log queue.  Rounds, supervisor and requests act until main tells each   *)
(* of them to stop, in an order that lets nobody act on what is already    *)
(* gone.  What a round or a check does otherwise is Scheduler's, DNSRound's *)
(* and Health's subject; here they publish events and come to an end.      *)
(***************************************************************************)
EXTENDS EventBus, LogQueue

CONSTANTS
  Groups,     \* goroutines of a round
  Supervisor, \* the goroutine of the health supervisor
  Requests,   \* HTTP requests
  RoundTypes  \* what a round publishes: "target", "error", "dns"

ASSUME LifecycleAssumption ==
  /\ Publishers = Groups \union {Supervisor} /\ Supervisor \notin Groups
  /\ IsFiniteSet(Publishers)
  /\ RoundTypes \subseteq {"target", "error", "dns"}

VARIABLES
  main,        \* next step of runWebUI
  syncer,      \* "off", "between", "round", "done"
  late,        \* a round has begun after Stop
  supervisor,  \* "off", "running", "done"
  stopped,     \* who was told to stop: "supervisor", "syncer"
  serving,     \* Serve: "off", "serving", "ended"
  shutter,     \* Server.Shutdown: "off", "mark", "close", "wait", "done"
  requestsClosed, shutdownCh, requestWG,
  request,     \* "none", "arrived", "handling", "saving", "streaming", "done"
  storeClosed,
  results      \* history: target results published

partVars   == <<syncer, late, supervisor, stopped>>
serverVars == <<serving, shutter, requestsClosed, shutdownCh, requestWG, request>>
mainVars   == <<main, partVars, serverVars, storeClosed, results>>
vars == <<busVars, logVars, mainVars>>

Init ==
  /\ BusInit /\ LogInit
  /\ main = "bind"
  /\ syncer = "off" /\ late = FALSE /\ supervisor = "off" /\ stopped = {}
  /\ serving = "off" /\ shutter = "off"
  /\ requestsClosed = FALSE /\ shutdownCh = FALSE /\ requestWG = 0
  /\ request = [r \in Requests |-> "none"]
  /\ storeClosed = FALSE /\ results = 0

-----------------------------------------------------------------------------
(***************************************************************************)
(* The producers: rounds and the supervisor.                               *)
(***************************************************************************)
Mutes == UNCHANGED <<logVars, main, serverVars, storeClosed>>

\* After Stop at most the round that had passed the loop's checks begins.
BeginRound ==
  /\ syncer = "between"
  /\ "syncer" \in stopped => ~late
  /\ syncer' = "round" /\ late' = ("syncer" \in stopped)
  /\ UNCHANGED <<busVars, supervisor, stopped, results>> /\ Mutes

EndRound ==
  /\ syncer = "round" /\ \A g \in Groups : job[g] = NoJob
  /\ syncer' = "between"
  /\ UNCHANGED <<busVars, late, supervisor, stopped, results>> /\ Mutes

SyncerReturns ==
  /\ syncer = "between" /\ "syncer" \in stopped
  /\ syncer' = "done"
  /\ UNCHANGED <<busVars, late, supervisor, stopped, results>> /\ Mutes

SupervisorReturns ==
  /\ supervisor = "running" /\ "supervisor" \in stopped /\ job[Supervisor] = NoJob
  /\ supervisor' = "done"
  /\ UNCHANGED <<busVars, syncer, late, stopped, results>> /\ Mutes

Publish ==
  /\ \/ \E g \in Groups, type \in RoundTypes :
          /\ syncer = "round"
          /\ Capture(g, type)
          /\ results' = IF type \in LoggedTypes THEN results + 1 ELSE results
     \/ supervisor = "running" /\ Capture(Supervisor, "unhealthy") /\ UNCHANGED results
  /\ UNCHANGED partVars /\ Mutes

Deliver == \E p \in Publishers : Spawn(p) /\ UNCHANGED <<logVars, mainVars>>

Admit ==
  \E p \in Publishers :
    /\ JobMoves(p, "admit", IF accepting THEN "notify" ELSE "idle")
    /\ IF accepting THEN Enqueue ELSE Refuse
    /\ UNCHANGED mainVars

Notified ==
  \E p \in Publishers : JobMoves(p, "notify", "idle") /\ Notify /\ UNCHANGED mainVars

-----------------------------------------------------------------------------
(***************************************************************************)
(* The HTTP server.                                                        *)
(***************************************************************************)
Handling == {r \in Requests : request[r] \in {"handling", "saving", "streaming"}}

RequestMoves(r, from, to) == request[r] = from /\ request' = [request EXCEPT ![r] = to]

ServerUnchanged == UNCHANGED <<logVars, main, partVars, serving, shutter, requestsClosed,
                               shutdownCh, storeClosed, results>>

\* A connection is accepted while Serve runs; its goroutine has not begun.
Arrive(r) ==
  /\ serving = "serving"
  /\ RequestMoves(r, "none", "arrived")
  /\ UNCHANGED <<busVars, requestWG>> /\ ServerUnchanged

\* serveRequest: the check and the registration in one critical section.
Serve(r) ==
  /\ \/ requestsClosed /\ RequestMoves(r, "arrived", "done") /\ UNCHANGED requestWG
     \/ /\ ~requestsClosed /\ requestWG' = requestWG + 1
        /\ \E kind \in {"handling", "streaming"} : RequestMoves(r, "arrived", kind)
  /\ UNCHANGED busVars /\ ServerUnchanged

\* A change of the configuration replaces the alert set, one at a time.
Save(r) ==
  /\ RequestMoves(r, "handling", "saving") /\ BeginApply
  /\ UNCHANGED requestWG /\ ServerUnchanged

Saved(r) ==
  /\ RequestMoves(r, "saving", "handling") /\ EndApply
  /\ UNCHANGED requestWG /\ ServerUnchanged

\* A handler returns; an event stream when its client goes or the server stops.
Return(r) ==
  /\ request[r] \in {"handling", "streaming"}
  /\ request' = [request EXCEPT ![r] = "done"]
  /\ requestWG' = requestWG - 1
  /\ UNCHANGED busVars /\ ServerUnchanged

ShutterMoves(from, to) ==
  /\ shutter = from /\ shutter' = to
  /\ UNCHANGED <<busVars, logVars, main, partVars, request, requestWG, storeClosed, results>>

ShutdownMarks ==
  /\ ShutterMoves("mark", "close")
  /\ requestsClosed' = TRUE
  /\ UNCHANGED <<serving, shutdownCh>>

\* Mutant of Announce: the event streams are not told.
AnnounceNothing == UNCHANGED shutdownCh

Announce == shutdownCh' = TRUE

\* The event streams are told; then http.Server.Shutdown closes the listener,
\* and Serve returns.
ShutdownCloses ==
  /\ ShutterMoves("close", "wait")
  /\ Announce /\ serving' = "ended"
  /\ UNCHANGED requestsClosed

\* It ends when no connection is busy, or when ShutdownTimeout cuts them off:
\* a handler that is cut off runs on.
ShutdownEnds ==
  /\ ShutterMoves("wait", "done")
  /\ UNCHANGED <<serving, requestsClosed, shutdownCh>>

\* Accept fails for good.
ServeFails ==
  /\ serving = "serving" /\ serving' = "ended"
  /\ UNCHANGED <<busVars, logVars, main, partVars, shutter, requestsClosed, shutdownCh, request,
                 requestWG, storeClosed, results>>

-----------------------------------------------------------------------------
(***************************************************************************)
(* runWebUI.                                                               *)
(***************************************************************************)
MainMoves(from, to) == main = from /\ main' = to

MainOnly == UNCHANGED <<busVars, logVars, partVars, serverVars, storeClosed, results>>

Bind ==
  /\ MainMoves("bind", "serve")
  /\ syncer' = "between" /\ supervisor' = "running" /\ serving' = "serving"
  /\ UNCHANGED <<busVars, logVars, late, stopped, shutter, requestsClosed, shutdownCh, requestWG,
                 request, storeClosed, results>>

\* The deferred calls alone: the log queue, the alert resources, the database.
BindFails == MainMoves("bind", "stopLogs") /\ MainOnly

\* A signal, or the end of Serve; the goroutine of the HTTP shutdown starts.
BeginShutdown ==
  /\ MainMoves("serve", "stopSupervisor")
  /\ shutter' = "mark"
  /\ UNCHANGED <<busVars, logVars, partVars, serving, requestsClosed, shutdownCh, requestWG,
                 request, storeClosed, results>>

Stop(who) ==
  /\ stopped' = stopped \union {who}
  /\ UNCHANGED <<busVars, logVars, syncer, late, supervisor, serverVars, storeClosed, results>>

StopSupervisor == MainMoves("stopSupervisor", "joinSupervisor") /\ Stop("supervisor")
JoinSupervisor == MainMoves("joinSupervisor", "stopSyncer") /\ supervisor = "done" /\ MainOnly
StopSyncer     == MainMoves("stopSyncer", "joinHTTP") /\ Stop("syncer")

JoinHTTP ==
  /\ MainMoves("joinHTTP", "joinSyncer")
  /\ shutter = "done" /\ serving = "ended"
  /\ MainOnly

\* Mutant of SyncerJoined: main does not wait for the last round.
SyncerJoinedAtOnce == TRUE

SyncerJoined == syncer = "done"

JoinSyncer == MainMoves("joinSyncer", "joinRequests") /\ SyncerJoined /\ MainOnly

JoinRequests == MainMoves("joinRequests", "freeze") /\ requestWG = 0 /\ MainOnly

DrainSubscribers ==
  \/ /\ MainMoves("freeze", "drain") /\ FreezeCallbacks
     /\ UNCHANGED <<logVars, partVars, serverVars, storeClosed, results>>
  \/ MainMoves("drain", "resources") /\ Drained /\ MainOnly

\* CloseResources: each limiter's diagnostics in turn; the deferred call finds
\* nothing to do after the first.
CloseResources ==
  /\ main \in {"resources", "deferred"}
  /\ \A c \in Channels : diagnosticsClosed[c] => diagnosticsWG[c] = 0
  /\ \/ /\ \E c \in Channels : StopDiagnostics(c)
        /\ UNCHANGED <<logVars, mainVars>>
     \/ /\ \A c \in Channels : diagnosticsClosed[c]
        /\ main' = IF main = "resources" THEN "stopLogs" ELSE "closeStore"
        /\ MainOnly

StopLogs ==
  /\ main = "stopLogs"
  /\ \/ StopFreezes /\ UNCHANGED <<busVars, mainVars>>
     \/ StopUnsubscribes /\ UnsubscribeIngress /\ UNCHANGED mainVars
     \/ stopper = "returned" /\ main' = "deferred" /\ MainOnly

CloseStore ==
  /\ MainMoves("closeStore", "exit")
  /\ storeClosed' = TRUE
  /\ UNCHANGED <<busVars, logVars, partVars, serverVars, results>>

Exited == main = "exit" /\ UNCHANGED vars

-----------------------------------------------------------------------------
Bus == Callback \/ Flush \/ (\E c \in Channels : DropTimerFires(c))
Logs == Worker \/ Timer \/ DeadlinePasses \/ Joins

Main ==
  \/ BeginShutdown \/ StopSupervisor \/ JoinSupervisor \/ StopSyncer \/ JoinHTTP \/ JoinSyncer
  \/ JoinRequests \/ DrainSubscribers \/ CloseResources \/ StopLogs \/ CloseStore

Server == ShutdownMarks \/ ShutdownCloses \/ ShutdownEnds

Handler(r) == Serve(r) \/ Saved(r) \/ Return(r)

Next ==
  \/ Bind \/ BindFails \/ Main \/ Server \/ ServeFails
  \/ BeginRound \/ EndRound \/ SyncerReturns \/ SupervisorReturns
  \/ Publish \/ Deliver \/ Admit \/ Notified
  \/ Bus /\ UNCHANGED <<logVars, mainVars>>
  \/ Logs /\ UNCHANGED <<busVars, mainVars>>
  \/ (Unsubscribe \/ Subscribe) /\ UNCHANGED <<logVars, mainVars>>
  \/ \E r \in Requests : Arrive(r) \/ Save(r) \/ Handler(r)
  \/ Exited

Spec == Init /\ [][Next]_vars

\* Goroutines run on, deliveries and writes return, timers run out, and an
\* event stream leaves when it is told.  Nobody has to publish, to send a
\* request or a signal; rounds publish finitely often.
FairSpec ==
  /\ Spec
  /\ WF_vars(StopSupervisor \/ JoinSupervisor \/ StopSyncer \/ JoinHTTP \/ JoinSyncer)
  /\ WF_vars(JoinRequests \/ DrainSubscribers \/ CloseResources \/ StopLogs \/ CloseStore)
  /\ WF_vars(Server) /\ WF_vars(EndRound) /\ WF_vars(SyncerReturns) /\ WF_vars(SupervisorReturns)
  /\ WF_vars(Deliver) /\ WF_vars(Admit) /\ WF_vars(Notified)
  /\ WF_vars(Callback /\ UNCHANGED <<logVars, mainVars>>)
  /\ WF_vars(Flush /\ UNCHANGED <<logVars, mainVars>>)
  /\ WF_vars((Worker \/ Timer \/ Joins) /\ UNCHANGED <<busVars, mainVars>>)
  /\ WF_vars((Unsubscribe \/ Subscribe) /\ UNCHANGED <<logVars, mainVars>>)
  /\ \A r \in Requests :
       /\ WF_vars(Serve(r)) /\ WF_vars(Saved(r))
       /\ WF_vars(Return(r) /\ (request[r] = "streaming" => shutdownCh))

-----------------------------------------------------------------------------
(***************************************************************************)
(* Properties.                                                             *)
(***************************************************************************)
\* Every target result that a round has published is on its way to the log
\* queue or was admitted by it, up to the end of the process: the queue does
\* not close before the last of its publishers is done.
NoResultLost ==
  /\ Accounted
  /\ results = admitted + Cardinality({p \in Publishers :
       job[p].at = "admit" \/ (job[p].at = "spawn" /\ job[p].logged)})

\* From the drain on no publisher, callback or handler is left, and when the
\* database is closed no worker and no timer either: nobody outlives what it
\* uses, whichever way the process ends.
NothingOutlives ==
  /\ main \in {"resources", "stopLogs", "deferred", "closeStore", "exit"} =>
       /\ tasks = {} /\ \A p \in Publishers : job[p] = NoJob
       /\ {syncer, supervisor} \subseteq {"off", "done"}
       /\ Handling = {}
  /\ main \in {"closeStore", "exit"} =>
       /\ worker = "done" /\ stopper = "returned" /\ timer \in {"stopped", "done"}
       /\ \A c \in Channels : dropTimer[c] # "armed" /\ flusher[c] = "none"

\* Once it has begun, the shutdown ends.
Terminates == (main \notin {"bind", "serve"}) ~> (main = "exit")

=============================================================================
