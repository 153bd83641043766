------------------------------ MODULE APIServer ------------------------------
(***************************************************************************)
(* controller/internal/controller/api_server.go and the way                *)
(* controller/cmd/main.go runs it: the HTTP server that hands the          *)
(* blocklist to the agents on the nodes, in one process with the           *)
(* reconcilers of DnsMesh.  The process is stopped by a signal or dies,    *)
(* and is started again.                                                   *)
(***************************************************************************)
EXTENDS DnsMesh, HTTPServer

CONSTANTS
    Agents,             \* clients that ask for the blocklist
    RequestKinds,       \* requests they send
    NoAnswer,           \* no blocklist yet
    MaxListenFailures   \* bound: errors of ListenAndServe

ASSUME APIServerAssumption ==
    /\ RequestKinds \subseteq {"GET /api/policies", "POST /api/policies", "GET /healthz"}
    /\ MaxListenFailures \in Nat

VARIABLES
    process,    \* "up", "stopping", "exited" or "crashed"
    asked,      \* agent -> its open request, or "none"
    reply,      \* agent -> the blocklist read for it and not yet delivered
    view,       \* agent -> the blocklist it enforces
    listenFailures

apiServerVars == <<serverVars, process, asked, reply, view, listenFailures>>
controllerVars == <<vars, apiServerVars>>

\* main sets everything up and starts the manager; the API server starts with
\* the controllers and does not wait for their first reconciles.
ControllerInit ==
    /\ Init
    /\ NewHTTPServer
    /\ process = "up"
    /\ asked = [a \in Agents |-> "none"]
    /\ reply = [a \in Agents |-> NoAnswer]
    /\ view = [a \in Agents |-> NoAnswer]
    /\ listenFailures = 0

-----------------------------------------------------------------------------
(* Start.                                                                  *)

Running == process \in {"up", "stopping"}

\* A Start that begins to listen only when the context is cancelled.
ServerListensLate ==
    /\ process = "stopping"
    /\ Listens
    /\ UNCHANGED <<vars, process, asked, reply, view, listenFailures>>

\* The goroutine of Start ...
ServerListens ==
    /\ Running
    /\ Listens
    /\ UNCHANGED <<vars, process, asked, reply, view, listenFailures>>

\* ... only logs that it cannot listen, or can no longer accept.
ServerCannotListen ==
    /\ Running
    /\ listenFailures < MaxListenFailures
    /\ listenFailures' = listenFailures + 1
    /\ ListenError
    /\ UNCHANGED <<vars, process, asked, reply, view>>

\* SIGTERM or SIGINT: the context of the manager is cancelled.
Signal ==
    /\ process = "up"
    /\ used.restart < MaxRestarts
    /\ process' = "stopping"
    /\ UNCHANGED <<vars, serverVars, asked, reply, view, listenFailures>>

\* A Start that returns on cancellation without shutting the server down.
StartReturnsAtOnce ==
    /\ process = "stopping"
    /\ shutdown = "no"
    /\ shutdown' = "done"
    /\ UNCHANGED <<vars, listener, active, process, asked, reply, view, listenFailures>>

\* A shutdown that waits for its requests without a deadline.
StartWaitsForever ==
    /\ process = "stopping"
    /\ ShutdownBegins \/ ShutdownEnds
    /\ UNCHANGED <<vars, process, asked, reply, view, listenFailures>>

\* Start shuts the server down with a deadline and returns.
StartShutsDown ==
    /\ process = "stopping"
    /\ ShutdownBegins \/ ShutdownEnds \/ ShutdownExpires
    /\ UNCHANGED <<vars, process, asked, reply, view, listenFailures>>

\* mgr.Start returns and with it main, with an error if Start returned one.
Exit ==
    /\ process = "stopping"
    /\ shutdown \in {"done", "deadline"}
    /\ process' = "exited"
    /\ UNCHANGED <<vars, serverVars, asked, reply, view, listenFailures>>

Crash ==
    /\ Running
    /\ used.restart < MaxRestarts
    /\ process' = "crashed"
    /\ UNCHANGED <<vars, serverVars, asked, reply, view, listenFailures>>

\* The container is started again; open connections are lost.
StartAgain ==
    /\ ~Running
    /\ Restart
    /\ process' = "up"
    /\ listener' = "new" /\ active' = {} /\ shutdown' = "no"
    /\ reply' = [a \in Agents |-> NoAnswer]
    /\ asked' = [a \in Agents |-> "none"]
    /\ UNCHANGED <<view, listenFailures>>

-----------------------------------------------------------------------------
(* The handlers.                                                           *)

\* An agent sends its next request.
Ask(a, kind) ==
    /\ Running
    /\ Accepts(a)
    /\ asked' = [asked EXCEPT ![a] = kind]
    /\ UNCHANGED <<vars, process, reply, view, listenFailures>>

\* handleGetBlocklist reads the cache, atomically (see CacheThreads) ...
handleGetBlocklist(a) ==
    /\ Running
    /\ a \in active
    /\ asked[a] = "GET /api/policies"
    /\ reply[a] = NoAnswer
    /\ reply' = [reply EXCEPT ![a] = GetBlocklist]
    /\ UNCHANGED <<vars, serverVars, process, asked, view, listenFailures>>

\* ... and sends what it read, as fast as the agent takes it.
SendBlocklist(a) ==
    /\ Running
    /\ reply[a] # NoAnswer
    /\ Answers(a)
    /\ view' = [view EXCEPT ![a] = reply[a]]
    /\ reply' = [reply EXCEPT ![a] = NoAnswer]
    /\ asked' = [asked EXCEPT ![a] = "none"]
    /\ UNCHANGED <<vars, process, listenFailures>>

\* The connection breaks, or the write timeout of the server passes first: the
\* error of Encode is logged and the agent keeps the blocklist it had.
SendFails(a) ==
    /\ Running
    /\ reply[a] # NoAnswer
    /\ Answers(a)
    /\ reply' = [reply EXCEPT ![a] = NoAnswer]
    /\ asked' = [asked EXCEPT ![a] = "none"]
    /\ UNCHANGED <<vars, process, view, listenFailures>>

\* Another method is refused; handleHealthz reports the size of the cache and
\* never fails.  Both leave the agent with the blocklist it had.
AnswerOther(a) ==
    /\ Running
    /\ asked[a] # "GET /api/policies"
    /\ Answers(a)
    /\ asked' = [asked EXCEPT ![a] = "none"]
    /\ UNCHANGED <<vars, process, reply, view, listenFailures>>

Serve(a) ==
    \/ \E kind \in RequestKinds : Ask(a, kind)
    \/ handleGetBlocklist(a)
    \/ SendBlocklist(a)
    \/ SendFails(a)
    \/ AnswerOther(a)

-----------------------------------------------------------------------------

\* The reconcilers run while the process does; the cluster goes on without it.
MeshStep ==
    /\ \/ /\ PodsChange \/ PoliciesChange
          /\ UNCHANGED <<podCtlVars, policyCtlVars, podIndexVars, policies, cacheVars>>
       \/ Running /\ PodSide /\ UNCHANGED policyCtlVars
       \/ Running /\ PolicySide /\ UNCHANGED podCtlVars
    /\ UNCHANGED apiServerVars

ControllerNext ==
    \/ MeshStep
    \/ ServerListens
    \/ ServerCannotListen
    \/ Signal
    \/ StartShutsDown
    \/ Exit
    \/ Crash
    \/ StartAgain
    \/ \E a \in Agents : Serve(a)

ControllerSpec == ControllerInit /\ [][ControllerNext]_controllerVars

\* The listening goroutine, Start and main go on, the container is started
\* again, the reconcilers run as in DnsMesh, and the handlers read the cache.
\* Nothing is assumed of the agents.
Mesh(A) == Running /\ A /\ UNCHANGED apiServerVars

FairControllerSpec ==
    /\ ControllerSpec
    /\ WF_controllerVars(ServerListens)
    /\ WF_controllerVars(StartShutsDown)
    /\ WF_controllerVars(Exit)
    /\ WF_controllerVars(StartAgain)
    /\ WF_controllerVars(Mesh(DeliverPodEvent /\ UNCHANGED policyCtlVars))
    /\ WF_controllerVars(Mesh(DeliverPolicyEvent /\ UNCHANGED podCtlVars))
    /\ \A p \in PodNames :
           WF_controllerVars(Mesh(PodBackoffExpires(p) /\ UNCHANGED policyCtlVars))
    /\ \A q \in PolicyNames :
           WF_controllerVars(Mesh(PolicyBackoffExpires(q) /\ UNCHANGED podCtlVars))
    /\ WF_controllerVars(Mesh(PodWorker /\ UNCHANGED policyCtlVars))
    /\ WF_controllerVars(Mesh(PolicyWorker /\ UNCHANGED podCtlVars))
    /\ \A a \in Agents : WF_controllerVars(handleGetBlocklist(a))

-----------------------------------------------------------------------------
(* Properties.                                                             *)

\* A stop is graceful: the process exits with no request left unanswered, or
\* because the deadline of Shutdown has passed, also when the signal arrives
\* before the goroutine has begun to listen.
NoRequestCutOff ==
    process = "exited" => active = {} \/ shutdown = "deadline"

\* A signal ends the process, even if an agent never takes its answer.
StopsWhenAsked == process = "stopping" ~> ~Running

\* GET /api/policies tells an agent neither too little nor too much: whatever
\* the reconcilers are in the middle of, the blocklist read for it holds, for an
\* indexed pod that no recalculation is due for, exactly what the indexed
\* policies block for this pod, and no entry if they block nothing.
AnswersExact ==
    [][\A a \in Agents :
           reply'[a] # reply[a] /\ reply'[a] # NoAnswer =>
               \A p \in DOMAIN pods :
                   LET blocked == BlockedFor(pods[p].Labels)
                   IN  \/ PodBusy(p)
                       \/ RecalculationDue(pods[p].Labels)
                       \/ pods[p].IP \in DOMAIN affectedPods
                       \/ /\ pods[p].IP \in DOMAIN reply'[a] <=> blocked # {}
                          /\ blocked # {} => reply'[a][pods[p].IP] = blocked
      ]_controllerVars

\* The agent enforces all that the policies in the cluster ask for.
Enforces(a) ==
    \A p \in PodNames, q \in PolicyNames :
        LET pod == apiPods[p]
            policy == apiPolicies[q]
        IN  /\ pod.Phase = "Running"
            /\ policy.exists /\ ~policy.Deleting
            /\ LabelsContainAll(pod.Labels, policy.Spec.TargetSelector)
            => /\ view[a] # NoAnswer
               /\ pod.IP \in DOMAIN view[a]
               /\ policy.Spec.BlockList \subseteq view[a][pod.IP]

\* The agent asks for the blocklist again and again and takes its answers, of
\* which some get through now and then.
KeepsAsking(a) ==
    /\ SF_controllerVars(Ask(a, "GET /api/policies"))
    /\ SF_controllerVars(SendBlocklist(a))
    /\ WF_controllerVars(AnswerOther(a))

\* What a policy blocks reaches every agent that keeps asking, through the
\* informer, the reconciler, the cache and the API, whatever stops and crashes
\* of the controller and broken connections came before, unless the server has
\* stopped listening for good.
AgentsInformed ==
    \A a \in Agents :
        KeepsAsking(a) => <>[]Enforces(a) \/ <>[](listener = "failed")

\* "APIServer serves the blocklist to eBPF DaemonSets via HTTP": the same, with
\* no excuse for the server.
BlocklistServed == \A a \in Agents : KeepsAsking(a) => <>[]Enforces(a)
=============================================================================
