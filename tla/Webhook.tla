------------------------------- MODULE Webhook -------------------------------
(***************************************************************************)
(* The mutating admission webhook: webhook/pkg/webhook (ServeHTTP, mutate, *)
(* getDNSServiceIP, createPatch) and the process of                        *)
(* webhook/cmd/webhook/main.go.  The API server asks it about every        *)
(* Deployment a user submits and stores what it admits; meanwhile the DNS  *)
(* service can be deleted and created again with another address.          *)
(***************************************************************************)
EXTENDS HTTPServer, GoMaps, Naturals

CONSTANTS
    Deployments,    \* names of Deployments
    Submissions,    \* objects users submit
    Reviews,        \* admission calls, one at a time each
    OtherKinds,     \* other requests that reach /mutate
    NoName,         \* no Deployment
    ServiceIPs,     \* cluster IPs the DNS service can have
    MaxServiceChanges, MaxSubmissions, MaxFailures, MaxStops    \* bounds

\* What clusterIP of the DNS service can be: an address, not yet set, that of
\* a headless service, or there is no service.
Addresses == ServiceIPs \cup {"", "None", "absent"}

\* What the webhook reads and writes of a Deployment.
DeploymentObjects ==
    [Annotations : {obj.Annotations : obj \in Submissions} \cup {EmptyMap},
     HostNetwork : BOOLEAN,
     dnsPolicy : {obj.dnsPolicy : obj \in Submissions} \cup {"ClusterFirst", "None"},
     dnsConfig : {obj.dnsConfig : obj \in Submissions} \cup {<<>>}
                     \cup {<<ip>> : ip \in ServiceIPs}]

ASSUME WebhookAssumption ==
    /\ Submissions \subseteq DeploymentObjects
    /\ OtherKinds \subseteq {"empty", "not JSON", "no review", "no request", "no deployment"}
    /\ ServiceIPs \cap {"", "None", "absent"} = {}

VARIABLES
    stored,     \* Deployments in the API server
    service,    \* spec.clusterIP of the DNS service, or "absent"
    review,     \* admission calls
    process,    \* "up", "stopping", "exited" or "fatal"
    spent       \* how much of each bound is used up

clusterState == <<stored, service, review, spent>>
webhookVars == <<serverVars, clusterState, process>>

\* A Deployment with no annotation and no DNS settings; one that was not
\* created yet looks the same.
PlainDeployment ==
    [Annotations |-> EmptyMap, HostNetwork |-> FALSE,
     dnsPolicy |-> "ClusterFirst", dnsConfig |-> <<>>]

NoPatch == [op |-> "none", dnsConfig |-> <<>>, dnsPolicy |-> "None"]

Allowed(patch) == [status |-> 200, allowed |-> TRUE, patch |-> patch]
Denied == [status |-> 200, allowed |-> FALSE, patch |-> NoPatch]
BadRequest == [status |-> 400, allowed |-> FALSE, patch |-> NoPatch]

\* An admission call: how far it is, whether the API server still waits for it,
\* what it is about, and the addresses the DNS service has had since.
NoReview ==
    [state |-> "none", waiting |-> FALSE, kind |-> "review", name |-> NoName,
     object |-> PlainDeployment, answer |-> Denied, addresses |-> {}]

WebhookInit ==
    /\ NewHTTPServer
    /\ process = "up"
    /\ stored = [d \in Deployments |-> PlainDeployment]
    /\ service \in Addresses
    /\ review = [u \in Reviews |-> NoReview]
    /\ spent = [service |-> 0, submit |-> 0, fail |-> 0, stop |-> 0]

Spend(what, bound) ==
    /\ spent[what] < bound
    /\ spent' = [spent EXCEPT ![what] = @ + 1]

Running == process \in {"up", "stopping"}

-----------------------------------------------------------------------------
(* mutation.go.                                                            *)

dashDnsAnnotation == "dasdns.io/watch"

\* A test that ignores the value of the annotation.
shouldAdjustAnyValue(deployment) == dashDnsAnnotation \in DOMAIN deployment.Annotations

shouldAdjustDnsConfig(deployment) ==
    /\ dashDnsAnnotation \in DOMAIN deployment.Annotations
    /\ deployment.Annotations[dashDnsAnnotation] = "true"

\* Two "add" operations, which replace what is there.  The search list is the
\* same for every Deployment.
createPatch(ip) == [op |-> "add", dnsConfig |-> <<ip>>, dnsPolicy |-> "None"]

-----------------------------------------------------------------------------
(* server.go.                                                              *)

Answer(u, answer) ==
    review' = [review EXCEPT ![u] =
                  [@ EXCEPT !.state = "answered", !.answer = answer]]

\* ServeHTTP and mutate up to the lookup of the service: requests that are not
\* a review of a Deployment (an empty body, another content type, a body or an
\* object that cannot be decoded) get an error, Deployments that are not watched
\* are admitted as they are.
ServeHTTP(u) ==
    /\ Running /\ u \in active
    /\ review[u].state = "sent"
    /\ review[u].kind # "no request"
    /\ CASE review[u].kind \in {"empty", "not JSON"} -> Answer(u, BadRequest)
         [] review[u].kind \in {"no review", "no deployment"} -> Answer(u, Denied)
         [] ~shouldAdjustDnsConfig(review[u].object) -> Answer(u, Allowed(NoPatch))
         [] OTHER -> review' = [review EXCEPT ![u].state = "lookup"]
    /\ UNCHANGED <<serverVars, stored, service, spent, process>>

\* mutate reads the request of a review that has none and panics; net/http
\* recovers and closes the connection.
mutatePanics(u) ==
    /\ Running
    /\ review[u].state = "sent"
    /\ review[u].kind = "no request"
    /\ Answers(u)
    /\ review' = [review EXCEPT ![u] = NoReview]
    /\ UNCHANGED <<stored, service, spent, process>>

\* The rest of mutate, once the address is known.
mutateWith(u, ip) ==
    Answer(u, IF review[u].object.HostNetwork THEN Denied ELSE Allowed(createPatch(ip)))

\* getDNSServiceIP that accepts any address the service reports.
getDNSServiceIPUnchecked(u) ==
    /\ Running /\ u \in active
    /\ review[u].state = "lookup"
    /\ IF service = "absent" THEN Answer(u, Denied) ELSE mutateWith(u, service)
    /\ UNCHANGED <<serverVars, stored, service, spent, process>>

\* getDNSServiceIP with a fixed address.
getDNSServiceIPFixed(u) ==
    /\ Running /\ u \in active
    /\ review[u].state = "lookup"
    /\ mutateWith(u, CHOOSE ip \in ServiceIPs : TRUE)
    /\ UNCHANGED <<serverVars, stored, service, spent, process>>

\* getDNSServiceIP finds the service, or no usable address.
getDNSServiceIP(u) ==
    /\ Running /\ u \in active
    /\ review[u].state = "lookup"
    /\ IF service \in {"absent", "", "None"} THEN Answer(u, Denied) ELSE mutateWith(u, service)
    /\ UNCHANGED <<serverVars, stored, service, spent, process>>

\* The lookup fails.
LookupFails(u) ==
    /\ Running /\ u \in active
    /\ review[u].state = "lookup"
    /\ Spend("fail", MaxFailures)
    /\ Answer(u, Denied)
    /\ UNCHANGED <<serverVars, stored, service, process>>
-----------------------------------------------------------------------------
(* The API server and its users (not part of this repository).             *)

Request(u, kind, d, obj) ==
    /\ Running
    /\ Accepts(u)
    /\ review' = [review EXCEPT ![u] =
           [NoReview EXCEPT !.state = "sent", !.waiting = TRUE, !.kind = kind,
                            !.name = d, !.object = obj, !.addresses = {service}]]
    /\ UNCHANGED <<stored, service, process>>

\* A Deployment is created, replaced, or written again as it is stored.
Submit(u, d) ==
    /\ Spend("submit", MaxSubmissions)
    /\ \E obj \in Submissions \cup {stored[d]} : Request(u, "review", d, obj)

OtherRequest(u) ==
    /\ UNCHANGED spent
    /\ \E kind \in OtherKinds : Request(u, kind, NoName, PlainDeployment)

\* A JSON patch: the members it adds replace those that are there.
Patched(obj, patch) ==
    IF patch.op = "none" THEN obj
    ELSE [obj EXCEPT !.dnsConfig = patch.dnsConfig, !.dnsPolicy = patch.dnsPolicy]

\* The answer arrives.  An admitted Deployment is stored as patched, unless the
\* API server no longer waits for the answer.
Decide(u) ==
    /\ Running
    /\ review[u].state = "answered"
    /\ Answers(u)
    /\ stored' = IF review[u].waiting /\ review[u].kind = "review" /\ review[u].answer.allowed
                 THEN [stored EXCEPT ![review[u].name] =
                          Patched(review[u].object, review[u].answer.patch)]
                 ELSE stored
    /\ review' = [review EXCEPT ![u] = NoReview]
    /\ UNCHANGED <<service, spent, process>>

\* The call takes too long and the submission is rejected (failurePolicy Fail,
\* the default).  The handler goes on.
GiveUp(u) ==
    /\ review[u].waiting
    /\ Spend("fail", MaxFailures)
    /\ review' = [review EXCEPT ![u].waiting = FALSE]
    /\ UNCHANGED <<serverVars, stored, service, process>>

ServiceChanges ==
    /\ Spend("service", MaxServiceChanges)
    /\ \E address \in Addresses \ {service} :
          /\ service' = address
          /\ review' = [u \in Reviews |->
                 IF review[u].state = "none" THEN review[u]
                 ELSE [review[u] EXCEPT !.addresses = @ \cup {address}]]
    /\ UNCHANGED <<serverVars, stored, process>>

-----------------------------------------------------------------------------
(* main.go.                                                                *)

ServerListens ==
    /\ Running
    /\ Listens
    /\ UNCHANGED <<clusterState, process>>

\* A failure of ListenAndServeTLS that is only logged.
StartFailureLogged ==
    /\ Running
    /\ Spend("fail", MaxFailures)
    /\ ListenError
    /\ UNCHANGED <<stored, service, review, process>>

\* No client for the cluster, no certificate, no port, or later no further
\* connection can be accepted: log.Fatalf.
StartFails ==
    /\ Running
    /\ Spend("fail", MaxFailures)
    /\ ListenError
    /\ process' = "fatal"
    /\ UNCHANGED <<stored, service, review>>

Signal ==
    /\ process = "up"
    /\ Spend("stop", MaxStops)
    /\ process' = "stopping"
    /\ UNCHANGED <<serverVars, stored, service, review>>

\* A main that ends with the signal.
EndsAtOnce ==
    /\ process = "stopping"
    /\ process' = "exited"
    /\ UNCHANGED <<serverVars, clusterState>>

\* Shutdown, and the end of main: after a deadline with log.Fatalf.
ShutsDown ==
    /\ process = "stopping"
    /\ \/ ShutdownBegins /\ UNCHANGED process
       \/ ShutdownEnds /\ process' = "exited"
       \/ ShutdownExpires /\ process' = "fatal"
    /\ UNCHANGED clusterState

\* The container is started again.  Its open calls failed, which rejects them.
StartAgain ==
    /\ ~Running
    /\ process' = "up"
    /\ listener' = "new" /\ active' = {} /\ shutdown' = "no"
    /\ review' = [u \in Reviews |-> NoReview]
    /\ UNCHANGED <<stored, service, spent>>

WebhookNext ==
    \/ \E u \in Reviews :
          \/ \E d \in Deployments : Submit(u, d)
          \/ OtherRequest(u)
          \/ ServeHTTP(u)
          \/ mutatePanics(u)
          \/ getDNSServiceIP(u)
          \/ LookupFails(u)
          \/ Decide(u)
          \/ GiveUp(u)
    \/ ServiceChanges
    \/ ServerListens
    \/ StartFails
    \/ Signal
    \/ ShutsDown
    \/ StartAgain

WebhookSafety == WebhookInit /\ [][WebhookNext]_webhookVars

\* The process runs and is restarted; nothing is assumed of the cluster.
WebhookSpec ==
    /\ WebhookSafety
    /\ WF_webhookVars(ServerListens)
    /\ WF_webhookVars(ShutsDown)
    /\ WF_webhookVars(StartAgain)
-----------------------------------------------------------------------------
(* Properties.                                                             *)

Patches == {NoPatch} \cup {createPatch(ip) : ip \in ServiceIPs}

AnswerRecords == [status : {200, 400}, allowed : BOOLEAN, patch : Patches]

ReviewRecords ==
    [state : {"none", "sent", "lookup", "answered"}, waiting : BOOLEAN,
     kind : {"review"} \cup OtherKinds, name : Deployments \cup {NoName},
     object : DeploymentObjects, answer : AnswerRecords,
     addresses : SUBSET Addresses]

\* Every variable holds values of its type; no answer ever carries a patch
\* with anything but an address the DNS service can have.
WebhookTypeOK ==
    /\ service \in Addresses
    /\ stored \in [Deployments -> DeploymentObjects]
    /\ review \in [Reviews -> ReviewRecords]
    /\ process \in {"up", "stopping", "exited", "fatal"}
    /\ active \subseteq Reviews

Annotated(deployment, key) ==
    key \in DOMAIN deployment.Annotations /\ deployment.Annotations[key] = "true"

Redirected(deployment) ==
    /\ deployment.dnsPolicy = "None"
    /\ \E ip \in ServiceIPs : deployment.dnsConfig = <<ip>>
    /\ ~deployment.HostNetwork

\* No watched Deployment gets around the redirection: whatever mutate met (no
\* service, one without an address, failed lookups, host networking, answers
\* that came too late, restarts), one that is stored points at an address of
\* the DNS service and nowhere else.
WatchedRedirected ==
    \A d \in Deployments :
        Annotated(stored[d], "dasdns.io/watch") => Redirected(stored[d])

\* The address is looked up for each Deployment: one that is stored points at
\* an address the service had while this Deployment was under review.
AddressLookedUp ==
    [][\A d \in Deployments :
           stored'[d] # stored[d] /\ Annotated(stored'[d], "dasdns.io/watch") =>
               \E u \in Reviews : \E ip \in review[u].addresses :
                   review[u].name = d /\ stored'[d].dnsConfig = <<ip>>]_webhookVars

\* Deployments that are not watched are stored as they were submitted, DNS
\* settings of their own included, also when the annotation is there with
\* another value.
OthersUntouched ==
    [][\A d \in Deployments :
           stored'[d] # stored[d] /\ ~Annotated(stored'[d], "dasdns.io/watch") =>
               \E u \in Reviews :
                   review[u].name = d /\ stored'[d] = review[u].object]_webhookVars

\* main ends regularly only when no call it accepted is open: no
\* connection is open, and no admission call is left in the handler or on its
\* way back to the API server.
CallsAnswered ==
    process = "exited" => active = {} /\ \A u \in Reviews : review[u].state = "none"

\* The webhook does not linger without serving: it listens, or the process
\* ends and the container is started again.
ServesOrEnds == process = "up" ~> listener = "open" \/ process # "up"

\* README, section Webhook: "Deployment is created with dashdns.io/watch:
\* "true" annotation" and "DNS configuration is injected into pod spec".
DocumentedAnnotationWorks ==
    \A d \in Deployments :
        Annotated(stored[d], "dashdns.io/watch") => Redirected(stored[d])
=============================================================================
