---------------------------- MODULE WebhookProofs ----------------------------
(***************************************************************************)
(* What the webhook promises about stored Deployments, for any number of   *)
(* Deployments, admission calls, service addresses, failures and restarts. *)
(***************************************************************************)
EXTENDS Webhook, TLAPS

Watched(deployment) == Annotated(deployment, "dasdns.io/watch")

\* What is known of an admission call on its way through the handler: only
\* watched Deployments reach the lookup, and an answer that admits one carries
\* the patch with an address the service has had since the call came in.  The
\* address the service has now is current.
ReviewInv(r, current) ==
    /\ r.state # "none" => current \in r.addresses
    /\ r.state = "lookup" => Watched(r.object)
    /\ r.state = "answered" /\ r.answer.allowed =>
           IF Watched(r.object)
           THEN /\ ~r.object.HostNetwork
                /\ \E ip \in ServiceIPs \cap r.addresses : r.answer.patch = createPatch(ip)
           ELSE r.answer.patch = NoPatch

WebhookInv ==
    /\ WebhookTypeOK
    /\ \A u \in Reviews : ReviewInv(review[u], service)
    /\ WatchedRedirected

\* A call that is not under way satisfies what is known of calls.
LEMMA NoReviewInv ==
    NoReview \in ReviewRecords /\ \A current : ReviewInv(NoReview, current)
<1>1. PlainDeployment \in DeploymentObjects
  BY DEF PlainDeployment, DeploymentObjects
<1>2. Denied \in AnswerRecords
  BY DEF Denied, Patches, AnswerRecords
<1> QED  BY <1>1, <1>2 DEF ReviewInv, NoReview, ReviewRecords

\* Applying the patch of an answer that admits a Deployment: a watched one is
\* redirected, another one is stored as it was submitted.
LEMMA PatchedRight ==
    ASSUME NEW r \in ReviewRecords, NEW current, ReviewInv(r, current),
           r.state = "answered", r.answer.allowed
    PROVE  LET obj == Patched(r.object, r.answer.patch)
           IN  /\ obj \in DeploymentObjects
               /\ obj.Annotations = r.object.Annotations
               /\ Watched(r.object) =>
                      /\ Redirected(obj)
                      /\ \E ip \in r.addresses : obj.dnsConfig = <<ip>>
               /\ ~Watched(r.object) => obj = r.object
<1>1. r.object \in DeploymentObjects
  BY DEF ReviewRecords
<1>2. CASE ~Watched(r.object)
  BY <1>1, <1>2 DEF ReviewInv, Patched, NoPatch
<1>3. CASE Watched(r.object)
  <2>1. PICK ip \in ServiceIPs \cap r.addresses : r.answer.patch = createPatch(ip)
    BY <1>3 DEF ReviewInv
  <2>2. ~r.object.HostNetwork
    BY <1>3 DEF ReviewInv
  <2>3. Patched(r.object, r.answer.patch) =
            [r.object EXCEPT !.dnsConfig = <<ip>>, !.dnsPolicy = "None"]
    BY <2>1 DEF Patched, createPatch
  <2> DEFINE obj == [r.object EXCEPT !.dnsConfig = <<ip>>, !.dnsPolicy = "None"]
  <2>4. obj \in DeploymentObjects
    BY <1>1 DEF DeploymentObjects
  <2>5. /\ obj.Annotations = r.object.Annotations
        /\ obj.HostNetwork = r.object.HostNetwork
        /\ obj.dnsConfig = <<ip>> /\ obj.dnsPolicy = "None"
    BY <1>1 DEF DeploymentObjects
  <2> HIDE DEF obj
  <2> QED  BY <1>3, <2>2, <2>3, <2>4, <2>5 DEF Redirected, obj
<1> QED  BY <1>2, <1>3

\* What replacing one call, the rest being left alone, must show.
LEMMA OneReviewChanged ==
    ASSUME WebhookInv, NEW u \in Reviews, NEW s \in ReviewRecords,
           ReviewInv(s, service), review' = [review EXCEPT ![u] = s],
           UNCHANGED <<stored, service>>, process' \in {"up", "stopping", "exited", "fatal"},
           active' \subseteq Reviews
    PROVE  WebhookInv'
<1>1. review' \in [Reviews -> ReviewRecords]
  BY DEF WebhookInv, WebhookTypeOK
<1>2. \A v \in Reviews : ReviewInv(review'[v], service)
  BY DEF WebhookInv, WebhookTypeOK
<1> QED  BY <1>1, <1>2 DEF WebhookInv, WebhookTypeOK, WatchedRedirected

\* The answers without a patch: an error, a denial, and a Deployment admitted
\* as it is.
LEMMA PlainAnswers ==
    /\ BadRequest \in AnswerRecords /\ ~BadRequest.allowed
    /\ Denied \in AnswerRecords /\ ~Denied.allowed
    /\ Allowed(NoPatch) \in AnswerRecords /\ Allowed(NoPatch).patch = NoPatch
<1>1. NoPatch \in Patches
  BY DEF Patches
<1> QED  BY <1>1 DEF BadRequest, Denied, Allowed, AnswerRecords

\* A denial, an unwatched Deployment admitted unpatched, and a watched one
\* admitted with the address the service has now, all keep the invariant.
LEMMA AnsweredInv ==
    ASSUME WebhookInv, NEW u \in Reviews,
           NEW answer \in AnswerRecords,
           Answer(u, answer), review[u].state # "none",
           UNCHANGED <<stored, service, process, active>>,
           answer.allowed =>
               IF Watched(review[u].object)
               THEN /\ ~review[u].object.HostNetwork
                    /\ service \in ServiceIPs
                    /\ answer.patch = createPatch(service)
               ELSE answer.patch = NoPatch
    PROVE  WebhookInv'
<1> DEFINE r == review[u]
           s == [r EXCEPT !.state = "answered", !.answer = answer]
<1>1. r \in ReviewRecords /\ ReviewInv(r, service)
  BY DEF WebhookInv, WebhookTypeOK
<1>2. review' = [review EXCEPT ![u] = s]
  BY DEF Answer, WebhookInv, WebhookTypeOK
<1>3. /\ s \in ReviewRecords
      /\ s.state = "answered" /\ s.answer = answer
      /\ s.object = r.object /\ s.addresses = r.addresses
  BY <1>1 DEF ReviewRecords
<1>4. ReviewInv(s, service)
  BY <1>1, <1>3 DEF ReviewInv
<1> HIDE DEF s
<1> QED
  BY <1>2, <1>3, <1>4, OneReviewChanged DEF WebhookInv, WebhookTypeOK

\* The webhook starts with nothing stored that is watched and no call open.
LEMMA WebhookInvInit == WebhookInit => WebhookInv
<1> SUFFICES ASSUME WebhookInit PROVE WebhookInv
  OBVIOUS
<1>1. ~Annotated(PlainDeployment, "dasdns.io/watch")
  BY DEF Annotated, PlainDeployment, EmptyMap
<1>2. PlainDeployment \in DeploymentObjects
  BY DEF PlainDeployment, DeploymentObjects
<1>3. \A u \in Reviews : ReviewInv(review[u], service)
  BY NoReviewInv DEF WebhookInit
<1>4. WebhookTypeOK
  BY <1>2, NoReviewInv DEF WebhookInit, WebhookTypeOK, NewHTTPServer
<1> QED  BY <1>1, <1>3, <1>4 DEF WebhookInit, WebhookInv, WatchedRedirected

\* Steps of main and of the HTTP server change no call and no Deployment.
LEMMA ProcessSteps ==
    ASSUME WebhookInv,
           ServerListens \/ StartFails \/ Signal \/ ShutsDown \/ UNCHANGED webhookVars
    PROVE  WebhookInv'
<1>1. UNCHANGED <<stored, service, review>>
  BY DEF ServerListens, StartFails, Signal, ShutsDown, webhookVars, clusterState
<1>2. UNCHANGED active
  BY DEF ServerListens, StartFails, Signal, ShutsDown, webhookVars, serverVars,
         Listens, ListenError, ShutdownBegins, ShutdownEnds, ShutdownExpires
<1>3. process' \in {process, "fatal", "stopping", "exited"}
  BY DEF ServerListens, StartFails, Signal, ShutsDown, webhookVars
<1> QED  BY <1>1, <1>2, <1>3 DEF WebhookInv, WebhookTypeOK, WatchedRedirected

\* Every step of WebhookNext keeps the invariant.
LEMMA WebhookInvNext == WebhookInv /\ [WebhookNext]_webhookVars => WebhookInv'
<1> SUFFICES ASSUME WebhookInv, [WebhookNext]_webhookVars PROVE WebhookInv'
  OBVIOUS
<1>0. WebhookTypeOK
  BY DEF WebhookInv
<1>1. ASSUME NEW u \in Reviews, NEW kind \in {"review"} \cup OtherKinds,
             NEW d \in Deployments \cup {NoName}, NEW obj \in DeploymentObjects,
             Request(u, kind, d, obj)
      PROVE  WebhookInv'
  <2> DEFINE s == [NoReview EXCEPT !.state = "sent", !.waiting = TRUE, !.kind = kind,
                                   !.name = d, !.object = obj, !.addresses = {service}]
  <2>1. review' = [review EXCEPT ![u] = s]
    BY <1>1 DEF Request
  <2>2. s \in ReviewRecords /\ s.state = "sent" /\ s.addresses = {service}
    <3>1. {service} \in SUBSET Addresses
      BY <1>0 DEF WebhookTypeOK
    <3> DEFINE now == {service}
    <3> HIDE DEF now
    <3>2. now \in SUBSET Addresses
      BY <3>1 DEF now
    <3>3. LET t == [NoReview EXCEPT !.state = "sent", !.waiting = TRUE, !.kind = kind,
                                    !.name = d, !.object = obj, !.addresses = now]
          IN  t \in ReviewRecords /\ t.state = "sent" /\ t.addresses = now
      BY <3>2, NoReviewInv DEF ReviewRecords
    <3> QED  BY <3>3 DEF now
  <2>3. ReviewInv(s, service)
    BY <2>2 DEF ReviewInv
  <2> HIDE DEF s
  <2>4. UNCHANGED <<stored, service, process>> /\ active' \subseteq Reviews
    BY <1>0, <1>1 DEF Request, Accepts, WebhookTypeOK
  <2> QED  BY <1>0, <2>1, <2>2, <2>3, <2>4, OneReviewChanged DEF WebhookTypeOK
<1>2. ASSUME NEW u \in Reviews, NEW d \in Deployments, Submit(u, d)
      PROVE  WebhookInv'
  <2>1. PICK obj \in Submissions \cup {stored[d]} : Request(u, "review", d, obj)
    BY <1>2 DEF Submit
  <2>2. obj \in DeploymentObjects
    BY <1>0, WebhookAssumption DEF WebhookTypeOK
  <2> QED  BY <1>1, <2>1, <2>2
<1>3. ASSUME NEW u \in Reviews, OtherRequest(u) PROVE WebhookInv'
  <2>1. PlainDeployment \in DeploymentObjects
    BY DEF DeploymentObjects, PlainDeployment
  <2>2. PICK kind \in OtherKinds : Request(u, kind, NoName, PlainDeployment)
    BY <1>3 DEF OtherRequest
  <2> QED  BY <1>1, <2>1, <2>2
<1>4. ASSUME NEW u \in Reviews, ServeHTTP(u) PROVE WebhookInv'
  <2>1. UNCHANGED <<stored, service, process, active>> /\ review[u].state = "sent"
    BY <1>4 DEF ServeHTTP, serverVars
  <2>2. CASE Answer(u, BadRequest)
    BY <2>1, <2>2, AnsweredInv, PlainAnswers, Zenon
  <2>3. CASE Answer(u, Denied)
    BY <2>1, <2>3, AnsweredInv, PlainAnswers, Zenon
  <2>4. CASE ~shouldAdjustDnsConfig(review[u].object) /\ Answer(u, Allowed(NoPatch))
    <3>1. ~Watched(review[u].object)
      BY <2>4 DEF shouldAdjustDnsConfig, dashDnsAnnotation, Watched, Annotated
    <3> QED  BY <2>1, <2>4, <3>1, AnsweredInv, PlainAnswers, Zenon
  <2>5. CASE /\ shouldAdjustDnsConfig(review[u].object)
             /\ review' = [review EXCEPT ![u].state = "lookup"]
    <3>1. Watched(review[u].object)
      BY <2>5 DEF shouldAdjustDnsConfig, dashDnsAnnotation, Watched, Annotated
    <3> DEFINE r == review[u]
               s == [r EXCEPT !.state = "lookup"]
    <3>2. r \in ReviewRecords /\ ReviewInv(r, service)
      BY DEF WebhookInv, WebhookTypeOK
    <3>3. review' = [review EXCEPT ![u] = s]
      BY <2>5
    <3>4. /\ s \in ReviewRecords /\ s.state = "lookup"
          /\ s.object = r.object /\ s.addresses = r.addresses
      BY <3>2 DEF ReviewRecords
    <3>5. ReviewInv(s, service)
      BY <2>1, <3>1, <3>2, <3>4 DEF ReviewInv
    <3> HIDE DEF s
    <3> QED  BY <1>0, <2>1, <3>3, <3>4, <3>5, OneReviewChanged DEF WebhookTypeOK
  <2> QED  BY <1>4, <2>2, <2>3, <2>4, <2>5 DEF ServeHTTP
<1>5. ASSUME NEW u \in Reviews, getDNSServiceIP(u) PROVE WebhookInv'
  <2>1. UNCHANGED <<stored, service, process, active>> /\ review[u].state = "lookup"
    BY <1>5 DEF getDNSServiceIP, serverVars
  <2>2. Watched(review[u].object)
    BY <2>1 DEF WebhookInv, ReviewInv
  <2>3. CASE Answer(u, Denied)
    BY <2>1, <2>3, AnsweredInv, PlainAnswers, Zenon
  <2>4. CASE /\ service \notin {"absent", "", "None"}
             /\ ~review[u].object.HostNetwork
             /\ Answer(u, Allowed(createPatch(service)))
    <3>1. service \in ServiceIPs
      BY <1>0, <2>4 DEF WebhookTypeOK, Addresses
    <3>2. /\ Allowed(createPatch(service)).patch = createPatch(service)
          /\ Allowed(createPatch(service)) \in
                 AnswerRecords
      BY <3>1 DEF Allowed, Patches, AnswerRecords
    <3> QED  BY <2>1, <2>2, <2>4, <3>1, <3>2, AnsweredInv
  <2> QED  BY <1>5, <2>3, <2>4 DEF getDNSServiceIP, mutateWith
<1>6. ASSUME NEW u \in Reviews, LookupFails(u) PROVE WebhookInv'
  <2>1. /\ UNCHANGED <<stored, service, process, active>> /\ review[u].state = "lookup"
        /\ Answer(u, Denied)
    BY <1>6 DEF LookupFails, serverVars
  <2> QED  BY <2>1, AnsweredInv, PlainAnswers, Zenon
<1>7. ASSUME NEW u \in Reviews, Decide(u) PROVE WebhookInv'
  <2>1. /\ review' = [review EXCEPT ![u] = NoReview]
        /\ UNCHANGED <<service, process>> /\ active' \subseteq Reviews
    BY <1>0, <1>7 DEF Decide, Answers, WebhookTypeOK
  <2>2. CASE UNCHANGED stored
    BY <1>0, <2>1, <2>2, NoReviewInv, OneReviewChanged DEF WebhookTypeOK
  <2>3. CASE /\ review[u].answer.allowed
             /\ stored' = [stored EXCEPT ![review[u].name] =
                              Patched(review[u].object, review[u].answer.patch)]
    <3> DEFINE obj == Patched(review[u].object, review[u].answer.patch)
    <3>1. /\ review[u].state = "answered" /\ ReviewInv(review[u], service)
          /\ review[u] \in ReviewRecords
      BY <1>7 DEF Decide, WebhookInv, WebhookTypeOK
    <3>2. /\ obj \in DeploymentObjects
          /\ obj.Annotations = review[u].object.Annotations
          /\ Watched(review[u].object) => Redirected(obj)
      BY <2>3, <3>1, PatchedRight
    <3>3. stored' = [stored EXCEPT ![review[u].name] = obj]
      BY <2>3
    <3> HIDE DEF obj
    <3>4. Annotated(obj, "dasdns.io/watch") => Redirected(obj)
      BY <3>2 DEF Annotated, Watched
    <3>5. /\ stored' \in [Deployments -> DeploymentObjects]
          /\ \A d \in Deployments : stored'[d] \in {stored[d], obj}
      BY <1>0, <3>2, <3>3 DEF WebhookTypeOK
    <3>6. WatchedRedirected'
      BY <3>4, <3>5 DEF WebhookInv, WatchedRedirected
    <3>7. /\ review' \in [Reviews -> ReviewRecords]
          /\ \A v \in Reviews : ReviewInv(review'[v], service')
      BY <2>1, NoReviewInv DEF WebhookInv, WebhookTypeOK
    <3> QED  BY <1>0, <2>1, <3>5, <3>6, <3>7 DEF WebhookInv, WebhookTypeOK
  <2> QED  BY <1>7, <2>2, <2>3 DEF Decide
<1>8. ASSUME NEW u \in Reviews, GiveUp(u) PROVE WebhookInv'
  <2> DEFINE r == review[u]
             s == [r EXCEPT !.waiting = FALSE]
  <2>1. r \in ReviewRecords /\ ReviewInv(r, service)
    BY DEF WebhookInv, WebhookTypeOK
  <2>2. /\ review' = [review EXCEPT ![u] = s]
        /\ UNCHANGED <<stored, service, process, active>>
    BY <1>8 DEF GiveUp, serverVars
  <2>3. /\ s \in ReviewRecords /\ s.state = r.state /\ s.answer = r.answer
        /\ s.object = r.object /\ s.addresses = r.addresses
    BY <2>1 DEF ReviewRecords
  <2>4. ReviewInv(s, service)
    BY <2>1, <2>3 DEF ReviewInv
  <2> HIDE DEF s
  <2> QED  BY <1>0, <2>2, <2>3, <2>4, OneReviewChanged DEF WebhookTypeOK
<1>9. ASSUME ServiceChanges PROVE WebhookInv'
  <2>1. PICK address \in Addresses \ {service} :
            /\ service' = address
            /\ review' = [u \in Reviews |->
                   IF review[u].state = "none" THEN review[u]
                   ELSE [review[u] EXCEPT !.addresses = @ \cup {address}]]
    BY <1>9 DEF ServiceChanges
  <2>2. ASSUME NEW u \in Reviews
        PROVE  review'[u] \in ReviewRecords /\ ReviewInv(review'[u], address)
    <3> DEFINE r == review[u]
               s == [r EXCEPT !.addresses = r.addresses \cup {address}]
    <3>1. r \in ReviewRecords /\ ReviewInv(r, service)
      BY DEF WebhookInv, WebhookTypeOK
    <3>2. CASE r.state = "none"
      <4>1. review'[u] = r
        BY <2>1, <3>2
      <4> QED  BY <3>1, <3>2, <4>1 DEF ReviewInv
    <3>3. CASE r.state # "none"
      <4>1. review'[u] = s
        BY <2>1, <3>3
      <4>2. /\ s \in ReviewRecords /\ s.state = r.state /\ s.answer = r.answer
            /\ s.object = r.object /\ s.addresses = r.addresses \cup {address}
        BY <3>1 DEF ReviewRecords
      <4> HIDE DEF s
      <4>3. ReviewInv(s, address)
        BY <3>1, <4>2 DEF ReviewInv
      <4> QED  BY <4>1, <4>2, <4>3
    <3> QED  BY <3>2, <3>3
  <2>3. UNCHANGED <<stored, process, active>>
    BY <1>9 DEF ServiceChanges, serverVars
  <2>4. review' \in [Reviews -> ReviewRecords]
    BY <2>1, <2>2
  <2> QED
    BY <1>0, <2>1, <2>2, <2>3, <2>4 DEF WebhookInv, WebhookTypeOK, WatchedRedirected
<1>10. ASSUME StartAgain PROVE WebhookInv'
  BY <1>0, <1>10, NoReviewInv DEF StartAgain, WebhookInv, WebhookTypeOK, WatchedRedirected
<1>11. ASSUME NEW u \in Reviews, mutatePanics(u) PROVE WebhookInv'
  <2>1. /\ review' = [review EXCEPT ![u] = NoReview]
        /\ UNCHANGED <<stored, service, process>> /\ active' \subseteq Reviews
    BY <1>0, <1>11 DEF mutatePanics, Answers, WebhookTypeOK
  <2> QED  BY <1>0, <2>1, NoReviewInv, OneReviewChanged DEF WebhookTypeOK
<1> QED
  BY <1>2, <1>3, <1>4, <1>5, <1>6, <1>7, <1>8, <1>9, <1>10, <1>11, ProcessSteps DEF WebhookNext

-----------------------------------------------------------------------------

\* The invariant holds in every state of the webhook.
LEMMA WebhookInvariant == WebhookSafety => []WebhookInv
BY WebhookInvInit, WebhookInvNext, PTL DEF WebhookSafety

\* No watched Deployment gets around the redirection: mutate admits it with
\* the patch or not at all, whatever the service, its lookup and the API
\* server's patience do.
THEOREM WatchedAlwaysRedirected == WebhookSafety => []WatchedRedirected
<1>1. WebhookInv => WatchedRedirected
  BY DEF WebhookInv
<1> QED  BY <1>1, WebhookInvariant, PTL

\* ServeHTTP, mutate and the API server only ever make values of their types;
\* in particular an answer's patch is none, or createPatch of an address the
\* service can have: "", "None" and "absent" never get into one.
THEOREM WebhookTypesCorrect == WebhookSafety => []WebhookTypeOK
<1>1. WebhookInv => WebhookTypeOK
  BY DEF WebhookInv
<1> QED  BY <1>1, WebhookInvariant, PTL

\* An admission call that is under way has its connection open, and the
\* process does not end regularly before the last connection is closed.
CallsInv ==
    /\ \A u \in Reviews : review[u].state # "none" => u \in active
    /\ process = "exited" => active = {}

\* What the steps of the calls and of main do to open connections: only a
\* running process accepts one, an answer closes it, Shutdown waits for it.
LEMMA CallsInvNext ==
    WebhookTypeOK /\ CallsInv /\ [WebhookNext]_webhookVars => CallsInv'
<1> SUFFICES ASSUME WebhookTypeOK, CallsInv, [WebhookNext]_webhookVars PROVE CallsInv'
  OBVIOUS
<1> USE DEF CallsInv, WebhookTypeOK
<1>1. ASSUME NEW u \in Reviews, NEW kind, NEW d, NEW obj, Request(u, kind, d, obj)
      PROVE  CallsInv'
  BY <1>1 DEF Request, Accepts, Running
<1>2. ASSUME NEW u \in Reviews, ServeHTTP(u) PROVE CallsInv'
  BY <1>2 DEF ServeHTTP, Answer, serverVars
<1>3. ASSUME NEW u \in Reviews, getDNSServiceIP(u) PROVE CallsInv'
  BY <1>3 DEF getDNSServiceIP, mutateWith, Answer, serverVars
<1>4. ASSUME NEW u \in Reviews, LookupFails(u) PROVE CallsInv'
  BY <1>4 DEF LookupFails, Answer, serverVars
<1>5. ASSUME NEW u \in Reviews, Decide(u) PROVE CallsInv'
  BY <1>5 DEF Decide, Answers, NoReview, Running
<1>6. ASSUME NEW u \in Reviews, GiveUp(u) PROVE CallsInv'
  BY <1>6 DEF GiveUp, serverVars, ReviewRecords
<1>7. CASE ServiceChanges
  BY <1>7 DEF ServiceChanges, serverVars, ReviewRecords
<1>8. CASE ServerListens
  BY <1>8 DEF ServerListens, Listens, clusterState
<1>9. CASE StartFails
  BY <1>9 DEF StartFails, ListenError
<1>10. CASE Signal
  BY <1>10 DEF Signal, serverVars
<1>11. CASE ShutsDown
  BY <1>11 DEF ShutsDown, ShutdownBegins, ShutdownEnds, ShutdownExpires, clusterState
<1>12. CASE StartAgain
  BY <1>12 DEF StartAgain, NoReview
<1>13. CASE UNCHANGED webhookVars
  BY <1>13 DEF webhookVars, serverVars, clusterState
<1>14. ASSUME NEW u \in Reviews, mutatePanics(u) PROVE CallsInv'
  BY <1>14 DEF mutatePanics, Answers, NoReview, Running
<1> QED
  BY <1>1, <1>2, <1>3, <1>4, <1>5, <1>6, <1>7, <1>8, <1>9, <1>10, <1>11, <1>12, <1>13, <1>14
     DEF WebhookNext, Submit, OtherRequest

\* Shutdown lets every admission call finish: when main ends regularly, no call
\* that was accepted is open.
THEOREM CallsAlwaysAnswered == WebhookSafety => []CallsAnswered
<1>1. WebhookInit => CallsInv
  BY DEF WebhookInit, NewHTTPServer, CallsInv, NoReview
<1>2. WebhookInv => WebhookTypeOK
  BY DEF WebhookInv
<1>3. CallsInv => CallsAnswered
  BY DEF CallsInv, CallsAnswered
<1> QED  BY <1>1, <1>2, <1>3, CallsInvNext, WebhookInvariant, PTL DEF WebhookSafety

\* A change of what is stored is an answer of the webhook arriving.
LEMMA StoredByDecide ==
    ASSUME WebhookInv, [WebhookNext]_webhookVars, NEW d \in Deployments,
           stored'[d] # stored[d]
    PROVE  \E u \in Reviews :
               /\ review[u].state = "answered" /\ review[u].answer.allowed
               /\ review[u].name = d
               /\ stored'[d] = Patched(review[u].object, review[u].answer.patch)
<1>1. PICK u \in Reviews : Decide(u)
  BY Zenon DEF WebhookNext, webhookVars, clusterState, Submit, OtherRequest, Request, ServeHTTP,
         mutatePanics, getDNSServiceIP, LookupFails, GiveUp, ServiceChanges, ServerListens,
         StartFails, Signal, ShutsDown, StartAgain
<1> DEFINE new == Patched(review[u].object, review[u].answer.patch)
<1>2. DOMAIN stored = Deployments
  BY DEF WebhookInv, WebhookTypeOK
<1>3. /\ review[u].state = "answered" /\ review[u].answer.allowed
      /\ stored' = [stored EXCEPT ![review[u].name] = new]
  BY <1>1 DEF Decide
<1> HIDE DEF new
<1>4. review[u].name = d /\ stored'[d] = new
  BY <1>2, <1>3
<1>5. stored'[d] = Patched(review[u].object, review[u].answer.patch)
  BY <1>4, Zenon DEF new
<1> QED  BY <1>3, <1>4, <1>5, Zenon

\* getDNSServiceIP runs for every review: a watched Deployment is stored with
\* an address the service had while it was under review, never an older one.
THEOREM AddressAlwaysLookedUp == WebhookSafety => AddressLookedUp
<1> DEFINE Step ==
        \A d \in Deployments :
            stored'[d] # stored[d] /\ Annotated(stored'[d], "dasdns.io/watch") =>
                \E u \in Reviews : \E ip \in review[u].addresses :
                    review[u].name = d /\ stored'[d].dnsConfig = <<ip>>
<1>1. ASSUME WebhookInv, [WebhookNext]_webhookVars, NEW d \in Deployments,
             stored'[d] # stored[d], Annotated(stored'[d], "dasdns.io/watch")
      PROVE  \E u \in Reviews : \E ip \in review[u].addresses :
                 review[u].name = d /\ stored'[d].dnsConfig = <<ip>>
  <2>1. PICK u \in Reviews :
            /\ review[u].state = "answered" /\ review[u].answer.allowed
            /\ review[u].name = d
            /\ stored'[d] = Patched(review[u].object, review[u].answer.patch)
    BY <1>1, StoredByDecide
  <2>2. review[u] \in ReviewRecords /\ ReviewInv(review[u], service)
    BY <1>1 DEF WebhookInv, WebhookTypeOK
  <2>3. stored'[d].Annotations = review[u].object.Annotations
    BY <2>1, <2>2, PatchedRight
  <2>4. Watched(review[u].object)
    BY <1>1, <2>3 DEF Watched, Annotated
  <2> QED  BY <2>1, <2>2, <2>4, PatchedRight
<1>2. WebhookInv /\ [WebhookNext]_webhookVars => [Step]_webhookVars
  BY <1>1
<1>3. AddressLookedUp <=> [][Step]_webhookVars
  BY DEF AddressLookedUp
<1> HIDE DEF Step
<1> QED  BY <1>2, <1>3, WebhookInvariant, PTL DEF WebhookSafety

\* mutate leaves Deployments that are not watched alone: they are stored as
\* they were submitted.
THEOREM OthersNeverTouched == WebhookSafety => OthersUntouched
<1> DEFINE Step ==
        \A d \in Deployments :
            stored'[d] # stored[d] /\ ~Annotated(stored'[d], "dasdns.io/watch") =>
                \E u \in Reviews : review[u].name = d /\ stored'[d] = review[u].object
<1>1. ASSUME WebhookInv, [WebhookNext]_webhookVars, NEW d \in Deployments,
             stored'[d] # stored[d], ~Annotated(stored'[d], "dasdns.io/watch")
      PROVE  \E u \in Reviews : review[u].name = d /\ stored'[d] = review[u].object
  <2>1. PICK u \in Reviews :
            /\ review[u].state = "answered" /\ review[u].answer.allowed
            /\ review[u].name = d
            /\ stored'[d] = Patched(review[u].object, review[u].answer.patch)
    BY <1>1, StoredByDecide
  <2>2. review[u] \in ReviewRecords /\ ReviewInv(review[u], service)
    BY <1>1 DEF WebhookInv, WebhookTypeOK
  <2>3. stored'[d].Annotations = review[u].object.Annotations
    BY <2>1, <2>2, PatchedRight
  <2>4. ~Watched(review[u].object)
    BY <1>1, <2>3 DEF Watched, Annotated
  <2> QED  BY <2>1, <2>2, <2>4, PatchedRight
<1>2. WebhookInv /\ [WebhookNext]_webhookVars => [Step]_webhookVars
  BY <1>1
<1>3. OthersUntouched <=> [][Step]_webhookVars
  BY DEF OthersUntouched
<1> HIDE DEF Step
<1> QED  BY <1>2, <1>3, WebhookInvariant, PTL DEF WebhookSafety
=============================================================================
