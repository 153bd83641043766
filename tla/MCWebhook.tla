----------------------------- MODULE MCWebhook -----------------------------
(***************************************************************************)
(* Instances of Webhook for TLC.                                           *)
(***************************************************************************)
EXTENDS Webhook

WithAnnotation(key, value) ==
    [PlainDeployment EXCEPT !.Annotations = [k \in {key} |-> value]]

watched == WithAnnotation("dasdns.io/watch", "true")

\* A watched Deployment, one on the host network, and one that opted out and
\* has a name server of its own.
MCSubmissions ==
    {watched,
     [watched EXCEPT !.HostNetwork = TRUE],
     [WithAnnotation("dasdns.io/watch", "false") EXCEPT
         !.dnsPolicy = "None", !.dnsConfig = <<"own">>]}

\* A watched Deployment, and one annotated as README.md describes.
DocumentedSubmissions == {watched, WithAnnotation("dashdns.io/watch", "true")}
=============================================================================
