SPECIFICATION WebhookSpec
CONSTANTS
  Deployments = {"d"}
  Submissions <- DocumentedSubmissions
  Reviews = {"u"}
  OtherKinds = {"empty"}
  NoName = NoName
  ServiceIPs = {"10.96.0.10", "10.96.0.11"}
  MaxServiceChanges = 0
  MaxSubmissions = 1
  MaxFailures = 0
  MaxStops = 0
INVARIANTS
  DocumentedAnnotationWorks
