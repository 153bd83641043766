SPECIFICATION WebhookSpec
CONSTANTS
  Deployments = {"d"}
  Submissions <- MCSubmissions
  Reviews = {"u", "v"}
  OtherKinds = {"empty", "no request", "no deployment"}
  NoName = NoName
  ServiceIPs = {"10.96.0.10", "10.96.0.11"}
  MaxServiceChanges = 1
  MaxSubmissions = 2
  MaxFailures = 1
  MaxStops = 1
INVARIANTS
  CallsAnswered
  WebhookTypeOK
  WatchedRedirected
PROPERTIES
  ServesOrEnds
  AddressLookedUp
  OthersUntouched
