SPECIFICATION FairControllerSpec
CONSTANTS
  p1 = p1  q1 = q1  ip1 = ip1  d1 = d1  a1 = a1
  NoIP = NoIP  NoName = NoName  NoAnswer = NoAnswer
  PodNames = {p1}
  PolicyNames = {q1}
  Keys = {"app"}
  Values = {"a"}
  Domains = {d1}
  Labelings <- MCLabelings
  IPsOf <- MCIPsOf
  SpecsOf <- MCSpecsOf
  DeletablePolicies = {q1}
  HostPods = {}
  ForegroundPolicies = {}
  MaxPodWrites = 0
  MaxPolicyWrites = 1
  MaxFailures = 0
  MaxRestarts = 1
  Agents = {a1}
  RequestKinds = {"GET /api/policies", "POST /api/policies", "GET /healthz"}
  MaxListenFailures = 1
INVARIANTS
  NoRequestCutOff
PROPERTIES
  StopsWhenAsked
  AnswersExact
  AgentsInformed
CHECK_DEADLOCK FALSE
