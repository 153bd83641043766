SPECIFICATION FairControllerSpec
CONSTANTS
  p1 = p1  q1 = q1  ip1 = ip1  d1 = d1  a1 = a1
  NoIP = NoIP  NoName = NoName  NoAnswer = NoAnswer
  PodNames = {p1}
  PolicyNames = {q1}
  Keys = {"app"}
  Values = {"a"}
  Domains = {d1}
  Labelings <- MCLabelings
  IPsOf <- MCIPsOf
  SpecsOf <- MCSpecsOf
  DeletablePolicies = {}
  HostPods = {}
  ForegroundPolicies = {}
  MaxPodWrites = 0
  MaxPolicyWrites = 0
  MaxFailures = 0
  MaxRestarts = 0
  Agents = {a1}
  RequestKinds = {"GET /api/policies"}
  MaxListenFailures = 1
PROPERTIES
  BlocklistServed
CHECK_DEADLOCK FALSE
