SPECIFICATION FairSpec
CONSTANTS
  p1 = p1  p2 = p2  q1 = q1  q2 = q2  ip1 = ip1  ip2 = ip2  ip3 = ip3  d1 = d1  d2 = d2
  NoIP = NoIP  NoName = NoName
  PodNames = {p1}
  PolicyNames = {q1}
  Keys <- MCKeys
  Values <- MCValues
  Domains = {d1, d2}
  Labelings <- OneLabeling
  IPsOf <- OneIPEach
  SpecsOf <- EditedToEmpty
  DeletablePolicies = {q1}
  HostPods = {}
  ForegroundPolicies = {}
  MaxPodWrites = 2
  MaxPolicyWrites = 1
  MaxFailures = 1
  MaxRestarts = 0
INVARIANTS
  PodsTracked
PROPERTIES
  EventuallyCaughtUp
