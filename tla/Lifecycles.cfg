SPECIFICATION Spec
CONSTANTS
  p1 = p1  p2 = p2  q1 = q1  q2 = q2  ip1 = ip1  ip2 = ip2  ip3 = ip3  d1 = d1  d2 = d2
  NoIP = NoIP  NoName = NoName
  PodNames = {p1}
  PolicyNames = {q1}
  Keys <- MCKeys
  Values <- MCValues
  Domains = {d1, d2}
  Labelings <- OneLabeling
  IPsOf <- TwoIPsFirst
  SpecsOf <- EditedToEmpty
  DeletablePolicies = {q1}
  HostPods = {}
  ForegroundPolicies = {q1}
  MaxPodWrites = 1
  MaxPolicyWrites = 1
  MaxFailures = 1
  MaxRestarts = 1
INVARIANTS
  TypeOK
  PodsTracked
  IndexedPoliciesExist
  ObservedMeansIndexed
  QuietMeansCaughtUp
