SPECIFICATION Spec
CONSTANTS
  p1 = p1  p2 = p2  q1 = q1  q2 = q2  ip1 = ip1  ip2 = ip2  ip3 = ip3  d1 = d1  d2 = d2
  NoIP = NoIP  NoName = NoName
  PodNames = {p1, p2}
  PolicyNames = {q1}
  Keys <- MCKeys
  Values <- MCValues
  Domains = {d1, d2}
  Labelings <- OneLabeling
  IPsOf <- SharedIP
  SpecsOf <- EditedSelectors
  DeletablePolicies = {}
  HostPods = {}
  ForegroundPolicies = {}
  MaxPodWrites = 4
  MaxPolicyWrites = 0
  MaxFailures = 0
  MaxRestarts = 0
INVARIANTS
  RunningPodsBlocked
