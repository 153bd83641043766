SPECIFICATION FairSpec
CONSTANTS
  p1 = p1  p2 = p2  q1 = q1  q2 = q2  ip1 = ip1  ip2 = ip2  ip3 = ip3  d1 = d1  d2 = d2
  NoIP = NoIP  NoName = NoName
  PodNames = {}
  PolicyNames = {q1}
  Keys <- MCKeys
  Values <- MCValues
  Domains = {d1, d2}
  Labelings <- BothLabelings
  IPsOf <- TwoIPsFirst
  SpecsOf <- EditedToEmpty
  DeletablePolicies = {}
  HostPods = {}
  ForegroundPolicies = {}
  MaxPodWrites = 0
  MaxPolicyWrites = 1
  MaxFailures = 0
  MaxRestarts = 0
PROPERTIES
  InvalidPoliciesReported
