SPECIFICATION Spec
CONSTANTS
  p1 = p1  p2 = p2  q1 = q1  q2 = q2  ip1 = ip1  ip2 = ip2  ip3 = ip3  d1 = d1  d2 = d2
  NoIP = NoIP  NoName = NoName
  PodNames = {p1}
  PolicyNames = {q1, q2}
  Keys <- MCKeys
  Values <- MCValues
  Domains = {d1, d2}
  Labelings <- BothLabelings
  IPsOf <- TwoIPsFirst
  SpecsOf <- EditedSelectors
  DeletablePolicies = {q2}
  HostPods = {}
  ForegroundPolicies = {}
  MaxPodWrites = 1
  MaxPolicyWrites = 1
  MaxFailures = 0
  MaxRestarts = 0
SYMMETRY AlikeIPs
INVARIANTS
  MatchedPodsBlocked
  EntriesExact
  AffectedCurrent
  QuietMeansExact
PROPERTIES
  NoUnblocking
