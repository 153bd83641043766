SPECIFICATION FairThreadsSpec
CONSTANTS
  p1 = p1  p2 = p2  q1 = q1  ip1 = ip1  ip2 = ip2  d1 = d1  h1 = h1
  NoIP = NoIP  NoName = NoName  NoThread = NoThread
  PodNames = {p1, p2}
  PolicyNames = {q1}
  Keys = {"app"}
  Values = {"a", "b"}
  Domains = {d1}
  Labelings <- MCLabelings
  IPsOf <- MCIPsOf
  SpecsOf <- MCSpecsOf
  DeletablePolicies = {q1}
  Handlers = {h1}
INVARIANTS
  ReverseLookupSound
  ReverseLookupComplete
  BlocklistIsSnapshot
  NoDeadlock
PROPERTIES
  MethodsAtomic
  CallsReturn
