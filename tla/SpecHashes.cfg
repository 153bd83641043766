SPECIFICATION CopiesSpec
CONSTANTS
  Specs <- HashedSpecs
  Nil = Nil
  NoHash = NoHash
INVARIANTS
  SharedCopiesIntact
  HashIgnoresOrder
  SelectorHashAgrees
