\* Both sizes, power cuts and failed writes.
SPECIFICATION Spec
CONSTANTS
  Missing = Missing
  Torn = Torn
  InDoubt = InDoubt
  Keys = {k1, k2}
  Small = {s1, s2}
  Large = {l1, l2}
  MaxFaults = 3
INVARIANTS TypeOK IndexedCopyIsSingle ReadsLatest
