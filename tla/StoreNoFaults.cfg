\* Values of both sizes, nothing goes wrong.
SPECIFICATION Spec
CONSTANTS
  Missing = Missing
  Torn = Torn
  InDoubt = InDoubt
  Keys = {k1, k2}
  Small = {s1, s2}
  Large = {l1, l2}
  MaxFaults = 0
INVARIANTS SingleSource ListsWhatItHolds
PROPERTIES ImplementsMap
