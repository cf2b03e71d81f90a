SPECIFICATION FairSpec
CONSTANTS
  Selections = {s1, s2}
  Nil = Nil
  MaxVersion = 2
PROPERTIES
  ShownIsCurrent
  RefreshHonoured
  KeepsPolling
