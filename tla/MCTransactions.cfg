SPECIFICATION FairSpec
CONSTANTS
  c1 = c1
  c2 = c2
  t1 = t1
  t2 = t2
  Nobody = Nobody
  Callers = {c1, c2}
  Tasks = {t1, t2}
  Dependents <- MCDependents
INVARIANTS
  ValuesOwned
  DeviceIsExclusive
  ChangesAreReported
PROPERTIES
  ImplementsService
  OpeningEnds
