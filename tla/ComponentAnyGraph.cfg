SPECIFICATION Spec
CONSTANTS
  Component = {k1, k2, k3, k4}
  k1 = k1
  k2 = k2
  NoLine = NoLine
  MaxDepends = 2
  Included <- MCIncluded
  Missing = {k3}
  Excludable = {k4}
INVARIANTS TypeOK ExecutedOnce DependenciesFirst AllExecuted
CHECK_DEADLOCK FALSE
