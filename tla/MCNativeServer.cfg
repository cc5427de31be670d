SPECIFICATION Spec
CONSTANTS
  Clients = {c1, c2}
  Self = self
  None = none
  UiCalls = 1
  SetUpReads = 1
INVARIANTS ReadsOwn LosesOnlyLast WindowServed
PROPERTIES ClosesOwn StopReturns ThreadEnds
CONSTRAINT UpToTheFirst
CHECK_DEADLOCK FALSE
