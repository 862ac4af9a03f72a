CONSTANTS
  Faults = {"open", "print", "close", "check"}
  NumSeq = 2
  MaxValue = 2
  MaxCrash = 2
  MaxFaults = 2
  MaxManual = 1
SPECIFICATION Spec
INVARIANTS
  RestoreNotOlder
