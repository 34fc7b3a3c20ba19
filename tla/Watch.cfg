SPECIFICATION Spec
CHECK_DEADLOCK FALSE
CONSTANTS
  MaxChanges = 2
  MaxFaults = 2
  MaxRestarts = 1
PROPERTY ShutsDown
PROPERTY ReachesSync
INVARIANT HooksInOrder
