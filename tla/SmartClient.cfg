\* After the last call nothing is left to do: CHECK_DEADLOCK FALSE.
SPECIFICATION Spec
CONSTANTS
  MaxCalls = 3
CHECK_DEADLOCK FALSE
INVARIANT AtMostOnce
INVARIANT ProtocolAgreed
INVARIANT MediumIsFree
PROPERTY CallEnds
