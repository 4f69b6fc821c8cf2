CONSTANTS
  Floats <- MCFloats
  Utf8 <- MCUtf8
  Inputs <- MCInputs
  Calls <- MCCalls
SPECIFICATION Spec
INVARIANTS CanonicalOnly SpansFound DecodersExact
CHECK_DEADLOCK FALSE
