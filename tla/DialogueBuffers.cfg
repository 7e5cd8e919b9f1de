SPECIFICATION Spec
CONSTANTS
  Existing <- MCExisting
  Cases <- MCLongest
  SessionId = {10000000}
  MaxCseq = 3
INVARIANT TextsFit
