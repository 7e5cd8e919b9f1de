SPECIFICATION Spec
CONSTANTS
  Existing <- MCExisting
  Cases <- MCCases
  SessionId = {10000000, 99999998}
  MaxCseq = 3
INVARIANTS TypeOK GoodRequestsAnswered DefectsRefused TransportUnderstood ViewsAgree OrderIsIrrelevant UnmodifiedIsRefused
PROPERTIES RefusalIsHarmless
