SPECIFICATION Spec
CONSTANTS
  Jobs <- MCJobs
  Responses <- MCResponses
CHECK_DEADLOCK FALSE
INVARIANTS HalvesFormTx NoMoneyLost PaidAsOffered SpecialHalfShort TemplateLimitsKept
