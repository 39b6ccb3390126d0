CONSTANTS
  Senders = {s1, s2}
  Receivers = {r1, r2}
SPECIFICATION FairSpec
INVARIANTS
  FreeWhenTriggered
  ReportedOnce
PROPERTIES
  KeepsSending
  ListensUntilError
  DeafAfterError
