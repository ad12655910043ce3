SPECIFICATION Spec
CONSTANTS
  Jobs = {j1, j2}
  Workers = {w1, w2}
  Copies = {1, 2, 3}
  NoEntry = NoEntry
  MaxAttempts = 1
  MaxStalled = 1
  HasTtl = FALSE
  Races = {"revoke", "remove"}
CHECK_DEADLOCK FALSE
SYMMETRY MCSymmetry
INVARIANTS NothingLost Custody OneRunner OutcomeUnique
PROPERTIES CompletedIsFinal RevokedNeverCompletes ImplementsLease
