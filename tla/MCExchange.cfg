SPECIFICATION Spec
CONSTANTS
  Requests <- MCRequests
  Errors <- MCErrors
  Foreign <- MCForeign
  Units = {0, 1, 17}
  DamageAt = {1, 2, 3, 4, 5, 6, 7, 8, 9, 10, 11, 12, 15, 16, 17}
  Masks = {1, 2, 4, 8, 16, 32, 64, 128, 255}
INVARIANTS
  TypeOK
  RequestIntact
  AnswerIntact
  Delivered
CHECK_DEADLOCK FALSE
