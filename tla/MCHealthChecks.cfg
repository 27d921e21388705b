CONSTANTS
  c1 = c1
  c2 = c2
  c3 = c3
  users = users
  payments = payments
  Checks <- ThreeChecks
  Service <- users
  Others <- OneOther
  Threshold = 2
SPECIFICATION Spec
INVARIANTS
  TypeOK
  ReportIsTrue
PROPERTIES
  EveryCheckEnds
  HealthRecovers
