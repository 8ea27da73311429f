CONSTANTS
  Bundles <- MCBundles
  Dates <- MCDates
  NoDate = NoDate
SPECIFICATION Spec
INVARIANTS
  TypeOK
  ExitIsVerdict
  AdrsAlwaysChecked
  LogOrderReported
