CONSTANTS
  Bundles <- MCRaising
  Dates <- MCDates
  NoDate = NoDate
SPECIFICATION Spec
INVARIANT WarningsNeverFail
