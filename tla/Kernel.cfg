CONSTANTS
  DEFAULT_TAG = "en-US"
  Zone <- MCZone
  MaxReports = 2
  LocaleData <- MCLocaleData
  Normal <- MCNormal
  Enabled <- MCEnabled
  Aliases <- MCAliases
  Tables <- MCTables
  Resident <- MCResident
  Elements <- MCElements
  Decisions <- MCDecisions
  RawTags <- MCRawTags
  Requests <- MCRequests
  Numbers <- MCNumbers
  Dates <- MCDates
  Typed <- MCTyped
  Tags <- MCTags
  PluralCases <- MCPluralCases
SPECIFICATION Spec
INVARIANTS
  TypeOK
  ContextAgrees
  OneVoice
  GapsAreReported
  ArgumentsIsolated
  PluralsAgree
  NumbersReadBack
  DurationsAreFloors
  StampsAgree
PROPERTIES
  Sealed
