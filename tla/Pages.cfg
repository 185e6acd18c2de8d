CONSTANTS
  DEFAULT_TAG = "en-US"
  LocaleData <- MCLocaleData
  Normal <- MCNormal
  Enabled <- MCEnabled
  Aliases <- MCAliases
  PageLangs <- MCLangs
  Kinds <- MCKinds
  Now = "number"
  Measuring = TRUE
  MaxSamples = 1
  MaxOpen = 3
  MaxVersion = 2
SPECIFICATION FairSpec
INVARIANTS
  TypeOK
  ReadyShowsContent
  StaleRowsSaySo
PROPERTIES
  FirstMomentStands
  RowsNeverGoBack
  PauseHolds
  ReadsSettle
  
