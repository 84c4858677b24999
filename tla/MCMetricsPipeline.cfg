SPECIFICATION FairSpec
CONSTANTS
  p1 = p1
  q1 = q1
  Post <- MCPost
  PostExport <- MCPostExport
  TopSize = 1
  LateDay = 3
  MaxTries = 2
  MaxPosts = 1
  Scenarios <- MCScenarios
INVARIANTS TypeOK ConversionAddsUp PayloadIsFresh LateReturnsNeedAPost QueriesAgree
PROPERTIES LoneRunIsExact ExportBecomesTrue
