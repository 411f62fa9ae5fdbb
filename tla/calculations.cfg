\* One call of each calculation on each of the inputs of MCCalculations; the
\* behaviour ends with the answer.
CONSTANTS
  Scale = 2
  Unknown = Unknown
  Top = 2
  Unstated = Unstated
  Newline = "n"
  Blanks = {" ", "n"}
  Absent = Absent
  Malformed = Malformed
  Null = Null
  Unmeasured = Unmeasured
  Fold <- MCFold
  Means <- MCMeans
  Profiles <- MCProfiles
  Registries <- MCRegistries
  Policies <- MCPolicies
  Texts <- MCTexts
  MaxWindow = 4
  Readings <- MCReadings
  Responses <- MCResponses
  Configs <- MCConfigs
  Rows <- MCRows
  MaxRows = 2
  Facts <- MCFacts
  FactConfigs <- MCFactConfigs
  Tables <- MCTables
  KeyColumn = "id"
  GoldSets <- MCGoldSets
  Outputs <- MCOutputs
  Arms <- MCArms
SPECIFICATION Spec
INVARIANTS
  AdviceIsGuarded
  RoutingIsMonotone
  ChunksCoverDocument
  QuotesAreAnchored
  RecordsAreAccounted
  IdentityIsStable
  ScoresAreEarned
CHECK_DEADLOCK FALSE
