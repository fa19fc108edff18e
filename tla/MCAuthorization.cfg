CONSTANTS
  reporter = reporter
  reader1 = reader1
  reader2 = reader2
  project_id = project_id
  location = location
  zone = zone
  v1 = v1
  v2 = v2
  None = None
  Torn = Torn
  Threads <- MCThreads
  Names <- MCNames
  ProjectId = project_id
  Location = location
  Values <- MCValues
  ConfigValue <- MCConfigValue
  Credentials <- MCCredentials
  NoCredentials <- MCNoCredentials
  Reporter = reporter
  Lifetimes <- MCLifetimes
  Slack = 2
  MaxTime = 4
SPECIFICATION AuthorizationSpec
SYMMETRY ReaderSymmetry
CHECK_DEADLOCK FALSE
INVARIANTS
  CopiedAsReturned
  SentWithValidToken
