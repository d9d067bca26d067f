SPECIFICATION Spec
CONSTANTS
  None = None
  Hub <- MCHub
  HubTags <- MCHubTags
  Queries <- MCQueries
  Images <- MCImages
  Hubs <- MCHubs
  PageSize = 1
  MaxImages = 2
  MaxTags = 2
  Checkers = {c1, c2}
  Repositories = {"a"}
  Tags = {"v", "latest"}
  Latest = "latest"
  Versions = {"v"}
  MaxMaps = 2
  MaxChanges = 1
INVARIANTS
  MissingIsRefused
  OffersAreConfirmed
  ProposalsAreTheHubs
PROPERTIES
  SearchesEnd
CHECK_DEADLOCK FALSE
