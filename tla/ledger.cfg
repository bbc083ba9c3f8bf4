CONSTANTS
  ColumnCandidates <- MCCandidates
  Numbers <- MCNumbers
  BranchWords = {"branch"}
  Lower <- MCLower
  KeywordRules <- MCKeywordRules
  Unclassified = "unclassified"
  Categories <- MCCategories
  FixedCategories = {"rent"}
  Drinking = "drinks"
  Subscription = "subscriptions"
  Other = "other"
  MonthDays = 30
  ReducedFloor = 3
  MaxCandidates = 5
  PayloadRows = 3
  SubscriptionGap <- MCGap
  Files <- MCFiles
  Mappings <- MCMappings
  Profiles <- MCProfiles
  Choosable = {"drinks", "rent"}
  ReviewRows = 4
  MaxPreviews = 1
  MaxRows = 8
  MaxChoices = 1
  MaxSaving = 1
  Months = {0, 1}
  Days = {10, 35, 50}
  Prices <- MCPrices
  MemorySets <- MCMemorySets
  Regrets <- MCRegrets
SPECIFICATION Spec
INVARIANTS ReimportAddsNothing ChoiceKept VerdictsSound ReviewSound MerchantsStayHome
