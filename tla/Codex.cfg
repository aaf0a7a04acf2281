SPECIFICATION FairSpec
CONSTANTS
  Actions <- AllActions
  Offers <- TwoOffers
  Checks = {"unit"}
  Items = {"item"}
  OutputLimit = 2
  LineLimit = 2
  MaxErrors = 1
  MaxUnits = 3
INVARIANT StoppedAgentIsGone
INVARIANT LinesAreCounted
PROPERTY OutcomeIsEarned
PROPERTY StoppedComesToEnd
