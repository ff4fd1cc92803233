CONSTANTS
  Names = {"CH1A", "CH2B", "t", "k"}
  Candidates <- SomeCandidates
  Alerts <- SomeAlerts
  Day = 6
  Microsecond = 2
  Times = {0, 3, 5}
  MaxConsents = 3
SPECIFICATION EligibilitySpec
PROPERTIES
  DecisionsAreTimely
  ConsentFollowsDates
