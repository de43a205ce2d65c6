SPECIFICATION FairSpec
CONSTANTS
  MaxVersion = 5
PROPERTIES
  NeverRollsBack
  ShowsEnding
