CONSTANTS
  Requests = {r1}
  MaxPage = 3
  MaxTime = 2
SPECIFICATION FairSpec
PROPERTY GoingBackReopens
