CONSTANTS
  Regions = {1}
  Zones = {1, 2}
  Figures <- MCFigures
  MaxVersion = 2
  MaxRestarts = 1
SPECIFICATION FairSpec
INVARIANTS TypeOK NewestShown OneFigurePerVersion NoOrphanRows LoggedIsRecorded
PROPERTIES ReportsRefined SyncGoesOn EventIsWritten
