\* Two alerts to begin with or to come, a bell that shows one and a ticker that shows two.
CONSTANTS
  OtherSections = {"cases"}
  BellSize = 1
  TickerSize = 2
  MaxAlerts = 2
SPECIFICATION ConsoleSpec

  
PROPERTIES
  BadgeCatchesUp
