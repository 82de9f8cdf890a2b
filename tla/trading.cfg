\* Two days of two points: every price, stock, charge, weather and demand of MCInputs.  And
\* every book of up to three offers and two bids, among them bids at no limit.
SPECIFICATION MCSpec
CONSTANTS
  Plants <- MCPlants
  Tiers <- MCTiers
  Inputs <- MCInputs
  ClearingsPerDay = 2
  DayCount = 2
  WeekScale = 2
  FullWeather = 1
  Capacities = {1, 3}
  AskPrices = {0, 2}
  BidPrices = {1, 2, 1000000}
  MaxAsks = 3
  MaxBids = 2
INVARIANTS
  BestTrade
  BooksBalance
  BlackoutsAreKept
  StorageHoldsWhatItBought
  ConsumersPayThePlayers
PROPERTIES
  FuelIsShared
CHECK_DEADLOCK FALSE
