\* Two windows of one Round of manual procurement: one player.
SPECIFICATION Spec
CONSTANTS
  NumSeasons = 2
  MaxRounds = 1
  StartRounds = 1
  Admitted = {"ann"}
  Picks = {}
  Event <- MCEvent
  LeverChanges <- FuelChanges
  Facilities = {"coal"}
  Catalog <- MCCatalog
  Starting = {"coal"}
  Upgrades <- NoUpgrades
  ThresholdShare <- NoShares
  CspSolar = {}
  CspUnlockRound = 99
  FullSeasonStorage = {}
  Fuels = {"coal"}
  NoFuel = "none"
  FuelUnit <- OneUnit
  TimerSettings <- OneTimer
  FirstTimers <- MCTimers
  MaxExtensions = 0
  BonusSettings = {1}
  FirstBonus = 1
  PriceInputs = {}
  DefaultPrice = 50
  OrderInputs = {0, 2, 9}
  FuelPriceLevels = {0}
  Nets = {20}
  Revenues = {0}
  Emissions = {0}
  MaxBlackouts = 0
  Peaks = {0}
PROPERTIES
  WindowStartsFromLastOrder
