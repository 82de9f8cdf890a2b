\* The app's background tasks under its fairness: one player, two Rounds of one season.
SPECIFICATION AppSpec
CONSTANTS
  NumSeasons = 1
  MaxRounds = 2
  StartRounds = 2
  Admitted = {"ann"}
  Picks = {}
  Event <- MCEvent
  LeverChanges = {}
  Facilities = {"wind"}
  Catalog <- MCCatalog
  Starting = {"wind"}
  Upgrades <- NoUpgrades
  ThresholdShare <- NoShares
  CspSolar = {}
  CspUnlockRound = 99
  FullSeasonStorage = {}
  Fuels = {}
  NoFuel = "none"
  FuelUnit <- OneUnit
  TimerSettings <- OneTimer
  FirstTimers <- MCTimers
  MaxExtensions = 0
  BonusSettings = {1}
  FirstBonus = 1
  PriceInputs = {}
  DefaultPrice = 50
  OrderInputs = {}
  FuelPriceLevels = {0}
  Nets = {0, 10}
  Revenues = {0}
  Emissions = {0}
  MaxBlackouts = 0
  Peaks = {0}
  MaxRestarts = 2
PROPERTIES
  ClosedPhasesAreDone

