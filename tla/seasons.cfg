\* Two seasons a Round, one after the other: one player, a season's event to plan in the
\* second Round, fuel that procurement may be switched for, orders of none, a season's need
\* or more than the stockpile holds, and writes that fail.
SPECIFICATION Spec
CONSTANTS
  NumSeasons = 2
  MaxRounds = 2
  StartRounds = 2
  Admitted = {"ann"}
  Picks = {"levy"}
  Event <- MCEvent
  LeverChanges <- FuelChanges
  Facilities = {"coal"}
  Catalog <- MCCatalog
  Starting = {"coal"}
  Upgrades <- NoUpgrades
  ThresholdShare <- NoShares
  CspSolar = {}
  CspUnlockRound = 99
  FullSeasonStorage = {}
  Fuels = {"coal"}
  NoFuel = "none"
  FuelUnit <- OneUnit
  TimerSettings <- OneTimer
  FirstTimers <- MCTimers
  MaxExtensions = 0
  BonusSettings = {1}
  FirstBonus = 1
  PriceInputs = {}
  DefaultPrice = 50
  OrderInputs = {0, 2, 9}
  FuelPriceLevels = {0}
  Nets = {20}
  Revenues = {4}
  Emissions = {0}
  MaxBlackouts = 0
  Peaks = {0}
INVARIANTS
  EventsFiredOnce
  FuelLedger
