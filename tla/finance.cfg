\* Money, loans and the score: one player, two facility types of which one is cheaper in a
\* short session and takes a Round to build, and up to three Rounds.
SPECIFICATION Spec
CONSTANTS
  NumSeasons = 1
  MaxRounds = 3
  StartRounds = 1
  Admitted = {"ann"}
  Picks = {"shock"}
  Event <- MCEvent
  LeverChanges = {}
  Facilities = {"wind", "plant"}
  Catalog <- MCCatalog
  Starting = {"wind", "plant"}
  Upgrades <- NoUpgrades
  ThresholdShare <- NoShares
  CspSolar = {}
  CspUnlockRound = 99
  FullSeasonStorage = {}
  Fuels = {}
  NoFuel = "none"
  FuelUnit <- OneUnit
  TimerSettings <- OneTimer
  FirstTimers <- MCTimers
  MaxExtensions = 0
  BonusSettings = {1}
  FirstBonus = 1
  PriceInputs = {}
  DefaultPrice = 50
  OrderInputs = {}
  FuelPriceLevels = {0}
  Nets = {40}
  Revenues = {0}
  Emissions = {0}
  MaxBlackouts = 1
  Peaks = {0}
INVARIANTS
  SelectionAffordable
  LoanOnSchedule
PROPERTIES
  MoneyExplained
  RecapTellsPayment
