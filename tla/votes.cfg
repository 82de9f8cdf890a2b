\* Plans and votes: two players, up to three Rounds, any of which may propose the carbon
\* tax, an event, and changes of levers of which some are refused, or would be without
\* another.
SPECIFICATION Spec
CONSTANTS
  NumSeasons = 1
  MaxRounds = 3
  StartRounds = 2
  ann = ann
  bea = bea
  Admitted = {ann, bea}
  Picks = {"levy"}
  Event <- MCEvent
  LeverChanges <- PlanChanges
  Facilities = {}
  Catalog <- MCCatalog
  Starting = {}
  Upgrades <- NoUpgrades
  ThresholdShare <- NoShares
  CspSolar = {}
  CspUnlockRound = 99
  FullSeasonStorage = {}
  Fuels = {}
  NoFuel = "none"
  FuelUnit <- OneUnit
  TimerSettings <- OneTimer
  FirstTimers <- MCTimers
  MaxExtensions = 0
  BonusSettings = {1}
  FirstBonus = 1
  PriceInputs = {}
  DefaultPrice = 50
  OrderInputs = {}
  FuelPriceLevels = {0}
  Nets = {0}
  Revenues = {0}
  Emissions = {0}
  MaxBlackouts = 0
  Peaks = {0}
SYMMETRY AnyPlayer
INVARIANTS
  OneCarbonTax
  BallotsOnlyDuringVote
PROPERTIES
  LockedPlansFrozen
