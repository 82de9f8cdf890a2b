\* What is on offer: one player, an upgrade that spending unlocks, Concentrated solar
\* power from Round 2, batteries of which one retires, and hydrogen storage that needs its
\* lever; and settings changed meanwhile.
SPECIFICATION Spec
CONSTANTS
  NumSeasons = 1
  MaxRounds = 2
  StartRounds = 2
  Admitted = {"ann"}
  Picks = {}
  Event <- MCEvent
  LeverChanges <- StorageChanges
  Facilities = {"wind", "windTwo", "csp", "battery", "hydrogen"}
  Catalog <- MCCatalog
  Starting = {"wind", "battery"}
  Upgrades <- WindUpgrade
  ThresholdShare <- WindShare
  CspSolar = {"csp"}
  CspUnlockRound = 2
  FullSeasonStorage = {"hydrogen"}
  Fuels = {}
  NoFuel = "none"
  FuelUnit <- OneUnit
  TimerSettings <- TwoTimers
  FirstTimers <- MCTimers
  MaxExtensions = 0
  BonusSettings = {1, 2}
  FirstBonus = 1
  PriceInputs = {}
  DefaultPrice = 50
  OrderInputs = {}
  FuelPriceLevels = {0}
  Nets = {0}
  Revenues = {0}
  Emissions = {0}
  MaxBlackouts = 0
  Peaks = {0}
INVARIANTS
  StorageFits
  OwnedWasOffered
