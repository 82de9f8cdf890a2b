\* A Round added once the last Round's vote has passed: one player, up to three Rounds.
SPECIFICATION Spec
CONSTANTS
  NumSeasons = 1
  MaxRounds = 3
  StartRounds = 2
  Admitted = {"ann"}
  Picks = {}
  Event <- MCEvent
  LeverChanges <- ProposeVote
  Facilities = {}
  Catalog <- MCCatalog
  Starting = {}
  Upgrades <- NoUpgrades
  ThresholdShare <- NoShares
  CspSolar = {}
  CspUnlockRound = 99
  FullSeasonStorage = {}
  Fuels = {}
  NoFuel = "none"
  FuelUnit <- OneUnit
  TimerSettings <- OneTimer
  FirstTimers <- MCTimers
  MaxExtensions = 0
  BonusSettings = {1}
  FirstBonus = 1
  PriceInputs = {}
  DefaultPrice = 50
  OrderInputs = {}
  FuelPriceLevels = {0}
  Nets = {0}
  Revenues = {0}
  Emissions = {0}
  MaxBlackouts = 0
  Peaks = {0}
INVARIANTS
  NoVoteLeverAfterTax
