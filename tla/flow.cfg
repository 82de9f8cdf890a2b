\* The flow of a session, with failing writes and restarts: one facility type, two
\* players of whom either may join late, one season a Round, up to two Rounds, of which the
\* second may hold the vote on a carbon tax.
SPECIFICATION Spec
CONSTANTS
  NumSeasons = 1
  MaxRounds = 2
  StartRounds = 1
  ann = ann
  bea = bea
  Admitted = {ann, bea}
  Picks = {}
  Event <- MCEvent
  LeverChanges <- ProposeVote
  Facilities = {"wind"}
  Catalog <- MCCatalog
  Starting = {"wind"}
  Upgrades <- NoUpgrades
  ThresholdShare <- NoShares
  CspSolar = {}
  CspUnlockRound = 99
  FullSeasonStorage = {}
  Fuels = {}
  NoFuel = "none"
  FuelUnit <- OneUnit
  TimerSettings <- OneTimer
  FirstTimers <- MCTimers
  MaxExtensions = 1
  BonusSettings = {1}
  FirstBonus = 1
  PriceInputs = {70}
  DefaultPrice = 50
  OrderInputs = {}
  FuelPriceLevels = {0}
  Nets = {10, 12}
  Revenues = {0}
  Emissions = {2}
  MaxBlackouts = 0
  Peaks = {0}
SYMMETRY AnyPlayer
INVARIANTS
  TypeOK
  MemoryMatchesFile
  OneSimulation
  SettlingMatchesSession
  RecordsMatchResults
  CarbonTaxSharedOut
PROPERTIES
  ClosedStaysClosed
  PlaysTheGame
  PagesFollowSession
