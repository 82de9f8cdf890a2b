\* A workshop page and its server: changes told, throttled, lost and read again, with one restart.
SPECIFICATION PageSpec
CONSTANTS
  Pages = {"ann"}
  MaxDay = 2
  Budgets <- MCBudgets
  NoData = NoData
INVARIANTS
  PageShowsSession
  PageShowsPrices
PROPERTIES
  NeverGoesBack
  PageCatchesUp
