------------------------------- MODULE MCPage --------------------------------
(***************************************************************************)
(* Small instances of the open pages for TLC.  The budgets keep what goes  *)
(* wrong in one behaviour few, and between them have each go wrong.        *)
(***************************************************************************)
EXTENDS PageProperties

Budget(changes, pricesChanged, failures, restarts) ==
    [changes |-> changes, prices |-> pricesChanged, failures |-> failures, restarts |-> restarts]

MCBudgets == {Budget(2, 0, 0, 0), Budget(1, 0, 1, 0), Budget(1, 0, 0, 1), Budget(0, 3, 1, 0)}
=============================================================================
