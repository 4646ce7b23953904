--------------------------- MODULE MCBudgetAlerts ---------------------------
(* BudgetAlerts for TLC: interchangeable processes.                        *)
EXTENDS BudgetAlerts, TLC

ProcessSymmetry == Permutations(Process)
=============================================================================
