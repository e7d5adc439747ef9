--------------------------- MODULE MCBudgetLedger ---------------------------
(* Small instance of BudgetLedger for TLC. *)
EXTENDS BudgetLedger, TLC

\* One operation of each kind that admission tells apart.
MCOperations ==
  {[cost |-> 3, class |-> "essential", scan |-> "plain"],
   [cost |-> 3, class |-> "essential", scan |-> "scan"],
   [cost |-> 2, class |-> "optional", scan |-> "plain"],
   [cost |-> 1, class |-> "experiment", scan |-> "plain"]}

\* Workers are interchangeable.
Symmetry == Permutations(Workers)

=============================================================================
