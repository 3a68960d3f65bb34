--------------------------- MODULE MCWorkflowBudget ---------------------------
EXTENDS WorkflowBudget

\* Two stages whose allocations exceed the day's budget, as configurations
\* without a research policy allow: both limits bite.
TwoStages == <<3, 6>>
OneStage == <<2>>

OneFamily == [c \in Candidates |-> 1]
TwoFamilies == [c \in Candidates |-> IF c <= 3 THEN 1 ELSE 2]
===============================================================================
