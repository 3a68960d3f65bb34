-------------------------- MODULE MCPolicyFeedback --------------------------
EXTENDS PolicyFeedback

\* The second and third are capped and of low
\* value, the third lacks a kill condition, the fourth has no mechanism and is
\* all price and volume.
Sure(family, worth, capped) ==
  [mechanism |-> "enabled", fields |-> "inside", kills |-> TRUE,
   capped |-> capped, family |-> family, worth |-> worth]
FeedbackPool ==
  <<Sure("f", "ready", FALSE), Sure("g", "low", TRUE),
    [Sure("g", "low", TRUE) EXCEPT !.kills = FALSE],
    [Sure("f", "near", FALSE) EXCEPT !.mechanism = "", !.fields = "price"]>>
FeedbackBoundaries ==
  {[unclassified |-> FALSE, kills |-> b, price |-> b] : b \in BOOLEAN}

\* Fewer than the stage may simulate.
SmallPool == SubSeq(FeedbackPool, 1, 2)
=============================================================================
