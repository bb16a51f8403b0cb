----------------------------- MODULE MCPartCache -----------------------------
\* One and TRUE are told apart by their type only.
EXTENDS PartCache
TwoScalars == {[type |-> "num", value |-> "1"], [type |-> "bool", value |-> "1"]}
=============================================================================
