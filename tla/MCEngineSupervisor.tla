------------------------- MODULE MCEngineSupervisor -------------------------
\* The calls are model values; the run takes two opens and a close.
EXTENDS EngineSupervisor
CONSTANTS o1, o2, c1
=============================================================================
