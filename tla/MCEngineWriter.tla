--------------------------- MODULE MCEngineWriter ---------------------------
(* Operations are told apart by what their methods do, so there is no      *)
(* symmetry to exploit.                                                    *)
EXTENDS EngineWriter
=============================================================================
