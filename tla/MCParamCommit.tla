--------------------------- MODULE MCParamCommit ---------------------------
(* Two parameters, two values: enough for a batch to be partly superseded. *)
EXTENDS ParamCommit

OneRefused == {<<"width", 1>>}
ParamNames == {"width", "holes"}
=============================================================================
