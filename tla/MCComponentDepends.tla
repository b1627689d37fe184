------------------------- MODULE MCComponentDepends -------------------------
(* Constants for model checking ComponentDepends.                          *)
EXTENDS ComponentDepends

CONSTANTS k1, k2

MCIncluded == {<<k1>>, <<k2, k1>>}
=============================================================================
