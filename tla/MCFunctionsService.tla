------------------------- MODULE MCFunctionsService -------------------------
(* The functions service with two request slots, one function, one key.    *)
EXTENDS FunctionsService
=============================================================================
