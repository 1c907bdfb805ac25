--------------------------- MODULE MCResponseStream ---------------------------
(***************************************************************************)
(* A streaming request and an autocomplete request share one connection    *)
(* again and again. The result of the first needs up to three FETCHes, and *)
(* more rows than there is room for between database and HTTP client.      *)
(***************************************************************************)
EXTENDS ResponseStream

CONSTANTS stream, autocomplete, c1
==============================================================================
