--------------------------- MODULE MCResourceThief ---------------------------
(* ResourceThief with integers of six bits, and room for as many resources  *)
(* as each phase of the search, and every turn between two, needs.          *)
EXTENDS ResourceThief

MCLimits == {0, 1, 2, 6, 7, 13, 31, 32, 62, 94, 95, 104, 110}
===============================================================================
