--------------------------- MODULE MCResponsePump ---------------------------
(* A small instance of ResponsePump: the Client of the package and one that *)
(* Init makes, with a writer that blocks or not, one as an Output whose     *)
(* transitionOutput blocks or not, or a mock that blocks.                   *)
EXTENDS ResponsePump

Writer == [kind |-> "writer", block |-> FALSE, wrapped |-> FALSE, blockOuter |-> FALSE]

SomeConfigs ==
  {Writer, [Writer EXCEPT !.block = TRUE], [Writer EXCEPT !.wrapped = TRUE],
   [Writer EXCEPT !.wrapped = TRUE, !.blockOuter = TRUE],
   [Writer EXCEPT !.kind = "mock", !.block = TRUE]}
=============================================================================
