--------------------------- MODULE MCEventBuilder ---------------------------
(* A small instance of EventBuilder: goroutines that share the builder of  *)
(* the Client, a clone of it and one event.                                *)
EXTENDS EventBuilder
=============================================================================
