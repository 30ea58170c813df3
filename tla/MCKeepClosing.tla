--------------------------- MODULE MCKeepClosing ---------------------------
(***************************************************************************)
(* The end of a keep with duplicated and late events.  Three handlers: two *)
(* race for the deduplicator, a third comes after one has finished.        *)
(***************************************************************************)
EXTENDS KeepClosing

CONSTANTS h1, h2, h3

MCHandlers == {h1, h2, h3}
=============================================================================
