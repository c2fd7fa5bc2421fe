--------------------------- MODULE MCSubscriptions ---------------------------
(* An instance of Subscriptions for TLC.                                   *)
EXTENDS Subscriptions

CONSTANTS c1, c2, h1, h2, v1
==============================================================================
