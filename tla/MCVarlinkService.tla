--------------------------- MODULE MCVarlinkService ---------------------------
(* An instance of VarlinkService for TLC.                                  *)
EXTENDS VarlinkService

CONSTANTS c1, c2, p1, h1, v1
==============================================================================
