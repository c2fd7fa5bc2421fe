--------------------------- MODULE MCServiceState ---------------------------
(* Instances of ServiceState for TLC.                                      *)
EXTENDS ServiceState, TLC

CONSTANTS c1, c2, p1, p2

\* Arguments of SetServicePollInterval: two ordinary ones, the request to
\* stop, invalid ones, and two that do not fit the stored width.
OrdinarySeconds == {-1, 5, 10, 60}
ZeroSeconds == {-1, 0, 5, 10}
AllSeconds == {-1, 0, 5, 10, Wrap, Wrap + 5}
==============================================================================
