---------------------------- MODULE MCPollingLoop ----------------------------
(* Instances of PollingLoop for TLC.                                       *)
EXTENDS PollingLoop, TLC

CONSTANTS ea, eb

\* The watch works; it does not, but the loop detects again; both.
AllModes == [redetect : BOOLEAN, watch : BOOLEAN]
              \ {[redetect |-> FALSE, watch |-> FALSE]}
WatchMode == {[redetect |-> FALSE, watch |-> TRUE]}

SharedEdid == 1 :> ea @@ 2 :> ea @@ 3 :> eb
OneEdid == 1 :> ea
==============================================================================
