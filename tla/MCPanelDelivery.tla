-------------------------- MODULE MCPanelDelivery ---------------------------
(* Instances of PanelDelivery for TLC.                                     *)
EXTENDS PanelDelivery

CONSTANTS solo, duo, dud, blob0, odd, radio, hPa, none, hand, tab1

\* The panels duo and odd have a second screen.
MCExtras == [g \in Designs |-> IF g \in {duo, odd} THEN {radio} ELSE {}]
=============================================================================
