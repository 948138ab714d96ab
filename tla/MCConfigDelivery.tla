-------------------------- MODULE MCConfigDelivery --------------------------
(* ConfigDelivery for TLC: one kind besides the gateways.  States after the *)
(* excuse of ConfigMapForward and GatewayEditLoaded has come up are counted, *)
(* but not explored further: it stays, and both properties hold with it.     *)
EXTENDS ConfigDelivery

Policies == <<"policies">>
Changes == [k \in Kinds |-> IF k = "gateways" THEN 2 ELSE 1]

Unmixed == ~mixed
=============================================================================
