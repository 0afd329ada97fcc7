----------------------------- MODULE MCWebhooks -----------------------------
(***************************************************************************)
(* Small instances of webhook delivery for TLC: organization A has one     *)
(* endpoint; organization B never registers any.                           *)
(***************************************************************************)
EXTENDS WebhookDelivery

MCEvents == {"e1", "e2"}
MCEndpointOne == {"p1"}

MCAllOfA == [e \in MCEvents |-> "A"]
MCSecondOfA == [e \in MCEvents |-> IF e = "e1" THEN "B" ELSE "A"]
MCEndpointOfA == [p \in MCEndpointOne |-> "A"]
=============================================================================
