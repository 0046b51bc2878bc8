---------------------------- MODULE MCLlmGateway ----------------------------
(* Instances of LlmGateway: every provider, host and kind of model. *)
EXTENDS LlmGateway, TLC
=============================================================================
