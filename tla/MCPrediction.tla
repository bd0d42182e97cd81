---------------------------- MODULE MCPrediction ----------------------------
(* One direction and rest: stopping and starting are what can go wrong. *)
EXTENDS Prediction
OneWay == {0, 1}
=============================================================================
