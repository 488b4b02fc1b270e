--------------------------- MODULE MCDarwinNetwork ---------------------------
(* The instance of DarwinNetwork for TLC: two baselines, two resolvers.      *)
EXTENDS DarwinNetwork
=============================================================================
