---------------------------- MODULE MCLineProbe ----------------------------
(* The instance of LineProbe for TLC.                                        *)
EXTENDS LineProbe
=============================================================================
