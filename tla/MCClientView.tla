---------------------------- MODULE MCClientView ----------------------------
\* One polling goroutine and two clicks that may overlap.
EXTENDS ClientView
=============================================================================
