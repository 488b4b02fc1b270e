-------------------------- MODULE MCWindowsNetwork --------------------------
EXTENDS WindowsNetwork

=============================================================================
