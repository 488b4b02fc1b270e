--------------------------- MODULE MCMacInstaller ---------------------------
\* Two installers and a few invocations of either.
EXTENDS MacInstaller
=============================================================================
