--------------------------- MODULE AccessLifecycle ---------------------------
(***************************************************************************)
(* What the controller promises about one machine, without goroutines:     *)
(* in which order the published connection state moves, when a core may    *)
(* run, and when the machine's network may be altered by the product.      *)
(***************************************************************************)

VARIABLES
  phase,    \* accessmodel.ConnectionState
  core,     \* a core process of the product may be running
  altered,  \* the product's protection, routes or DNS are in force
  exact     \* restoring proves that it took everything back (macOS); without
            \* that (Windows) resolvers of the product can outlive it

vars == <<phase, core, altered, exact>>

Init == phase = "disconnected" /\ core = FALSE /\ altered \in BOOLEAN /\ exact \in BOOLEAN

\* Connecting starts from a machine without a core and, where restoring is
\* exact, with nothing else of the product on it.
BeginConnect ==
  /\ phase \in {"disconnected", "prepared"} /\ ~core /\ (exact => ~altered)
  /\ phase' = "connecting" /\ UNCHANGED <<core, altered, exact>>

\* Only a connecting machine starts a core, and only if none can run.
StartCore ==
  /\ phase = "connecting" /\ ~core
  /\ core' = TRUE /\ UNCHANGED <<phase, altered, exact>>

\* Only a connecting machine is altered.
Alter ==
  /\ phase = "connecting"
  /\ altered' = TRUE /\ UNCHANGED <<phase, core, exact>>

\* A core may end at any time.
LoseCore == core /\ core' = FALSE /\ UNCHANGED <<phase, altered, exact>>

Connected ==
  /\ phase = "connecting" /\ altered
  /\ phase' = "connected" /\ UNCHANGED <<core, altered, exact>>

BeginRestore ==
  /\ phase \in {"disconnected", "prepared", "connected", "failed_safe"}
  /\ phase' = "restoring" /\ UNCHANGED <<core, altered, exact>>

\* The network is taken back only after the core is gone.
Undo ==
  /\ phase \in {"connecting", "restoring"} /\ ~core
  /\ altered' = FALSE /\ UNCHANGED <<phase, core, exact>>

\* Prepared means that no core and, where restoring is exact, nothing else of
\* the product is left.
Prepared ==
  /\ phase \in {"connecting", "restoring"} /\ ~core /\ (exact => ~altered)
  /\ phase' = "prepared" /\ UNCHANGED <<core, altered, exact>>

FailSafe ==
  /\ phase \in {"connecting", "restoring"}
  /\ phase' = "failed_safe" /\ UNCHANGED <<core, altered, exact>>

\* A new service process: the core died with the old one.
Restart == phase' = "disconnected" /\ core' = FALSE /\ UNCHANGED <<altered, exact>>

Next == BeginConnect \/ StartCore \/ Alter \/ LoseCore \/ Connected
        \/ BeginRestore \/ Undo \/ Prepared \/ FailSafe \/ Restart

Spec == Init /\ [][Next]_vars

=============================================================================
