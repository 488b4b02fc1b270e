--------------------------- MODULE NetworkContract ---------------------------
(***************************************************************************)
(* What the controller relies on in a NetworkManager (the comment on the   *)
(* interface, internal/agent/controller.go): every mutation belongs to one *)
(* captured transaction, and a machine whose transaction is closed carries *)
(* nothing of the product.  A crash or a reboot closes nothing.            *)
(***************************************************************************)

VARIABLE net   \* "clean", "captured" or "altered"

Init == net = "clean"

Capture == net = "clean" /\ net' = "captured"
Alter   == net = "captured" /\ net' = "altered"
Undo    == net = "altered" /\ net' = "captured"
Release == net = "captured" /\ net' = "clean"

Next == Capture \/ Alter \/ Undo \/ Release

Spec == Init /\ [][Next]_net

=============================================================================
