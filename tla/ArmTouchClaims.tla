--------------------------- MODULE ArmTouchClaims ---------------------------
(* What the report says of armTouch and what the interleavings of ArmTouch do *)
(* not bear out: TLC finds it violated.                                       *)
EXTENDS ArmTouchProps

(* Report, section 1.2.2: "a trigger status does its work and then becomes a  *)
(* waiting status".  The back button stores STOP before it leaves for the     *)
(* main menu (main.c:535-537), but M may settle an earlier command over it    *)
(* and then find that its page is over: the music goes on under the main      *)
(* menu and no command is left that would stop it.                            *)
BackStops ==
  \A m \in Media :
    mpage = "MAIN" /\ mpc = "loop" /\ ui_status = "MAIN" /\ tpc = "idle"
      => status[m] \in {"NULL", "STOP"}
=============================================================================
