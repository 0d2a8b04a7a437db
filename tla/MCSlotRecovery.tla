--------------------------- MODULE MCSlotRecovery ---------------------------
(* The instances of SlotRecovery that TLC checks. *)
EXTENDS SlotRecovery

=============================================================================
