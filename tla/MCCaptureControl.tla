-------------------------- MODULE MCCaptureControl --------------------------
(* The instances of CaptureControl that TLC checks. *)
EXTENDS CaptureControl

=============================================================================
