---------------------------- MODULE MCFrameStream ----------------------------
(* Two pages of the JPEG family, one of which follows the viewed camera,    *)
(* and a story of two frames and clears.                                     *)
EXTENDS FrameStream
=============================================================================
