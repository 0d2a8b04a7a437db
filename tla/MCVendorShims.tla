--------------------------- MODULE MCVendorShims ---------------------------
(***************************************************************************)
(* Four handles, each of which may be any shim's, over a ZWO index, a      *)
(* PlayerOne index and one QHY device: one can be abandoned, a second      *)
(* reopen the device, a third be discovery's and a fourth a Touptek        *)
(* camera's beside them.                                                   *)
(***************************************************************************)
EXTENDS VendorShims, TLC

Handles == Permutations(Lease)

=============================================================================
