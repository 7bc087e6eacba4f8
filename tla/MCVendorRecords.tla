--------------------------- MODULE MCVendorRecords --------------------------
(***************************************************************************)
(* VendorRecords for TLC.  Of the three bytes one is a Samsung code, one a *)
(* MediaTek code and one is neither; all of them are lengths as well.      *)
(***************************************************************************)
EXTENDS VendorRecords

MCBytes     == 0 .. 2
MCSynthetic == {1}
MCMediaTek  == {2}
=============================================================================
