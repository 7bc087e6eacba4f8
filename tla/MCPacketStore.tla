--------------------------- MODULE MCPacketStore ----------------------------
(***************************************************************************)
(* PacketStore for TLC: two packets that differ in every counter, one of   *)
(* them without a vendor.                                                  *)
(***************************************************************************)
EXTENDS PacketStore

LteRrc == [vendor |-> "", rat |-> "LTE", layer |-> "RRC", full |-> TRUE]
NrMac  == [vendor |-> "Samsung", rat |-> "NR", layer |-> "MAC", full |-> FALSE]

MCPackets == {LteRrc, NrMac}
=============================================================================
