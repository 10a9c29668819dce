----------------------------- MODULE MCTransport -----------------------------
(***************************************************************************)
(* The calls of both adapters over the transport, on small instances: two  *)
(* management addresses, pages of two rows (ranges of one where the code   *)
(* asks for SPECIAL_RANGE_COUNT), up to three objects, one SSL retry.      *)
(***************************************************************************)
EXTENDS Transport

OceanStor == INSTANCE ArrayCalls
Fusion == INSTANCE FusionCalls

AllCalls ==
  [fusion \in BOOLEAN |-> IF fusion THEN Fusion!Supported
                                    ELSE OceanStor!Supported]
=============================================================================
