------------------------- MODULE MCMessageQDaemon -------------------------
(***************************************************************************)
(* Three queue objects, two client processes, one reserved index, a table  *)
(* of two entries that grows by one: three live queues force a grow, and   *)
(* two setup/destroy rounds rebuild the table.                             *)
(***************************************************************************)
EXTENDS MessageQDaemon

MC_Objs      == {"o1", "o2", "o3"}
MC_Pids      == {1, 2}
MC_Reserved  == 1
MC_Runtime   == 2
MC_GrowSize  == 1
MC_MaxSetups == 2

(* Two msgInit stamps between first setups: the counter moves and is reset *)
(* by a later first setup.                                                 *)
MC_MaxSeqNum == 2

(* sizeof(MessageQ_Handle) on a 64-bit host, and the UInt16 width.  With   *)
(* 16 bits the grow's oldSize wraps only past 8192 entries.  The scaled    *)
(* width 4 keeps the same arithmetic but wraps it at 16 / 8 = 2 entries,   *)
(* the size of the first table, so the first grow meets the wrap.          *)
MC_HandleSize == 8
MC_Bits16     == 16
MC_WrapBits   == 4
=============================================================================
