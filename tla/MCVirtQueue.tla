---------------------------- MODULE MCVirtQueue ----------------------------
(***************************************************************************)
(* Model-checking instance of VirtQueue.  The ring has 2 descriptors and   *)
(* its idx fields wrap at 4, keeping vring.num a power of two that divides *)
(* the idx modulus as VQ_SIZE = 256 divides 2^16 in the code.  Four offers *)
(* wrap avail->idx, used->idx and last_avail_idx once and reuse each       *)
(* descriptor twice.                                                       *)
(***************************************************************************)
EXTENDS VirtQueue

MC_VQ_SIZE    == 2
MC_IDX_MOD    == 4
MC_MBOX_DEPTH == 4

(* Four offers (one full wrap of the idx fields) and one control word.    *)
MC_MaxOffers == 4
MC_MaxRequests == 1

(* The host's control words: an echo request, a hibernation request (the   *)
(* ISR answers it with an ack or a cancel) and a cache flush (no answer).  *)
(* The forced hibernation request takes the ack path of the unforced one   *)
(* and MBOX_READY the no-answer path of the flush.                         *)
MC_HostRequests == {RP_MBOX_ECHO_REQUEST, RP_MSG_HIBERNATION, RP_MSG_FLUSH_CACHE}
=============================================================================
