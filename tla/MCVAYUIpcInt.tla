--------------------------- MODULE MCVAYUIpcInt ---------------------------
(***************************************************************************)
(* Model-checking instance of VAYUIpcInt: DSP1 and IPU1, whose host        *)
(* sub-channels are both in mailbox 5 and raise the same host interrupt    *)
(* line, so that they share one isrHandles element.  checkAndClear visits  *)
(* IPU1 before DSP1 as the code does; the deferred phase visits them in    *)
(* procId order.  A cache of one element is exceeded by two words queued   *)
(* at once, as 21 words exceed the code's 20.                              *)
(***************************************************************************)
EXTENDS VAYUIpcInt

MC_Procs      == {"DSP1", "IPU1"}
MC_LineOf     == [p \in MC_Procs |-> 1]
MC_ClearOrder == <<"IPU1", "DSP1">>
MC_IsrOrder   == <<"DSP1", "IPU1">>
MC_CACHE_NUM  == 1
MC_MBOX_DEPTH == 2

(* Two setups: a failed or completed setup, destroy, and a second setup    *)
(* over the state the first cycle left behind.                             *)
MC_MaxSetups  == 2

(* Message-path runs: two words per core, one register call per processor *)
(* (unregistering still races the deferred phase).                         *)
MC_MsgMaxMsgs == [p \in MC_Procs |-> 2]
MC_MsgMaxRegs == [p \in MC_Procs |-> 1]

(* Registration-failure and race runs: nested registration (two calls per *)
(* processor), one word per core to keep the IRQ enable observable.        *)
MC_RegMaxMsgs == [p \in MC_Procs |-> 1]
MC_RegMaxRegs == [p \in MC_Procs |-> 2]

(* The serialized registration run, which also checks that every word is   *)
(* handled: DSP1 registers nested and its core sends two words, so its     *)
(* isrList holds two while the deferred phase takes one per pass; IPU1,    *)
(* on the same line, registers once and receives one word;                 *)
(* one setup (the lifecycle is the other runs' question), and one word per *)
(* FIFO, since the fast phase runs again for the second word before the    *)
(* deferred phase takes the first.                                         *)
MC_LiveMaxMsgs   == [p \in MC_Procs |-> IF p = "DSP1" THEN 2 ELSE 1]
MC_LiveMaxRegs   == [p \in MC_Procs |-> IF p = "DSP1" THEN 2 ELSE 1]
MC_LiveMaxSetups == 1
MC_LiveMBOX_DEPTH == 1
=============================================================================
