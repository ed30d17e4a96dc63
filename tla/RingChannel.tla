---------------------------- MODULE RingChannel ----------------------------
(***************************************************************************)
(* What one vring promises, without rings, cursors or notifications: the   *)
(* host lends buffers, the consumer takes them in the order they were lent *)
(* and gives each back, the host takes returned buffers back in the order  *)
(* they were returned.  A buffer is in exactly one place at a time.        *)
(* VirtQueue implements this specification (VirtQueueRefinement).          *)
(***************************************************************************)
EXTENDS Sequences, FiniteSets

CONSTANT Buffers      \* the descriptors of the ring

VARIABLES
  free,      \* buffers the host owns
  lent,      \* lent to the consumer and not yet taken, oldest first
  taken,     \* taken by the consumer and not yet returned
  returned   \* returned and not yet taken back by the host, oldest first

vars == <<free, lent, taken, returned>>

Init ==
  /\ free = Buffers
  /\ lent = <<>>
  /\ taken = {}
  /\ returned = <<>>

Lend(b) ==
  /\ b \in free
  /\ free' = free \ {b}
  /\ lent' = Append(lent, b)
  /\ UNCHANGED <<taken, returned>>

Take ==
  /\ lent # <<>>
  /\ taken' = taken \cup {Head(lent)}
  /\ lent' = Tail(lent)
  /\ UNCHANGED <<free, returned>>

Return(b) ==
  /\ b \in taken
  /\ taken' = taken \ {b}
  /\ returned' = Append(returned, b)
  /\ UNCHANGED <<free, lent>>

TakeBack ==
  /\ returned # <<>>
  /\ free' = free \cup {Head(returned)}
  /\ returned' = Tail(returned)
  /\ UNCHANGED <<lent, taken>>

Next ==
  \/ \E b \in Buffers : Lend(b) \/ Return(b)
  \/ Take
  \/ TakeBack

Spec == Init /\ [][Next]_vars

=============================================================================
