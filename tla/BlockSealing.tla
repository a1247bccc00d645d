----------------------------- MODULE BlockSealing -----------------------------
(***************************************************************************)
(* What CGProcedure promises about the blocks of a function.  "Block is     *)
(* sealed, means no more predecessors will be added nor analyzed"           *)
(* (CGProcedure.h:38): a block is open from its creation until it is        *)
(* sealed, once; edges and incomplete phis are added to open blocks only,   *)
(* and sealing a block settles the phis that were waiting in it.            *)
(***************************************************************************)
EXTENDS Naturals, Sequences

VARIABLES
  preds,     \* preds[b]: predecessors of block b, newest first
  waiting,   \* waiting[b]: the incomplete phis of block b
  sealed     \* the blocks that are sealed

vars == <<preds, waiting, sealed>>

Init ==
  /\ preds = << <<>> >>
  /\ waiting = << {} >>
  /\ sealed = {}

\* The list new is old with elements added at its head.
Extends(new, old) ==
  /\ Len(new) >= Len(old)
  /\ \A i \in DOMAIN old : new[i + (Len(new) - Len(old))] = old[i]

\* Blocks are created and edges are added, none of them to a sealed block.
Grow ==
  /\ preds' \in Seq(Seq(Nat)) /\ Len(preds') >= Len(preds)
  /\ \A b \in DOMAIN preds : Extends(preds'[b], preds[b])
  /\ \A b \in sealed : preds'[b] = preds[b]
  /\ waiting' = [b \in DOMAIN preds' |-> IF b \in DOMAIN preds THEN waiting[b] ELSE {}]
  /\ UNCHANGED sealed

\* A variable is read in an open block that does not define it.
Await(b, phi) ==
  /\ b \notin sealed
  /\ waiting' = [waiting EXCEPT ![b] = @ \cup {phi}]
  /\ UNCHANGED <<preds, sealed>>

Seal(b) ==
  /\ b \notin sealed
  /\ sealed' = sealed \cup {b}
  /\ waiting' = [waiting EXCEPT ![b] = {}]
  /\ UNCHANGED preds

\* The phi of Await is the only element the step adds to waiting[b].
Next ==
  \/ Grow
  \/ \E b \in DOMAIN preds :
       Seal(b) \/ \E phi \in waiting'[b] : Await(b, phi)

Spec == Init /\ [][Next]_vars

=============================================================================
