------------------------------ MODULE RowLookup ------------------------------
(***************************************************************************)
(* What the n-gram table promises to the model: every lookup returns the   *)
(* table's rows for exactly the ids it was asked for, in the order of the  *)
(* lookups, whatever path produced them.  The rows of an id batch are      *)
(* identified with the batch.                                              *)
(***************************************************************************)
EXTENDS Sequences

CONSTANTS
  Ids,      \* batches of row ids a step may look up
  NoIds     \* nothing looked up yet

VARIABLES
  asked,    \* the lookups without rows on the device yet, oldest first
  output    \* what the last finished lookup was asked for and what it got

Init ==
  /\ asked = << >>
  /\ output = [want |-> NoIds, got |-> NoIds]

Ask(v) ==
  /\ asked' = Append(asked, v)
  /\ UNCHANGED output

Answer ==
  /\ asked # << >>
  /\ output' = [want |-> Head(asked), got |-> Head(asked)]
  /\ asked' = Tail(asked)

Next == Answer \/ \E v \in Ids : Ask(v)

Spec == Init /\ [][Next]_<<asked, output>>
===============================================================================
