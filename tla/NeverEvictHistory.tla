------------------------- MODULE NeverEvictHistory -------------------------
(***************************************************************************)
(* NeverEvictPin with history variables that its step relation never reads:*)
(* the blocks offered to the pin since it was last replaced, the hashes    *)
(* that were reserved once and have been pinned ever since, and whether a  *)
(* prompt larger than the cap has been marked meanwhile.                   *)
(***************************************************************************)
EXTENDS NeverEvictPin

VARIABLES
  offered,  \* blocks that fell idle under the current pin
  loyal,    \* reserved at some moment, and in every pinned set since
  overflow  \* one of those pinned sets did not fit the cap

historyVars == <<vars, offered, loyal, overflow>>

PinReplaced == <<pinnedHashes, pinCap>>' # <<pinnedHashes, pinCap>>

HInit == Init /\ offered = {} /\ loyal = {} /\ overflow = FALSE

HNext ==
  /\ Next
  /\ offered' = IF PinReplaced THEN {}
                ELSE offered \union {b \in Blocks : ~Idle(b) /\ Idle(b)'}
  /\ loyal' = (loyal \union Reserved') \intersect pinnedHashes'
  /\ overflow' = \/ Cardinality(pinnedHashes') > pinCap'
                 \/ overflow /\ loyal' # {}

HSpec == HInit /\ [][HNext]_historyVars

\* A pinned block is claimed the moment it is freed: one that was freed under
\* the current pin and still lies in the free queue was passed over because
\* another block holds its hash or because the cap is used up.
ClaimedWhenFreed ==
  \A b \in offered \intersect freeQueue :
    blockHash[b] \in pinnedHashes =>
      \/ blockHash[b] \in Reserved
      \/ Cardinality(Reserved) >= pinCap

\* What every marked prompt since has contained, and the pin has once held,
\* stays cached whatever other traffic does: the README's promise for a
\* system prompt shared by all marked requests.
SharedPromptStaysCached ==
  \A h \in loyal : \E b \in Blocks : blockHash[b] = h

\* The promise holds as long as every marked prompt fits the cap.
FittingPromptsStayCached == ~overflow => SharedPromptStaysCached

=============================================================================
