--------------------------- MODULE MCPinScheduler ---------------------------
EXTENDS PinScheduler, TLC

CONSTANTS r1, r2, r3

MCRequests == {r1, r2, r3}
MCBlocks == 1 .. 7
MCGroups == <<[size |-> 2, cacheable |-> TRUE, recurrent |-> FALSE],
              [size |-> 2, cacheable |-> TRUE, recurrent |-> TRUE],
              [size |-> 4, cacheable |-> FALSE, recurrent |-> FALSE]>>

\* The marker's own first and last token are 91 and 92; in prompts they have
\* merged with the text around.
MCMarkerIds == <<91, 2, 92>>
MCPrompt == (r1 :> <<1, 2, 3>>) @@ (r2 :> <<1, 2, 4, 5>>) @@ (r3 :> <<7, 8, 9>>)
MCHashes == UNION {PromptHashes[r] : r \in Requests}
MCMarked == {r1, r2}
MCMarkedPrompts == {PromptHashes[r] : r \in MCMarked}
=============================================================================
