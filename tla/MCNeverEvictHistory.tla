------------------------ MODULE MCNeverEvictHistory ------------------------
(* A pool of a few blocks under marked prompts that share a prefix.        *)
EXTENDS NeverEvictHistory, TLC

CONSTANTS b1, b2, b3, b4, h1, h2, h3, r1, r2

MCBlocks == {b1, b2, b3, b4}
MCHashes == {h1, h2, h3}
MCRequests == {r1, r2}

\* h1 is the shared system prompt, h2 and h3 two continuations; with both the
\* conversation outgrows a cap of two.
MCMarkedPrompts == {{h1, h2}, {h1, h3}, {h1, h2, h3}}

MCSymmetry == Permutations(MCBlocks) \union Permutations(MCRequests)
                \union Permutations({h2, h3})
=============================================================================
