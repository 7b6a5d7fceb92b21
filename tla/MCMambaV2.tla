----------------------------- MODULE MCMambaV2 -----------------------------
(* Blocks of three tokens and two drafts: boundaries fall on every draft   *)
(* position; ten tokens give requests of four columns and three hits.      *)
EXTENDS MambaAlignV2

MCBlockSize == 3
MCNumSpec == 2
MCMaxTokens == 10
=============================================================================
