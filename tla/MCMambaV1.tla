----------------------------- MODULE MCMambaV1 -----------------------------
(* Blocks of three tokens and two drafts: boundaries fall on every draft   *)
(* position; nine tokens fill three columns.      *)
EXTENDS MambaAlignV1

MCBlockSize == 3
MCNumSpec == 2
MCMaxTokens == 9
=============================================================================
