---------------------------- MODULE MCLspSession ----------------------------
(* Instances of LspSession for TLC.                                         *)
EXTENDS LspSession

MCUri      == {"main"}
MCLanguage == {"c", "cpp"}
=============================================================================
