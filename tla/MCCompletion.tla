---------------------------- MODULE MCCompletion -----------------------------
EXTENDS Completion

Both   == {"ares", "clangd"}
Clangd == {"clangd"}
=============================================================================
