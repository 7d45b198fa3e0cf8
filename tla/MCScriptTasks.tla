---------------------------- MODULE MCScriptTasks ----------------------------
EXTENDS ScriptTasks

SomeKinds == {"file-read", "clang-format-style", "lsp-navigation"}
=============================================================================
