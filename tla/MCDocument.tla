----------------------------- MODULE MCDocument -----------------------------
(* Instances of Document for TLC.                                           *)
EXTENDS Document

MCInitial  == <<"a", "b">>
MCSnippets == {<<>>, <<"x">>}
=============================================================================
