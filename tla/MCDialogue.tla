------------------------------ MODULE MCDialogue ------------------------------
(* Small instances of Dialogue.                                            *)
EXTENDS Dialogue

(* A name with the word, or more than the buffer of three tokens takes.    *)
NameOrLong == {<<"name">>, <<"text", "text", "text">>}
===============================================================================
