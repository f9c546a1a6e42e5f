----------------------------- MODULE MCReader -----------------------------
(* An empty node, one whose attribute holds the end of a tag, and a node   *)
(* with a child.                                                           *)
EXTENDS Reader, TLC

Empty == <<"<", "a", "/", ">">>
Quoted == <<"<", Quote, "/", ">", Quote, "/", ">">>
Nested == <<"<", "a", ">">> \o Empty \o <<"<", "/", "a", ">">>

MCStanzas == {Empty, Quoted, Nested}
===========================================================================
