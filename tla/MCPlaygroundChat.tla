-------------------------- MODULE MCPlaygroundChat --------------------------
(* TLC instance of PlaygroundChat.                                         *)
EXTENDS PlaygroundChat

\* Reasoning apart from the text, in tags that are closed or not, and mixed.
Providers == {<<"open", "text", "close">>, <<"reason", "text">>, <<"reason", "open", "text">>}
=============================================================================
