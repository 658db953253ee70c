----------------------------- MODULE MCRioStream -----------------------------
(***************************************************************************)
(* An instance of RioStream for TLC: two letters and the line end, messages*)
(* of one to three bytes, buffers smaller than the messages.               *)
(***************************************************************************)
EXTENDS RioStream

MCMessages == {<<"a">>, <<"b", "nl">>, <<"nl">>, <<"a", "b", "nl">>}
=============================================================================
