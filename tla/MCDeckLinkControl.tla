--------------------------- MODULE MCDeckLinkControl ---------------------------
(* Small instances of DeckLinkControl. *)
EXTENDS DeckLinkControl

InputOrOutput == {{"input"}, {"output"}}
=============================================================================
