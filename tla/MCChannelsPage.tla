--------------------------- MODULE MCChannelsPage ---------------------------
(* TLC instance of ChannelsPage.                                           *)
EXTENDS ChannelsPage
=============================================================================
