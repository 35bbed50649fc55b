--------------------------- MODULE MCChatClient ---------------------------
(* Instances of ChatClient for TLC.                                        *)
EXTENDS ChatClient

CONSTANTS c1, c2

=============================================================================
