---------------------------- MODULE MCLinkMaster ----------------------------
(* Two or three decks on one network, for TLC.                             *)
EXTENDS LinkMaster

CONSTANTS A, B, C     \* decks
=============================================================================
