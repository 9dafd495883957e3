----------------------------- MODULE MCChatTurn -----------------------------
(***************************************************************************)
(* Bounds for ChatTurn: one call that searches and one that takes a        *)
(* screenshot, batches of up to two, a route that requires the search or   *)
(* nothing, and at most one failed write.                                  *)
(***************************************************************************)
EXTENDS ChatTurn

MCGateTools == {{}, {"search"}}
=============================================================================
