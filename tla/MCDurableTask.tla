--------------------------- MODULE MCDurableTask ---------------------------
(***************************************************************************)
(* TLC instance of DurableTask: an inspection that may be replayed, a POST *)
(* that may not but runs in parallel, and an edit that does neither; a     *)
(* good result, another one, and an error.                                 *)
(***************************************************************************)
EXTENDS DurableTask

CONSTANTS inspect, post, edit, good, other, error, none
=============================================================================
