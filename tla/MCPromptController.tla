------------------------- MODULE MCPromptController -------------------------
(* Every order of events, ticks and gestures; the timeout is the bound.    *)
EXTENDS PromptControllerHistory
=============================================================================
