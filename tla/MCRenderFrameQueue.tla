------------------------- MODULE MCRenderFrameQueue -------------------------
(***************************************************************************)
(* TLC instance of RenderFrameQueue: a ring of two slots, and five frames,  *)
(* so that both indices wrap around twice.                                  *)
(***************************************************************************)
EXTENDS RenderFrameQueue
=============================================================================
