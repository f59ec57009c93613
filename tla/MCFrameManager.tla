---------------------------- MODULE MCFrameManager ----------------------------
(* Two frames in flight, two sizes, swapchains of two and of three images.   *)
EXTENDS FrameManager
===============================================================================
