--------------------------- MODULE MCSlidingWindow ---------------------------
(* TLC instance of SlidingWindow; the values are in MCSlidingWindow.cfg.    *)
EXTENDS SlidingWindow
=============================================================================
