----------------------------- MODULE MCLiveMode -----------------------------
(* Two saves, each seen half written or whole, and every choice of which of *)
(* the four contents are shapes.                                            *)
EXTENDS LiveMode
=============================================================================
