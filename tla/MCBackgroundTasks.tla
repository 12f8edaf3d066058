------------------------- MODULE MCBackgroundTasks -------------------------
(* A list that grows under two calls.                                      *)
EXTENDS BackgroundTasks

MCInitialTasks == <<"async", "sync">>
=============================================================================
