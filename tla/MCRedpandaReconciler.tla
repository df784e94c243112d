----------------------- MODULE MCRedpandaReconciler -----------------------
(* Model-checking instance of RedpandaReconciler: three user writes (of   *)
(* which at most two spec edits, generation <= 3), and two transient      *)
(* faults, flux failures or restarts.                                      *)
EXTENDS RedpandaRefinement

MCMaxGen == 3
MCMaxUserOps == 3
MCMaxFaults == 2
=============================================================================
