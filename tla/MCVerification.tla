--------------------------- MODULE MCVerification ---------------------------
(***************************************************************************)
(* An instance of Verification for TLC.  Batch sizes 1 and 2 stand for a   *)
(* small and a large one; three messages make the large one overshoot.     *)
(***************************************************************************)
EXTENDS Verification

MCBatches == <<1, 2>>
MCKinds == <<"std-BufWriter", "io_uring-Write", "io_uring-WriteFixed">>
MCKnobs ==
  ({"tail"} \X (0 .. 5) \X {<<10>>}) \cup ({"tail"} \X {0, 1} \X {<<10, 0>>})
  \cup ({"disk"} \X {0, 1, 3} \X {<<10>>}) \cup ({"bench"} \X {0} \X {<<10>>})
  \cup ({"both"} \X {0, 1} \X {<<10>>, <<0>>})
\* Test T alone, with at least one trial.
MCTrialKnobs == {"tail"} \X (1 .. 5) \X {<<10>>}
=============================================================================
