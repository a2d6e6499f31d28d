---------------------------- MODULE MCEventStream ----------------------------
(***************************************************************************)
(* Instances of EventStream for TLC.  The threads other than the watcher   *)
(* are interchangeable in the run that checks no liveness property.        *)
(***************************************************************************)
EXTENDS EventStream, TLC

EmitterSymmetry == Permutations(Emitter \ {Watcher})

=============================================================================
