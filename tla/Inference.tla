------------------------------ MODULE Inference ------------------------------
(***************************************************************************)
(* One inference process: the texture jobs and the shape jobs it serves,   *)
(* on the same threads and the same volume, or the figures.  A Modal       *)
(* worker serves one kind; the sidecar of the development stack three.     *)
(***************************************************************************)
EXTENDS TextureBake, FitMesh, V3Figure

inferenceVars == <<weightsVars, bakeVars, meshVars, figureVars>>

InferenceInit == WeightsInit /\ TextureInit /\ FitInit /\ FigureInit

\* _run_impl, texture_worker, fit_worker: a thread works on one job at a time.
Assign(t) ==
    /\ pc[t] = "idle" /\ step[t] = "idle"
    /\ \/ (\E k \in Keys : Receive(t, k)) /\ UNCHANGED meshVars
       \/ (ReceiveFit(t) \/ ReceiveMesh(t)) /\ UNCHANGED bakeVars

InferenceNext ==
    \/ /\ \E t \in Threads : \/ Assign(t)
                             \/ Bake(t) /\ UNCHANGED meshVars
                             \/ FitStep(t) /\ UNCHANGED bakeVars
       /\ UNCHANGED figureVars
    \/ FigureStep /\ UNCHANGED <<bakeVars, meshVars>>
    \/ (\E f \in Files : Volume(f)) /\ UNCHANGED <<bakeVars, meshVars, figureVars>>

InferenceSpec == InferenceInit /\ [][InferenceNext]_inferenceVars

InferenceTypeOK == TextureTypeOK /\ FitTypeOK /\ FigureTypeOK

(* Both seams keep the promise made for VULTUS_REAL_ML=1: TextureIsReal    *)
(* and FitIsReal.                                                          *)
NoDoubleWhenReal == TextureIsReal /\ FitIsReal

(* The line of a real texture or fit that ended well (of any that ended    *)
(* well with VULTUS_REAL_ML=1), and of a figure, shows what that job did,  *)
(* and a displacement its own causes: OkLineIsOwn, OkFitLineIsOwn,         *)
(* LegacyHasCause and FigureLineIsOwn.                                     *)
LinesAreOwn == OkLineIsOwn /\ OkFitLineIsOwn /\ LegacyHasCause /\ FigureLineIsOwn

(* What the branch lines promise of every texture and every fit, doubles   *)
(* and completions with them.  (Expected to fail.)                         *)
EveryLineIsOwn == EveryOkLineIsOwn /\ EveryOkFitLineIsOwn

=============================================================================
