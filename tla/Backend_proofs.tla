--------------------------- MODULE Backend_proofs ----------------------------
(***************************************************************************)
(* Proofs about the inference process of the backend, alone (Inference)    *)
(* and as a part of it (Backend), for any number of threads, jobs and      *)
(* faces, every mode and every way the volume may change; and, at the end, *)
(* about the atlases, of any size and from any photo (Atlas).              *)
(*                                                                         *)
(* Everything is shown of InferenceNext first.  The parts of Backend share *)
(* no variable, so a step of the others leaves the process alone, and a    *)
(* process that rests starts in a state that satisfies the invariants too. *)
(***************************************************************************)
EXTENDS Backend, FiniteSetTheorems, TLAPS

-----------------------------------------------------------------------------
(* The texture threads.                                                    *)

\* Where a job stands when its raster, mask, light or completion is done.
Masked == {"light", "lit", "fill", "compose"}
Lit    == {"fill", "compose"}

\* The types the arguments need: of the functions written at one thread.
BakeTyped ==
    /\ on \in [Threads -> SUBSET Flags]
    /\ pc \in [Threads -> Steps \cup {"idle", "done"}]
    /\ job \in [Threads -> Keys \cup {NoKey}]
    /\ got \in [Threads -> Keys \cup {NoKey}]
    /\ took \in [Threads -> SUBSET Flags]
    /\ source \in [Threads -> {"none", "unwrap", "completion", "double"}]
    /\ raster \in Keys \cup {NoKey}

\* A thread that is free knows of no job, and its raster is that of its job.
RasterInv(t) ==
    /\ pc[t] = "idle" => got[t] = NoKey
    /\ got[t] \in {NoKey, job[t]}

\* What an HQ job took grows with the steps it passed.  The flag of the light
\* is only read where this job wrote it last.
HqInv(t) ==
    /\ pc[t] = "idle" => source[t] = "none"
    /\ pc[t] \in Steps => source[t] = "none"
    /\ Kind(t) = "hq" =>
        /\ pc[t] \in Masked => "parsing" \in took[t]
        /\ pc[t] = "lit" /\ "dpr" \in on[t] => "dpr" \in took[t]
        /\ pc[t] \in Lit => "dpr" \in took[t]
        /\ pc[t] = "compose" => "texgan" \in took[t]
        /\ source[t] = "unwrap" => {"parsing", "dpr", "texgan"} \subseteq took[t]

BakeInv == BakeTyped /\ \A t \in Threads : RasterInv(t) /\ HqInv(t)

\* Every action of a thread is written at that thread alone.
LEMMA BakeIsLocal ==
    ASSUME BakeTyped, NEW t \in Threads, NEW u \in Threads \ {t},
           Bake(t) \/ \E k \in Keys : Receive(t, k)
    PROVE  /\ pc'[u] = pc[u] /\ job'[u] = job[u] /\ got'[u] = got[u]
           /\ took'[u] = took[u] /\ source'[u] = source[u] /\ on'[u] = on[u]
BY DEF BakeTyped, Bake, Receive, ImplTexture, ImplTextureHq, BakeFlame, RealBake,
       UnwrapPose, UnwrapHq, RasterHit, RasterMiss, RasterStore, MaskTexture, MaskHq,
       DprNormalize, DprRequired, FillTexture, FillHq, Compose, Raised, TextureInfer,
       Goto, Fail, Succeed, Proceed, Write, NoWork, PerspectiveVertPx, TexturePose,
       Store, sharedVars, weightsVars, processVars, cacheVars

\* A job never works with the raster of another, and an HQ job takes what it
\* has to take on the way.
LEMMA BakeKeeps ==
    ASSUME BakeInv, NEW t \in Threads, Bake(t) \/ \E k \in Keys : Receive(t, k)
    PROVE  BakeInv'
<1> DEFINE Kept == BakeTyped' /\ RasterInv(t)' /\ HqInv(t)'
<1> USE DEF Goto, Store, Kind, RasterInv, HqInv, BakeTyped, Flags, Steps, Masked, Lit,
        sharedVars, weightsVars, processVars, cacheVars
<1>1. ASSUME ImplTexture(t) PROVE Kept
  BY <1>1 DEF BakeInv, ImplTexture, Fail, Proceed
<1>2. ASSUME ImplTextureHq(t) PROVE Kept
  BY <1>2 DEF BakeInv, ImplTextureHq, Fail, Proceed
<1>3. ASSUME BakeFlame(t) PROVE Kept
  BY <1>3 DEF BakeInv, BakeFlame, Fail, Proceed, Succeed
<1>4. ASSUME RealBake(t) PROVE Kept
  BY <1>4 DEF BakeInv, RealBake, Fail, Proceed, Succeed
<1>5. ASSUME UnwrapPose(t) PROVE Kept
  BY <1>5 DEF BakeInv, UnwrapPose, Fail, TexturePose, Write
<1>6. ASSUME UnwrapHq(t) PROVE Kept
  BY <1>6 DEF BakeInv, UnwrapHq, Fail, PerspectiveVertPx, Write
<1>7. ASSUME RasterHit(t) PROVE Kept
  BY <1>7 DEF BakeInv, RasterHit, RasterKey
<1>8. ASSUME RasterMiss(t) PROVE Kept
  BY <1>8 DEF BakeInv, RasterMiss, Proceed
<1>9. ASSUME RasterStore(t) PROVE Kept
  BY <1>9 DEF BakeInv, RasterStore
<1>10. ASSUME MaskTexture(t) PROVE Kept
  BY <1>10 DEF BakeInv, MaskTexture, Write
<1>11. ASSUME MaskHq(t) PROVE Kept
  BY <1>11 DEF BakeInv, MaskHq, Fail, Write
<1>12. ASSUME DprNormalize(t) PROVE Kept
  BY <1>12 DEF BakeInv, DprNormalize, Write
<1>13. ASSUME DprRequired(t) PROVE Kept
  BY <1>13 DEF BakeInv, DprRequired, TextureBranchStr, Fail, Proceed
<1>14. ASSUME FillTexture(t) PROVE Kept
  BY <1>14 DEF BakeInv, FillTexture, Write
<1>15. ASSUME FillHq(t) PROVE Kept
  BY <1>15 DEF BakeInv, FillHq, Fail, Write
<1>16. ASSUME Compose(t) PROVE Kept
  BY <1>16 DEF BakeInv, Compose, Succeed
<1>17. ASSUME Raised(t) PROVE Kept
  BY <1>17 DEF BakeInv, Raised, Fail
<1>18. ASSUME TextureInfer(t) PROVE Kept
  BY <1>18 DEF BakeInv, TextureInfer, NoWork
<1>19. ASSUME \E k \in Keys : Receive(t, k) PROVE Kept
  BY <1>19 DEF BakeInv, Receive
<1>20. Kept
  BY <1>1, <1>2, <1>3, <1>4, <1>5, <1>6, <1>7, <1>8, <1>9, <1>10, <1>11, <1>12, <1>13, <1>14, <1>15, <1>16, <1>17, <1>18, <1>19 DEF Bake
<1>21. \A u \in Threads \ {t} : RasterInv(u)' /\ HqInv(u)'
  BY BakeIsLocal DEF BakeInv
<1> QED BY <1>20, <1>21 DEF BakeInv

-----------------------------------------------------------------------------
(* The line of a texture job.                                              *)

\* Branches that a job may have taken when it stands at a step.
Before == {"idle", "impl", "bake", "real", "unwrap", "hq"}
Raster == {"raster", "rasterising", "mask"}
Posed  == {"pose_tex", "persp"}

\* The table says of a branch what the job did.
Agree(t, f) == f \in on[t] <=> f \in took[t]

\* A flag that the job has written is its own, in a process of one kind of
\* job: the flags still to come are stale, and no job of the kind leaves any
\* that it does not write.
LineInv(t) ==
    /\ pc[t] # "idle" => job[t] \in Keys /\ Kind(t) \in serves
    /\ pc[t] \in {"bake", "real", "unwrap"} => Kind(t) = "texture"
    /\ pc[t] = "hq" => Kind(t) = "hq"
    /\ serves = {"texture"} => "persp" \notin on[t]
    /\ pc[t] \in Before => took[t] = {}
    /\ pc[t] \in Raster => took[t] \subseteq Posed
    /\ pc[t] = "light" => took[t] \subseteq Posed \cup {"parsing"}
    /\ pc[t] \in {"lit", "fill"} => took[t] \subseteq Posed \cup {"parsing", "dpr"}
    /\ \A k \in {"texture", "hq"} : serves = {k} =>
        /\ pc[t] \in Raster \cup Masked => Agree(t, "pose_tex") /\ Agree(t, "persp")
        /\ pc[t] \in Masked => Agree(t, "parsing")
        /\ pc[t] \in Lit \cup {"lit"} => Agree(t, "dpr")
        /\ pc[t] = "compose" => Agree(t, "texgan")
        /\ source[t] = "unwrap" => \A f \in Flags : Agree(t, f)

\* The table of a thread agrees with what its job did.
LEMMA LineKeeps ==
    ASSUME BakeInv, \A u \in Threads : LineInv(u), NEW t \in Threads,
           Bake(t) \/ \E k \in Keys : Receive(t, k)
    PROVE  \A u \in Threads : LineInv(u)'
<1> USE DEF Goto, Store, Kind, LineInv, BakeTyped, Flags, Steps, Masked, Lit, Before,
        Raster, Posed, Agree, sharedVars, weightsVars, processVars, cacheVars
<1>1. ASSUME ImplTexture(t) PROVE LineInv(t)'
  BY <1>1 DEF BakeInv, HqInv, ImplTexture, Fail, Proceed
<1>2. ASSUME ImplTextureHq(t) PROVE LineInv(t)'
  BY <1>2 DEF BakeInv, HqInv, ImplTextureHq, Fail, Proceed
<1>3. ASSUME BakeFlame(t) PROVE LineInv(t)'
  BY <1>3 DEF BakeInv, HqInv, BakeFlame, Fail, Proceed, Succeed
<1>4. ASSUME RealBake(t) PROVE LineInv(t)'
  BY <1>4 DEF BakeInv, HqInv, RealBake, Fail, Proceed, Succeed
<1>5. ASSUME UnwrapPose(t) PROVE LineInv(t)'
  BY <1>5 DEF BakeInv, HqInv, UnwrapPose, Fail, TexturePose, Write
<1>6. ASSUME UnwrapHq(t) PROVE LineInv(t)'
  BY <1>6 DEF BakeInv, HqInv, UnwrapHq, Fail, PerspectiveVertPx, Write
<1>7. ASSUME RasterHit(t) PROVE LineInv(t)'
  BY <1>7 DEF BakeInv, HqInv, RasterHit
<1>8. ASSUME RasterMiss(t) PROVE LineInv(t)'
  BY <1>8 DEF BakeInv, HqInv, RasterMiss, Proceed
<1>9. ASSUME RasterStore(t) PROVE LineInv(t)'
  BY <1>9 DEF BakeInv, HqInv, RasterStore
<1>10. ASSUME MaskTexture(t) PROVE LineInv(t)'
  BY <1>10 DEF BakeInv, HqInv, MaskTexture, Write
<1>11. ASSUME MaskHq(t) PROVE LineInv(t)'
  BY <1>11 DEF BakeInv, HqInv, MaskHq, Fail, Write
<1>12. ASSUME DprNormalize(t) PROVE LineInv(t)'
  BY <1>12 DEF BakeInv, HqInv, DprNormalize, Write
<1>13. ASSUME DprRequired(t) PROVE LineInv(t)'
  BY <1>13 DEF BakeInv, HqInv, DprRequired, Fail, Proceed
<1>14. ASSUME FillTexture(t) PROVE LineInv(t)'
  BY <1>14 DEF BakeInv, HqInv, FillTexture, Write
<1>15. ASSUME FillHq(t) PROVE LineInv(t)'
  BY <1>15 DEF BakeInv, HqInv, FillHq, Fail, Write
<1>16. ASSUME Compose(t) PROVE LineInv(t)'
  BY <1>16 DEF BakeInv, HqInv, Compose, Succeed
<1>17. ASSUME Raised(t) PROVE LineInv(t)'
  BY <1>17 DEF BakeInv, HqInv, Raised, Fail
<1>18. ASSUME TextureInfer(t) PROVE LineInv(t)'
  BY <1>18 DEF BakeInv, HqInv, TextureInfer, NoWork
<1>19. ASSUME \E k \in Keys : Receive(t, k) PROVE LineInv(t)'
  BY <1>19 DEF BakeInv, HqInv, Receive, Keys, Take
<1>20. LineInv(t)'
  BY <1>1, <1>2, <1>3, <1>4, <1>5, <1>6, <1>7, <1>8, <1>9, <1>10, <1>11, <1>12, <1>13, <1>14, <1>15, <1>16, <1>17, <1>18, <1>19 DEF Bake
<1>21. serves' = serves
  BY DEF Bake, Receive, ImplTexture, ImplTextureHq, BakeFlame, RealBake, UnwrapPose,
         UnwrapHq, RasterHit, RasterMiss, RasterStore, MaskTexture, MaskHq, DprNormalize,
         DprRequired, FillTexture, FillHq, Compose, Raised, TextureInfer, Fail, Succeed,
         Proceed, Take
<1>22. \A u \in Threads \ {t} : LineInv(u)'
  BY <1>21, BakeIsLocal DEF BakeInv
<1> QED BY <1>20, <1>22

-----------------------------------------------------------------------------
(* The shape threads.                                                      *)

FitTyped ==
    /\ flags \in [Threads -> SUBSET (FitFlags \cup MoveFlags)]
    /\ step \in [Threads -> FitSteps \cup MeshSteps \cup MoveSteps \cup {"idle", "done"}]
    /\ back \in [Threads -> {"deepcam", "geocam", "glb"}]
    /\ wrote \in [Threads -> SUBSET (FitFlags \cup MoveFlags)]
    /\ moved \in [Threads -> BOOLEAN]
    /\ shape \in [Threads -> {"none", "deep3d", "geometric", "double", "mesh"}]

\* The table says of a flag what the job wrote.
Told(t, f) == f \in flags[t] <=> f \in wrote[t]

\* From the geometric way's own flag to its end, the way of its camera included.
Geometric(t) == \/ step[t] \in {"geocam", "geoend"}
                \/ step[t] \in MoveSteps /\ back[t] = "geocam"

\* A fit given up for the geometric way leaves its camera behind, but the
\* geometric way writes its flag before and its camera after.
FitInv(t) ==
    /\ step[t] = "idle" => ~moved[t]
    /\ step[t] # "done" => shape[t] = "none"
    /\ moved[t] =>
        /\ \A f \in MoveFlags : Told(t, f)
        /\ \/ \A f \in MoveFlags : f \in flags[t] <=> f = "real"
           \/ "real" \notin flags[t] /\ \E f \in Causes : f \in flags[t]
    /\ step[t] \in {"deepend", "geoend"} => Told(t, "pose")
    /\ Geometric(t) => "deep3d" \notin flags[t] /\ "deep3d" \notin wrote[t]
    /\ shape[t] \in {"deep3d", "geometric"} =>
        /\ Told(t, "pose") /\ Told(t, "deep3d")
        /\ "deep3d" \in flags[t] <=> shape[t] = "deep3d"

FitThreads == FitTyped /\ \A t \in Threads : FitInv(t)

\* Every action of a thread is written at that thread alone.
LEMMA FitIsLocal ==
    ASSUME FitTyped, NEW t \in Threads, NEW u \in Threads \ {t},
           FitStep(t) \/ ReceiveFit(t) \/ ReceiveMesh(t)
    PROVE  /\ flags'[u] = flags[u] /\ step'[u] = step[u] /\ back'[u] = back[u]
           /\ wrote'[u] = wrote[u] /\ moved'[u] = moved[u] /\ shape'[u] = shape[u]
BY DEF FitTyped, FitStep, ReceiveFit, ReceiveMesh, NewJob, ImplFit, FitFlame, RealFit,
       Deep3dFit, DeepCamera, DeepEnd, Geometry, GeometryCamera, GeometryEnd,
       TemplateReady, TemplateErr, DisplacedPositions, MeshLine, Piece, FitInfer, Enter,
       Continue, FitErr, FitOk, Displace, Set, ResolveCamera, AffinePose,
       SimilarityCamera, assetVars

\* The table of a thread agrees with the fit and with the last displacement.
LEMMA FitKeeps ==
    ASSUME FitThreads, NEW t \in Threads, FitStep(t) \/ ReceiveFit(t) \/ ReceiveMesh(t)
    PROVE  FitThreads'
<1> DEFINE Kept == FitTyped' /\ FitInv(t)'
<1> USE DEF FitInv, FitTyped, Told, Geometric, Enter, FitSteps, MeshSteps, MoveSteps,
        FitFlags, MoveFlags, Causes, assetVars, Continue, FitErr
<1>1. ASSUME ImplFit(t) PROVE Kept
  BY <1>1 DEF FitThreads, ImplFit
<1>2. ASSUME FitFlame(t) PROVE Kept
  BY <1>2 DEF FitThreads, FitFlame, FitOk
<1>3. ASSUME RealFit(t) PROVE Kept
  BY <1>3 DEF FitThreads, RealFit
<1>4. ASSUME Deep3dFit(t) PROVE Kept
  BY <1>4 DEF FitThreads, Deep3dFit, Displace
<1>5. ASSUME DeepCamera(t) PROVE Kept
  BY <1>5 DEF FitThreads, DeepCamera, ResolveCamera, AffinePose, SimilarityCamera, Set
<1>6. ASSUME DeepEnd(t) PROVE Kept
  BY <1>6 DEF FitThreads, DeepEnd, Set
<1>7. ASSUME Geometry(t) PROVE Kept
  BY <1>7 DEF FitThreads, Geometry, Displace, Set
<1>8. ASSUME GeometryCamera(t) PROVE Kept
  BY <1>8 DEF FitThreads, GeometryCamera, ResolveCamera, AffinePose, SimilarityCamera, Set
<1>9. ASSUME GeometryEnd(t) PROVE Kept
  BY <1>9 DEF FitThreads, GeometryEnd, FitOk
<1>10. ASSUME TemplateReady(t) PROVE Kept
  BY <1>10 DEF FitThreads, TemplateReady
<1>11. ASSUME TemplateErr(t) PROVE Kept
  BY <1>11 DEF FitThreads, TemplateErr
<1>12. ASSUME DisplacedPositions(t) PROVE Kept
  BY <1>12 DEF FitThreads, DisplacedPositions, Set, LoadHifiBasis, LoadTransfer, RealDisplacement
<1>13. ASSUME MeshLine(t) PROVE Kept
  BY <1>13 DEF FitThreads, MeshLine, Displace
<1>14. ASSUME Piece(t) PROVE Kept
  BY <1>14 DEF FitThreads, Piece, Displace
<1>15. ASSUME FitInfer(t) PROVE Kept
  BY <1>15 DEF FitThreads, FitInfer
<1>16. ASSUME ReceiveFit(t) PROVE Kept
  BY <1>16 DEF FitThreads, ReceiveFit, NewJob
<1>17. ASSUME ReceiveMesh(t) PROVE Kept
  BY <1>17 DEF FitThreads, ReceiveMesh, NewJob
<1>18. Kept
  BY <1>1, <1>2, <1>3, <1>4, <1>5, <1>6, <1>7, <1>8, <1>9, <1>10, <1>11, <1>12, <1>13, <1>14, <1>15, <1>16, <1>17 DEF FitStep
<1>19. \A u \in Threads \ {t} : FitInv(u)'
  BY FitIsLocal DEF FitThreads
<1> QED BY <1>18, <1>19 DEF FitThreads

-----------------------------------------------------------------------------
(* The figure.                                                             *)

\* The stages before the first branch is set.
Bare == {"idle", "fetch", "spool", "entry", "landmarks", "dense", "deep3d"}

\* The stages from one of them on.
FromUvs   == {"uvs", "glb", "bundle"}
FromLight == FromUvs \cup {"light"}
FromCrop  == FromLight \cup {"crop", "atlas"}
FromPose  == FromCrop \cup {"pose"}
FromShape == FromPose \cup {"shape"}

\* A stage is only reached with the branches of those before it, what raises
\* does so before the first, and the photo is there from its spooling to the
\* unlink.
FigureInv ==
    /\ stage \in Stages \cup {"idle", "unlink", "over"}
    /\ stats \subseteq Branches
    /\ stage \in Bare => stats = {}
    /\ stage \in FromShape => "deep3d" \in stats
    /\ stage \in FromPose  => "displacement" \in stats
    /\ stage \in FromCrop  => "pose" \in stats
    /\ stage \in FromLight => "texgan" \in stats
    /\ stage \in FromUvs   => "dpr" \in stats
    /\ stage \notin {"unlink", "over"} => parts = {} /\ lines = 0
    /\ parts = {} \/ (stats = Branches /\ line = Branches /\ lines = 1)
    /\ stage \in {"unlink", "over"} =>
        /\ lines = 1 => line = stats
        /\ stats # {} /\ "basis" \notin Volatile => lines = 1
    /\ stage \in {"idle", "fetch", "spool"} => photo = "none"
    /\ stage = "over" => photo # "whole"

\* The ends of a stage keep it.
LEMMA FigureEnds ==
    ASSUME FigureInv, stage \notin {"unlink", "over"}, NEW result, Done(result),
           result # {} => stats = Branches
    PROVE  FigureInv'
<1>1. lines' = 1 /\ line' = stats /\ stats' = stats /\ parts' = result /\ stage' = "unlink"
  BY DEF FigureInv, Done
<1> QED BY <1>1 DEF FigureInv, Stages, Bare, FromUvs, FromLight, FromCrop, FromPose, FromShape

\* A stage that sets its branch hands on all that its successors need.
LEMMA FigureGoesOn ==
    ASSUME FigureInv, stage \notin Bare \ {"deep3d"}, NEW s \in FromShape,
           NEW b \in Branches, Took(b, s), stage \notin {"unlink", "over"},
           s \in FromShape => "deep3d" \in stats \cup {b},
           s \in FromPose  => "displacement" \in stats \cup {b},
           s \in FromCrop  => "pose" \in stats \cup {b},
           s \in FromLight => "texgan" \in stats \cup {b},
           s \in FromUvs   => "dpr" \in stats \cup {b}
    PROVE  FigureInv'
<1>1. /\ stats' = stats \cup {b} /\ stage' = s /\ parts' = {} /\ lines' = 0
      /\ stage' \notin Bare \cup {"unlink", "over"} /\ stage' \in Stages
  BY DEF FigureInv, Took, Bare, FromUvs, FromLight, FromCrop, FromPose, FromShape, Stages
<1>2. stats' \subseteq Branches
  BY <1>1 DEF FigureInv
<1> QED BY <1>1, <1>2 DEF FigureInv, Bare

\* Every stage of the chain keeps the invariant of the figure.
LEMMA FigureKeeps == FigureInv /\ FigureStep => FigureInv'
<1> SUFFICES ASSUME FigureInv, FigureStep PROVE FigureInv'
  OBVIOUS
<1> USE DEF Bare, FromUvs, FromLight, FromCrop, FromPose, FromShape, Stages
<1>1. ASSUME stage \notin {"unlink", "over"}, FigureErr PROVE FigureInv'
  BY <1>1, FigureEnds DEF FigureErr
<1>2. CASE ReceiveFigure
  BY <1>1, <1>2 DEF FigureInv, ReceiveFigure, To, Raise, Load
<1>3. CASE FetchPhoto
  BY <1>1, <1>3 DEF FigureInv, FetchPhoto, To, Raise, Load
<1>4. CASE Spool
  BY <1>1, <1>4 DEF FigureInv, Spool, To, Raise, Load
<1>5. CASE Entry
  BY <1>1, <1>5 DEF FigureInv, Entry, To, Raise, Load
<1>6. CASE Landmarks
  BY <1>1, <1>6 DEF FigureInv, Landmarks, To, Raise, Load
<1>7. CASE Dense
  BY <1>1, <1>7 DEF FigureInv, Dense, To, Raise, Load
<1>8. CASE Deep3d
  <2>1. CASE Took("deep3d", "shape")
    BY <1>8, <2>1, FigureGoesOn DEF Deep3d, FigureInv, Branches
  <2> QED BY <1>1, <1>8, <2>1 DEF Deep3d
<1>9. CASE ComputeShape
  <2>1. CASE Took("displacement", "pose")
    BY <1>9, <2>1, FigureGoesOn DEF ComputeShape, FigureInv, Branches
  <2> QED BY <1>1, <1>9, <2>1 DEF ComputeShape
<1>10. CASE Pose
  <2>1. CASE Took("pose", "crop")
    BY <1>10, <2>1, FigureGoesOn DEF Pose, FigureInv, Branches
  <2> QED BY <1>1, <1>10, <2>1 DEF Pose
<1>11. CASE Crop
  BY <1>1, <1>11 DEF FigureInv, Crop, To, Raise, Load
<1>12. CASE AssembleV3Atlas
  <2>1. CASE Took("texgan", "light")
    BY <1>12, <2>1, FigureGoesOn DEF AssembleV3Atlas, FigureInv, Branches
  <2> QED BY <1>1, <1>12, <2>1 DEF AssembleV3Atlas
<1>13. CASE Light
  <2>1. CASE Took("dpr", "uvs")
    BY <1>13, <2>1, FigureGoesOn DEF Light, FigureInv, Branches
  <2> QED BY <1>1, <1>13, <2>1 DEF Light
<1>14. CASE DenseUv
  BY <1>1, <1>14 DEF FigureInv, DenseUv, To, Raise, Load
<1>15. CASE DenseGlb
  BY <1>1, <1>15 DEF FigureInv, DenseGlb, To, Raise, Load
<1>16. CASE Bundle
  <2>1. stats = Branches
    BY <1>16 DEF Bundle, FigureInv, Branches
  <2> QED BY <1>1, <1>16, <2>1, FigureEnds DEF Bundle
<1>17. CASE Unlink
  BY <1>1, <1>17 DEF FigureInv, Unlink, To, Raise, Load
<1>18. CASE FigureInfer
  BY <1>1, <1>18 DEF FigureInv, FigureInfer, To, Raise, Load
<1> QED BY <1>2, <1>3, <1>4, <1>5, <1>6, <1>7, <1>8, <1>9, <1>10, <1>11, <1>12, <1>13, <1>14, <1>15, <1>16, <1>17, <1>18 DEF FigureStep

-----------------------------------------------------------------------------
(* The promise of VULTUS_REAL_ML=1: nothing that a gate lets through is a  *)
(* double, at whichever gate the file is missed.                           *)

RealInv == RealMl => /\ \A t \in Threads : source[t] \in {"none", "unwrap"}
                     /\ \A t \in Threads : shape[t] # "double"
                     /\ template # "synthetic"

\* A texture thread brings no double in: the mode it looked at does not change.
LEMMA BakeIsReal ==
    ASSUME BakeTyped, RealInv, NEW t \in Threads, Bake(t) \/ \E k \in Keys : Receive(t, k),
           UNCHANGED meshVars
    PROVE  RealInv'
<1>1. mode' = mode /\ shape' = shape /\ template' = template
  BY DEF meshVars, assetVars, Bake, Receive, ImplTexture, ImplTextureHq, BakeFlame,
         RealBake, UnwrapPose, UnwrapHq, RasterHit, RasterMiss, RasterStore, MaskTexture,
         MaskHq, DprNormalize, DprRequired, FillTexture, FillHq, Compose, Raised,
         TextureInfer, Fail, Succeed, Proceed, Take, sharedVars, weightsVars, processVars
<1>2. RealMl => source'[t] \in {"none", "unwrap"}
  BY DEF RealInv, BakeTyped, Bake, Receive, ImplTexture, ImplTextureHq, BakeFlame,
         RealBake, UnwrapPose, UnwrapHq, RasterHit, RasterMiss, RasterStore, MaskTexture,
         MaskHq, DprNormalize, DprRequired, FillTexture, FillHq, Compose, Raised,
         TextureInfer, Fail, Succeed, Proceed, NoWork
<1> QED BY <1>1, <1>2, BakeIsLocal DEF RealInv, RealMl

\* Nor does a shape thread, by a double or by the synthetic template.
LEMMA FitStaysReal ==
    ASSUME FitTyped, RealInv, NEW t \in Threads, UNCHANGED bakeVars,
           FitStep(t) \/ ReceiveFit(t) \/ ReceiveMesh(t)
    PROVE  RealInv'
<1>1. mode' = mode /\ source' = source
  BY DEF bakeVars, localVars, FitStep, ReceiveFit, ReceiveMesh, NewJob, ImplFit, FitFlame,
         RealFit, Deep3dFit, DeepCamera, DeepEnd, Geometry, GeometryCamera, GeometryEnd,
         TemplateReady, TemplateErr, DisplacedPositions, MeshLine, Piece, FitInfer,
         Continue, FitErr, FitOk, ResolveCamera, Take, weightsVars, processVars
<1>2. RealMl => shape'[t] # "double" /\ template' # "synthetic"
  BY DEF RealInv, FitTyped, FitStep, ReceiveFit, ReceiveMesh, NewJob, ImplFit, FitFlame,
         RealFit, Deep3dFit, DeepCamera, DeepEnd, Geometry, GeometryCamera, GeometryEnd,
         TemplateReady, TemplateErr, DisplacedPositions, MeshLine, Piece, FitInfer,
         Continue, FitErr, FitOk, ResolveCamera, assetVars
<1> QED BY <1>1, <1>2, FitIsLocal DEF RealInv, RealMl

-----------------------------------------------------------------------------
(* The process, and the process among the parts of the backend.            *)

ProcessInv ==
    /\ BakeInv /\ \A t \in Threads : LineInv(t)
    /\ FitThreads /\ FigureInv /\ RealInv
    /\ serves \subseteq Kinds

\* Mode and kinds are those the process was started with.
LEMMA ModeStays == InferenceNext => UNCHANGED <<mode, serves>>
<1>1. ASSUME NEW t \in Threads, Bake(t) PROVE UNCHANGED <<mode, serves>>
  BY <1>1 DEF Bake, ImplTexture, ImplTextureHq, BakeFlame, RealBake, UnwrapPose,
     UnwrapHq, RasterHit, RasterMiss, RasterStore, MaskTexture, MaskHq, DprNormalize,
     DprRequired, FillTexture, FillHq, Compose, Raised, TextureInfer, Fail, Succeed,
     Proceed, sharedVars, weightsVars, processVars
<1>2. ASSUME NEW t \in Threads, FitStep(t) PROVE UNCHANGED <<mode, serves>>
  BY <1>2 DEF FitStep, ImplFit, FitFlame, RealFit, Deep3dFit, DeepCamera, DeepEnd,
     Geometry, GeometryCamera, GeometryEnd, TemplateReady, TemplateErr,
     DisplacedPositions, MeshLine, Piece, FitInfer, Continue, FitErr, FitOk,
     ResolveCamera, weightsVars, processVars
<1>3. ASSUME NEW t \in Threads, Assign(t) PROVE UNCHANGED <<mode, serves>>
  BY <1>3 DEF Assign, Receive, ReceiveFit, ReceiveMesh, NewJob, Take, processVars
<1>4. ASSUME FigureStep PROVE UNCHANGED <<mode, serves>>
  BY <1>4 DEF FigureStep, ReceiveFigure, Take, FetchPhoto, Spool, Entry, Landmarks,
     Dense, Deep3d, ComputeShape, Pose, Crop, AssembleV3Atlas, Light, DenseUv, DenseGlb,
     Bundle, Unlink, FigureInfer, To, Took, Done, FigureErr, Raise, Load, weightsVars,
     processVars
<1>5. ASSUME NEW f \in Files, Volume(f) PROVE UNCHANGED <<mode, serves>>
  BY <1>5 DEF Volume
<1> QED BY <1>1, <1>2, <1>3, <1>4, <1>5 DEF InferenceNext

\* A process that starts, or rests, satisfies the invariant.
LEMMA ProcessStarts == InferenceInit \/ ProcessRests => ProcessInv
<1> SUFFICES ASSUME TextureInit, FitInit, FigureInit, serves \subseteq Kinds PROVE ProcessInv
  BY WeightsAssumption DEF InferenceInit, ProcessRests, WeightsInit
<1>1. BakeInv /\ \A t \in Threads : LineInv(t)
  BY DEF TextureInit, BakeInv, BakeTyped, RasterInv, HqInv, LineInv, Kind, NoKey, Steps,
     Masked, Lit, Before, Raster, Agree
<1>2. FitThreads
  BY DEF FitInit, FitThreads, FitTyped, FitInv, Told, Geometric, MoveSteps
<1>3. FigureInv
  BY DEF FigureInit, FigureInv, Bare, FromUvs, FromLight, FromCrop, FromPose, FromShape
<1>4. RealInv
  BY DEF TextureInit, FitInit, RealInv
<1> QED BY <1>1, <1>2, <1>3, <1>4 DEF ProcessInv

\* What does not touch the variables of a part leaves its invariant.
LEMMA Untouched ==
    ASSUME ProcessInv, UNCHANGED <<mode, serves>>
    PROVE  /\ UNCHANGED bakeVars => BakeInv' /\ \A t \in Threads : LineInv(t)'
           /\ UNCHANGED meshVars => FitThreads'
           /\ UNCHANGED figureVars => FigureInv'
           /\ UNCHANGED <<bakeVars, meshVars>> => RealInv'
<1>1. UNCHANGED bakeVars => BakeInv' /\ \A t \in Threads : LineInv(t)'
  BY DEF ProcessInv, bakeVars, cacheVars, localVars, BakeInv, BakeTyped, RasterInv, HqInv,
     LineInv, Kind, Agree
<1>2. UNCHANGED meshVars => FitThreads'
  BY DEF ProcessInv, meshVars, FitThreads, FitTyped, FitInv, Told, Geometric
<1>3. UNCHANGED figureVars => FigureInv'
  BY DEF ProcessInv, figureVars, FigureInv
<1>4. UNCHANGED <<bakeVars, meshVars>> => RealInv'
  BY DEF ProcessInv, bakeVars, localVars, meshVars, assetVars, RealInv, RealMl
<1> QED BY <1>1, <1>2, <1>3, <1>4

\* Every step of a process keeps it, whichever of its threads takes it.
LEMMA ProcessKeeps == ProcessInv /\ InferenceNext => ProcessInv'
<1> SUFFICES ASSUME ProcessInv, InferenceNext PROVE ProcessInv'
  OBVIOUS
<1>0. serves' \subseteq Kinds /\ UNCHANGED <<mode, serves>>
  BY ModeStays DEF ProcessInv
<1>1. ASSUME NEW t \in Threads, Bake(t) \/ \E k \in Keys : Receive(t, k),
             UNCHANGED meshVars, UNCHANGED figureVars
      PROVE  ProcessInv'
  BY <1>0, <1>1, Untouched, BakeKeeps, LineKeeps, BakeIsReal DEF ProcessInv, BakeInv
<1>2. ASSUME NEW t \in Threads, FitStep(t) \/ ReceiveFit(t) \/ ReceiveMesh(t),
             UNCHANGED bakeVars, UNCHANGED figureVars
      PROVE  ProcessInv'
  BY <1>0, <1>2, Untouched, FitKeeps, FitStaysReal DEF ProcessInv, FitThreads
<1>3. ASSUME FigureStep, UNCHANGED <<bakeVars, meshVars>> PROVE ProcessInv'
  BY <1>0, <1>3, Untouched, FigureKeeps DEF ProcessInv
<1>4. ASSUME UNCHANGED <<bakeVars, meshVars, figureVars>> PROVE ProcessInv'
  BY <1>0, <1>4, Untouched DEF ProcessInv
<1> QED BY <1>1, <1>2, <1>3, <1>4 DEF InferenceNext, Assign

\* So does every step of the backend: the other parts leave the process alone.
LEMMA BackendKeeps == ProcessInv /\ [BackendNext]_backendVars => ProcessInv'
<1> SUFFICES ASSUME ProcessInv, [BackendNext]_backendVars PROVE ProcessInv'
  OBVIOUS
<1>1. CASE UNCHANGED processPart
  BY <1>1, Untouched DEF processPart, weightsVars, processVars, ProcessInv
<1> QED BY <1>1, ProcessKeeps DEF BackendNext, ProcessStep, WireStep, EnvelopeStep,
        AtlasStep, MeshStep, backendVars

\* The invariant holds of the process whatever part of the backend runs.
LEMMA ProcessInvHolds == BackendSpec => []ProcessInv
<1>1. BackendInit => ProcessInv
  BY ProcessStarts DEF BackendInit
<1> QED BY <1>1, BackendKeeps, PTL DEF BackendSpec

-----------------------------------------------------------------------------
(* Theorems.                                                               *)

\* A job samples the photo with the raster of its own face and size, however
\* many threads replace the cached one.
THEOREM RasterStaysOwn == BackendSpec => []RasterIsOwn
<1>1. ProcessInv => RasterIsOwn
  BY DEF ProcessInv, BakeInv, RasterInv, RasterIsOwn
<1> QED BY <1>1, ProcessInvHolds, PTL

\* An HQ texture that is served took skin mask, light and synthesis itself.
THEOREM HqNeverDegrades == BackendSpec => []HqIsStrict
<1>1. ProcessInv => HqIsStrict
  BY DEF ProcessInv, BakeInv, HqInv, HqIsStrict, Finished
<1> QED BY <1>1, ProcessInvHolds, PTL

\* With VULTUS_REAL_ML=1 no double of a texture, a fit or a template is used,
\* however the volume changes between the gates.
THEOREM RealStaysReal == BackendSpec => []NoDoubleWhenReal
<1>1. ProcessInv => NoDoubleWhenReal
  BY DEF ProcessInv, RealInv, NoDoubleWhenReal, TextureIsReal, FitIsReal
<1> QED BY <1>1, ProcessInvHolds, PTL

\* A figure that is answered took all five branches and left no photo.
THEOREM FigureComesWhole == BackendSpec => []FigureIsWhole
<1>1. ProcessInv => FigureIsWhole
  BY DEF ProcessInv, FigureInv, FigureIsWhole, Over
<1> QED BY <1>1, ProcessInvHolds, PTL

\* The line of a real texture or fit, and with VULTUS_REAL_ML=1 of any that ends
\* well, shows the branches of that job, whatever the thread served before it; so
\* does a figure's, and a displacement shows its own causes.
THEOREM LinesStayOwn == BackendSpec => []LinesAreOwn
<1>1. ASSUME serves \subseteq Kinds, Cardinality(serves) = 1
      PROVE  \E k \in Kinds : serves = {k}
  <2>1. IsFiniteSet(Kinds)
    <3>1. IsFiniteSet({"fit"})
      BY FS_Singleton
    <3>2. IsFiniteSet({"fit"} \cup {"texture"})
      BY <3>1, FS_AddElement
    <3>3. IsFiniteSet(({"fit"} \cup {"texture"}) \cup {"hq"})
      BY <3>2, FS_AddElement
    <3>4. IsFiniteSet((({"fit"} \cup {"texture"}) \cup {"hq"}) \cup {"mesh"})
      BY <3>3, FS_AddElement
    <3>5. IsFiniteSet(((({"fit"} \cup {"texture"}) \cup {"hq"}) \cup {"mesh"}) \cup {"figure"})
      BY <3>4, FS_AddElement
    <3>6. Kinds = ((({"fit"} \cup {"texture"}) \cup {"hq"}) \cup {"mesh"}) \cup {"figure"}
      BY DEF Kinds
    <3> QED BY <3>5, <3>6
  <2> QED BY <1>1, <2>1, FS_Subset, FS_Singleton
<1>2. ProcessInv => OkLineIsOwn
  <2> SUFFICES ASSUME ProcessInv, NEW t \in Threads, RealMl \/ source[t] = "unwrap",
                      pc[t] = "done", source[t] # "none", Cardinality(serves) = 1
               PROVE  on[t] = took[t]
    BY DEF OkLineIsOwn, LineIsOwn, TextureBranchStr, Store
  <2>0. Finished(t, "unwrap")
    BY DEF ProcessInv, RealInv, Finished
  <2>1. job[t] \in Keys /\ serves = {Kind(t)}
    BY <1>1, <2>0 DEF ProcessInv, LineInv, Finished
  <2>2. Kind(t) \in {"texture", "hq"}
    BY <2>1 DEF Keys, Kind
  <2>3. \A f \in Flags : f \in on[t] <=> f \in took[t]
    BY <2>0, <2>1, <2>2 DEF ProcessInv, LineInv, Finished, Agree
  <2> QED BY <2>3 DEF ProcessInv, BakeInv, BakeTyped
<1>3. ProcessInv => OkFitLineIsOwn
  <2> SUFFICES ASSUME ProcessInv, NEW t \in Threads, step[t] = "done",
                      RealMl \/ shape[t] # "double",
                      shape[t] \in {"deep3d", "geometric", "double"}
               PROVE  /\ flags[t] \cap FitFlags = wrote[t] \cap FitFlags
                      /\ "deep3d" \in flags[t] <=> shape[t] = "deep3d"
    BY DEF OkFitLineIsOwn, FitLineIsOwn
  <2>1. shape[t] \in {"deep3d", "geometric"}
    BY DEF ProcessInv, RealInv
  <2> QED BY <2>1 DEF ProcessInv, FitThreads, FitInv, Told, FitFlags
<1>4. ProcessInv => LegacyHasCause
  BY DEF ProcessInv, FitThreads, FitInv, Told, LegacyHasCause, MoveFlags, Causes
<1>5. ProcessInv => FigureLineIsOwn
  BY DEF ProcessInv, FigureInv, FigureLineIsOwn, Over
<1>6. ProcessInv => LinesAreOwn
  BY <1>2, <1>3, <1>4, <1>5 DEF LinesAreOwn
<1> QED BY <1>6, ProcessInvHolds, PTL

-----------------------------------------------------------------------------
(* Types.                                                                  *)

\* What BakeTyped, FitTyped and FigureInv leave open.
WeightsTyped == disk \subseteq Files /\ mode \in {"1", "0", "auto"} /\ jobs \in 0 .. MaxJobs

AssetsTyped ==
    /\ template \in {"none", "file", "synthetic"}
    /\ cached \subseteq {"basis", "transfer"}
    /\ work \in [Threads -> {"fit", "mesh"}]
    /\ left \in [Threads -> 0 .. Pieces]
    /\ shown \in [Threads -> SUBSET MoveFlags]

FigureTyped ==
    /\ loaded \subseteq {"landmarker", "parsing"}
    /\ lines \in 0 .. 1 /\ line \subseteq Branches
    /\ photo \in {"none", "partial", "whole"}
    /\ parts \in {{}, Pieces6}

\* A mesh job has a piece to make wherever it may come to making one.
PieceLeft(t) ==
    step[t] \in MeshSteps \/ (step[t] \in MoveSteps /\ back[t] = "glb") => left[t] # 0

TypesInv == /\ WeightsTyped /\ net \in BOOLEAN
            /\ AssetsTyped /\ \A t \in Threads : PieceLeft(t)
            /\ FigureTyped

LEMMA WeightsStayTyped ==
    ASSUME WeightsTyped, InferenceNext
    PROVE  WeightsTyped'
<1> DEFINE Same == /\ disk' = disk /\ mode' = mode
                   /\ jobs' = jobs \/ (jobs' = jobs + 1 /\ jobs < MaxJobs)
<1>1. ASSUME NEW t \in Threads, Bake(t) PROVE disk' = disk /\ mode' = mode /\ jobs' = jobs
  BY <1>1 DEF Bake, ImplTexture, ImplTextureHq, BakeFlame, RealBake, UnwrapPose,
     UnwrapHq, RasterHit, RasterMiss, RasterStore, MaskTexture, MaskHq, DprNormalize,
     DprRequired, FillTexture, FillHq, Compose, Raised, TextureInfer, Fail, Succeed,
     Proceed, sharedVars, weightsVars, processVars
<1>2. ASSUME NEW t \in Threads, FitStep(t) PROVE disk' = disk /\ mode' = mode /\ jobs' = jobs
  BY <1>2 DEF FitStep, ImplFit, FitFlame, RealFit, Deep3dFit, DeepCamera, DeepEnd,
     Geometry, GeometryCamera, GeometryEnd, TemplateReady, TemplateErr,
     DisplacedPositions, MeshLine, Piece, FitInfer, Continue, FitErr, FitOk,
     ResolveCamera, weightsVars, processVars
<1>3. ASSUME NEW t \in Threads, Assign(t) PROVE Same
  BY <1>3 DEF Assign, Receive, ReceiveFit, ReceiveMesh, NewJob, Take, processVars
<1>4. ASSUME FigureStep PROVE Same
  <2>1. CASE ReceiveFigure
    BY <2>1 DEF ReceiveFigure, Take, processVars
  <2>2. ASSUME ~ReceiveFigure PROVE disk' = disk /\ mode' = mode /\ jobs' = jobs
    BY <1>4, <2>2 DEF FigureStep, FetchPhoto, Spool, Entry, Landmarks, Dense, Deep3d,
       ComputeShape, Pose, Crop, AssembleV3Atlas, Light, DenseUv, DenseGlb, Bundle,
       Unlink, FigureInfer, To, Took, Done, FigureErr, Raise, Load, weightsVars, processVars
  <2> QED BY <2>1, <2>2
<1>5. ASSUME NEW f \in Files, Volume(f) PROVE WeightsTyped'
  BY <1>5 DEF Volume, WeightsTyped
<1>6. Same => WeightsTyped'
  BY WeightsAssumption DEF WeightsTyped
<1>7. ASSUME NEW t \in Threads, Bake(t) \/ FitStep(t) PROVE Same
  BY <1>1, <1>2, <1>7
<1> HIDE DEF Same
<1> QED BY <1>3, <1>4, <1>5, <1>6, <1>7 DEF InferenceNext

LEMMA NetStaysTyped ==
    ASSUME net \in BOOLEAN, NEW t \in Threads, Bake(t) \/ \E k \in Keys : Receive(t, k)
    PROVE  net' \in BOOLEAN
<1>1. net' = net \/ net' = TRUE \/ \E masked \in BOOLEAN : net' = (net \/ masked)
  BY DEF Bake, Receive, ImplTexture, ImplTextureHq, BakeFlame, RealBake, UnwrapPose,
     UnwrapHq, RasterHit, RasterMiss, RasterStore, MaskTexture, MaskHq, DprNormalize,
     DprRequired, FillTexture, FillHq, Compose, Raised, TextureInfer, Fail, Succeed,
     Proceed, sharedVars, cacheVars
<1> QED BY <1>1

LEMMA AssetsStayTyped ==
    ASSUME FitTyped, AssetsTyped, \A u \in Threads : PieceLeft(u),
           NEW t \in Threads, FitStep(t) \/ ReceiveFit(t) \/ ReceiveMesh(t)
    PROVE  AssetsTyped' /\ \A u \in Threads : PieceLeft(u)'
<1> DEFINE Kept == AssetsTyped' /\ \A u \in Threads : PieceLeft(u)'
<1> USE DEF FitTyped, AssetsTyped, PieceLeft, Enter, FitSteps, MeshSteps, MoveSteps,
        assetVars, Continue, FitErr
<1>1. ASSUME ImplFit(t) PROVE Kept
  <2>1. AssetsTyped'
    BY <1>1 DEF ImplFit
  <2>2. ASSUME NEW u \in Threads PROVE PieceLeft(u)'
    BY <1>1 DEF ImplFit
  <2> QED BY <2>1, <2>2
<1>2. ASSUME FitFlame(t) PROVE Kept
  <2>1. AssetsTyped'
    BY <1>2 DEF FitFlame, FitOk
  <2>2. ASSUME NEW u \in Threads PROVE PieceLeft(u)'
    BY <1>2 DEF FitFlame, FitOk
  <2> QED BY <2>1, <2>2
<1>3. ASSUME RealFit(t) PROVE Kept
  <2>1. AssetsTyped'
    BY <1>3 DEF RealFit
  <2>2. ASSUME NEW u \in Threads PROVE PieceLeft(u)'
    BY <1>3 DEF RealFit
  <2> QED BY <2>1, <2>2
<1>4. ASSUME Deep3dFit(t) PROVE Kept
  <2>1. AssetsTyped'
    BY <1>4 DEF Deep3dFit, Displace
  <2>2. ASSUME NEW u \in Threads PROVE PieceLeft(u)'
    BY <1>4 DEF Deep3dFit, Displace
  <2> QED BY <2>1, <2>2
<1>5. ASSUME DeepCamera(t) PROVE Kept
  <2>1. AssetsTyped'
    BY <1>5 DEF DeepCamera, ResolveCamera
  <2>2. ASSUME NEW u \in Threads PROVE PieceLeft(u)'
    BY <1>5 DEF DeepCamera, ResolveCamera
  <2> QED BY <2>1, <2>2
<1>6. ASSUME DeepEnd(t) PROVE Kept
  <2>1. AssetsTyped'
    BY <1>6 DEF DeepEnd
  <2>2. ASSUME NEW u \in Threads PROVE PieceLeft(u)'
    BY <1>6 DEF DeepEnd
  <2> QED BY <2>1, <2>2
<1>7. ASSUME Geometry(t) PROVE Kept
  <2>1. AssetsTyped'
    BY <1>7 DEF Geometry, Displace
  <2>2. ASSUME NEW u \in Threads PROVE PieceLeft(u)'
    BY <1>7 DEF Geometry, Displace
  <2> QED BY <2>1, <2>2
<1>8. ASSUME GeometryCamera(t) PROVE Kept
  <2>1. AssetsTyped'
    BY <1>8 DEF GeometryCamera, ResolveCamera
  <2>2. ASSUME NEW u \in Threads PROVE PieceLeft(u)'
    BY <1>8 DEF GeometryCamera, ResolveCamera
  <2> QED BY <2>1, <2>2
<1>9. ASSUME GeometryEnd(t) PROVE Kept
  <2>1. AssetsTyped'
    BY <1>9 DEF GeometryEnd, FitOk
  <2>2. ASSUME NEW u \in Threads PROVE PieceLeft(u)'
    BY <1>9 DEF GeometryEnd, FitOk
  <2> QED BY <2>1, <2>2
<1>10. ASSUME TemplateReady(t) PROVE Kept
  <2>1. AssetsTyped'
    BY <1>10 DEF TemplateReady
  <2>2. ASSUME NEW u \in Threads PROVE PieceLeft(u)'
    BY <1>10 DEF TemplateReady
  <2> QED BY <2>1, <2>2
<1>11. ASSUME TemplateErr(t) PROVE Kept
  <2>1. AssetsTyped'
    BY <1>11 DEF TemplateErr
  <2>2. ASSUME NEW u \in Threads PROVE PieceLeft(u)'
    BY <1>11 DEF TemplateErr
  <2> QED BY <2>1, <2>2
<1>12. ASSUME DisplacedPositions(t) PROVE Kept
  <2>1. AssetsTyped'
    BY <1>12 DEF DisplacedPositions
  <2>2. ASSUME NEW u \in Threads PROVE PieceLeft(u)'
    BY <1>12 DEF DisplacedPositions
  <2> QED BY <2>1, <2>2
<1>13. ASSUME MeshLine(t) PROVE Kept
  BY <1>13 DEF MeshLine, Displace, DisplaceBranchStr, FitFlags, MoveFlags
<1>14. ASSUME Piece(t) PROVE Kept
  <2>1. CASE FitErr(t)
    BY <2>1
  <2>2. CASE ~FitErr(t)
    <3>1. /\ step[t] = "glb" /\ left' = [left EXCEPT ![t] = left[t] - 1]
          /\ UNCHANGED <<template, cached, work, shown>>
          /\ left[t] = 1 => step' = [step EXCEPT ![t] = "done"] /\ back' = back
          /\ left[t] # 1 => /\ step' = [step EXCEPT ![t] = "template"]
                            /\ back' = [back EXCEPT ![t] = "glb"]
      BY <1>14, <2>2 DEF Piece, Displace
    <3>2. left[t] \in 1 .. Pieces
      BY <3>1, PiecesAssumption
    <3>3. left[t] - 1 \in 0 .. Pieces /\ (left[t] # 1 => left[t] - 1 # 0)
      BY <3>2, PiecesAssumption
    <3>4. AssetsTyped'
      BY <3>1, <3>3
    <3>5. ASSUME NEW u \in Threads PROVE PieceLeft(u)'
      BY <3>1, <3>3
    <3> QED BY <3>4, <3>5
  <2> QED BY <2>1, <2>2
<1>15. ASSUME FitInfer(t) PROVE Kept
  BY <1>15, PiecesAssumption DEF FitInfer
<1>16. ASSUME ReceiveFit(t) PROVE Kept
  BY <1>16 DEF ReceiveFit, NewJob
<1>17. ASSUME ReceiveMesh(t) PROVE Kept
  BY <1>17, PiecesAssumption DEF ReceiveMesh, NewJob
<1> QED BY <1>1, <1>2, <1>3, <1>4, <1>5, <1>6, <1>7, <1>8, <1>9, <1>10, <1>11, <1>12, <1>13, <1>14, <1>15, <1>16, <1>17 DEF FitStep

LEMMA FigureStaysTyped ==
    ASSUME FigureInv, FigureTyped, FigureStep
    PROVE  FigureTyped'
<1> USE DEF FigureTyped, Stages
<1>1. ASSUME stage \notin {"unlink", "over"}, NEW result \in {{}, Pieces6}, Done(result)
      PROVE  FigureTyped'
  BY <1>1 DEF FigureInv, Done
<1>2. ASSUME stage \notin {"unlink", "over"}, FigureErr PROVE FigureTyped'
  BY <1>1, <1>2 DEF FigureErr
<1>3. ASSUME NEW s, To(s) PROVE FigureTyped'
  BY <1>3 DEF To
<1>4. ASSUME NEW b, NEW s, Took(b, s) PROVE FigureTyped'
  BY <1>4 DEF Took
<1>5. ASSUME NEW net0 \in {"landmarker", "parsing"}, NEW s, Load(net0, s) PROVE FigureTyped'
  BY <1>5 DEF Load
<1>6. ASSUME ReceiveFigure \/ FetchPhoto \/ Spool PROVE FigureTyped'
  <2>1. CASE ReceiveFigure
    BY <2>1 DEF ReceiveFigure
  <2>2. CASE FetchPhoto
    <3>1. lines = 0
      BY <2>2 DEF FigureInv, FetchPhoto
    <3>2. CASE To("spool")
      BY <1>3, <3>2
    <3>3. CASE ~To("spool")
      <4>1. lines' = 0 + 1 /\ line' = {} /\ UNCHANGED <<loaded, photo, parts>>
        BY <2>2, <3>1, <3>3 DEF FetchPhoto
      <4> QED BY <4>1
    <3> QED BY <3>2, <3>3
  <2>3. CASE Spool
    BY <2>3 DEF Spool
  <2> QED BY <1>6, <2>1, <2>2, <2>3
<1>7. ASSUME Entry \/ Landmarks \/ Dense \/ Deep3d \/ ComputeShape \/ Pose PROVE FigureTyped'
  BY <1>2, <1>3, <1>4, <1>5, <1>7 DEF Entry, Landmarks, Dense, Deep3d, ComputeShape, Pose, Raise
<1>8. ASSUME Crop \/ AssembleV3Atlas \/ Light \/ DenseUv \/ DenseGlb PROVE FigureTyped'
  BY <1>2, <1>3, <1>4, <1>5, <1>8 DEF Crop, AssembleV3Atlas, Light, DenseUv, DenseGlb, Raise
<1>9. ASSUME Bundle PROVE FigureTyped'
  BY <1>1, <1>2, <1>9 DEF Bundle
<1>10. ASSUME Unlink \/ FigureInfer PROVE FigureTyped'
  <2>1. CASE Unlink
    BY <2>1 DEF Unlink
  <2>2. CASE FigureInfer
    BY <2>2 DEF FigureInfer
  <2> QED BY <1>10, <2>1, <2>2
<1> QED BY <1>6, <1>7, <1>8, <1>9, <1>10 DEF FigureStep

LEMMA TypesKeep == ProcessInv /\ TypesInv /\ InferenceNext => TypesInv'
<1> SUFFICES ASSUME ProcessInv, TypesInv, InferenceNext PROVE TypesInv'
  OBVIOUS
<1>1. WeightsTyped'
  BY WeightsStayTyped DEF TypesInv
<1>2. UNCHANGED bakeVars => net' = net
  BY DEF bakeVars, cacheVars
<1>3. UNCHANGED meshVars => AssetsTyped' /\ \A t \in Threads : PieceLeft(t)'
  BY DEF TypesInv, meshVars, assetVars, AssetsTyped, PieceLeft
<1>4. UNCHANGED figureVars => FigureTyped'
  BY DEF TypesInv, figureVars, FigureTyped
<1>5. ASSUME NEW t \in Threads, Bake(t) \/ \E k \in Keys : Receive(t, k)
      PROVE  net' \in BOOLEAN
  BY <1>5, NetStaysTyped DEF TypesInv
<1>6. ASSUME NEW t \in Threads, FitStep(t) \/ ReceiveFit(t) \/ ReceiveMesh(t)
      PROVE  AssetsTyped' /\ \A u \in Threads : PieceLeft(u)'
  BY <1>6, AssetsStayTyped DEF TypesInv, ProcessInv, FitThreads
<1>7. FigureStep => FigureTyped'
  BY FigureStaysTyped DEF TypesInv, ProcessInv
<1>8. net' \in BOOLEAN
  BY <1>2, <1>5 DEF InferenceNext, Assign, TypesInv
<1>9. AssetsTyped' /\ \A t \in Threads : PieceLeft(t)'
  BY <1>3, <1>6 DEF InferenceNext, Assign
<1>10. FigureTyped'
  BY <1>4, <1>7 DEF InferenceNext
<1> QED BY <1>1, <1>8, <1>9, <1>10 DEF TypesInv

LEMMA TypesHold == BackendSpec => []TypesInv
<1>1. BackendInit => TypesInv
  <2> SUFFICES ASSUME TextureInit, FitInit, FigureInit, disk \subseteq Files,
                      mode \in {"1", "0", "auto"}, jobs = 0
               PROVE  TypesInv
    BY WeightsAssumption DEF BackendInit, InferenceInit, ProcessRests, WeightsInit
  <2>1. WeightsTyped
    BY WeightsAssumption DEF WeightsTyped
  <2>2. net \in BOOLEAN
    BY DEF TextureInit
  <2>3. AssetsTyped /\ \A t \in Threads : PieceLeft(t)
    BY PiecesAssumption DEF FitInit, AssetsTyped, PieceLeft, MeshSteps, MoveSteps
  <2>4. FigureTyped
    BY DEF FigureInit, FigureTyped
  <2> QED BY <2>1, <2>2, <2>3, <2>4 DEF TypesInv
<1>2. ProcessInv /\ TypesInv /\ [BackendNext]_backendVars => TypesInv'
  <2> SUFFICES ASSUME ProcessInv, TypesInv, [BackendNext]_backendVars PROVE TypesInv'
    OBVIOUS
  <2>1. CASE UNCHANGED processPart
    BY <2>1 DEF processPart, weightsVars, processVars, bakeVars, cacheVars, meshVars,
       assetVars, figureVars, TypesInv, WeightsTyped, AssetsTyped, PieceLeft, FigureTyped
  <2> QED BY <2>1, TypesKeep DEF BackendNext, ProcessStep, WireStep, EnvelopeStep,
        AtlasStep, MeshStep, backendVars
<1> QED BY <1>1, <1>2, ProcessInvHolds, PTL DEF BackendSpec

\* For any threads, jobs and volumes the state of an inference process is
\* well-typed: no mesh job makes a piece too many, no figure logs a second line.
THEOREM ProcessStaysTyped == BackendSpec => []InferenceTypeOK
<1>1. ProcessInv /\ TypesInv => InferenceTypeOK
  <2> SUFFICES ASSUME ProcessInv, TypesInv PROVE InferenceTypeOK
    OBVIOUS
  <2>1. WeightsTypeOK
    BY DEF ProcessInv, TypesInv, WeightsTyped, WeightsTypeOK
  <2>2. TextureTypeOK
    BY <2>1 DEF ProcessInv, BakeInv, BakeTyped, TypesInv, TextureTypeOK
  <2>3. FitTypeOK
    BY <2>1 DEF ProcessInv, FitThreads, FitTyped, TypesInv, AssetsTyped, FitTypeOK
  <2>4. FigureTypeOK
    BY <2>1 DEF ProcessInv, FigureInv, TypesInv, FigureTyped, FigureTypeOK
  <2> QED BY <2>2, <2>3, <2>4 DEF InferenceTypeOK
<1> QED BY <1>1, ProcessInvHolds, TypesHold, PTL

-----------------------------------------------------------------------------
(* The atlas.                                                              *)

\* The sample of a texel takes the pixel nearest to it and its neighbours.
LEMMA ReadsNearby ==
    ASSUME NEW h \in Int, NEW n \in Nat \ {0, 1}
    PROVE  /\ Rint(h, n) \in 0 .. n - 1
           /\ \A r \in Reads(h, n) : r \in 0 .. n - 1 /\ Abs(Rint(h, n) - r) <= 1
<1> DEFINE k == h \div 2
           up == (h + 1) \div 2
<1>1. /\ k \in Int /\ up \in Int /\ 2 * k <= h /\ h <= 2 * k + 1
      /\ h % 2 = 0 => h = 2 * k /\ up = k
      /\ h % 2 # 0 => h = 2 * k + 1 /\ up = k + 1
  OBVIOUS
<1>2. Rint(h, n) = Clamp(IF h % 2 = 0 \/ k % 2 = 0 THEN k ELSE k + 1, 0, n - 1)
  BY DEF Rint
<1>3. Reads(h, n) = IF h <= 0 THEN {0}
                    ELSE IF h >= 2 * (n - 1) THEN {n - 2, n - 1} ELSE {k, up}
  BY DEF Reads
<1> HIDE DEF k, up
<1>4. PICK m \in Int : /\ Rint(h, n) = Clamp(m, 0, n - 1)
                       /\ m = k \/ (m = up /\ up = k + 1 /\ h = 2 * k + 1)
  BY <1>1, <1>2
<1>5. Rint(h, n) \in 0 .. n - 1
  BY <1>4 DEF Clamp
<1>6. CASE h <= 0
  BY <1>1, <1>3, <1>4, <1>6 DEF Clamp, Abs
<1>7. CASE h > 0 /\ h >= 2 * (n - 1)
  BY <1>1, <1>3, <1>4, <1>7 DEF Clamp, Abs
<1>8. CASE h > 0 /\ h < 2 * (n - 1)
  <2>1. k \in 0 .. n - 2 /\ up \in {k, k + 1}
    BY <1>1, <1>8
  <2>2. Rint(h, n) = m
    BY <1>4, <2>1 DEF Clamp
  <2>3. \A r \in Reads(h, n) : r \in {k, up}
    BY <1>3, <1>8
  <2> QED BY <1>4, <2>1, <2>2, <2>3 DEF Abs
<1> QED BY <1>5, <1>6, <1>7, <1>8

LEMMA SampleNearby ==
    ASSUME scene \in Scenes, NEW t \in Texels, NEW p \in BilinearSample(t)
    PROVE  /\ Nearest(t) \in Pixels /\ p \in Pixels
           /\ Abs(Nearest(t)[1] - p[1]) <= 1 /\ Abs(Nearest(t)[2] - p[2]) <= 1
<1>1. At(t) \in Int \X Int
  BY AtlasAssumption DEF At
<1>2. p[1] \in Reads(At(t)[1], Width) /\ p[2] \in Reads(At(t)[2], Height)
      /\ p = <<p[1], p[2]>>
  BY DEF BilinearSample
<1>3. Nearest(t)[1] = Rint(At(t)[1], Width) /\ Nearest(t)[2] = Rint(At(t)[2], Height)
      /\ Nearest(t) = <<Nearest(t)[1], Nearest(t)[2]>>
  BY DEF Nearest
<1>4. Width \in Nat \ {0, 1} /\ Height \in Nat \ {0, 1}
  BY AtlasAssumption
<1>5. /\ Rint(At(t)[1], Width) \in 0 .. Width - 1
      /\ p[1] \in 0 .. Width - 1 /\ Abs(Rint(At(t)[1], Width) - p[1]) <= 1
  BY <1>1, <1>2, <1>4, ReadsNearby
<1>6. /\ Rint(At(t)[2], Height) \in 0 .. Height - 1
      /\ p[2] \in 0 .. Height - 1 /\ Abs(Rint(At(t)[2], Height) - p[2]) <= 1
  BY <1>1, <1>2, <1>4, ReadsNearby
<1> QED BY <1>2, <1>3, <1>5, <1>6 DEF Pixels

\* Pixels that touch at a corner are two steps of the dilation apart; the code
\* takes three.
WideMouth == MouthPx >= 2

LEMMA MouthIsDilated ==
    ASSUME WideMouth, scene \in Scenes, scene.kind = "hq", NEW t \in Texels,
           NEW p \in BilinearSample(t), p \in MouthInteriorMask
    PROVE  Nearest(t) \in MouthPhoto
<1> DEFINE q == Nearest(t)
<1>1. /\ q \in Pixels /\ p \in Pixels
      /\ Abs(q[1] - p[1]) <= 1 /\ Abs(q[2] - p[2]) <= 1
  BY SampleNearby
<1>2. MouthPhoto = DilateMask(MouthInteriorMask, MouthPx)
  BY DEF MouthPhoto
<1> HIDE DEF q
<1>3. q[1] \in Int /\ p[1] \in Int /\ q[2] \in Int /\ p[2] \in Int
  BY <1>1, AtlasAssumption DEF Pixels
<1>4. Width \in Nat /\ Height \in Nat /\ MouthPx \in Nat
  BY AtlasAssumption
<1>5. Apart(q[1], p[1], Width) <= 1 /\ Apart(q[1], p[1], Width) \in Int
  BY <1>1, <1>3, <1>4 DEF Apart, Abs
<1>6. Apart(q[2], p[2], Height) <= 1 /\ Apart(q[2], p[2], Height) \in Int
  BY <1>1, <1>3, <1>4 DEF Apart, Abs
<1>7. Apart(q[1], p[1], Width) + Apart(q[2], p[2], Height) <= MouthPx
  BY <1>4, <1>5, <1>6 DEF WideMouth
<1>8. q \in DilateMask(MouthInteriorMask, MouthPx)
  BY <1>1, <1>7 DEF DilateMask
<1> QED BY <1>2, <1>8 DEF q

LEMMA AroundTexel ==
    ASSUME NEW t \in Texels
    PROVE  t \in Around(t) /\ Around(t) \subseteq Texels
<1>1. /\ Size \in Nat /\ t[1] \in 1 .. Size /\ t[2] \in 1 .. Size /\ t = <<t[1], t[2]>>
  BY AtlasAssumption DEF Texels
<1>2. \A n \in 1 .. Size : Clamp(n + 0, 1, Size) = n
  BY <1>1 DEF Clamp
<1>3. \A n \in 1 .. Size, d \in -1 .. 1 : Clamp(n + d, 1, Size) \in 1 .. Size
  BY <1>1 DEF Clamp
<1>4. t \in Around(t)
  <2>1. 0 \in -1 .. 1
    OBVIOUS
  <2>2. t = <<Clamp(t[1] + 0, 1, Size), Clamp(t[2] + 0, 1, Size)>>
    BY <1>1, <1>2
  <2> QED BY <2>1, <2>2 DEF Around
<1>5. Around(t) \subseteq Texels
  BY <1>1, <1>3 DEF Around, Texels
<1> QED BY <1>4, <1>5

LEMMA TapsAreTexels ==
    ASSUME NEW t \in (1 .. Size \div 2) \X (1 .. Size \div 2)
    PROVE  Taps(t[1]) \X Taps(t[2]) \subseteq Texels
<1>1. Size \in Nat /\ Size >= 1
  BY AtlasAssumption
<1>2. \A k \in Int : Clamp(k, 1, Size) \in 1 .. Size
  BY <1>1 DEF Clamp
<1>3. \A i \in 1 .. Size \div 2 : Taps(i) \subseteq 1 .. Size
  BY <1>1, <1>2 DEF Taps
<1> QED BY <1>3 DEF Texels

\* The marks are no pixels, and the completion is one of them.
LEMMA Marks ==
    /\ Synth \notin Pixels /\ SkinMean \notin Pixels /\ FaceCrop \notin Pixels
    /\ Synth # FaceCrop /\ SkinMean # FaceCrop
    /\ Photo({Synth}) = {} /\ Photo({SkinMean}) = {}
<1>1. Synth \notin Pixels /\ SkinMean \notin Pixels /\ FaceCrop \notin Pixels
  BY AtlasAssumption DEF Pixels, Synth, SkinMean, FaceCrop
<1>2. Synth # FaceCrop /\ SkinMean # FaceCrop
  BY DEF Synth, SkinMean, FaceCrop
<1> QED BY <1>1, <1>2 DEF Photo

\* What is joined: photo out of trusted texels around, and nothing else inside.
LEMMA JoinedTexel ==
    ASSUME NEW t \in Texels, scene.kind \in {"hq", "figure"}
    PROVE  /\ \A p \in JoinSeam[t] \ {Synth} :
                 \E u \in Around(t) : u \in Valid /\ p \in BilinearSample(u)
           /\ t \in Valid /\ t \notin SeamBand(Valid) => JoinSeam[t] = BilinearSample(t)
<1> DEFINE s == [u \in Texels |-> IF u \in Valid THEN BilinearSample(u) ELSE {Completion}]
<1>1. JoinSeam[t] = IF t \in SeamBand(Valid) THEN UNION {s[u] : u \in Around(t)} ELSE s[t]
  BY DEF JoinSeam, SmoothSeam
<1>2. \A u \in Texels : s[u] = IF u \in Valid THEN BilinearSample(u) ELSE {Synth}
  <2>1. Completion = Synth
    BY DEF Completion
  <2> QED BY <2>1
<1> HIDE DEF s
<1>3. t \in Around(t) /\ Around(t) \subseteq Texels
  BY AroundTexel
<1>4. ASSUME NEW p \in JoinSeam[t] \ {Synth}
      PROVE  \E u \in Around(t) : u \in Valid /\ p \in BilinearSample(u)
  <2>1. PICK u \in Around(t) : p \in s[u]
    BY <1>1, <1>3
  <2>2. u \in Valid /\ p \in BilinearSample(u)
    BY <1>2, <1>3, <2>1
  <2> QED BY <2>2
<1>5. t \in Valid /\ t \notin SeamBand(Valid) => JoinSeam[t] = BilinearSample(t)
  BY <1>1, <1>2
<1> QED BY <1>4, <1>5

\* The seam is never softened: the blur is one short of the atlas.
LEMMA NothingIsSoftened == SoftenConfidence = confOf
<1>1. SoftLen # Size
  BY AtlasAssumption DEF SoftLen
<1> QED BY <1>1 DEF SoftenConfidence

\* AtlasIsHonest of an atlas that still has its sentinels.
Honest(a) ==
    /\ scene.kind = "texture" => HonestTexture(a)
    /\ scene.kind = "figure" => HonestFigure(a)
    /\ scene.kind = "hq" => HonestHq(a)

\* A texel without head, skin or at the mouth is not trusted.
Trusted ==
    scene.kind \in {"texture", "hq"} =>
        \A t \in Texels : t \notin scene.covered \/ Nearest(t) \in MouthPhoto => confOf[t] = 0

AtlasInv ==
    /\ under = "atlas" \/ atlasStep # "confidence" => scene \in Scenes
    /\ atlasStep # "confidence" => Trusted
    /\ atlasStep \in {"scrub", "baked"} => Honest(atlas)
    /\ atlasStep = "baked" => sentinel = {}

LEMMA TextureIsHonest ==
    ASSUME Trusted, scene.kind = "texture", scene \in Scenes
    PROVE  Honest(BlendWithFeather(SoftenConfidence))
<1> DEFINE a == BlendWithFeather(confOf)
<1>1. ASSUME NEW t \in Texels
      PROVE  a[t] = (IF confOf[t] > 0 THEN BilinearSample(t) ELSE {}) \cup
                    (IF confOf[t] < Full THEN {Completion} ELSE {})
  BY <1>1 DEF BlendWithFeather
<1>2. MouthPhoto = MouthInteriorMask
  BY DEF MouthPhoto
<1> HIDE DEF a
<1>3. /\ Completion \in {Synth, SkinMean, FaceCrop}
      /\ scene.synth \/ HardValid # {} => Completion # FaceCrop
  BY Marks DEF Completion
<1>4. ASSUME NEW t \in Texels, confOf[t] = Full
      PROVE  a[t] = BilinearSample(t)
  <2>1. confOf[t] > 0 /\ ~(confOf[t] < Full)
    BY <1>4 DEF Full
  <2> QED BY <1>1, <2>1
<1>5. ASSUME NEW t \in Texels
      PROVE  Photo(a[t]) \subseteq BilinearSample(t) \cup {FaceCrop}
  BY <1>1, <1>3, Marks DEF Photo
<1>6. ASSUME NEW t \in Texels, t \notin scene.covered \/ Nearest(t) \in MouthInteriorMask
      PROVE  Photo(a[t]) \subseteq {FaceCrop}
  <2>1. confOf[t] = 0
    BY <1>2, <1>6 DEF Trusted
  <2>2. ~(confOf[t] > 0) /\ confOf[t] < Full
    BY <2>1 DEF Full
  <2>3. a[t] = {Completion}
    BY <1>1, <2>2
  <2> QED BY <1>3, <2>3, Marks DEF Photo
<1>7. ASSUME NEW t \in Texels, scene.synth \/ HardValid # {}
      PROVE  FaceCrop \notin a[t]
  <2>1. BilinearSample(t) \subseteq Pixels
    BY SampleNearby
  <2> QED BY <1>1, <1>3, <1>7, <2>1, Marks
<1>8. HonestTexture(a)
  BY <1>4, <1>5, <1>6, <1>7 DEF HonestTexture
<1>9. Honest(a)
  BY <1>8 DEF Honest
<1> QED BY <1>9, NothingIsSoftened DEF a

LEMMA FigureIsHonest ==
    ASSUME scene.kind = "figure"
    PROVE  Honest(JoinSeam)
<1>1. Valid = CropValid
  BY DEF Valid
<1>2. ASSUME NEW t \in Texels, Around(t) \subseteq CropValid, t \notin SeamBand(CropValid)
      PROVE  JoinSeam[t] = BilinearSample(t)
  BY <1>1, <1>2, AroundTexel, JoinedTexel
<1>3. ASSUME NEW t \in Texels
      PROVE  Photo(JoinSeam[t]) \subseteq UNION {BilinearSample(u) : u \in Around(t) \cap CropValid}
  <2> SUFFICES ASSUME NEW p \in Photo(JoinSeam[t])
               PROVE  \E u \in Around(t) \cap CropValid : p \in BilinearSample(u)
    OBVIOUS
  <2>1. p \in JoinSeam[t] \ {Synth}
    BY Marks DEF Photo
  <2> QED BY <1>1, <2>1, JoinedTexel
<1>4. HonestFigure(JoinSeam)
  BY <1>2, <1>3 DEF HonestFigure
<1> QED BY <1>4 DEF Honest

LEMMA HqIsHonest ==
    ASSUME WideMouth, Trusted, scene \in Scenes, scene.kind = "hq"
    PROVE  Honest(Halved(JoinSeam))
<1> DEFINE a == Halved(JoinSeam)
           j == JoinSeam
           d == (1 .. Size \div 2) \X (1 .. Size \div 2)
           taps(t) == Taps(t[1]) \X Taps(t[2])
           near(t) == UNION {Around(u) : u \in taps(t)}
<1>1. DOMAIN a = d /\ \A t \in d : a[t] = UNION {j[u] : u \in taps(t)}
  BY DEF Halved
<1>2. Valid = HardValid
  BY DEF Valid
<1>3. \A t \in d : taps(t) \subseteq Texels
  BY TapsAreTexels
<1>4. \A t \in d : \A u \in taps(t) : Around(u) \subseteq near(t)
  OBVIOUS
<1>5. \A u \in Texels :
         /\ \A p \in j[u] \ {Synth} : \E v \in Around(u) : v \in HardValid /\ p \in BilinearSample(v)
         /\ u \in HardValid /\ u \notin SeamBand(HardValid) => j[u] = BilinearSample(u)
  BY <1>2, JoinedTexel
<1> HIDE DEF a, j, d, taps, near
<1>6. ASSUME NEW t \in d, NEW p \in a[t], p # Synth
      PROVE  \E v \in near(t) : v \in HardValid /\ p \in BilinearSample(v)
  <2>1. PICK u \in taps(t) : p \in j[u]
    BY <1>1, <1>6
  <2>2. u \in Texels /\ Around(u) \subseteq near(t)
    BY <1>3, <1>4
  <2>3. PICK v \in Around(u) : v \in HardValid /\ p \in BilinearSample(v)
    BY <1>5, <1>6, <2>1, <2>2
  <2> QED BY <2>2, <2>3
<1>7. ASSUME NEW t \in d, NEW p \in a[t], p \in MouthInteriorMask
      PROVE  FALSE
  <2>1. p # Synth
    BY <1>7, Marks DEF MouthInteriorMask
  <2>2. PICK v \in near(t) : v \in HardValid /\ p \in BilinearSample(v)
    BY <1>6, <1>7, <2>1
  <2>3. v \in Texels /\ confOf[v] >= 2
    BY <2>2 DEF HardValid, ConfValidMin
  <2>4. Nearest(v) \in MouthPhoto
    BY <1>7, <2>2, <2>3, MouthIsDilated
  <2>5. confOf[v] = 0
    BY <2>3, <2>4 DEF Trusted
  <2> QED BY <2>3, <2>5
<1>8. ASSUME NEW t \in d
      PROVE  Photo(a[t]) \subseteq UNION {BilinearSample(v) : v \in near(t) \cap HardValid}
  <2> SUFFICES ASSUME NEW p \in Photo(a[t])
               PROVE  \E v \in near(t) \cap HardValid : p \in BilinearSample(v)
    OBVIOUS
  <2>1. p \in a[t] /\ p # Synth
    BY Marks DEF Photo
  <2> QED BY <1>6, <2>1
<1>9. ASSUME NEW t \in d, near(t) \subseteq HardValid, near(t) \cap SeamBand(HardValid) = {}
      PROVE  Synth \notin a[t]
  <2> SUFFICES ASSUME Synth \in a[t]
               PROVE  FALSE
    OBVIOUS
  <2>1. PICK u \in taps(t) : Synth \in j[u]
    BY <1>1
  <2>2. u \in Texels /\ u \in Around(u) /\ Around(u) \subseteq near(t)
    BY <1>3, <1>4, AroundTexel
  <2>3. j[u] = BilinearSample(u)
    BY <1>5, <1>9, <2>2
  <2>4. Synth \in Pixels
    BY <2>1, <2>2, <2>3, SampleNearby
  <2> QED BY <2>4, Marks
<1>10. Honest(a)
  <2>1. \A t \in DOMAIN a :
          /\ a[t] \cap MouthInteriorMask = {}
          /\ Photo(a[t]) \subseteq UNION {BilinearSample(v) : v \in near(t) \cap HardValid}
          /\ near(t) \subseteq HardValid /\ near(t) \cap SeamBand(HardValid) = {} => Synth \notin a[t]
    BY <1>1, <1>7, <1>8, <1>9
  <2>2. HonestHq(a)
    BY <2>1 DEF HonestHq, near, taps
  <2> QED BY <2>2 DEF Honest
<1> QED BY <1>10 DEF a

LEMMA JoinIsHonest ==
    ASSUME WideMouth, Trusted, scene \in Scenes, Join
    PROVE  Honest(atlas')
<1>1. atlas' = CASE scene.kind = "double"  -> [t \in Texels |-> {Completion}]
                 [] scene.kind = "texture" -> BlendWithFeather(SoftenConfidence)
                 [] scene.kind = "hq"      -> Halved(JoinSeam)
                 [] scene.kind = "figure"  -> JoinSeam
  BY DEF Join
<1>2. CASE scene.kind = "double"
  BY <1>2 DEF Honest
<1>3. CASE scene.kind = "texture"
  BY <1>1, <1>3, TextureIsHonest
<1>4. CASE scene.kind = "hq"
  BY <1>1, <1>4, HqIsHonest
<1>5. CASE scene.kind = "figure"
  BY <1>1, <1>5, FigureIsHonest
<1> QED BY <1>2, <1>3, <1>4, <1>5, AtlasAssumption DEF AtlasKinds

\* The operators of the atlas only look at the scene and the confidence.
LEMMA SceneStays ==
    ASSUME UNCHANGED <<scene, confOf>>
    PROVE  /\ Trusted => Trusted'
           /\ Honest(atlas') => Honest(atlas)'
<1>1. scene' = scene /\ confOf' = confOf
  OBVIOUS
<1>2. MouthInteriorMask' = MouthInteriorMask
  BY <1>1 DEF MouthInteriorMask
<1>3. MouthPhoto' = MouthPhoto
  BY <1>1, <1>2 DEF MouthPhoto
<1>4. \A t : Nearest(t)' = Nearest(t)
  BY <1>1 DEF Nearest, At
<1>5. \A t : BilinearSample(t)' = BilinearSample(t)
  BY <1>1 DEF BilinearSample, At
<1>6. HardValid' = HardValid
  BY <1>1 DEF HardValid, InPhoto, At
<1>7. CropValid' = CropValid
  BY <1>1, <1>4 DEF CropValid
<1>8. Trusted => Trusted'
  BY <1>1, <1>3, <1>4 DEF Trusted
<1>9. \A t : InPhoto(t)' = InPhoto(t)
  BY <1>1 DEF InPhoto, At
<1>10. HonestTexture(atlas') => HonestTexture(atlas)'
  BY <1>1, <1>2, <1>4, <1>5, <1>6, <1>9 DEF HonestTexture, Photo
<1>11. HonestFigure(atlas') => HonestFigure(atlas)'
  BY <1>1, <1>5, <1>7 DEF HonestFigure, Photo, SeamBand
<1>12. HonestHq(atlas') => HonestHq(atlas)'
  BY <1>1, <1>2, <1>5, <1>6 DEF HonestHq, Photo, SeamBand
<1>13. Honest(atlas') => Honest(atlas)'
  BY <1>1, <1>10, <1>11, <1>12 DEF Honest
<1> QED BY <1>8, <1>13

LEMMA AtlasKeeps ==
    ASSUME WideMouth, AtlasInv, AtlasNext, under = "atlas"
    PROVE  AtlasInv'
<1>1. scene \in Scenes /\ scene' = scene
  BY DEF AtlasInv, AtlasNext, Confidence, Refuse, Join, Scrub
<1>2. CASE Confidence
  <2>1. atlasStep' = "join"
    BY <1>2 DEF Confidence
  <2>2. ASSUME scene.kind \in {"texture", "hq"}, NEW t \in Texels,
               t \notin scene.covered \/ Nearest(t) \in MouthPhoto
        PROVE  confOf'[t] = 0
    <3>1. confOf' = [u \in Texels |-> ComputeTexelConfidence(u)]
      BY <1>2, <2>2 DEF Confidence
    <3>2. ComputeTexelConfidence(t) = 0
      BY <2>2 DEF ComputeTexelConfidence
    <3> QED BY <3>1, <3>2
  <2>3. MouthPhoto' = MouthPhoto /\ \A t : Nearest(t)' = Nearest(t)
    BY <1>1 DEF MouthPhoto, MouthInteriorMask, Nearest, At
  <2>4. Trusted'
    BY <1>1, <2>2, <2>3 DEF Trusted
  <2> QED BY <1>1, <2>1, <2>4 DEF AtlasInv
<1>3. CASE Refuse
  <2>1. UNCHANGED <<scene, confOf>> /\ atlasStep' = "refused" /\ atlasStep = "join"
    BY <1>3 DEF Refuse
  <2> QED BY <1>1, <2>1, SceneStays DEF AtlasInv
<1>4. CASE Join
  <2>1. UNCHANGED <<scene, confOf>> /\ atlasStep' = "scrub" /\ atlasStep = "join"
    BY <1>4 DEF Join
  <2>2. Trusted /\ Honest(atlas')
    BY <1>1, <1>4, <2>1, JoinIsHonest DEF AtlasInv
  <2> QED BY <1>1, <2>1, <2>2, SceneStays DEF AtlasInv
<1>5. CASE Scrub
  <2>1. /\ UNCHANGED <<scene, confOf, atlas>> /\ sentinel' = {}
        /\ atlasStep' = "baked" /\ atlasStep = "scrub"
    BY <1>5 DEF Scrub
  <2>2. Trusted /\ Honest(atlas')
    BY <2>1 DEF AtlasInv
  <2> QED BY <1>1, <2>1, <2>2, SceneStays DEF AtlasInv
<1> QED BY <1>2, <1>3, <1>4, <1>5 DEF AtlasNext

LEMMA AtlasInvHolds ==
    ASSUME WideMouth
    PROVE  BackendSpec => []AtlasInv
<1>1. BackendInit => AtlasInv
  BY DEF BackendInit, AtlasInit, AtlasRests, AtlasClear, AtlasInv
<1>2. AtlasInv /\ [BackendNext]_backendVars => AtlasInv'
  <2> SUFFICES ASSUME AtlasInv, [BackendNext]_backendVars
               PROVE  AtlasInv'
    OBVIOUS
  <2>1. CASE UNCHANGED atlasVars /\ under' = under
    <3>1. UNCHANGED <<scene, confOf, atlas, sentinel, atlasStep>>
      BY <2>1 DEF atlasVars
    <3> QED BY <2>1, <3>1, SceneStays DEF AtlasInv
  <2>2. CASE under = "atlas" /\ AtlasNext
    BY <2>2, AtlasKeeps
  <2> QED BY <2>1, <2>2 DEF BackendNext, ProcessStep, WireStep, EnvelopeStep, AtlasStep,
        MeshStep, backendVars
<1> QED BY <1>1, <1>2, PTL DEF BackendSpec

\* For any photo, head, light and size of the atlas, what an atlas takes from the
\* photo it takes where it is trusted: the texture at the texel's own place, HQ and
\* figure also from trusted neighbours; the rest is the completion, which shows the
\* photo only in a texture without network and without a trusted texel.  What lies
\* off the head, or by its nearest pixel inside the mouth, takes nothing else in the
\* texture; in HQ no pixel inside the mouth weighs in at all, if the mask is widened
\* by two pixels at least (the code: three).  No atlas keeps a sentinel.
THEOREM AtlasStaysHonest ==
    ASSUME WideMouth
    PROVE  BackendSpec => []AtlasIsHonest
<1>1. AtlasInv => AtlasIsHonest
  BY DEF AtlasInv, Honest, AtlasIsHonest
<1> QED BY <1>1, AtlasInvHolds, PTL
=============================================================================
