------------------------------- MODULE FitMesh -------------------------------
(***************************************************************************)
(* The shape side of the backend: fitting a face (fit_flame) and moving    *)
(* the template with the fitted coefficients (displaced_positions), which  *)
(* the fit itself does to place its camera and the consumer does again for *)
(* every mesh and every preview it builds.                                 *)
(*                                                                         *)
(* A fit runs in a thread that is reused from job to job; the meshes of a  *)
(* job are built in a thread started for that run.  Each thread has its    *)
(* own tables of flags; template, basis and checkpoint are cached in the   *)
(* process.  Numbers are abstracted: a shape is the branch it came from.   *)
(***************************************************************************)
EXTENDS Weights

CONSTANT Pieces   \* displacements of a mesh job: two meshes and two previews

ASSUME PiecesAssumption == Pieces \in Nat \ {0}

Causes == {"basis_missing", "basis_invalid", "basis_oom", "transfer_missing",
           "transfer_invalid", "delta_nonfinite", "delta_error"}
FitFlags == {"deep3d", "pose"}
MoveFlags == {"real", "legacy"} \cup Causes

FitSteps == {"impl", "seam", "gates", "deep", "deepcam", "deepend",
             "geometry", "geocam", "geoend"}
MeshSteps == {"line", "glb"}
MoveSteps == {"template", "delta"}

VARIABLES template, \* _flame_cache: nothing, the file or the synthetic fixture
          cached,   \* which of basis and transfer are in memory
          flags,    \* flags at 1 in the tables of each thread
          step,     \* where each thread is
          back,     \* where displaced_positions returns to
          work,     \* "fit" or "mesh"
          left,     \* displacements a mesh job still has to make
          wrote,    \* what the job itself wrote last into each flag
          moved,    \* whether the job has displaced the template
          shape,    \* what the result is made of, "none" when the job failed
          shown     \* displacement branch in the line of a mesh job

assetVars == <<template, cached>>
meshVars == <<assetVars, flags, step, back, work, left, wrote, moved, shape, shown>>
fitVars == <<weightsVars, meshVars>>

FitTypeOK ==
    /\ WeightsTypeOK
    /\ template \in {"none", "file", "synthetic"}
    /\ cached \subseteq {"basis", "transfer"}
    /\ flags \in [Threads -> SUBSET (FitFlags \cup MoveFlags)]
    /\ step \in [Threads -> FitSteps \cup MeshSteps \cup MoveSteps \cup {"idle", "done"}]
    /\ back \in [Threads -> {"deepcam", "geocam", "glb"}]
    /\ work \in [Threads -> {"fit", "mesh"}]
    /\ left \in [Threads -> 0 .. Pieces]
    /\ wrote \in [Threads -> SUBSET (FitFlags \cup MoveFlags)]
    /\ moved \in [Threads -> BOOLEAN]
    /\ shape \in [Threads -> {"none", "deep3d", "geometric", "double", "mesh"}]
    /\ shown \in [Threads -> SUBSET MoveFlags]

-----------------------------------------------------------------------------
\* Helpers.

Enter(t, s) == step' = [step EXCEPT ![t] = s]

\* Flags of one group are written: those in `ones` to 1, the others to 0.
Set(t, group, ones) ==
    /\ flags' = [flags EXCEPT ![t] = (@ \ group) \cup ones]
    /\ wrote' = [wrote EXCEPT ![t] = (@ \ group) \cup ones]

\* The thread goes on without touching a flag.
Continue(t, s) ==
    /\ Enter(t, s)
    /\ UNCHANGED <<weightsVars, assetVars, flags, back, work, left, wrote, moved, shape, shown>>

\* The job ends with Err: shape stays "none" and no flag is cleared.
FitErr(t) == Continue(t, "done")

FitOk(t, from) ==
    /\ Enter(t, "done")
    /\ shape' = [shape EXCEPT ![t] = from]
    /\ UNCHANGED <<weightsVars, assetVars, flags, back, work, left, wrote, moved, shown>>

Displace(t, s) ==
    /\ Enter(t, "template")
    /\ back' = [back EXCEPT ![t] = s]

DecaPresent  == "deca" \in disk
FindEpoch    == "epoch" \in disk
FindMat      == "basis" \in disk
FindTransfer == "transfer" \in disk

-----------------------------------------------------------------------------
FitInit ==
    /\ template = "none"
    /\ cached = {}
    /\ flags = [t \in Threads |-> {}]
    /\ step = [t \in Threads |-> "idle"]
    /\ back = [t \in Threads |-> "glb"]
    /\ work = [t \in Threads |-> "fit"]
    /\ left = [t \in Threads |-> 0]
    /\ wrote = [t \in Threads |-> {}]
    /\ moved = [t \in Threads |-> FALSE]
    /\ shape = [t \in Threads |-> "none"]
    /\ shown = [t \in Threads |-> {}]

NewJob(t, kind) ==
    /\ step[t] = "idle"
    /\ Take(kind)
    /\ work' = [work EXCEPT ![t] = kind]
    /\ UNCHANGED <<assetVars, back, wrote, moved, shape, shown>>

ReceiveFit(t) ==
    /\ NewJob(t, "fit")
    /\ Enter(t, "impl")
    /\ UNCHANGED <<flags, left>>

\* _run_job_pipeline reaches its assembly in a thread of its own: the tables
\* are fresh.
ReceiveMesh(t) ==
    /\ NewJob(t, "mesh")
    /\ Enter(t, "line")
    /\ flags' = [flags EXCEPT ![t] = {}]
    /\ left' = [left EXCEPT ![t] = Pieces]

\* _impl_fit: the double is refused before the seam.
ImplFit(t) ==
    /\ step[t] = "impl"
    /\ IF UseReal /\ ~DecaPresent THEN FitErr(t) ELSE Continue(t, "seam")

\* fit_flame: real with weights, loud without them when the environment
\* demands it, the sha256 double otherwise.
FitFlame(t) ==
    /\ step[t] = "seam"
    /\ \/ DecaPresent /\ Continue(t, "gates")
       \/ ~DecaPresent /\ RealMl /\ FitErr(t)
       \/ ~DecaPresent /\ ~RealMl /\ FitOk(t, "double")

\* _real_fit: weights and their fingerprints, read again.
RealFit(t) ==
    /\ step[t] = "gates"
    /\ \/ FitErr(t)
       \/ DecaPresent /\ Continue(t, "deep")

\* _deep3d_fit: without checkpoint, or when the crop or the forward raises, the
\* geometric way; Err on landmarks, photo or coefficients; else these are ready
\* and the template is displaced for the camera.
Deep3dFit(t) ==
    /\ step[t] = "deep"
    /\ \/ FindEpoch /\ FitErr(t)
       \/ Continue(t, "geometry")
       \/ /\ FindEpoch
          /\ Displace(t, "deepcam")
          /\ UNCHANGED <<weightsVars, assetVars, flags, work, left, wrote, moved, shape, shown>>

\* load_flame_template: what is cached stays; else the file when it is
\* usable (an Err when its numbers are not), else the fixture unless the
\* environment demands the file.
TemplateReady(t) ==
    /\ step[t] = "template"
    /\ \/ template # "none" /\ UNCHANGED template
       \/ template = "none" /\ "template" \in disk /\ template' = "file"
       \/ template = "none" /\ ~RealMl /\ template' = "synthetic"
    /\ Enter(t, "delta")
    /\ UNCHANGED <<weightsVars, cached, flags, back, work, left, wrote, moved, shape, shown>>

\* Without a template the camera of a fit falls back, a mesh fails.
TemplateErr(t) ==
    /\ step[t] = "template"
    /\ template = "none"
    /\ RealMl \/ "template" \in disk
    /\ IF work[t] = "fit" THEN Continue(t, back[t]) ELSE FitErr(t)

\* load_hifi_basis, load_transfer: the causes they note; none when loaded.
\* The file is looked for before the cache is.
LoadHifiBasis ==
    IF ~FindMat THEN {"basis_missing"}
    ELSE IF "basis" \in cached THEN {"ok"}
    ELSE {"ok", "basis_missing", "basis_invalid", "basis_oom"}

LoadTransfer ==
    IF ~FindTransfer THEN {"transfer_missing"}
    ELSE IF "transfer" \in cached THEN {"ok"}
    ELSE {"ok", "transfer_invalid"}

\* real_displacement: both assets are loaded even when the first is missing.
RealDisplacement(basis, transfer) ==
    IF basis = "ok" /\ transfer = "ok"
    THEN {{"real"}, {"legacy", "delta_nonfinite"}, {"legacy", "delta_error"}}
    ELSE {({"legacy", basis, transfer}) \ {"ok"}}

\* Mutant: the causes of the previous displacement stay.
DisplacedPositions_NoReset(t) ==
    /\ step[t] = "delta"
    /\ \E basis \in LoadHifiBasis, transfer \in LoadTransfer :
         /\ cached' = cached \cup (IF basis = "ok" THEN {"basis"} ELSE {})
                             \cup (IF transfer = "ok" THEN {"transfer"} ELSE {})
         /\ \E outcome \in RealDisplacement(basis, transfer) :
              /\ flags' = [flags EXCEPT ![t] = (@ \ {"real", "legacy"}) \cup outcome]
              /\ wrote' = [wrote EXCEPT ![t] = (@ \ MoveFlags) \cup outcome]
    /\ moved' = [moved EXCEPT ![t] = TRUE]
    /\ Enter(t, back[t])
    /\ UNCHANGED <<weightsVars, template, back, work, left, shape, shown>>

\* displaced_positions after the template: causes are cleared, then the real
\* delta or the uniform legacy offset.
DisplacedPositions(t) ==
    /\ step[t] = "delta"
    /\ \E basis \in LoadHifiBasis, transfer \in LoadTransfer :
         /\ cached' = cached \cup (IF basis = "ok" THEN {"basis"} ELSE {})
                             \cup (IF transfer = "ok" THEN {"transfer"} ELSE {})
         /\ \E outcome \in RealDisplacement(basis, transfer) : Set(t, MoveFlags, outcome)
    /\ moved' = [moved EXCEPT ![t] = TRUE]
    /\ Enter(t, back[t])
    /\ UNCHANGED <<weightsVars, template, back, work, left, shape, shown>>

\* _affine_pose converged on the displaced template; _similarity_camera
\* from the bounding box of the landmarks (an Err when they have no extent).
AffinePose(t) == Set(t, {"pose"}, {"pose"})
SimilarityCamera(t) == Set(t, {"pose"}, {})

\* _resolve_camera: the first when it can, else the second.
ResolveCamera(t, next) ==
    /\ AffinePose(t) \/ SimilarityCamera(t)
    /\ Enter(t, next)
    /\ UNCHANGED <<weightsVars, assetVars, back, work, left, moved, shape, shown>>

DeepCamera(t) ==
    /\ step[t] = "deepcam"
    /\ FitErr(t) \/ ResolveCamera(t, "deepend") \/ Continue(t, "geometry")

\* Symmetry loss and deadline, then the flag of the Deep3D way.
DeepEnd(t) ==
    /\ step[t] = "deepend"
    /\ \/ FitErr(t)
       \/ /\ Set(t, {"deep3d"}, {"deep3d"})
          /\ Enter(t, "done")
          /\ shape' = [shape EXCEPT ![t] = "deep3d"]
          /\ UNCHANGED <<weightsVars, assetVars, back, work, left, moved, shown>>

\* The geometric way: its flag first, then the ratios and the detail.
Geometry(t) ==
    /\ step[t] = "geometry"
    /\ Set(t, {"deep3d"}, {})
    /\ \/ Enter(t, "done") /\ UNCHANGED back
       \/ Displace(t, "geocam")
    /\ UNCHANGED <<weightsVars, assetVars, work, left, moved, shape, shown>>

GeometryCamera(t) ==
    /\ step[t] = "geocam"
    /\ FitErr(t) \/ ResolveCamera(t, "geoend")

GeometryEnd(t) ==
    /\ step[t] = "geoend"
    /\ FitErr(t) \/ FitOk(t, "geometric")

\* The line about template and displacement, written before the meshes.
DisplaceBranchStr(t) ==
    IF "real" \in flags[t] THEN {"real"} ELSE flags[t] \ FitFlags

MeshLine(t) ==
    /\ step[t] = "line"
    /\ shown' = [shown EXCEPT ![t] = DisplaceBranchStr(t)]
    /\ Displace(t, "glb")
    /\ UNCHANGED <<weightsVars, assetVars, flags, work, left, wrote, moved, shape>>

\* Mutant: one displacement too many.
Piece_OneMore(t) ==
    /\ step[t] = "glb"
    /\ left' = [left EXCEPT ![t] = @ - 1]
    /\ IF left[t] = 0
       THEN /\ Enter(t, "done")
            /\ shape' = [shape EXCEPT ![t] = "mesh"]
            /\ UNCHANGED back
       ELSE Displace(t, "glb") /\ UNCHANGED shape
    /\ UNCHANGED <<weightsVars, assetVars, flags, work, wrote, moved, shown>>

\* build_personalized_glb or build_preview_png with the displaced template.
Piece(t) ==
    /\ step[t] = "glb"
    /\ \/ FitErr(t)
       \/ /\ left' = [left EXCEPT ![t] = @ - 1]
          /\ IF left[t] = 1
             THEN /\ Enter(t, "done")
                  /\ shape' = [shape EXCEPT ![t] = "mesh"]
                  /\ UNCHANGED back
             ELSE Displace(t, "glb") /\ UNCHANGED shape
          /\ UNCHANGED <<weightsVars, assetVars, flags, work, wrote, moved, shown>>

\* fit_infer writes its line, the worker answers: the thread is free and
\* knows nothing more of the job, its tables stay.
FitInfer(t) ==
    /\ step[t] = "done"
    /\ Enter(t, "idle")
    /\ work' = [work EXCEPT ![t] = "fit"]
    /\ back' = [back EXCEPT ![t] = "glb"]
    /\ left' = [left EXCEPT ![t] = 0]
    /\ wrote' = [wrote EXCEPT ![t] = {}]
    /\ moved' = [moved EXCEPT ![t] = FALSE]
    /\ shape' = [shape EXCEPT ![t] = "none"]
    /\ shown' = [shown EXCEPT ![t] = {}]
    /\ UNCHANGED <<weightsVars, assetVars, flags>>

FitStep(t) ==
    \/ ImplFit(t) \/ FitFlame(t) \/ RealFit(t) \/ Deep3dFit(t)
    \/ DeepCamera(t) \/ DeepEnd(t)
    \/ Geometry(t) \/ GeometryCamera(t) \/ GeometryEnd(t)
    \/ TemplateReady(t) \/ TemplateErr(t) \/ DisplacedPositions(t)
    \/ MeshLine(t) \/ Piece(t)
    \/ FitInfer(t)

FitNext ==
    \/ \E t \in Threads : FitStep(t) \/ ReceiveFit(t) \/ ReceiveMesh(t)
    \/ (\E f \in Files : Volume(f)) /\ UNCHANGED meshVars

FitSpec == WeightsInit /\ FitInit /\ [][FitNext]_fitVars

-----------------------------------------------------------------------------
\* Properties.

(* A displacement says in the thread's table what it was: the real one has *)
(* no cause, the legacy one at least one, and the causes are those of this *)
(* displacement, although the loaders only ever add one and the thread may *)
(* have failed for another reason before.                                  *)
LegacyHasCause ==
    \A t \in Threads : moved[t] =>
        /\ flags[t] \cap MoveFlags = wrote[t] \cap MoveFlags
        /\ \/ flags[t] \cap MoveFlags = {"real"}
           \/ "real" \notin flags[t] /\ flags[t] \cap Causes # {}

\* The line of a fit that ended well shows the way and the camera of that fit.
FitLineIsOwn(t) ==
    step[t] = "done" /\ shape[t] \in {"deep3d", "geometric", "double"} =>
        /\ flags[t] \cap FitFlags = wrote[t] \cap FitFlags
        /\ "deep3d" \in flags[t] <=> shape[t] = "deep3d"

(* So does the line of every real fit, and of every fit at all with        *)
(* VULTUS_REAL_ML=1, even when Deep3D was tried, wrote its camera and was  *)
(* given up.  A double writes nothing (EveryOkFitLineIsOwn).               *)
OkFitLineIsOwn ==
    \A t \in Threads : RealMl \/ shape[t] # "double" => FitLineIsOwn(t)

(* _fit_branch_str: "Rama efectiva de forma para el log", of every fit     *)
(* that ended well.  (Expected to fail: a double that comes after a real   *)
(* fit shows the way of that fit.)                                         *)
EveryOkFitLineIsOwn == \A t \in Threads : FitLineIsOwn(t)

(* With VULTUS_REAL_ML=1 no double is served as a fit and no fixture as a  *)
(* template, whatever files come and go between the gates.                 *)
FitIsReal == RealMl => /\ template # "synthetic"
                       /\ \A t \in Threads : shape[t] # "double"

(* _displace_branch_str: the line of a mesh job names the source of its    *)
(* displacement.  (Expected to fail: the line is written first.)           *)
MeshLineIsOwn ==
    \A t \in Threads : step[t] = "done" /\ shape[t] = "mesh" =>
        shown[t] = wrote[t] \cap MoveFlags

=============================================================================
