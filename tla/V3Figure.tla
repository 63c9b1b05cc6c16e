------------------------------ MODULE V3Figure -------------------------------
(***************************************************************************)
(* The V3 figure: a job of minutes in a process of its own, one at a time. *)
(* v3_figure_worker fetches the photo, leaves it in a temporary file and   *)
(* calls run_v3_subject, a chain of stages that must never degrade: each   *)
(* ends the job with an Err, or raises through it, or sets its branch in   *)
(* the table of the job and goes on.  The branches are logged in one line  *)
(* when the subject is over, whatever its end.                             *)
(***************************************************************************)
EXTENDS Weights

Branches == {"deep3d", "displacement", "pose", "texgan", "dpr"}
Pieces6 == {"mesh", "albedo", "neutral", "key", "fill", "rim"}

Stages == {"fetch", "spool", "entry", "landmarks", "dense", "deep3d", "shape",
           "pose", "crop", "atlas", "light", "uvs", "glb", "bundle"}

VARIABLES stage,     \* where the job is
          loaded,    \* networks in memory that are not looked for on disk again
          stats,     \* branches at 1 in the table of the job
          lines,     \* lines of branches logged for the job
          line,      \* what the last of them shows
          photo,     \* the temporary file: "none", "partial", "whole"
          parts      \* pieces of the zip answered, {} when the job failed

figureVars == <<stage, loaded, stats, lines, line, photo, parts>>
v3Vars == <<weightsVars, figureVars>>

FigureTypeOK ==
    /\ WeightsTypeOK
    /\ stage \in Stages \cup {"idle", "unlink", "over"}
    /\ loaded \subseteq {"landmarker", "parsing"}
    /\ stats \subseteq Branches
    /\ lines \in 0 .. 1
    /\ line \subseteq Branches
    /\ photo \in {"none", "partial", "whole"}
    /\ parts \in {{}, Pieces6}

FigureInit ==
    /\ stage = "idle" /\ loaded = {}
    /\ stats = {}
    /\ lines = 0 /\ line = {}
    /\ photo = "none" /\ parts = {}

-----------------------------------------------------------------------------
\* Ends of a stage.

To(s) == /\ stage' = s
         /\ UNCHANGED <<weightsVars, loaded, stats, lines, line, photo, parts>>

\* The stage is done and its branch set.
Took(branch, s) ==
    /\ stats' = stats \cup {branch}
    /\ stage' = s
    /\ UNCHANGED <<weightsVars, loaded, lines, line, photo, parts>>

\* _done: the line is logged (report never fails the job), the result returned.
Done(result) ==
    /\ lines' = lines + 1
    /\ line' = stats
    /\ parts' = result
    /\ stage' = "unlink"
    /\ UNCHANGED <<weightsVars, loaded, stats, photo>>

FigureErr == Done({})

\* An exception passes through run_v3_subject: no line.
Raise == To("unlink")

-----------------------------------------------------------------------------
\* v3_figure_worker.

ReceiveFigure ==
    /\ stage = "idle"
    /\ Take("figure")
    /\ stage' = "fetch"
    /\ UNCHANGED <<loaded, stats, lines, line, photo, parts>>

\* _fetch_r2_bytes: an Err is logged with an empty table and raised.
FetchPhoto ==
    /\ stage = "fetch"
    /\ \/ To("spool")
       \/ /\ lines' = lines + 1 /\ line' = {}
          /\ stage' = "over"
          /\ UNCHANGED <<weightsVars, loaded, stats, photo, parts>>

\* The temporary file; a write that fails leaves it and raises before the
\* try whose finally removes it.
Spool ==
    /\ stage = "spool"
    /\ \/ photo' = "whole" /\ stage' = "entry"
       \/ photo' = "partial" /\ stage' = "over"
    /\ UNCHANGED <<weightsVars, loaded, stats, lines, line, parts>>

\* The photo is read, parsed, decoded and measured, the backend imported.
Entry == stage = "entry" /\ (FigureErr \/ To("landmarks"))

\* A network needs its file until it is in memory.
Load(net, s) ==
    /\ net \in loaded \cup disk
    /\ loaded' = loaded \cup {net}
    /\ stage' = s
    /\ UNCHANGED <<weightsVars, stats, lines, line, photo, parts>>

\* mediapipe_infer raises without the task file or without a face in the
\* photo; parse_landmarks and landmark_points return an Err.
Landmarks == stage = "landmarks" /\ (Raise \/ FigureErr \/ Load("landmarker", "dense"))

\* load_hifi_basis_from: the digest is checked on the file, which is then
\* opened again; without it that raises.
Dense ==
    /\ stage = "dense"
    /\ \/ FigureErr
       \/ "basis" \in Volatile /\ Raise
       \/ "basis" \in disk /\ To("deep3d")

Deep3d ==
    /\ stage = "deep3d"
    /\ \/ FigureErr
       \/ "epoch" \in disk /\ Took("deep3d", "shape")

\* compute_shape_numpy and add_eyeballs.
ComputeShape == stage = "shape" /\ (FigureErr \/ Took("displacement", "pose"))

\* refine_pose (V3Pose) and the gate on its yaw.
Pose == stage = "pose" /\ (FigureErr \/ Took("pose", "crop"))

\* The face is cut out; face_skin_mask raises without its network, caught.
Crop == stage = "crop" /\ (FigureErr \/ Load("parsing", "atlas"))

\* Mutant: without the decoder the photo alone makes the atlas.
AssembleV3Atlas_Lenient ==
    /\ stage = "atlas"
    /\ IF "texgan" \in disk THEN Took("texgan", "light") ELSE To("light")

\* assemble_v3_atlas: long_completion_1024 returns None on any failure.
AssembleV3Atlas ==
    /\ stage = "atlas"
    /\ \/ FigureErr
       \/ "texgan" \in disk /\ Took("texgan", "light")

\* estimate_sh_from_photo.
Light ==
    /\ stage = "light"
    /\ \/ FigureErr
       \/ "dpr" \in disk /\ Took("dpr", "uvs")

\* dense_uv01_from_mat: the same file, digest and second opening once more.
DenseUv ==
    /\ stage = "uvs"
    /\ \/ FigureErr
       \/ "basis" \in Volatile /\ Raise
       \/ "basis" \in disk /\ To("glb")

\* build_dense_glb.
DenseGlb == stage = "glb" /\ (FigureErr \/ To("bundle"))

\* build_v3_bundle: six pieces, or Err.
Bundle == stage = "bundle" /\ (FigureErr \/ Done(Pieces6))

\* The finally of v3_figure_worker (an own file: its unlink works).
Unlink ==
    /\ stage = "unlink"
    /\ photo' = "none"
    /\ stage' = "over"
    /\ UNCHANGED <<weightsVars, loaded, stats, lines, line, parts>>

\* The zip is answered, or the exception raised; the process takes the next
\* job (a partial file stays under a name no other job uses).
FigureInfer ==
    /\ stage = "over"
    /\ stage' = "idle"
    /\ stats' = {}
    /\ lines' = 0 /\ line' = {}
    /\ parts' = {}
    /\ photo' = "none"
    /\ UNCHANGED <<weightsVars, loaded>>

FigureStep ==
    \/ ReceiveFigure \/ FetchPhoto \/ Spool \/ Entry \/ Landmarks \/ Dense
    \/ Deep3d \/ ComputeShape \/ Pose \/ Crop \/ AssembleV3Atlas \/ Light
    \/ DenseUv \/ DenseGlb \/ Bundle \/ Unlink \/ FigureInfer

FigureSpec == WeightsInit /\ FigureInit /\
    [][FigureStep \/ ((\E f \in Files : Volume(f)) /\ UNCHANGED figureVars)]_v3Vars

-----------------------------------------------------------------------------
\* Properties.

Over == stage = "over"

(* A zip is answered only by a job that took all five branches, says so in *)
(* its line, and left no photo behind; a job that failed leaves none       *)
(* either: no stage of the chain may go on with less than its real result. *)
FigureIsWhole ==
    /\ parts # {} => stats = Branches /\ line = Branches /\ lines = 1
    /\ Over => photo # "whole"

(* The line of a figure shows the branches of that subject, and a subject  *)
(* that took a branch has its line: what raises through the chain does so  *)
(* before the first branch, unless the file of the basis vanishes between  *)
(* two openings.                                                           *)
FigureLineIsOwn ==
    Over => /\ lines = 1 => line = stats
            /\ stats # {} /\ "basis" \notin Volatile => lines = 1

(* run_v3_subject: report is called "EXACTAMENTE una vez por sujeto, pase  *)
(* o rechace".  (Expected to fail: a photo without a face raises.)         *)
OneLinePerSubject == Over /\ photo = "none" => lines = 1

=============================================================================
