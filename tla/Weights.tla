------------------------------- MODULE Weights -------------------------------
(***************************************************************************)
(* What every inference process of the backend reads before it decides     *)
(* between the real computation and a double: the volume with the weights  *)
(* and the mode given by VULTUS_REAL_ML.  The volume may change while the  *)
(* process runs; the code looks at it again at every gate.                 *)
(***************************************************************************)
EXTENDS Naturals, FiniteSets

CONSTANTS Threads,   \* threads of the process that run requests
          MaxJobs,   \* bound: jobs a process receives
          Modes,     \* values of VULTUS_REAL_ML considered
          Roles,     \* sets of kinds of job that one process serves
          Disks,     \* contents of the weights volume when the process starts
          Volatile   \* files that may appear or vanish while the process runs

\* A Modal worker serves one kind; the sidecar serves fit, texture and hq;
\* the consumer assembles the meshes; figures have a process of their own.
Kinds == {"fit", "texture", "hq", "mesh", "figure"}

\* landmarker: mediapipe task and GNM npz.  bridge, mat, parsing, dpr, texgan:
\* FFHQ-UV bridge, unwrap mat and the three networks of the texture.
\* deca, epoch, basis, transfer, template: DECA bridge, Deep3D checkpoint,
\* HiFi3D++ basis, transfer table and FLAME template of the shape.
Files == {"landmarker", "bridge", "mat", "parsing", "dpr", "texgan",
          "deca", "epoch", "basis", "transfer", "template"}

ASSUME WeightsAssumption ==
    /\ MaxJobs \in Nat
    /\ Modes \subseteq {"1", "0", "auto"}
    /\ Roles \subseteq SUBSET Kinds
    /\ Disks \subseteq SUBSET Files
    /\ Volatile \subseteq Files

VARIABLES disk,    \* files of the volume that are present and not empty
          mode,    \* VULTUS_REAL_ML of the process
          serves,  \* kinds of job routed to the process
          jobs     \* jobs received so far

processVars == <<disk, mode, serves>>
weightsVars == <<processVars, jobs>>

WeightsTypeOK == /\ disk \subseteq Files
                 /\ mode \in {"1", "0", "auto"}
                 /\ serves \subseteq Kinds
                 /\ jobs \in 0 .. MaxJobs

WeightsInit == disk \in Disks /\ mode \in Modes /\ serves \in Roles /\ jobs = 0

\* A seam asked to be real by the environment.
RealMl == mode = "1"

\* _use_real: the worker's own answer, from the files of the landmarker when
\* the environment does not say.
UseReal == mode = "1" \/ (mode = "auto" /\ "landmarker" \in disk)

\* The process takes one more job of this kind.
Take(kind) ==
    /\ jobs < MaxJobs
    /\ kind \in serves
    /\ jobs' = jobs + 1
    /\ UNCHANGED processVars

\* The volume changes under the process.
Volume(f) ==
    /\ f \in Volatile
    /\ disk' = IF f \in disk THEN disk \ {f} ELSE disk \cup {f}
    /\ UNCHANGED <<mode, serves, jobs>>

=============================================================================
