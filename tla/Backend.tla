------------------------------- MODULE Backend -------------------------------
(***************************************************************************)
(* The Python backend, one part of it at a time: an inference process      *)
(* (Inference), the wire to the ML sidecar (Wire), the queue's messages    *)
(* (Envelope), the atlas of a face (Atlas) and its mesh (Mesh).  The parts *)
(* hand values to one another and share no state, so a behaviour runs one  *)
(* of them and the others stand still.                                     *)
(***************************************************************************)
EXTENDS Inference, Wire, Envelope, Atlas, Mesh

CONSTANT Parts    \* parts considered

PartNames == {"process", "wire", "envelope", "atlas", "mesh"}

ASSUME BackendAssumption == Parts \subseteq PartNames

VARIABLE under    \* the part that runs

processPart == <<weightsVars, bakeVars, meshVars, figureVars>>
backendVars == <<processPart, wireVars, envelopeVars, atlasVars, meshFileVars, under>>

\* Where the parts stand that do not run.
ProcessRests == /\ disk = {} /\ mode = "auto" /\ serves = {} /\ jobs = 0
                /\ TextureInit /\ FitInit /\ FigureInit
WireRests == image = (CHOOSE i \in Images : ParseImageBytes(i).ok) /\ WireInit
AtlasRests == scene = <<>> /\ AtlasClear
MeshRests == origin = "mat" /\ faces = <<>> /\ MeshFileClear

BackendInit ==
    /\ under \in Parts
    /\ IF under = "process" THEN InferenceInit ELSE ProcessRests
    /\ IF under = "wire" THEN WireInit ELSE WireRests
    /\ EnvelopeInit
    /\ IF under = "atlas" THEN AtlasInit ELSE AtlasRests
    /\ IF under = "mesh" THEN MeshFileInit ELSE MeshRests

ProcessStep == /\ under = "process" /\ InferenceNext
               /\ UNCHANGED <<wireVars, envelopeVars, atlasVars, meshFileVars>>
WireStep == /\ under = "wire" /\ WireNext
            /\ UNCHANGED <<processPart, envelopeVars, atlasVars, meshFileVars>>
EnvelopeStep == /\ under = "envelope" /\ EnvelopeNext
                /\ UNCHANGED <<processPart, wireVars, atlasVars, meshFileVars>>
AtlasStep == /\ under = "atlas" /\ AtlasNext
             /\ UNCHANGED <<processPart, wireVars, envelopeVars, meshFileVars>>
MeshStep == /\ under = "mesh" /\ MeshFileNext
            /\ UNCHANGED <<processPart, wireVars, envelopeVars, atlasVars>>

BackendNext ==
    /\ ProcessStep \/ WireStep \/ EnvelopeStep \/ AtlasStep \/ MeshStep
    /\ UNCHANGED under

BackendSpec == BackendInit /\ [][BackendNext]_backendVars

-----------------------------------------------------------------------------
\* Properties.

\* The process and the wire have their types.
TypeOK == InferenceTypeOK /\ WireTypeOK

(* What crosses the border to the sidecar arrives as it was held, or is    *)
(* refused: RunsOnWhatIsHeld and SkewIsRefused.                            *)
WireIsExact == RunsOnWhatIsHeld /\ SkewIsRefused

(* A message of the queue is taken as its producer meant it or kept among  *)
(* the newest dead letters: EnvelopeIsOwn and LettersAreNewest.            *)
QueueIsRead == EnvelopeIsOwn /\ LettersAreNewest

=============================================================================
