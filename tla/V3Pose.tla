-------------------------------- MODULE V3Pose -------------------------------
(***************************************************************************)
(* The pose of a V3 figure: refine_pose descends from zero in eight steps, *)
(* one axis at a time, and the worker's gate rejects the subject when the  *)
(* yaw it found is above V3_YAW_MAX_DEG.                                   *)
(*                                                                         *)
(* Lengths and angles are thousandths (of a unit, of a radian), positions  *)
(* in the photo are pixels; divisions round down.                          *)
(***************************************************************************)
EXTENDS Integers, FiniteSetsExt

CONSTANTS Photos,  \* [points, seen, focal, turn]: 68 or fewer points of the
                   \* head, where the photo shows them, the yaw it was taken at
          Steps,   \* steps=8
          YawMax   \* V3_YAW_MAX_DEG in thousandths of a radian

Unit == 1000
Axes == 1 .. 6      \* tx, ty, tz, rx, ry, rz
Ry == 5

VARIABLES photo, pose, step, left, verdict
poseVars == <<photo, pose, step, left, verdict>>

\* _project_perspective: a linearised rotation, a camera two units away.
ProjectPerspective(o, f, q) ==
    LET x == o[1] + (q[5] * o[3] - q[6] * o[2]) \div Unit + q[1]
        y == o[2] + (q[6] * o[1] - q[4] * o[3]) \div Unit + q[2]
        z == Max({o[3] + (q[4] * o[2] - q[5] * o[1]) \div Unit + q[3] + 2 * Unit, 1})
    IN  <<(f * x) \div z, (f * y) \div z>>

\* reprojection_error, squared and summed: only compared.
ReprojectionError(p, q) ==
    MapThenSumSet(LAMBDA i :
        LET e == ProjectPerspective(p.points[i], p.focal, q)
            du == e[1] - p.seen[i][1]
            dv == e[2] - p.seen[i][2]
        IN  du * du + dv * dv, DOMAIN p.points)

PoseInit == /\ photo \in Photos
            /\ pose = [a \in Axes |-> 0] /\ step = Unit \div 20
            /\ left = Steps /\ verdict = "none"

Moved(axis, sign) == [pose EXCEPT ![axis] = @ + sign * step]
Better(axis, sign) ==
    ReprojectionError(photo, Moved(axis, sign)) < ReprojectionError(photo, pose)

\* refine_pose, one iteration: the first axis that improves is taken, + before
\* -, and the others wait for the next iteration; if none does, half the step.
RefinePose ==
    /\ left > 0
    /\ left' = left - 1
    /\ LET better == {a \in Axes : Better(a, 1) \/ Better(a, -1)}
           first  == Min(better)
       IN  IF better = {} THEN step' = step \div 2 /\ UNCHANGED pose
           ELSE pose' = Moved(first, IF Better(first, 1) THEN 1 ELSE -1) /\ UNCHANGED step
    /\ UNCHANGED <<photo, verdict>>

\* run_v3_subject's gate on pose[4].
Gate ==
    /\ left = 0 /\ verdict = "none"
    /\ verdict' = IF pose[Ry] > YawMax \/ pose[Ry] < -YawMax THEN "rejected" ELSE "accepted"
    /\ UNCHANGED <<photo, pose, step, left>>

PoseSpec == PoseInit /\ [][RefinePose \/ Gate]_poseVars

(* v3_pose.py: "Yaw maximo V3_YAW_MAX_DEG (15 deg): poses no frontales se  *)
(* rechazan"; run_v3_subject: "el de yaw se mide de la pose refinada".  A   *)
(* head turned by more than that is rejected.  (Expected to fail: every     *)
(* step goes to tx, which starts at the corner of the photo and has to      *)
(* absorb its centre; ry stays zero.)                                       *)
TurnedIsRejected ==
    verdict = "accepted" => photo.turn \in -YawMax .. YawMax

=============================================================================
