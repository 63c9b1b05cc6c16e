---------------------------- MODULE JobLifecycle ----------------------------
(***************************************************************************)
(* What the edge promises about one comparison job, as seen through        *)
(* GET /v1/jobs/{id}: the abstract specification that the Durable Object   *)
(* ProgressDO implements and that the job pipeline builds on.              *)
(*                                                                         *)
(* A job is created once, under a fresh UUID.  While its window is open it *)
(* is queued, processing, done or failed; then it is expired, and then it  *)
(* is forgotten for ever: whatever still writes about it afterwards must   *)
(* not bring it back.                                                      *)
(***************************************************************************)

VARIABLES
    status,  \* what GET /v1/jobs/{id} answers; "absent" is the 404
    born     \* has the job been created (a UUID is never used twice)

lifeVars == <<status, born>>

Settled    == {"done", "failed"}
Live       == {"queued", "processing"} \cup Settled
JobStatus  == Live \cup {"expired"}
Visible    == JobStatus \cup {"absent"}

\* isTerminalStatus: the statuses the clients stop at.
IsTerminal(s) == s \in Settled \cup {"expired"}

LifeTypeOK == status \in Visible /\ born \in BOOLEAN

LifeInit == status = "absent" /\ born = FALSE

Create ==
    /\ ~born
    /\ status' = "queued"
    /\ born' = TRUE

\* MUTANT of AfterSettle: an expired job takes the report.
AfterSettle_Revives(s, t) == IF s \in JobStatus THEN t ELSE s

(***************************************************************************)
(* The effect of a write of the pipeline on the visible status.  An        *)
(* expired job refuses it (404); a forgotten job answers 200 and shows     *)
(* nothing of it.                                                          *)
(***************************************************************************)
AfterWork(s)      == IF s = "queued" THEN "processing" ELSE s
AfterSettle(s, t) == IF s \in Live THEN t ELSE s

Begin ==
    /\ status = "queued"
    /\ status' = AfterWork(status)
    /\ UNCHANGED born

Settle(t) ==
    /\ status \in Live
    /\ status' = AfterSettle(status, t)
    /\ UNCHANGED born

Expire ==
    /\ status \in Live
    /\ status' = "expired"
    /\ UNCHANGED born

Forget ==
    /\ status = "expired"
    /\ status' = "absent"
    /\ UNCHANGED born

LifeNext ==
    \/ Create
    \/ Begin
    \/ \E t \in Settled : Settle(t)
    \/ Expire
    \/ Forget

LifeSpec == LifeInit /\ [][LifeNext]_lifeVars
=============================================================================
