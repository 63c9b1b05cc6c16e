---------------------------- MODULE DevPipeline ----------------------------
(***************************************************************************)
(* One comparison job in the development stack: the queue consumer and the *)
(* two extra routes of edge/worker.dev.ts, and the local runner            *)
(* (backend/local_runner.py, run_pair in backend/pipeline_local.py) that   *)
(* they hand the job to by a webhook.                                      *)
(*                                                                         *)
(* The runner answers webhooks in threads of one process: a webhook that   *)
(* fails on the gateway's side is retried while its thread still runs.     *)
(* The runner's own calls go over HTTP; one that fails may have had its    *)
(* effect.  Timeouts and deadlines of a stage are a failure that may come  *)
(* at any time, and so may the alarm of the object, which is JobLifecycle. *)
(* The message is one handleCompare wrote, and ML_SIDECAR_URL is valid: no *)
(* dead letter, no "skipped-no-sidecar".                                   *)
(***************************************************************************)
EXTENDS JobLifecycle, Naturals

CONSTANTS
    Threads,        \* threads of the runner
    NoThread,
    MaxDeliveries,  \* deliveries after which the queue drops a message
    CallsFail,      \* may a call between runner and gateway fail?
    DeletesFail,    \* may the deletion of an object fail?
    RunnerDies      \* may the runner's process be killed?

ASSUME DevAssumption ==
    /\ MaxDeliveries \in Nat \ {0}
    /\ {CallsFail, DeletesFail, RunnerDies} \subseteq BOOLEAN
    /\ NoThread \notin Threads

VARIABLES
    r2,          \* the objects of the job in the bucket
    msg,         \* the message of the job
    hook,        \* the thread whose answer the consumer awaits
    deliveries,  \* how often it was delivered
    pc,          \* pc[t]: where thread t stands in process_message
    put,         \* put[t]: where the gateway stands in the PUT of thread t
    dir,         \* does the job's temporary directory exist (one for all threads)
    lost         \* which kinds of calls have failed so far

jobVars   == <<status, born>>
queueVars == <<msg, hook, deliveries>>
vars == <<status, born, r2, msg, hook, deliveries, pc, put, dir, lost>>

Inputs == {"a", "b"}

\* The steps of process_message and run_pair when everything goes well.
Then == [status    |-> "fetchA",
         fetchA    |-> "fetchB",
         fetchB    |-> "mkdir",
         mkdir     |-> "fit0",
         fit0      |-> "landmarks",   \* report fit
         landmarks |-> "fit",
         fit       |-> "texture1",
         texture1  |-> "texture",     \* report texture
         texture   |-> "assemble1",
         assemble1 |-> "assemble",    \* report assemble
         assemble  |-> "put",
         put       |-> "done1",
         done1     |-> "cleanup",     \* report done
         fail      |-> "cleanup",     \* sink.fail in run_pair
         cleanup   |-> "answer",
         fail0     |-> "answer"]      \* sink.fail in process_message
Reports == {"fit0", "texture1", "assemble1"}
Works   == {"landmarks", "fit", "texture", "assemble"}
InPair  == Reports \cup Works \cup {"put", "done1", "fail", "cleanup"}

TypeOK ==
    /\ LifeTypeOK
    /\ r2 \subseteq Inputs \cup {"zip"}
    /\ msg \in {"none", "ready", "posted", "acked", "dropped"}
    /\ hook \in Threads \cup {NoThread}
    /\ deliveries \in 0..MaxDeliveries
    /\ pc \in [Threads -> DOMAIN Then \cup {"idle", "answer"}]
    /\ put \in [Threads -> {"idle", "zip", "a", "b", "ok", "bad"}]
    /\ dir \in BOOLEAN
    /\ lost \subseteq {"hook", "status", "report", "end"}

Init ==
    /\ LifeInit
    /\ r2 = {}
    /\ msg = "none"
    /\ hook = NoThread
    /\ deliveries = 0
    /\ pc = [t \in Threads |-> "idle"]
    /\ put = [t \in Threads |-> "idle"]
    /\ dir = FALSE
    /\ lost = {}

\* A call of this kind fails; whether it had its effect is up to the caller.
Lose(kind) == CallsFail /\ lost' = lost \cup {kind}

-----------------------------------------------------------------------------
(* handleCompare when it succeeds (JobPipeline has all of it), and the     *)
(* alarm of the object, which may fire whenever it likes.                  *)
Accept ==
    /\ Create
    /\ r2' = Inputs
    /\ msg' = "ready"
    /\ UNCHANGED <<hook, deliveries, pc, put, dir, lost>>

Alarm ==
    /\ Expire \/ Forget
    /\ UNCHANGED <<r2, queueVars, pc, put, dir, lost>>

-----------------------------------------------------------------------------
(* queue() in worker.dev.ts: post, then ack on a 2xx, retry otherwise.     *)
Retry == msg' = IF deliveries' < MaxDeliveries THEN "ready" ELSE "dropped"

Post(t) ==
    /\ msg = "ready"
    /\ pc[t] = "idle"
    /\ put[t] = "idle"
    /\ deliveries' = deliveries + 1
    /\ \/ /\ msg' = "posted"
          /\ hook' = t
          /\ pc' = [pc EXCEPT ![t] = "status"]
          /\ UNCHANGED lost
       \/ /\ Lose("hook")                    \* it does not reach the runner
          /\ Retry
          /\ UNCHANGED <<hook, pc>>
    /\ UNCHANGED <<jobVars, r2, put, dir>>

\* MUTANT of HookFails: a retry that nobody counts.
HookFails_Forever ==
    /\ msg = "posted"
    /\ \/ pc[hook] = "idle" /\ UNCHANGED lost
       \/ Lose("hook")
    /\ msg' = "ready"
    /\ hook' = NoThread
    /\ UNCHANGED <<jobVars, r2, deliveries, pc, put, dir>>

\* The fetch throws: its thread died, or the connection broke under it.
HookFails ==
    /\ msg = "posted"
    /\ \/ pc[hook] = "idle" /\ UNCHANGED lost
       \/ Lose("hook")
    /\ deliveries' = deliveries
    /\ Retry
    /\ hook' = NoThread
    /\ UNCHANGED <<jobVars, r2, pc, put, dir>>

\* do_POST: 200 with whatever process_message says of the job.
Answer(t) ==
    /\ pc[t] = "answer"
    /\ pc' = [pc EXCEPT ![t] = "idle"]
    /\ IF hook = t
       THEN msg' = "acked" /\ hook' = NoThread
       ELSE UNCHANGED <<msg, hook>>
    /\ UNCHANGED <<jobVars, r2, deliveries, put, dir, lost>>

-----------------------------------------------------------------------------
(* process_message.                                                        *)
Goto(t, p) == pc' = [pc EXCEPT ![t] = p]

\* MUTANT of Status: terminal jobs are not skipped.
Status_NoSkip(t) ==
    /\ pc[t] = "status"
    /\ Goto(t, Then[pc[t]])
    /\ UNCHANGED <<jobVars, r2, queueVars, put, dir, lost>>

\* _gateway_status: None (a 404, or no answer) counts as not terminal.
Status(t) ==
    /\ pc[t] = "status"
    /\ \/ /\ Goto(t, IF IsTerminal(status) THEN "answer" ELSE Then[pc[t]])
          /\ UNCHANGED lost
       \/ Lose("status") /\ Goto(t, Then[pc[t]])
    /\ UNCHANGED <<jobVars, r2, queueVars, put, dir>>

\* _fetch_blob.  The dev route asks the object first; a read that succeeds
\* after it is one that succeeds with it, for no photo is ever put back.
Fetch(t, key) ==
    /\ \/ /\ status \notin {"expired", "absent"} /\ key \in r2
          /\ Goto(t, Then[pc[t]])
       \/ /\ status \in {"expired", "absent"} \/ key \notin r2 \/ CallsFail
          /\ Goto(t, "fail0")
    /\ UNCHANGED <<jobVars, r2, queueVars, put, dir, lost>>

FetchA(t) == pc[t] = "fetchA" /\ Fetch(t, "a")
FetchB(t) == pc[t] = "fetchB" /\ Fetch(t, "b")

-----------------------------------------------------------------------------
(* run_pair.                                                               *)
Mkdir(t) ==
    /\ pc[t] = "mkdir"
    /\ dir' = TRUE
    /\ Goto(t, Then[pc[t]])
    /\ UNCHANGED <<jobVars, r2, queueVars, put, lost>>

\* sink.report: an expired job answers 404, and any error ends the run
\* without a sink.fail.
Report(t) ==
    /\ pc[t] \in Reports
    /\ \/ /\ status # "expired"
          /\ status' = AfterWork(status)
          /\ Goto(t, Then[pc[t]])
          /\ UNCHANGED lost
       \/ /\ status = "expired"
          /\ Goto(t, "cleanup")
          /\ UNCHANGED <<status, lost>>
       \/ /\ Lose("report")
          /\ status' \in {status, AfterWork(status)}
          /\ Goto(t, "cleanup")
    /\ UNCHANGED <<born, r2, queueVars, put, dir>>

\* MUTANT of Work: a stage that fails leaves without sink.fail.
Work_Silent(t) ==
    /\ pc[t] \in Works
    /\ Goto(t, Then[pc[t]]) \/ Goto(t, "cleanup")
    /\ UNCHANGED <<jobVars, r2, queueVars, put, dir, lost>>

\* Both faces of a stage, on the sidecar or, for assemble, in the runner.
Work(t) ==
    /\ pc[t] \in Works
    /\ Goto(t, Then[pc[t]]) \/ Goto(t, "fail")
    /\ UNCHANGED <<jobVars, r2, queueVars, put, dir, lost>>

Fail(t) ==
    /\ pc[t] \in {"fail", "fail0"}
    /\ \/ status' = AfterSettle(status, "failed") /\ UNCHANGED lost
       \/ Lose("end") /\ status' \in {status, AfterSettle(status, "failed")}
    /\ Goto(t, Then[pc[t]])
    /\ UNCHANGED <<born, r2, queueVars, put, dir>>

-----------------------------------------------------------------------------
(* HttpProgressSink.complete: PUT /dev/results/{id}, then the report done. *)
PutSend(t) ==
    /\ pc[t] = "put"
    /\ put[t] = "idle"
    /\ \/ put' = [put EXCEPT ![t] = "zip"] /\ UNCHANGED <<pc, lost>>
       \/ Lose("end") /\ Goto(t, "cleanup") /\ UNCHANGED put
    /\ UNCHANGED <<jobVars, r2, queueVars, dir>>

Remove(key) ==
    \/ r2' = r2 \ {key}
    \/ DeletesFail /\ r2' = r2

\* MUTANT of PutForget: the inputs stay.
PutForget_Nothing(t, here, next) ==
    /\ put[t] = here
    /\ put' = [put EXCEPT ![t] = next]
    /\ UNCHANGED <<jobVars, r2, queueVars, pc, dir, lost>>

\* The route stores the zip without asking the object, then deletes the
\* inputs; it goes on when the runner has given up waiting, or died.
PutStore(t) ==
    /\ put[t] = "zip"
    /\ \/ r2' = r2 \cup {"zip"} /\ put' = [put EXCEPT ![t] = "a"] /\ UNCHANGED lost
       \/ /\ Lose("end")
          /\ r2' \in {r2, r2 \cup {"zip"}}
          /\ put' = [put EXCEPT ![t] = "bad"]
    /\ UNCHANGED <<jobVars, queueVars, pc, dir>>

PutForget(t, here, next) ==
    /\ put[t] = here
    /\ Remove(here)
    /\ put' = [put EXCEPT ![t] = next]
    /\ UNCHANGED <<jobVars, queueVars, pc, dir, lost>>

PutForgetA(t) == PutForget(t, "a", "b")
PutForgetB(t) == PutForget(t, "b", "ok")

PutAnswer(t) ==
    /\ put[t] \in {"ok", "bad"}
    /\ put' = [put EXCEPT ![t] = "idle"]
    /\ IF pc[t] = "put"
       THEN Goto(t, IF put[t] = "ok" THEN Then[pc[t]] ELSE "cleanup")
       ELSE UNCHANGED pc
    /\ UNCHANGED <<jobVars, r2, queueVars, dir, lost>>

\* _http gives up after 10 s (599).
PutTimeout(t) ==
    /\ pc[t] = "put"
    /\ put[t] # "idle"
    /\ Lose("end")
    /\ Goto(t, "cleanup")
    /\ UNCHANGED <<jobVars, r2, queueVars, put, dir>>

ReportDone(t) ==
    /\ pc[t] = "done1"
    /\ \/ status' = AfterSettle(status, "done") /\ UNCHANGED lost
       \/ Lose("end") /\ status' \in {status, AfterSettle(status, "done")}
    /\ Goto(t, Then[pc[t]])
    /\ UNCHANGED <<born, r2, queueVars, put, dir>>

Cleanup(t) ==
    /\ pc[t] = "cleanup"
    /\ dir' = FALSE
    /\ Goto(t, Then[pc[t]])
    /\ UNCHANGED <<jobVars, r2, queueVars, put, lost>>

-----------------------------------------------------------------------------
\* All threads go at once, and the directory (tmpfs) with them.
Die ==
    /\ RunnerDies
    /\ \E t \in Threads : pc[t] # "idle"
    /\ pc' = [t \in Threads |-> "idle"]
    /\ dir' = FALSE
    /\ UNCHANGED <<jobVars, r2, queueVars, put, lost>>

\* MUTANT of Sweep: a job the object has forgotten is not looked at.
Sweep_NotPurged ==
    /\ "zip" \in r2
    /\ status = "expired"
    /\ Remove("zip")
    /\ UNCHANGED <<jobVars, queueVars, pc, put, dir, lost>>

\* scheduled(): production's sweep.  Its question and its delete are one step
\* here, for an expired or forgotten job stays one (JobPipeline splits them).
Sweep ==
    /\ "zip" \in r2
    /\ status \in {"expired", "absent"}
    /\ Remove("zip")
    /\ UNCHANGED <<jobVars, queueVars, pc, put, dir, lost>>

Put(t) == \/ PutSend(t) \/ PutStore(t) \/ PutForgetA(t) \/ PutForgetB(t)
          \/ PutAnswer(t) \/ PutTimeout(t)
Run(t) == \/ Status(t) \/ FetchA(t) \/ FetchB(t) \/ Mkdir(t) \/ Report(t)
          \/ Work(t) \/ Fail(t) \/ ReportDone(t) \/ Cleanup(t) \/ Answer(t)

Next ==
    \/ Accept \/ Alarm
    \/ HookFails
    \/ \E t \in Threads : Post(t) \/ Run(t) \/ Put(t)
    \/ Die
    \/ Sweep

Spec == Init /\ [][Next]_vars

(***************************************************************************)
(* Fairness: the alarm fires in the end, the gateway ends a PUT it began,  *)
(* and the cron sweeps every minute until a delete succeeds.  Queue and    *)
(* runner may stop for good anywhere.                                      *)
(***************************************************************************)
Fairness ==
    /\ WF_vars(Alarm)
    /\ \A t \in Threads : /\ WF_vars(PutStore(t)) /\ WF_vars(PutForgetA(t))
                          /\ WF_vars(PutForgetB(t))
    /\ SF_vars(Sweep /\ "zip" \notin r2')

FairSpec == Spec /\ Fairness

-----------------------------------------------------------------------------
(* Properties.                                                             *)

\* A job that says `done` has its result, whatever call of which thread
\* failed, and while a second thread works on the same job.
DoneHasResult == status = "done" => "zip" \in r2

\* A job that says `done` has no photos left ("tras el zip ok los inputs se
\* olvidan", worker.dev.ts:119), so a late delivery cannot recompute it.
DoneHasNoPhotos == status = "done" /\ ~DeletesFail => r2 \cap Inputs = {}

\* A job that says `done` has its result and no photos: DoneHasResult and
\* DoneHasNoPhotos.
DoneIsClean == DoneHasResult /\ DoneHasNoPhotos

\* The temporary directory does not outlive the threads that use it, however
\* they end: "Directorio efimero del job en tmpfs. Ciclo de vida del pipeline"
\* (pipeline_local.py:68).
DirIsUsed == dir => \E t \in Threads : pc[t] \in InPair

\* The message is let go only once the job was told how it ended, unless the
\* very call that tells it, or a report before it, failed.
AckedIsOver ==
    msg = "acked" /\ lost \cap {"report", "end"} = {}
        => status \notin {"queued", "processing"}

\* A run that is over leaves no directory and no job without an end: DirIsUsed
\* and AckedIsOver.
RunIsClosed == DirIsUsed /\ AckedIsOver

\* The same whatever reports fail: "`report` es best-effort"
\* (pipeline_local.py:90).
AckedIsOverWithoutReports ==
    msg = "acked" /\ "end" \notin lost => status \notin {"queued", "processing"}

\* An answer clients stop at is only followed by oblivion, as long as webhooks
\* stay connected and the runner learns the status of the job: a runner that
\* dies and is called again skips a settled job.
TerminalStays ==
    [][(IsTerminal(status) /\ status' # status /\ lost' \cap {"hook", "status"} = {})
         => (status' = IF status = "expired" THEN "absent" ELSE "expired")]_vars

\* A zip that is put however late, even after the purge, is removed.
ZipForgotten == <>[]("zip" \notin r2)
=============================================================================
