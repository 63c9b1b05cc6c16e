---------------------------- MODULE JobPipeline ----------------------------
(***************************************************************************)
(* One comparison job in production, from POST /v1/compare to its oblivion:*)
(* the gateway (edge/worker.ts) that stores both photos and queues a       *)
(* pointer, the queue that delivers it at least once, the Modal consumers  *)
(* (backend/modal_app.py) that turn it into result.zip, and the cron that  *)
(* sweeps what is left.  They share the bucket and the visible status of   *)
(* the job, which is JobLifecycle (what the Durable Object implements).    *)
(*                                                                         *)
(* Every remote call is a step of its own: between two of them the alarm,  *)
(* the sweep or another delivery of the same message may run.  Time is in  *)
(* units in which only the order of the three timeouts matters.            *)
(***************************************************************************)
EXTENDS JobLifecycle, Naturals, Sequences

CONSTANTS
    Workers,        \* invocations of queue_pull_consumer that may overlap
    Ttl,            \* ttl_secs of the job: each window of the object
    Deadline,       \* TOTAL_TIMEOUT_SECS or HQ_TOTAL_TIMEOUT_SECS
    Visibility,     \* _queue_visibility_timeout_secs()
    MaxDeliveries,  \* deliveries after which the queue drops a message
    NoWorker,
    CallsFail,      \* may a call to the gateway or the queue be lost?
    DeletesFail,    \* may the deletion of an object fail?
    Crashes         \* may a container or an isolate be killed?

ASSUME TimeAssumption == {Ttl, Deadline, Visibility, MaxDeliveries} \subseteq Nat \ {0}
ASSUME FaultAssumption == {CallsFail, DeletesFail, Crashes} \subseteq BOOLEAN
ASSUME NoWorkerAssumption == NoWorker \notin Workers

VARIABLES
    left,        \* time to the alarm of the object
    r2,          \* the objects of the job in the bucket
    gw,          \* where handleCompare stands
    gwTodo,      \* the keys handleCompare has yet to delete
    msg,         \* the message of the job
    lease,       \* time to the end of its lease
    holder,      \* the consumer that holds the lease
    deliveries,  \* how often it was delivered
    pc,          \* pc[w]: where consumer w stands
    dl,          \* dl[w]: time to its deadline
    todo,        \* todo[w]: the keys it has yet to delete
    out,         \* out[w]: how _run_job_from_r2 is ending
    sweep,       \* "doomed" between the answer of the object and the delete
    get          \* a GET /result: "done" between the status and the read of R2

jobVars    == <<status, born, left>>
gwVars     == <<gw, gwTodo>>
queueVars  == <<msg, lease, holder, deliveries>>
workerVars == <<pc, dl, todo, out>>
vars == <<status, born, left, r2, gw, gwTodo, msg, lease, holder, deliveries,
          pc, dl, todo, out, sweep, get>>

Inputs  == {"a", "b"}
Objects == Inputs \cup {"zip"}

\* The calls of the pipeline in the order of _run_job_pipeline.
Then == [alive0    |-> "fit0",      \* still wanted?
         fit0      |-> "fetch",     \* report fit
         fetch     |-> "landmarks",
         landmarks |-> "alive1",
         alive1    |-> "fit1",
         fit1      |-> "fit",       \* report fit
         fit       |-> "alive2",
         alive2    |-> "texture1",
         texture1  |-> "texture",   \* report texture
         texture   |-> "assemble1",
         assemble1 |-> "assemble",  \* report assemble
         assemble  |-> "put",
         put       |-> "done1",
         done1     |-> "forget"]    \* report done
Checks  == {"alive0", "alive1", "alive2"}
Reports == {"fit0", "fit1", "texture1", "assemble1", "done1"}
Works   == {"landmarks", "fit", "texture", "assemble"}
Stops   == {"idle", "forget", "fail", "ack"}

TypeOK ==
    /\ LifeTypeOK
    /\ left \in 0..Ttl
    /\ r2 \subseteq Objects
    /\ gw \in {"putA", "putB", "init", "send", "undo", "accepted", "rejected", "broken"}
    /\ gwTodo \in Seq(Inputs)
    /\ msg \in {"none", "ready", "leased", "acked", "dropped"}
    /\ lease \in 0..Visibility
    /\ holder \in Workers \cup {NoWorker}
    /\ deliveries \in 0..MaxDeliveries
    /\ pc \in [Workers -> DOMAIN Then \cup Stops]
    /\ dl \in [Workers -> 0..Deadline]
    /\ todo \in [Workers -> Seq(Objects)]
    /\ out \in [Workers -> {"ok", "abort", "error"}]
    /\ sweep \in {"idle", "doomed"}
    /\ get \in {"none", "done", "served", "missing"}

Init ==
    /\ LifeInit
    /\ left = 0
    /\ r2 = {}
    /\ gw = "putA"
    /\ gwTodo = <<>>
    /\ msg = "none"
    /\ lease = 0
    /\ holder = NoWorker
    /\ deliveries = 0
    /\ pc = [w \in Workers |-> "idle"]
    /\ dl = [w \in Workers |-> 0]
    /\ todo = [w \in Workers |-> <<>>]
    /\ out = [w \in Workers |-> "ok"]
    /\ sweep = "idle"
    /\ get = "none"

-----------------------------------------------------------------------------
(* handleCompare.  Nothing catches a put or an init that throws: the       *)
(* client gets an error and what was stored stays ("broken").              *)
\* MUTANT of PutInput: the error of a put is swallowed.
PutInput_Swallows(here, key, next) ==
    /\ gw = here
    /\ r2' \in {r2, r2 \cup {key}}
    /\ gw' = next
    /\ UNCHANGED <<jobVars, gwTodo, queueVars, workerVars, sweep, get>>

PutInput(here, key, next) ==
    /\ gw = here
    /\ \/ r2' = r2 \cup {key} /\ gw' = next
       \/ r2' \in {r2, r2 \cup {key}} /\ gw' = "broken"   \* the call throws
    /\ UNCHANGED <<jobVars, gwTodo, queueVars, workerVars, sweep, get>>

PutA == PutInput("putA", "a", "putB")
PutB == PutInput("putB", "b", "init")

GatewayInit ==
    /\ gw = "init"
    /\ \/ /\ Create                          \* 200
          /\ left' = Ttl
          /\ gw' = "send"
          /\ UNCHANGED gwTodo
       \/ /\ Create                          \* created, but the call throws
          /\ left' = Ttl
          /\ gw' = "broken"
          /\ UNCHANGED gwTodo
       \/ /\ UNCHANGED jobVars               \* the call throws
          /\ gw' = "broken"
          /\ UNCHANGED gwTodo
       \/ /\ UNCHANGED jobVars               \* answered, not ok
          /\ gw' = "undo"
          /\ gwTodo' = <<"a", "b">>
    /\ UNCHANGED <<r2, queueVars, workerVars, sweep, get>>

\* A send that throws may have queued the message all the same.
Send ==
    /\ gw = "send"
    /\ \/ msg' = "ready" /\ gw' = "accepted" /\ UNCHANGED gwTodo    \* 202
       \/ /\ msg' \in {msg} \cup (IF CallsFail THEN {"ready"} ELSE {})
          /\ gw' = "undo"
          /\ gwTodo' = <<"a", "b">>
    /\ UNCHANGED <<jobVars, r2, lease, holder, deliveries, workerVars, sweep, get>>

Remove(key) ==
    \/ r2' = r2 \ {key}
    \/ DeletesFail /\ r2' = r2

Undo ==
    /\ gw = "undo"
    /\ IF gwTodo = <<>>
       THEN gw' = "rejected" /\ UNCHANGED <<gwTodo, r2>>            \* 502
       ELSE /\ Remove(Head(gwTodo))
            /\ gwTodo' = Tail(gwTodo)
            /\ UNCHANGED gw
    /\ UNCHANGED <<jobVars, queueVars, workerVars, sweep, get>>

GatewayDies ==
    /\ Crashes
    /\ gw \in {"send", "undo"}              \* elsewhere "broken" says it
    /\ gw' = "broken"
    /\ gwTodo' = <<>>
    /\ UNCHANGED <<jobVars, r2, queueVars, workerVars, sweep, get>>

-----------------------------------------------------------------------------
(* The alarm of the object (AlarmExpire, AlarmPurge in ProgressDO).        *)
AlarmExpire ==
    /\ left = 0
    /\ Expire
    /\ left' = Ttl
    /\ UNCHANGED <<r2, gwVars, queueVars, workerVars, sweep, get>>

AlarmPurge ==
    /\ left = 0
    /\ Forget
    /\ UNCHANGED <<left, r2, gwVars, queueVars, workerVars, sweep, get>>

-----------------------------------------------------------------------------
(* The queue: a pull leases the message, an ack under the lease takes it   *)
(* away, and when the lease runs out it is delivered again.  The lease     *)
(* starts when the queue answers and the deadline when the consumer has    *)
(* the message: here in one step, in the code the lease a little earlier,  *)
(* which the seconds that Visibility is above Deadline have to cover.      *)
\* MUTANT of Pull: the visibility of the code's default, not of the environment.
Pull_ShortLease(w) ==
    /\ msg = "ready"
    /\ pc[w] = "idle"
    /\ msg' = "leased"
    /\ lease' = 1
    /\ deliveries' = deliveries + 1
    /\ holder' = w
    /\ pc' = [pc EXCEPT ![w] = "alive0"]
    /\ dl' = [dl EXCEPT ![w] = Deadline]
    /\ UNCHANGED <<jobVars, r2, gwVars, todo, out, sweep, get>>

Pull(w) ==
    /\ msg = "ready"
    /\ pc[w] = "idle"
    /\ msg' = "leased"
    /\ lease' = Visibility
    /\ deliveries' = deliveries + 1
    /\ \/ /\ holder' = w
          /\ pc' = [pc EXCEPT ![w] = "alive0"]
          /\ dl' = [dl EXCEPT ![w] = Deadline]
       \/ /\ CallsFail                        \* the answer is lost
          /\ holder' = NoWorker
          /\ UNCHANGED <<pc, dl>>
    /\ UNCHANGED <<jobVars, r2, gwVars, todo, out, sweep, get>>

\* MUTANT of LeaseOver: no limit of retries.
LeaseOver_Forever ==
    /\ msg = "leased"
    /\ lease = 0
    /\ msg' = "ready"
    /\ holder' = NoWorker
    /\ UNCHANGED <<jobVars, r2, gwVars, lease, deliveries, workerVars, sweep, get>>

LeaseOver ==
    /\ msg = "leased"
    /\ lease = 0
    /\ msg' = IF deliveries < MaxDeliveries THEN "ready" ELSE "dropped"
    /\ holder' = NoWorker
    /\ UNCHANGED <<jobVars, r2, gwVars, lease, deliveries, workerVars, sweep, get>>

-----------------------------------------------------------------------------
(* _run_job_pipeline, inside _run_job_from_r2.                             *)
Goto(w, p) == pc' = [pc EXCEPT ![w] = p]

\* The pipeline is over; keys are what is deleted on the way out.
Leave(w, how, keys) ==
    /\ Goto(w, "forget")
    /\ out' = [out EXCEPT ![w] = how]
    /\ todo' = [todo EXCEPT ![w] = keys]

Everything == <<"a", "b", "zip">>      \* _delete_r2_related
OnlyInputs == <<"a", "b">>             \* _delete_r2_inputs

\* A report is best-effort; one that carries stage `done` settles the job.
Told(kind) ==
    /\ \/ status' = IF kind = "work" THEN AfterWork(status)
                    ELSE AfterSettle(status, kind)
       \/ CallsFail /\ status' = status
    /\ UNCHANGED <<born, left>>

\* _job_alive: a 404 raises in urllib, and whatever raises counts as alive.
Check(w) ==
    /\ pc[w] \in Checks
    /\ \/ /\ status \in {"queued", "processing", "absent"} \/ CallsFail
          /\ Goto(w, Then[pc[w]])
          /\ UNCHANGED <<todo, out>>
       \/ /\ status \notin {"queued", "processing", "absent"}
          /\ Leave(w, IF pc[w] = "alive0" THEN "ok" ELSE "abort", Everything)
    /\ UNCHANGED <<jobVars, r2, gwVars, queueVars, dl, sweep, get>>

ReportStage(w) ==
    /\ pc[w] \in Reports
    /\ Told(IF pc[w] = "done1" THEN "done" ELSE "work")
    /\ IF pc[w] = "done1" THEN Leave(w, "ok", OnlyInputs)
       ELSE Goto(w, Then[pc[w]]) /\ UNCHANGED <<todo, out>>
    /\ UNCHANGED <<r2, gwVars, queueVars, dl, sweep, get>>

\* Both photos are read at one instant: nothing puts a photo back, so two
\* reads that succeed one after the other also succeed together, earlier.
Fetch(w) ==
    /\ pc[w] = "fetch"
    /\ \/ /\ Inputs \subseteq r2
          /\ Goto(w, Then[pc[w]])
          /\ UNCHANGED <<todo, out>>
       \/ Leave(w, "error", Everything)
    /\ UNCHANGED <<jobVars, r2, gwVars, queueVars, dl, sweep, get>>

\* The remote workers of the first two stages read the photos again.
Work(w) ==
    /\ pc[w] \in Works
    /\ \/ /\ pc[w] \in {"landmarks", "fit"} => Inputs \subseteq r2
          /\ Goto(w, Then[pc[w]])
          /\ UNCHANGED <<todo, out>>
       \/ Leave(w, "error", Everything)
    /\ UNCHANGED <<jobVars, r2, gwVars, queueVars, dl, sweep, get>>

PutResult(w) ==
    /\ pc[w] = "put"
    /\ \/ /\ r2' = r2 \cup {"zip"}
          /\ Goto(w, Then[pc[w]])
          /\ UNCHANGED <<todo, out>>
       \/ /\ r2' \in {r2, r2 \cup {"zip"}}    \* thrown: stored or not
          /\ Leave(w, "error", Everything)
    /\ UNCHANGED <<jobVars, gwVars, queueVars, dl, sweep, get>>

DeleteNext(w) ==
    /\ pc[w] = "forget"
    /\ todo[w] # <<>>
    /\ Remove(Head(todo[w]))
    /\ todo' = [todo EXCEPT ![w] = Tail(@)]
    /\ UNCHANGED <<jobVars, gwVars, queueVars, pc, dl, out, sweep, get>>

(***************************************************************************)
(* queue_pull_consumer after the pipeline.  fut.result raises TimeoutError *)
(* at the deadline, but the executor's `with` waits for the thread, so the *)
(* failure is reported once the pipeline has ended, however it ended.      *)
(***************************************************************************)
Ended(w) ==
    /\ pc[w] = "forget"
    /\ todo[w] = <<>>
    /\ Goto(w, IF out[w] = "error" \/ dl[w] = 0 THEN "fail" ELSE "ack")
    /\ UNCHANGED <<jobVars, r2, gwVars, queueVars, dl, todo, out, sweep, get>>

ReportFailed(w) ==
    /\ pc[w] = "fail"
    /\ Told("failed")
    /\ Goto(w, "ack")
    /\ UNCHANGED <<r2, gwVars, queueVars, dl, todo, out, sweep, get>>

Ack(w) ==
    /\ pc[w] = "ack"
    /\ Goto(w, "idle")
    /\ \/ /\ holder = w
          /\ msg' = "acked"
          /\ holder' = NoWorker
       \/ /\ holder # w \/ CallsFail
          /\ UNCHANGED <<msg, holder>>
    /\ UNCHANGED <<jobVars, r2, gwVars, lease, deliveries, dl, todo, out, sweep, get>>

Die(w) ==
    /\ Crashes
    /\ pc[w] # "idle"
    /\ Goto(w, "idle")
    /\ todo' = [todo EXCEPT ![w] = <<>>]
    /\ UNCHANGED <<jobVars, r2, gwVars, queueVars, dl, out, sweep, get>>

-----------------------------------------------------------------------------
(* sweepExpiredResults, for the key of this job.                           *)
SweepAsk ==
    /\ sweep = "idle"
    /\ "zip" \in r2
    /\ status \in {"absent", "expired"}
    /\ sweep' = "doomed"
    /\ UNCHANGED <<jobVars, r2, gwVars, queueVars, workerVars, get>>

SweepDelete ==
    /\ sweep = "doomed"
    /\ Remove("zip")
    /\ sweep' = "idle"
    /\ UNCHANGED <<jobVars, gwVars, queueVars, workerVars, get>>

-----------------------------------------------------------------------------
(* handleResult: the answers 404 and 409 of the first half change nothing. *)
GetAsk ==
    /\ get # "done"
    /\ status = "done"
    /\ get' = "done"
    /\ UNCHANGED <<jobVars, r2, gwVars, queueVars, workerVars, sweep>>

GetRead ==
    /\ get = "done"
    /\ get' = IF "zip" \in r2 THEN "served" ELSE "missing"
    /\ UNCHANGED <<jobVars, r2, gwVars, queueVars, workerVars, sweep>>

-----------------------------------------------------------------------------

\* Time passes; the alarm of the object is on time.
Elapse ==
    /\ status \in JobStatus => left > 0
    /\ left > 0 \/ lease > 0 \/ \E w \in Workers : dl[w] > 0
    /\ left' = IF left > 0 THEN left - 1 ELSE 0
    /\ lease' = IF lease > 0 THEN lease - 1 ELSE 0
    /\ dl' = [w \in Workers |-> IF dl[w] > 0 THEN dl[w] - 1 ELSE 0]
    /\ UNCHANGED <<status, born, r2, gwVars, msg, holder, deliveries,
                   pc, todo, out, sweep, get>>

Gateway    == PutA \/ PutB \/ GatewayInit \/ Send \/ Undo \/ GatewayDies
Consume(w) == \/ Check(w) \/ ReportStage(w) \/ Fetch(w) \/ Work(w) \/ PutResult(w)
              \/ DeleteNext(w) \/ Ended(w) \/ ReportFailed(w) \/ Ack(w)

Next ==
    \/ Gateway
    \/ AlarmExpire \/ AlarmPurge
    \/ \E w \in Workers : Pull(w) \/ Consume(w) \/ Die(w)
    \/ LeaseOver
    \/ SweepAsk \/ SweepDelete
    \/ GetAsk \/ GetRead
    \/ Elapse

Spec == Init /\ [][Next]_vars

(***************************************************************************)
(* Fairness: time passes, the runtime runs a due alarm, and the cron asks  *)
(* and deletes every minute; a delete that is tried for ever succeeds once.*)
(* Gateway, queue and consumers may stop for good anywhere.                *)
(***************************************************************************)
Fairness ==
    /\ WF_vars(Elapse)
    /\ WF_vars(AlarmExpire)
    /\ WF_vars(AlarmPurge)
    /\ WF_vars(SweepAsk)
    /\ WF_vars(SweepDelete)
    /\ SF_vars(SweepDelete /\ "zip" \notin r2')

FairSpec == Spec /\ Fairness

-----------------------------------------------------------------------------
(* Properties.                                                             *)

Running(w) == pc[w] \notin {"idle", "fail", "ack"}

\* GET /v1/jobs/{id}/result never answers 404 for a job whose status is
\* `done`: neither a second delivery, which deletes everything when it finds
\* the job settled (modal_app.py:1371-1374), nor the sweep takes the zip away
\* while the window is open.
DoneHasResult == status = "done" => "zip" \in r2

\* The client that saw `done` and still got a 404 for the result was too late:
\* the answer of the object may be stale when handleResult reads R2, but the
\* window is then over.
MissingIsOver == get = "missing" => status \notin Live

\* A job the clients stopped polling at (done, failed, expired) only moves on
\* towards oblivion: no late report and no second delivery changes its answer.
TerminalStays ==
    [][(IsTerminal(status) /\ status' # status)
         => (status' = IF status = "expired" THEN "absent" ELSE "expired")]_vars

\* A failed job leaves nothing that GET /result or the bucket could serve:
\* "el fallo ya lo limpia Modal" (worker.ts:503), which is why the sweep
\* keeps the zip of a failed job.
FailedHasNoResult == status = "failed" /\ ~DeletesFail => "zip" \notin r2

\* The status of a job says what is stored for it: a result when it is done
\* (DoneHasResult), none when it failed (FailedHasNoResult), and whoever is
\* answered that there is none was too late for it (MissingIsOver).
ResultMatchesStatus == DoneHasResult /\ FailedHasNoResult /\ MissingIsOver

\* Once the queue has let go of the message by an ack, nothing of the photos
\* is left for the bucket's one-day rule, however the run ended ("sin
\* huerfanos", modal_app.py:1593).
AckedLeavesNoPhotos == msg = "acked" /\ ~DeletesFail => r2 \cap Inputs = {}

\* A 202 promises work that can be done: until its first delivery the message
\* points at two stored photos.
AcceptedHasPhotos == gw = "accepted" /\ deliveries = 0 => Inputs \subseteq r2

\* The photos are there as long as the message needs them and no longer:
\* AcceptedHasPhotos and AckedLeavesNoPhotos.
PhotosMatchMessage == AcceptedHasPhotos /\ AckedLeavesNoPhotos

\* No job is computed twice at once by consumers that are within their
\* deadline ("se procesaria duplicado", modal_app.py:1219-1224).
RunsDoNotOverlap ==
    \A v, w \in Workers :
        Running(v) /\ Running(w) /\ dl[v] > 0 /\ dl[w] > 0 => v = w

\* The result is forgotten in the end, whichever delivery wrote it however
\* late, and although single deletes fail.
ZipForgotten == <>[]("zip" \notin r2)
=============================================================================
