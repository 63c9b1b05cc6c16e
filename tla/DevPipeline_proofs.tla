------------------------- MODULE DevPipeline_proofs -------------------------
(***************************************************************************)
(* Proofs about the development pipeline, for any set of threads of the    *)
(* runner, any number of deliveries, and whichever calls fail.             *)
(***************************************************************************)
EXTENDS DevPipeline, TLAPS

\* The steps of a run, and where each leads when everything goes well.
LEMMA ThenDomain ==
    DOMAIN Then = {"status", "fetchA", "fetchB", "mkdir", "fail0"} \cup InPair
BY DEF Then, InPair, Reports, Works

LEMMA ThenValues ==
    /\ Then["status"] = "fetchA"
    /\ Then["fetchA"] = "fetchB"
    /\ Then["fetchB"] = "mkdir"
    /\ Then["mkdir"] = "fit0"
    /\ Then["fit0"] = "landmarks"
    /\ Then["landmarks"] = "fit"
    /\ Then["fit"] = "texture1"
    /\ Then["texture1"] = "texture"
    /\ Then["texture"] = "assemble1"
    /\ Then["assemble1"] = "assemble"
    /\ Then["assemble"] = "put"
    /\ Then["put"] = "done1"
    /\ Then["done1"] = "cleanup"
    /\ Then["fail"] = "cleanup"
    /\ Then["cleanup"] = "answer"
    /\ Then["fail0"] = "answer"
BY DEF Then

\* What a report makes of the visible status of the job.
LEMMA AfterWrites ==
    ASSUME NEW s \in Visible, NEW t \in Settled
    PROVE  /\ AfterWork(s) \in Visible
           /\ AfterWork(s) = s \/ (s = "queued" /\ AfterWork(s) = "processing")
           /\ AfterSettle(s, t) \in Visible
           /\ AfterSettle(s, t) = s \/ (s \in Live /\ AfterSettle(s, t) = t)
           /\ AfterSettle(s, t) \notin {"queued", "processing"}
BY DEF AfterWork, AfterSettle, Visible, JobStatus, Live, Settled

-----------------------------------------------------------------------------
\* Nothing is there of a job before handleCompare accepts it.
Unborn == ~born => /\ status = "absent" /\ msg = "none" /\ r2 = {}
                   /\ deliveries = 0 /\ ~dir
                   /\ \A t \in Threads : pc[t] = "idle" /\ put[t] = "idle"

\* A message that may be delivered has a delivery left: TypeOK alone does not
\* keep the count within its bound.
Countable == msg = "ready" => deliveries < MaxDeliveries

TypeInv == TypeOK /\ Unborn /\ Countable

LEMMA TypeStep ==
    ASSUME TypeInv, [Next]_vars
    PROVE  TypeInv'
<1> USE DEF TypeInv, TypeOK, LifeTypeOK
<1> DEFINE Place == DOMAIN Then \cup {"idle", "answer"}
           Puts  == {"idle", "zip", "a", "b", "ok", "bad"}
<1>0. /\ \A p \in DOMAIN Then : Then[p] \in Place
      /\ {"idle", "answer", "cleanup", "status", "fail", "fail0"} \subseteq Place
      /\ Reports \cup Works \subseteq DOMAIN Then
      /\ {"status", "fetchA", "fetchB", "mkdir", "put", "done1", "fail", "fail0", "cleanup"}
            \subseteq DOMAIN Then
  BY ThenDomain, ThenValues DEF InPair, Reports, Works
<1>1. MaxDeliveries \in Nat \ {0} /\ deliveries \in Nat
  BY DevAssumption
<1>2. status \in Visible /\ pc \in [Threads -> Place] /\ put \in [Threads -> Puts]
  OBVIOUS
<1> HIDE DEF Place
\* A step of a thread that moves it to a place of its own and leaves queue and
\* bucket alone but for what it says.
<1>t. ASSUME NEW t \in Threads, born,
             pc' = pc \/ \E p \in Place : pc' = [pc EXCEPT ![t] = p],
             put' = put \/ \E p \in Puts : put' = [put EXCEPT ![t] = p],
             status' \in Visible, r2' \subseteq Inputs \cup {"zip"},
             dir' \in BOOLEAN, lost' \subseteq {"hook", "status", "report", "end"},
             UNCHANGED <<born, queueVars>>
      PROVE  TypeInv'
  <2>1. pc' \in [Threads -> Place] /\ put' \in [Threads -> Puts]
    BY <1>2, <1>t
  <2> QED BY <2>1, <1>t DEF Unborn, Countable, queueVars, Place
<1>b. ASSUME NEW t \in Threads, pc[t] # "idle" \/ put[t] # "idle"
      PROVE  born
  BY <1>b DEF Unborn
<1>3. CASE Accept
  BY <1>1, <1>3 DEF Accept, Create, Inputs, Visible, JobStatus, Live, Unborn, Countable
<1>4. CASE Alarm
  <2>1. born
    BY <1>4 DEF Alarm, Expire, Forget, Unborn, Live, Settled
  <2> QED BY <1>4, <2>1
          DEF Alarm, Expire, Forget, queueVars, Visible, JobStatus, Unborn, Countable
<1>5. CASE HookFails
  <2>1. /\ msg' \in {"ready", "dropped"} /\ deliveries' = deliveries
        /\ msg' = "ready" => deliveries' < MaxDeliveries
        /\ hook' = NoThread /\ born
        /\ lost' \subseteq {"hook", "status", "report", "end"}
    BY <1>5 DEF HookFails, Retry, Lose, Unborn
  <2> QED BY <1>5, <2>1 DEF HookFails, jobVars, Unborn, Countable
<1>6. ASSUME NEW t \in Threads, Post(t)
      PROVE  TypeInv'
  <2>1. /\ deliveries' = deliveries + 1 /\ deliveries' \in 0..MaxDeliveries
        /\ born
    BY <1>1, <1>6 DEF Post, Countable, Unborn
  <2>2. /\ msg' \in {"posted", "ready", "dropped"}
        /\ msg' = "ready" => deliveries' < MaxDeliveries
        /\ hook' \in Threads \cup {NoThread}
        /\ lost' \subseteq {"hook", "status", "report", "end"}
        /\ pc' \in [Threads -> Place]
    BY <1>0, <1>2, <1>6 DEF Post, Retry, Lose
  <2> QED BY <1>6, <2>1, <2>2 DEF Post, jobVars, Unborn, Countable, Place
<1>7. ASSUME NEW t \in Threads, Run(t)
      PROVE  TypeInv'
  <2>0. /\ \A p \in Settled : AfterSettle(status, p) \in Visible
        /\ AfterWork(status) \in Visible
        /\ {"done", "failed"} = Settled
    BY <1>2, AfterWrites DEF Settled
  <2>1. CASE Status(t)
    BY <2>1, <1>0, <1>2, <1>b, <1>t DEF Status, Goto, Lose, jobVars
  <2>2. CASE FetchA(t) \/ FetchB(t)
    BY <2>2, <1>0, <1>2, <1>b, <1>t DEF FetchA, FetchB, Fetch, Goto, jobVars
  <2>3. CASE Mkdir(t)
    BY <2>3, <1>0, <1>2, <1>b, <1>t DEF Mkdir, Goto, jobVars
  <2>4. CASE Report(t)
    <3>1. pc[t] # "idle" /\ Then[pc[t]] \in Place
      BY <2>4, <1>0, ThenDomain DEF Report, Reports
    <3>2. /\ status' \in Visible
          /\ lost' \subseteq {"hook", "status", "report", "end"}
          /\ \E p \in Place : pc' = [pc EXCEPT ![t] = p]
      BY <2>4, <3>1, <2>0, <1>0, <1>2 DEF Report, Goto, Lose
    <3> QED BY <2>4, <3>1, <3>2, <1>2, <1>b, <1>t DEF Report
  <2>5. CASE Work(t)
    <3>1. pc[t] # "idle" /\ Then[pc[t]] \in Place
      BY <2>5, <1>0, ThenDomain DEF Work, Works
    <3> QED BY <2>5, <3>1, <1>0, <1>2, <1>b, <1>t DEF Work, Goto, jobVars
  <2>6. CASE Fail(t)
    <3>1. status' \in Visible /\ lost' \subseteq {"hook", "status", "report", "end"}
      BY <2>6, <2>0, <1>2 DEF Fail, Lose
    <3> QED BY <2>6, <3>1, <1>0, <1>2, <1>b, <1>t DEF Fail, Goto
  <2>7. CASE ReportDone(t)
    <3>1. status' \in Visible /\ lost' \subseteq {"hook", "status", "report", "end"}
      BY <2>7, <2>0, <1>2 DEF ReportDone, Lose
    <3> QED BY <2>7, <3>1, <1>0, <1>2, <1>b, <1>t DEF ReportDone, Goto
  <2>8. CASE Cleanup(t)
    BY <2>8, <1>0, <1>2, <1>b, <1>t DEF Cleanup, Goto, jobVars
  <2>9. CASE Answer(t)
    <3>1. /\ born /\ msg' \in {msg, "acked"} /\ hook' \in Threads \cup {NoThread}
          /\ pc' \in [Threads -> Place]
      BY <2>9, <1>0, <1>2, <1>b DEF Answer
    <3> QED BY <2>9, <3>1 DEF Answer, jobVars, Unborn, Countable, Place
  <2> QED BY <1>7, <2>1, <2>2, <2>3, <2>4, <2>5, <2>6, <2>7, <2>8, <2>9 DEF Run
<1>8. ASSUME NEW t \in Threads, Put(t)
      PROVE  TypeInv'
  <2>1. CASE PutSend(t)
    <3>1. born
      BY <2>1, <1>b DEF PutSend
    <3>2. lost' \subseteq {"hook", "status", "report", "end"}
      BY <2>1 DEF PutSend, Lose
    <3> QED BY <2>1, <3>1, <3>2, <1>0, <1>2, <1>t DEF PutSend, Goto, jobVars
  <2>2. CASE PutStore(t)
    <3>1. /\ lost' \subseteq {"hook", "status", "report", "end"}
          /\ r2' \subseteq Inputs \cup {"zip"}
          /\ born
      BY <2>2, <1>b DEF PutStore, Lose
    <3>2. \E p \in Puts : put' = [put EXCEPT ![t] = p]
      BY <2>2 DEF PutStore
    <3> QED BY <2>2, <3>1, <3>2, <1>2, <1>t DEF PutStore, jobVars
  <2>3. CASE PutForgetA(t) \/ PutForgetB(t)
    <3>1. born /\ r2' \subseteq Inputs \cup {"zip"}
      BY <2>3, <1>b DEF PutForgetA, PutForgetB, PutForget, Remove
    <3>2. \E p \in Puts : put' = [put EXCEPT ![t] = p]
      BY <2>3 DEF PutForgetA, PutForgetB, PutForget
    <3>3. UNCHANGED <<jobVars, queueVars, pc, dir, lost>>
      BY <2>3 DEF PutForgetA, PutForgetB, PutForget
    <3> QED BY <3>1, <3>2, <3>3, <1>2, <1>t DEF jobVars
  <2>4. CASE PutAnswer(t)
    <3>1. born
      BY <2>4, <1>b DEF PutAnswer
    <3>2. pc' = pc \/ \E p \in Place : pc' = [pc EXCEPT ![t] = p]
      BY <2>4, <1>0 DEF PutAnswer, Goto
    <3> QED BY <2>4, <3>1, <3>2, <1>2, <1>t DEF PutAnswer, jobVars
  <2>5. CASE PutTimeout(t)
    <3>1. born /\ lost' \subseteq {"hook", "status", "report", "end"}
      BY <2>5, <1>b DEF PutTimeout, Lose
    <3> QED BY <2>5, <3>1, <1>0, <1>2, <1>t DEF PutTimeout, Goto, jobVars
  <2> QED BY <1>8, <2>1, <2>2, <2>3, <2>4, <2>5 DEF Put
<1>9. CASE Die
  <2>1. born
    BY <1>9, <1>b DEF Die
  <2>2. pc' \in [Threads -> Place]
    BY <1>9, <1>0 DEF Die
  <2> QED BY <1>9, <2>1, <2>2 DEF Die, jobVars, queueVars, Unborn, Countable, Place
<1>10. CASE Sweep
  <2>1. born /\ r2' \subseteq r2
    BY <1>10 DEF Sweep, Remove, Unborn
  <2> QED BY <1>10, <2>1 DEF Sweep, jobVars, queueVars, Unborn, Countable
<1>11. CASE UNCHANGED vars
  BY <1>11 DEF vars, Unborn, Countable
<1> QED BY <1>3, <1>4, <1>5, <1>6, <1>7, <1>8, <1>9, <1>10, <1>11 DEF Next

LEMMA TypeInvHolds == Spec => []TypeInv
<1>1. Init => TypeInv
  <2> SUFFICES ASSUME Init
               PROVE  TypeInv
    OBVIOUS
  <2>1. /\ 0 \in 0..MaxDeliveries
        /\ pc \in [Threads -> DOMAIN Then \cup {"idle", "answer"}]
        /\ put \in [Threads -> {"idle", "zip", "a", "b", "ok", "bad"}]
    BY DevAssumption DEF Init
  <2>2. \A t \in Threads : pc[t] = "idle" /\ put[t] = "idle"
    BY DEF Init
  <2> QED BY <2>1, <2>2
          DEF Init, LifeInit, TypeInv, TypeOK, LifeTypeOK, Unborn, Countable, Visible
<1> QED BY <1>1, TypeStep, PTL DEF Spec

\* The bucket, the queue's count and every thread keep their types: a message
\* is delivered maxDeliveries times at most.
THEOREM TypeCorrect == Spec => []TypeOK
<1>1. TypeInv => TypeOK
  BY DEF TypeInv
<1> QED BY <1>1, TypeInvHolds, PTL

-----------------------------------------------------------------------------
(***************************************************************************)
(* What one step can do to the status, to the bucket, and to one thread.   *)
(***************************************************************************)

\* A step changes the visible status along the life of a job, and only the
\* end of a run settles it.
LEMMA StatusStep ==
    ASSUME TypeInv, [Next]_vars
    PROVE  \/ Accept
           \/ status' = status
           \/ status = "queued" /\ status' = "processing"
           \/ status \in Live /\ status' = "expired"
           \/ status = "expired" /\ status' = "absent"
           \/ /\ status \in Live /\ status' = "done"
              /\ \E t \in Threads : pc[t] = "done1" /\ pc'[t] \in {"cleanup", "answer"}
           \/ /\ status \in Live /\ status' = "failed"
              /\ \E t \in Threads : pc[t] \in {"fail", "fail0"} /\ pc'[t] \in {"cleanup", "answer"}
<1>0. status \in Visible /\ {"done", "failed"} = Settled
  BY DEF TypeInv, TypeOK, LifeTypeOK, Settled
<1>1. CASE Accept \/ Alarm
  BY <1>1 DEF Alarm, Expire, Forget
<1>2. CASE HookFails \/ Die \/ Sweep \/ UNCHANGED vars
  BY <1>2 DEF HookFails, Die, Sweep, jobVars, vars
<1>3. ASSUME NEW t \in Threads, Post(t) \/ Put(t)
      PROVE  status' = status
  BY <1>3 DEF Post, Put, PutSend, PutStore, PutForgetA, PutForgetB, PutForget,
              PutAnswer, PutTimeout, jobVars
<1>4. ASSUME NEW t \in Threads,
             Status(t) \/ FetchA(t) \/ FetchB(t) \/ Mkdir(t) \/ Work(t) \/ Cleanup(t) \/ Answer(t)
      PROVE  status' = status
  BY <1>4 DEF Status, FetchA, FetchB, Fetch, Mkdir, Work, Cleanup, Answer, jobVars
<1>5. ASSUME NEW t \in Threads, Report(t)
      PROVE  status' = status \/ (status = "queued" /\ status' = "processing")
  BY <1>0, <1>5, AfterWrites DEF Report
<1>6. ASSUME NEW t \in Threads, Fail(t)
      PROVE  \/ status' = status
             \/ /\ status \in Live /\ status' = "failed"
                /\ pc[t] \in {"fail", "fail0"} /\ pc'[t] \in {"cleanup", "answer"}
  <2>1. pc[t] \in {"fail", "fail0"} /\ pc'[t] \in {"cleanup", "answer"}
    BY <1>6, ThenValues DEF Fail, Goto, TypeInv, TypeOK
  <2> QED BY <1>0, <1>6, <2>1, AfterWrites DEF Fail
<1>7. ASSUME NEW t \in Threads, ReportDone(t)
      PROVE  \/ status' = status
             \/ /\ status \in Live /\ status' = "done"
                /\ pc[t] = "done1" /\ pc'[t] \in {"cleanup", "answer"}
  <2>1. pc[t] = "done1" /\ pc'[t] \in {"cleanup", "answer"}
    BY <1>7, ThenValues DEF ReportDone, Goto, TypeInv, TypeOK
  <2> QED BY <1>0, <1>7, <2>1, AfterWrites DEF ReportDone
<1> QED BY <1>1, <1>2, <1>3, <1>4, <1>5, <1>6, <1>7 DEF Next, Run

\* No photo comes back, and only the sweep takes a result, of a job that is
\* over.
LEMMA BucketStep ==
    ASSUME TypeInv, [Next]_vars
    PROVE  \/ Accept
           \/ /\ r2' \cap Inputs \subseteq r2
              /\ "zip" \in r2 => "zip" \in r2' \/ status \in {"expired", "absent"}
<1>1. CASE Alarm \/ HookFails \/ Die \/ UNCHANGED vars
  BY <1>1 DEF Alarm, HookFails, Die, vars
<1>2. CASE Sweep
  BY <1>2 DEF Sweep, Remove
<1>3. ASSUME NEW t \in Threads, Post(t) \/ Run(t)
      PROVE  r2' = r2
  BY <1>3 DEF Post, Run, Status, FetchA, FetchB, Fetch, Mkdir, Report, Work, Fail,
              ReportDone, Cleanup, Answer
<1>4. ASSUME NEW t \in Threads, Put(t)
      PROVE  r2' \cap Inputs \subseteq r2 /\ ("zip" \in r2 => "zip" \in r2')
  BY <1>4 DEF Put, PutSend, PutStore, PutForgetA, PutForgetB, PutForget, Remove,
              PutAnswer, PutTimeout, Inputs
<1> QED BY <1>1, <1>2, <1>3, <1>4 DEF Next

\* A call that is lost stays so.
LEMMA LostGrows ==
    ASSUME [Next]_vars
    PROVE  lost \subseteq lost'
<1>1. CASE Accept \/ Alarm \/ HookFails \/ Die \/ Sweep \/ UNCHANGED vars
  BY <1>1 DEF Accept, Alarm, HookFails, Lose, Die, Sweep, vars
<1>2. ASSUME NEW t \in Threads, Post(t) \/ Put(t)
      PROVE  lost \subseteq lost'
  BY <1>2 DEF Post, Lose, Put, PutSend, PutStore, PutForgetA, PutForgetB, PutForget,
              PutAnswer, PutTimeout
<1>3. ASSUME NEW t \in Threads, Run(t)
      PROVE  lost \subseteq lost'
  BY <1>3 DEF Run, Status, Lose, FetchA, FetchB, Fetch, Mkdir, Report, Work, Fail,
              ReportDone, Cleanup, Answer
<1> QED BY <1>1, <1>2, <1>3 DEF Next

\* The PUT of one thread goes through its stages, each with its effect.
LEMMA PutStep ==
    ASSUME TypeInv, [Next]_vars, NEW u \in Threads
    PROVE  \/ put'[u] = put[u]
           \/ put'[u] \in {"idle", "zip"}
           \/ put[u] = "zip" /\ put'[u] = "a" /\ "zip" \in r2'
           \/ put[u] = "zip" /\ put'[u] = "bad" /\ "end" \in lost'
           \/ put[u] = "a" /\ put'[u] = "b" /\ ("a" \in r2' => DeletesFail)
           \/ put[u] = "b" /\ put'[u] = "ok" /\ ("b" \in r2' => DeletesFail)
<1>0. put \in [Threads -> {"idle", "zip", "a", "b", "ok", "bad"}]
  BY DEF TypeInv, TypeOK
<1>1. CASE Accept \/ Alarm \/ HookFails \/ Die \/ Sweep \/ UNCHANGED vars
  BY <1>1 DEF Accept, Alarm, HookFails, Die, Sweep, vars
<1>2. ASSUME NEW t \in Threads, Post(t) \/ Run(t)
      PROVE  put' = put
  BY <1>2 DEF Post, Run, Status, FetchA, FetchB, Fetch, Mkdir, Report, Work, Fail,
              ReportDone, Cleanup, Answer
<1>3. ASSUME NEW t \in Threads, PutSend(t) \/ PutAnswer(t) \/ PutTimeout(t)
      PROVE  put' = put \/ \E p \in {"idle", "zip"} : put' = [put EXCEPT ![t] = p]
  BY <1>3 DEF PutSend, PutAnswer, PutTimeout
<1>4. ASSUME NEW t \in Threads, PutStore(t)
      PROVE  /\ put[t] = "zip"
             /\ \/ put' = [put EXCEPT ![t] = "a"] /\ "zip" \in r2'
                \/ put' = [put EXCEPT ![t] = "bad"] /\ "end" \in lost'
  BY <1>4 DEF PutStore, Lose
<1>5. ASSUME NEW t \in Threads, PutForgetA(t) \/ PutForgetB(t)
      PROVE  \/ put[t] = "a" /\ put' = [put EXCEPT ![t] = "b"] /\ ("a" \in r2' => DeletesFail)
             \/ put[t] = "b" /\ put' = [put EXCEPT ![t] = "ok"] /\ ("b" \in r2' => DeletesFail)
  BY <1>5 DEF PutForgetA, PutForgetB, PutForget, Remove
<1> QED BY <1>0, <1>1, <1>2, <1>3, <1>4, <1>5 DEF Next, Put

\* The places of a thread between the question about the status and the report
\* of the end.
Active == {"fetchA", "fetchB", "mkdir", "fail0"} \cup (InPair \ {"cleanup"})

\* A thread begins, works on, gets its result stored, or ends: then the job was
\* told so, or a call that tells it was lost.
LEMMA PcStep ==
    ASSUME TypeInv, [Next]_vars, NEW u \in Threads
    PROVE  \/ pc'[u] = pc[u]
           \/ pc'[u] = "idle" /\ (pc[u] = "answer" \/ ~dir')
           \/ pc[u] = "idle" /\ pc'[u] = "status"
           \/ /\ pc[u] = "status" /\ pc'[u] = "fetchA" /\ status' = status
              /\ ~IsTerminal(status) \/ "status" \in lost'
           \/ pc[u] = "status" /\ pc'[u] = "answer" /\ status' = status /\ IsTerminal(status)
           \/ /\ pc[u] \in Active /\ pc'[u] \in Active \ {"done1"}
              /\ pc[u] \in InPair => pc'[u] \in InPair
           \/ pc[u] = "put" /\ pc'[u] = "done1" /\ put[u] = "ok"
           \/ pc[u] = "put" /\ pc'[u] = "cleanup" /\ put[u] = "bad" /\ status' = status
           \/ /\ pc[u] \in Active
              /\ pc'[u] = IF pc[u] = "fail0" THEN "answer" ELSE "cleanup"
              /\ \/ lost' \cap {"report", "end"} # {}
                 \/ status' \notin {"queued", "processing"}
           \/ pc[u] = "cleanup" /\ pc'[u] = "answer" /\ status' = status /\ ~dir'
<1>0. /\ \A t \in Threads : \A p : pc' = [pc EXCEPT ![t] = p]
                                 => pc'[t] = p /\ (t # u => pc'[u] = pc[u])
      /\ status \in Visible
      /\ {"done", "failed"} = Settled
  BY DEF TypeInv, TypeOK, LifeTypeOK, Settled
<1>1. CASE Accept \/ Alarm \/ HookFails \/ Sweep \/ UNCHANGED vars
  BY <1>1 DEF Accept, Alarm, HookFails, Sweep, vars
<1>2. CASE Die
  BY <1>2 DEF Die
<1>3. ASSUME NEW t \in Threads, Post(t)
      PROVE  pc' = pc \/ (pc[t] = "idle" /\ pc' = [pc EXCEPT ![t] = "status"])
  BY <1>3 DEF Post
<1>4. ASSUME NEW t \in Threads, Status(t)
      PROVE  /\ pc[t] = "status" /\ status' = status
             /\ \/ /\ pc' = [pc EXCEPT ![t] = "fetchA"]
                   /\ ~IsTerminal(status) \/ "status" \in lost'
                \/ pc' = [pc EXCEPT ![t] = "answer"] /\ IsTerminal(status)
  BY <1>4, ThenValues DEF Status, Goto, Lose, jobVars
<1>5. ASSUME NEW t \in Threads, FetchA(t) \/ FetchB(t) \/ Mkdir(t) \/ Work(t)
      PROVE  /\ pc[t] \in Active
             /\ \E p \in Active \ {"done1"} :
                   pc' = [pc EXCEPT ![t] = p] /\ (pc[t] \in InPair => p \in InPair)
  BY <1>5, ThenValues DEF FetchA, FetchB, Fetch, Mkdir, Work, Works, Goto, Active, InPair, Reports
<1>6. ASSUME NEW t \in Threads, Report(t)
      PROVE  /\ pc[t] \in Active
             /\ pc[t] # "fail0"
             /\ \/ \E p \in (Active \ {"done1"}) \cap InPair : pc' = [pc EXCEPT ![t] = p]
                \/ /\ pc' = [pc EXCEPT ![t] = "cleanup"]
                   /\ \/ lost' \cap {"report", "end"} # {}
                      \/ status' \notin {"queued", "processing"}
  <2>1. /\ pc[t] \in Active
        /\ pc[t] # "fail0"
        /\ Then[pc[t]] \in (Active \ {"done1"}) \cap InPair
    BY <1>6, ThenValues DEF Report, Reports, Active, InPair, Works
  <2> QED BY <1>6, <2>1 DEF Report, Goto, Lose
<1>7. ASSUME NEW t \in Threads, Fail(t) \/ ReportDone(t)
      PROVE  /\ pc[t] \in Active
             /\ pc' = [pc EXCEPT ![t] = IF pc[t] = "fail0" THEN "answer" ELSE "cleanup"]
             /\ \/ lost' \cap {"report", "end"} # {}
                \/ status' \notin {"queued", "processing"}
  <2>1. pc[t] \in Active /\ Then[pc[t]] = IF pc[t] = "fail0" THEN "answer" ELSE "cleanup"
    BY <1>7, ThenValues DEF Fail, ReportDone, Active, InPair
  <2>2. \A e \in Settled : AfterSettle(status, e) \notin {"queued", "processing"}
    BY <1>0, AfterWrites
  <2>3. pc' = [pc EXCEPT ![t] = IF pc[t] = "fail0" THEN "answer" ELSE "cleanup"]
    BY <1>7, <2>1 DEF Fail, ReportDone, Goto
  <2>4. lost' \cap {"report", "end"} # {} \/ status' \notin {"queued", "processing"}
    BY <1>0, <1>7, <2>2 DEF Fail, ReportDone, Lose
  <2> QED BY <2>1, <2>3, <2>4
<1>8. ASSUME NEW t \in Threads, Cleanup(t)
      PROVE  /\ pc[t] = "cleanup" /\ pc' = [pc EXCEPT ![t] = "answer"]
             /\ status' = status /\ ~dir'
  BY <1>8, ThenValues DEF Cleanup, Goto, jobVars
<1>9. ASSUME NEW t \in Threads, Answer(t)
      PROVE  pc[t] = "answer" /\ pc' = [pc EXCEPT ![t] = "idle"]
  BY <1>9 DEF Answer
<1>10. ASSUME NEW t \in Threads, PutSend(t) \/ PutTimeout(t)
       PROVE  \/ pc' = pc
              \/ /\ pc[t] = "put" /\ pc' = [pc EXCEPT ![t] = "cleanup"]
                 /\ lost' \cap {"report", "end"} # {}
  BY <1>10 DEF PutSend, PutTimeout, Goto, Lose
<1>11. ASSUME NEW t \in Threads, PutStore(t) \/ PutForgetA(t) \/ PutForgetB(t)
       PROVE  pc' = pc
  BY <1>11 DEF PutStore, PutForgetA, PutForgetB, PutForget
<1>12. ASSUME NEW t \in Threads, PutAnswer(t)
       PROVE  \/ pc' = pc
              \/ /\ pc[t] = "put" /\ put[t] = "ok"
                 /\ pc' = [pc EXCEPT ![t] = "done1"]
              \/ /\ pc[t] = "put" /\ put[t] = "bad" /\ status' = status
                 /\ pc' = [pc EXCEPT ![t] = "cleanup"]
  BY <1>12, ThenValues DEF PutAnswer, Goto, jobVars
<1>13. CASE \E t \in Threads : Post(t)
  BY <1>0, <1>3, <1>13
<1>14. CASE \E t \in Threads : Run(t)
  <2>1. PICK t \in Threads : Run(t)
    BY <1>14
  <2>2. CASE t # u
    BY <2>1, <2>2, <1>0, <1>4, <1>5, <1>6, <1>7, <1>8, <1>9 DEF Run
  <2>3. CASE t = u
    BY <2>1, <2>3, <1>0, <1>4, <1>5, <1>6, <1>7, <1>8, <1>9 DEF Run
  <2> QED BY <2>2, <2>3
<1>15. CASE \E t \in Threads : Put(t)
  <2>1. "put" \in Active
    BY DEF Active, InPair
  <2> QED BY <1>0, <1>10, <1>11, <1>12, <1>15, <2>1 DEF Put
<1> QED BY <1>1, <1>2, <1>13, <1>14, <1>15 DEF Next

-----------------------------------------------------------------------------
(***************************************************************************)
(* The inductive invariants.  None of the properties but DirIsUsed is      *)
(* inductive: each needs to know what the PUT of a thread has done before  *)
(* the thread reports `done`, or with what a run may end.                  *)
(***************************************************************************)
Kept     == "zip" \in r2 \/ status \in {"expired", "absent"}
Stored   == \A t \in Threads : put[t] \in {"a", "b", "ok"} \/ pc[t] = "done1" => Kept
PhotosGo == ~DeletesFail =>
                \A t \in Threads :
                   /\ put[t] = "b" => "a" \notin r2
                   /\ put[t] = "ok" \/ pc[t] = "done1" => r2 \cap Inputs = {}
Told     == \A t \in Threads :
                /\ put[t] = "bad" => "end" \in lost
                /\ pc[t] \in {"cleanup", "answer"} /\ lost \cap {"report", "end"} = {}
                      => status \notin {"queued", "processing"}
Clean    == lost \cap {"hook", "status"} = {}
Alone    == Clean => \A t \in Threads : pc[t] # "idle" => msg = "posted" /\ hook = t
Unended  == Clean => \A t \in Threads : pc[t] \in Active => status \notin Settled

\* While nothing is accepted, no thread is at work; Accept leaves them there.
LEMMA AcceptIdle ==
    ASSUME TypeInv, Accept
    PROVE  /\ \A t \in Threads : pc'[t] = "idle" /\ put'[t] = "idle"
           /\ status = "absent" /\ status' = "queued" /\ msg' = "ready" /\ ~dir'
BY DEF TypeInv, Unborn, Accept, Create

LEMMA StoredStep ==
    ASSUME TypeInv, Stored, DoneHasResult, [Next]_vars
    PROVE  Stored' /\ DoneHasResult'
<1>1. CASE Accept
  BY <1>1, AcceptIdle DEF Stored, DoneHasResult
<1>2. CASE ~Accept
  <2>1. Kept => Kept'
    BY <1>2, StatusStep, BucketStep DEF Kept, Live, Settled
  <2>2. Stored'
    <3> SUFFICES ASSUME NEW u \in Threads,
                        put'[u] \in {"a", "b", "ok"} \/ pc'[u] = "done1"
                 PROVE  Kept'
      BY DEF Stored
    <3>1. CASE put'[u] \in {"a", "b", "ok"}
      BY <3>1, <2>1, PutStep DEF Stored, Kept
    <3>2. CASE pc'[u] = "done1"
      BY <3>2, <2>1, PcStep DEF Stored
    <3> QED BY <3>1, <3>2
  <2>3. DoneHasResult'
    BY <1>2, StatusStep, BucketStep DEF Stored, Kept, DoneHasResult, Live, Settled
  <2> QED BY <2>2, <2>3
<1> QED BY <1>1, <1>2

LEMMA PhotosGoStep ==
    ASSUME TypeInv, PhotosGo, DoneHasNoPhotos, [Next]_vars
    PROVE  PhotosGo' /\ DoneHasNoPhotos'
<1>1. CASE Accept
  BY <1>1, AcceptIdle DEF PhotosGo, DoneHasNoPhotos
<1>2. CASE ~Accept /\ DeletesFail
  BY <1>2 DEF PhotosGo, DoneHasNoPhotos
<1>3. CASE ~Accept /\ ~DeletesFail
  <2>1. r2' \cap Inputs \subseteq r2 \cap Inputs
    BY <1>3, BucketStep
  <2>2. ASSUME NEW u \in Threads
        PROVE  /\ put'[u] = "b" => "a" \notin r2'
               /\ put'[u] = "ok" => r2' \cap Inputs = {}
               /\ pc'[u] = "done1" => r2' \cap Inputs = {}
    <3>1. put'[u] = "b" => "a" \notin r2'
      BY <1>3, <2>1, PutStep DEF PhotosGo, Inputs
    <3>2. put'[u] = "ok" => r2' \cap Inputs = {}
      BY <1>3, <2>1, PutStep DEF PhotosGo, Inputs
    <3>3. pc'[u] = "done1" => r2' \cap Inputs = {}
      BY <1>3, <2>1, PcStep DEF PhotosGo
    <3> QED BY <3>1, <3>2, <3>3
  <2>3. DoneHasNoPhotos'
    BY <1>3, <2>1, StatusStep DEF PhotosGo, DoneHasNoPhotos
  <2> QED BY <2>2, <2>3 DEF PhotosGo
<1> QED BY <1>1, <1>2, <1>3

\* The message is acknowledged by the answer of a run that ended.
LEMMA AckStep ==
    ASSUME TypeInv, [Next]_vars, msg' = "acked"
    PROVE  \/ msg = "acked"
           \/ /\ \E t \in Threads : pc[t] = "answer"
              /\ UNCHANGED <<status, lost>>
<1>1. CASE Accept \/ HookFails \/ Alarm \/ Die \/ Sweep \/ UNCHANGED vars
  BY <1>1 DEF Accept, HookFails, Retry, Alarm, Die, Sweep, queueVars, vars
<1>2. ASSUME NEW t \in Threads, Post(t)
      PROVE  FALSE
  BY <1>2 DEF Post, Retry
<1>3. ASSUME NEW t \in Threads, Answer(t)
      PROVE  pc[t] = "answer" /\ UNCHANGED <<status, lost>>
  BY <1>3 DEF Answer, jobVars
<1>4. ASSUME NEW t \in Threads, Run(t) \/ Put(t), ~Answer(t)
      PROVE  msg' = msg
  BY <1>4 DEF Run, Status, FetchA, FetchB, Fetch, Mkdir, Report, Work, Fail, ReportDone,
              Cleanup, Put, PutSend, PutStore, PutForgetA, PutForgetB, PutForget,
              PutAnswer, PutTimeout, queueVars
<1> QED BY <1>1, <1>2, <1>3, <1>4 DEF Next, Run

LEMMA ToldStep ==
    ASSUME TypeInv, Told, AckedIsOver, [Next]_vars
    PROVE  Told' /\ AckedIsOver'
<1>1. CASE Accept
  BY <1>1, AcceptIdle DEF Told, AckedIsOver
<1>2. CASE ~Accept
  <2>0. /\ lost \subseteq lost'
        /\ status \notin {"queued", "processing"} => status' \notin {"queued", "processing"}
    BY <1>2, LostGrows, StatusStep
  <2>1. ASSUME NEW u \in Threads, put'[u] = "bad"
        PROVE  "end" \in lost'
    BY <2>0, <2>1, PutStep DEF Told
  <2>2. ASSUME NEW u \in Threads,
               pc'[u] \in {"cleanup", "answer"}, lost' \cap {"report", "end"} = {}
        PROVE  status' \notin {"queued", "processing"}
    <3>1. CASE pc[u] \in {"cleanup", "answer"}
      BY <2>0, <2>2, <3>1 DEF Told
    <3>2. CASE pc[u] \notin {"cleanup", "answer"}
      <4>1. \/ pc[u] = "status" /\ status' = status /\ IsTerminal(status)
            \/ pc[u] = "put" /\ put[u] = "bad"
            \/ lost' \cap {"report", "end"} # {}
            \/ status' \notin {"queued", "processing"}
        BY <2>2, <3>2, PcStep DEF Active, InPair, Reports, Works
      <4> QED BY <2>0, <2>2, <4>1 DEF Told, IsTerminal, Settled
    <3> QED BY <3>1, <3>2
  <2>3. AckedIsOver'
    BY <2>0, AckStep DEF Told, AckedIsOver
  <2> QED BY <2>1, <2>2, <2>3 DEF Told
<1> QED BY <1>1, <1>2

LEMMA DirStep ==
    ASSUME TypeInv, DirIsUsed, [Next]_vars
    PROVE  DirIsUsed'
<1> SUFFICES ASSUME dir'
             PROVE  \E t \in Threads : pc'[t] \in InPair
  BY DEF DirIsUsed
<1>1. CASE dir
  <2>1. PICK u \in Threads : pc[u] \in InPair
    BY <1>1 DEF DirIsUsed
  <2>2. pc[u] \notin {"idle", "status", "answer", "fail0"}
    BY <2>1 DEF InPair, Reports, Works
  <2>3. {"cleanup", "done1"} \subseteq InPair
    BY DEF InPair
  <2>4. pc'[u] \in InPair
    BY <2>1, <2>2, <2>3, PcStep
  <2> QED BY <2>4
<1>2. CASE ~dir
  <2>1. CASE Accept \/ Alarm \/ HookFails \/ Die \/ Sweep \/ UNCHANGED vars
    BY <1>2, <2>1 DEF Accept, Alarm, HookFails, Die, Sweep, vars
  <2>2. ASSUME NEW t \in Threads, Post(t) \/ Put(t)
        PROVE  FALSE
    BY <1>2, <2>2 DEF Post, Put, PutSend, PutStore, PutForgetA, PutForgetB, PutForget,
                      PutAnswer, PutTimeout
  <2>3. ASSUME NEW t \in Threads, Run(t)
        PROVE  pc'[t] = "fit0"
    <3>1. Mkdir(t)
      BY <1>2, <2>3 DEF Run, Status, FetchA, FetchB, Fetch, Report, Work, Fail,
                        ReportDone, Cleanup, Answer
    <3> QED BY <3>1, ThenValues DEF Mkdir, Goto, TypeInv, TypeOK
  <2>4. "fit0" \in InPair
    BY DEF InPair, Reports
  <2> QED BY <2>1, <2>2, <2>3, <2>4 DEF Next
<1> QED BY <1>1, <1>2

\* Two threads work on a job only after a webhook broke, and a settled job is
\* worked on only after that or after its status could not be read.
LEMMA AloneStep ==
    ASSUME TypeInv, Alone, [Next]_vars
    PROVE  Alone'
<1> SUFFICES ASSUME Clean', NEW u \in Threads, pc'[u] # "idle"
             PROVE  msg' = "posted" /\ hook' = u
  BY DEF Alone
<1>0. /\ Clean
      /\ \A t \in Threads : pc[t] # "idle" => msg = "posted" /\ hook = t
      /\ "hook" \notin lost'
  BY LostGrows DEF Clean, Alone
<1>1. CASE Accept
  BY <1>1, AcceptIdle
<1>2. CASE Alarm \/ Die \/ Sweep \/ UNCHANGED vars
  BY <1>0, <1>2 DEF Alarm, Die, Sweep, queueVars, vars
<1>3. CASE HookFails
  BY <1>0, <1>3 DEF HookFails, Lose
<1>4. ASSUME NEW t \in Threads, Post(t)
      PROVE  msg' = "posted" /\ hook' = u
  <2>1. msg' = "posted" /\ hook' = t /\ pc' = [pc EXCEPT ![t] = "status"] /\ msg = "ready"
    BY <1>0, <1>4 DEF Post, Lose
  <2>2. u = t
    BY <1>0, <2>1
  <2> QED BY <2>1, <2>2
<1>5. ASSUME NEW t \in Threads, Answer(t)
      PROVE  FALSE
  <2>1. pc[t] = "answer" /\ pc' = [pc EXCEPT ![t] = "idle"]
    BY <1>5 DEF Answer
  <2>2. u # t /\ pc[u] # "idle"
    BY <2>1 DEF TypeInv, TypeOK
  <2> QED BY <1>0, <2>1, <2>2
<1>6. ASSUME NEW t \in Threads, Run(t) \/ Put(t), ~Answer(t)
      PROVE  msg' = "posted" /\ hook' = u
  <2>1. /\ UNCHANGED <<msg, hook>>
        /\ pc' = pc \/ (pc[t] # "idle" /\ \E p : pc' = [pc EXCEPT ![t] = p])
    BY <1>6 DEF Run, Status, FetchA, FetchB, Fetch, Mkdir, Report, Reports, Work, Works,
                Fail, ReportDone, Cleanup, Goto, Put, PutSend, PutStore, PutForgetA,
                PutForgetB, PutForget, PutAnswer, PutTimeout, queueVars
  <2>2. pc[u] # "idle"
    BY <2>1 DEF TypeInv, TypeOK
  <2> QED BY <1>0, <2>1, <2>2
<1> QED BY <1>1, <1>2, <1>3, <1>4, <1>5, <1>6 DEF Next, Run

LEMMA UnendedStep ==
    ASSUME TypeInv, Alone, Unended, [Next]_vars
    PROVE  Unended'
<1> SUFFICES ASSUME Clean', NEW u \in Threads, pc'[u] \in Active
             PROVE  status' \notin Settled
  BY DEF Unended
<1>0. /\ Clean /\ lost \subseteq lost' /\ "status" \notin lost'
      /\ {"idle", "status", "answer", "cleanup"} \cap Active = {}
  BY LostGrows DEF Clean, Active, InPair, Reports, Works
<1>1. CASE Accept
  BY <1>0, <1>1, AcceptIdle
<1>2. CASE ~Accept
  <2>1. pc[u] \in Active => status \notin Settled
    BY <1>0 DEF Unended
  <2>2. CASE pc[u] \notin Active
    <3>1. pc[u] = "status" /\ status' = status /\ ~IsTerminal(status)
      BY <1>0, <2>2, PcStep DEF Active, InPair
    <3> QED BY <3>1 DEF IsTerminal
  <2>3. CASE pc[u] \in Active
    <3>1. ASSUME NEW t \in Threads,
                 pc[t] \in {"done1", "fail", "fail0"}, pc'[t] \in {"cleanup", "answer"}
          PROVE  FALSE
      <4>1. t = u
        BY <1>0, <2>3, <3>1 DEF Alone
      <4> QED BY <1>0, <3>1, <4>1
    <3> QED BY <1>2, <2>1, <2>3, <3>1, StatusStep DEF Settled
  <2> QED BY <2>2, <2>3
<1> QED BY <1>1, <1>2

-----------------------------------------------------------------------------
DevInv == /\ TypeInv
          /\ Stored /\ DoneHasResult
          /\ PhotosGo /\ DoneHasNoPhotos
          /\ Told /\ AckedIsOver
          /\ DirIsUsed
          /\ Alone /\ Unended

LEMMA DevInvHolds == Spec => []DevInv
<1>1. Init => Stored /\ PhotosGo /\ Told /\ Alone /\ Unended
  <2> SUFFICES ASSUME Init
               PROVE  Stored /\ PhotosGo /\ Told /\ Alone /\ Unended
    OBVIOUS
  <2>1. \A t \in Threads : pc[t] = "idle" /\ put[t] = "idle"
    BY DEF Init
  <2> QED BY <2>1 DEF Stored, PhotosGo, Told, Alone, Unended, Active, InPair, Reports, Works
<1>2. Init => DoneHasResult /\ DoneHasNoPhotos /\ AckedIsOver /\ DirIsUsed
  BY DEF Init, LifeInit, DoneHasResult, DoneHasNoPhotos, AckedIsOver, DirIsUsed
<1>3. /\ Stored /\ PhotosGo /\ Told /\ Alone /\ Unended
      /\ DoneHasResult /\ DoneHasNoPhotos /\ AckedIsOver /\ DirIsUsed
      /\ TypeInv
      /\ [Next]_vars
      => /\ Stored' /\ PhotosGo' /\ Told' /\ Alone' /\ Unended'
         /\ DoneHasResult' /\ DoneHasNoPhotos' /\ AckedIsOver' /\ DirIsUsed'
  BY StoredStep, PhotosGoStep, ToldStep, DirStep, AloneStep, UnendedStep
<1> QED BY <1>1, <1>2, <1>3, TypeInvHolds, PTL DEF Spec, DevInv

\* A job that says `done` has its result: the runner reports `done` only after
\* the route's answer, and the sweep takes only what is over.
THEOREM DoneMeansResult == Spec => []DoneHasResult
<1>1. DevInv => DoneHasResult
  BY DEF DevInv
<1> QED BY <1>1, DevInvHolds, PTL

\* A job that says `done` has no photos left, as long as deletes do not fail.
THEOREM DoneForgetsPhotos == Spec => []DoneHasNoPhotos
<1>1. DevInv => DoneHasNoPhotos
  BY DEF DevInv
<1> QED BY <1>1, DevInvHolds, PTL

\* The temporary directory never outlives the runs that use it.
THEOREM DirectoryIsUsed == Spec => []DirIsUsed
<1>1. DevInv => DirIsUsed
  BY DEF DevInv
<1> QED BY <1>1, DevInvHolds, PTL

\* A message that was acknowledged leaves no job in progress, unless the very
\* reports of the run were lost.
THEOREM AckedJobIsOver == Spec => []AckedIsOver
<1>1. DevInv => AckedIsOver
  BY DEF DevInv
<1> QED BY <1>1, DevInvHolds, PTL

\* A job that says done has its result and no photos left, whatever fails.
THEOREM DoneLeavesClean == Spec => []DoneIsClean
<1>1. DevInv => DoneIsClean
  BY DEF DevInv, DoneIsClean
<1> QED BY <1>1, DevInvHolds, PTL

\* A run that ended leaves no directory, and no acknowledged job in progress
\* unless the reports that say so were lost.
THEOREM RunCloses == Spec => []RunIsClosed
<1>1. DevInv => RunIsClosed
  BY DEF DevInv, RunIsClosed
<1> QED BY <1>1, DevInvHolds, PTL

\* An answer that clients stop at is only followed by oblivion while webhooks
\* hold and the status can be read, whatever else fails or dies.
THEOREM TerminalIsFinal == Spec => TerminalStays
<1>1. ASSUME DevInv, [Next]_vars, IsTerminal(status), status' # status,
             lost' \cap {"hook", "status"} = {}
      PROVE  status' = IF status = "expired" THEN "absent" ELSE "expired"
  <2>1. Clean
    BY <1>1, LostGrows DEF Clean
  <2>2. ~Accept
    BY <1>1, AcceptIdle DEF DevInv, IsTerminal, Settled
  <2>3. ASSUME NEW t \in Threads, pc[t] \in {"done1", "fail", "fail0"}
        PROVE  status \notin Settled
    BY <1>1, <2>1, <2>3 DEF DevInv, Unended, Active, InPair
  <2> QED BY <1>1, <2>2, <2>3, StatusStep DEF DevInv, IsTerminal, Live, Settled
<1>2. DevInv /\ [Next]_vars
      => [(IsTerminal(status) /\ status' # status /\ lost' \cap {"hook", "status"} = {})
            => (status' = IF status = "expired" THEN "absent" ELSE "expired")]_vars
  BY <1>1
<1> QED BY <1>2, DevInvHolds, PTL DEF Spec, TerminalStays
=============================================================================
