------------------------- MODULE JobPipeline_proofs -------------------------
(***************************************************************************)
(* Proofs about the production pipeline, for any set of consumers, any     *)
(* number of deliveries, and whichever calls, deletes and containers fail. *)
(* What a theorem needs of the order of the timeouts is its hypothesis.    *)
(***************************************************************************)
EXTENDS JobPipeline, TLAPS

\* The calls of a run, and where each leads when everything goes well.
LEMMA ThenDomain ==
    DOMAIN Then = Checks \cup Reports \cup Works \cup {"fetch", "put"}
BY DEF Then, Checks, Reports, Works

LEMMA ThenValues ==
    /\ Then["alive0"] = "fit0"
    /\ Then["fit0"] = "fetch"
    /\ Then["fetch"] = "landmarks"
    /\ Then["landmarks"] = "alive1"
    /\ Then["alive1"] = "fit1"
    /\ Then["fit1"] = "fit"
    /\ Then["fit"] = "alive2"
    /\ Then["alive2"] = "texture1"
    /\ Then["texture1"] = "texture"
    /\ Then["texture"] = "assemble1"
    /\ Then["assemble1"] = "assemble"
    /\ Then["assemble"] = "put"
    /\ Then["put"] = "done1"
    /\ Then["done1"] = "forget"
BY DEF Then

\* What a report makes of the visible status of the job.
LEMMA AfterWrites ==
    ASSUME NEW s \in Visible, NEW t \in Settled
    PROVE  /\ AfterWork(s) \in Visible
           /\ AfterWork(s) = s \/ (s = "queued" /\ AfterWork(s) = "processing")
           /\ AfterSettle(s, t) \in Visible
           /\ AfterSettle(s, t) = s \/ (s \in Live /\ AfterSettle(s, t) = t)
BY DEF AfterWork, AfterSettle, Visible, JobStatus, Live, Settled

\* The keys consumer w has yet to delete.
Owes(w, k) == \E i \in 1 .. Len(todo[w]) : todo[w][i] = k

\* The two lists a run leaves with name what they are to delete.
LEMMA Lists ==
    /\ Everything \in Seq(Objects) /\ OnlyInputs \in Seq(Objects)
    /\ <<>> \in Seq(Objects) /\ <<>> \in Seq(Inputs) /\ <<"a", "b">> \in Seq(Inputs)
    /\ \A k \in Objects : \E i \in 1 .. Len(Everything) : Everything[i] = k
    /\ \A k \in Inputs : \E i \in 1 .. Len(OnlyInputs) : OnlyInputs[i] = k
    /\ \A i \in 1 .. Len(OnlyInputs) : OnlyInputs[i] # "zip"
BY DEF Everything, OnlyInputs, Objects, Inputs

\* A list gets shorter by its head.
LEMMA Shorter ==
    ASSUME NEW S, NEW s \in Seq(S), s # <<>>
    PROVE  /\ Head(s) \in S /\ Tail(s) \in Seq(S)
           /\ \A k : (\E i \in 1 .. Len(s) : s[i] = k)
                       => k = Head(s) \/ \E i \in 1 .. Len(Tail(s)) : Tail(s)[i] = k
           /\ \A k : (\E i \in 1 .. Len(Tail(s)) : Tail(s)[i] = k)
                       => \E i \in 1 .. Len(s) : s[i] = k
<1>1. /\ Head(s) = s[1] /\ Len(s) \in Nat \ {0}
      /\ Tail(s) \in Seq(S) /\ Len(Tail(s)) = Len(s) - 1
      /\ \A i \in 1 .. Len(s) - 1 : Tail(s)[i] = s[i + 1]
      /\ s[1] \in S
  OBVIOUS
<1>2. ASSUME NEW k, NEW i \in 1 .. Len(s), s[i] = k, k # Head(s)
      PROVE  \E j \in 1 .. Len(Tail(s)) : Tail(s)[j] = k
  <2>1. i - 1 \in 1 .. Len(Tail(s)) /\ Tail(s)[i - 1] = k
    BY <1>1, <1>2
  <2> QED BY <2>1
<1>3. ASSUME NEW k, NEW i \in 1 .. Len(Tail(s)), Tail(s)[i] = k
      PROVE  \E j \in 1 .. Len(s) : s[j] = k
  <2>1. i + 1 \in 1 .. Len(s) /\ s[i + 1] = k
    BY <1>1, <1>3
  <2> QED BY <2>1
<1> QED BY <1>1, <1>2, <1>3

-----------------------------------------------------------------------------
\* Before the gateway accepts the job nothing is queued, and before the message
\* is pulled no consumer runs; one that may be delivered has a delivery left.
Beginning ==
    /\ msg = "ready" => deliveries < MaxDeliveries
    /\ gw \in {"putA", "putB", "init", "send"} => msg = "none"
    /\ msg = "none" => deliveries = 0
    /\ deliveries = 0 => msg \in {"none", "ready"} /\ \A w \in Workers : pc[w] = "idle"
    /\ gw = "send" => born
    /\ ~born => status = "absent" /\ msg = "none" /\ "zip" \notin r2

TypeInv == TypeOK /\ Beginning

LEMMA TypeStep ==
    ASSUME TypeInv, [Next]_vars
    PROVE  TypeInv'
<1> USE DEF TypeInv, TypeOK, LifeTypeOK
<1> DEFINE Place == DOMAIN Then \cup Stops
<1>0. /\ \A p \in DOMAIN Then : Then[p] \in Place
      /\ Stops \cup {"alive0"} \cup Checks \cup Reports \cup Works \cup {"fetch", "put"} \subseteq Place
      /\ "idle" \notin DOMAIN Then
  BY ThenDomain, ThenValues DEF Checks, Reports, Works, Stops
<1>1. /\ MaxDeliveries \in Nat \ {0} /\ deliveries \in Nat
      /\ Ttl \in Nat \ {0} /\ Deadline \in Nat \ {0} /\ Visibility \in Nat \ {0}
  BY TimeAssumption
<1>2. pc \in [Workers -> Place] /\ status \in Visible
  OBVIOUS
<1> HIDE DEF Place
\* A step of a consumer that leaves gateway and queue alone.
<1>c. ASSUME NEW w \in Workers, pc[w] # "idle",
             pc' = pc \/ \E p \in Place : pc' = [pc EXCEPT ![w] = p],
             todo' = todo \/ \E s \in Seq(Objects) : todo' = [todo EXCEPT ![w] = s],
             out' = out \/ \E o \in {"ok", "abort", "error"} : out' = [out EXCEPT ![w] = o],
             status' \in Visible, r2' \subseteq Objects,
             UNCHANGED <<born, left, gwVars, queueVars, dl, sweep, get>>
      PROVE  TypeInv'
  <2>1. born /\ deliveries # 0
    BY <1>c DEF Beginning
  <2>2. pc' \in [Workers -> Place] /\ todo' \in [Workers -> Seq(Objects)]
        /\ out' \in [Workers -> {"ok", "abort", "error"}]
    BY <1>2, <1>c
  <2> QED BY <1>c, <2>1, <2>2 DEF Beginning, gwVars, queueVars, Place
<1>3. CASE Gateway
  <2>1. CASE PutA \/ PutB
    BY <2>1 DEF PutA, PutB, PutInput, jobVars, queueVars, workerVars, Inputs, Objects, Beginning
  <2>2. CASE GatewayInit
    <3>1. gwTodo' \in Seq(Inputs)
      BY <2>2, Lists DEF GatewayInit
    <3>2. \/ status' = "queued" /\ born' = TRUE /\ left' = Ttl
          \/ UNCHANGED <<status, born, left>> /\ gw' # "send"
      BY <2>2 DEF GatewayInit, Create, jobVars
    <3>3. left' \in 0 .. Ttl
      BY <1>1, <3>2
    <3>4. status' \in Visible /\ born' \in BOOLEAN
      BY <3>2 DEF Visible, JobStatus, Live
    <3> QED BY <2>2, <3>1, <3>2, <3>3, <3>4 DEF GatewayInit, queueVars, workerVars, Beginning
  <2>3. CASE Send
    <3>1. gwTodo' \in Seq(Inputs)
      BY <2>3, Lists DEF Send
    <3> QED BY <1>1, <2>3, <3>1 DEF Send, jobVars, workerVars, Beginning
  <2>4. CASE Undo
    <3>1. r2' \subseteq r2
      BY <2>4 DEF Undo, Remove
    <3>2. CASE gwTodo = <<>>
      BY <2>4, <3>1, <3>2 DEF Undo, jobVars, queueVars, workerVars, Beginning
    <3>3. CASE gwTodo # <<>>
      <4>1. Tail(gwTodo) \in Seq(Inputs)
        BY <3>3, Shorter
      <4> QED BY <2>4, <3>1, <3>3, <4>1 DEF Undo, jobVars, queueVars, workerVars, Beginning
    <3> QED BY <3>2, <3>3
  <2>5. CASE GatewayDies
    BY <2>5 DEF GatewayDies, jobVars, queueVars, workerVars, Beginning
  <2> QED BY <1>3, <2>1, <2>2, <2>3, <2>4, <2>5 DEF Gateway
<1>4. CASE AlarmExpire \/ AlarmPurge
  <2>1. born /\ status' \in Visible /\ left' \in 0 .. Ttl /\ born' = born
    BY <1>1, <1>4 DEF AlarmExpire, AlarmPurge, Expire, Forget, Visible, JobStatus, Live,
                      Settled, Beginning
  <2> QED BY <1>4, <2>1 DEF AlarmExpire, AlarmPurge, gwVars, queueVars, workerVars, Beginning
<1>5. ASSUME NEW w \in Workers, Pull(w)
      PROVE  TypeInv'
  <2>1. born /\ deliveries' = deliveries + 1 /\ deliveries' \in 0 .. MaxDeliveries
    BY <1>1, <1>5 DEF Pull, Beginning
  <2>2. lease' \in 0 .. Visibility /\ holder' \in Workers \cup {NoWorker}
    BY <1>1, <1>5 DEF Pull
  <2>3. Deadline \in 0 .. Deadline /\ "alive0" \in Place
    BY <1>0, <1>1
  <2>4. dl' \in [Workers -> 0 .. Deadline] /\ pc' \in [Workers -> Place]
    BY <2>3, <1>2, <1>5 DEF Pull
  <2> QED BY <1>5, <2>1, <2>2, <2>4 DEF Pull, jobVars, gwVars, Beginning, Place
<1>6. ASSUME NEW w \in Workers, Consume(w)
      PROVE  TypeInv'
  <2>0. /\ AfterWork(status) \in Visible
        /\ \A t \in Settled : AfterSettle(status, t) \in Visible
        /\ Settled = {"done", "failed"}
    BY AfterWrites DEF Settled
  <2>1. CASE Check(w)
    <3>1. pc[w] # "idle" /\ Then[pc[w]] \in Place
      BY <2>1, <1>0, ThenDomain DEF Check, Checks
    <3> QED BY <2>1, <3>1, <1>0, <1>2, <1>c, Lists DEF Check, Goto, Leave, jobVars, Stops
  <2>2. CASE ReportStage(w)
    <3>1. pc[w] # "idle" /\ Then[pc[w]] \in Place
      BY <2>2, <1>0, ThenDomain DEF ReportStage, Reports
    <3>2. status' \in Visible
      BY <2>2, <2>0 DEF ReportStage, Told
    <3> QED BY <2>2, <3>1, <3>2, <1>0, <1>c, Lists DEF ReportStage, Told, Goto, Leave, Stops
  <2>3. CASE Fetch(w) \/ Work(w)
    <3>1. pc[w] # "idle" /\ Then[pc[w]] \in Place
      BY <2>3, <1>0, ThenDomain DEF Fetch, Work, Works
    <3>2. CASE Fetch(w)
      BY <3>1, <3>2, <1>0, <1>2, <1>c, Lists DEF Fetch, Goto, Leave, jobVars, Stops
    <3>3. CASE Work(w)
      BY <3>1, <3>3, <1>0, <1>2, <1>c, Lists DEF Work, Goto, Leave, jobVars, Stops
    <3> QED BY <2>3, <3>2, <3>3
  <2>4. CASE PutResult(w)
    <3>1. pc[w] # "idle" /\ Then[pc[w]] \in Place /\ r2' \subseteq Objects
      BY <2>4, <1>0, ThenDomain DEF PutResult, Objects
    <3> QED BY <2>4, <3>1, <1>0, <1>2, <1>c, Lists DEF PutResult, Goto, Leave, jobVars, Stops
  <2>5. CASE DeleteNext(w)
    <3>1. todo[w] \in Seq(Objects) /\ todo[w] # <<>>
      BY <2>5 DEF DeleteNext
    <3>2. Tail(todo[w]) \in Seq(Objects)
      BY <3>1, Shorter
    <3> QED BY <2>5, <3>2, <1>2, <1>c DEF DeleteNext, Remove, jobVars
  <2>6. CASE Ended(w)
    BY <2>6, <1>0, <1>2, <1>c DEF Ended, Goto, jobVars, Stops
  <2>7. CASE ReportFailed(w)
    <3>1. status' \in Visible
      BY <2>7, <2>0 DEF ReportFailed, Told
    <3> QED BY <2>7, <3>1, <1>0, <1>c DEF ReportFailed, Told, Goto, Stops
  <2>8. CASE Ack(w)
    <3>1. born /\ deliveries # 0
      BY <2>8 DEF Ack, Beginning
    <3>2. /\ pc' \in [Workers -> Place] /\ holder' \in Workers \cup {NoWorker}
          /\ msg' \in {msg, "acked"}
      BY <2>8, <1>0, <1>2 DEF Ack, Goto, Stops
    <3> QED BY <2>8, <3>1, <3>2 DEF Ack, jobVars, gwVars, Beginning, Place
  <2> QED BY <1>6, <2>1, <2>2, <2>3, <2>4, <2>5, <2>6, <2>7, <2>8 DEF Consume
<1>7. ASSUME NEW w \in Workers, Die(w)
      PROVE  TypeInv'
  BY <1>7, <1>0, <1>2, <1>c, Lists DEF Die, Goto, jobVars, Stops
<1>8. CASE LeaseOver
  <2>1. born /\ deliveries # 0
    BY <1>8 DEF LeaseOver, Beginning
  <2> QED BY <1>8, <2>1 DEF LeaseOver, jobVars, gwVars, workerVars, Beginning
<1>9. CASE SweepAsk \/ SweepDelete
  BY <1>9 DEF SweepAsk, SweepDelete, Remove, jobVars, gwVars, queueVars, workerVars, Beginning
<1>10. CASE GetAsk \/ GetRead
  BY <1>10 DEF GetAsk, GetRead, jobVars, gwVars, queueVars, workerVars, Beginning
<1>11. CASE Elapse
  <2>1. /\ left' \in 0 .. Ttl /\ lease' \in 0 .. Visibility
        /\ dl' \in [Workers -> 0 .. Deadline]
    BY <1>1, <1>11 DEF Elapse
  <2> QED BY <1>11, <2>1 DEF Elapse, gwVars, Beginning
<1>12. CASE UNCHANGED vars
  BY <1>12 DEF vars, Beginning
<1> QED BY <1>3, <1>4, <1>5, <1>6, <1>7, <1>8, <1>9, <1>10, <1>11, <1>12 DEF Next

LEMMA TypeInvHolds == Spec => []TypeInv
<1>1. Init => TypeInv
  <2> SUFFICES ASSUME Init
               PROVE  TypeInv
    OBVIOUS
  <2>1. /\ 0 \in 0 .. MaxDeliveries /\ 0 \in 0 .. Ttl /\ 0 \in 0 .. Visibility
        /\ 0 \in 0 .. Deadline
    BY TimeAssumption
  <2>2. gwTodo \in Seq(Inputs) /\ <<>> \in Seq(Objects)
    BY DEF Init
  <2>3. \A w \in Workers : pc[w] = "idle"
    BY DEF Init
  <2> QED BY <2>1, <2>2, <2>3
          DEF Init, LifeInit, TypeInv, TypeOK, LifeTypeOK, Beginning, Visible, Stops
<1> QED BY <1>1, TypeStep, PTL DEF Spec

\* The bucket, the queue's count and every consumer keep their types: a message
\* is delivered MaxDeliveries times at most.
THEOREM TypeCorrect == Spec => []TypeOK
<1>1. TypeInv => TypeOK
  BY DEF TypeInv
<1> QED BY <1>1, TypeInvHolds, PTL

-----------------------------------------------------------------------------
(***************************************************************************)
(* What one step can do to the gateway, the bucket, the queue and the      *)
(* status, whoever takes it.                                               *)
(***************************************************************************)

\* Each step is taken by the gateway, by one consumer or by one of the others.
LEMMA Actors ==
    ASSUME [Next]_vars
    PROVE  \/ Gateway \/ AlarmExpire \/ AlarmPurge \/ LeaseOver \/ SweepAsk \/ SweepDelete
           \/ GetAsk \/ GetRead \/ Elapse \/ UNCHANGED vars
           \/ \E w \in Workers : Pull(w) \/ Consume(w) \/ Die(w)
BY DEF Next

\* Only handleCompare moves on, and only its own steps change its place.
LEMMA GatewayStep ==
    ASSUME TypeInv, [Next]_vars
    PROVE  \/ gw' = gw
           \/ /\ UNCHANGED <<queueVars, workerVars>>
              /\ \/ gw = "putA" /\ gw' = "putB" /\ r2' = r2 \cup {"a"}
                 \/ gw = "putB" /\ gw' = "init" /\ r2' = r2 \cup {"b"}
                 \/ gw' \in {"broken", "undo", "rejected"}
                 \/ gw = "init" /\ gw' = "send" /\ r2' = r2
           \/ gw = "send" /\ gw' \in {"accepted", "undo"} /\ UNCHANGED <<r2, deliveries, workerVars>>
<1>1. CASE Gateway
  <2>1. CASE PutA \/ PutB
    BY <2>1 DEF PutA, PutB, PutInput
  <2>2. CASE GatewayInit \/ GatewayDies
    BY <2>2 DEF GatewayInit, GatewayDies, queueVars, workerVars
  <2>3. CASE Send
    BY <2>3 DEF Send
  <2>4. CASE Undo
    BY <2>4 DEF Undo
  <2> QED BY <1>1, <2>1, <2>2, <2>3, <2>4 DEF Gateway
<1>2. CASE AlarmExpire \/ AlarmPurge \/ LeaseOver \/ SweepAsk \/ SweepDelete
  BY <1>2 DEF AlarmExpire, AlarmPurge, LeaseOver, SweepAsk, SweepDelete, gwVars
<1>3. CASE GetAsk \/ GetRead \/ Elapse \/ UNCHANGED vars
  BY <1>3 DEF GetAsk, GetRead, Elapse, gwVars, vars
<1>4. ASSUME NEW w \in Workers, Pull(w) \/ Consume(w) \/ Die(w)
      PROVE  gw' = gw
  BY <1>4 DEF Pull, Die, Consume, Check, ReportStage, Fetch, Work, PutResult, DeleteNext,
              Ended, ReportFailed, Ack, gwVars
<1> QED BY <1>1, <1>2, <1>3, <1>4, Actors

\* Photos are stored by the gateway before anything is queued, and deleted by the
\* gateway or by a consumer on its way out; the result is stored by a consumer,
\* and deleted by one that owes it or by the sweep.
LEMMA BucketStep ==
    ASSUME TypeInv, [Next]_vars
    PROVE  /\ r2' \cap Inputs \subseteq r2 \/ gw \in {"putA", "putB"}
           /\ \/ r2 \cap Inputs \subseteq r2'
              \/ gw = "undo"
              \/ \E w \in Workers : DeleteNext(w) /\ Owes(w, Head(todo[w]))
           /\ "zip" \in r2' => "zip" \in r2 \/ \E w \in Workers : PutResult(w)
           /\ "zip" \in r2 => \/ "zip" \in r2' \/ SweepDelete
                              \/ \E w \in Workers : DeleteNext(w) /\ Owes(w, "zip")
<1> USE DEF Inputs
<1>1. CASE Gateway
  <2>1. CASE PutA \/ PutB
    BY <2>1 DEF PutA, PutB, PutInput
  <2>2. CASE GatewayInit \/ GatewayDies \/ Send
    BY <2>2 DEF GatewayInit, GatewayDies, Send
  <2>3. CASE Undo
    <3>1. gwTodo # <<>> => Head(gwTodo) \in Inputs
      BY Shorter DEF TypeInv, TypeOK
    <3> QED BY <2>3, <3>1 DEF Undo, Remove
  <2> QED BY <1>1, <2>1, <2>2, <2>3 DEF Gateway
<1>2. CASE AlarmExpire \/ AlarmPurge \/ LeaseOver \/ SweepAsk
  BY <1>2 DEF AlarmExpire, AlarmPurge, LeaseOver, SweepAsk
<1>3. CASE SweepDelete
  BY <1>3 DEF SweepDelete, Remove
<1>4. CASE GetAsk \/ GetRead \/ Elapse \/ UNCHANGED vars
  BY <1>4 DEF GetAsk, GetRead, Elapse, vars
<1>5. ASSUME NEW w \in Workers, Pull(w) \/ Die(w)
      PROVE  r2' = r2
  BY <1>5 DEF Pull, Die
<1>6. ASSUME NEW w \in Workers, DeleteNext(w)
      PROVE  Owes(w, Head(todo[w])) /\ r2' \in {r2, r2 \ {Head(todo[w])}}
  <2>1. todo[w] \in Seq(Objects) /\ todo[w] # <<>>
    BY <1>6 DEF DeleteNext, TypeInv, TypeOK
  <2>2. 1 \in 1 .. Len(todo[w]) /\ todo[w][1] = Head(todo[w])
    BY <2>1
  <2> QED BY <1>6, <2>2 DEF DeleteNext, Remove, Owes
<1>7. ASSUME NEW w \in Workers, PutResult(w)
      PROVE  r2' \in {r2, r2 \cup {"zip"}}
  BY <1>7 DEF PutResult
<1>8. ASSUME NEW w \in Workers, Check(w) \/ ReportStage(w) \/ Fetch(w) \/ Work(w) \/ Ended(w)
                                \/ ReportFailed(w) \/ Ack(w)
      PROVE  r2' = r2
  BY <1>8 DEF Check, ReportStage, Fetch, Work, Ended, ReportFailed, Ack
<1>9. ASSUME NEW w \in Workers, Consume(w)
      PROVE  r2' = r2 \/ DeleteNext(w) \/ PutResult(w)
  BY <1>8, <1>9 DEF Consume
<1>10. CASE \E w \in Workers : DeleteNext(w)
  BY <1>6, <1>10
<1>11. CASE \E w \in Workers : PutResult(w)
  BY <1>7, <1>11
<1>12. CASE r2' = r2
  BY <1>12
<1> QED BY <1>1, <1>2, <1>3, <1>4, <1>5, <1>9, <1>10, <1>11, <1>12, Actors

\* Where consumer w stands changes by a step of its own only, which touches no
\* other consumer; deliveries are counted by Pull.
LEMMA WorkerStep ==
    ASSUME TypeInv, [Next]_vars, NEW w \in Workers
    PROVE  \/ Pull(w) \/ Consume(w) \/ Die(w)
           \/ /\ pc'[w] = pc[w] /\ todo'[w] = todo[w] /\ out'[w] = out[w]
              /\ dl'[w] = dl[w] \/ Elapse
<1>1. CASE Gateway
  BY <1>1 DEF Gateway, PutA, PutB, PutInput, GatewayInit, Send, Undo, GatewayDies, workerVars
<1>2. CASE AlarmExpire \/ AlarmPurge \/ LeaseOver \/ SweepAsk \/ SweepDelete
  BY <1>2 DEF AlarmExpire, AlarmPurge, LeaseOver, SweepAsk, SweepDelete, workerVars
<1>3. CASE GetAsk \/ GetRead \/ Elapse \/ UNCHANGED vars
  BY <1>3 DEF GetAsk, GetRead, Elapse, workerVars, vars
<1>4. ASSUME NEW v \in Workers, v # w, Pull(v) \/ Consume(v) \/ Die(v)
      PROVE  pc'[w] = pc[w] /\ todo'[w] = todo[w] /\ out'[w] = out[w] /\ dl'[w] = dl[w]
  <2> USE DEF TypeInv, TypeOK, Goto, Leave
  <2>1. CASE Pull(v) \/ Die(v)
    BY <1>4, <2>1 DEF Pull, Die
  <2>2. CASE Check(v) \/ ReportStage(v)
    BY <1>4, <2>2 DEF Check, ReportStage
  <2>3. CASE Fetch(v) \/ Work(v) \/ PutResult(v)
    BY <1>4, <2>3 DEF Fetch, Work, PutResult
  <2>4. CASE DeleteNext(v) \/ Ended(v) \/ ReportFailed(v) \/ Ack(v)
    BY <1>4, <2>4 DEF DeleteNext, Ended, ReportFailed, Ack
  <2> QED BY <1>4, <2>1, <2>2, <2>3, <2>4 DEF Consume
<1> QED BY <1>1, <1>2, <1>3, <1>4, Actors

\* The steps of a run.
LEMMA RunStep ==
    ASSUME TypeInv, NEW w \in Workers, Consume(w)
    PROVE  \/ /\ pc[w] \in DOMAIN Then \ {"done1"} /\ pc'[w] = Then[pc[w]]
              /\ pc'[w] \in DOMAIN Then
              /\ todo' = todo /\ out' = out
           \/ /\ pc[w] \in DOMAIN Then \ {"done1"} /\ pc'[w] = "forget"
              /\ todo'[w] = Everything
           \/ /\ pc[w] = "done1" /\ pc'[w] = "forget" /\ ReportStage(w)
              /\ todo'[w] = OnlyInputs /\ out'[w] = "ok"
           \/ DeleteNext(w)
           \/ Ended(w) \/ ReportFailed(w) \/ Ack(w)
<1> USE DEF TypeInv, TypeOK
<1>0. \A p \in DOMAIN Then \ {"done1"} : Then[p] \in DOMAIN Then
  BY ThenDomain, ThenValues DEF Checks, Reports, Works
<1>1. CASE Check(w)
  <2>1. pc[w] \in DOMAIN Then \ {"done1"}
    BY <1>1, ThenDomain DEF Check, Checks
  <2> QED BY <1>1, <2>1, <1>0 DEF Check, Goto, Leave
<1>2. CASE ReportStage(w)
  <2>1. pc[w] \in DOMAIN Then
    BY <1>2, ThenDomain DEF ReportStage
  <2> QED BY <1>2, <2>1, <1>0 DEF ReportStage, Goto, Leave
<1>3. CASE Fetch(w)
  <2>1. pc[w] \in DOMAIN Then \ {"done1"}
    BY <1>3, ThenDomain DEF Fetch
  <2> QED BY <1>3, <2>1, <1>0 DEF Fetch, Goto, Leave
<1>4. CASE Work(w)
  <2>1. pc[w] \in DOMAIN Then \ {"done1"}
    BY <1>4, ThenDomain DEF Work, Works
  <2> QED BY <1>4, <2>1, <1>0 DEF Work, Goto, Leave
<1>5. CASE PutResult(w)
  <2>1. pc[w] \in DOMAIN Then \ {"done1"}
    BY <1>5, ThenDomain DEF PutResult
  <2> QED BY <1>5, <2>1, <1>0 DEF PutResult, Goto, Leave
<1> QED BY <1>1, <1>2, <1>3, <1>4, <1>5 DEF Consume

\* The number of deliveries grows by one with each pull and else not at all.
LEMMA DeliveryStep ==
    ASSUME TypeInv, [Next]_vars
    PROVE  deliveries' = deliveries \/ \E w \in Workers : Pull(w)
<1>1. CASE Gateway
  BY <1>1 DEF Gateway, PutA, PutB, PutInput, GatewayInit, Send, Undo, GatewayDies, queueVars
<1>2. CASE AlarmExpire \/ AlarmPurge \/ LeaseOver \/ SweepAsk \/ SweepDelete
  BY <1>2 DEF AlarmExpire, AlarmPurge, LeaseOver, SweepAsk, SweepDelete, queueVars
<1>3. CASE GetAsk \/ GetRead \/ Elapse \/ UNCHANGED vars
  BY <1>3 DEF GetAsk, GetRead, Elapse, queueVars, vars
<1>4. ASSUME NEW w \in Workers, Consume(w) \/ Die(w)
      PROVE  deliveries' = deliveries
  BY <1>4 DEF Consume, Check, ReportStage, Fetch, Work, PutResult, DeleteNext, Ended,
              ReportFailed, Ack, Die, queueVars
<1> QED BY <1>1, <1>2, <1>3, <1>4, Actors

-----------------------------------------------------------------------------
(***************************************************************************)
(* The photos.                                                             *)
(***************************************************************************)

\* handleCompare queues nothing before both photos are stored.
PhotosStored ==
    /\ gw = "putB" => "a" \in r2
    /\ gw \in {"init", "send"} => Inputs \subseteq r2
    /\ gw = "accepted" /\ deliveries = 0 => Inputs \subseteq r2

LEMMA PhotosStoredStep ==
    ASSUME TypeInv, PhotosStored, [Next]_vars
    PROVE  PhotosStored'
<1>1. gw \in {"putB", "init", "send"} \/ (gw = "accepted" /\ deliveries = 0)
        => \A w \in Workers : pc[w] = "idle"
  BY DEF TypeInv, Beginning
<1>2. gw \in {"putB", "init", "send"} \/ (gw = "accepted" /\ deliveries = 0)
        => r2 \cap Inputs \subseteq r2'
  BY <1>1, BucketStep DEF DeleteNext
<1>3. deliveries' = 0 => deliveries = 0
  BY DeliveryStep DEF Pull, TypeInv, TypeOK
<1>4. CASE gw' = gw
  BY <1>2, <1>3, <1>4 DEF PhotosStored, Inputs
<1>5. CASE gw' # gw
  BY <1>2, <1>3, <1>5, GatewayStep DEF PhotosStored, Inputs
<1> QED BY <1>4, <1>5

\* A run that is on its way out owes the photos that are left, and one that came
\* out left none.
PhotosGo == ~DeletesFail =>
    /\ \A w \in Workers : pc[w] = "forget" => \A k \in Inputs \cap r2 : Owes(w, k)
    /\ \A w \in Workers : pc[w] \in {"fail", "ack"} => r2 \cap Inputs = {}
    /\ msg = "acked" => r2 \cap Inputs = {}

\* What a consumer owes after one of its steps.
LEMMA OwesStep ==
    ASSUME TypeInv, NEW w \in Workers
    PROVE  /\ todo'[w] = Everything => \A k \in Objects : Owes(w, k)'
           /\ todo'[w] = OnlyInputs => \A k \in Inputs : Owes(w, k)'
           /\ todo'[w] = OnlyInputs => ~Owes(w, "zip")'
           /\ todo'[w] = todo[w] => \A k : Owes(w, k)' <=> Owes(w, k)
           /\ DeleteNext(w) => \A k : Owes(w, k) => k = Head(todo[w]) \/ Owes(w, k)'
           /\ DeleteNext(w) => \A k : Owes(w, k)' => Owes(w, k)
           /\ todo[w] = <<>> => \A k : ~Owes(w, k)
<1>1. todo'[w] = Everything => \A k \in Objects : Owes(w, k)'
  BY Lists DEF Owes
<1>2. todo'[w] = OnlyInputs => (\A k \in Inputs : Owes(w, k)') /\ ~Owes(w, "zip")'
  BY Lists DEF Owes
<1>3. todo'[w] = todo[w] => \A k : Owes(w, k)' <=> Owes(w, k)
  BY DEF Owes
<1>4. ASSUME DeleteNext(w)
      PROVE  \A k : /\ Owes(w, k) => k = Head(todo[w]) \/ Owes(w, k)'
                    /\ Owes(w, k)' => Owes(w, k)
  <2>1. todo[w] \in Seq(Objects) /\ todo[w] # <<>> /\ todo'[w] = Tail(todo[w])
    BY <1>4 DEF DeleteNext, TypeInv, TypeOK
  <2> QED BY <2>1, Shorter DEF Owes
<1>5. todo[w] = <<>> => \A k : ~Owes(w, k)
  BY DEF Owes
<1> QED BY <1>1, <1>2, <1>3, <1>4, <1>5

LEMMA PhotosGoStep ==
    ASSUME TypeInv, PhotosGo, [Next]_vars
    PROVE  PhotosGo'
<1> SUFFICES ASSUME ~DeletesFail
             PROVE  /\ \A w \in Workers : pc'[w] = "forget" => \A k \in Inputs \cap r2' : Owes(w, k)'
                    /\ \A w \in Workers : pc'[w] \in {"fail", "ack"} => r2' \cap Inputs = {}
                    /\ msg' = "acked" => r2' \cap Inputs = {}
  BY DEF PhotosGo
<1>0. /\ \A w \in Workers : pc[w] # "idle" => r2' \cap Inputs \subseteq r2
      /\ msg = "acked" => r2' \cap Inputs \subseteq r2
      /\ \A w \in Workers : pc[w] \in DOMAIN Then => pc[w] \notin Stops
  BY BucketStep, ThenDomain DEF TypeInv, Beginning, Checks, Reports, Works, Stops
<1>1. ASSUME NEW w \in Workers, pc'[w] = "forget", NEW k \in Inputs \cap r2'
      PROVE  Owes(w, k)'
  <2>1. CASE pc'[w] = pc[w] /\ todo'[w] = todo[w]
    BY <1>0, <1>1, <2>1, OwesStep DEF PhotosGo
  <2>2. CASE Pull(w) \/ Die(w)
    BY <1>1, <2>2 DEF Pull, Die, Goto, TypeInv, TypeOK
  <2>3. CASE Consume(w)
    <3>1. CASE todo'[w] \in {Everything, OnlyInputs}
      BY <1>1, <3>1, OwesStep DEF Inputs, Objects
    <3>2. CASE DeleteNext(w)
      <4>1. pc[w] = "forget" /\ r2' = r2 \ {Head(todo[w])}
        BY <3>2 DEF DeleteNext, Remove
      <4>2. Owes(w, k) /\ k # Head(todo[w])
        BY <1>1, <4>1 DEF PhotosGo
      <4> QED BY <3>2, <4>2, OwesStep
    <3>3. CASE Ended(w) \/ ReportFailed(w) \/ Ack(w)
      BY <1>1, <3>3 DEF Ended, ReportFailed, Ack, Goto, TypeInv, TypeOK
    <3>4. "forget" \notin DOMAIN Then
      BY ThenDomain DEF Checks, Reports, Works
    <3> QED BY <1>1, <2>3, <3>1, <3>2, <3>3, <3>4, RunStep
  <2> QED BY <2>1, <2>2, <2>3, WorkerStep
<1>2. ASSUME NEW w \in Workers, pc'[w] \in {"fail", "ack"}
      PROVE  r2' \cap Inputs = {}
  <2>1. CASE pc'[w] = pc[w]
    BY <1>0, <1>2, <2>1 DEF PhotosGo
  <2>2. CASE Pull(w) \/ Die(w)
    BY <1>2, <2>2 DEF Pull, Die, Goto, TypeInv, TypeOK
  <2>3. CASE Consume(w)
    <3>1. CASE Ended(w)
      <4>1. pc[w] = "forget" /\ \A k : ~Owes(w, k)
        BY <3>1, OwesStep DEF Ended
      <4>2. r2 \cap Inputs = {}
        BY <4>1 DEF PhotosGo
      <4> QED BY <1>0, <4>1, <4>2
    <3>2. CASE ReportFailed(w) \/ Ack(w)
      BY <1>0, <3>2 DEF ReportFailed, Ack, PhotosGo
    <3>3. CASE DeleteNext(w)
      BY <1>2, <3>3 DEF DeleteNext
    <3>4. {"fail", "ack"} \cap DOMAIN Then = {}
      BY ThenDomain DEF Checks, Reports, Works
    <3> QED BY <1>2, <2>3, <3>1, <3>2, <3>3, <3>4, RunStep
  <2> QED BY <2>1, <2>2, <2>3, WorkerStep
<1>3. ASSUME msg' = "acked"
      PROVE  r2' \cap Inputs = {}
  <2>1. CASE msg = "acked"
    BY <1>0, <2>1 DEF PhotosGo
  <2>2. CASE \E w \in Workers : Ack(w)
    BY <1>0, <2>2 DEF Ack, PhotosGo
  <2>3. ASSUME msg # "acked", NEW w \in Workers, Consume(w)
        PROVE  Ack(w)
    BY <1>3, <2>3 DEF Consume, Check, ReportStage, Fetch, Work, PutResult, DeleteNext, Ended,
                      ReportFailed, queueVars
  <2>4. ASSUME NEW w \in Workers, Pull(w) \/ Die(w)
        PROVE  msg' # "acked" \/ msg = "acked"
    BY <2>4 DEF Pull, Die, queueVars
  <2>5. CASE Gateway
    BY <1>3, <2>1, <2>5 DEF Gateway, PutA, PutB, PutInput, GatewayInit, Send, Undo, GatewayDies, queueVars
  <2>6. CASE AlarmExpire \/ AlarmPurge \/ LeaseOver \/ SweepAsk \/ SweepDelete
    BY <1>3, <2>1, <2>6 DEF AlarmExpire, AlarmPurge, LeaseOver, SweepAsk, SweepDelete, queueVars
  <2>7. CASE GetAsk \/ GetRead \/ Elapse \/ UNCHANGED vars
    BY <1>3, <2>1, <2>7 DEF GetAsk, GetRead, Elapse, queueVars, vars
  <2> QED BY <1>3, <2>1, <2>2, <2>3, <2>4, <2>5, <2>6, <2>7, Actors
<1> QED BY <1>1, <1>2, <1>3

\* A 202 promises photos to work on, and an acknowledged message leaves none of
\* them, whichever calls are lost and wherever containers die.
THEOREM PhotosAreKept == Spec => []PhotosMatchMessage
<1>1. Init => PhotosStored /\ PhotosGo
  BY DEF Init, PhotosStored, PhotosGo
<1>2. TypeInv /\ PhotosStored /\ PhotosGo /\ [Next]_vars => PhotosStored' /\ PhotosGo'
  BY PhotosStoredStep, PhotosGoStep
<1>3. PhotosStored /\ PhotosGo => PhotosMatchMessage
  BY DEF PhotosStored, PhotosGo, PhotosMatchMessage, AcceptedHasPhotos, AckedLeavesNoPhotos
<1> QED BY <1>1, <1>2, <1>3, TypeInvHolds, PTL DEF Spec

-----------------------------------------------------------------------------
(***************************************************************************)
(* The leases.                                                             *)
(***************************************************************************)

\* A consumer that is within its deadline holds the message, under a lease that
\* lasts at least as long.
Leased ==
    \A w \in Workers : pc[w] # "idle" /\ dl[w] > 0
        => msg = "leased" /\ holder = w /\ lease >= dl[w]

LEMMA LeasedStep ==
    ASSUME Deadline <= Visibility, TypeInv, Leased, [Next]_vars
    PROVE  Leased'
<1> USE DEF TypeInv, TypeOK
<1>t. /\ Deadline \in Nat /\ Visibility \in Nat
      /\ lease \in Nat /\ \A w \in Workers : dl[w] \in Nat
  BY TimeAssumption
<1>1. CASE Gateway
  <2>1. UNCHANGED workerVars
    BY <1>1 DEF Gateway, PutA, PutB, PutInput, GatewayInit, Send, Undo, GatewayDies
  <2>2. CASE UNCHANGED queueVars
    BY <2>1, <2>2 DEF Leased, queueVars, workerVars
  <2>3. CASE Send
    <3>1. \A w \in Workers : pc'[w] = "idle"
      BY <2>1, <2>3 DEF Send, workerVars, Beginning
    <3> QED BY <3>1 DEF Leased
  <2> QED BY <1>1, <2>2, <2>3 DEF Gateway, PutA, PutB, PutInput, GatewayInit, Undo, GatewayDies
<1>2. ASSUME NEW w \in Workers, Pull(w)
      PROVE  Leased'
  <2>1. \A v \in Workers : pc[v] = "idle" \/ ~(dl[v] > 0)
    BY <1>2 DEF Leased, Pull
  <2>2. msg' = "leased" /\ lease' = Visibility
    BY <1>2 DEF Pull
  <2>3. CASE UNCHANGED <<pc, dl>>
    BY <2>1, <2>3 DEF Leased
  <2>4. CASE holder' = w /\ pc' = [pc EXCEPT ![w] = "alive0"] /\ dl' = [dl EXCEPT ![w] = Deadline]
    BY <1>t, <2>1, <2>2, <2>4 DEF Leased
  <2> QED BY <1>2, <2>3, <2>4 DEF Pull
<1>3. ASSUME NEW w \in Workers, Consume(w) \/ Die(w), ~Ack(w)
      PROVE  Leased'
  <2>1. UNCHANGED <<queueVars, dl>> /\ pc[w] # "idle"
    BY <1>3, ThenDomain DEF Consume, Check, ReportStage, Fetch, Work, PutResult, DeleteNext, Ended,
                ReportFailed, Die, queueVars, Checks, Reports, Works
  <2>2. \A v \in Workers \ {w} : pc'[v] = pc[v]
    BY <1>3 DEF Consume, Check, ReportStage, Fetch, Work, PutResult, DeleteNext, Ended,
                ReportFailed, Die, Goto, Leave
  <2> QED BY <2>1, <2>2 DEF Leased, queueVars
<1>4. ASSUME NEW w \in Workers, Ack(w)
      PROVE  Leased'
  <2>1. pc[w] = "ack" /\ pc' = [pc EXCEPT ![w] = "idle"] /\ dl' = dl /\ lease' = lease
    BY <1>4 DEF Ack, Goto
  <2>2. CASE UNCHANGED <<msg, holder>>
    BY <2>1, <2>2 DEF Leased
  <2>3. CASE holder = w
    BY <2>1, <2>3 DEF Leased
  <2> QED BY <1>4, <2>2, <2>3 DEF Ack
<1>5. CASE LeaseOver
  <2>1. \A w \in Workers : pc[w] = "idle" \/ ~(dl[w] > 0)
    BY <1>5, <1>t DEF LeaseOver, Leased
  <2> QED BY <1>5, <2>1 DEF LeaseOver, Leased, workerVars
<1>6. CASE AlarmExpire \/ AlarmPurge \/ SweepAsk \/ SweepDelete
  BY <1>6 DEF AlarmExpire, AlarmPurge, SweepAsk, SweepDelete, queueVars, workerVars, Leased
<1>7. CASE GetAsk \/ GetRead \/ UNCHANGED vars
  BY <1>7 DEF GetAsk, GetRead, queueVars, workerVars, vars, Leased
<1>8. CASE Elapse
  <2>1. /\ lease' = IF lease > 0 THEN lease - 1 ELSE 0
        /\ \A w \in Workers : dl'[w] = IF dl[w] > 0 THEN dl[w] - 1 ELSE 0
        /\ UNCHANGED <<msg, holder, pc>>
    BY <1>8 DEF Elapse
  <2> QED BY <1>t, <2>1 DEF Leased
<1> QED BY <1>1, <1>2, <1>3, <1>4, <1>5, <1>6, <1>7, <1>8, Actors

\* Two consumers within their deadlines never run one job at once, provided that
\* a message stays leased for as long as a run may take: HQ_TOTAL_TIMEOUT_SECS
\* and QUEUE_VISIBILITY_TIMEOUT_SECS of the deployment.
THEOREM RunsStayApart ==
    ASSUME Deadline <= Visibility
    PROVE  Spec => []RunsDoNotOverlap
<1>1. Init => Leased
  BY DEF Init, Leased
<1>2. TypeInv /\ Leased /\ [Next]_vars => Leased'
  BY LeasedStep
<1>3. Leased => RunsDoNotOverlap
  BY DEF Leased, RunsDoNotOverlap, Running
<1> QED BY <1>1, <1>2, <1>3, TypeInvHolds, PTL DEF Spec

-----------------------------------------------------------------------------
(***************************************************************************)
(* The result.                                                             *)
(***************************************************************************)

\* The status moves along the life of a job; a report of a run begins or ends
\* it, the alarms age it.
LEMMA StatusStep ==
    ASSUME TypeInv, [Next]_vars
    PROVE  \/ UNCHANGED <<status, born>> /\ (left' = left \/ Elapse)
           \/ /\ ~born /\ status' = "queued"
              /\ UNCHANGED <<r2, queueVars, workerVars, sweep, get>>
           \/ AlarmExpire /\ born' = born /\ status \in Live /\ status' = "expired"
           \/ AlarmPurge /\ born' = born /\ status = "expired" /\ status' = "absent"
           \/ /\ UNCHANGED <<born, left>>
              /\ \/ /\ status = "queued" /\ status' = "processing"
                    /\ \E w \in Workers : ReportStage(w)
                 \/ /\ status \in Live /\ status' = "done"
                    /\ \E w \in Workers : ReportStage(w) /\ pc[w] = "done1"
                 \/ /\ status \in Live /\ status' = "failed"
                    /\ \E w \in Workers : ReportFailed(w)
<1>0. status \in Visible /\ {"done", "failed"} = Settled
  BY DEF TypeInv, TypeOK, LifeTypeOK, Settled
<1>1. CASE Gateway
  <2>1. CASE GatewayInit
    BY <2>1 DEF GatewayInit, Create, jobVars
  <2>2. CASE ~GatewayInit
    BY <1>1, <2>2 DEF Gateway, PutA, PutB, PutInput, Send, Undo, GatewayDies, jobVars
  <2> QED BY <2>1, <2>2
<1>2. CASE AlarmExpire \/ AlarmPurge
  BY <1>2 DEF AlarmExpire, AlarmPurge, Expire, Forget
<1>3. CASE LeaseOver \/ SweepAsk \/ SweepDelete
  BY <1>3 DEF LeaseOver, SweepAsk, SweepDelete, jobVars
<1>4. CASE GetAsk \/ GetRead \/ UNCHANGED vars
  BY <1>4 DEF GetAsk, GetRead, jobVars, vars
<1>5. CASE Elapse
  BY <1>5 DEF Elapse
<1>6. ASSUME NEW w \in Workers,
             Pull(w) \/ Die(w) \/ Check(w) \/ Fetch(w) \/ Work(w) \/ PutResult(w)
                \/ DeleteNext(w) \/ Ended(w) \/ Ack(w)
      PROVE  UNCHANGED <<status, born, left>>
  BY <1>6 DEF Pull, Die, Check, Fetch, Work, PutResult, DeleteNext, Ended, Ack, jobVars
<1>7. ASSUME NEW w \in Workers, ReportStage(w)
      PROVE  /\ UNCHANGED <<born, left>>
             /\ \/ status' = status
                \/ status = "queued" /\ status' = "processing"
                \/ status \in Live /\ status' = "done" /\ pc[w] = "done1"
  <2>1. UNCHANGED <<born, left>>
    BY <1>7 DEF ReportStage, Told
  <2>2. CASE pc[w] = "done1"
    BY <1>0, <1>7, <2>2, AfterWrites DEF ReportStage, Told
  <2>3. CASE pc[w] # "done1"
    BY <1>0, <1>7, <2>3, AfterWrites DEF ReportStage, Told
  <2> QED BY <2>1, <2>2, <2>3
<1>8. ASSUME NEW w \in Workers, ReportFailed(w)
      PROVE  /\ UNCHANGED <<born, left>>
             /\ status' = status \/ (status \in Live /\ status' = "failed")
  BY <1>0, <1>8, AfterWrites DEF ReportFailed, Told
<1> QED BY <1>1, <1>2, <1>3, <1>4, <1>5, <1>6, <1>7, <1>8, Actors DEF Consume

\* As long as the window of a job is open its message is delivered once, and to
\* one consumer: the lease outlasts the window.
OneDelivery == status \in Live =>
    /\ deliveries <= 1
    /\ deliveries = 1 => msg \in {"leased", "acked"}
    /\ msg = "leased" => lease > left

OneRun == deliveries = 1 =>
    \A v, w \in Workers : pc[v] # "idle" /\ pc[w] # "idle" => v = w

LEMMA OneDeliveryStep ==
    ASSUME Ttl < Visibility, TypeInv, OneDelivery, [Next]_vars
    PROVE  OneDelivery'
<1> SUFFICES ASSUME status' \in Live
             PROVE  /\ deliveries' <= 1
                    /\ deliveries' = 1 => msg' \in {"leased", "acked"}
                    /\ msg' = "leased" => lease' > left'
  BY DEF OneDelivery
<1> USE DEF TypeInv, TypeOK
<1>0. /\ Ttl \in Nat /\ Visibility \in Nat /\ left \in 0 .. Ttl
      /\ lease \in Nat /\ deliveries \in Nat
  BY TimeAssumption
<1>1. CASE ~born /\ UNCHANGED queueVars
  BY <1>1 DEF Beginning, queueVars
<1>2. ASSUME status \in Live, UNCHANGED queueVars, left' = left
      PROVE  OneDelivery'
  BY <1>2 DEF OneDelivery, queueVars
<1>3. ASSUME status \in Live
      PROVE  OneDelivery'
  <2>0. /\ deliveries <= 1
        /\ deliveries = 1 => msg \in {"leased", "acked"}
        /\ msg = "leased" => lease > left
    BY <1>3 DEF OneDelivery
  <2>1. CASE Gateway
    <3>1. CASE Send
      BY <3>1 DEF Send, Beginning, OneDelivery
    <3>2. CASE GatewayInit
      <4>1. UNCHANGED queueVars /\ (left' = left \/ ~born)
        BY <3>2 DEF GatewayInit, Create, jobVars
      <4> QED BY <1>1, <1>2, <1>3, <4>1 DEF OneDelivery
    <3>3. CASE ~Send /\ ~GatewayInit
      <4>1. UNCHANGED queueVars /\ left' = left
        BY <2>1, <3>3 DEF Gateway, PutA, PutB, PutInput, Undo, GatewayDies, jobVars
      <4> QED BY <1>2, <1>3, <4>1
    <3> QED BY <3>1, <3>2, <3>3
  <2>2. CASE AlarmExpire \/ AlarmPurge
    <3>1. status' \notin Live
      BY <2>2 DEF AlarmExpire, AlarmPurge, Expire, Forget, Live, Settled
    <3> QED BY <3>1
  <2>3. ASSUME NEW w \in Workers, Pull(w)
        PROVE  OneDelivery'
    <3>1. deliveries = 0
      BY <1>0, <2>0, <2>3 DEF Pull
    <3>2. msg' = "leased" /\ lease' = Visibility /\ deliveries' = 1 /\ left' = left
      BY <2>3, <3>1 DEF Pull, jobVars
    <3> QED BY <1>0, <3>2 DEF OneDelivery
  <2>4. CASE LeaseOver
    BY <1>0, <2>0, <2>4 DEF LeaseOver
  <2>5. ASSUME NEW w \in Workers, Consume(w) \/ Die(w), ~Ack(w)
        PROVE  OneDelivery'
    <3>1. UNCHANGED queueVars /\ left' = left
      BY <2>5 DEF Consume, Check, ReportStage, Told, Fetch, Work, PutResult, DeleteNext, Ended,
                  ReportFailed, Die, jobVars
    <3> QED BY <1>2, <1>3, <3>1
  <2>6. ASSUME NEW w \in Workers, Ack(w)
        PROVE  OneDelivery'
    <3>1. UNCHANGED <<deliveries, lease, left>> /\ msg' \in {msg, "acked"}
      BY <2>6 DEF Ack, jobVars
    <3> QED BY <2>0, <3>1 DEF OneDelivery
  <2>7. CASE SweepAsk \/ SweepDelete \/ GetAsk \/ GetRead \/ UNCHANGED vars
    <3>1. UNCHANGED queueVars /\ left' = left
      BY <2>7 DEF SweepAsk, SweepDelete, GetAsk, GetRead, vars, jobVars, queueVars
    <3> QED BY <1>2, <1>3, <3>1
  <2>8. CASE Elapse
    <3>1. left > 0
      BY <1>3, <2>8 DEF Elapse, JobStatus
    <3>2. left' = left - 1 /\ lease' = (IF lease > 0 THEN lease - 1 ELSE 0) /\ UNCHANGED <<msg, deliveries>>
      BY <2>8, <3>1 DEF Elapse
    <3> QED BY <1>0, <2>0, <3>1, <3>2 DEF OneDelivery
  <2> QED BY <2>1, <2>2, <2>3, <2>4, <2>5, <2>6, <2>7, <2>8, Actors
<1>4. status \in Live \/ (~born /\ UNCHANGED queueVars)
  BY StatusStep DEF Live, Settled, Visible, JobStatus, LifeTypeOK
<1> QED BY <1>1, <1>3, <1>4 DEF OneDelivery

LEMMA OneRunStep ==
    ASSUME TypeInv, OneRun, [Next]_vars
    PROVE  OneRun'
<1> SUFFICES ASSUME deliveries' = 1,
                    NEW v \in Workers, NEW w \in Workers, pc'[v] # "idle", pc'[w] # "idle"
             PROVE  v = w
  BY DEF OneRun
<1>0. \A u \in Workers : Consume(u) \/ Die(u) => pc[u] # "idle"
  BY ThenDomain DEF Consume, Die, Check, ReportStage, Fetch, Work, PutResult, DeleteNext, Ended,
                    ReportFailed, Ack, Checks, Reports, Works
<1>1. ASSUME NEW u \in Workers, Pull(u)
      PROVE  v = w
  <2>1. \A x \in Workers : pc[x] = "idle"
    BY <1>1 DEF Pull, TypeInv, TypeOK, Beginning
  <2>2. \A x \in Workers \ {u} : pc'[x] = "idle"
    BY <1>1, <2>1 DEF Pull, TypeInv, TypeOK
  <2> QED BY <2>2
<1>2. ASSUME \A u \in Workers : ~Pull(u)
      PROVE  v = w
  <2>1. deliveries = 1
    BY <1>2, DeliveryStep
  <2>2. pc[v] # "idle" /\ pc[w] # "idle"
    BY <1>0, <1>2, WorkerStep
  <2> QED BY <2>1, <2>2 DEF OneRun
<1> QED BY <1>1, <1>2

\* In an open window the others are idle while one consumer runs.
LEMMA Sole ==
    ASSUME TypeInv, OneDelivery, OneRun, status \in Live,
           NEW w \in Workers, pc[w] # "idle"
    PROVE  /\ \A v \in Workers \ {w} : pc[v] = "idle"
           /\ \A v \in Workers : ~Pull(v)
           /\ \A v \in Workers \ {w} : ~Consume(v) /\ ~Die(v)
<1>1. deliveries = 1
  BY DEF TypeInv, TypeOK, Beginning, OneDelivery
<1>2. \A v \in Workers \ {w} : pc[v] = "idle"
  BY <1>1 DEF OneRun
<1>3. \A v \in Workers : ~Pull(v)
  BY <1>1 DEF OneDelivery, Pull
<1>4. ASSUME NEW v \in Workers, Consume(v) \/ Die(v)
      PROVE  pc[v] # "idle"
  BY <1>4 DEF Consume, Die, Check, ReportStage, Fetch, Work, PutResult, DeleteNext, Ended,
                    ReportFailed, Ack, Checks, Reports, Works
<1> QED BY <1>2, <1>3, <1>4

\* A done job has its result and its run is past all that could take it away; a
\* failed one has no run that could still report anything.
Results == status \in Live =>
    /\ status = "done" => "zip" \in r2
    /\ status \in Settled => deliveries # 0
    /\ \A w \in Workers :
          /\ pc[w] = "done1" => "zip" \in r2
          /\ status \in Settled => pc[w] \in {"idle", "forget", "fail", "ack"}
          /\ status = "done" /\ pc[w] = "forget" => ~Owes(w, "zip")
          /\ status = "failed" => pc[w] \in {"idle", "ack"}

\* Answers that may be old when they are acted upon: the sweep's is of a job that
\* stays over, the client's of a result that stays as long as the window.
Answers ==
    /\ sweep = "doomed" => born /\ status \notin Live
    /\ get = "done" => born /\ (status \in Live => status \in Settled /\ "zip" \in r2)
    /\ get = "missing" => born /\ status \notin Live

RunInv == TypeInv /\ OneDelivery /\ OneRun /\ Results /\ Answers

\* An open job was open before, or it is new and nothing has happened to it.
LEMMA OpenBefore ==
    ASSUME TypeInv, [Next]_vars, status' \in Live
    PROVE  \/ status \in Live
           \/ /\ ~born /\ status' = "queued"
              /\ UNCHANGED <<r2, queueVars, workerVars, sweep, get>>
              /\ \A w \in Workers : pc'[w] = "idle"
<1>1. ~born => \A w \in Workers : pc[w] = "idle"
  BY DEF TypeInv, Beginning
<1> QED BY <1>1, StatusStep DEF workerVars, Live, Settled

\* While the window is open nothing takes a result away but a run that owes it,
\* and that is none of a settled job.
LEMMA ResultStays ==
    ASSUME RunInv, [Next]_vars, status \in Live, "zip" \in r2
    PROVE  /\ "zip" \in r2' \/ \E w \in Workers : DeleteNext(w) /\ Owes(w, "zip")
           /\ status \in Settled => "zip" \in r2'
<1>1. "zip" \in r2' \/ \E w \in Workers : DeleteNext(w) /\ Owes(w, "zip")
  BY BucketStep DEF RunInv, Answers, SweepDelete
<1>2. ASSUME status \in Settled, NEW w \in Workers, DeleteNext(w)
      PROVE  ~Owes(w, "zip")
  BY <1>2 DEF RunInv, Results, DeleteNext, Settled
<1> QED BY <1>1, <1>2

LEMMA ResultsStep ==
    ASSUME RunInv, [Next]_vars
    PROVE  Results'
<1> SUFFICES ASSUME status' \in Live
             PROVE  Results'
  BY DEF Results
<1> USE DEF RunInv
<1>1. CASE status \notin Live
  BY <1>1, OpenBefore DEF Results, Settled
<1>2. CASE status \in Live
  <2>0. /\ DOMAIN Then \cap Stops = {}
        /\ \A p \in DOMAIN Then : Then[p] = "done1" => p = "put"
    BY ThenDomain, ThenValues DEF Checks, Reports, Works, Stops
  <2>1. status' = "done" => "zip" \in r2'
    <3>1. CASE status = "done"
      BY <1>2, <3>1, ResultStays DEF Results, Settled
    <3>2. ASSUME NEW w \in Workers, ReportStage(w), pc[w] = "done1"
          PROVE  "zip" \in r2'
      BY <1>2, <3>2 DEF Results, ReportStage
    <3> QED BY <3>1, <3>2, StatusStep
  <2>2. status' \in Settled => deliveries' # 0
    <3>1. status' \in Settled => status \in Settled \/ \E w \in Workers : pc[w] # "idle"
      BY StatusStep DEF ReportFailed, Settled
    <3>2. status' \in Settled => deliveries # 0
      BY <1>2, <3>1 DEF Results, TypeInv, Beginning
    <3> QED BY <3>2, DeliveryStep DEF Pull, TypeInv, TypeOK
  <2>3. ASSUME NEW w \in Workers
        PROVE  /\ pc'[w] = "done1" => "zip" \in r2'
               /\ status' \in Settled => pc'[w] \in {"idle", "forget", "fail", "ack"}
               /\ status' = "done" /\ pc'[w] = "forget" => ~Owes(w, "zip")'
               /\ status' = "failed" => pc'[w] \in {"idle", "ack"}
    <3>0. /\ pc[w] = "done1" => "zip" \in r2
          /\ status \in Settled => pc[w] \in {"idle", "forget", "fail", "ack"}
          /\ status = "done" /\ pc[w] = "forget" => ~Owes(w, "zip")
          /\ status = "failed" => pc[w] \in {"idle", "ack"}
      BY <1>2 DEF Results
    <3>1. CASE pc'[w] = "idle"
      BY <3>1
    <3>2. CASE ~Pull(w) /\ ~Consume(w) /\ ~Die(w) /\ pc'[w] # "idle"
      <4>1. pc'[w] = pc[w] /\ todo'[w] = todo[w]
        BY <3>2, WorkerStep
      <4>2. \A v \in Workers : ~Consume(v)
        BY <1>2, <3>2, <4>1, Sole
      <4>3. status' = status
        BY <1>2, <4>2, StatusStep DEF Consume, TypeInv, Beginning, Live, Settled
      <4>4. "zip" \in r2 => "zip" \in r2'
        BY <1>2, <4>2, ResultStays DEF Consume
      <4> QED BY <3>0, <4>1, <4>3, <4>4, OwesStep
    <3>3. CASE Pull(w)
      <4>1. deliveries = 0 /\ pc[w] = "idle"
        BY <1>2, <3>3 DEF OneDelivery, Pull, TypeInv, TypeOK
      <4>2. pc'[w] \in {"idle", "alive0"} /\ status' = status
        BY <3>3, <4>1 DEF Pull, TypeInv, TypeOK, jobVars
      <4> QED BY <1>2, <4>1, <4>2 DEF Results, Settled
    <3>4. CASE Die(w)
      BY <3>1, <3>4 DEF Die, Goto, TypeInv, TypeOK
    <3>5. CASE Consume(w)
      <4>1. CASE pc[w] \in DOMAIN Then \ {"done1"}
        <5>1. status' \notin Settled
          <6>1. status \notin Settled
            BY <2>0, <3>0, <4>1 DEF Stops, Settled
          <6>2. \A v \in Workers : pc[v] = "done1" => ~ReportStage(v)
            BY <1>2, <2>0, <4>1, Sole DEF Stops, Consume
          <6>3. \A v \in Workers : ~ReportFailed(v)
            BY <1>2, <2>0, <4>1, Sole DEF Stops, Consume, ReportFailed
          <6> QED BY <6>1, <6>2, <6>3, StatusStep DEF Settled
        <5>2. pc'[w] = "done1" => "zip" \in r2'
          <6>1. ASSUME pc'[w] = "done1"
                PROVE  pc[w] = "put"
            BY <2>0, <3>5, <4>1, <6>1, RunStep DEF DeleteNext, Ended, ReportFailed, Ack, Stops
          <6>2. ASSUME pc'[w] = "done1"
                PROVE  PutResult(w)
            BY <3>5, <6>1, <6>2 DEF Consume, Check, ReportStage, Fetch, Work, DeleteNext, Ended,
                  ReportFailed, Ack, Checks, Reports, Works
          <6> QED BY <6>2 DEF PutResult, Leave, Goto, TypeInv, TypeOK
        <5> QED BY <5>1, <5>2 DEF Settled
      <4>2. CASE pc[w] = "done1"
        <5>1. ReportStage(w) /\ todo'[w] = OnlyInputs /\ pc'[w] = "forget"
          BY <3>5, <4>2, RunStep DEF DeleteNext, Ended, ReportFailed, Ack
        <5>2. ~Owes(w, "zip")'
          BY <5>1, OwesStep
        <5>3. status' # "failed"
          <6>1. status # "failed"
            BY <3>0, <4>2
          <6>2. \A v \in Workers : ~ReportFailed(v)
            BY <1>2, <4>2, Sole DEF Consume, ReportFailed
          <6> QED BY <6>1, <6>2, StatusStep
        <5> QED BY <5>1, <5>2, <5>3
      <4>3. CASE pc[w] \in Stops
        <5>1. CASE DeleteNext(w)
          <6>1. pc'[w] = "forget" /\ status' = status
            BY <5>1 DEF DeleteNext, jobVars
          <6> QED BY <3>0, <5>1, <6>1, OwesStep DEF DeleteNext
        <5>2. CASE Ended(w)
          <6>1. pc[w] = "forget" /\ pc'[w] \in {"fail", "ack"} /\ status' = status
            BY <5>2 DEF Ended, Goto, jobVars, TypeInv, TypeOK
          <6> QED BY <3>0, <6>1
        <5>3. CASE ReportFailed(w)
          BY <5>3 DEF ReportFailed, Goto, TypeInv, TypeOK
        <5>4. CASE Ack(w)
          BY <3>1, <5>4 DEF Ack, Goto, TypeInv, TypeOK
        <5> QED BY <2>0, <3>5, <4>3, <5>1, <5>2, <5>3, <5>4, RunStep, ThenDomain DEF Reports
      <4> QED BY <4>1, <4>2, <4>3 DEF TypeInv, TypeOK
    <3> QED BY <3>1, <3>2, <3>3, <3>4, <3>5
  <2> QED BY <2>1, <2>2, <2>3 DEF Results
<1> QED BY <1>1, <1>2

LEMMA AnswersStep ==
    ASSUME RunInv, [Next]_vars
    PROVE  Answers'
<1> USE DEF RunInv
<1>1. ASSUME born, status \notin Live
      PROVE  born' /\ status' \notin Live
  BY <1>1, StatusStep DEF Live, Settled
<1>2. ASSUME born, status \in Settled, "zip" \in r2, status' \in Live
      PROVE  born' /\ status' \in Settled /\ "zip" \in r2'
  <2>1. status \in Live
    BY <1>2 DEF Live
  <2> QED BY <1>2, <2>1, ResultStays, StatusStep DEF Settled, Live
<1>3. born => born'
  BY StatusStep
<1>4. ASSUME sweep' = "doomed"
      PROVE  born' /\ status' \notin Live
  <2>1. CASE sweep = "doomed"
    BY <1>1, <2>1 DEF Answers
  <2>2. CASE SweepAsk
    BY <1>1, <2>2 DEF SweepAsk, TypeInv, Beginning, Live, Settled
  <2>3. CASE Gateway
    BY <1>4, <2>1, <2>3 DEF Gateway, PutA, PutB, PutInput, GatewayInit, Send, Undo, GatewayDies
  <2>4. CASE AlarmExpire \/ AlarmPurge \/ LeaseOver \/ SweepDelete
    BY <1>4, <2>1, <2>4 DEF AlarmExpire, AlarmPurge, LeaseOver, SweepDelete
  <2>5. CASE GetAsk \/ GetRead \/ Elapse \/ UNCHANGED vars
    BY <1>4, <2>1, <2>5 DEF GetAsk, GetRead, Elapse, vars
  <2>6. ASSUME NEW w \in Workers, Pull(w) \/ Consume(w) \/ Die(w)
        PROVE  sweep' = sweep
    BY <2>6 DEF Pull, Die, Consume, Check, ReportStage, Fetch, Work, PutResult, DeleteNext,
              Ended, ReportFailed, Ack
  <2> QED BY <1>4, <2>1, <2>2, <2>3, <2>4, <2>5, <2>6, Actors
<1>5. UNCHANGED get \/ GetAsk \/ GetRead
  <2>1. CASE Gateway
    BY <2>1 DEF Gateway, PutA, PutB, PutInput, GatewayInit, Send, Undo, GatewayDies
  <2>2. CASE AlarmExpire \/ AlarmPurge \/ LeaseOver \/ SweepAsk \/ SweepDelete
    BY <2>2 DEF AlarmExpire, AlarmPurge, LeaseOver, SweepAsk, SweepDelete
  <2>3. CASE Elapse \/ UNCHANGED vars
    BY <2>3 DEF Elapse, vars
  <2>4. ASSUME NEW w \in Workers, Pull(w) \/ Consume(w) \/ Die(w)
        PROVE  get' = get
    BY <2>4 DEF Pull, Die, Consume, Check, ReportStage, Fetch, Work, PutResult, DeleteNext,
              Ended, ReportFailed, Ack
  <2> QED BY <2>1, <2>2, <2>3, <2>4, Actors
<1>6. CASE UNCHANGED get
  BY <1>1, <1>2, <1>3, <1>4, <1>6 DEF Answers
<1>7. CASE GetAsk
  <2>1. born /\ "zip" \in r2 /\ UNCHANGED <<status, born, r2>> /\ status = "done"
    BY <1>7 DEF GetAsk, Results, TypeInv, Beginning, Live, Settled, jobVars
  <2> QED BY <1>4, <1>7, <2>1 DEF GetAsk, Answers, Settled
<1>8. CASE GetRead
  <2>1. UNCHANGED <<status, born, r2>> /\ get = "done"
    BY <1>8 DEF GetRead, jobVars
  <2> QED BY <1>4, <1>8, <2>1 DEF GetRead, Answers
<1> QED BY <1>5, <1>6, <1>7, <1>8

LEMMA RunInvHolds ==
    ASSUME Ttl < Visibility
    PROVE  Spec => []RunInv
<1>1. Init => OneDelivery /\ OneRun /\ Results /\ Answers
  BY DEF Init, LifeInit, OneDelivery, OneRun, Results, Answers, Live, Settled
<1>2. TypeInv /\ OneDelivery /\ OneRun /\ Results /\ Answers /\ [Next]_vars
        => OneDelivery' /\ OneRun' /\ Results' /\ Answers'
  BY OneDeliveryStep, OneRunStep, ResultsStep, AnswersStep DEF RunInv
<1>3. TypeInv /\ OneDelivery /\ OneRun /\ Results /\ Answers => RunInv
  BY DEF RunInv
<1> QED BY <1>1, <1>2, <1>3, TypeInvHolds, PTL DEF Spec

\* A job whose status is done keeps its result until its window is over, and only
\* then is a client told that there is none, provided that no message is
\* delivered again within the window: HQ and standard jobs alike.
THEOREM DoneIsServed ==
    ASSUME Ttl < Visibility
    PROVE  Spec => [](DoneHasResult /\ MissingIsOver)
<1>1. RunInv => DoneHasResult /\ MissingIsOver
  BY DEF RunInv, Results, Answers, DoneHasResult, MissingIsOver, Live, Settled
<1> QED BY <1>1, RunInvHolds, PTL

-----------------------------------------------------------------------------
(***************************************************************************)
(* The end of a job.                                                       *)
(***************************************************************************)

\* A run of an open job is within its deadline, so that it reports failure only
\* when it failed; and then it leaves no result.
InTime == status \in Live => \A w \in Workers :
    /\ pc[w] # "idle" => dl[w] > left
    /\ pc[w] = "fail" => status # "done"
    /\ status = "done" /\ pc[w] = "forget" => out[w] = "ok"

NoneLeft == status \in Live /\ ~DeletesFail =>
    /\ status = "failed" => "zip" \notin r2
    /\ \A w \in Workers :
          /\ pc[w] = "forget" /\ out[w] = "error" /\ "zip" \in r2 => Owes(w, "zip")
          /\ pc[w] = "fail" => "zip" \notin r2

\* What happens to the deadline of a consumer.
LEMMA DeadlineStep ==
    ASSUME TypeInv, [Next]_vars, NEW w \in Workers
    PROVE  \/ dl'[w] = dl[w] \/ dl'[w] = Deadline
           \/ Elapse /\ dl'[w] = IF dl[w] > 0 THEN dl[w] - 1 ELSE 0
<1>1. CASE Elapse
  BY <1>1 DEF Elapse
<1>2. CASE Pull(w)
  BY <1>2 DEF Pull, TypeInv, TypeOK
<1>3. CASE Consume(w) \/ Die(w)
  BY <1>3 DEF Die, Consume, Check, ReportStage, Fetch, Work, PutResult, DeleteNext,
              Ended, ReportFailed, Ack
<1> QED BY <1>1, <1>2, <1>3, WorkerStep

LEMMA InTimeStep ==
    ASSUME Ttl < Deadline, RunInv, InTime, [Next]_vars
    PROVE  InTime'
<1> SUFFICES ASSUME status' \in Live, NEW w \in Workers, pc'[w] # "idle"
             PROVE  /\ dl'[w] > left'
                    /\ pc'[w] = "fail" => status' # "done"
                    /\ status' = "done" /\ pc'[w] = "forget" => out'[w] = "ok"
  BY DEF InTime
<1> USE DEF RunInv
<1>0. /\ Ttl \in Nat /\ Deadline \in Nat /\ left \in 0 .. Ttl /\ dl[w] \in Nat
      /\ DOMAIN Then \cap Stops = {}
  BY TimeAssumption, ThenDomain DEF TypeInv, TypeOK, Checks, Reports, Works, Stops
<1>1. status \in Live /\ born
  BY OpenBefore DEF TypeInv, Beginning, Live, Settled
<1>2. left' = left \/ Elapse
  BY <1>1, StatusStep DEF Live, Settled
<1>3. CASE pc[w] = "idle"
  <2>1. Pull(w)
    BY <1>0, <1>3, WorkerStep DEF Consume, Die, Check, ReportStage, Fetch, Work, PutResult, DeleteNext,
          Ended, ReportFailed, Ack, Checks, Reports, Works
  <2>2. pc'[w] = "alive0" /\ dl'[w] = Deadline /\ left' = left
    BY <1>3, <2>1 DEF Pull, TypeInv, TypeOK, jobVars
  <2> QED BY <1>0, <2>2
<1>4. CASE pc[w] # "idle"
  <2>0. dl[w] > left /\ (pc[w] = "fail" => status # "done")
        /\ (status = "done" /\ pc[w] = "forget" => out[w] = "ok")
    BY <1>1, <1>4 DEF InTime
  <2>1. dl'[w] > left'
    <3>1. CASE Elapse
      <4>1. left > 0 /\ left' = left - 1
        BY <1>0, <1>1, <3>1 DEF Elapse, JobStatus
      <4> QED BY <1>0, <2>0, <3>1, <4>1 DEF Elapse, TypeInv, TypeOK
    <3>2. CASE ~Elapse
      BY <1>0, <1>2, <2>0, <3>2, DeadlineStep
    <3> QED BY <3>1, <3>2
  <2>2. CASE ~Consume(w)
    <3>1. pc'[w] = pc[w] /\ out'[w] = out[w]
      BY <1>1, <1>4, <2>2, WorkerStep, Sole DEF Die, Goto, TypeInv, TypeOK
    <3>2. status' = status
      <4>1. \A v \in Workers : ~Consume(v)
        BY <1>1, <1>4, <2>2, Sole
      <4> QED BY <1>1, <4>1, StatusStep DEF Consume, Live, Settled
    <3> QED BY <2>0, <2>1, <3>1, <3>2
  <2>3. CASE Consume(w)
    <3>1. CASE pc[w] \in DOMAIN Then \ {"done1"}
      <4>1. status \notin Settled
        BY <1>0, <1>1, <3>1 DEF Results, Stops
      <4>2. status' # "done"
        BY <1>0, <1>1, <1>4, <3>1, <4>1, Sole, StatusStep DEF Consume, Settled
      <4> QED BY <2>1, <4>2
    <3>2. CASE pc[w] = "done1"
      <4>1. pc'[w] = "forget" /\ out'[w] = "ok"
        BY <2>3, <3>2, RunStep DEF DeleteNext, Ended, ReportFailed, Ack
      <4> QED BY <2>1, <4>1
    <3>3. CASE DeleteNext(w)
      BY <2>0, <2>1, <3>3 DEF DeleteNext, jobVars
    <3>4. CASE Ended(w)
      <4>1. dl[w] # 0 /\ status' = status /\ pc[w] = "forget"
        BY <1>0, <2>0, <3>4 DEF Ended, jobVars
      <4>2. pc'[w] = "fail" => out[w] = "error"
        BY <3>4, <4>1 DEF Ended, Goto, TypeInv, TypeOK
      <4>3. pc'[w] # "forget"
        BY <3>4 DEF Ended, Goto, TypeInv, TypeOK
      <4> QED BY <2>0, <2>1, <4>1, <4>2, <4>3
    <3>5. CASE ReportFailed(w) \/ Ack(w)
      BY <2>1, <3>5 DEF ReportFailed, Ack, Goto, TypeInv, TypeOK
    <3> QED BY <2>3, <3>1, <3>2, <3>3, <3>4, <3>5, RunStep
  <2> QED BY <2>2, <2>3
<1> QED BY <1>3, <1>4

LEMMA NoneLeftStep ==
    ASSUME RunInv, InTime, NoneLeft, [Next]_vars
    PROVE  NoneLeft'
<1> SUFFICES ASSUME status' \in Live, ~DeletesFail
             PROVE  /\ status' = "failed" => "zip" \notin r2'
                    /\ \A w \in Workers :
                         /\ pc'[w] = "forget" /\ out'[w] = "error" /\ "zip" \in r2' => Owes(w, "zip")'
                         /\ pc'[w] = "fail" => "zip" \notin r2'
  BY DEF NoneLeft
<1> USE DEF RunInv
<1>1. CASE status \notin Live
  BY <1>1, OpenBefore
<1>2. CASE status \in Live
  <2>0. /\ status = "failed" => "zip" \notin r2
        /\ DOMAIN Then \cap Stops = {}
    BY <1>2, ThenDomain DEF NoneLeft, Checks, Reports, Works, Stops
  <2>1. status' = "failed" => "zip" \notin r2'
    <3>1. CASE status = "failed"
      BY <1>2, <2>0, <3>1, BucketStep DEF Results, PutResult
    <3>2. ASSUME NEW w \in Workers, ReportFailed(w)
          PROVE  "zip" \notin r2'
      BY <1>2, <3>2 DEF ReportFailed, NoneLeft
    <3> QED BY <3>1, <3>2, StatusStep
  <2>2. ASSUME NEW w \in Workers, pc'[w] \in {"forget", "fail"}
        PROVE  /\ pc'[w] = "forget" /\ out'[w] = "error" /\ "zip" \in r2' => Owes(w, "zip")'
               /\ pc'[w] = "fail" => "zip" \notin r2'
    <3>0. /\ pc[w] = "forget" /\ out[w] = "error" /\ "zip" \in r2 => Owes(w, "zip")
          /\ pc[w] = "fail" => "zip" \notin r2
      BY <1>2 DEF NoneLeft
    <3>1. CASE ~Consume(w)
      <4>1. pc'[w] = pc[w] /\ out'[w] = out[w] /\ todo'[w] = todo[w]
        BY <2>2, <3>1, WorkerStep DEF Pull, Die, Goto, TypeInv, TypeOK
      <4>2. "zip" \in r2' => "zip" \in r2
        BY <1>2, <2>2, <3>1, <4>1, Sole, BucketStep DEF Consume
      <4> QED BY <3>0, <4>1, <4>2, OwesStep
    <3>2. CASE Consume(w)
      <4>1. CASE todo'[w] = Everything /\ pc'[w] = "forget"
        BY <4>1, OwesStep DEF Objects
      <4>2. CASE pc'[w] = "forget" /\ out'[w] = "ok"
        BY <4>2
      <4>3. CASE DeleteNext(w)
        <5>1. pc'[w] = pc[w] /\ out'[w] = out[w] /\ pc[w] = "forget" /\ r2' = r2 \ {Head(todo[w])}
          BY <4>3 DEF DeleteNext, Remove
        <5> QED BY <3>0, <4>3, <5>1, OwesStep
      <4>4. CASE Ended(w)
        <5>0. pc[w] = "forget" /\ ~Owes(w, "zip") /\ r2' = r2
          BY <4>4, OwesStep DEF Ended
        <5>1. dl[w] # 0
          <6>1. dl[w] > left
            BY <1>2, <5>0 DEF InTime
          <6>2. left \in 0 .. Ttl /\ Ttl \in Nat
            BY TimeAssumption DEF TypeInv, TypeOK
          <6> QED BY <6>1, <6>2
        <5>2. pc'[w] = "fail" => out[w] = "error"
          BY <4>4, <5>0, <5>1 DEF Ended, Goto, TypeInv, TypeOK
        <5>3. pc'[w] # "forget"
          BY <4>4 DEF Ended, Goto, TypeInv, TypeOK
        <5> QED BY <3>0, <5>0, <5>2, <5>3
      <4>5. CASE ReportFailed(w) \/ Ack(w)
        BY <2>2, <4>5 DEF ReportFailed, Ack, Goto, TypeInv, TypeOK
      <4>6. CASE pc'[w] \in DOMAIN Then
        BY <2>0, <2>2, <4>6 DEF Stops
      <4> QED BY <3>2, <4>1, <4>2, <4>3, <4>4, <4>5, <4>6, RunStep
    <3> QED BY <3>1, <3>2
  <2> QED BY <2>1, <2>2
<1> QED BY <1>1, <1>2

LEMMA EndInvHolds ==
    ASSUME Ttl < Visibility, Ttl < Deadline
    PROVE  Spec => [](RunInv /\ InTime /\ NoneLeft)
<1>1. Init => InTime /\ NoneLeft
  BY DEF Init, LifeInit, InTime, NoneLeft, Live, Settled
<1>2. RunInv /\ InTime /\ NoneLeft /\ [Next]_vars => InTime' /\ NoneLeft'
  BY InTimeStep, NoneLeftStep
<1> QED BY <1>1, <1>2, RunInvHolds, PTL DEF Spec

\* The status says what is stored, provided that the window of a job ends before
\* its lease and its deadline do: ttl, HQ_TOTAL_TIMEOUT_SECS and the visibility of
\* a deployed HQ job.
THEOREM ResultMatches ==
    ASSUME Ttl < Visibility, Ttl < Deadline
    PROVE  Spec => []ResultMatchesStatus
<1>1. RunInv /\ NoneLeft => ResultMatchesStatus
  BY DEF RunInv, Results, Answers, NoneLeft, DoneHasResult, MissingIsOver, FailedHasNoResult,
         ResultMatchesStatus, Live, Settled
<1> QED BY <1>1, EndInvHolds, PTL

\* Under the same order of the timeouts no late report and no second delivery
\* changes the answer a client stopped polling at.
THEOREM TerminalIsFinal ==
    ASSUME Ttl < Visibility, Ttl < Deadline
    PROVE  Spec => TerminalStays
<1>1. ASSUME RunInv, InTime, [Next]_vars, IsTerminal(status), status' # status
      PROVE  status' = IF status = "expired" THEN "absent" ELSE "expired"
  <2>1. \A w \in Workers : status \in Settled => pc[w] # "done1"
    BY <1>1 DEF RunInv, Results, Live
  <2>2. \A w \in Workers : ReportFailed(w) => status # "done"
    BY <1>1 DEF InTime, ReportFailed, Live, Settled
  <2>3. born /\ TypeInv
    BY <1>1 DEF RunInv, TypeInv, Beginning, IsTerminal, Settled
  <2>4. /\ status \in {"done", "failed", "expired"}
        /\ {"done", "failed"} = Settled /\ Settled \subseteq Live /\ "expired" \notin Live
    BY <1>1 DEF IsTerminal, Live, Settled
  <2>5. \A w \in Workers : ~(ReportStage(w) /\ pc[w] = "done1" /\ status \in Live)
    BY <1>1, <2>1, <2>4 DEF IsTerminal
  <2>6. ~(status \in Live /\ status' = "failed" /\ \E w \in Workers : ReportFailed(w))
    BY <1>1, <2>2, <2>4
  <2> QED BY <1>1, <2>3, <2>4, <2>5, <2>6, StatusStep
<1>2. RunInv /\ InTime /\ [Next]_vars
        => [(IsTerminal(status) /\ status' # status)
              => (status' = IF status = "expired" THEN "absent" ELSE "expired")]_vars
  BY <1>1
<1> QED BY <1>2, EndInvHolds, PTL DEF Spec, TerminalStays
=============================================================================
