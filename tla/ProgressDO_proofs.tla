-------------------------- MODULE ProgressDO_proofs --------------------------
(***************************************************************************)
(* Proofs about the Durable Object, for any number of sockets, any set of  *)
(* ttls the contract may accept, and with crashes inside the handlers.     *)
(***************************************************************************)
EXTENDS ProgressDO, TLAPS

\* The record NoRecord is no stored record: it lacks the five keys.
LEMMA NoRecordIsNone == NoRecord \notin Record
BY DEF NoRecord, Record

\* load() yields a well-typed set of fields whatever is stored.
LEMMA LoadedType ==
    ASSUME TypeOK
    PROVE  Loaded \in Record
BY TtlAssumption, ProgressAssumption
   DEF TypeOK, Loaded, Fresh, Record, Stages, Statuses, Live, Settled

\* A report keeps job_id and ttl_secs, yields well-typed fields, and never
\* makes a job queued or expired that was not.
LEMMA AppliedFields ==
    ASSUME NEW f \in Record, NEW b \in Body
    PROVE  /\ Applied(f, b) \in Record
           /\ Applied(f, b).job = f.job
           /\ Applied(f, b).ttl = f.ttl
           /\ Applied(f, b).status \in {"processing", "done", "failed", f.status}
           /\ Applied(f, b).status = "processing" =>
                 f.status \in {"queued", "processing"}
<1> DEFINE stage == IF b.stage = Absent THEN f.stage ELSE b.stage
           status == IF b.status = "failed" THEN "failed"
                     ELSE IF b.status = "done" \/ stage = "done" THEN "done"
                     ELSE IF /\ b.stage # Absent \/ b.progress # Absent
                             /\ f.status = "queued"
                          THEN "processing"
                     ELSE f.status
<1>1. stage \in Stages
  BY DEF Body, Record
<1>2. status \in {"processing", "done", "failed", f.status}
  OBVIOUS
<1>3. status \in Statuses
  BY <1>2 DEF Record, Statuses, Live, Settled
<1>4. Applied(f, b) = [f EXCEPT
         !.progress = IF b.progress = Absent THEN @ ELSE b.progress,
         !.stage = stage, !.status = status]
  BY DEF Applied, Record
<1>5. status = "processing" => f.status \in {"queued", "processing"}
  OBVIOUS
<1>6. (IF b.progress = Absent THEN f.progress ELSE b.progress) \in Progress
  BY DEF Body, Record
<1> HIDE DEF stage, status
<1> QED BY <1>1, <1>2, <1>3, <1>4, <1>5, <1>6 DEF Record

-----------------------------------------------------------------------------
\* A socket that is still ticking has ticks to go: TypeOK alone is not
\* inductive, the interval must have been cleared at maxTicks.
TicksToGo == \A s \in Sockets : sock[s].state = "open" => sock[s].ticks < MaxTicks

LEMMA FreshType == Fresh \in Record
BY TtlAssumption, ProgressAssumption
   DEF Fresh, Record, Stages, Statuses, Live, Settled

\* Every step keeps the fields, the storage and the sockets well typed.
LEMMA TypeStep ==
    ASSUME TypeOK, TicksToGo, [Next]_vars
    PROVE  TypeOK' /\ TicksToGo'
<1>0. /\ Loaded \in Record
      /\ Fresh \in Record
  BY LoadedType, FreshType
<1>1. CASE \E ttl \in Ttls : InitSave(ttl)
  <2>1. PICK ttl \in Ttls : InitSave(ttl)
    BY <1>1
  <2>2. [Fresh EXCEPT !.job = "job", !.ttl = ttl] \in Record
    BY <1>0 DEF Record
  <2> QED BY <2>1, <2>2 DEF InitSave, TypeOK, TicksToGo
<1>2. CASE InitArm
  BY <1>2, TtlAssumption DEF InitArm, TypeOK, TicksToGo, Record
<1>3. CASE \E b \in Body : Report(b)
  <2>1. PICK b \in Body : Report(b)
    BY <1>3
  <2>2. Applied(Loaded, b) \in Record
    BY <1>0, AppliedFields
  <2> QED BY <2>1, <2>2, <1>0 DEF Report, TypeOK, TicksToGo
<1>4. CASE Status
  BY <1>4, <1>0 DEF Status, TypeOK, TicksToGo
<1>5. CASE \E s \in Sockets : Connect(s) \/ Tick(s) \/ Drop(s)
  <2>1. PICK s \in Sockets : Connect(s) \/ Tick(s) \/ Drop(s)
    BY <1>5
  <2>2. CASE Connect(s)
    <3>1. [state |-> "open", ticks |-> 0, job |-> Loaded.job, shown |-> Loaded.status]
            \in Socket
      BY <1>0, TicksAssumption DEF Socket, Record
    <3>2. /\ mem' = Loaded
          /\ UNCHANGED <<store, armed, left, gate, inited, acked, age, cut>>
          /\ \/ UNCHANGED sock
             \/ sock' = [sock EXCEPT ![s] = [state |-> "open", ticks |-> 0,
                           job |-> Loaded.job, shown |-> Loaded.status]]
      BY <2>2 DEF Connect, Snapshot
    <3> QED BY <3>1, <3>2, <1>0, TicksAssumption DEF TypeOK, TicksToGo
  <2>3. CASE Tick(s)
    <3> DEFINE n == sock[s].ticks + 1
               st == IF IsTerminal(Loaded.status) \/ n >= MaxTicks
                     THEN "closed" ELSE "open"
               snap == [state |-> st, ticks |-> n, job |-> Loaded.job,
                        shown |-> Loaded.status]
    <3>1. sock[s] \in Socket /\ sock[s].ticks < MaxTicks
      BY <2>3 DEF Tick, TypeOK, TicksToGo
    <3>2. n \in 0..MaxTicks /\ n \in Nat
      BY <3>1, TicksAssumption DEF Socket
    <3>3. st \in {"closed", "open"} /\ (st = "open" => n < MaxTicks)
      BY <3>2, TicksAssumption
    <3>4. /\ mem' = Loaded
          /\ UNCHANGED <<store, armed, left, gate, inited, acked, age, cut>>
          /\ sock' = [sock EXCEPT ![s] = snap]
      BY <2>3 DEF Tick, Snapshot
    <3> HIDE DEF n, st
    <3>5. snap \in Socket
      BY <3>2, <3>3, <1>0 DEF Socket, Record
    <3>6. snap.state = st /\ snap.ticks = n
      OBVIOUS
    <3> HIDE DEF snap
    <3> QED BY <3>3, <3>4, <3>5, <3>6, <1>0 DEF TypeOK, TicksToGo
  <2>4. CASE Drop(s)
    <3>1. /\ UNCHANGED <<mem, store, armed, left, gate, inited, acked, age, cut>>
          /\ sock' = [sock EXCEPT ![s].state = "closed"]
      BY <2>4 DEF Drop
    <3>2. [sock[s] EXCEPT !.state = "closed"] \in Socket
      BY DEF TypeOK, Socket
    <3> QED BY <3>1, <3>2 DEF TypeOK, TicksToGo, Socket
  <2> QED BY <2>1, <2>2, <2>3, <2>4
<1>6. CASE AlarmExpire
  <2>1. [Loaded EXCEPT !.status = "expired"] \in Record
    BY <1>0 DEF Record, Statuses
  <2> QED BY <1>6, <2>1 DEF AlarmExpire, TypeOK, TicksToGo
<1>7. CASE AlarmRearm
  BY <1>7, TtlAssumption DEF AlarmRearm, TypeOK, TicksToGo, Record
<1>8. CASE AlarmPurge
  BY <1>8, <1>0 DEF AlarmPurge, TypeOK, TicksToGo
<1>9. CASE Elapse
  BY <1>9 DEF Elapse, TypeOK, TicksToGo
<1>10. CASE Restart
  <2>1. sock' \in [Sockets -> Socket]
    BY <1>10 DEF Restart, TypeOK, Socket
  <2>2. TicksToGo'
    BY <1>10 DEF Restart, TypeOK, TicksToGo, Socket
  <2> QED BY <1>10, <1>0, <2>1, <2>2 DEF Restart, TypeOK
<1>11. CASE UNCHANGED vars
  BY <1>11 DEF vars, TypeOK, TicksToGo
<1> QED BY <1>1, <1>2, <1>3, <1>4, <1>5, <1>6, <1>7, <1>8, <1>9, <1>10, <1>11 DEF Next

\* Every field, stored key and timer keeps its type: a report only stores what
\* its parsers accepted, and no socket ticks past maxTicks.
THEOREM TypeCorrect == Spec => [](TypeOK /\ TicksToGo)
<1>1. Init => TypeOK /\ TicksToGo
  <2> SUFFICES ASSUME Init
               PROVE  TypeOK /\ TicksToGo
    OBVIOUS
  <2>1. NoSocket \in Socket
    BY TicksAssumption DEF NoSocket, Socket, Statuses, Live
  <2> QED BY <2>1, FreshType DEF Init, TypeOK, TicksToGo, NoSocket
<1> QED BY <1>1, TypeStep, PTL DEF Spec

-----------------------------------------------------------------------------
(***************************************************************************)
(* The inductive invariant.  AckedIsArmed is not inductive: that a report  *)
(* cannot forge a record of the job without an alarm rests on the field    *)
(* job_id being "unknown" whenever nothing is stored, which in turn rests  *)
(* on the reset at the end of alarm().  Clock is what makes both windows   *)
(* as long as the ttl.                                                     *)
(***************************************************************************)
Unborn      == ~inited => store = NoRecord /\ ~armed /\ ~acked
Between     == /\ gate = "init" => /\ inited /\ ~acked /\ ~armed
                                   /\ store = mem /\ store.job = "job"
               /\ gate = "alarm" => /\ inited /\ armed /\ left = 0
                                    /\ store = mem /\ store.status = "expired"
Forgotten   == store = NoRecord => mem.job = "unknown"
ArmedStored == armed => store # NoRecord /\ store.job = "job"
Clock       == armed /\ (store.status = "expired" => gate # "alarm" /\ ~cut)
                  => age + left >= store.ttl

DOInv == /\ TypeOK /\ TicksToGo
         /\ Unborn /\ Between /\ Forgotten /\ ArmedStored /\ Clock
         /\ acked => inited
         /\ AckedIsArmed

LEMMA DOInvInit == Init => DOInv
<1> SUFFICES ASSUME Init PROVE DOInv
  OBVIOUS
<1>1. NoSocket \in Socket
  BY TicksAssumption DEF NoSocket, Socket, Statuses, Live
<1> QED BY <1>1, FreshType
       DEF Init, DOInv, TypeOK, TicksToGo, NoSocket, Unborn, Between, Forgotten,
           ArmedStored, Clock, AckedIsArmed, Fresh

LEMMA DOInvStep ==
    ASSUME DOInv, [Next]_vars
    PROVE  DOInv'
<1> USE DEF DOInv
<1>0. /\ TypeOK' /\ TicksToGo'
      /\ Loaded \in Record /\ Fresh \in Record
  BY TypeStep, LoadedType, FreshType
<1>a. /\ store # NoRecord => store \in Record /\ Loaded = store
      /\ store = NoRecord => Loaded.job = "unknown"
  BY FreshType DEF TypeOK, Loaded, Forgotten, Fresh
<1> DEFINE Core == Unborn /\ Between /\ Forgotten /\ ArmedStored /\ Clock
                   /\ (acked => inited) /\ AckedIsArmed
<1> SUFFICES Core'
  BY <1>0
<1>1. CASE \E ttl \in Ttls : InitSave(ttl)
  <2>1. PICK ttl \in Ttls : InitSave(ttl)
    BY <1>1
  <2>2. [Fresh EXCEPT !.job = "job", !.ttl = ttl].job = "job"
    BY DEF Fresh
  <2>3. store' # NoRecord
    BY <2>1, <1>0, NoRecordIsNone DEF InitSave, TypeOK
  <2> QED BY <2>1, <2>2, <2>3
          DEF InitSave, Unborn, Between, Forgotten, ArmedStored, Clock, AckedIsArmed
<1>2. CASE InitArm
  <2>1. mem \in Record /\ store = mem /\ mem.ttl \in Nat /\ age \in Nat
    BY <1>2, TtlAssumption DEF InitArm, TypeOK, Between, Record
  <2>2. store # NoRecord
    BY <2>1, NoRecordIsNone
  <2> QED BY <1>2, <2>1, <2>2
          DEF InitArm, Unborn, Between, Forgotten, ArmedStored, Clock, AckedIsArmed
<1>3. CASE \E b \in Body : Report(b)
  <2>1. PICK b \in Body : Report(b)
    BY <1>3
  <2>2. /\ Applied(Loaded, b) \in Record
        /\ Applied(Loaded, b).job = Loaded.job
        /\ Applied(Loaded, b).ttl = Loaded.ttl
        /\ Applied(Loaded, b).status \in {"processing", "done", "failed", Loaded.status}
    BY <1>0, AppliedFields
  <2>3. CASE Loaded.status = "expired"
    <3>1. mem' = Loaded /\ UNCHANGED <<store, armed, left, gate, inited, acked, age, cut>>
      BY <2>1, <2>3 DEF Report
    <3> QED BY <3>1, <2>1, <1>a
            DEF Report, Unborn, Between, Forgotten, ArmedStored, Clock, AckedIsArmed
  <2>4. CASE Loaded.status # "expired"
    <3>1. /\ mem' = Applied(Loaded, b) /\ store' = Applied(Loaded, b)
          /\ gate = "open" /\ acked
          /\ UNCHANGED <<armed, left, gate, inited, acked, age, cut>>
      BY <2>1, <2>4 DEF Report
    <3>2. store' # NoRecord
      BY <3>1, <2>2, NoRecordIsNone
    <3>3. armed => store # NoRecord /\ Loaded = store /\ store.job = "job"
      BY <1>a DEF ArmedStored
    <3>4. ArmedStored' /\ Clock'
      BY <3>1, <3>2, <3>3, <2>2, <2>4 DEF ArmedStored, Clock
    <3>5. AckedIsArmed'
      BY <3>1, <2>2, <1>a DEF AckedIsArmed
    <3>6. Unborn' /\ Between' /\ Forgotten' /\ (acked => inited)'
      BY <3>1, <3>2 DEF Unborn, Between, Forgotten
    <3> QED BY <3>4, <3>5, <3>6
  <2> QED BY <2>3, <2>4
<1>4. ASSUME /\ mem' = Loaded
             /\ gate = "open"
             /\ UNCHANGED <<store, armed, left, gate, inited, acked, age, cut>>
      PROVE  Core'
  BY <1>4, <1>a DEF Unborn, Between, Forgotten, ArmedStored, Clock, AckedIsArmed
<1>5. CASE Status
  BY <1>5, <1>4 DEF Status
<1>6. CASE \E s \in Sockets : Connect(s) \/ Tick(s) \/ Drop(s)
  <2>1. PICK s \in Sockets : Connect(s) \/ Tick(s) \/ Drop(s)
    BY <1>6
  <2>2. CASE Connect(s)
    BY <2>2, <1>4 DEF Connect
  <2>3. CASE Tick(s)
    BY <2>3, <1>4 DEF Tick
  <2>4. CASE Drop(s)
    BY <2>4 DEF Drop, Unborn, Between, Forgotten, ArmedStored, Clock, AckedIsArmed
  <2> QED BY <2>1, <2>2, <2>3, <2>4
<1>7. CASE AlarmExpire
  <2>1. /\ store # NoRecord /\ Loaded = store /\ store \in Record /\ store.job = "job"
        /\ inited
    BY <1>7, <1>a DEF AlarmExpire, ArmedStored, Unborn
  <2>2. /\ [Loaded EXCEPT !.status = "expired"].status = "expired"
        /\ [Loaded EXCEPT !.status = "expired"].job = "job"
    BY <2>1 DEF Record
  <2>3. store' # NoRecord
    BY <2>1, <1>7, <1>0, NoRecordIsNone DEF AlarmExpire, TypeOK
  <2> QED BY <1>7, <2>1, <2>2, <2>3
          DEF AlarmExpire, Unborn, Between, Forgotten, ArmedStored, Clock, AckedIsArmed
<1>8. CASE AlarmRearm
  <2>1. store = mem /\ mem.ttl \in Nat /\ age \in Nat
    BY <1>8, TtlAssumption DEF AlarmRearm, TypeOK, Between, Record
  <2> QED BY <1>8, <2>1 DEF AlarmRearm, Unborn, Between, Forgotten, ArmedStored, Clock,
                              AckedIsArmed
<1>9. CASE AlarmPurge
  BY <1>9 DEF AlarmPurge, Unborn, Between, Forgotten, ArmedStored, Clock, AckedIsArmed,
              Fresh
<1>10. CASE Elapse
  <2>1. UNCHANGED <<mem, store, armed, gate, inited, acked, cut>>
    BY <1>10 DEF Elapse
  <2>2. Clock'
    <3> SUFFICES ASSUME armed, store.status = "expired" => gate # "alarm" /\ ~cut
                 PROVE  age' + left' >= store.ttl
      BY <2>1 DEF Clock
    <3>1. store \in Record /\ store.ttl \in Nat /\ age \in Nat /\ left \in Nat
      BY <1>a, TtlAssumption DEF TypeOK, ArmedStored, Record
    <3>2. age + left >= store.ttl
      BY DEF Clock
    <3> QED BY <1>10, <3>1, <3>2 DEF Elapse, ArmedStored
  <2>3. (gate = "alarm" => left = 0)'
    BY <1>10 DEF Elapse, Between
  <2> QED BY <2>1, <2>2, <2>3
          DEF Unborn, Between, Forgotten, ArmedStored, AckedIsArmed
<1>11. CASE Restart
  BY <1>11 DEF Restart, Unborn, Between, Forgotten, ArmedStored, Clock, AckedIsArmed,
               Fresh
<1>12. CASE UNCHANGED vars
  BY <1>12 DEF vars, Unborn, Between, Forgotten, ArmedStored, Clock, AckedIsArmed
<1> QED BY <1>1, <1>2, <1>3, <1>5, <1>6, <1>7, <1>8, <1>9, <1>10, <1>11, <1>12 DEF Next

LEMMA DOInvHolds == Spec => []DOInv
BY DOInvInit, DOInvStep, PTL DEF Spec

\* An accepted job is never stored without the alarm that takes it away, for
\* any ttl, any reports and any crash between two writes of a handler.
THEOREM AckedJobIsArmed == Spec => []AckedIsArmed
<1>1. DOInv => AckedIsArmed
  BY DEF DOInv
<1> QED BY <1>1, DOInvHolds, PTL

\* No job turns expired before its ttl has elapsed.
THEOREM OpenWindow == Spec => OpenWindowKept
<1>1. ASSUME DOInv, [Next]_vars, Visible \in Live, Visible' = "expired"
      PROVE  age >= store.ttl
  <2>0. /\ store = NoRecord => Loaded.job = "unknown"
        /\ store # NoRecord => Loaded = store
        /\ Live \cap {"expired", "absent"} = {}
    BY <1>1 DEF DOInv, Loaded, Forgotten, Fresh, Live, Settled
  <2>1. /\ store # NoRecord /\ Loaded = store /\ store.job = "job" /\ store \in Record
        /\ store.status # "expired"
    BY <1>1, <2>0 DEF Visible, DOInv, TypeOK, Record
  <2>2. CASE AlarmExpire
    BY <2>1, <2>2, <1>1, TtlAssumption DEF AlarmExpire, DOInv, Clock, TypeOK, Record
  <2>3. CASE ~AlarmExpire
    <3>1. ASSUME UNCHANGED store PROVE FALSE
      BY <3>1, <2>1, <1>1 DEF Visible, Loaded
    <3>2. ASSUME NEW ttl \in Ttls, InitSave(ttl) PROVE FALSE
      BY <3>2, <2>1, <1>1 DEF InitSave, DOInv, Unborn
    <3>3. ASSUME NEW b \in Body, Report(b) PROVE FALSE
      <4>1. /\ Applied(Loaded, b) \in Record
            /\ Applied(Loaded, b).status \in {"processing", "done", "failed", Loaded.status}
        BY <2>1, AppliedFields
      <4>2. store' = Applied(Loaded, b)
        BY <3>3, <2>1 DEF Report
      <4>3. Loaded' = store' /\ Loaded'.status # "expired"
        BY <4>1, <4>2, <2>1, NoRecordIsNone DEF Loaded
      <4> QED BY <4>3, <1>1 DEF Visible
    <3>4. ASSUME AlarmPurge PROVE FALSE
      BY <3>4, <2>1 DEF AlarmPurge
    <3>5. \/ UNCHANGED store
          \/ \E ttl \in Ttls : InitSave(ttl)
          \/ \E b \in Body : Report(b)
          \/ AlarmPurge
      BY <1>1, <2>3 DEF Next, vars, InitArm, Status, Connect, Tick, Drop, AlarmRearm,
                        Elapse, Restart
    <3> QED BY <3>1, <3>2, <3>3, <3>4, <3>5
  <2> QED BY <2>2, <2>3
<1>2. DOInv /\ [Next]_vars
        => [(Visible \in Live /\ Visible' = "expired") => (age >= store.ttl)]_vars
  BY <1>1
<1> QED BY <1>2, DOInvHolds, PTL DEF Spec, OpenWindowKept

\* No expired job is purged before a second ttl has elapsed, unless the isolate
\* died inside alarm(): only then is the second alarm early.
THEOREM ExpiredWindow == Spec => ExpiredWindowKept
<1>1. ASSUME DOInv, [Next]_vars, Visible = "expired", Visible' = "absent"
      PROVE  cut \/ age >= store.ttl
  <2>1. /\ store # NoRecord /\ Loaded = store /\ store \in Record
        /\ store.job = "job" /\ store.status = "expired"
    BY <1>1 DEF Visible, DOInv, TypeOK, Loaded, Forgotten, Fresh, Record
  <2>2. CASE AlarmPurge
    BY <2>1, <2>2, TtlAssumption, <1>1 DEF AlarmPurge, DOInv, Clock, TypeOK, Record
  <2>3. CASE ~AlarmPurge
    <3>1. ASSUME UNCHANGED store PROVE FALSE
      BY <3>1, <2>1, <1>1 DEF Visible, Loaded
    <3>2. ASSUME NEW ttl \in Ttls, InitSave(ttl) PROVE FALSE
      BY <3>2, <2>1, <1>1 DEF InitSave, DOInv, Unborn
    <3>3. ~AlarmExpire
      BY <2>1 DEF AlarmExpire
    <3>4. \A b \in Body : Report(b) => UNCHANGED store
      BY <2>1 DEF Report
    <3>5. UNCHANGED store \/ \E ttl \in Ttls : InitSave(ttl)
      BY <1>1, <2>3, <3>3, <3>4 DEF Next, vars, InitArm, Status, Connect, Tick, Drop,
                                    AlarmRearm, Elapse, Restart
    <3> QED BY <3>1, <3>2, <3>5
  <2> QED BY <2>2, <2>3
<1>2. DOInv /\ [Next]_vars
        => [(Visible = "expired" /\ Visible' = "absent")
              => (cut \/ age >= store.ttl)]_vars
  BY <1>1
<1> QED BY <1>2, DOInvHolds, PTL DEF Spec, ExpiredWindowKept

\* Neither window of a job is cut short, for every ttl.
THEOREM WindowsHold == Spec => WindowsKept
BY OpenWindow, ExpiredWindow DEF WindowsKept

-----------------------------------------------------------------------------
(***************************************************************************)
(* Refinement.  Every step of the object is a step of JobLifecycle on the  *)
(* visible status, or leaves it alone: in particular a report that is      *)
(* stored after the purge changes nothing that GET can see.                *)
(***************************************************************************)
LEMMA VisibleByStore ==
    ASSUME DOInv
    PROVE  /\ store = NoRecord => Visible = "absent"
           /\ store # NoRecord =>
                 Visible = IF store.job = "unknown" THEN "absent" ELSE store.status
BY DEF DOInv, Forgotten, Visible, Loaded, Fresh

LEMMA RefinementStep ==
    ASSUME DOInv, [Next]_vars
    PROVE  [Life!LifeNext]_(Life!lifeVars)
<1>0. DOInv'
  BY DOInvStep
<1>a. /\ store = NoRecord => Visible = "absent"
      /\ store # NoRecord =>
            Visible = IF store.job = "unknown" THEN "absent" ELSE store.status
  BY VisibleByStore
<1>b. /\ store' = NoRecord => Visible' = "absent"
      /\ store' # NoRecord =>
            Visible' = IF store'.job = "unknown" THEN "absent" ELSE store'.status
  BY <1>0 DEF DOInv, Forgotten, Visible, Loaded, Fresh
<1>c. ASSUME UNCHANGED <<store, inited>>
      PROVE  [Life!LifeNext]_(Life!lifeVars)
  BY <1>a, <1>b, <1>c DEF Life!lifeVars
<1> USE DEF DOInv
<1>1. CASE \E ttl \in Ttls : InitSave(ttl)
  <2>1. PICK ttl \in Ttls : InitSave(ttl)
    BY <1>1
  <2>2. store' # NoRecord /\ store'.job = "job" /\ store'.status = "queued"
    BY <2>1, <1>0, FreshType, NoRecordIsNone DEF InitSave, TypeOK, Fresh
  <2>3. Life!Create
    BY <2>1, <2>2, <1>b DEF InitSave, Life!Create
  <2> QED BY <2>3 DEF Life!LifeNext
<1>2. CASE \E b \in Body : Report(b)
  <2>1. PICK b \in Body : Report(b)
    BY <1>2
  <2>2. CASE Loaded.status = "expired"
    BY <2>1, <2>2, <1>c DEF Report
  <2>3. CASE Loaded.status # "expired"
    <3>1. /\ store' = Applied(Loaded, b)
          /\ UNCHANGED inited
      BY <2>1, <2>3 DEF Report
    <3>2. Loaded \in Record
      BY LoadedType
    <3>3. /\ store' \in Record /\ store'.job = Loaded.job
          /\ store'.status \in {"processing", "done", "failed", Loaded.status}
          /\ store'.status = "processing" => Loaded.status \in {"queued", "processing"}
      BY <3>1, <3>2, AppliedFields
    <3>4. Visible' = IF Loaded.job = "unknown" THEN "absent" ELSE store'.status
      BY <3>3, <1>b, NoRecordIsNone
    <3>5. Visible = IF Loaded.job = "unknown" THEN "absent" ELSE Loaded.status
      BY DEF Visible
    <3>6. CASE Visible' = Visible
      BY <3>6, <3>1 DEF Life!lifeVars
    <3>7. CASE Visible' # Visible
      <4>1. /\ Visible = Loaded.status
            /\ Visible' = store'.status
            /\ Visible \in Live
        BY <3>2, <3>4, <3>5, <3>7, <2>3 DEF Record, Statuses
      <4>2. CASE store'.status = "processing"
        <5>1. Visible = "queued"
          BY <4>1, <4>2, <3>3, <3>7
        <5>2. Life!Begin
          BY <5>1, <4>1, <4>2, <3>1 DEF Life!Begin, Life!AfterWork
        <5> QED BY <5>2 DEF Life!LifeNext
      <4>3. CASE store'.status \in {"done", "failed"}
        <5>1. Life!Settle(store'.status)
          BY <4>1, <4>3, <3>1
             DEF Life!Settle, Life!AfterSettle, Life!Live, Life!Settled, Live, Settled
        <5> QED BY <5>1, <4>3 DEF Life!LifeNext, Life!Settled
      <4> QED BY <4>1, <4>2, <4>3, <3>3, <3>7
    <3> QED BY <3>6, <3>7
  <2> QED BY <2>2, <2>3
<1>3. CASE AlarmExpire
  <2>1. /\ store # NoRecord /\ Loaded = store /\ store \in Record /\ store.job = "job"
        /\ UNCHANGED inited
    BY <1>3 DEF AlarmExpire, ArmedStored, Loaded, TypeOK
  <2>2. store' # NoRecord /\ store'.job = "job" /\ store'.status = "expired"
    BY <1>3, <1>0, <2>1, NoRecordIsNone DEF AlarmExpire, TypeOK, Record
  <2>3. Visible \in Live /\ Visible' = "expired"
    BY <1>3, <2>1, <2>2, <1>a, <1>b DEF AlarmExpire, Record, Statuses
  <2>4. Life!Expire
    BY <2>1, <2>3 DEF Life!Expire, Life!Live, Life!Settled, Live, Settled
  <2> QED BY <2>4 DEF Life!LifeNext
<1>4. CASE AlarmPurge
  <2>1. /\ store # NoRecord /\ Loaded = store /\ store.job = "job" /\ UNCHANGED inited
        /\ store.status = "expired" /\ store' = NoRecord
    BY <1>4 DEF AlarmPurge, ArmedStored, Loaded
  <2>2. Life!Forget
    BY <2>1, <1>a, <1>b DEF Life!Forget
  <2> QED BY <2>2 DEF Life!LifeNext
<1>5. CASE InitArm \/ Status \/ AlarmRearm \/ Elapse \/ Restart \/ UNCHANGED vars
  BY <1>5, <1>c DEF InitArm, Status, AlarmRearm, Elapse, Restart, vars
<1>6. CASE \E s \in Sockets : Connect(s) \/ Tick(s) \/ Drop(s)
  BY <1>6, <1>c DEF Connect, Tick, Drop
<1> QED BY <1>1, <1>2, <1>3, <1>4, <1>5, <1>6 DEF Next

\* The Durable Object implements the promised life of a job, crashes included.
THEOREM Refinement == Spec => ImplementsLifecycle
<1>1. Init => Life!LifeInit
  BY DEF Init, Life!LifeInit, Visible, Loaded, Fresh
<1>2. DOInv /\ [Next]_vars => [Life!LifeNext]_(Life!lifeVars)
  BY RefinementStep
<1> QED BY <1>1, <1>2, DOInvHolds, PTL DEF Spec, ImplementsLifecycle, Life!LifeSpec

-----------------------------------------------------------------------------
(***************************************************************************)
(* What a socket was told.  That a job is shown as expired can only be     *)
(* taken back through the storage; Gone says that the storage has nothing  *)
(* left to take it back with, Told that every client which saw `expired`   *)
(* stands before such a storage, ticking or not.                           *)
(***************************************************************************)
Gone == inited /\ (store # NoRecord => store.job # "job" \/ store.status = "expired")
Told == \A s \in Sockets : sock[s].job = "job" /\ sock[s].shown = "expired" => Gone

\* What has expired stays expired, or is forgotten: a late report writes under
\* a job_id that is "unknown", and the gateway calls /init once.
LEMMA GoneStays ==
    ASSUME DOInv, Gone, [Next]_vars
    PROVE  Gone'
<1>1. CASE \E ttl \in Ttls : InitSave(ttl)
  BY <1>1 DEF InitSave, Gone
<1>2. CASE \E b \in Body : Report(b)
  <2>1. PICK b \in Body : Report(b)
    BY <1>2
  <2>2. CASE Loaded.status = "expired"
    BY <2>1, <2>2 DEF Report, Gone
  <2>3. CASE Loaded.status # "expired"
    <3>1. store' = Applied(Loaded, b) /\ inited' = inited
      BY <2>1, <2>3 DEF Report
    <3>2. Applied(Loaded, b).job = Loaded.job
      BY LoadedType, AppliedFields DEF DOInv
    <3>3. Loaded.job # "job"
      BY <2>3, FreshType DEF DOInv, Gone, Loaded, Forgotten, Fresh
    <3> QED BY <3>1, <3>2, <3>3 DEF Gone
  <2> QED BY <2>2, <2>3
<1>3. CASE AlarmExpire
  <2>1. Loaded \in Record
    BY LoadedType DEF DOInv
  <2> QED BY <1>3, <2>1 DEF AlarmExpire, Gone, Record
<1>4. CASE AlarmPurge
  BY <1>4 DEF AlarmPurge, Gone
<1>5. CASE \E s \in Sockets : Connect(s) \/ Tick(s) \/ Drop(s)
  BY <1>5 DEF Connect, Tick, Drop, Gone
<1>6. CASE InitArm \/ Status \/ AlarmRearm \/ Elapse \/ Restart \/ UNCHANGED vars
  BY <1>6 DEF InitArm, Status, AlarmRearm, Elapse, Restart, vars, Gone
<1> QED BY <1>1, <1>2, <1>3, <1>4, <1>5, <1>6 DEF Next

\* A step leaves what a socket was told, or tells it what load() reads.
LEMMA SocketsAreTold ==
    ASSUME DOInv, [Next]_vars, NEW s \in Sockets
    PROVE  \/ sock'[s].job = sock[s].job /\ sock'[s].shown = sock[s].shown
           \/ /\ sock'[s].job = Loaded.job /\ sock'[s].shown = Loaded.status
              /\ store' = store /\ inited' = inited
<1>0. sock \in [Sockets -> Socket]
  BY DEF DOInv, TypeOK
<1>1. CASE \E c \in Sockets : Connect(c) \/ Tick(c) \/ Drop(c)
  <2>1. PICK c \in Sockets : Connect(c) \/ Tick(c) \/ Drop(c)
    BY <1>1
  <2>2. CASE Connect(c)
    BY <2>2, <1>0 DEF Connect, Snapshot
  <2>3. CASE Tick(c)
    BY <2>3, <1>0 DEF Tick, Snapshot
  <2>4. CASE Drop(c)
    BY <2>4, <1>0 DEF Drop, Socket
  <2> QED BY <2>1, <2>2, <2>3, <2>4
<1>2. CASE Restart
  BY <1>2, <1>0 DEF Restart, Socket
<1>3. CASE ~Restart /\ ~\E c \in Sockets : Connect(c) \/ Tick(c) \/ Drop(c)
  <2>1. UNCHANGED sock
    BY <1>3 DEF Next, vars, InitSave, InitArm, Report, Status, AlarmExpire,
                AlarmRearm, AlarmPurge, Elapse
  <2> QED BY <2>1
<1> QED BY <1>1, <1>2, <1>3

LEMMA ToldInit == Init => Told
BY DEF Init, NoSocket, Told

LEMMA ToldStep ==
    ASSUME DOInv, Told, [Next]_vars
    PROVE  Told'
<1> SUFFICES ASSUME NEW s \in Sockets, sock'[s].job = "job", sock'[s].shown = "expired"
             PROVE  Gone'
  BY DEF Told
<1>1. CASE sock'[s].job = sock[s].job /\ sock'[s].shown = sock[s].shown
  BY <1>1, GoneStays DEF Told
<1>2. CASE /\ sock'[s].job = Loaded.job /\ sock'[s].shown = Loaded.status
           /\ store' = store /\ inited' = inited
  BY <1>2 DEF DOInv, Loaded, Forgotten, Unborn, Gone, Fresh
<1> QED BY <1>1, <1>2, SocketsAreTold

\* No socket tells a client of an expired job anything else, with any number
\* of sockets, late reports, purges and restarts of the isolate.
THEOREM SocketStaysExpired == Spec => SocketNeverRevives
<1>1. ASSUME DOInv, Told, [Next]_vars,
             NEW s \in Sockets,
             sock[s].job = "job", sock[s].shown = "expired", sock'[s].job = "job"
      PROVE  sock'[s].shown = "expired"
  <2>1. Gone
    BY <1>1 DEF Told
  <2>2. CASE sock'[s].shown = sock[s].shown
    BY <2>2, <1>1
  <2>3. CASE sock'[s].job = Loaded.job /\ sock'[s].shown = Loaded.status
    BY <2>1, <2>3, <1>1 DEF DOInv, Loaded, Forgotten, Gone, Fresh
  <2> QED BY <2>2, <2>3, <1>1, SocketsAreTold
<1>2. DOInv /\ Told /\ [Next]_vars =>
        [\A s \in Sockets : /\ sock[s].job = "job"
                            /\ sock[s].shown = "expired"
                            /\ sock'[s].job = "job"
                            => sock'[s].shown = "expired"]_vars
  BY <1>1
<1>3. Spec => []Told
  BY ToldInit, ToldStep, DOInvHolds, PTL DEF Spec
<1> QED BY <1>2, <1>3, DOInvHolds, PTL DEF Spec, SocketNeverRevives
=============================================================================
