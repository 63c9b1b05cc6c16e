----------------------------- MODULE ProgressDO -----------------------------
(***************************************************************************)
(* The Durable Object of one job (edge/progress-do.ts): its five stored    *)
(* keys, the fields it keeps in memory beside them, its alarm, and the     *)
(* WebSockets that tick on it.                                             *)
(*                                                                         *)
(* The runtime runs one event at a time: while a handler awaits the        *)
(* storage no other event is delivered (input gate), so a handler is one   *)
(* step, except where it awaits two storage operations whose effects the   *)
(* runtime does not make atomic (save, then setAlarm).  There the step is  *)
(* split, `gate` says which handler holds the object, and a crash may      *)
(* fall in between.                                                        *)
(***************************************************************************)
EXTENDS Naturals

CONSTANTS
    Sockets,      \* clients that may open /v1/jobs/{id}/events
    MaxTicks,     \* maxTicks: 120 in the code
    Ttls,         \* what parseTtlSecs accepts (1..3600 in the code)
    DefaultTtl,   \* RESULT_TTL_SECONDS
    Progress,     \* the milestones a report may carry
    Absent,       \* a key the body of a report does not carry
    MidCrash      \* may the isolate die between save and setAlarm?

ASSUME TtlAssumption ==
    /\ Ttls \subseteq Nat \ {0}
    /\ DefaultTtl \in Ttls
ASSUME TicksAssumption == MaxTicks \in Nat \ {0}
ASSUME ProgressAssumption == 0 \in Progress /\ Absent \notin Progress
ASSUME MidCrashAssumption == MidCrash \in BOOLEAN

VARIABLES
    mem,      \* the fields of the object, lost with the isolate
    store,    \* its storage: one record, or NoRecord
    armed,    \* is an alarm pending (persistent, as the storage is)
    left,     \* time until the pending alarm is due
    gate,     \* "open", or the handler that stands between two writes
    inited,   \* has the gateway called /init (once, under a fresh UUID)
    acked,    \* did that /init answer 200
    age,      \* time since the current window began, capped at its ttl
    cut,      \* did the isolate die inside alarm(), before the second setAlarm
    sock      \* the sockets

vars == <<mem, store, armed, left, gate, inited, acked, age, cut, sock>>

Stages   == {"queued", "fit", "texture", "assemble", "done"}
Settled  == {"done", "failed"}
Live     == {"queued", "processing"} \cup Settled
Statuses == Live \cup {"expired"}
IsTerminal(s) == s \in Settled \cup {"expired"}

Record == [job: {"job", "unknown"}, progress: Progress, stage: Stages,
           status: Statuses, ttl: Ttls]
NoRecord == [job |-> "none"]

\* The body of POST /progress, once its three parsers have accepted it.
Body == [progress: Progress \cup {Absent},
         stage:    Stages \cup {Absent},
         status:   {"processing", "done", "failed", Absent}]

Socket == [state: {"none", "open", "closed"}, ticks: 0..MaxTicks,
           job: {"job", "unknown"}, shown: Statuses]

TypeOK ==
    /\ mem \in Record
    /\ store \in Record \cup {NoRecord}
    /\ armed \in BOOLEAN
    /\ left \in Nat
    /\ gate \in {"open", "init", "alarm"}
    /\ inited \in BOOLEAN
    /\ acked \in BOOLEAN
    /\ age \in Nat
    /\ cut \in BOOLEAN
    /\ sock \in [Sockets -> Socket]

-----------------------------------------------------------------------------
Fresh == [job |-> "unknown", progress |-> 0, stage |-> "queued",
          status |-> "queued", ttl |-> DefaultTtl]

NoSocket == [state |-> "none", ticks |-> 0, job |-> "unknown", shown |-> "queued"]

Init ==
    /\ mem = Fresh
    /\ store = NoRecord
    /\ armed = FALSE
    /\ left = 0
    /\ gate = "open"
    /\ inited = FALSE
    /\ acked = FALSE
    /\ age = 0
    /\ cut = FALSE
    /\ sock = [s \in Sockets |-> NoSocket]

(***************************************************************************)
(* load(): the stored record wins; what is missing takes its default,      *)
(* except job_id, which keeps the value the object has in memory.          *)
(***************************************************************************)
Loaded == IF store = NoRecord THEN [Fresh EXCEPT !.job = mem.job] ELSE store

\* What GET /status answers: its 404 is the job_id "unknown".
Visible == IF Loaded.job = "unknown" THEN "absent" ELSE Loaded.status

\* MUTANT of Applied: stores the key of the body without looking whether it is there.
Applied_Unchecked(f, b) == [f EXCEPT !.progress = b.progress]

\* POST /progress on the loaded fields f.
Applied(f, b) ==
    LET stage == IF b.stage = Absent THEN f.stage ELSE b.stage
    IN [f EXCEPT
          !.progress = IF b.progress = Absent THEN @ ELSE b.progress,
          !.stage    = stage,
          !.status   =
             IF b.status = "failed" THEN "failed"
             ELSE IF b.status = "done" \/ stage = "done" THEN "done"
             ELSE IF /\ b.stage # Absent \/ b.progress # Absent
                     /\ @ = "queued"
                  THEN "processing"
             ELSE @]

-----------------------------------------------------------------------------
(* /init, up to its save; the second half arms the alarm and answers 200.  *)
InitSave(ttl) ==
    /\ gate = "open"
    /\ ~inited
    /\ mem' = [Fresh EXCEPT !.job = "job", !.ttl = ttl]
    /\ store' = mem'
    /\ gate' = "init"
    /\ inited' = TRUE
    /\ age' = 0
    /\ UNCHANGED <<armed, left, acked, cut, sock>>

InitArm ==
    /\ gate = "init"
    /\ armed' = TRUE
    /\ left' = mem.ttl
    /\ gate' = "open"
    /\ acked' = TRUE
    /\ UNCHANGED <<mem, store, inited, age, cut, sock>>

\* MUTANT of Report: without the guard of lines 144-146.
Report_NoGuard(b) ==
    /\ gate = "open"
    /\ acked
    /\ mem' = Applied(Loaded, b)
    /\ store' = mem'
    /\ UNCHANGED <<armed, left, gate, inited, acked, age, cut, sock>>

\* POST /progress.  The pipeline only knows the job once /init answered 200.
Report(b) ==
    /\ gate = "open"
    /\ acked
    /\ IF Loaded.status = "expired"
       THEN /\ mem' = Loaded                       \* 404
            /\ UNCHANGED store
       ELSE /\ mem' = Applied(Loaded, b)
            /\ store' = mem'
    /\ UNCHANGED <<armed, left, gate, inited, acked, age, cut, sock>>

\* GET /status: refreshes the fields and answers Visible.
Status ==
    /\ gate = "open"
    /\ mem' = Loaded
    /\ UNCHANGED <<store, armed, left, gate, inited, acked, age, cut, sock>>

-----------------------------------------------------------------------------
(* The WebSocket: a snapshot on accept, then one per tick.                 *)
Snapshot(s, n, state) ==
    sock' = [sock EXCEPT ![s] = [state |-> state, ticks |-> n,
                                 job |-> mem'.job, shown |-> mem'.status]]

Connect(s) ==
    /\ gate = "open"
    /\ sock[s].state = "none"
    /\ mem' = Loaded
    /\ IF mem'.job = "unknown" THEN UNCHANGED sock           \* 404
       ELSE Snapshot(s, 0, "open")
    /\ UNCHANGED <<store, armed, left, gate, inited, acked, age, cut>>

\* MUTANT of Tick: without `ticks >= maxTicks` (the counter saturates).
Tick_NoLimit(s) ==
    /\ gate = "open"
    /\ sock[s].state = "open"
    /\ mem' = Loaded
    /\ Snapshot(s, IF sock[s].ticks < MaxTicks THEN sock[s].ticks + 1 ELSE MaxTicks,
                IF IsTerminal(mem'.status) THEN "closed" ELSE "open")
    /\ UNCHANGED <<store, armed, left, gate, inited, acked, age, cut>>

Tick(s) ==
    /\ gate = "open"
    /\ sock[s].state = "open"
    /\ mem' = Loaded
    /\ LET n == sock[s].ticks + 1
           over == IsTerminal(mem'.status) \/ n >= MaxTicks
       IN Snapshot(s, n, IF over THEN "closed" ELSE "open")
    /\ UNCHANGED <<store, armed, left, gate, inited, acked, age, cut>>

\* The client left (send throws) or the load failed: the timer is cleared.
Drop(s) ==
    /\ gate = "open"
    /\ sock[s].state = "open"
    /\ sock' = [sock EXCEPT ![s].state = "closed"]
    /\ UNCHANGED <<mem, store, armed, left, gate, inited, acked, age, cut>>

-----------------------------------------------------------------------------
(***************************************************************************)
(* alarm().  The runtime keeps an alarm until its handler returns, and     *)
(* runs the handler again when it did not: `armed` stays TRUE, due, until  *)
(* the second half has moved it.                                           *)
(***************************************************************************)
AlarmExpire ==
    /\ gate = "open"
    /\ armed /\ left = 0
    /\ Loaded.status # "expired"
    /\ mem' = [Loaded EXCEPT !.status = "expired"]
    /\ store' = mem'
    /\ gate' = "alarm"
    /\ age' = 0
    /\ UNCHANGED <<armed, left, inited, acked, cut, sock>>

\* MUTANT of AlarmRearm: the handler returns without a second setAlarm.
AlarmRearm_Forgotten ==
    /\ gate = "alarm"
    /\ armed' = FALSE
    /\ gate' = "open"
    /\ UNCHANGED <<mem, store, left, inited, acked, age, cut, sock>>

\* MUTANT of AlarmRearm: the default ttl instead of the job's.
AlarmRearm_Default ==
    /\ gate = "alarm"
    /\ left' = DefaultTtl
    /\ gate' = "open"
    /\ UNCHANGED <<mem, store, armed, inited, acked, age, cut, sock>>

AlarmRearm ==
    /\ gate = "alarm"
    /\ left' = mem.ttl
    /\ gate' = "open"
    /\ UNCHANGED <<mem, store, armed, inited, acked, age, cut, sock>>

\* MUTANT of AlarmPurge: deleteAll without resetting the fields in memory.
AlarmPurge_KeepsFields ==
    /\ gate = "open"
    /\ armed /\ left = 0
    /\ Loaded.status = "expired"
    /\ store' = NoRecord
    /\ mem' = Loaded
    /\ armed' = FALSE
    /\ age' = 0
    /\ UNCHANGED <<left, gate, inited, acked, cut, sock>>

AlarmPurge ==
    /\ gate = "open"
    /\ armed /\ left = 0
    /\ Loaded.status = "expired"
    /\ store' = NoRecord
    /\ mem' = Fresh
    /\ armed' = FALSE
    /\ age' = 0
    /\ UNCHANGED <<left, gate, inited, acked, cut, sock>>

-----------------------------------------------------------------------------
\* Time passes; an alarm may fire later than it is due, never earlier.
Elapse ==
    /\ left > 0 \/ (store # NoRecord /\ age < store.ttl)
    /\ left' = IF armed /\ left > 0 THEN left - 1 ELSE left
    /\ age' = IF store # NoRecord /\ age < store.ttl THEN age + 1 ELSE age
    /\ UNCHANGED <<mem, store, armed, gate, inited, acked, cut, sock>>

(***************************************************************************)
(* The isolate goes away: between two events (eviction, deployment), or,   *)
(* when MidCrash, in the middle of /init or alarm().  Memory, timers and   *)
(* sockets are lost; the storage and the alarm are not.                    *)
(***************************************************************************)
Restart ==
    /\ gate = "open" \/ MidCrash
    /\ mem' = Fresh
    /\ gate' = "open"
    /\ cut' = (cut \/ gate = "alarm")
    /\ sock' = [s \in Sockets |->
                  IF sock[s].state = "open" THEN [sock[s] EXCEPT !.state = "closed"]
                  ELSE sock[s]]
    /\ UNCHANGED <<store, armed, left, inited, acked, age>>

Next ==
    \/ \E ttl \in Ttls : InitSave(ttl)
    \/ InitArm
    \/ \E b \in Body : Report(b)
    \/ Status
    \/ \E s \in Sockets : Connect(s) \/ Tick(s) \/ Drop(s)
    \/ AlarmExpire
    \/ AlarmRearm
    \/ AlarmPurge
    \/ Elapse
    \/ Restart

Spec == Init /\ [][Next]_vars

(***************************************************************************)
(* Fairness: time passes, a handler that has begun goes on (or the isolate *)
(* dies), a due alarm is run, and an open socket's interval fires.         *)
(* Reports, clients and restarts come or do not.                           *)
(***************************************************************************)
Fairness ==
    /\ WF_vars(Elapse)
    /\ WF_vars(InitArm)
    /\ WF_vars(AlarmRearm)
    /\ WF_vars(AlarmExpire)
    /\ WF_vars(AlarmPurge)
    /\ \A s \in Sockets : WF_vars(Tick(s))

FairSpec == Spec /\ Fairness

-----------------------------------------------------------------------------
(* Properties.                                                             *)

\* A job whose /init was answered 200 is never stored without an alarm that
\* will take it away, whatever restarts fall between save and setAlarm.
AckedIsArmed ==
    acked /\ store # NoRecord /\ store.job = "job" => armed

\* Every stored record has an alarm once its handler has finished: "Sin
\* persistencia mas alla del TTL" (progress-do.ts:4).
StoredIsArmed ==
    gate = "open" /\ store # NoRecord => armed

\* A job stays readable for its whole ttl before it turns expired.
OpenWindowKept ==
    [][(Visible \in Live /\ Visible' = "expired") => (age >= store.ttl)]_vars

\* An expired job is shown as expired for its whole ttl before the purge,
\* "ventana `Expired` visible hasta 2x TTL" (progress-do.ts:3-4), unless the
\* isolate died inside alarm(): the repeated alarm then purges at once.
ExpiredWindowKept ==
    [][(Visible = "expired" /\ Visible' = "absent") => (cut \/ age >= store.ttl)]_vars

\* Neither window of a job is cut short: OpenWindowKept and ExpiredWindowKept.
WindowsKept == OpenWindowKept /\ ExpiredWindowKept

\* The object implements the promised life of a job: no write, no restart and
\* no leftover field in memory takes an expired or purged job back.
Life == INSTANCE JobLifecycle WITH status <- Visible, born <- inited
ImplementsLifecycle == Life!LifeSpec

\* No client that was told `expired` is later told, by the same socket, that
\* the job is in another status.
SocketNeverRevives ==
    [][\A s \in Sockets :
         /\ sock[s].job = "job"
         /\ sock[s].shown = "expired"
         /\ sock'[s].job = "job"
         => sock'[s].shown = "expired"]_vars

\* A job that was accepted is forgotten in the end, and stays forgotten.
EventuallyForgotten == [](acked => <>[](Visible = "absent"))

\* No socket is left ticking for ever, not even one on a job that was purged
\* under it or whose alarm was never armed.
SocketsEnd ==
    \A s \in Sockets : sock[s].state = "open" ~> sock[s].state = "closed"

\* A job and every socket on it come to an end: EventuallyForgotten, SocketsEnd.
EverythingEnds == EventuallyForgotten /\ SocketsEnd
=============================================================================
