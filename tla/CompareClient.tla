--------------------------- MODULE CompareClient ---------------------------
(***************************************************************************)
(* The page that submits a comparison and follows it (the script of        *)
(* frontend/src/pages/index.astro with compare-client.ts): a WebSocket     *)
(* first, polling when the socket drops, then the download of the zip.     *)
(*                                                                         *)
(* JavaScript runs a callback to its next `await`; what may interleave are *)
(* the callbacks of every submission still in flight.  Each carries the    *)
(* generation it was started with (myGen) and is to be ignored once `gen`  *)
(* has moved on.  The synchronous helpers are operators from the page's    *)
(* state to its next state, composed in the order the code calls them.     *)
(***************************************************************************)
EXTENDS Naturals

CONSTANTS
    MaxSubmits,  \* bound: how often the user submits the form
    MaxPolls,    \* bound: polls of one generation that are in flight at once
    MaxTries,    \* RESULT_RETRY.maxAttempts: 10, or 540 in HQ
    Demo         \* may the user load the demo pair meanwhile?

ASSUME BoundAssumption == {MaxSubmits, MaxPolls, MaxTries} \subseteq Nat \ {0}
ASSUME DemoAssumption == Demo \in BOOLEAN

\* A submission starts one generation, and at most one more by itself.
Gens  == 1..(2 * MaxSubmits)
Slots == 1..MaxPolls

VARIABLES
    page,     \* the variables of the script, and its callbacks in flight
    job,      \* job[g]: what the gateway answers about the job of generation g
    submits,  \* how often the form was submitted
    demo      \* demoLoading

vars == <<page, job, submits, demo>>

IsTerminal(s) == s \in {"done", "failed", "expired"}

Page ==
    [gen:     {0} \cup Gens,
     settled: BOOLEAN,
     retried: BOOLEAN,                        \* autoRetried
     uvi:     BOOLEAN,                        \* the busy figure is on the page
     viewer:  {0} \cup Gens,                  \* whose result is on the page
     ws:      {0} \cup Gens,                  \* whose socket `ws` is
     timer:   {0} \cup Gens,                  \* whose interval `pollTimer` is
     start:   [Gens -> {"none", "health", "post", "watch", "over"}],
     sock:    [Gens -> {"none", "open", "closing", "closed"}],
     polls:   [Gens -> 0..MaxPolls],
     fetch:   [Gens -> [Slots -> {"none", "health", "get", "wait", "unzip",
                                  "shown", "over"}]],
     tries:   [Gens -> [Slots -> 0..MaxTries]],
     told:    [Gens -> {"none", "done", "failed", "expired", "absent"}]]
                                              \* the end it was told, and took

TypeOK ==
    /\ page \in Page
    /\ job \in [Gens -> {"none", "live", "done", "failed", "expired", "absent"}]
    /\ submits \in 0..MaxSubmits
    /\ demo \in BOOLEAN

Init ==
    /\ page = [gen |-> 0, settled |-> FALSE, retried |-> FALSE, uvi |-> FALSE,
               viewer |-> 0, ws |-> 0, timer |-> 0,
               start |-> [g \in Gens |-> "none"],
               sock  |-> [g \in Gens |-> "none"],
               polls |-> [g \in Gens |-> 0],
               fetch |-> [g \in Gens |-> [i \in Slots |-> "none"]],
               tries |-> [g \in Gens |-> [i \in Slots |-> 0]],
               told  |-> [g \in Gens |-> "none"]]
    /\ job = [g \in Gens |-> "none"]
    /\ submits = 0
    /\ demo = FALSE

-----------------------------------------------------------------------------
(* The synchronous helpers.                                                *)

StopLive(p) ==
    [p EXCEPT !.settled = TRUE,
              !.timer = 0,
              !.ws = 0,
              !.sock = [g \in Gens |-> IF g = p.ws /\ @[g] = "open" THEN "closing"
                                       ELSE @[g]]]

\* startJob up to its first await.
StartJob(p) ==
    LET g == p.gen + 1
    IN [StopLive(p) EXCEPT !.settled = FALSE,
                           !.gen = g,
                           !.viewer = 0,          \* clearResultOutputs
                           !.uvi = TRUE,
                           !.start[g] = "health"]

\* if (myGen === gen) uviHide()
HideOwn(p, g) == IF g = p.gen THEN [p EXCEPT !.uvi = FALSE] ELSE p

\* fetchResult(jobId, myGen) up to its first await.
BeginFetch(p, g) ==
    IF g # p.gen THEN p
    ELSE LET i == CHOOSE i \in Slots : p.fetch[g][i] = "none"
         IN [p EXCEPT !.fetch[g][i] = "health"]

\* MUTANT of StartPolling: asks once, without an interval.
StartPolling_Once(p, g) ==
    IF p.timer # 0 \/ p.settled \/ g # p.gen \/ p.polls[g] = MaxPolls THEN p
    ELSE [p EXCEPT !.polls[g] = @ + 1]

\* An interval of an old generation ends in the first tick, at once.
StartPolling(p, g) ==
    IF p.timer # 0 \/ p.settled \/ g # p.gen THEN p
    ELSE [p EXCEPT !.timer = g,
                   !.polls[g] = IF @ < MaxPolls THEN @ + 1 ELSE @]

\* MUTANT of OnEvent: autoRetried is not set.
OnEvent_Loops(p, g, s) ==
    IF p.settled \/ g # p.gen THEN p
    ELSE IF s = "expired" /\ ~p.retried THEN StartJob(StopLive(p))
    ELSE IF ~IsTerminal(s) THEN p
    ELSE LET q == [StopLive(p) EXCEPT !.told[g] = s]
         IN IF s = "done" THEN BeginFetch(q, g) ELSE HideOwn(q, g)

\* MUTANT of OnEvent: does not ask whether the generation is the current one.
OnEvent_AnyGen(p, g, s) ==
    IF p.settled THEN p
    ELSE IF s = "expired" /\ ~p.retried
         THEN StartJob([StopLive(p) EXCEPT !.retried = TRUE])
    ELSE IF ~IsTerminal(s) THEN p
    ELSE LET q == [StopLive(p) EXCEPT !.told[g] = s]
         IN IF s = "done" THEN BeginFetch(q, g) ELSE HideOwn(q, g)

\* The first expiry of a submission is taken for a cold start: one retry.
OnEvent(p, g, s) ==
    IF p.settled \/ g # p.gen THEN p
    ELSE IF s = "expired" /\ ~p.retried
         THEN StartJob([StopLive(p) EXCEPT !.retried = TRUE])
    ELSE IF ~IsTerminal(s) THEN p
    ELSE LET q == [StopLive(p) EXCEPT !.told[g] = s]
         IN IF s = "done" THEN BeginFetch(q, g) ELSE HideOwn(q, g)

-----------------------------------------------------------------------------
(* Submit, and the two awaits of startJob.                                 *)
Submit ==
    /\ submits < MaxSubmits
    /\ submits' = submits + 1
    /\ page' = StartJob([page EXCEPT !.retried = FALSE])
    /\ UNCHANGED <<job, demo>>

\* checkContractHealth: an unreachable /health counts as healthy.
StartHealth(g) ==
    /\ page.start[g] = "health"
    /\ \/ page' = [page EXCEPT !.start[g] = IF g = page.gen THEN "post" ELSE "over"]
       \/ page' = HideOwn([page EXCEPT !.start[g] = "over"], g)
    /\ UNCHANGED <<job, submits, demo>>

\* The POST.  After it nothing looks at the generation before subscribe.
StartPost(g) ==
    /\ page.start[g] = "post"
    /\ \/ /\ page' = HideOwn([page EXCEPT !.start[g] = "over"], g)
          /\ UNCHANGED job                    \* no answer, an error, bad JSON
       \/ /\ page' = [page EXCEPT !.start[g] = "watch", !.ws = g, !.sock[g] = "open"]
          /\ job' = [job EXCEPT ![g] = "live"]
       \/ /\ page' = StartPolling([page EXCEPT !.start[g] = "watch"], g)
          /\ job' = [job EXCEPT ![g] = "live"]     \* new WebSocket throws
    /\ UNCHANGED <<submits, demo>>

-----------------------------------------------------------------------------
(* The socket, and the polling that replaces it.                           *)
WsMessage(g) ==
    /\ page.sock[g] = "open"
    /\ job[g] # "absent"
    /\ page' = OnEvent(page, g, job[g])
    /\ UNCHANGED <<job, submits, demo>>

\* MUTANT of WsClose: no fallback when the socket drops.
WsClose_NoFallback(g) ==
    /\ page.sock[g] \in {"open", "closing"}
    /\ page' = [page EXCEPT !.sock[g] = "closed"]
    /\ UNCHANGED <<job, submits, demo>>

WsClose(g) ==
    /\ page.sock[g] \in {"open", "closing"}
    /\ LET p == [page EXCEPT !.sock[g] = "closed"]
       IN page' = IF ~p.settled /\ g = p.gen THEN StartPolling(p, g) ELSE p
    /\ UNCHANGED <<job, submits, demo>>

PollTick(g) ==
    /\ page.timer = g
    /\ \/ /\ g # page.gen
          /\ page' = [page EXCEPT !.timer = 0]
       \/ /\ g = page.gen
          /\ page.polls[g] < MaxPolls
          /\ page' = [page EXCEPT !.polls[g] = @ + 1]
    /\ UNCHANGED <<job, submits, demo>>

\* MUTANT of PollAnswer: the 404 does not hide the busy figure.
PollAnswer_KeepsUvi(g) ==
    /\ page.polls[g] > 0
    /\ LET p == [page EXCEPT !.polls[g] = @ - 1]
       IN CASE job[g] = "absent" -> page' = [StopLive(p) EXCEPT !.told[g] = "absent"]
            [] job[g] = "done" ->
                 page' = BeginFetch([StopLive(p) EXCEPT !.told[g] = "done"], g)
            [] OTHER -> page' = OnEvent(p, g, job[g])
    /\ UNCHANGED <<job, submits, demo>>

\* The answer to a poll: the generation was looked at before the await only.
PollAnswer(g) ==
    /\ page.polls[g] > 0
    /\ LET p == [page EXCEPT !.polls[g] = @ - 1]
       IN CASE job[g] = "absent" ->                         \* 404
                 page' = HideOwn([StopLive(p) EXCEPT !.told[g] = "absent"], g)
            [] job[g] = "done" ->
                 page' = BeginFetch([StopLive(p) EXCEPT !.told[g] = "done"], g)
            [] OTHER -> page' = OnEvent(p, g, job[g])
    /\ UNCHANGED <<job, submits, demo>>

\* No answer, an error or a body that does not parse: the next tick asks again.
PollLost(g) ==
    /\ page.polls[g] > 0
    /\ page' = [page EXCEPT !.polls[g] = @ - 1]
    /\ UNCHANGED <<job, submits, demo>>

-----------------------------------------------------------------------------
(* fetchResult and renderResult after their awaits.                        *)
At(g, i, phase) == page.fetch[g][i] = phase
Goto(p, g, i, phase) == [p EXCEPT !.fetch[g][i] = phase]
IfCurrent(g, phase) == IF g = page.gen THEN phase ELSE "over"

FetchHealth(g, i) ==
    /\ At(g, i, "health")
    /\ \/ page' = Goto(page, g, i, IfCurrent(g, "get"))
       \/ page' = HideOwn(Goto(page, g, i, "over"), g)
    /\ UNCHANGED <<job, submits, demo>>

\* MUTANT of FetchGet: without `attempt < retry.maxAttempts`.
FetchGet_NoLimit(g, i) ==
    /\ At(g, i, "get")
    /\ \/ page' = [Goto(page, g, i, "wait") EXCEPT !.tries[g][i] = @ + 1]
       \/ /\ job[g] = "done"
          /\ page' = Goto(page, g, i, IfCurrent(g, "unzip"))
       \/ page' = HideOwn(Goto(page, g, i, "over"), g)
    /\ UNCHANGED <<job, submits, demo>>

\* MUTANT of FetchGet: hides the figure when the result is not there yet.
FetchGet_Hides(g, i) ==
    /\ At(g, i, "get")
    /\ \/ /\ page.tries[g][i] < MaxTries
          /\ page' = HideOwn([Goto(page, g, i, "wait") EXCEPT !.tries[g][i] = @ + 1], g)
       \/ /\ job[g] = "done"
          /\ page' = Goto(page, g, i, IfCurrent(g, "unzip"))
       \/ page' = HideOwn(Goto(page, g, i, "over"), g)
    /\ UNCHANGED <<job, submits, demo>>

FetchGet(g, i) ==
    /\ At(g, i, "get")
    /\ \/ /\ page.tries[g][i] < MaxTries                   \* 404 or 409
          /\ page' = [Goto(page, g, i, "wait") EXCEPT !.tries[g][i] = @ + 1]
       \/ /\ job[g] = "done"                               \* 200
          /\ page' = Goto(page, g, i, IfCurrent(g, "unzip"))
       \/ page' = HideOwn(Goto(page, g, i, "over"), g)     \* given up
    /\ UNCHANGED <<job, submits, demo>>

FetchWait(g, i) ==
    /\ At(g, i, "wait")
    /\ page' = Goto(page, g, i, IfCurrent(g, "get"))
    /\ UNCHANGED <<job, submits, demo>>

\* MUTANT of Unzip: without the look at the generation after the await.
Unzip_NoCheck(g, i) ==
    /\ At(g, i, "unzip")
    /\ page' = [Goto(page, g, i, "shown") EXCEPT !.viewer = g, !.uvi = FALSE]
    /\ UNCHANGED <<job, submits, demo>>

Unzip(g, i) ==
    /\ At(g, i, "unzip")
    /\ \/ /\ g # page.gen
          /\ page' = Goto(page, g, i, "over")
       \/ /\ g = page.gen
          /\ page' = [Goto(page, g, i, "shown") EXCEPT !.viewer = g, !.uvi = FALSE]
       \/ page' = HideOwn(Goto(page, g, i, "over"), g)     \* a piece is missing
    /\ UNCHANGED <<job, submits, demo>>

-----------------------------------------------------------------------------
(* loadDemo: its end decides anew whether the busy figure stays.           *)
DemoStart ==
    /\ Demo /\ ~demo
    /\ demo' = TRUE
    /\ page' = [page EXCEPT !.uvi = TRUE]
    /\ UNCHANGED <<job, submits>>

DemoEnd ==
    /\ demo
    /\ demo' = FALSE
    /\ page' = [page EXCEPT !.uvi = page.gen > 0 /\ ~page.settled]   \* isJobLive
    /\ UNCHANGED <<job, submits>>

\* The job on the other side (JobLifecycle).
JobMoves(g) ==
    /\ \/ job[g] = "live" /\ \E s \in {"done", "failed", "expired"} : job' = [job EXCEPT ![g] = s]
       \/ job[g] \in {"done", "failed"} /\ job' = [job EXCEPT ![g] = "expired"]
       \/ job[g] = "expired" /\ job' = [job EXCEPT ![g] = "absent"]
    /\ UNCHANGED <<page, submits, demo>>

Callback(g) ==
    \/ StartHealth(g) \/ StartPost(g)
    \/ WsMessage(g)
    \/ PollTick(g)
    \/ \E i \in Slots : FetchHealth(g, i) \/ FetchGet(g, i) \/ FetchWait(g, i) \/ Unzip(g, i)

Next ==
    \/ Submit
    \/ \E g \in Gens : Callback(g) \/ WsClose(g) \/ PollAnswer(g) \/ PollLost(g) \/ JobMoves(g)
    \/ DemoStart \/ DemoEnd

Spec == Init /\ [][Next]_vars

(***************************************************************************)
(* Fairness: awaits and timers of the browser come back, an open socket is *)
(* told the status and is closed in the end (SocketsEnd of ProgressDO),    *)
(* polls are not lost for ever, and a job ends (EventuallyForgotten there).*)
(* The user and the demo are free.                                         *)
(***************************************************************************)
Fairness ==
    \A g \in Gens :
        /\ WF_vars(StartHealth(g)) /\ WF_vars(StartPost(g))
        /\ WF_vars(WsMessage(g)) /\ WF_vars(WsClose(g))
        /\ WF_vars(PollTick(g))
        /\ SF_vars(PollAnswer(g))
        /\ \A i \in Slots :
             /\ WF_vars(FetchHealth(g, i)) /\ WF_vars(FetchGet(g, i))
             /\ WF_vars(FetchWait(g, i)) /\ WF_vars(Unzip(g, i))
        /\ WF_vars(JobMoves(g))

FairSpec == Spec /\ Fairness

-----------------------------------------------------------------------------
(* Properties.                                                             *)

Watched(g) == page.start[g] = "watch"
Downloading(g) ==
    /\ \E i \in Slots : page.fetch[g][i] \in {"health", "get", "wait", "unzip"}
    /\ \A i \in Slots : page.fetch[g][i] \notin {"shown", "over"}

\* Generation g, when it is the current one, has something in flight: it is being
\* sent, its job is followed, or its zip downloaded.
AtWork(g) ==
    \/ page.start[g] \in {"health", "post"}
    \/ Watched(g) /\ ~page.settled
    \/ Downloading(g)

\* What the page shows is the result of the last submission or nothing: a zip
\* of an older one that is still being unpacked never reaches the viewer
\* (index.astro:1020 and 1035).
ViewerIsCurrent == page.viewer \in {0, page.gen}

\* Every job is a submission of the user's or its single retry: "un solo
\* reintento en caliente [...] Sin loops" (index.astro:1101-1102), whatever
\* answers of earlier jobs still come in.
OneRetryPerSubmit == page.gen <= 2 * submits

\* While the job on the page is not settled somebody watches it: its socket is
\* open (or its close event is still to come), or the interval polls.
LiveIsWatched ==
    \A g \in Gens : g = page.gen /\ Watched(g) /\ ~page.settled =>
        page.sock[g] \in {"open", "closing"} \/ page.timer = g

\* The page stops following the current job only because that very job was
\* said to have ended: "cada callback asincrono (WS, polling, fetch) se ignora
\* si ya no es la vigente" (index.astro:805-807).  (Expected to fail.)
SettledIsOwn == \A g \in Gens : g = page.gen /\ page.settled => page.told[g] # "none"

\* The answer to a poll of a generation that was replaced meanwhile.
StaleAnswer(g) == g # page.gen /\ job[g] \in {"done", "absent"} /\ PollAnswer(g)

\* Nothing else makes the page leave a job that goes on: no message or close
\* event of an old socket, no tick, no download and no second submission.
OnlyStalePollsSettle ==
    [][SettledIsOwn => SettledIsOwn' \/ \E g \in Gens : StaleAnswer(g)]_vars

\* As long as the last submission is sent or followed ("Job vivo = gen emitida
\* y sin settle", index.astro:864) the busy figure is shown, whatever demo
\* loads begin and end meanwhile and whatever older jobs come to.
LiveIsShown ==
    \A g \in Gens : g = page.gen /\ ~page.settled /\ page.start[g] # "over" => page.uvi

\* Once the last submission was told its end, the figure means its download, or
\* a demo load: "todo terminal (done/failed/demo-fail) pasa por aqui"
\* (index.astro:819).
EndedIsHidden ==
    \A g \in Gens : g = page.gen /\ page.told[g] # "none" /\ page.uvi =>
        demo \/ Downloading(g)

\* "stopLive NO toca frases: Uvi sigue visible durante la descarga del zip"
\* (index.astro:820-821): the figure goes out over a download only when a demo
\* load ends, or when another poll of the job is told that it is gone.
DownloadIsShown ==
    [][page.uvi /\ ~page.uvi' =>
         \/ \A g \in Gens : g = page.gen' => ~Downloading(g)'
         \/ DemoEnd
         \/ \E g \in Gens : g = page.gen /\ job[g] = "absent" /\ PollAnswer(g)]_vars

\* The busy figure is shown until the end of the last job is told, then for its
\* download, and not after it: LiveIsShown, DownloadIsShown, EndedIsHidden.  They
\* leave out what the run of SettledIsOwn shows, a job that was settled and never
\* told its end: over that one the figure spins (BusyMeansWork).
BusyIsTrue == [](LiveIsShown /\ EndedIsHidden) /\ DownloadIsShown

\* The figure means that something goes on: "todo terminal (done/failed/
\* demo-fail) pasa por aqui" (index.astro:819).  (Expected to fail.)
BusyMeansWork == page.uvi => demo \/ \E g \in Gens : g = page.gen /\ AtWork(g)

\* "Uvi sigue visible durante la descarga del zip y debe seguir rotando en el HQ
\* largo" (index.astro:820-821).  (Expected to fail beside a demo load.)
WorkIsShown == \A g \in Gens : g = page.gen /\ AtWork(g) => page.uvi

\* The last submission comes to an end: it is shown, reported as over, retried
\* or replaced.  Neither a socket cut after its 60 s nor a poll that fails
\* leaves the page following it for ever.
WorkEnds ==
    \A g \in Gens :
        (g = page.gen /\ AtWork(g)) ~> ~(g = page.gen /\ AtWork(g))
=============================================================================
