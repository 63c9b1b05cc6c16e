------------------------- MODULE CompareClient_proofs -------------------------
(***************************************************************************)
(* Theorems about CompareClient: however many submissions the user makes,  *)
(* however many polls of theirs are in flight and whatever demo loads run  *)
(* beside them, the page shows the result of the last one, retries it      *)
(* once, leaves it through answers to old polls only, and shows the busy   *)
(* figure until its end is known.                                          *)
(***************************************************************************)
EXTENDS CompareClient, FiniteSets, FiniteSetTheorems, TLAPS

LEMMA Bounds ==
    /\ MaxSubmits \in Nat \ {0} /\ MaxPolls \in Nat \ {0} /\ MaxTries \in Nat \ {0}
    /\ \A g \in Gens : g \in Nat \ {0}
  BY BoundAssumption DEF Gens

\* The values of the fields of the page.
Starts == {"none", "health", "post", "watch", "over"}
Socks  == {"none", "open", "closing", "closed"}
Ends   == {"none", "done", "failed", "expired", "absent"}
Phases == {"none", "health", "get", "wait", "unzip", "shown", "over"}

LEMMA PageType ==
    Page = [gen : {0} \cup Gens, settled : BOOLEAN, retried : BOOLEAN, uvi : BOOLEAN,
            viewer : {0} \cup Gens, ws : {0} \cup Gens, timer : {0} \cup Gens,
            start : [Gens -> Starts], sock : [Gens -> Socks],
            polls : [Gens -> 0 .. MaxPolls],
            fetch : [Gens -> [Slots -> Phases]], tries : [Gens -> [Slots -> 0 .. MaxTries]],
            told : [Gens -> Ends]]
  BY DEF Page, Starts, Socks, Phases, Ends

-----------------------------------------------------------------------------
(***************************************************************************)
(* What the helpers of the page return, field by field.                    *)
(***************************************************************************)

LEMMA StopLiveFields ==
    ASSUME NEW p \in Page
    PROVE  /\ StopLive(p) \in Page
           /\ StopLive(p).settled = TRUE /\ StopLive(p).timer = 0 /\ StopLive(p).ws = 0
           /\ \A g \in Gens : StopLive(p).sock[g] = IF g = p.ws /\ p.sock[g] = "open"
                                                    THEN "closing" ELSE p.sock[g]
           /\ StopLive(p).gen = p.gen /\ StopLive(p).retried = p.retried
           /\ StopLive(p).uvi = p.uvi /\ StopLive(p).viewer = p.viewer
           /\ StopLive(p).start = p.start /\ StopLive(p).polls = p.polls
           /\ StopLive(p).fetch = p.fetch /\ StopLive(p).tries = p.tries
           /\ StopLive(p).told = p.told
  BY PageType DEF StopLive, Socks

LEMMA StartJobFields ==
    ASSUME NEW p \in Page, p.gen < 2 * MaxSubmits
    PROVE  /\ StartJob(p) \in Page
           /\ StartJob(p).settled = FALSE /\ StartJob(p).timer = 0 /\ StartJob(p).ws = 0
           /\ \A g \in Gens : StartJob(p).sock[g] = IF g = p.ws /\ p.sock[g] = "open"
                                                    THEN "closing" ELSE p.sock[g]
           /\ StartJob(p).gen = p.gen + 1 /\ p.gen + 1 \in Gens
           /\ StartJob(p).retried = p.retried
           /\ StartJob(p).uvi = TRUE /\ StartJob(p).viewer = 0
           /\ StartJob(p).start = [p.start EXCEPT ![p.gen + 1] = "health"]
           /\ StartJob(p).polls = p.polls
           /\ StartJob(p).fetch = p.fetch /\ StartJob(p).tries = p.tries
           /\ StartJob(p).told = p.told
<1>1. p.gen \in {0} \cup Gens
  BY PageType
<1>2. p.gen + 1 \in Gens
  BY <1>1, Bounds DEF Gens
<1> DEFINE q == StopLive(p)
<1>3. /\ q \in Page /\ q.timer = 0 /\ q.ws = 0 /\ q.gen = p.gen
      /\ q.retried = p.retried /\ q.start = p.start /\ q.polls = p.polls
      /\ q.fetch = p.fetch /\ q.tries = p.tries /\ q.told = p.told
      /\ \A g \in Gens : q.sock[g] = IF g = p.ws /\ p.sock[g] = "open"
                                     THEN "closing" ELSE p.sock[g]
  BY StopLiveFields
<1> DEFINE r == [q EXCEPT !.settled = FALSE, !.gen = p.gen + 1, !.viewer = 0, !.uvi = TRUE]
<1>4. StartJob(p) = [r EXCEPT !.start[p.gen + 1] = "health"]
  BY DEF StartJob
<1> HIDE DEF q
<1>5. /\ r \in Page /\ r.settled = FALSE /\ r.gen = p.gen + 1 /\ r.viewer = 0 /\ r.uvi = TRUE
      /\ r.timer = q.timer /\ r.ws = q.ws /\ r.retried = q.retried /\ r.start = q.start
      /\ r.polls = q.polls /\ r.fetch = q.fetch /\ r.tries = q.tries /\ r.told = q.told
      /\ r.sock = q.sock
  BY <1>2, <1>3, PageType
<1> HIDE DEF r
<1> DEFINE b == [r.start EXCEPT ![p.gen + 1] = "health"]
<1>6. StartJob(p) = [r EXCEPT !.start = b]
  BY <1>4
<1>7. /\ b = [p.start EXCEPT ![p.gen + 1] = "health"]
      /\ b \in [Gens -> Starts]
  BY <1>3, <1>5, PageType DEF Starts
<1> HIDE DEF b
<1>8. /\ StartJob(p) \in Page
      /\ StartJob(p).start = b
      /\ StartJob(p).settled = r.settled /\ StartJob(p).timer = r.timer
      /\ StartJob(p).ws = r.ws /\ StartJob(p).sock = r.sock /\ StartJob(p).gen = r.gen
      /\ StartJob(p).retried = r.retried /\ StartJob(p).uvi = r.uvi
      /\ StartJob(p).viewer = r.viewer /\ StartJob(p).polls = r.polls
      /\ StartJob(p).fetch = r.fetch /\ StartJob(p).tries = r.tries
      /\ StartJob(p).told = r.told
  <2>1. r \in Page /\ b \in [Gens -> Starts]
    BY <1>5, <1>7
  <2>2. [r EXCEPT !.start = b] \in Page
    BY <2>1, PageType
  <2>3. StartJob(p) \in Page
    BY <1>6, <2>2
  <2>4. StartJob(p).start = b
    BY <1>6, <2>1, PageType
  <2>5. StartJob(p).settled = r.settled /\ StartJob(p).timer = r.timer
      /\ StartJob(p).ws = r.ws /\ StartJob(p).sock = r.sock /\ StartJob(p).gen = r.gen
    BY <1>6, <2>1, PageType
  <2> QED BY <1>6, <2>1, <2>3, <2>4, <2>5, PageType
<1> QED BY <1>2, <1>3, <1>5, <1>7, <1>8

LEMMA HideOwnFields ==
    ASSUME NEW p \in Page, NEW g \in Gens
    PROVE  /\ HideOwn(p, g) \in Page
           /\ HideOwn(p, g).uvi = (p.uvi /\ g # p.gen)
           /\ HideOwn(p, g).settled = p.settled /\ HideOwn(p, g).timer = p.timer
           /\ HideOwn(p, g).ws = p.ws /\ HideOwn(p, g).sock = p.sock
           /\ HideOwn(p, g).gen = p.gen /\ HideOwn(p, g).retried = p.retried
           /\ HideOwn(p, g).viewer = p.viewer /\ HideOwn(p, g).start = p.start
           /\ HideOwn(p, g).polls = p.polls /\ HideOwn(p, g).fetch = p.fetch
           /\ HideOwn(p, g).tries = p.tries /\ HideOwn(p, g).told = p.told
  BY PageType DEF HideOwn

\* The slots of a download that was begun.
Used(p, g) == {i \in Slots : p.fetch[g][i] # "none"}

LEMMA UsedCount ==
    ASSUME NEW p, NEW g
    PROVE  /\ IsFiniteSet(Used(p, g)) /\ Cardinality(Used(p, g)) \in 0 .. MaxPolls
           /\ Cardinality(Used(p, g)) < MaxPolls => \E i \in Slots : p.fetch[g][i] = "none"
           /\ Used(p, g) = {} => Cardinality(Used(p, g)) = 0
<1>1. IsFiniteSet(Slots) /\ Cardinality(Slots) = MaxPolls
  BY Bounds, FS_Interval DEF Slots
<1>2. Used(p, g) \subseteq Slots
  BY DEF Used
<1>3. /\ IsFiniteSet(Used(p, g)) /\ Cardinality(Used(p, g)) <= MaxPolls
      /\ Cardinality(Used(p, g)) = MaxPolls => Used(p, g) = Slots
  BY <1>1, <1>2, FS_Subset
<1>4. Cardinality(Used(p, g)) \in Nat
  BY <1>3, FS_CardinalityType
<1>5. Used(p, g) = {} => Cardinality(Used(p, g)) = 0
  BY FS_EmptySet
<1>6. ASSUME Cardinality(Used(p, g)) < MaxPolls, \A i \in Slots : p.fetch[g][i] # "none"
      PROVE  FALSE
  <2>1. Used(p, g) = Slots
    BY <1>6 DEF Used
  <2> QED BY <1>1, <1>4, <1>6, <2>1, Bounds
<1> QED BY <1>3, <1>4, <1>5, <1>6, Bounds

LEMMA BeginFetchFields ==
    ASSUME NEW p \in Page, NEW g \in Gens,
           g = p.gen => Cardinality(Used(p, g)) < MaxPolls
    PROVE  /\ BeginFetch(p, g) \in Page
           /\ \A h \in Gens : h # p.gen \/ h # g => BeginFetch(p, g).fetch[h] = p.fetch[h]
           /\ g = p.gen => \E i \in Slots :
                /\ p.fetch[g][i] = "none"
                /\ BeginFetch(p, g).fetch[g] = [p.fetch[g] EXCEPT ![i] = "health"]
           /\ BeginFetch(p, g).settled = p.settled /\ BeginFetch(p, g).timer = p.timer
           /\ BeginFetch(p, g).ws = p.ws /\ BeginFetch(p, g).sock = p.sock
           /\ BeginFetch(p, g).gen = p.gen /\ BeginFetch(p, g).retried = p.retried
           /\ BeginFetch(p, g).uvi = p.uvi
           /\ BeginFetch(p, g).viewer = p.viewer /\ BeginFetch(p, g).start = p.start
           /\ BeginFetch(p, g).polls = p.polls
           /\ BeginFetch(p, g).tries = p.tries /\ BeginFetch(p, g).told = p.told
<1>1. CASE g # p.gen
  BY <1>1 DEF BeginFetch
<1>2. CASE g = p.gen
  <2>1. PICK i \in Slots : /\ p.fetch[g][i] = "none"
                           /\ BeginFetch(p, g) = [p EXCEPT !.fetch[g][i] = "health"]
    <3>1. \E i \in Slots : p.fetch[g][i] = "none"
      BY <1>2, UsedCount
    <3> DEFINE i == CHOOSE i \in Slots : p.fetch[g][i] = "none"
    <3>2. i \in Slots /\ p.fetch[g][i] = "none"
      BY <3>1
    <3>3. BeginFetch(p, g) = [p EXCEPT !.fetch[g][i] = "health"]
      BY <1>2 DEF BeginFetch
    <3> HIDE DEF i
    <3> QED BY <3>2, <3>3
  <2> DEFINE f == [p.fetch EXCEPT ![g] = [@ EXCEPT ![i] = "health"]]
  <2>2. BeginFetch(p, g) = [p EXCEPT !.fetch = f]
    BY <2>1
  <2>3. /\ f \in [Gens -> [Slots -> Phases]]
        /\ f[g] = [p.fetch[g] EXCEPT ![i] = "health"]
        /\ \A h \in Gens \ {g} : f[h] = p.fetch[h]
    BY PageType DEF Phases
  <2> HIDE DEF f
  <2> QED BY <1>2, <2>1, <2>2, <2>3, PageType
<1> QED BY <1>1, <1>2

LEMMA StartPollingFields ==
    ASSUME NEW p \in Page, NEW g \in Gens
    PROVE  /\ StartPolling(p, g) \in Page
           /\ \/ StartPolling(p, g) = p
                 /\ (p.timer # 0 \/ p.settled \/ g # p.gen)
              \/ /\ p.timer = 0 /\ ~p.settled /\ g = p.gen
                 /\ StartPolling(p, g).timer = g
                 /\ \A h \in Gens \ {g} : StartPolling(p, g).polls[h] = p.polls[h]
           /\ StartPolling(p, g).ws = p.ws /\ StartPolling(p, g).sock = p.sock
           /\ StartPolling(p, g).gen = p.gen /\ StartPolling(p, g).retried = p.retried
           /\ StartPolling(p, g).uvi = p.uvi /\ StartPolling(p, g).settled = p.settled
           /\ StartPolling(p, g).viewer = p.viewer /\ StartPolling(p, g).start = p.start
           /\ StartPolling(p, g).fetch = p.fetch
           /\ StartPolling(p, g).tries = p.tries /\ StartPolling(p, g).told = p.told
<1>1. CASE p.timer # 0 \/ p.settled \/ g # p.gen
  BY <1>1 DEF StartPolling
<1>2. CASE ~(p.timer # 0 \/ p.settled \/ g # p.gen)
  <2> DEFINE b == [p.polls EXCEPT ![g] = IF @ < MaxPolls THEN @ + 1 ELSE @]
  <2>1. StartPolling(p, g) = [p EXCEPT !.timer = g, !.polls = b]
    BY <1>2 DEF StartPolling
  <2>2. b \in [Gens -> 0 .. MaxPolls] /\ \A h \in Gens \ {g} : b[h] = p.polls[h]
    BY Bounds, PageType
  <2> HIDE DEF b
  <2> QED BY <1>2, <2>1, <2>2, PageType
<1> QED BY <1>1, <1>2

-----------------------------------------------------------------------------
(***************************************************************************)
(* The assignments of the callbacks.                                       *)
(***************************************************************************)

SetRetried(p, b)  == [p EXCEPT !.retried = b]
SetUvi(p, b)      == [p EXCEPT !.uvi = b]
SetViewer(p, g)   == [p EXCEPT !.viewer = g]
SetWs(p, g)       == [p EXCEPT !.ws = g]
SetTimer(p, g)    == [p EXCEPT !.timer = g]
SetStart(p, g, v) == [p EXCEPT !.start[g] = v]
SetSock(p, g, v)  == [p EXCEPT !.sock[g] = v]
SetPolls(p, g, v) == [p EXCEPT !.polls[g] = v]
SetTold(p, g, v)  == [p EXCEPT !.told[g] = v]
SetTries(p, g, i, v) == [p EXCEPT !.tries[g][i] = v]

LEMMA SetRetriedFields ==
    ASSUME NEW p \in Page, NEW v \in BOOLEAN
    PROVE  /\ SetRetried(p, v) \in Page /\ SetRetried(p, v).retried = v
           /\ SetRetried(p, v).gen = p.gen /\ SetRetried(p, v).settled = p.settled
           /\ SetRetried(p, v).uvi = p.uvi /\ SetRetried(p, v).viewer = p.viewer
           /\ SetRetried(p, v).ws = p.ws /\ SetRetried(p, v).timer = p.timer
           /\ SetRetried(p, v).start = p.start /\ SetRetried(p, v).sock = p.sock
           /\ SetRetried(p, v).polls = p.polls /\ SetRetried(p, v).fetch = p.fetch
           /\ SetRetried(p, v).tries = p.tries /\ SetRetried(p, v).told = p.told
  BY PageType DEF SetRetried

LEMMA SetUviFields ==
    ASSUME NEW p \in Page, NEW v \in BOOLEAN
    PROVE  /\ SetUvi(p, v) \in Page /\ SetUvi(p, v).uvi = v
           /\ SetUvi(p, v).gen = p.gen /\ SetUvi(p, v).settled = p.settled
           /\ SetUvi(p, v).retried = p.retried /\ SetUvi(p, v).viewer = p.viewer
           /\ SetUvi(p, v).ws = p.ws /\ SetUvi(p, v).timer = p.timer
           /\ SetUvi(p, v).start = p.start /\ SetUvi(p, v).sock = p.sock
           /\ SetUvi(p, v).polls = p.polls /\ SetUvi(p, v).fetch = p.fetch
           /\ SetUvi(p, v).tries = p.tries /\ SetUvi(p, v).told = p.told
  BY PageType DEF SetUvi

LEMMA SetViewerFields ==
    ASSUME NEW p \in Page, NEW v \in {0} \cup Gens
    PROVE  /\ SetViewer(p, v) \in Page /\ SetViewer(p, v).viewer = v
           /\ SetViewer(p, v).gen = p.gen /\ SetViewer(p, v).settled = p.settled
           /\ SetViewer(p, v).retried = p.retried /\ SetViewer(p, v).uvi = p.uvi
           /\ SetViewer(p, v).ws = p.ws /\ SetViewer(p, v).timer = p.timer
           /\ SetViewer(p, v).start = p.start /\ SetViewer(p, v).sock = p.sock
           /\ SetViewer(p, v).polls = p.polls /\ SetViewer(p, v).fetch = p.fetch
           /\ SetViewer(p, v).tries = p.tries /\ SetViewer(p, v).told = p.told
  BY PageType DEF SetViewer

LEMMA SetWsFields ==
    ASSUME NEW p \in Page, NEW v \in {0} \cup Gens
    PROVE  /\ SetWs(p, v) \in Page /\ SetWs(p, v).ws = v
           /\ SetWs(p, v).gen = p.gen /\ SetWs(p, v).settled = p.settled
           /\ SetWs(p, v).retried = p.retried /\ SetWs(p, v).uvi = p.uvi
           /\ SetWs(p, v).viewer = p.viewer /\ SetWs(p, v).timer = p.timer
           /\ SetWs(p, v).start = p.start /\ SetWs(p, v).sock = p.sock
           /\ SetWs(p, v).polls = p.polls /\ SetWs(p, v).fetch = p.fetch
           /\ SetWs(p, v).tries = p.tries /\ SetWs(p, v).told = p.told
  BY PageType DEF SetWs

LEMMA SetTimerFields ==
    ASSUME NEW p \in Page, NEW v \in {0} \cup Gens
    PROVE  /\ SetTimer(p, v) \in Page /\ SetTimer(p, v).timer = v
           /\ SetTimer(p, v).gen = p.gen /\ SetTimer(p, v).settled = p.settled
           /\ SetTimer(p, v).retried = p.retried /\ SetTimer(p, v).uvi = p.uvi
           /\ SetTimer(p, v).viewer = p.viewer /\ SetTimer(p, v).ws = p.ws
           /\ SetTimer(p, v).start = p.start /\ SetTimer(p, v).sock = p.sock
           /\ SetTimer(p, v).polls = p.polls /\ SetTimer(p, v).fetch = p.fetch
           /\ SetTimer(p, v).tries = p.tries /\ SetTimer(p, v).told = p.told
  BY PageType DEF SetTimer

LEMMA SetStartFields ==
    ASSUME NEW p \in Page, NEW g \in Gens, NEW v \in Starts
    PROVE  /\ SetStart(p, g, v) \in Page /\ SetStart(p, g, v).start[g] = v
           /\ \A h \in Gens \ {g} : SetStart(p, g, v).start[h] = p.start[h]
           /\ SetStart(p, g, v).gen = p.gen /\ SetStart(p, g, v).settled = p.settled
           /\ SetStart(p, g, v).retried = p.retried /\ SetStart(p, g, v).uvi = p.uvi
           /\ SetStart(p, g, v).viewer = p.viewer /\ SetStart(p, g, v).ws = p.ws
           /\ SetStart(p, g, v).timer = p.timer /\ SetStart(p, g, v).sock = p.sock
           /\ SetStart(p, g, v).polls = p.polls /\ SetStart(p, g, v).fetch = p.fetch
           /\ SetStart(p, g, v).tries = p.tries /\ SetStart(p, g, v).told = p.told
<1> DEFINE b == [p.start EXCEPT ![g] = v]
<1>1. SetStart(p, g, v) = [p EXCEPT !.start = b]
  BY DEF SetStart
<1>2. /\ b \in [Gens -> Starts]
      /\ b[g] = v /\ \A h \in Gens \ {g} : b[h] = p.start[h]
  BY PageType
<1> HIDE DEF b
<1>3. SetStart(p, g, v) \in Page
  BY <1>1, <1>2, PageType
<1>4. SetStart(p, g, v).start = b
  BY <1>1, PageType
<1>5. /\ SetStart(p, g, v).gen = p.gen /\ SetStart(p, g, v).settled = p.settled
      /\ SetStart(p, g, v).retried = p.retried /\ SetStart(p, g, v).uvi = p.uvi
      /\ SetStart(p, g, v).viewer = p.viewer /\ SetStart(p, g, v).ws = p.ws
      /\ SetStart(p, g, v).timer = p.timer /\ SetStart(p, g, v).sock = p.sock
      /\ SetStart(p, g, v).polls = p.polls /\ SetStart(p, g, v).fetch = p.fetch
      /\ SetStart(p, g, v).tries = p.tries /\ SetStart(p, g, v).told = p.told
  BY <1>1, PageType
<1> QED BY <1>2, <1>3, <1>4, <1>5

LEMMA SetSockFields ==
    ASSUME NEW p \in Page, NEW g \in Gens, NEW v \in Socks
    PROVE  /\ SetSock(p, g, v) \in Page /\ SetSock(p, g, v).sock[g] = v
           /\ \A h \in Gens \ {g} : SetSock(p, g, v).sock[h] = p.sock[h]
           /\ SetSock(p, g, v).gen = p.gen /\ SetSock(p, g, v).settled = p.settled
           /\ SetSock(p, g, v).retried = p.retried /\ SetSock(p, g, v).uvi = p.uvi
           /\ SetSock(p, g, v).viewer = p.viewer /\ SetSock(p, g, v).ws = p.ws
           /\ SetSock(p, g, v).timer = p.timer /\ SetSock(p, g, v).start = p.start
           /\ SetSock(p, g, v).polls = p.polls /\ SetSock(p, g, v).fetch = p.fetch
           /\ SetSock(p, g, v).tries = p.tries /\ SetSock(p, g, v).told = p.told
<1> DEFINE b == [p.sock EXCEPT ![g] = v]
<1>1. SetSock(p, g, v) = [p EXCEPT !.sock = b]
  BY DEF SetSock
<1>2. /\ b \in [Gens -> Socks]
      /\ b[g] = v /\ \A h \in Gens \ {g} : b[h] = p.sock[h]
  BY PageType
<1> HIDE DEF b
<1>3. SetSock(p, g, v) \in Page
  BY <1>1, <1>2, PageType
<1>4. SetSock(p, g, v).sock = b
  BY <1>1, PageType
<1>5. /\ SetSock(p, g, v).gen = p.gen /\ SetSock(p, g, v).settled = p.settled
      /\ SetSock(p, g, v).retried = p.retried /\ SetSock(p, g, v).uvi = p.uvi
      /\ SetSock(p, g, v).viewer = p.viewer /\ SetSock(p, g, v).ws = p.ws
      /\ SetSock(p, g, v).timer = p.timer /\ SetSock(p, g, v).start = p.start
      /\ SetSock(p, g, v).polls = p.polls /\ SetSock(p, g, v).fetch = p.fetch
      /\ SetSock(p, g, v).tries = p.tries /\ SetSock(p, g, v).told = p.told
  BY <1>1, PageType
<1> QED BY <1>2, <1>3, <1>4, <1>5

LEMMA SetPollsFields ==
    ASSUME NEW p \in Page, NEW g \in Gens,
           NEW v \in 0 .. MaxPolls
    PROVE  /\ SetPolls(p, g, v) \in Page /\ SetPolls(p, g, v).polls[g] = v
           /\ \A h \in Gens \ {g} : SetPolls(p, g, v).polls[h] = p.polls[h]
           /\ SetPolls(p, g, v).gen = p.gen /\ SetPolls(p, g, v).settled = p.settled
           /\ SetPolls(p, g, v).retried = p.retried /\ SetPolls(p, g, v).uvi = p.uvi
           /\ SetPolls(p, g, v).viewer = p.viewer /\ SetPolls(p, g, v).ws = p.ws
           /\ SetPolls(p, g, v).timer = p.timer /\ SetPolls(p, g, v).start = p.start
           /\ SetPolls(p, g, v).sock = p.sock /\ SetPolls(p, g, v).fetch = p.fetch
           /\ SetPolls(p, g, v).tries = p.tries /\ SetPolls(p, g, v).told = p.told
<1> DEFINE b == [p.polls EXCEPT ![g] = v]
<1>1. SetPolls(p, g, v) = [p EXCEPT !.polls = b]
  BY DEF SetPolls
<1>2. /\ b \in [Gens -> 0 .. MaxPolls]
      /\ b[g] = v /\ \A h \in Gens \ {g} : b[h] = p.polls[h]
  BY PageType
<1> HIDE DEF b
<1>3. SetPolls(p, g, v) \in Page
  BY <1>1, <1>2, PageType
<1>4. SetPolls(p, g, v).polls = b
  BY <1>1, PageType
<1>5. /\ SetPolls(p, g, v).gen = p.gen /\ SetPolls(p, g, v).settled = p.settled
      /\ SetPolls(p, g, v).retried = p.retried /\ SetPolls(p, g, v).uvi = p.uvi
      /\ SetPolls(p, g, v).viewer = p.viewer /\ SetPolls(p, g, v).ws = p.ws
      /\ SetPolls(p, g, v).timer = p.timer /\ SetPolls(p, g, v).start = p.start
      /\ SetPolls(p, g, v).sock = p.sock /\ SetPolls(p, g, v).fetch = p.fetch
      /\ SetPolls(p, g, v).tries = p.tries /\ SetPolls(p, g, v).told = p.told
  BY <1>1, PageType
<1> QED BY <1>2, <1>3, <1>4, <1>5

LEMMA SetToldFields ==
    ASSUME NEW p \in Page, NEW g \in Gens, NEW v \in Ends
    PROVE  /\ SetTold(p, g, v) \in Page /\ SetTold(p, g, v).told[g] = v
           /\ \A h \in Gens \ {g} : SetTold(p, g, v).told[h] = p.told[h]
           /\ SetTold(p, g, v).gen = p.gen /\ SetTold(p, g, v).settled = p.settled
           /\ SetTold(p, g, v).retried = p.retried /\ SetTold(p, g, v).uvi = p.uvi
           /\ SetTold(p, g, v).viewer = p.viewer /\ SetTold(p, g, v).ws = p.ws
           /\ SetTold(p, g, v).timer = p.timer /\ SetTold(p, g, v).start = p.start
           /\ SetTold(p, g, v).sock = p.sock /\ SetTold(p, g, v).polls = p.polls
           /\ SetTold(p, g, v).fetch = p.fetch /\ SetTold(p, g, v).tries = p.tries
<1> DEFINE b == [p.told EXCEPT ![g] = v]
<1>1. SetTold(p, g, v) = [p EXCEPT !.told = b]
  BY DEF SetTold
<1>2. /\ b \in [Gens -> Ends]
      /\ b[g] = v /\ \A h \in Gens \ {g} : b[h] = p.told[h]
  BY PageType
<1> HIDE DEF b
<1>3. SetTold(p, g, v) \in Page
  BY <1>1, <1>2, PageType
<1>4. SetTold(p, g, v).told = b
  BY <1>1, PageType
<1>5. /\ SetTold(p, g, v).gen = p.gen /\ SetTold(p, g, v).settled = p.settled
      /\ SetTold(p, g, v).retried = p.retried /\ SetTold(p, g, v).uvi = p.uvi
      /\ SetTold(p, g, v).viewer = p.viewer /\ SetTold(p, g, v).ws = p.ws
      /\ SetTold(p, g, v).timer = p.timer /\ SetTold(p, g, v).start = p.start
      /\ SetTold(p, g, v).sock = p.sock /\ SetTold(p, g, v).polls = p.polls
      /\ SetTold(p, g, v).fetch = p.fetch /\ SetTold(p, g, v).tries = p.tries
  BY <1>1, PageType
<1> QED BY <1>2, <1>3, <1>4, <1>5

LEMMA GotoFields ==
    ASSUME NEW p \in Page, NEW g \in Gens, NEW i \in Slots,
           NEW v \in Phases
    PROVE  /\ Goto(p, g, i, v) \in Page /\ Goto(p, g, i, v).fetch[g][i] = v
           /\ \A j \in Slots \ {i} : Goto(p, g, i, v).fetch[g][j] = p.fetch[g][j]
           /\ \A h \in Gens \ {g} : Goto(p, g, i, v).fetch[h] = p.fetch[h]
           /\ Goto(p, g, i, v).gen = p.gen /\ Goto(p, g, i, v).settled = p.settled
           /\ Goto(p, g, i, v).retried = p.retried /\ Goto(p, g, i, v).uvi = p.uvi
           /\ Goto(p, g, i, v).viewer = p.viewer /\ Goto(p, g, i, v).ws = p.ws
           /\ Goto(p, g, i, v).timer = p.timer /\ Goto(p, g, i, v).start = p.start
           /\ Goto(p, g, i, v).sock = p.sock /\ Goto(p, g, i, v).polls = p.polls
           /\ Goto(p, g, i, v).tries = p.tries /\ Goto(p, g, i, v).told = p.told
<1> DEFINE b == [p.fetch EXCEPT ![g] = [@ EXCEPT ![i] = v]]
<1>1. Goto(p, g, i, v) = [p EXCEPT !.fetch = b]
  BY DEF Goto
<1>2. /\ b \in [Gens -> [Slots -> Phases]]
      /\ b[g][i] = v /\ \A j \in Slots \ {i} : b[g][j] = p.fetch[g][j]
      /\ \A h \in Gens \ {g} : b[h] = p.fetch[h]
  BY PageType
<1> HIDE DEF b
<1>3. Goto(p, g, i, v) \in Page
  BY <1>1, <1>2, PageType
<1>4. Goto(p, g, i, v).fetch = b
  BY <1>1, PageType
<1>5. /\ Goto(p, g, i, v).gen = p.gen /\ Goto(p, g, i, v).settled = p.settled
      /\ Goto(p, g, i, v).retried = p.retried /\ Goto(p, g, i, v).uvi = p.uvi
      /\ Goto(p, g, i, v).viewer = p.viewer /\ Goto(p, g, i, v).ws = p.ws
      /\ Goto(p, g, i, v).timer = p.timer /\ Goto(p, g, i, v).start = p.start
      /\ Goto(p, g, i, v).sock = p.sock /\ Goto(p, g, i, v).polls = p.polls
      /\ Goto(p, g, i, v).tries = p.tries /\ Goto(p, g, i, v).told = p.told
  BY <1>1, PageType
<1> QED BY <1>2, <1>3, <1>4, <1>5

LEMMA SetTriesFields ==
    ASSUME NEW p \in Page, NEW g \in Gens, NEW i \in Slots,
           NEW v \in 0 .. MaxTries
    PROVE  /\ SetTries(p, g, i, v) \in Page /\ SetTries(p, g, i, v).tries[g][i] = v
           /\ \A j \in Slots \ {i} : SetTries(p, g, i, v).tries[g][j] = p.tries[g][j]
           /\ \A h \in Gens \ {g} : SetTries(p, g, i, v).tries[h] = p.tries[h]
           /\ SetTries(p, g, i, v).gen = p.gen
           /\ SetTries(p, g, i, v).settled = p.settled
           /\ SetTries(p, g, i, v).retried = p.retried
           /\ SetTries(p, g, i, v).uvi = p.uvi /\ SetTries(p, g, i, v).viewer = p.viewer
           /\ SetTries(p, g, i, v).ws = p.ws /\ SetTries(p, g, i, v).timer = p.timer
           /\ SetTries(p, g, i, v).start = p.start /\ SetTries(p, g, i, v).sock = p.sock
           /\ SetTries(p, g, i, v).polls = p.polls
           /\ SetTries(p, g, i, v).fetch = p.fetch /\ SetTries(p, g, i, v).told = p.told
<1> DEFINE b == [p.tries EXCEPT ![g] = [@ EXCEPT ![i] = v]]
<1>1. SetTries(p, g, i, v) = [p EXCEPT !.tries = b]
  BY DEF SetTries
<1>2. /\ b \in [Gens ->
                  [Slots -> 0 .. MaxTries]]
      /\ b[g][i] = v /\ \A j \in Slots \ {i} : b[g][j] = p.tries[g][j]
      /\ \A h \in Gens \ {g} : b[h] = p.tries[h]
  BY PageType
<1> HIDE DEF b
<1>3. SetTries(p, g, i, v) \in Page
  BY <1>1, <1>2, PageType
<1>4. SetTries(p, g, i, v).tries = b
  BY <1>1, PageType
<1>5. /\ SetTries(p, g, i, v).gen = p.gen
      /\ SetTries(p, g, i, v).settled = p.settled
      /\ SetTries(p, g, i, v).retried = p.retried
      /\ SetTries(p, g, i, v).uvi = p.uvi /\ SetTries(p, g, i, v).viewer = p.viewer
      /\ SetTries(p, g, i, v).ws = p.ws /\ SetTries(p, g, i, v).timer = p.timer
      /\ SetTries(p, g, i, v).start = p.start /\ SetTries(p, g, i, v).sock = p.sock
      /\ SetTries(p, g, i, v).polls = p.polls
      /\ SetTries(p, g, i, v).fetch = p.fetch /\ SetTries(p, g, i, v).told = p.told
  BY <1>1, PageType
<1> QED BY <1>2, <1>3, <1>4, <1>5

-----------------------------------------------------------------------------
(***************************************************************************)
(* The invariant of the page: nothing is there of a generation to come;    *)
(* what is shown and what polls is of the current one; a socket that is    *)
(* open has no polls beside it; an end that was told has settled the page; *)
(* a download follows such an end; and a slot is left for every download   *)
(* that the polls in flight may begin.                                     *)
(***************************************************************************)

Fresh(p) == \A g \in Gens : g > p.gen =>
    p.start[g] = "none" /\ p.sock[g] = "none" /\ p.polls[g] = 0 /\ p.told[g] = "none"
    /\ Used(p, g) = {}

Current(p) ==
    /\ p.viewer \in {0, p.gen}
    /\ p.timer \in {0, p.gen}
    /\ p.settled => p.timer = 0

Early(p, g) == p.start[g] # "watch"
Quiet(p, g) == p.polls[g] = 0 /\ p.timer # g

Sockets(p) == \A g \in Gens :
    /\ Early(p, g) => p.sock[g] = "none" /\ Quiet(p, g)
    /\ p.sock[g] = "open" => Quiet(p, g)
    /\ p.sock[g] = "closing" => g # p.gen \/ p.settled

Told(p) == \A g \in Gens :
    /\ Early(p, g) => p.told[g] = "none"
    /\ g = p.gen /\ Used(p, g) # {} => p.told[g] # "none"
    /\ g = p.gen /\ p.told[g] # "none" => p.settled /\ p.polls[g] < MaxPolls

Room(p) == \A g \in Gens : g = p.gen =>
    /\ ~p.settled => Used(p, g) = {}
    /\ Cardinality(Used(p, g)) + p.polls[g] <= MaxPolls

Good(p) == p \in Page /\ Fresh(p) /\ Current(p) /\ Sockets(p) /\ Told(p) /\ Room(p)

\* The generation at work is one the user or the single retry has started.
Counted(p, n) ==
    /\ p.gen <= 2 * n
    /\ p.gen > 0 /\ ~p.retried => p.gen < 2 * n

LEMMA GoodNumbers ==
    ASSUME NEW p \in Page
    PROVE  /\ p.gen \in {0} \cup Gens /\ p.gen \in Nat
           /\ \A g \in Gens : p.polls[g] \in 0 .. MaxPolls /\ p.polls[g] \in Nat
           /\ p.settled \in BOOLEAN /\ p.retried \in BOOLEAN /\ p.uvi \in BOOLEAN
  BY Bounds, PageType

\* A page that differs only in the busy figure, the retry, the socket variable
\* or the counts of the retries is as good.
LEMMA GoodAlike ==
    ASSUME NEW p, NEW q \in Page, Good(p),
           q.gen = p.gen, q.settled = p.settled, q.timer = p.timer,
           q.viewer \in {p.viewer, p.gen},
           q.start = p.start, q.sock = p.sock, q.polls = p.polls, q.fetch = p.fetch,
           q.told = p.told
    PROVE  Good(q)
<1>1. \A g \in Gens : Used(q, g) = Used(p, g)
  BY DEF Used
<1> QED BY <1>1 DEF Good, Fresh, Current, Sockets, Early, Quiet, Told, Room

LEMMA GoodHideOwn ==
    ASSUME NEW p, Good(p), NEW g \in Gens
    PROVE  Good(HideOwn(p, g))
<1>1. p \in Page
  BY DEF Good
<1> QED BY <1>1, GoodAlike, HideOwnFields

LEMMA GoodTold ==
    ASSUME NEW p, Good(p), NEW g \in Gens, ~Early(p, g), NEW s \in Ends \ {"none"},
           g = p.gen => p.settled /\ p.polls[g] < MaxPolls
    PROVE  Good(SetTold(p, g, s))
<1> DEFINE q == SetTold(p, g, s)
<1>1. p \in Page /\ s \in Ends /\ s # "none"
  BY DEF Good
<1>2. /\ q \in Page /\ q.told[g] = s /\ \A h \in Gens \ {g} : q.told[h] = p.told[h]
      /\ q.gen = p.gen /\ q.settled = p.settled /\ q.timer = p.timer
      /\ q.viewer = p.viewer /\ q.start = p.start /\ q.sock = p.sock
      /\ q.polls = p.polls /\ q.fetch = p.fetch
  BY <1>1, SetToldFields
<1> HIDE DEF q
<1>3. \A h \in Gens : Used(q, h) = Used(p, h)
  BY <1>2 DEF Used
<1>4. ~(g > p.gen)
  BY DEF Good, Fresh, Early
<1>5. Good(q)
  BY <1>1, <1>2, <1>3, <1>4 DEF Good, Fresh, Current, Sockets, Early, Quiet, Told, Room
<1> QED BY <1>5 DEF q

LEMMA GoodStopLive ==
    ASSUME NEW p, Good(p)
    PROVE  Good(StopLive(p))
<1> DEFINE q == StopLive(p)
<1>1. /\ q \in Page /\ q.settled /\ q.timer = 0 /\ q.gen = p.gen
      /\ q.viewer = p.viewer /\ q.start = p.start /\ q.polls = p.polls
      /\ q.fetch = p.fetch /\ q.told = p.told
      /\ \A g \in Gens : \/ q.sock[g] = p.sock[g]
                         \/ p.sock[g] = "open" /\ q.sock[g] = "closing"
  <2>1. p \in Page
    BY DEF Good
  <2> QED BY <2>1, StopLiveFields
<1>2. \A g \in Gens : Used(q, g) = Used(p, g) /\ g # 0
  BY <1>1, Bounds DEF Used
<1> HIDE DEF q
<1>3. Good(q)
  BY <1>1, <1>2 DEF Good, Fresh, Current, Sockets, Early, Quiet, Told, Room
<1> QED BY <1>3 DEF q

LEMMA GoodStartJob ==
    ASSUME NEW p, Good(p), p.gen < 2 * MaxSubmits
    PROVE  Good(StartJob(p))
<1> DEFINE q == StartJob(p)
           n == p.gen + 1
<1>1. /\ q \in Page /\ ~q.settled /\ q.timer = 0 /\ q.gen = n /\ n \in Gens
      /\ q.viewer = 0 /\ q.polls = p.polls /\ q.fetch = p.fetch /\ q.told = p.told
      /\ q.start[n] = "health" /\ \A g \in Gens \ {n} : q.start[g] = p.start[g]
      /\ \A g \in Gens : \/ q.sock[g] = p.sock[g]
                         \/ p.sock[g] = "open" /\ q.sock[g] = "closing"
  <2>1. p \in Page
    BY DEF Good
  <2>2. p.start \in [Gens -> Starts]
    BY <2>1, PageType
  <2> QED BY <2>1, <2>2, StartJobFields
<1>2. \A g \in Gens : Used(q, g) = Used(p, g) /\ g # 0
  BY <1>1, Bounds DEF Used
<1>3. p.gen \in Nat /\ p \in Page /\ \A g \in Gens : g \in Nat
  BY GoodNumbers, Bounds DEF Good
<1>4. /\ n > p.gen /\ \A g \in Gens : g > n => g > p.gen
      /\ p.sock[n] = "none" /\ p.polls[n] = 0 /\ Used(p, n) = {}
  BY <1>1, <1>3 DEF Good, Fresh
<1> HIDE DEF q, n
<1>5. Fresh(q) /\ Current(q)
  BY <1>1, <1>2, <1>3, <1>4 DEF Good, Fresh, Current
<1>6. Sockets(q)
  BY <1>1, <1>2, <1>4 DEF Good, Sockets, Early, Quiet
<1>9. Told(q)
  BY <1>1, <1>2, <1>4 DEF Good, Fresh, Told, Early
<1>7. Room(q)
  <2>1. Cardinality(Used(q, n)) = 0
    BY <1>2, <1>4, <1>1, UsedCount
  <2> QED BY <1>1, <1>2, <1>4, <2>1, Bounds DEF Room
<1>8. Good(q)
  BY <1>1, <1>5, <1>6, <1>7, <1>9 DEF Good
<1> QED BY <1>8 DEF q

LEMMA GoodBeginFetch ==
    ASSUME NEW p, Good(p), NEW g \in Gens,
           g = p.gen => /\ p.settled /\ p.told[g] # "none"
                        /\ Cardinality(Used(p, g)) + p.polls[g] < MaxPolls
    PROVE  Good(BeginFetch(p, g))
<1>1. CASE g # p.gen
  BY <1>1 DEF BeginFetch
<1>2. CASE g = p.gen
  <2> DEFINE q == BeginFetch(p, g)
  <2>1. /\ p \in Page /\ p.polls[g] \in Nat
        /\ Cardinality(Used(p, g)) \in Nat /\ Cardinality(Used(p, g)) < MaxPolls
    BY <1>2, GoodNumbers, UsedCount, Bounds DEF Good
  <2>2. /\ q \in Page /\ q.gen = p.gen /\ q.settled = p.settled /\ q.timer = p.timer
        /\ q.viewer = p.viewer /\ q.start = p.start /\ q.sock = p.sock
        /\ q.polls = p.polls /\ q.told = p.told
        /\ \A h \in Gens \ {g} : q.fetch[h] = p.fetch[h]
    BY <1>2, <2>1, BeginFetchFields
  <2>3. PICK i \in Slots : /\ p.fetch[g][i] = "none"
                           /\ q.fetch[g] = [p.fetch[g] EXCEPT ![i] = "health"]
    BY <1>2, <2>1, BeginFetchFields
  <2> HIDE DEF q
  <2>4. p.fetch[g] \in [Slots -> Phases]
    BY <2>1, PageType
  <2>5. Used(q, g) = Used(p, g) \cup {i} /\ i \notin Used(p, g)
    BY <2>3, <2>4 DEF Used
  <2>6. Cardinality(Used(q, g)) = Cardinality(Used(p, g)) + 1
    BY <2>5, UsedCount, FS_AddElement
  <2>7. \A h \in Gens \ {g} : Used(q, h) = Used(p, h)
    BY <2>2 DEF Used
  <2>8. Fresh(q) /\ Current(q) /\ Sockets(q) /\ Told(q)
    BY <1>2, <2>2, <2>7, GoodNumbers, Bounds
       DEF Good, Fresh, Current, Sockets, Early, Quiet, Told
  <2>9. Room(q)
    BY <1>2, <2>1, <2>2, <2>6, Bounds DEF Room
  <2>10. Good(q)
    BY <2>2, <2>8, <2>9 DEF Good
  <2> QED BY <2>10 DEF q
<1> QED BY <1>1, <1>2

LEMMA GoodStartPolling ==
    ASSUME NEW p, Good(p), NEW g \in Gens, ~Early(p, g), p.sock[g] # "open"
    PROVE  Good(StartPolling(p, g))
<1>1. CASE StartPolling(p, g) = p
  BY <1>1
<1>2. CASE StartPolling(p, g) # p
  <2> DEFINE q == StartPolling(p, g)
  <2>1. /\ p \in Page /\ q \in Page /\ q.gen = p.gen /\ ~p.settled /\ ~q.settled
        /\ q.timer = g /\ g = p.gen
        /\ q.viewer = p.viewer /\ q.start = p.start /\ q.sock = p.sock
        /\ q.fetch = p.fetch /\ q.told = p.told
        /\ \A h \in Gens \ {g} : q.polls[h] = p.polls[h]
    BY <1>2, StartPollingFields DEF Good
  <2>2. /\ q.polls[g] \in 0 .. MaxPolls /\ g \in Nat
        /\ \A h \in Gens : h \in Nat
    BY <2>1, GoodNumbers, Bounds
  <2>3. \A h \in Gens : Used(q, h) = Used(p, h)
    BY <2>1 DEF Used
  <2> HIDE DEF q
  <2>4. Fresh(q) /\ Current(q)
    BY <2>1, <2>2, <2>3 DEF Good, Fresh, Current
  <2>5. Sockets(q) /\ Told(q)
    BY <2>1, <2>2, <2>3 DEF Good, Sockets, Early, Quiet, Told
  <2>6. Room(q)
    <3>1. Used(q, g) = {} /\ Cardinality(Used(q, g)) = 0
      BY <2>1, <2>3, UsedCount DEF Good, Room
    <3> QED BY <2>1, <2>2, <3>1, Bounds DEF Room
  <2>7. Good(q)
    BY <2>1, <2>4, <2>5, <2>6 DEF Good
  <2> QED BY <2>7 DEF q
<1> QED BY <1>1, <1>2

LEMMA GoodSetStart ==
    ASSUME NEW p, Good(p), NEW g \in Gens, p.start[g] \in {"health", "post"}, NEW v \in Starts,
           v # "none"
    PROVE  Good(SetStart(p, g, v))
<1> DEFINE q == SetStart(p, g, v)
<1>1. p \in Page
  BY DEF Good
<1>2. /\ q \in Page /\ q.start[g] = v /\ \A h \in Gens \ {g} : q.start[h] = p.start[h]
      /\ q.gen = p.gen /\ q.settled = p.settled /\ q.timer = p.timer
      /\ q.viewer = p.viewer /\ q.told = p.told /\ q.sock = p.sock
      /\ q.polls = p.polls /\ q.fetch = p.fetch
  BY <1>1, SetStartFields
<1> HIDE DEF q
<1>3. \A h \in Gens : Used(q, h) = Used(p, h)
  BY <1>2 DEF Used
<1>4. ~(g > p.gen)
  BY DEF Good, Fresh
<1>5. \A h \in Gens : Early(q, h) => Early(p, h)
  BY <1>1, <1>2 DEF Early
<1>6. Fresh(q) /\ Current(q) /\ Sockets(q)
  BY <1>2, <1>3, <1>4, <1>5 DEF Good, Fresh, Current, Sockets, Quiet
<1>7. Told(q) /\ Room(q)
  BY <1>2, <1>3, <1>5 DEF Good, Told, Room
<1>8. Good(q)
  BY <1>2, <1>6, <1>7 DEF Good
<1> QED BY <1>8 DEF q

LEMMA GoodSetSock ==
    ASSUME NEW p, Good(p), NEW g \in Gens, ~Early(p, g), NEW v \in {"open", "closed"},
           v = "open" => Quiet(p, g)
    PROVE  Good(SetSock(p, g, v))
<1> DEFINE q == SetSock(p, g, v)
<1>1. p \in Page /\ v \in Socks
  BY DEF Good, Socks
<1>2. /\ q \in Page /\ q.sock[g] = v /\ \A h \in Gens \ {g} : q.sock[h] = p.sock[h]
      /\ q.gen = p.gen /\ q.settled = p.settled /\ q.timer = p.timer
      /\ q.viewer = p.viewer /\ q.told = p.told /\ q.start = p.start
      /\ q.polls = p.polls /\ q.fetch = p.fetch
  BY <1>1, SetSockFields
<1> HIDE DEF q
<1>3. \A h \in Gens : Used(q, h) = Used(p, h)
  BY <1>2 DEF Used
<1>4. ~(g > p.gen)
  BY DEF Good, Fresh, Early
<1>5. \A h \in Gens : (Early(q, h) <=> Early(p, h)) /\ (Quiet(q, h) <=> Quiet(p, h))
  BY <1>2 DEF Early, Quiet
<1>6. Fresh(q) /\ Current(q)
  BY <1>2, <1>3, <1>4 DEF Good, Fresh, Current
<1>7. Sockets(q)
  BY <1>2, <1>5 DEF Good, Sockets
<1>8. Told(q) /\ Room(q)
  BY <1>2, <1>3, <1>5 DEF Good, Told, Room
<1>9. Good(q)
  BY <1>2, <1>6, <1>7, <1>8 DEF Good
<1> QED BY <1>9 DEF q

\* One poll less, or one more of an interval that runs.
LEMMA GoodSetPolls ==
    ASSUME NEW p, Good(p), NEW g \in Gens, NEW n \in 0 .. MaxPolls,
           n < p.polls[g] \/ p.timer = g
    PROVE  Good(SetPolls(p, g, n))
<1> DEFINE q == SetPolls(p, g, n)
<1>1. p \in Page /\ p.polls[g] \in Nat /\ n \in Nat
  BY GoodNumbers, Bounds DEF Good
<1>2. /\ q \in Page /\ q.polls[g] = n /\ \A h \in Gens \ {g} : q.polls[h] = p.polls[h]
      /\ q.gen = p.gen /\ q.settled = p.settled /\ q.timer = p.timer
      /\ q.viewer = p.viewer /\ q.told = p.told /\ q.start = p.start
      /\ q.sock = p.sock /\ q.fetch = p.fetch
  BY <1>1, SetPollsFields
<1> HIDE DEF q
<1>3. \A h \in Gens : Used(q, h) = Used(p, h)
  BY <1>2 DEF Used
<1>4. \/ p.polls[g] # 0 /\ n < p.polls[g]
      \/ p.timer = g /\ g = p.gen /\ ~p.settled /\ g # 0
  BY <1>1, Bounds DEF Good, Current
<1>5. ~(g > p.gen) /\ ~Early(p, g) /\ p.sock[g] # "open"
  BY <1>1, <1>4, GoodNumbers, Bounds DEF Good, Fresh, Sockets, Quiet
<1>6. \A h \in Gens : /\ Early(q, h) <=> Early(p, h)
                      /\ h # g => (Quiet(q, h) <=> Quiet(p, h))
  BY <1>2 DEF Early, Quiet
<1>7. Fresh(q) /\ Current(q)
  BY <1>2, <1>3, <1>5 DEF Good, Fresh, Current
<1>8. Sockets(q) /\ Told(q)
  <2>1. Sockets(q)
    BY <1>2, <1>5, <1>6 DEF Good, Sockets
  <2>2. g = p.gen /\ p.told[g] # "none" => n < MaxPolls
    BY <1>1, <1>4, Bounds DEF Good, Told
  <2>3. Told(q)
    BY <1>2, <1>3, <1>6, <2>2 DEF Good, Told
  <2> QED BY <2>1, <2>3
<1>9. Room(q)
  <2>1. CASE g # p.gen
    BY <1>2, <1>3, <2>1 DEF Good, Room
  <2>2. CASE g = p.gen
    <3>1. Cardinality(Used(p, g)) \in Nat /\ Cardinality(Used(p, g)) + p.polls[g] <= MaxPolls
          /\ (~p.settled => Used(p, g) = {} /\ Cardinality(Used(p, g)) = 0)
      BY <2>2, UsedCount, Bounds DEF Good, Room
    <3>2. Cardinality(Used(p, g)) + n <= MaxPolls
      BY <1>1, <1>4, <3>1, Bounds
    <3> QED BY <1>2, <1>3, <2>2, <3>1, <3>2 DEF Room
  <2> QED BY <2>1, <2>2
<1>10. Good(q)
  BY <1>2, <1>7, <1>8, <1>9 DEF Good
<1> QED BY <1>10 DEF q

LEMMA GoodGoto ==
    ASSUME NEW p, Good(p), NEW g \in Gens, NEW i \in Slots,
           p.fetch[g][i] # "none", NEW v \in Phases \ {"none"}
    PROVE  Good(Goto(p, g, i, v))
<1> DEFINE q == Goto(p, g, i, v)
<1>1. p \in Page /\ v \in Phases /\ v # "none"
  BY DEF Good
<1>2. /\ q \in Page /\ q.fetch[g][i] = v
      /\ \A j \in Slots \ {i} : q.fetch[g][j] = p.fetch[g][j]
      /\ \A h \in Gens \ {g} : q.fetch[h] = p.fetch[h]
      /\ q.gen = p.gen /\ q.settled = p.settled /\ q.timer = p.timer
      /\ q.viewer = p.viewer /\ q.told = p.told /\ q.start = p.start
      /\ q.sock = p.sock /\ q.polls = p.polls
  BY <1>1, GotoFields
<1> HIDE DEF q
<1>3. Used(q, g) = Used(p, g) /\ \A h \in Gens \ {g} : Used(q, h) = Used(p, h)
  BY <1>1, <1>2 DEF Used
<1>4. Good(q)
  BY <1>2, <1>3 DEF Good, Fresh, Current, Sockets, Early, Quiet, Told, Room
<1> QED BY <1>4 DEF q

\* What a callback that is told status s makes of the page.
LEMMA OnEventCases ==
    ASSUME NEW p \in Page, NEW g \in Gens, NEW s
    PROVE  \/ OnEvent(p, g, s) = p
           \/ /\ g = p.gen /\ ~p.settled
              /\ \/ /\ s = "expired" /\ ~p.retried
                    /\ OnEvent(p, g, s) = StartJob(SetRetried(StopLive(p), TRUE))
                 \/ /\ s = "done"
                    /\ OnEvent(p, g, s) = BeginFetch(SetTold(StopLive(p), g, s), g)
                 \/ /\ s \in {"failed", "expired"}
                    /\ OnEvent(p, g, s) = HideOwn(SetTold(StopLive(p), g, s), g)
  BY DEF OnEvent, SetRetried, SetTold, IsTerminal

LEMMA EarlyStopLive ==
    ASSUME NEW p \in Page, NEW g \in Gens
    PROVE  Early(StopLive(p), g) <=> Early(p, g)
  BY StopLiveFields DEF Early

\* The page that follows the current job has a socket or an interval for it.
Watch(p) == \A g \in Gens : g = p.gen /\ p.start[g] = "watch" /\ ~p.settled =>
    p.sock[g] \in {"open", "closing"} \/ p.timer = g

Kept(p, n) == Good(p) /\ Watch(p) /\ Counted(p, n)

LEMMA KeptAlike ==
    ASSUME NEW p, NEW q, NEW n, Kept(p, n), Good(q),
           q.gen = p.gen, q.retried = p.retried, p.settled => q.settled,
           q.settled \/ (q.timer = p.timer /\ q.sock = p.sock),
           \A g \in Gens : q.start[g] = "watch" => p.start[g] = "watch"
    PROVE  Kept(q, n)
<1>1. Watch(q)
  BY DEF Kept, Watch
<1>2. Counted(q, n)
  BY DEF Kept, Counted
<1> QED BY <1>1, <1>2 DEF Kept

LEMMA KeptStopLive ==
    ASSUME NEW p, NEW n, Kept(p, n)
    PROVE  Kept(StopLive(p), n)
<1>1. p \in Page /\ Good(p)
  BY DEF Kept, Good
<1>2. Good(StopLive(p))
  BY <1>1, GoodStopLive
<1>3. /\ StopLive(p).settled /\ StopLive(p).gen = p.gen
      /\ StopLive(p).retried = p.retried /\ StopLive(p).start = p.start
  BY <1>1, StopLiveFields
<1> QED BY <1>2, <1>3, KeptAlike

\* A submission, and the single retry of one.
LEMMA KeptStartJob ==
    ASSUME NEW p, NEW n \in Nat, NEW b \in BOOLEAN, Good(p), p.gen < 2 * MaxSubmits,
           IF b THEN p.gen < 2 * n ELSE p.gen + 1 < 2 * n
    PROVE  Kept(StartJob(SetRetried(p, b)), n)
<1>1. p \in Page
  BY DEF Good
<1> DEFINE r == SetRetried(p, b)
           q == StartJob(r)
<1>2. /\ r \in Page /\ r.retried = b /\ r.gen = p.gen /\ r.settled = p.settled
      /\ r.timer = p.timer /\ r.viewer = p.viewer /\ r.told = p.told /\ r.start = p.start
      /\ r.sock = p.sock /\ r.polls = p.polls /\ r.fetch = p.fetch
  BY <1>1, SetRetriedFields
<1> HIDE DEF r
<1>3. Good(r)
  BY <1>2, GoodAlike
<1>4. Good(q)
  BY <1>2, <1>3, GoodStartJob
<1>5. /\ q.gen = p.gen + 1 /\ q.retried = b
      /\ q.start = [p.start EXCEPT ![p.gen + 1] = "health"]
  BY <1>2, StartJobFields
<1>6. p.gen \in Nat /\ p.start \in [Gens -> Starts]
  BY <1>1, GoodNumbers, PageType
<1> HIDE DEF q
<1>7. Watch(q) /\ Counted(q, n)
  BY <1>5, <1>6 DEF Watch, Counted
<1> QED BY <1>4, <1>7 DEF Kept, q, r

\* The end of the job is told: the page stops following it.
LEMMA KeptEnd ==
    ASSUME NEW p, NEW n, Kept(p, n), NEW g \in Gens, ~Early(p, g),
           NEW s \in Ends \ {"none"}, g = p.gen => p.polls[g] < MaxPolls
    PROVE  /\ Kept(HideOwn(SetTold(StopLive(p), g, s), g), n)
           /\ (g = p.gen => Cardinality(Used(p, g)) + p.polls[g] < MaxPolls)
                => Kept(BeginFetch(SetTold(StopLive(p), g, s), g), n)
<1> DEFINE l == StopLive(p)
           t == SetTold(l, g, s)
<1>1. p \in Page /\ s \in Ends
  BY DEF Kept, Good
<1>2. /\ Kept(l, n) /\ l \in Page /\ ~Early(l, g) /\ l.settled /\ l.gen = p.gen
      /\ l.polls = p.polls /\ l.fetch = p.fetch
  BY <1>1, KeptStopLive, StopLiveFields, EarlyStopLive
<1> HIDE DEF l
<1>3. /\ t \in Page /\ t.settled /\ t.gen = p.gen /\ t.polls = p.polls /\ t.fetch = p.fetch
      /\ t.told[g] = s /\ t.start = l.start /\ t.retried = l.retried
  BY <1>1, <1>2, SetToldFields
<1>4. Good(t)
  BY <1>2, GoodTold DEF Kept
<1> HIDE DEF t
<1>5. Kept(t, n)
  BY <1>2, <1>3, <1>4, KeptAlike
<1>6. Kept(HideOwn(t, g), n)
  <2>1. Good(HideOwn(t, g))
    BY <1>4, GoodHideOwn
  <2> QED BY <1>3, <1>5, <2>1, HideOwnFields, KeptAlike
<1>7. ASSUME g = p.gen => Cardinality(Used(p, g)) + p.polls[g] < MaxPolls
      PROVE  Kept(BeginFetch(t, g), n)
  <2>1. Used(t, g) = Used(p, g)
    BY <1>3 DEF Used
  <2>2. Good(BeginFetch(t, g))
    BY <1>3, <1>4, <1>7, <2>1, GoodBeginFetch
  <2>3. g = t.gen => Cardinality(Used(t, g)) < MaxPolls
    BY <1>1, <1>3, <1>7, <2>1, UsedCount, GoodNumbers, Bounds
  <2>4. /\ BeginFetch(t, g).gen = t.gen /\ BeginFetch(t, g).retried = t.retried
        /\ BeginFetch(t, g).settled = t.settled /\ BeginFetch(t, g).start = t.start
    BY <1>3, <2>3, BeginFetchFields
  <2> QED BY <1>3, <1>5, <2>2, <2>4, KeptAlike
<1> QED BY <1>6, <1>7 DEF t, l

LEMMA KeptOnEvent ==
    ASSUME NEW p, NEW n \in 0 .. MaxSubmits, Kept(p, n), NEW g \in Gens, ~Early(p, g),
           NEW s, p.polls[g] < MaxPolls
    PROVE  Kept(OnEvent(p, g, s), n)
<1>1. p \in Page /\ Good(p)
  BY DEF Kept, Good
<1>2. ASSUME g = p.gen, ~p.retried
      PROVE  Kept(StartJob(SetRetried(StopLive(p), TRUE)), n)
  <2> DEFINE l == StopLive(p)
  <2>1. Good(l) /\ l.gen = p.gen
    BY <1>1, GoodStopLive, StopLiveFields
  <2>2. p.gen < 2 * n /\ n \in Nat /\ p.gen < 2 * MaxSubmits
    BY <1>1, <1>2, GoodNumbers, Bounds DEF Kept, Counted
  <2> HIDE DEF l
  <2>3. Kept(StartJob(SetRetried(l, TRUE)), n)
    BY <2>1, <2>2, KeptStartJob
  <2> QED BY <2>3 DEF l
<1>3. ASSUME g = p.gen, ~p.settled, s = "done"
      PROVE  Kept(BeginFetch(SetTold(StopLive(p), g, s), g), n)
  <2>1. Used(p, g) = {} /\ Cardinality(Used(p, g)) = 0
    BY <1>1, <1>3, UsedCount DEF Good, Room
  <2>2. Cardinality(Used(p, g)) + p.polls[g] < MaxPolls
    BY <1>1, <1>3, <2>1, GoodNumbers, Bounds
  <2>3. s \in Ends \ {"none"}
    BY <1>3 DEF Ends
  <2> QED BY <2>2, <2>3, KeptEnd
<1>4. ASSUME s \in {"failed", "expired"}
      PROVE  Kept(HideOwn(SetTold(StopLive(p), g, s), g), n)
  <2>1. s \in Ends \ {"none"}
    BY <1>4 DEF Ends
  <2> QED BY <2>1, KeptEnd
<1>5. CASE OnEvent(p, g, s) = p
  BY <1>5
<1>6. CASE g = p.gen /\ ~p.retried /\ OnEvent(p, g, s) = StartJob(SetRetried(StopLive(p), TRUE))
  BY <1>2, <1>6
<1>7. CASE g = p.gen /\ ~p.settled /\ s = "done"
             /\ OnEvent(p, g, s) = BeginFetch(SetTold(StopLive(p), g, s), g)
  BY <1>3, <1>7
<1>8. CASE s \in {"failed", "expired"}
             /\ OnEvent(p, g, s) = HideOwn(SetTold(StopLive(p), g, s), g)
  BY <1>4, <1>8
<1> QED BY ZenonT(30), <1>1, <1>5, <1>6, <1>7, <1>8, OnEventCases

-----------------------------------------------------------------------------
(***************************************************************************)
(* The steps of the page.                                                  *)
(***************************************************************************)

PageInv == Kept(page, submits) /\ TypeOK

LEMMA SubmitStep ==
    ASSUME PageInv, Submit
    PROVE  Kept(page', submits')
<1>1. /\ page \in Page /\ Good(page) /\ page.gen <= 2 * submits
      /\ submits \in Nat /\ submits < MaxSubmits /\ submits' = submits + 1
  BY Bounds DEF PageInv, Kept, Good, Counted, TypeOK, Submit
<1>2. page.gen < 2 * MaxSubmits /\ page.gen + 1 < 2 * (submits + 1) /\ submits + 1 \in Nat
  BY <1>1, GoodNumbers, Bounds
<1>3. page' = StartJob(SetRetried(page, FALSE))
  BY DEF Submit, SetRetried
<1> QED BY <1>1, <1>2, <1>3, KeptStartJob

LEMMA StartHealthStep ==
    ASSUME PageInv, NEW g \in Gens, StartHealth(g)
    PROVE  Kept(page', submits')
<1>1. /\ page \in Page /\ Good(page) /\ Kept(page, submits) /\ page.start[g] = "health"
      /\ submits' = submits
  BY DEF PageInv, Kept, Good, StartHealth
<1>2. ASSUME NEW v \in {"post", "over"}
      PROVE  Kept(SetStart(page, g, v), submits) /\ Kept(HideOwn(SetStart(page, g, v), g), submits)
  <2> DEFINE q == SetStart(page, g, v)
  <2>1. v \in Starts /\ v # "watch"
    BY DEF Starts
  <2>2. Good(q)
    BY <1>1, <2>1, GoodSetStart
  <2>3. /\ q \in Page /\ q.gen = page.gen /\ q.retried = page.retried
        /\ q.settled = page.settled /\ q.timer = page.timer /\ q.sock = page.sock
        /\ q.start[g] = v /\ \A h \in Gens \ {g} : q.start[h] = page.start[h]
    BY <1>1, <2>1, SetStartFields
  <2> HIDE DEF q
  <2>4. Kept(q, submits)
    BY <1>1, <2>1, <2>2, <2>3, KeptAlike
  <2>5. Kept(HideOwn(q, g), submits)
    BY <2>2, <2>3, <2>4, GoodHideOwn, HideOwnFields, KeptAlike
  <2> QED BY <2>4, <2>5 DEF q
<1>3. \/ \E v \in {"post", "over"} : page' = SetStart(page, g, v)
      \/ page' = HideOwn(SetStart(page, g, "over"), g)
  BY DEF StartHealth, SetStart
<1> QED BY <1>1, <1>2, <1>3

LEMMA StartPostStep ==
    ASSUME PageInv, NEW g \in Gens, StartPost(g)
    PROVE  Kept(page', submits')
<1> DEFINE q == SetStart(page, g, "watch")
           e == SetStart(page, g, "over")
           w == SetWs(q, g)
<1>1. /\ page \in Page /\ Good(page) /\ Watch(page) /\ Counted(page, submits)
      /\ page.start[g] = "post" /\ submits' = submits
  BY DEF PageInv, Kept, Good, StartPost
<1>2. {"watch", "over"} \subseteq Starts /\ "open" \in Socks
  BY DEF Starts, Socks
<1>3. Good(q) /\ Good(e)
  BY <1>1, <1>2, GoodSetStart
<1>4. /\ q \in Page /\ q.gen = page.gen /\ q.retried = page.retried
      /\ q.settled = page.settled /\ q.timer = page.timer /\ q.sock = page.sock
      /\ q.start[g] = "watch" /\ \A h \in Gens \ {g} : q.start[h] = page.start[h]
      /\ q.viewer = page.viewer /\ q.polls = page.polls /\ q.fetch = page.fetch
      /\ q.told = page.told
  BY <1>1, <1>2, SetStartFields
<1>5. /\ e \in Page /\ e.gen = page.gen /\ e.retried = page.retried
      /\ e.settled = page.settled /\ e.timer = page.timer /\ e.sock = page.sock
      /\ e.start[g] = "over" /\ \A h \in Gens \ {g} : e.start[h] = page.start[h]
  BY <1>1, <1>2, SetStartFields
<1>6. Quiet(q, g) /\ ~Early(q, g) /\ q.sock[g] = "none"
  BY <1>1, <1>4 DEF Good, Sockets, Early, Quiet
<1>7. \/ page' = HideOwn(e, g)
      \/ page' = SetSock(w, g, "open")
      \/ page' = StartPolling(q, g)
  BY DEF StartPost, SetStart, SetWs, SetSock
<1> HIDE DEF q, e
<1>8. CASE page' = HideOwn(e, g)
  <2>1. Kept(e, submits)
    BY <1>1, <1>3, <1>5, KeptAlike DEF Kept
  <2>2. Kept(HideOwn(e, g), submits)
    BY <1>3, <1>5, <2>1, GoodHideOwn, HideOwnFields, KeptAlike
  <2> QED BY <1>1, <1>8, <2>2
<1>9. CASE page' = SetSock(w, g, "open")
  <2>1. /\ w \in Page /\ w.gen = q.gen /\ w.retried = q.retried
        /\ w.settled = q.settled /\ w.timer = q.timer /\ w.sock = q.sock
        /\ w.start = q.start /\ w.viewer = q.viewer /\ w.polls = q.polls
        /\ w.fetch = q.fetch /\ w.told = q.told
    <3>1. g \in {0} \cup Gens
      OBVIOUS
    <3> QED BY <1>4, <3>1, SetWsFields
  <2> HIDE DEF w
  <2>2. Good(w)
    BY <1>3, <2>1, GoodAlike
  <2>7. ~Early(w, g) /\ Quiet(w, g)
    BY <1>6, <2>1 DEF Early, Quiet
  <2>3. Good(page')
    BY <1>9, <2>2, <2>7, GoodSetSock
  <2>4. /\ page'.gen = w.gen /\ page'.retried = w.retried /\ page'.settled = w.settled
        /\ page'.timer = w.timer /\ page'.start = w.start /\ page'.sock[g] = "open"
        /\ \A h \in Gens \ {g} : page'.sock[h] = w.sock[h]
    BY <1>2, <1>9, <2>1, SetSockFields
  <2>5. Watch(page')
    BY <1>1, <1>4, <2>1, <2>4 DEF Watch
  <2>6. Counted(page', submits)
    BY <1>1, <1>4, <2>1, <2>4 DEF Counted
  <2> QED BY <1>1, <2>3, <2>5, <2>6 DEF Kept
<1>10. CASE page' = StartPolling(q, g)
  <2>1. Good(page')
    BY <1>3, <1>6, <1>10, GoodStartPolling
  <2>2. /\ page'.gen = q.gen /\ page'.retried = q.retried /\ page'.settled = q.settled
        /\ page'.start = q.start /\ page'.sock = q.sock
        /\ \/ page'.timer = q.timer /\ (q.timer # 0 \/ q.settled \/ g # q.gen)
           \/ page'.timer = g /\ g = q.gen
    BY <1>4, <1>10, StartPollingFields
  <2>3. q.timer \in {0, q.gen}
    BY <1>3 DEF Good, Current
  <2>4. Watch(page')
    BY <1>1, <1>4, <2>2, <2>3 DEF Watch
  <2>5. Counted(page', submits)
    BY <1>1, <1>4, <2>2 DEF Counted
  <2> QED BY <1>1, <2>1, <2>4, <2>5 DEF Kept
<1> QED BY <1>7, <1>8, <1>9, <1>10

LEMMA WsMessageStep ==
    ASSUME PageInv, NEW g \in Gens, WsMessage(g)
    PROVE  Kept(page', submits')
<1>1. /\ Kept(page, submits) /\ page.sock[g] = "open" /\ submits' = submits
      /\ submits \in 0 .. MaxSubmits /\ page' = OnEvent(page, g, job[g])
  BY DEF PageInv, TypeOK, WsMessage
<1>2. ~Early(page, g) /\ page.polls[g] < MaxPolls
  BY <1>1, Bounds DEF Kept, Good, Sockets, Early, Quiet
<1> QED BY <1>1, <1>2, KeptOnEvent

LEMMA WsCloseStep ==
    ASSUME PageInv, NEW g \in Gens, WsClose(g)
    PROVE  Kept(page', submits')
<1> DEFINE q == SetSock(page, g, "closed")
<1>1. /\ page \in Page /\ Good(page) /\ Watch(page) /\ Counted(page, submits)
      /\ page.sock[g] \in {"open", "closing"} /\ submits' = submits /\ "closed" \in Socks
  BY DEF PageInv, Kept, Good, WsClose, Socks
<1>2. ~Early(page, g)
  BY <1>1 DEF Good, Sockets
<1>3. Good(q)
  BY <1>1, <1>2, GoodSetSock
<1>4. /\ q \in Page /\ q.gen = page.gen /\ q.retried = page.retried
      /\ q.settled = page.settled /\ q.timer = page.timer /\ q.start = page.start
      /\ q.sock[g] = "closed" /\ \A h \in Gens \ {g} : q.sock[h] = page.sock[h]
  BY <1>1, SetSockFields
<1>5. page' = IF ~q.settled /\ g = q.gen THEN StartPolling(q, g) ELSE q
  BY DEF WsClose, SetSock
<1> HIDE DEF q
<1>6. CASE q.settled \/ g # q.gen
  <2>1. page' = q
    BY <1>5, <1>6
  <2>2. Watch(q)
    BY <1>1, <1>4, <1>6 DEF Watch
  <2>3. Counted(q, submits)
    BY <1>1, <1>4 DEF Counted
  <2> QED BY <1>1, <1>3, <2>1, <2>2, <2>3 DEF Kept
<1>7. CASE ~q.settled /\ g = q.gen
  <2>1. page' = StartPolling(q, g)
    BY <1>5, <1>7
  <2>2. Good(page')
    BY <1>2, <1>3, <1>4, <2>1, GoodStartPolling DEF Early
  <2>3. /\ page'.gen = q.gen /\ page'.retried = q.retried
        /\ page'.timer = g \/ (page'.timer = q.timer /\ q.timer # 0)
    BY <1>4, <1>7, <2>1, StartPollingFields
  <2>4. q.timer \in {0, q.gen}
    BY <1>3 DEF Good, Current
  <2>5. Watch(page')
    BY <1>7, <2>3, <2>4 DEF Watch
  <2>6. Counted(page', submits)
    BY <1>1, <1>4, <2>3 DEF Counted
  <2> QED BY <1>1, <2>2, <2>5, <2>6 DEF Kept
<1> QED BY <1>6, <1>7

\* A poll begins or comes back.
LEMMA KeptSetPolls ==
    ASSUME NEW p, NEW n, Kept(p, n), NEW g \in Gens, NEW m \in 0 .. MaxPolls,
           m < p.polls[g] \/ p.timer = g
    PROVE  /\ Kept(SetPolls(p, g, m), n)
           /\ SetPolls(p, g, m).polls[g] = m /\ SetPolls(p, g, m).fetch = p.fetch
           /\ SetPolls(p, g, m).gen = p.gen
           /\ Early(SetPolls(p, g, m), g) <=> Early(p, g)
<1> DEFINE q == SetPolls(p, g, m)
<1>1. p \in Page /\ Good(p)
  BY DEF Kept, Good
<1>2. /\ q \in Page /\ q.polls[g] = m /\ q.fetch = p.fetch /\ q.gen = p.gen
      /\ q.retried = p.retried /\ q.settled = p.settled /\ q.timer = p.timer
      /\ q.sock = p.sock /\ q.start = p.start
  BY <1>1, SetPollsFields
<1>3. Good(q)
  BY <1>1, GoodSetPolls
<1> HIDE DEF q
<1>4. Kept(q, n)
  BY <1>2, <1>3, KeptAlike
<1> QED BY <1>2, <1>4 DEF q, Early

LEMMA PollTickStep ==
    ASSUME PageInv, NEW g \in Gens, PollTick(g)
    PROVE  Kept(page', submits')
<1>1. /\ page \in Page /\ Good(page) /\ Kept(page, submits) /\ submits' = submits
      /\ page.timer = g
  BY DEF PageInv, Kept, Good, PollTick
<1>2. g = page.gen /\ page.polls[g] \in Nat
  BY <1>1, Bounds, GoodNumbers DEF Good, Current
<1>3. page.polls[g] < MaxPolls /\ page' = SetPolls(page, g, page.polls[g] + 1)
  BY <1>2 DEF PollTick, SetPolls
<1>4. page.polls[g] + 1 \in 0 .. MaxPolls
  BY <1>2, <1>3, Bounds
<1> QED BY <1>1, <1>3, <1>4, KeptSetPolls

\* The page once one of the polls of generation g has come back.
Answered(g) == SetPolls(page, g, page.polls[g] - 1)

LEMMA AnsweredIsGood ==
    ASSUME PageInv, NEW g \in Gens, page.polls[g] > 0
    PROVE  /\ Kept(Answered(g), submits) /\ Answered(g) \in Page /\ ~Early(Answered(g), g)
           /\ Answered(g).polls[g] < MaxPolls
           /\ g = Answered(g).gen =>
                Cardinality(Used(Answered(g), g)) + Answered(g).polls[g] < MaxPolls
<1> DEFINE n == page.polls[g] - 1
           q == Answered(g)
<1>1. /\ page \in Page /\ Good(page) /\ Kept(page, submits)
      /\ page.polls[g] \in 0 .. MaxPolls /\ page.polls[g] \in Nat
  BY GoodNumbers DEF PageInv, Kept, Good
<1>2. n \in 0 .. MaxPolls /\ n < page.polls[g] /\ n < MaxPolls
  BY <1>1, Bounds
<1>3. ~Early(page, g)
  BY <1>1 DEF Good, Sockets, Quiet
<1>4. /\ Kept(q, submits) /\ q.polls[g] = n /\ q.fetch = page.fetch /\ q.gen = page.gen
      /\ ~Early(q, g)
  BY <1>1, <1>2, <1>3, KeptSetPolls DEF Answered
<1> HIDE DEF q
<1>5. Used(q, g) = Used(page, g)
  BY <1>4 DEF Used
<1>6. g = page.gen => Cardinality(Used(page, g)) + page.polls[g] <= MaxPolls
  BY <1>1 DEF Good, Room
<1>7. Cardinality(Used(page, g)) \in Nat
  BY UsedCount, Bounds
<1>8. g = q.gen => Cardinality(Used(q, g)) + q.polls[g] < MaxPolls
  BY <1>1, <1>4, <1>5, <1>6, <1>7, Bounds
<1> QED BY <1>2, <1>4, <1>8 DEF q, Kept, Good

LEMMA PollAnswerStep ==
    ASSUME PageInv, NEW g \in Gens, PollAnswer(g) \/ PollLost(g)
    PROVE  Kept(page', submits')
<1> DEFINE q == Answered(g)
<1>1. page.polls[g] > 0 /\ submits' = submits /\ submits \in 0 .. MaxSubmits
  BY DEF PollAnswer, PollLost, PageInv, TypeOK
<1>2. \/ page' = HideOwn(SetTold(StopLive(q), g, "absent"), g)
      \/ page' = BeginFetch(SetTold(StopLive(q), g, "done"), g)
      \/ page' = OnEvent(q, g, job[g])
      \/ page' = q
  BY DEF PollAnswer, PollLost, Answered, SetPolls, SetTold
<1>3. /\ Kept(q, submits) /\ ~Early(q, g) /\ q.polls[g] < MaxPolls
      /\ g = q.gen => Cardinality(Used(q, g)) + q.polls[g] < MaxPolls
  BY <1>1, AnsweredIsGood
<1>4. {"absent", "done"} \subseteq Ends \ {"none"}
  BY DEF Ends
<1> HIDE DEF q
<1> QED BY <1>1, <1>2, <1>3, <1>4, KeptEnd, KeptOnEvent

-----------------------------------------------------------------------------
\* A step of a download.
LEMMA KeptGoto ==
    ASSUME NEW p, NEW n, Kept(p, n), NEW g \in Gens, NEW i \in Slots,
           p.fetch[g][i] # "none", NEW v \in Phases \ {"none"}
    PROVE  Kept(Goto(p, g, i, v), n) /\ Kept(HideOwn(Goto(p, g, i, v), g), n)
<1> DEFINE q == Goto(p, g, i, v)
<1>1. p \in Page /\ Good(p) /\ v \in Phases
  BY DEF Kept, Good
<1>2. /\ q \in Page /\ q.gen = p.gen /\ q.retried = p.retried /\ q.settled = p.settled
      /\ q.timer = p.timer /\ q.sock = p.sock /\ q.start = p.start
  BY <1>1, GotoFields
<1>3. Good(q)
  BY <1>1, GoodGoto
<1> HIDE DEF q
<1>4. Kept(q, n)
  BY <1>2, <1>3, KeptAlike
<1>5. Kept(HideOwn(q, g), n)
  BY <1>2, <1>3, <1>4, GoodHideOwn, HideOwnFields, KeptAlike
<1> QED BY <1>4, <1>5 DEF q

\* What it makes of the page.
LEMMA FetchForms ==
    ASSUME page \in Page, NEW g \in Gens, NEW i \in Slots,
           FetchHealth(g, i) \/ FetchGet(g, i) \/ FetchWait(g, i) \/ Unzip(g, i)
    PROVE  \/ \E v \in {"get", "unzip"} : page' = Goto(page, g, i, v)
           \/ page' = Goto(page, g, i, "over") /\ g # page.gen
           \/ page' = HideOwn(Goto(page, g, i, "over"), g)
           \/ /\ page.tries[g][i] < MaxTries
              /\ page' = SetTries(Goto(page, g, i, "wait"), g, i, page.tries[g][i] + 1)
           \/ /\ g = page.gen
              /\ page' = SetUvi(SetViewer(Goto(page, g, i, "shown"), g), FALSE)
<1>1. CASE FetchHealth(g, i) \/ FetchWait(g, i)
  BY <1>1 DEF FetchHealth, FetchWait, IfCurrent
<1>2. CASE FetchGet(g, i)
  <2> DEFINE q == Goto(page, g, i, "wait")
  <2>1. q.tries = page.tries
    BY GotoFields DEF Phases
  <2> HIDE DEF q
  <2>2. [q EXCEPT !.tries[g][i] = @ + 1] = SetTries(q, g, i, page.tries[g][i] + 1)
    BY <2>1 DEF SetTries
  <2> QED BY <1>2, <2>2 DEF FetchGet, IfCurrent, q
<1>3. CASE Unzip(g, i)
  BY <1>3 DEF Unzip, SetUvi, SetViewer
<1> QED BY <1>1, <1>2, <1>3

LEMMA FetchStep ==
    ASSUME PageInv, NEW g \in Gens, NEW i \in Slots,
           FetchHealth(g, i) \/ FetchGet(g, i) \/ FetchWait(g, i) \/ Unzip(g, i)
    PROVE  Kept(page', submits')
<1>1. /\ Kept(page, submits) /\ page \in Page /\ submits' = submits
      /\ page.fetch[g][i] \in {"health", "get", "wait", "unzip"}
  BY DEF PageInv, Kept, Good, FetchHealth, FetchGet, FetchWait, Unzip, At
<1>2. {"get", "wait", "unzip", "over", "shown"} \subseteq Phases \ {"none"}
  BY DEF Phases
<1>3. \/ \E v \in {"get", "unzip", "over"} : page' = Goto(page, g, i, v)
      \/ page' = HideOwn(Goto(page, g, i, "over"), g)
      \/ /\ page.tries[g][i] < MaxTries
         /\ page' = SetTries(Goto(page, g, i, "wait"), g, i, page.tries[g][i] + 1)
      \/ /\ g = page.gen
         /\ page' = SetUvi(SetViewer(Goto(page, g, i, "shown"), g), FALSE)
  BY <1>1, FetchForms
<1>4. ASSUME page.tries[g][i] < MaxTries
      PROVE  Kept(SetTries(Goto(page, g, i, "wait"), g, i, page.tries[g][i] + 1), submits)
  <2> DEFINE q == Goto(page, g, i, "wait")
             n == page.tries[g][i] + 1
  <2>1. Kept(q, submits)
    BY <1>1, <1>2, KeptGoto
  <2> HIDE DEF q
  <2>2. Good(q) /\ q \in Page
    BY <2>1 DEF Kept, Good
  <2>3. n \in 0 .. MaxTries
    BY <1>1, <1>4, Bounds, PageType
  <2> HIDE DEF n
  <2> DEFINE r == SetTries(q, g, i, n)
  <2>4. /\ r \in Page /\ r.gen = q.gen /\ r.retried = q.retried /\ r.settled = q.settled
        /\ r.timer = q.timer /\ r.sock = q.sock /\ r.start = q.start
        /\ r.viewer = q.viewer /\ r.polls = q.polls /\ r.fetch = q.fetch /\ r.told = q.told
    BY <2>2, <2>3, SetTriesFields
  <2> HIDE DEF r
  <2>5. Good(r)
    BY <2>2, <2>4, GoodAlike
  <2>6. Kept(r, submits)
    BY <2>1, <2>4, <2>5, KeptAlike
  <2> QED BY <2>6 DEF r, q, n
<1>5. ASSUME g = page.gen
      PROVE  Kept(SetUvi(SetViewer(Goto(page, g, i, "shown"), g), FALSE), submits)
  <2> DEFINE q == Goto(page, g, i, "shown")
  <2>1. Kept(q, submits) /\ q.gen = g
    BY <1>1, <1>2, <1>5, KeptGoto, GotoFields
  <2> HIDE DEF q
  <2>2. Good(q) /\ q \in Page /\ g \in {0} \cup Gens
    BY <2>1 DEF Kept, Good
  <2> DEFINE v == SetViewer(q, g)
  <2>3. /\ v \in Page /\ v.gen = q.gen /\ v.retried = q.retried /\ v.settled = q.settled
        /\ v.timer = q.timer /\ v.sock = q.sock /\ v.start = q.start
        /\ v.viewer = g /\ v.polls = q.polls /\ v.fetch = q.fetch /\ v.told = q.told
    BY <2>2, SetViewerFields
  <2> HIDE DEF v
  <2>4. Good(v)
    BY <2>1, <2>2, <2>3, GoodAlike
  <2> DEFINE u == SetUvi(v, FALSE)
  <2>5. /\ u \in Page /\ u.gen = v.gen /\ u.retried = v.retried /\ u.settled = v.settled
        /\ u.timer = v.timer /\ u.sock = v.sock /\ u.start = v.start
        /\ u.viewer = v.viewer /\ u.polls = v.polls /\ u.fetch = v.fetch /\ u.told = v.told
    BY <2>3, SetUviFields
  <2> HIDE DEF u
  <2>6. Good(u)
    BY <2>4, <2>5, GoodAlike
  <2>7. Kept(u, submits)
    BY <2>1, <2>3, <2>5, <2>6, KeptAlike
  <2> QED BY <2>7 DEF u, v, q
<1>6. \A v \in {"get", "unzip", "over"} :
         Kept(Goto(page, g, i, v), submits) /\ Kept(HideOwn(Goto(page, g, i, v), g), submits)
  BY <1>1, <1>2, KeptGoto
<1> QED BY <1>1, <1>3, <1>4, <1>5, <1>6

LEMMA DemoStep ==
    ASSUME PageInv, DemoStart \/ DemoEnd
    PROVE  Kept(page', submits')
<1>1. /\ Kept(page, submits) /\ Good(page) /\ page \in Page /\ submits' = submits
  BY DEF PageInv, Kept, Good, DemoStart, DemoEnd
<1>2. PICK b \in BOOLEAN : page' = SetUvi(page, b)
  BY DEF DemoStart, DemoEnd, SetUvi
<1>3. /\ page' \in Page /\ page'.gen = page.gen /\ page'.retried = page.retried
      /\ page'.settled = page.settled /\ page'.timer = page.timer
      /\ page'.sock = page.sock /\ page'.start = page.start
      /\ page'.viewer = page.viewer /\ page'.polls = page.polls
      /\ page'.fetch = page.fetch /\ page'.told = page.told
  BY <1>1, <1>2, SetUviFields
<1>4. Good(page')
  BY <1>1, <1>3, GoodAlike
<1> QED BY <1>1, <1>3, <1>4, KeptAlike

LEMMA KeptStep ==
    ASSUME PageInv, [Next]_vars
    PROVE  PageInv'
<1>1. ASSUME NEW g \in Gens, Callback(g) \/ WsClose(g) \/ PollAnswer(g) \/ PollLost(g)
      PROVE  Kept(page', submits')
  BY <1>1, StartHealthStep, StartPostStep, WsMessageStep, PollTickStep, FetchStep,
     WsCloseStep, PollAnswerStep DEF Callback
<1>2. ASSUME UNCHANGED vars \/ \E g \in Gens : JobMoves(g)
      PROVE  Kept(page', submits')
  <2>1. page' = page /\ submits' = submits
    BY <1>2 DEF vars, JobMoves
  <2>2. Kept(page, submits)
    BY DEF PageInv
  <2> QED BY <2>1, <2>2
<1>3. Kept(page', submits')
  <2>1. CASE Submit
    BY <2>1, SubmitStep
  <2>2. CASE DemoStart \/ DemoEnd
    BY <2>2, DemoStep
  <2> QED BY <1>1, <1>2, <2>1, <2>2 DEF Next
<1>4. TypeOK'
  <2>1. page' \in Page
    BY <1>3 DEF Kept, Good
  <2>2. submits' \in 0 .. MaxSubmits /\ demo' \in BOOLEAN
    <3>1. submits \in 0 .. MaxSubmits /\ demo \in BOOLEAN /\ MaxSubmits \in Nat
      BY Bounds DEF PageInv, TypeOK
    <3>2. CASE Submit
      BY <3>1, <3>2 DEF Submit
    <3>3. ASSUME NEW g \in Gens, Callback(g)
          PROVE  UNCHANGED <<submits, demo>>
      <4>1. CASE \E i \in Slots : FetchHealth(g, i) \/ FetchGet(g, i) \/ FetchWait(g, i) \/ Unzip(g, i)
        BY <4>1 DEF FetchHealth, FetchGet, FetchWait, Unzip
      <4>2. CASE StartHealth(g) \/ StartPost(g) \/ WsMessage(g) \/ PollTick(g)
        BY <4>2 DEF StartHealth, StartPost, WsMessage, PollTick
      <4> QED BY <3>3, <4>1, <4>2 DEF Callback
    <3>4. ASSUME NEW g \in Gens, WsClose(g) \/ PollAnswer(g) \/ PollLost(g) \/ JobMoves(g)
          PROVE  UNCHANGED <<submits, demo>>
      BY <3>4 DEF WsClose, PollAnswer, PollLost, JobMoves
    <3>5. CASE DemoStart \/ DemoEnd
      BY <3>1, <3>5 DEF DemoStart, DemoEnd
    <3>6. CASE UNCHANGED vars
      BY <3>1, <3>6 DEF vars
    <3> QED BY <3>1, <3>2, <3>3, <3>4, <3>5, <3>6 DEF Next
  <2>3. job' \in [Gens -> {"none", "live", "done", "failed", "expired", "absent"}]
    <3>1. job \in [Gens -> {"none", "live", "done", "failed", "expired", "absent"}]
      BY DEF PageInv, TypeOK
    <3>2. ASSUME NEW g \in Gens, StartPost(g) \/ JobMoves(g)
          PROVE  \/ job' = job
                 \/ \E s \in {"live", "done", "failed", "expired", "absent"} :
                      job' = [job EXCEPT ![g] = s]
      BY <3>2 DEF StartPost, JobMoves
    <3>3. \/ job' = job
          \/ \E g \in Gens : StartPost(g) \/ JobMoves(g)
      <4>1. ASSUME NEW g \in Gens, Callback(g), ~StartPost(g)
            PROVE  job' = job
        <5>1. CASE \E i \in Slots : FetchHealth(g, i) \/ FetchGet(g, i) \/ FetchWait(g, i) \/ Unzip(g, i)
          BY <5>1 DEF FetchHealth, FetchGet, FetchWait, Unzip
        <5>2. CASE StartHealth(g) \/ WsMessage(g) \/ PollTick(g)
          BY <5>2 DEF StartHealth, WsMessage, PollTick
        <5> QED BY <4>1, <5>1, <5>2 DEF Callback
      <4>2. ASSUME NEW g \in Gens, WsClose(g) \/ PollAnswer(g) \/ PollLost(g)
            PROVE  job' = job
        BY <4>2 DEF WsClose, PollAnswer, PollLost
      <4>3. CASE Submit \/ DemoStart \/ DemoEnd \/ UNCHANGED vars
        BY <4>3 DEF Submit, DemoStart, DemoEnd, vars
      <4> QED BY <4>1, <4>2, <4>3 DEF Next
    <3> QED BY <3>1, <3>2, <3>3
  <2> QED BY <2>1, <2>2, <2>3 DEF TypeOK
<1> QED BY <1>3, <1>4 DEF PageInv

LEMMA PageInvHolds == Spec => []PageInv
<1>1. Init => PageInv
  <2> SUFFICES ASSUME Init PROVE PageInv
    OBVIOUS
  <2>1. page \in Page
    BY Bounds DEF Init, Page
  <2>2. TypeOK
    <3>1. job \in [Gens -> {"none", "live", "done", "failed", "expired", "absent"}]
      BY DEF Init
    <3>2. submits = 0 /\ demo = FALSE
      BY DEF Init
    <3>3. submits \in 0 .. MaxSubmits
      BY <3>2, Bounds
    <3>4. demo \in BOOLEAN
      BY <3>2
    <3> QED BY <2>1, <3>1, <3>3, <3>4 DEF TypeOK
  <2>3. /\ page.gen = 0 /\ ~page.settled /\ page.viewer = 0 /\ page.timer = 0
        /\ \A g \in Gens : /\ page.start[g] = "none" /\ page.sock[g] = "none"
                           /\ page.polls[g] = 0 /\ page.told[g] = "none"
                           /\ page.fetch[g] = [i \in Slots |-> "none"] /\ g # 0
        /\ submits = 0
    BY Bounds DEF Init
  <2>4. \A g \in Gens : Used(page, g) = {}
    BY <2>3 DEF Used
  <2>5. Good(page)
    BY <2>1, <2>3, <2>4 DEF Good, Fresh, Current, Sockets, Early, Quiet, Told, Room
  <2>6. Kept(page, submits)
    BY <2>3, <2>5 DEF Kept, Watch, Counted
  <2> QED BY <2>2, <2>6 DEF PageInv
<1>2. PageInv /\ [Next]_vars => PageInv'
  BY KeptStep
<1> QED BY <1>1, <1>2, PTL DEF Spec

\* The page, the jobs and the count of submissions keep to their types: no
\* callback indexes a download slot or a generation that is not there.
THEOREM TypeCorrect == Spec => []TypeOK
<1>1. PageInv => TypeOK
  BY DEF PageInv
<1> QED BY <1>1, PageInvHolds, PTL

\* The result on the page is that of the last submission, or there is none.
THEOREM ViewerOfLast == Spec => []ViewerIsCurrent
<1>1. PageInv => ViewerIsCurrent
  BY DEF PageInv, Kept, Good, Current, ViewerIsCurrent
<1> QED BY <1>1, PageInvHolds, PTL

\* A submission is retried once at most, whatever answers of earlier jobs are
\* still to come.
THEOREM RetriedOnce == Spec => []OneRetryPerSubmit
<1>1. PageInv => OneRetryPerSubmit
  BY DEF PageInv, Kept, Counted, OneRetryPerSubmit
<1> QED BY <1>1, PageInvHolds, PTL

\* A job the page has not seen the end of has a socket or an interval.
THEOREM LiveJobIsWatched == Spec => []LiveIsWatched
<1>1. PageInv => LiveIsWatched
  BY DEF PageInv, Kept, Watch, LiveIsWatched, Watched
<1> QED BY <1>1, PageInvHolds, PTL

-----------------------------------------------------------------------------
(***************************************************************************)
(* The busy figure.                                                        *)
(***************************************************************************)

Pending == {"health", "get", "wait", "unzip"}

\* Downloading, LiveIsShown and EndedIsHidden, of any page; d: a demo loads.
Loads(p, g) ==
    /\ \E i \in Slots : p.fetch[g][i] \in Pending
    /\ \A i \in Slots : p.fetch[g][i] \notin {"shown", "over"}
Lit(p) == \A g \in Gens : g = p.gen /\ ~p.settled /\ p.start[g] # "over" => p.uvi
Out(p, d) == \A g \in Gens : g = p.gen /\ p.told[g] # "none" /\ p.uvi => d \/ Loads(p, g)

\* What a step does to the busy figure and to the generation that is current
\* before it: a new one; nothing that matters; its job begins, or does not; its
\* end is told, a download of it begins, or goes on.
Restarted(p, q)  == q.uvi /\ q.gen \in Gens /\ q.start[q.gen] = "health"
SameGen(p, q)    == q.gen = p.gen /\ (p.settled => q.settled)
SameFigure(p, q) == SameGen(p, q) /\ q.uvi = p.uvi
Unmoved(p, q)  == SameFigure(p, q) /\ \A g \in Gens : g = p.gen =>
    q.start[g] = p.start[g] /\ q.told[g] = p.told[g] /\ q.fetch[g] = p.fetch[g]
Begun(p, q) == SameFigure(p, q) /\ \A g \in Gens : g = p.gen =>
    /\ p.start[g] \in {"health", "post"} /\ q.start[g] \in {"post", "watch"}
    /\ q.told[g] = p.told[g] /\ q.fetch[g] = p.fetch[g]
Refused(p, q) == SameGen(p, q) /\ ~q.uvi /\ \A g \in Gens : g = p.gen =>
    /\ p.start[g] \in {"health", "post"} /\ q.start[g] = "over"
    /\ q.told[g] = p.told[g] /\ q.fetch[g] = p.fetch[g]
Over(p, q) == SameGen(p, q) /\ q.settled /\ ~q.uvi /\ \A g \in Gens : g = p.gen =>
    q.fetch[g] = p.fetch[g]
Done(p, q) == SameFigure(p, q) /\ q.settled /\ \A g \in Gens : g = p.gen =>
    \E i \in Slots : /\ p.fetch[g][i] = "none"
                     /\ q.fetch[g] = [p.fetch[g] EXCEPT ![i] = "health"]
Loaded(p, q) == SameGen(p, q) /\ (q.uvi => p.uvi) /\ \A g \in Gens : g = p.gen =>
    /\ q.start[g] = p.start[g] /\ q.told[g] = p.told[g]
    /\ \E i \in Slots :
         /\ p.fetch[g][i] \in Pending
         /\ \A j \in Slots \ {i} : q.fetch[g][j] = p.fetch[g][j]
         /\ \/ q.fetch[g][i] \in Pending /\ q.uvi = p.uvi
            \/ q.fetch[g][i] \in {"shown", "over"} /\ ~q.uvi

FigureStep(p, q) ==
    \/ Restarted(p, q) \/ Unmoved(p, q) \/ Begun(p, q) \/ Refused(p, q)
    \/ (Over(p, q) /\ ~p.settled)
    \/ Done(p, q) \/ Loaded(p, q)

\* Another poll of a job that is gone: it hides the figure again.
AnswerGone(g) == g = page.gen /\ job[g] = "absent" /\ PollAnswer(g)

LEMMA DownloadsOfPage ==
    ASSUME NEW g \in Gens
    PROVE  Downloading(g) <=> Loads(page, g)
  BY DEF Downloading, Loads, Pending

\* What a page that is good says of its current generation.
LEMMA GoodNow ==
    ASSUME NEW p, Good(p), NEW g \in Gens, g = p.gen
    PROVE  /\ p.start[g] # "watch" => p.told[g] = "none"
           /\ p.told[g] = "none" => \A i \in Slots : p.fetch[g][i] = "none"
           /\ ~p.settled => \A i \in Slots : p.fetch[g][i] = "none"
           /\ p.told[g] # "none" => p.settled
  BY DEF Good, Told, Room, Used, Early

LEMMA FigureLit ==
    ASSUME NEW p \in Page, NEW q \in Page, Good(p), Good(q), Lit(p),
           FigureStep(p, q) \/ Over(p, q)
    PROVE  Lit(q)
<1> SUFFICES ASSUME NEW g \in Gens, g = q.gen, ~q.settled, q.start[g] # "over"
             PROVE  q.uvi
  BY DEF Lit
<1>1. CASE Restarted(p, q)
  BY <1>1 DEF Restarted
<1>2. CASE Over(p, q) \/ Done(p, q)
  BY <1>2 DEF Over, Done
<1>3. CASE Unmoved(p, q)
  BY <1>3 DEF Unmoved, SameFigure, SameGen, Lit
<1>4. CASE Begun(p, q)
  BY <1>4 DEF Begun, SameFigure, SameGen, Lit
<1>5. CASE Refused(p, q)
  BY <1>5 DEF Refused, SameGen
<1>6. CASE Loaded(p, q)
  <2>1. g = p.gen /\ ~p.settled
    BY <1>6 DEF Loaded, SameGen
  <2>2. \A i \in Slots : p.fetch[g][i] \notin Pending
    BY <2>1, GoodNow DEF Pending
  <2> QED BY <1>6, <2>1, <2>2 DEF Loaded
<1> QED BY <1>1, <1>2, <1>3, <1>4, <1>5, <1>6 DEF FigureStep

LEMMA FigureOut ==
    ASSUME NEW p \in Page, NEW q \in Page, NEW d \in BOOLEAN, Good(p), Good(q),
           Out(p, d), FigureStep(p, q) \/ Over(p, q)
    PROVE  Out(q, d)
<1> SUFFICES ASSUME NEW g \in Gens, g = q.gen, q.told[g] # "none", q.uvi, ~d
             PROVE  Loads(q, g)
  BY DEF Out
<1>1. CASE Restarted(p, q)
  BY <1>1, GoodNow DEF Restarted
<1>2. CASE Over(p, q) \/ Refused(p, q)
  BY <1>2 DEF Over, Refused
<1>3. CASE Unmoved(p, q)
  BY <1>3 DEF Unmoved, SameFigure, SameGen, Out, Loads
<1>4. CASE Begun(p, q)
  <2>1. g = p.gen /\ p.start[g] # "watch" /\ q.told[g] = p.told[g]
    BY <1>4 DEF Begun, SameFigure, SameGen
  <2> QED BY <2>1, GoodNow
<1>5. CASE Done(p, q)
  <2>1. g = p.gen /\ p.uvi
    BY <1>5 DEF Done, SameFigure, SameGen
  <2>2. PICK i \in Slots : q.fetch[g] = [p.fetch[g] EXCEPT ![i] = "health"]
    BY <1>5, <2>1 DEF Done
  <2>3. Loads(p, g) \/ \A j \in Slots : p.fetch[g][j] = "none"
    BY <2>1, GoodNow DEF Out
  <2>4. p.fetch[g] \in [Slots -> Phases]
    BY PageType
  <2> QED BY <2>2, <2>3, <2>4 DEF Loads, Pending
<1>6. CASE Loaded(p, q)
  <2>1. g = p.gen /\ p.uvi /\ q.told[g] = p.told[g]
    BY <1>6 DEF Loaded, SameGen
  <2>2. PICK i \in Slots : /\ p.fetch[g][i] \in Pending
                           /\ \A j \in Slots \ {i} : q.fetch[g][j] = p.fetch[g][j]
                           /\ q.fetch[g][i] \in Pending
    BY <1>6, <2>1 DEF Loaded
  <2>3. Loads(p, g)
    BY <2>1 DEF Out
  <2> QED BY <2>2, <2>3 DEF Loads, Pending
<1> QED BY <1>1, <1>2, <1>3, <1>4, <1>5, <1>6 DEF FigureStep

\* A step that puts the figure out ends the download there was, or there was none.
LEMMA FigureHides ==
    ASSUME NEW p \in Page, NEW q \in Page, Good(p), FigureStep(p, q), p.uvi, ~q.uvi,
           NEW g \in Gens, g = q.gen
    PROVE  ~Loads(q, g)
<1>1. CASE Restarted(p, q) \/ Unmoved(p, q) \/ Begun(p, q) \/ Done(p, q)
  BY <1>1 DEF Restarted, Unmoved, Begun, Done, SameFigure
<1>2. CASE Refused(p, q) \/ (Over(p, q) /\ ~p.settled)
  <2>1. /\ g = p.gen /\ q.fetch[g] = p.fetch[g]
        /\ p.start[g] # "watch" \/ ~p.settled
    BY <1>2 DEF Refused, Over, SameGen
  <2>2. \A i \in Slots : p.fetch[g][i] = "none"
    BY <2>1, GoodNow
  <2> QED BY <2>1, <2>2 DEF Loads, Pending
<1>3. CASE Loaded(p, q)
  <2>1. \E i \in Slots : q.fetch[g][i] \in {"shown", "over"} \/ q.uvi = p.uvi
    BY <1>3 DEF Loaded, SameGen
  <2> QED BY <2>1 DEF Loads
<1> QED BY <1>1, <1>2, <1>3 DEF FigureStep

LEMMA FigureEnd ==
    ASSUME NEW o \in Page, NEW p \in Page, Unmoved(o, p), NEW g \in Gens,
           NEW s \in Ends \ {"none"}
    PROVE  /\ IF g = o.gen THEN Over(o, HideOwn(SetTold(StopLive(p), g, s), g))
              ELSE Unmoved(o, HideOwn(SetTold(StopLive(p), g, s), g))
           /\ (g = p.gen => Cardinality(Used(p, g)) < MaxPolls)
                => FigureStep(o, BeginFetch(SetTold(StopLive(p), g, s), g))
<1> DEFINE l == StopLive(p)
           t == SetTold(l, g, s)
<1>1. /\ l \in Page /\ l.gen = p.gen /\ l.start = p.start /\ l.told = p.told
      /\ l.uvi = p.uvi /\ l.fetch = p.fetch /\ l.settled
  BY StopLiveFields
<1> HIDE DEF l
<1>2. /\ t \in Page /\ t.gen = p.gen /\ t.start = p.start /\ t.uvi = p.uvi
      /\ t.fetch = p.fetch /\ t.settled /\ t.told[g] = s /\ \A h \in Gens \ {g} : t.told[h] = p.told[h]
  BY <1>1, SetToldFields
<1> HIDE DEF t
<1>3. IF g = o.gen THEN Over(o, HideOwn(t, g)) ELSE Unmoved(o, HideOwn(t, g))
  <2> DEFINE q == HideOwn(t, g)
  <2>1. /\ q.gen = t.gen /\ q.start = t.start /\ q.told = t.told /\ q.fetch = t.fetch
        /\ q.uvi = (t.uvi /\ g # t.gen) /\ q.settled
    BY <1>2, HideOwnFields
  <2> HIDE DEF q
  <2>4. /\ q.gen = o.gen /\ t.uvi = o.uvi /\ t.uvi \in BOOLEAN
        /\ \A h \in Gens : h = o.gen => q.start[h] = o.start[h] /\ q.fetch[h] = o.fetch[h]
        /\ \A h \in Gens \ {g} : h = o.gen => q.told[h] = o.told[h]
        /\ q.settled
    BY <1>2, <2>1, PageType DEF Unmoved, SameFigure, SameGen
  <2>2. CASE g = o.gen
    <3>1. ~q.uvi
      BY <1>2, <2>1, <2>2, <2>4
    <3>2. Over(o, q)
      BY <2>2, <2>4, <3>1 DEF Over, SameGen
    <3> QED BY <2>2, <3>2 DEF q
  <2>3. CASE g # o.gen
    <3>1. q.uvi = o.uvi
      BY <1>2, <2>1, <2>3, <2>4
    <3>2. Unmoved(o, q)
      BY <2>3, <2>4, <3>1 DEF Unmoved, SameFigure, SameGen
    <3> QED BY <2>3, <3>2 DEF q
  <2> QED BY <2>2, <2>3 DEF q
<1>4. ASSUME g = p.gen => Cardinality(Used(p, g)) < MaxPolls
      PROVE  FigureStep(o, BeginFetch(t, g))
  <2> DEFINE q == BeginFetch(t, g)
  <2>1. Used(t, g) = Used(p, g)
    BY <1>2 DEF Used
  <2>2. /\ q.gen = t.gen /\ q.start = t.start /\ q.told = t.told /\ q.uvi = t.uvi
        /\ q.settled = t.settled
        /\ \A h \in Gens : h # t.gen \/ h # g => q.fetch[h] = t.fetch[h]
        /\ g = t.gen => \E i \in Slots :
             /\ t.fetch[g][i] = "none"
             /\ q.fetch[g] = [t.fetch[g] EXCEPT ![i] = "health"]
    BY ZenonT(30), <1>2, <1>4, <2>1, BeginFetchFields
  <2> HIDE DEF q
  <2>5. /\ q.gen = o.gen /\ q.uvi = o.uvi /\ q.settled /\ t.gen = o.gen
        /\ \A h \in Gens : h = o.gen => q.start[h] = o.start[h] /\ t.fetch[h] = o.fetch[h]
        /\ \A h \in Gens \ {g} : h = o.gen => q.told[h] = o.told[h]
    BY <1>2, <2>2 DEF Unmoved, SameFigure, SameGen
  <2>3. CASE g = o.gen
    <3>1. PICK i \in Slots : /\ t.fetch[g][i] = "none"
                             /\ q.fetch[g] = [t.fetch[g] EXCEPT ![i] = "health"]
      BY <2>2, <2>3, <2>5
    <3>2. t.fetch[g] = o.fetch[g]
      BY <2>3, <2>5
    <3>3. Done(o, q)
      BY <2>3, <2>5, <3>1, <3>2 DEF Done, SameFigure, SameGen
    <3> QED BY <3>3 DEF FigureStep, q
  <2>4. CASE g # o.gen
    <3>1. Unmoved(o, q)
      BY <2>2, <2>4, <2>5 DEF Unmoved, SameFigure, SameGen
    <3> QED BY <3>1 DEF FigureStep, q
  <2> QED BY <2>3, <2>4 DEF q
<1> QED BY <1>3, <1>4 DEF t, l

LEMMA FigureOnEvent ==
    ASSUME NEW o \in Page, NEW p \in Page, Good(p), Unmoved(o, p),
           ~p.retried => p.gen < 2 * MaxSubmits,
           NEW g \in Gens, NEW s
    PROVE  FigureStep(o, OnEvent(p, g, s))
<1>1. CASE OnEvent(p, g, s) = p
  BY <1>1 DEF FigureStep
<1>2. CASE ~p.retried /\ OnEvent(p, g, s) = StartJob(SetRetried(StopLive(p), TRUE))
  <2> DEFINE l == StopLive(p)
             r == SetRetried(l, TRUE)
  <2>1. l \in Page /\ l.gen = p.gen
    BY StopLiveFields
  <2> HIDE DEF l
  <2>2. r \in Page /\ r.gen = p.gen
    BY <2>1, SetRetriedFields
  <2> HIDE DEF r
  <2>3. Restarted(o, StartJob(r))
    <3>1. /\ StartJob(r).uvi = TRUE /\ StartJob(r).gen = r.gen + 1 /\ r.gen + 1 \in Gens
          /\ StartJob(r).start = [r.start EXCEPT ![r.gen + 1] = "health"]
      BY <1>2, <2>2, StartJobFields
    <3>2. r.start \in [Gens -> Starts]
      BY <2>2, PageType
    <3> QED BY <3>1, <3>2 DEF Restarted
  <2> QED BY <1>2, <2>3 DEF FigureStep, r, l
<1>3. CASE g = p.gen /\ ~p.settled /\ s = "done"
             /\ OnEvent(p, g, s) = BeginFetch(SetTold(StopLive(p), g, s), g)
  <2>1. Used(p, g) = {} /\ Cardinality(Used(p, g)) = 0 /\ 0 < MaxPolls
    BY <1>3, UsedCount, Bounds DEF Good, Room
  <2>2. s \in Ends \ {"none"}
    BY <1>3 DEF Ends
  <2> QED BY <1>3, <2>1, <2>2, FigureEnd
<1>4. CASE g = p.gen /\ ~p.settled /\ s \in {"failed", "expired"}
             /\ OnEvent(p, g, s) = HideOwn(SetTold(StopLive(p), g, s), g)
  <2>1. s \in Ends \ {"none"}
    BY <1>4 DEF Ends
  <2>2. g = o.gen /\ ~o.settled
    BY <1>4 DEF Unmoved, SameFigure, SameGen
  <2> QED BY <1>4, <2>1, <2>2, FigureEnd DEF FigureStep
<1>5. \/ OnEvent(p, g, s) = p
      \/ /\ g = p.gen /\ ~p.settled
         /\ \/ /\ s = "expired" /\ ~p.retried
               /\ OnEvent(p, g, s) = StartJob(SetRetried(StopLive(p), TRUE))
            \/ /\ s = "done"
               /\ OnEvent(p, g, s) = BeginFetch(SetTold(StopLive(p), g, s), g)
            \/ /\ s \in {"failed", "expired"}
               /\ OnEvent(p, g, s) = HideOwn(SetTold(StopLive(p), g, s), g)
  BY ONLY OnEventCases, p \in Page, g \in Gens
<1> QED BY <1>1, <1>2, <1>3, <1>4, <1>5

LEMMA FigureNext ==
    ASSUME PageInv, [Next]_vars
    PROVE  \/ DemoStart \/ DemoEnd
           \/ demo' = demo /\ FigureStep(page, page')
           \/ /\ demo' = demo /\ Over(page, page')
              /\ \E g \in Gens : AnswerGone(g)
<1>0. /\ page \in Page /\ Good(page) /\ Kept(page, submits)
      /\ ~page.retried => page.gen < 2 * MaxSubmits
  <2>1. page \in Page /\ Good(page) /\ Kept(page, submits) /\ Counted(page, submits)
        /\ submits \in 0 .. MaxSubmits
    BY DEF PageInv, Kept, Good, TypeOK
  <2>2. page.gen \in Nat
    BY <2>1, GoodNumbers
  <2>3. ~page.retried => page.gen < 2 * MaxSubmits
    <3> SUFFICES ASSUME ~page.retried PROVE page.gen < 2 * MaxSubmits
      OBVIOUS
    <3>1. page.gen > 0 => page.gen < 2 * submits
      BY <2>1 DEF Counted
    <3> QED BY <2>1, <2>2, <3>1, Bounds
  <2> QED BY <2>1, <2>3
<1>1. DemoStart \/ DemoEnd \/ demo' = demo
  <2>1. ASSUME NEW g \in Gens, Callback(g)
        PROVE  demo' = demo
    <3>1. CASE \E i \in Slots : FetchHealth(g, i) \/ FetchGet(g, i) \/ FetchWait(g, i) \/ Unzip(g, i)
      BY <3>1 DEF FetchHealth, FetchGet, FetchWait, Unzip
    <3>2. CASE StartHealth(g) \/ StartPost(g) \/ WsMessage(g) \/ PollTick(g)
      BY <3>2 DEF StartHealth, StartPost, WsMessage, PollTick
    <3> QED BY <2>1, <3>1, <3>2 DEF Callback
  <2>2. ASSUME NEW g \in Gens, WsClose(g) \/ PollAnswer(g) \/ PollLost(g) \/ JobMoves(g)
        PROVE  demo' = demo
    BY <2>2 DEF WsClose, PollAnswer, PollLost, JobMoves
  <2>3. CASE Submit \/ UNCHANGED vars
    BY <2>3 DEF Submit, vars
  <2> QED BY <2>1, <2>2, <2>3 DEF Next
<1>2. ASSUME Submit PROVE FigureStep(page, page')
  <2> DEFINE r == SetRetried(page, FALSE)
  <2>1. page' = StartJob(r) /\ submits < MaxSubmits
    BY <1>2 DEF Submit, SetRetried
  <2>2. r \in Page /\ r.gen = page.gen
    BY <1>0, SetRetriedFields
  <2> HIDE DEF r
  <2>3. r.gen < 2 * MaxSubmits
    <3>1. submits \in Nat /\ page.gen \in Nat
      BY <1>0, GoodNumbers, Bounds DEF PageInv, TypeOK
    <3>2. page.gen <= 2 * submits
      BY <1>0 DEF Kept, Counted
    <3>3. submits < MaxSubmits /\ MaxSubmits \in Nat
      BY <2>1, Bounds
    <3>4. page.gen < 2 * MaxSubmits
      BY <3>1, <3>2, <3>3
    <3> QED BY <2>2, <3>4
  <2>4. r.start \in [Gens -> Starts]
    BY <2>2, PageType
  <2>5. Restarted(page, page')
    <3>1. /\ StartJob(r).uvi = TRUE /\ StartJob(r).gen = r.gen + 1 /\ r.gen + 1 \in Gens
          /\ StartJob(r).start = [r.start EXCEPT ![r.gen + 1] = "health"]
      BY <2>2, <2>3, StartJobFields
    <3> QED BY <2>1, <2>4, <3>1 DEF Restarted
  <2> QED BY <2>5 DEF FigureStep
<1>3. ASSUME NEW g \in Gens, page.start[g] \in {"health", "post"}
      PROVE  /\ FigureStep(page, HideOwn(SetStart(page, g, "over"), g))
             /\ g # page.gen => FigureStep(page, SetStart(page, g, "over"))
  <2> DEFINE q == SetStart(page, g, "over")
             h == HideOwn(q, g)
  <2>1. "over" \in Starts
    BY DEF Starts
  <2>2. /\ q \in Page /\ q.gen = page.gen /\ q.uvi = page.uvi /\ q.fetch = page.fetch
        /\ q.told = page.told /\ q.settled = page.settled /\ q.start[g] = "over"
        /\ \A k \in Gens \ {g} : q.start[k] = page.start[k]
    BY <1>0, <2>1, SetStartFields
  <2> HIDE DEF q
  <2>3. g # page.gen => FigureStep(page, q)
    BY <2>2 DEF FigureStep, Unmoved, SameFigure, SameGen
  <2>4. /\ h.gen = q.gen /\ h.start = q.start /\ h.told = q.told /\ h.fetch = q.fetch
        /\ h.uvi = (q.uvi /\ g # q.gen) /\ h.settled = q.settled
    BY <2>2, HideOwnFields
  <2>5. g # page.gen => h = q
    BY <2>2 DEF HideOwn
  <2>6. g = page.gen => Refused(page, h)
    BY <1>3, <2>2, <2>4 DEF Refused, SameGen
  <2> QED BY <2>3, <2>5, <2>6 DEF q, FigureStep
<1>4. ASSUME NEW g \in Gens, StartHealth(g)
      PROVE  FigureStep(page, page')
  <2>1. CASE g = page.gen /\ page' = SetStart(page, g, "post")
    <3>1. /\ page'.gen = page.gen /\ page'.uvi = page.uvi /\ page'.fetch = page.fetch
          /\ page'.told = page.told /\ page'.start[g] = "post"
          /\ page'.settled = page.settled
      <4>1. "post" \in Starts
        BY DEF Starts
      <4> QED BY <1>0, <2>1, <4>1, SetStartFields
    <3>2. Begun(page, page')
      BY <1>4, <2>1, <3>1 DEF StartHealth, Begun, SameFigure, SameGen
    <3> QED BY <3>2 DEF FigureStep
  <2>2. page.start[g] = "health"
    BY <1>4 DEF StartHealth
  <2>3. \/ g = page.gen /\ page' = SetStart(page, g, "post")
        \/ g # page.gen /\ page' = SetStart(page, g, "over")
        \/ page' = HideOwn(SetStart(page, g, "over"), g)
    BY <1>4 DEF StartHealth, SetStart
  <2> QED BY <1>3, <2>1, <2>2, <2>3
<1>5. ASSUME NEW g \in Gens, StartPost(g)
      PROVE  FigureStep(page, page')
  <2> DEFINE q == SetStart(page, g, "watch")
             w == SetWs(q, g)
  <2>0. page.start[g] = "post" /\ "watch" \in Starts /\ "open" \in Socks /\ g \in {0} \cup Gens
    BY <1>5 DEF StartPost, Starts, Socks
  <2>1. /\ q \in Page /\ q.gen = page.gen /\ q.uvi = page.uvi /\ q.fetch = page.fetch
        /\ q.told = page.told /\ q.start[g] = "watch" /\ q.settled = page.settled
        /\ \A k \in Gens \ {g} : q.start[k] = page.start[k]
    BY <1>0, <2>0, SetStartFields
  <2>2. \/ page' = HideOwn(SetStart(page, g, "over"), g)
        \/ page' = SetSock(w, g, "open")
        \/ page' = StartPolling(q, g)
    BY <1>5 DEF StartPost, SetStart, SetWs, SetSock
  <2> HIDE DEF q
  <2>3. /\ w \in Page /\ w.gen = q.gen /\ w.uvi = q.uvi /\ w.fetch = q.fetch
        /\ w.told = q.told /\ w.start = q.start /\ w.settled = q.settled
    BY <2>0, <2>1, SetWsFields
  <2> HIDE DEF w
  <2>4. page' # HideOwn(SetStart(page, g, "over"), g) =>
          /\ page'.gen = q.gen /\ page'.uvi = q.uvi /\ page'.fetch = q.fetch
          /\ page'.told = q.told /\ page'.start = q.start /\ page'.settled = q.settled
    BY <2>0, <2>1, <2>2, <2>3, SetSockFields, StartPollingFields
  <2>5. page' # HideOwn(SetStart(page, g, "over"), g) /\ g = page.gen => Begun(page, page')
    BY <2>0, <2>1, <2>4 DEF Begun, SameFigure, SameGen
  <2>6. page' # HideOwn(SetStart(page, g, "over"), g) /\ g # page.gen => Unmoved(page, page')
    BY <2>0, <2>1, <2>4 DEF Unmoved, SameFigure, SameGen
  <2> QED BY <1>3, <2>0, <2>5, <2>6 DEF FigureStep
<1>6. ASSUME NEW g \in Gens, WsMessage(g)
      PROVE  FigureStep(page, page')
  <2>1. page.sock[g] = "open" /\ page' = OnEvent(page, g, job[g])
    BY <1>6 DEF WsMessage
  <2>2. Unmoved(page, page)
    BY DEF Unmoved, SameFigure, SameGen
  <2> QED BY <1>0, <2>1, <2>2, FigureOnEvent
<1>7. ASSUME NEW g \in Gens, WsClose(g)
      PROVE  FigureStep(page, page')
  <2> DEFINE q == SetSock(page, g, "closed")
  <2>1. "closed" \in Socks
    BY DEF Socks
  <2>2. /\ q \in Page /\ q.gen = page.gen /\ q.uvi = page.uvi /\ q.fetch = page.fetch
        /\ q.told = page.told /\ q.start = page.start /\ q.settled = page.settled
    BY <1>0, <2>1, SetSockFields
  <2>3. page' = q \/ page' = StartPolling(q, g)
    BY <1>7 DEF WsClose, SetSock
  <2> HIDE DEF q
  <2>4. /\ page'.gen = page.gen /\ page'.uvi = page.uvi /\ page'.fetch = page.fetch
        /\ page'.told = page.told /\ page'.start = page.start
        /\ page'.settled = page.settled
    BY <2>2, <2>3, StartPollingFields
  <2> QED BY <2>4 DEF FigureStep, Unmoved, SameFigure, SameGen
<1>8. ASSUME NEW g \in Gens, NEW n \in 0 .. MaxPolls
      PROVE  /\ Unmoved(page, SetPolls(page, g, n)) /\ SetPolls(page, g, n) \in Page
             /\ SetPolls(page, g, n).retried = page.retried
             /\ SetPolls(page, g, n).gen = page.gen
  <2> DEFINE q == SetPolls(page, g, n)
  <2>1. /\ q \in Page /\ q.gen = page.gen /\ q.uvi = page.uvi /\ q.fetch = page.fetch
        /\ q.told = page.told /\ q.start = page.start /\ q.retried = page.retried
        /\ q.settled = page.settled
    BY <1>0, SetPollsFields
  <2> HIDE DEF q
  <2>2. Unmoved(page, q)
    BY <2>1 DEF Unmoved, SameFigure, SameGen
  <2> QED BY <2>1, <2>2 DEF q
<1>9. ASSUME NEW g \in Gens, PollTick(g)
      PROVE  FigureStep(page, page')
  <2>1. g = page.gen /\ page.polls[g] \in Nat
    BY <1>0, <1>9, Bounds, GoodNumbers DEF PollTick, Good, Current
  <2>2. page.polls[g] < MaxPolls /\ page' = SetPolls(page, g, page.polls[g] + 1)
    BY <1>9, <2>1 DEF PollTick, SetPolls
  <2>3. page.polls[g] + 1 \in 0 .. MaxPolls
    BY <2>1, <2>2, Bounds
  <2> QED BY <1>8, <2>2, <2>3 DEF FigureStep
<1>10. ASSUME NEW g \in Gens, PollAnswer(g) \/ PollLost(g)
       PROVE  FigureStep(page, page') \/ (Over(page, page') /\ AnswerGone(g))
  <2> DEFINE q == Answered(g)
  <2>1. page.polls[g] > 0
    BY <1>10 DEF PollAnswer, PollLost
  <2>2. \/ /\ PollAnswer(g) /\ job[g] = "absent"
           /\ page' = HideOwn(SetTold(StopLive(q), g, "absent"), g)
        \/ page' = BeginFetch(SetTold(StopLive(q), g, "done"), g)
        \/ page' = OnEvent(q, g, job[g])
        \/ page' = q
    BY <1>10 DEF PollAnswer, PollLost, Answered, SetPolls, SetTold
  <2>3. /\ Kept(q, submits) /\ q \in Page /\ q.polls[g] < MaxPolls
        /\ g = q.gen => Cardinality(Used(q, g)) + q.polls[g] < MaxPolls
    BY <2>1, AnsweredIsGood
  <2>4. g = q.gen => Cardinality(Used(q, g)) < MaxPolls
    <3>1. q.polls[g] \in Nat /\ Cardinality(Used(q, g)) \in Nat
      BY <2>3, GoodNumbers, UsedCount, Bounds
    <3> QED BY <2>3, <3>1, Bounds
  <2>5. page.polls[g] - 1 \in 0 .. MaxPolls
    BY <1>0, <2>1, GoodNumbers, Bounds
  <2>6. Unmoved(page, q) /\ q.retried = page.retried /\ q.gen = page.gen
    BY <1>8, <2>5 DEF Answered
  <2>8. {"absent", "done"} \subseteq Ends \ {"none"}
    BY DEF Ends
  <2> HIDE DEF q
  <2>9. FigureStep(page, OnEvent(q, g, job[g]))
    BY <1>0, <2>3, <2>6, FigureOnEvent DEF Kept
  <2>10. /\ IF g = page.gen THEN Over(page, HideOwn(SetTold(StopLive(q), g, "absent"), g))
            ELSE Unmoved(page, HideOwn(SetTold(StopLive(q), g, "absent"), g))
         /\ FigureStep(page, BeginFetch(SetTold(StopLive(q), g, "done"), g))
    BY <1>0, <2>3, <2>4, <2>6, <2>8, FigureEnd
  <2> QED BY <2>2, <2>6, <2>9, <2>10 DEF FigureStep, AnswerGone
<1>11. ASSUME NEW g \in Gens, NEW i \in Slots,
              FetchHealth(g, i) \/ FetchGet(g, i) \/ FetchWait(g, i) \/ Unzip(g, i)
       PROVE  FigureStep(page, page')
  <2>1. page.fetch[g][i] \in Pending
    BY <1>11 DEF FetchHealth, FetchGet, FetchWait, Unzip, At, Pending
  <2>2. {"get", "wait", "unzip", "over", "shown"} \subseteq Phases
    BY DEF Phases
  <2>3. ASSUME NEW v \in {"get", "wait", "unzip", "over", "shown"},
               NEW q, q.gen = page.gen, q.start = page.start, q.told = page.told,
               q.settled = page.settled,
               q.fetch = Goto(page, g, i, v).fetch, q.uvi => page.uvi,
               g # page.gen \/ v \in Pending => q.uvi = page.uvi,
               g = page.gen /\ v \notin Pending => ~q.uvi
        PROVE  FigureStep(page, q)
    <3>1. /\ q.fetch[g][i] = v /\ \A j \in Slots \ {i} : q.fetch[g][j] = page.fetch[g][j]
          /\ \A h \in Gens \ {g} : q.fetch[h] = page.fetch[h]
      BY <1>0, <2>2, <2>3, GotoFields
    <3>2. CASE g # page.gen
      BY <2>3, <3>1, <3>2 DEF FigureStep, Unmoved, SameFigure, SameGen
    <3>3. CASE g = page.gen
      <4>1. \/ q.fetch[g][i] \in Pending /\ q.uvi = page.uvi
            \/ q.fetch[g][i] \in {"shown", "over"} /\ ~q.uvi
        BY <2>3, <3>1, <3>3 DEF Pending
      <4>2. Loaded(page, q)
        BY <2>1, <2>3, <3>1, <3>3, <4>1 DEF Loaded, SameGen
      <4> QED BY <4>2 DEF FigureStep
    <3> QED BY <3>2, <3>3
  <2>4. ASSUME NEW v \in {"get", "wait", "unzip", "over", "shown"}
        PROVE  /\ Goto(page, g, i, v) \in Page
               /\ Goto(page, g, i, v).gen = page.gen /\ Goto(page, g, i, v).uvi = page.uvi
               /\ Goto(page, g, i, v).start = page.start
               /\ Goto(page, g, i, v).told = page.told
               /\ Goto(page, g, i, v).tries = page.tries
               /\ Goto(page, g, i, v).viewer = page.viewer
               /\ Goto(page, g, i, v).settled = page.settled
    BY <1>0, <2>2, <2>4, GotoFields
  <2>5. CASE \E v \in {"get", "unzip"} : page' = Goto(page, g, i, v)
    BY <2>3, <2>4, <2>5 DEF Pending
  <2>6. CASE page' = Goto(page, g, i, "over") /\ g # page.gen
    BY <2>3, <2>4, <2>6
  <2>7. CASE page' = HideOwn(Goto(page, g, i, "over"), g)
    <3> DEFINE o == Goto(page, g, i, "over")
    <3>1. o \in Page /\ o.gen = page.gen /\ o.uvi = page.uvi /\ o.start = page.start
          /\ o.told = page.told /\ o.uvi \in BOOLEAN /\ o.settled = page.settled
      BY <2>4, PageType
    <3> HIDE DEF o
    <3>2. /\ page'.gen = o.gen /\ page'.start = o.start /\ page'.told = o.told
          /\ page'.fetch = o.fetch /\ page'.uvi = (o.uvi /\ g # o.gen)
          /\ page'.settled = o.settled
      BY <2>7, <3>1, HideOwnFields DEF o
    <3>3. /\ page'.uvi => page.uvi
          /\ g # page.gen => page'.uvi = page.uvi
          /\ g = page.gen => ~page'.uvi
      BY <3>1, <3>2
    <3> QED BY <2>3, <3>1, <3>2, <3>3 DEF o, Pending
  <2>8. CASE page' = SetTries(Goto(page, g, i, "wait"), g, i, page.tries[g][i] + 1)
             /\ page.tries[g][i] < MaxTries
    <3> DEFINE o == Goto(page, g, i, "wait")
    <3>1. o \in Page /\ o.gen = page.gen /\ o.uvi = page.uvi /\ o.start = page.start
          /\ o.told = page.told /\ o.settled = page.settled
      BY <2>4
    <3> HIDE DEF o
    <3>2. page.tries[g][i] + 1 \in 0 .. MaxTries
      BY <1>0, <2>8, Bounds, PageType
    <3>3. /\ page'.gen = o.gen /\ page'.start = o.start /\ page'.told = o.told
          /\ page'.fetch = o.fetch /\ page'.uvi = o.uvi /\ page'.settled = o.settled
      BY <2>8, <3>1, <3>2, SetTriesFields DEF o
    <3> QED BY <2>3, <3>1, <3>3 DEF o, Pending
  <2>9. CASE page' = SetUvi(SetViewer(Goto(page, g, i, "shown"), g), FALSE)
             /\ g = page.gen
    <3> DEFINE o == Goto(page, g, i, "shown")
               v == SetViewer(o, g)
    <3>1. o \in Page /\ o.gen = page.gen /\ o.start = page.start
          /\ o.told = page.told /\ o.settled = page.settled /\ g \in {0} \cup Gens
      BY <2>4
    <3> HIDE DEF o
    <3>2. /\ v \in Page /\ v.gen = o.gen /\ v.start = o.start /\ v.told = o.told
          /\ v.fetch = o.fetch /\ v.settled = o.settled
      BY <3>1, SetViewerFields
    <3> HIDE DEF v
    <3>3. page' = SetUvi(v, FALSE)
      BY <2>9 DEF v, o
    <3>4. /\ page'.gen = v.gen /\ page'.start = v.start /\ page'.told = v.told
          /\ page'.fetch = v.fetch /\ page'.uvi = FALSE /\ page'.settled = v.settled
      BY <3>2, <3>3, SetUviFields
    <3> QED BY <2>3, <2>9, <3>1, <3>2, <3>4 DEF o, Pending
  <2>10. \/ \E v \in {"get", "unzip"} : page' = Goto(page, g, i, v)
         \/ page' = Goto(page, g, i, "over") /\ g # page.gen
         \/ page' = HideOwn(Goto(page, g, i, "over"), g)
         \/ /\ page.tries[g][i] < MaxTries
            /\ page' = SetTries(Goto(page, g, i, "wait"), g, i, page.tries[g][i] + 1)
         \/ /\ g = page.gen
            /\ page' = SetUvi(SetViewer(Goto(page, g, i, "shown"), g), FALSE)
    BY <1>0, <1>11, FetchForms
  <2> QED BY <2>5, <2>6, <2>7, <2>8, <2>9, <2>10
<1>12. ASSUME page' = page PROVE FigureStep(page, page')
  BY <1>12 DEF FigureStep, Unmoved, SameFigure, SameGen
<1>13. FigureStep(page, page') \/ DemoStart \/ DemoEnd
       \/ (Over(page, page') /\ \E g \in Gens : AnswerGone(g))
  <2>1. \/ Submit \/ page' = page \/ DemoStart \/ DemoEnd
        \/ \E g \in Gens : Callback(g) \/ WsClose(g) \/ PollAnswer(g) \/ PollLost(g)
    BY DEF Next, vars, JobMoves
  <2> QED
    BY <2>1, <1>2, <1>4, <1>5, <1>6, <1>7, <1>9, <1>10, <1>11, <1>12 DEF Callback
<1> QED BY <1>1, <1>13

Figure == PageInv /\ Lit(page) /\ Out(page, demo)

LEMMA FigureInvHolds == Spec => []Figure
<1>1. Init => Lit(page) /\ Out(page, demo)
  <2> SUFFICES ASSUME Init PROVE Lit(page) /\ Out(page, demo)
    OBVIOUS
  <2>1. page.gen = 0
    BY DEF Init
  <2> QED BY <2>1, Bounds DEF Lit, Out
<1>2. ASSUME Figure, PageInv', [Next]_vars
      PROVE  Lit(page)' /\ Out(page, demo)'
  <2>1. /\ page \in Page /\ page' \in Page /\ Good(page) /\ Good(page') /\ demo \in BOOLEAN
        /\ Lit(page) /\ Out(page, demo) /\ PageInv
    BY <1>2 DEF Figure, PageInv, Kept, Good, TypeOK
  <2>2. CASE demo' = demo /\ (FigureStep(page, page') \/ Over(page, page'))
    BY <2>1, <2>2, FigureLit, FigureOut
  <2>3. CASE DemoStart \/ DemoEnd
    <3>1. PICK b \in BOOLEAN : /\ page' = SetUvi(page, b)
                               /\ (b /\ demo') \/ b = (page.gen > 0 /\ ~page.settled)
      BY <2>3 DEF DemoStart, DemoEnd, SetUvi
    <3>2. /\ page'.gen = page.gen /\ page'.uvi = b /\ page'.settled = page.settled
          /\ page'.told = page.told
      BY <2>1, <3>1, SetUviFields
    <3>3. \A g \in Gens : g = page.gen => g > 0 /\ (page.told[g] # "none" => page.settled)
      BY <2>1, GoodNow, Bounds
    <3>4. Lit(page') /\ Out(page', demo')
      BY <3>1, <3>2, <3>3 DEF Lit, Out
    <3> QED BY <3>4
  <2> QED BY <1>2, <2>1, <2>2, <2>3, FigureNext
<1>3. Figure /\ PageInv' /\ [Next]_vars => Figure'
  BY <1>2 DEF Figure
<1> QED BY <1>1, <1>3, PageInvHolds, PTL DEF Spec, Figure

\* Over a download that goes on only the end of a demo load puts the figure out,
\* or another poll of the same job that finds it gone.
THEOREM FigureStaysForDownload == Spec => DownloadIsShown
<1>1. ASSUME PageInv, PageInv', [Next]_vars, page.uvi, ~page.uvi'
      PROVE  \/ \A g \in Gens : g = page.gen' => ~Downloading(g)'
             \/ DemoEnd
             \/ \E g \in Gens : g = page.gen /\ job[g] = "absent" /\ PollAnswer(g)
  <2>1. page \in Page /\ page' \in Page /\ Good(page)
    BY <1>1 DEF PageInv, Kept, Good
  <2>2. CASE DemoStart
    <3>1. page' = SetUvi(page, TRUE)
      BY <2>2 DEF DemoStart, SetUvi
    <3> QED BY <1>1, <2>1, <3>1, SetUviFields
  <2>3. CASE FigureStep(page, page')
    <3>1. \A g \in Gens : g = page'.gen => ~Loads(page', g)
      BY <1>1, <2>1, <2>3, FigureHides
    <3>2. \A g \in Gens : Downloading(g)' <=> Loads(page', g)
      BY DEF Downloading, Loads, Pending
    <3> QED BY <3>1, <3>2
  <2> QED BY <1>1, <2>2, <2>3, FigureNext DEF AnswerGone
<1>2. PageInv /\ PageInv' /\ [Next]_vars =>
        [page.uvi /\ ~page.uvi' =>
           \/ \A g \in Gens : g = page.gen' => ~Downloading(g)'
           \/ DemoEnd
           \/ \E g \in Gens : g = page.gen /\ job[g] = "absent" /\ PollAnswer(g)]_vars
  BY <1>1
<1> QED BY <1>2, PageInvHolds, PTL DEF Spec, DownloadIsShown

\* Until the end of the last submission is told the busy figure is on the page,
\* afterwards it is there for its download or for a demo load only, and over the
\* download nothing of an older submission's puts it out, however the callbacks of
\* older submissions and the demo loads fall.
THEOREM BusyTellsTheTruth == Spec => BusyIsTrue
<1>1. Figure => LiveIsShown /\ EndedIsHidden
  BY DownloadsOfPage DEF Figure, Lit, Out, LiveIsShown, EndedIsHidden
<1> QED BY <1>1, FigureInvHolds, FigureStaysForDownload, PTL DEF BusyIsTrue

-----------------------------------------------------------------------------
(***************************************************************************)
(* What the page follows.  Every callback but one looks at the generation  *)
(* after its await; the answer to a poll does not (index.astro:1135).      *)
(***************************************************************************)

\* The current generation, if it is settled, was settled by its own end.
Own(p) == \A g \in Gens : g = p.gen /\ p.settled => p.told[g] # "none"

\* The steps that settle nothing.
Calm(p, q) == q.gen = p.gen /\ q.settled = p.settled /\ q.told = p.told

LEMMA OwnCalm ==
    ASSUME NEW p, NEW q, Own(p), Calm(p, q)
    PROVE  Own(q)
  BY DEF Own, Calm

\* The end of the current generation.
LEMMA OwnEnd ==
    ASSUME NEW p \in Page, NEW g \in Gens, g = p.gen, NEW s \in Ends \ {"none"}
    PROVE  /\ Own(HideOwn(SetTold(StopLive(p), g, s), g))
           /\ (\E i \in Slots : p.fetch[g][i] = "none")
                => Own(BeginFetch(SetTold(StopLive(p), g, s), g))
<1> DEFINE l == StopLive(p)
           t == SetTold(l, g, s)
<1>1. l \in Page /\ l.gen = p.gen /\ l.polls = p.polls /\ l.fetch = p.fetch
  BY StopLiveFields
<1> HIDE DEF l
<1>2. /\ t \in Page /\ t.gen = p.gen /\ t.polls = p.polls /\ t.fetch = p.fetch
      /\ t.told[g] = s
  BY <1>1, SetToldFields
<1> HIDE DEF t
<1>3. HideOwn(t, g).gen = t.gen /\ HideOwn(t, g).polls = t.polls /\ HideOwn(t, g).told = t.told
  BY <1>2, HideOwnFields
<1>4. Own(HideOwn(t, g))
  BY <1>2, <1>3 DEF Own
<1>5. ASSUME \E i \in Slots : t.fetch[g][i] = "none"
      PROVE  Own(BeginFetch(t, g))
  <2>1. /\ BeginFetch(t, g).gen = t.gen /\ BeginFetch(t, g).polls = t.polls
        /\ BeginFetch(t, g).told = t.told
    BY <1>2, <1>5 DEF BeginFetch
  <2> QED BY <1>2, <2>1 DEF Own
<1> QED BY <1>2, <1>4, <1>5 DEF t, l

\* A new generation is not settled.
LEMMA OwnStartJob ==
    ASSUME NEW p \in Page, p.gen < 2 * MaxSubmits
    PROVE  Own(StartJob(p))
  BY StartJobFields DEF Own

\* A page that has seen the end of nothing has room for a download.
LEMMA RoomToFetch ==
    ASSUME NEW p, Good(p), NEW g \in Gens, Cardinality(Used(p, g)) < MaxPolls
    PROVE  \E i \in Slots : p.fetch[g][i] = "none"
<1>1. p \in Page
  BY DEF Good
<1> QED BY <1>1, UsedCount

LEMMA OwnOnEvent ==
    ASSUME NEW p, Good(p), Own(p), ~p.retried => p.gen < 2 * MaxSubmits,
           NEW g \in Gens, NEW s
    PROVE  Own(OnEvent(p, g, s))
<1>0. p \in Page
  BY DEF Good
<1>1. CASE OnEvent(p, g, s) = p
  BY <1>1
<1>2. CASE g = p.gen /\ ~p.retried /\ OnEvent(p, g, s) = StartJob(SetRetried(StopLive(p), TRUE))
  <2> DEFINE l == StopLive(p)
             r == SetRetried(l, TRUE)
  <2>1. l \in Page /\ l.gen = p.gen
    BY <1>0, StopLiveFields
  <2> HIDE DEF l
  <2>2. r \in Page /\ r.gen = p.gen
    BY <2>1, SetRetriedFields
  <2> HIDE DEF r
  <2>3. Own(StartJob(r))
    BY <1>2, <2>2, OwnStartJob
  <2> QED BY <1>2, <2>3 DEF r, l
<1>3. CASE g = p.gen /\ ~p.settled /\ s = "done"
             /\ OnEvent(p, g, s) = BeginFetch(SetTold(StopLive(p), g, s), g)
  <2>1. Used(p, g) = {} /\ Cardinality(Used(p, g)) < MaxPolls
    BY <1>0, <1>3, UsedCount, Bounds DEF Good, Room
  <2>2. s \in Ends \ {"none"}
    BY <1>3 DEF Ends
  <2> QED BY <1>0, <1>3, <2>1, <2>2, OwnEnd, RoomToFetch
<1>4. CASE g = p.gen /\ s \in {"failed", "expired"}
             /\ OnEvent(p, g, s) = HideOwn(SetTold(StopLive(p), g, s), g)
  <2>1. s \in Ends \ {"none"}
    BY <1>4 DEF Ends
  <2> QED BY <1>0, <1>4, <2>1, OwnEnd
<1> QED BY ZenonT(30), <1>0, <1>1, <1>2, <1>3, <1>4, OnEventCases

LEMMA OwnNext ==
    ASSUME PageInv, Own(page), [Next]_vars
    PROVE  Own(page') \/ \E g \in Gens : StaleAnswer(g)
<1>0. /\ page \in Page /\ Good(page) /\ Kept(page, submits)
      /\ submits \in 0 .. MaxSubmits /\ submits \in Nat
      /\ page.gen <= 2 * submits
      /\ page.gen > 0 /\ ~page.retried => page.gen < 2 * submits
  BY Bounds DEF PageInv, Kept, Good, TypeOK, Counted
<1>1. page.gen \in Nat /\ \A g \in Gens : g \in Nat \ {0} /\ page.polls[g] \in 0 .. MaxPolls
  BY <1>0, GoodNumbers, Bounds
<1>2. ~page.retried => page.gen < 2 * MaxSubmits
  BY <1>0, <1>1, Bounds
<1>3. ASSUME Submit PROVE Own(page')
  <2> DEFINE r == SetRetried(page, FALSE)
  <2>1. page' = StartJob(r) /\ submits < MaxSubmits
    BY <1>3 DEF Submit, SetRetried
  <2>2. r \in Page /\ r.gen = page.gen
    BY <1>0, SetRetriedFields
  <2> HIDE DEF r
  <2>3. r.gen < 2 * MaxSubmits
    BY <1>0, <1>1, <2>1, <2>2, Bounds
  <2> QED BY <2>1, <2>2, <2>3, OwnStartJob
<1>4. ASSUME NEW g \in Gens, WsMessage(g)
      PROVE  Own(page')
  BY <1>0, <1>2, <1>4, OwnOnEvent DEF WsMessage
<1>5. ASSUME NEW g \in Gens, PollAnswer(g) \/ PollLost(g), ~StaleAnswer(g)
      PROVE  Own(page')
  <2> DEFINE q == Answered(g)
  <2>1. page.polls[g] > 0
    BY <1>5 DEF PollAnswer, PollLost
  <2>2. \/ page' = HideOwn(SetTold(StopLive(q), g, "absent"), g) /\ g = page.gen
        \/ page' = BeginFetch(SetTold(StopLive(q), g, "done"), g) /\ g = page.gen
        \/ page' = OnEvent(q, g, job[g])
        \/ page' = q
    BY <1>5 DEF PollAnswer, PollLost, Answered, SetPolls, SetTold, StaleAnswer
  <2>3. /\ Good(q) /\ q \in Page
        /\ g = q.gen => Cardinality(Used(q, g)) + q.polls[g] < MaxPolls
    BY <2>1, AnsweredIsGood DEF Kept
  <2>4. /\ q.gen = page.gen /\ q.settled = page.settled /\ q.told = page.told
        /\ q.retried = page.retried
    <3>1. page.polls[g] - 1 \in 0 .. MaxPolls
      BY <1>1, <2>1, Bounds
    <3> QED BY <1>0, <3>1, SetPollsFields DEF Answered
  <2> HIDE DEF q
  <2>5. Own(q)
    BY <2>4, OwnCalm DEF Calm
  <2>6. Own(OnEvent(q, g, job[g]))
    BY <1>2, <2>3, <2>4, <2>5, OwnOnEvent
  <2>7. {"absent", "done"} \subseteq Ends \ {"none"}
    BY DEF Ends
  <2>8. g = q.gen => \E i \in Slots : q.fetch[g][i] = "none"
    <3>1. Cardinality(Used(q, g)) \in Nat /\ q.polls[g] \in Nat
      BY <2>3, GoodNumbers, UsedCount, Bounds
    <3>2. g = q.gen => Cardinality(Used(q, g)) < MaxPolls
      BY <2>3, <3>1, Bounds
    <3> QED BY <2>3, <3>2, RoomToFetch
  <2> QED BY <2>2, <2>3, <2>4, <2>5, <2>6, <2>7, <2>8, OwnEnd
<1>6. ASSUME NEW g \in Gens, StartHealth(g) \/ StartPost(g)
      PROVE  Calm(page, page')
  <2>1. {"post", "over", "watch"} \subseteq Starts /\ "open" \in Socks /\ g \in {0} \cup Gens
    BY DEF Starts, Socks
  <2>2. \/ \E v \in {"post", "over"} : page' = SetStart(page, g, v)
        \/ page' = HideOwn(SetStart(page, g, "over"), g)
        \/ page' = SetSock(SetWs(SetStart(page, g, "watch"), g), g, "open")
        \/ page' = StartPolling(SetStart(page, g, "watch"), g)
    BY <1>6 DEF StartHealth, StartPost, SetStart, SetWs, SetSock
  <2>3. \A v \in {"post", "over", "watch"} :
          SetStart(page, g, v) \in Page /\ Calm(page, SetStart(page, g, v))
    <3> TAKE v \in {"post", "over", "watch"}
    <3> DEFINE q == SetStart(page, g, v)
    <3>1. /\ q \in Page /\ q.gen = page.gen /\ q.settled = page.settled
          /\ q.told = page.told /\ q.polls = page.polls
      BY <1>0, <2>1, SetStartFields
    <3> HIDE DEF q
    <3>2. Calm(page, q)
      BY <3>1 DEF Calm
    <3> QED BY <3>1, <3>2 DEF q
  <2>4. ASSUME NEW q \in Page, Calm(page, q)
        PROVE  /\ Calm(page, HideOwn(q, g))
               /\ Calm(page, SetSock(SetWs(q, g), g, "open"))
               /\ Calm(page, StartPolling(q, g))
    <3>1. Calm(page, HideOwn(q, g))
      BY <2>4, HideOwnFields DEF Calm
    <3>2. SetWs(q, g) \in Page /\ Calm(page, SetWs(q, g))
      BY <2>1, <2>4, SetWsFields DEF Calm
    <3>3. Calm(page, SetSock(SetWs(q, g), g, "open"))
      BY <2>1, <3>2, SetSockFields DEF Calm
    <3>4. Calm(page, StartPolling(q, g))
      BY <1>1, <2>4, StartPollingFields DEF Calm
    <3> QED BY <3>1, <3>3, <3>4
  <2> QED BY <2>2, <2>3, <2>4
<1>7. ASSUME NEW g \in Gens, WsClose(g)
      PROVE  Calm(page, page')
  <2> DEFINE q == SetSock(page, g, "closed")
  <2>1. "closed" \in Socks
    BY DEF Socks
  <2>2. q \in Page /\ Calm(page, q)
    BY <1>0, <2>1, SetSockFields DEF Calm
  <2>3. page' = q \/ page' = StartPolling(q, g)
    BY <1>7 DEF WsClose, SetSock
  <2> HIDE DEF q
  <2>4. Calm(page, StartPolling(q, g))
    BY <1>1, <2>2, StartPollingFields DEF Calm
  <2> QED BY <2>2, <2>3, <2>4
<1>8. ASSUME NEW g \in Gens, PollTick(g)
      PROVE  Calm(page, page')
  <2>1. g = page.gen
    BY <1>0, <1>1, <1>8 DEF PollTick, Good, Current
  <2> DEFINE n == page.polls[g] + 1
  <2>2. page' = SetPolls(page, g, n) /\ page.polls[g] < MaxPolls
    BY <1>8, <2>1 DEF PollTick, SetPolls
  <2>3. n \in 0 .. MaxPolls
    BY <1>1, <2>2, Bounds
  <2> HIDE DEF n
  <2> QED BY ZenonT(30), <1>0, <2>2, <2>3, SetPollsFields DEF Calm
<1>9. ASSUME NEW g \in Gens, NEW i \in Slots,
             FetchHealth(g, i) \/ FetchGet(g, i) \/ FetchWait(g, i) \/ Unzip(g, i)
      PROVE  Calm(page, page')
  <2>1. \A v \in {"get", "wait", "unzip", "over", "shown"} :
          Goto(page, g, i, v) \in Page /\ Calm(page, Goto(page, g, i, v))
    <3> TAKE v \in {"get", "wait", "unzip", "over", "shown"}
    <3> DEFINE q == Goto(page, g, i, v)
    <3>0. v \in Phases
      BY DEF Phases
    <3>1. /\ q \in Page /\ q.gen = page.gen /\ q.settled = page.settled
          /\ q.told = page.told /\ q.polls = page.polls
      BY <1>0, <3>0, GotoFields
    <3> HIDE DEF q
    <3>2. Calm(page, q)
      BY <3>1 DEF Calm
    <3> QED BY <3>1, <3>2 DEF q
  <2>2. ASSUME NEW q \in Page, Calm(page, q)
        PROVE  /\ Calm(page, HideOwn(q, g))
               /\ Calm(page, SetUvi(SetViewer(q, g), FALSE))
               /\ page.tries[g][i] < MaxTries
                    => Calm(page, SetTries(q, g, i, page.tries[g][i] + 1))
    <3>1. Calm(page, HideOwn(q, g))
      BY <2>2, HideOwnFields DEF Calm
    <3>2. g \in {0} \cup Gens
      OBVIOUS
    <3>3. SetViewer(q, g) \in Page /\ Calm(page, SetViewer(q, g))
      BY <2>2, <3>2, SetViewerFields DEF Calm
    <3>4. Calm(page, SetUvi(SetViewer(q, g), FALSE))
      <4> DEFINE w == SetViewer(q, g)
                 u == SetUvi(w, FALSE)
      <4>1. w \in Page /\ Calm(page, w)
        BY <3>3
      <4> HIDE DEF w
      <4>2. u.gen = w.gen /\ u.settled = w.settled /\ u.told = w.told /\ u.polls = w.polls
        BY <4>1, SetUviFields
      <4> HIDE DEF u
      <4>3. Calm(page, u)
        BY <4>1, <4>2 DEF Calm
      <4> QED BY <4>3 DEF u, w
    <3>5. ASSUME page.tries[g][i] < MaxTries
          PROVE  Calm(page, SetTries(q, g, i, page.tries[g][i] + 1))
      <4> DEFINE n == page.tries[g][i] + 1
      <4>1. n \in 0 .. MaxTries
        BY <1>0, <3>5, Bounds, PageType
      <4> HIDE DEF n
      <4>2. Calm(page, SetTries(q, g, i, n))
        BY <2>2, <4>1, SetTriesFields DEF Calm
      <4> QED BY <4>2 DEF n
    <3> QED BY <3>1, <3>4, <3>5
  <2> QED BY <1>0, <1>9, <2>1, <2>2, FetchForms
<1>10. ASSUME DemoStart \/ DemoEnd \/ UNCHANGED vars \/ \E g \in Gens : JobMoves(g)
       PROVE  Calm(page, page')
  <2>1. page' = page \/ \E b \in BOOLEAN : page' = SetUvi(page, b)
    BY <1>10 DEF DemoStart, DemoEnd, vars, JobMoves, SetUvi
  <2>2. Calm(page, page)
    BY DEF Calm
  <2>3. \A b \in BOOLEAN : Calm(page, SetUvi(page, b))
    BY <1>0, SetUviFields DEF Calm
  <2> QED BY <2>1, <2>2, <2>3
<1> QED
  BY <1>3, <1>4, <1>5, <1>6, <1>7, <1>8, <1>9, <1>10, OwnCalm DEF Next, Callback

\* As long as the current submission was settled by its own end, so it is after
\* any step but one: an answer of done or 404 to a poll of an older one.
THEOREM LeftByStalePollsOnly == Spec => OnlyStalePollsSettle
<1>1. ASSUME PageInv, [Next]_vars, SettledIsOwn
      PROVE  SettledIsOwn' \/ \E g \in Gens : StaleAnswer(g)
  <2>1. Own(page)
    BY <1>1 DEF Own, SettledIsOwn
  <2>2. Own(page') => SettledIsOwn'
    BY DEF Own, SettledIsOwn
  <2> QED BY <1>1, <2>1, <2>2, OwnNext
<1>2. PageInv /\ [Next]_vars =>
        [SettledIsOwn => SettledIsOwn' \/ \E g \in Gens : StaleAnswer(g)]_vars
  BY <1>1
<1> QED BY <1>2, PageInvHolds, PTL DEF Spec, OnlyStalePollsSettle
=============================================================================
