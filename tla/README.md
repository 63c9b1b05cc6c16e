# Vultus in TLA+

Vultus compares two face photos: a gateway on Cloudflare accepts them, GPU
workers on Modal compute a result zip, and everything is forgotten within a
short window. Two things in it are hard. One is the life of a job across five
parties that share nothing but a bucket, a queue and an object with an alarm. The
other is the Python process that computes: nearly every step of it has a
fallback, and a degraded result must not pass for a real one. These modules model
both and TLC checks them. TLAPS proves the safety properties of every part that
has control: of the Durable Object, of the production and the development
pipeline for any number of consumers, of the page and its viewer for any
submissions and loads, of the sweep for any bucket, of the inference process
for any threads and volumes, and of the wire, the queue's messages and the atlases
for any content. Four runs, and
some instances kept beside them, show where the code does not do what its own texts
say.

## The system

| component | state it keeps | operations | interacts with |
|---|---|---|---|
| Durable Object of a job (`edge/progress-do.ts`) | five stored keys, the same fields in memory, one alarm, sockets with a tick counter | `/init`, `/progress`, `/status`, WebSocket, `alarm()` | gateway (calls), consumers (reports), page (socket), runtime (alarm, eviction) |
| Gateway (`edge/worker.ts`) | none of its own; objects `jobs/{id}/a`, `b`, `result.zip` in R2 | `POST /v1/compare`, `GET /result`, relays to the object, cron sweep | object, R2, queue |
| Production consumer (`backend/modal_app.py`) | the run in progress, its lease and deadline | pull, pipeline, reports, put, deletes, ack | queue, object (through the gateway), R2, GPU workers |
| Page (`frontend/src/pages/index.astro`, `compare-client.ts`) | `gen`, `settled`, `autoRetried`, socket, poll timer, callbacks in flight | submit, follow, retry, download, unpack, demo load | gateway |
| Development gateway and runner (`edge/worker.dev.ts`, `backend/local_runner.py`, `pipeline_local.py`) | dead letter, temporary directory | webhook, `run_pair`, progress sink | dev queue, gateway |
| Inference process (`modal_app.py`, `flame_texture.py`, `flame_fit.py`, `gnm_assemble.py`) | caches of the process (raster of the last face, networks, template, basis), a table of branch flags per thread, never cleared | landmarks, fit, texture, HQ texture, displacement | weights volume (may change under it), consumer or local runner |
| Wire to the ML sidecar (`pipeline_local.py`, `domain.py`, routes in `modal_app.py`) | what the client holds between two calls | `landmarks`, `fit`, `texture` over nested binary frames | local runner, inference process |
| Queue messages (`domain.py`, `worker.ts`, `local_runner.py`) | dead letters of the local runner, 100 at most | wrap, unwrap, parse, dead letter | gateway, queue, both consumers |
| V3 figure worker (`backend/v3_*.py`) | table of branches of the subject, a temporary file | a chain of stages without fallbacks, pose and its gate | R2, weights volume |
| Atlas (`flame_texture.py`, `v3_texture.py`) | none | confidence, masks, seam, blend, synthesis | inference process, figure worker |
| Mesh (`gnm_assemble.py`, `v3_dense.py`, `v3_bundle.py`) | none | template, split into skin and eyes, binary GLB | consumer, figure worker |
| Contract (`edge/contract.ts`) | none | parsers of requests | everyone |
| Networks and fits (`texgan`, `deep3d`, `dpr`, `face_parsing`, `gnm_*`) | none | array computation | inference process |
| 3D viewer (`components/ThreeViewer.astro`, `three-rig.ts`) | serials of loads and clears, a slot per canvas, overlays, object URLs, links, status line | clear, meshes, `loadGlbs` and `paintFace` between awaits, drawing loops, context loss | page (two window events) |
| Zip viewers, busy figure, demo loader (`UvViewers.astro`, `uvi*.ts`, `demo-loader.ts`) | none that matters | layout and texts | page |

What is hard: the object's handlers are cut by crashes between two writes; the
queue delivers at least once, so runs repeat, overlap and end late; each remote
call of the consumer is one more point where the alarm, the sweep or another
delivery can run; every call to report, delete or ack is best-effort; the page
has several asynchronous submissions in flight over one set of variables, and
its viewer several loads over one pair of canvases. In the inference process,
threads are reused and share caches, flags survive the job that wrote them, and a
file seen at one gate may be gone at the next.

What makes each part correct:

- **Object**: it plays the life queued, processing, done or failed, expired,
  forgotten, never backwards; each window lasts its ttl; nothing accepted is
  stored without an alarm; no client is told otherwise; every socket ends.
- **Gateway**: a 202 is work that can be done; a result that is promised (`done`)
  is there; the sweep takes only what is over, and in the end all of it.
- **Consumer**: whatever happens, a settled answer stays; failure and ack leave
  nothing of the photos; runs do not overlap within their deadlines.
- **Page**: it shows the last submission only, retries once, never stops
  following a job for another job's sake (an old poll breaks this), and shows the
  busy figure as long as the job goes on, then for its download only.
- **Sweep**: it deletes zips of jobs that are over and nothing else, a pass
  without failure leaves none, and in the end none within reach stays.
- **Inference process**: an HQ texture took every branch it must; with
  `VULTUS_REAL_ML=1` nothing is a double; the log line of a real job tells the
  branches of that job (a double's may not); a job samples with the raster of its
  own face.
- **Wire**: the sidecar computes on exactly what the client holds, and refuses a
  frame of another version as such.
- **Queue**: a message is taken as its producer meant it, or is among the newest
  dead letters.
- **V3 figure**: a figure is answered whole or not at all, and no photo stays.
- **Atlas, mesh**: an atlas shows the photo where it is trusted and its completion
  elsewhere, mixed between neighbours at most; teeth do not reach an HQ atlas; every
  view of a GLB holds its own section and every triangle is in one primitive.
- **Viewer**: its status line is about the newest load, and what it calls ready was
  drawn and is what a canvas shows (unless an overtaken load draws over it, or the
  context is lost); it blames the zip for a broken mesh only; its links work.

## Modules

| module | what it models |
|---|---|
| `JobLifecycle` | the abstract promise about one job, as `GET /v1/jobs/{id}` shows it |
| `ProgressDO` | the object: memory and storage apart, its alarm, sockets, restarts inside and between handlers; implements `JobLifecycle` |
| `ProgressDO_proofs` | the inductive invariant of the object and the theorems that follow |
| `JobPipeline` | `JobLifecycle` composed with gateway, bucket, queue, consumers, sweep and a reader of the result |
| `JobPipeline_proofs` | its inductive invariants, and what each theorem needs of the timeouts |
| `DevPipeline` | `JobLifecycle` composed with the dev queue, the webhook, the threads of the local runner, `run_pair` and the dev gateway's result route |
| `DevPipeline_proofs` | its inductive invariants and the theorems that follow |
| `CompareClient` | the page's script |
| `CompareClient_proofs` | its invariant, helper by helper, and the theorems that follow |
| `Viewer` | the 3D viewer that the page clears and hands its meshes |
| `Viewer_proofs` | its invariant: the status line, the canvases and the newest load |
| `Sweep` | the cron over the whole bucket: passes, pages, cursors, several jobs |
| `Sweep_proofs` | what it deletes and what a pass leaves, for any bucket and any number of passes |
| `Weights` | the volume of weights, the mode and the kinds of job of a process |
| `TextureBake` | forensic and HQ texture in the threads of one process |
| `FitMesh` | fit, displacement and meshes in the same threads |
| `V3Figure` | the chain of a V3 figure |
| `Inference` | composes the last three over one volume |
| `Wire`, `Envelope`, `Atlas`, `Mesh` | the wire to the sidecar; the queue's messages; what the texels of an atlas and the bytes of a mesh are made of |
| `Backend` | the five parts of the Python backend in one specification |
| `Backend_proofs` | the inductive invariants of the inference process and of the atlas, and the theorems that follow |
| `Borders_proofs` | what is framed, wrapped or laid out is read as it was meant: the wire, the queue's messages, the binary mesh; and the type of `Backend` |
| `V3Pose` | the search of a figure's pose and the gate on its yaw |
| `MC*` | the instances for TLC |

### ProgressDO

`mem` is the object's fields, `store` its storage, `armed`/`left` its alarm.
A handler runs under the runtime's input gate, so it is one step, except `/init`
and `alarm()`: each writes the storage, awaits, and then sets the alarm. They are
two steps (`InitSave`/`InitArm`, `AlarmExpire`/`AlarmRearm`), `gate` says which
handler stands in between, and with `MidCrash` the isolate may die there
(`Restart`). The runtime repeats an alarm whose handler did not return. `load()`
is `Loaded`, with its quirk: `job_id` is not reset when the storage has none.
`age` is a clock of the current window, and `cut` remembers a crash inside
`alarm()`; two properties use them and no guard does, except that time stops when
nothing is left to wait for. Bodies of
`/progress` are all combinations the parsers accept (`Body`); those they refuse
change nothing.

### JobPipeline

The object is here its abstraction, `JobLifecycle`, with its alarm's timer
`left`. `gw` is the program counter of `handleCompare`; each put, call and
delete may fail, and a failure nobody catches leaves what was done ("broken").
A send or a put that throws may have taken effect. (A lease and the deadline of
its run begin in one step, in the code seconds apart.) `pc[w]` walks consumer `w`
through `_run_job_pipeline` along the table `Then`, one remote call per step;
`Leave` is how it gets out, with the keys it deletes on the way. The deadline
does not stop a run (the executor is waited for): it only decides whether the
run is then reported failed (`Ended`). `SweepAsk`/`SweepDelete` and
`GetAsk`/`GetRead` split the two handlers that act on an answer that may be
stale. Both photos are read at one instant: nothing puts a photo back, so two
successful reads can be moved together to the earlier one.

Time is counted in units in which only the order of `Ttl`, `Deadline` and
`Visibility` matters, and the alarm is on time (`Elapse` waits for it). A
deployed HQ job has 1800 s, 3600 s and 3600 s (`HQ_TTL_SECS`,
`HQ_TOTAL_TIMEOUT_SECS`, `CONSUMER_ENV`), hence 2, 3, 3 in `pipe_safety`. A
standard job has 60, 60 and 3600: ttl and deadline begin to run at most seconds
apart, and only the alarm's lateness could let a run end in between; the model
does not count such an instant (what happens when it lasts is told below).

### DevPipeline

In development the queue consumer of `worker.dev.ts` posts each message to
`local_runner.py` and acknowledges on a 2xx. The runner is a
`ThreadingHTTPServer`: when the webhook breaks on the gateway's side, the thread
goes on and the retry starts another. `pc[t]` walks thread `t` along the table
`Then` through `process_message` and `run_pair`, one remote call per step.
`put[t]` is the other end of its `PUT /dev/results/{id}`, a program counter of
its own: the gateway stores the zip and forgets the photos whether or not the
runner still waits (`PutTimeout`, `Die`). `hook` is the thread whose answer the
consumer waits for. There is one temporary directory for all threads of a job, as
its name is made of the job's id; `dir` says whether it exists.

`lost` records which kinds of calls failed so far; the properties use it to say
which failure excuses what. It is written where `CallsFail` lets a call fail and
read by no guard. The time limits of stages and calls are failures that may come
at any moment, and the alarm too. Left out: messages that are malformed (they go
to the dead letter, and `handleCompare` queues none), the answer
`skipped-no-sidecar`, which is a matter of configuration, and the quality, which
only chooses the time limits.

### CompareClient

JavaScript interleaves only at `await`, so an action is a callback from one
`await` to the next. The synchronous helpers (`StopLive`, `StartJob`, `OnEvent`,
`StartPolling`, `BeginFetch`) are operators from the state of the page to its
next state, composed as the code calls them. `told[g]` is the end that
generation `g` was told and acted upon; it exists for the properties. The status
of a job is read when a poll is answered; a socket message carries the current
one. A generation is at work (`AtWork`) while it is sent, while its job has been taken
up and the page is not settled ("Job vivo = gen emitida y sin settle",
index.astro:864), and while its zip is downloaded.

### Viewer

Again an action is a callback up to its next `await`. `load[n]` is `loadGlbs` of
the n-th accepted `vultus:meshes`, `face[n][f]` its `paintFace` on canvas `f`,
which waits for the mesh ("parse"), the texture ("pbr") and the environment of
the probes ("probes"); each may fail. `gen` stands for `invalidationSerial` and
for the page's generation, which move together. `canvas[f].raf` is the load whose
frame request is in the slot and `todo[f][n]` what each loop still has to draw:
two loads in flight on one canvas overwrite each other's request, so that a
dispose cancels one loop and the other runs on. `canvas[f].gl` says whether the
canvas has a WebGL context, and whether it was lost; `canvas[f].shows` is the load
whose mesh is to be seen on it: each render sets it, a new renderer and a lost context
take it away. `late[f]` is history: the loads overtaken while they were past their
last look at the serials on that canvas. The chunk of the GLTF loader is
awaited just before the mesh and nothing is read in between, so both are one
await. A canvas that is not in the page, a studio configuration that its boot
checks refuse and a malformed event are left out: the page has none of them. So is
a context that the browser gives back. The renderer of a slot is only disposed of
with the request, and is not a field.

### Sweep

`JobPipeline` has the sweep for its one key; here it is the whole pass. `bucket`
are the keys stored, numbered in the order of a listing, so that a page is a set
of which `First` is looked at next, `life` the window of
each job. `at`, `page`, `cursor`, `todo` and `more` are the local variables of a
pass; each `await` (list, status, delete) is a step that may fail. Consumers put
and remove objects and jobs grow old between any two. `due` is history: the zips
that were over when the pass began, less those put again, and nothing once a call
failed.

### Inference process

`disk` is what `_..._present()` and `find_...` see on the volume; every gate of
the code reads it again, and files in `Volatile` come and go between gates.
`pc[t]` and `step[t]` walk thread `t` through `bake_flame`/`bake_hq` and
`fit_flame`/`displaced_positions`; what an array computation returns is its
branch or an Err. `on[t]` and `flags[t]` are the tables of thread `t`
(`ThreadLocalStats`), which no job clears; `took[t]` and `wrote[t]` are history,
the branches of this job, and no guard reads them. `bake_hq` reads the light's
flag back from the table (`DprRequired`): that is the code. `raster` is the one
entry of the raster cache, stored after a loop another thread may overtake
(`RasterMiss`, `RasterStore`). In `FitMesh`, `displaced_positions` is called from
three places, `back` says from which. In `V3Figure`, `stage` walks
`run_v3_subject`; each stage is an Err, an exception (`Raise`, which skips the
log line but not the `finally`), or its branch. A process serves the kinds in
`Roles`: a Modal worker one, the sidecar three.

### Wire, Envelope, Atlas, Mesh

Data are abstracted to what the properties tell apart. In `Wire` a byte is a
number and a length two of them, offsets and nesting are the code's; a float is
one byte that says whether it is a float32, is rounded by packing, or does not
pack. `PostOld` is a client deployed before the version byte. In `Envelope` JSON
values are tagged records, and a key is a record of its flaws after 0, 1 and 2
rounds of unquote, which is what `parse_r2_key` tells apart. In `Atlas` a colour
is the set of what weighs in it: pixels of the photo and a mark for the completion,
which is of the network (`Synth`), the mean of the trusted skin (`SkinMean`), bytes of
a hash (`Hashed`), or, in a texture with neither network nor a trusted texel, the
crop of the face, which is photo again (`FaceCrop`). Positions are in half pixels (so that rounding and bilinear taps differ) and
confidences in quarters. In `Mesh` a vertex is its number and a byte carries the
number of its section, 0 where it is padding; offsets are added up as the code does
(`Four`, `Seven`), lists filtered in order by a recursive function (`Keep`).

`Backend` has one variable `under` that says which of these parts, or the
inference process, runs; the parts hand values to one another but share no state,
so that a behaviour with two of them at once shows nothing more. The others stand
at their `...Rests`.

### V3Pose

Lengths and angles in thousandths, divisions rounded down; `RefinePose` is one of
the eight iterations, `Gate` the comparison of `pose[4]`.

## Runs

| run | instance | result |
|---|---|---|
| `do_all` | 1 socket, ttls {1, 2}, default 1, 2 ticks, crashes inside handlers, fairness; 19 thousand states | type, `AckedIsArmed`, `WindowsKept` (the open and the expired window), `SocketNeverRevives`, the refinement of `JobLifecycle` and `EverythingEnds` (job forgotten, sockets ended) hold |
| `pipe_safety` | 2 consumers (symmetric), 3 deliveries, lost calls, crashes; 1 million states | type, `ResultMatchesStatus`, `PhotosMatchMessage`, `RunsDoNotOverlap`, `TerminalStays` hold |
| `sweep_all` | 2 passes at once, 3 keys of 2 jobs, pages of 1, 2 pages, 1 failure, 2 puts, fairness; 682 thousand states | type, `OnlyOverIsSwept`, `PassIsComplete`, `ZipsAreSwept` hold |
| `dev_all` | 2 threads, 3 deliveries, lost calls, a runner that dies, fairness; 347 thousand states | type, `DoneIsClean` (result stored, no photos), `RunIsClosed` (directory, acknowledged message), `TerminalStays` and `ZipForgotten` hold |
| `client_all` | 2 submissions, 1 poll in flight, 1 retry of the download, demo loads; 3 million states | type, `ViewerIsCurrent`, `OneRetryPerSubmit`, `LiveIsWatched`, `BusyIsTrue`, `OnlyStalePollsSettle` hold |
| `client_calm` | 1 submission and its retry, 2 polls in flight, 2 retries of the download, demo loads, fairness; 65 thousand states | `WorkEnds` holds |
| `viewer_all` | 2 clears, 3 loads over 1 canvas, loops of 2 frames, lost contexts, fairness; 680 thousand states | type, `StatusIsTrue`, `ViewerRests` hold |
| `backend_all` | each part of the backend in its turn (below); 1.3 million states | type and the nine properties of the backend hold |
| `do_leak` | no crash | violated: a report after the purge leaves a record without an alarm |
| `client_stale` | 2 submissions | violated: an old poll stops the new job |
| `v3_yaw` | 4 photos of a head, 8 steps | violated: a head turned by 30 degrees is accepted |
| `soft_seam` | atlases of 8 x 8 | violated: photo and completion meet without a ramp |

The bounds are the smallest in which the interesting cases happen. Two ttls
tell the job's from the default; two ticks let a socket live through an
expiry, a purge and its own limit. Two consumers give every pair of
deliveries, three deliveries a third that finds both gone (the queue is
configured with two retries). Two threads of the runner are two runs over one
directory and one bucket; a third delivery comes after both, or after the
runner died. The half of `DoneIsClean` that speaks of photos is about the order of the route's steps, so
`dev_all` lets no delete fail. Two submissions with a retry each are four
generations: the newest has an older user submission and an older retry behind
it. Two polls of one job are enough for one to be told of the end while the other
is told that the job is gone. A demo load may begin and end at any time in all
client runs but `client_stale`, which does not need one. Three loads over one canvas
give older loads that are overtaken, cleared or both at each of their awaits, and two
loops nobody cancels beside a third. The faces of a load meet only where `loadGlbs`
waits for both; `MCViewer_two.cfg` checks `TypeOK` and `StatusIsTrue` of two loads of
two faces (2 million states, no violation), and the theorems are about any number.
A loop of two frames can be cancelled before its end or
not (240 in the code). Deadlock is not checked where the system really stops: everything
forgotten, nothing more to submit or to draw (`JobPipeline`, `CompareClient`,
`Viewer`), the jobs of a part done (`Backend`).

`sweep_all`: with pages of one key every await of a pass stands between any two
keys. Two pages are as many objects as may stay before the second zip, the figure
and the open job's zip: both sides of the proviso of `ZipsAreSwept` occur.

`backend_all`: two threads (symmetric) that are reused for two jobs are the
smallest in which a flag of an earlier job, or another thread's raster, can be
read; two shapes (symmetric) give a hit and a miss of the cache. Volumes are
complete, without texture weights, without shape assets or empty, and the FFHQ
bridge, which the most gates ask for, comes and goes. The modes are `1` and
`auto` (`0` differs from `auto` without landmarker in nothing). A mesh job makes
2 of its 4 displacements. Photos are below, at and over the limit of the wire.
Four messages go through a list of two dead letters. An atlas of 8 x 8 halves to
4 x 4 and has texels away from every border, seam and mouth; a scene chooses
covered part, position, angle, depth, skin, lips and light. Heads are sound, with
a triangle on both sides of the cut, with a vertex out of range, with skin only,
and empty; PNG lengths cover the four paddings.

### Fairness

- Object: time passes, a due alarm is run, a handler that began continues (or
  the isolate dies), an interval fires. All four are promises of the runtime;
  reports, clients and restarts have none.
- Development: the alarm, the cron (`crons = ["* * * * *"]`), and a `PUT` that
  the gateway began goes on. A delete that is tried every minute succeeds at some
  time (strong fairness of the successful delete). Queue and runner may stop for
  good at any point. `JobPipeline` states the same, with time, in `FairSpec`.
- Page: awaits and timers come back, a socket is told the status and is closed
  in the end, polls are not lost for ever, the job ends. The last three are what
  `do_all` shows of the object. The user and the demo have none.
- Sweep: the cron starts passes for ever and a pass goes on; jobs and consumers
  owe nothing. Its calls fail a bounded number of times.
- Viewer: while an await is due one of them comes, and while a frame is due one of
  those; the page and the loss of a context owe nothing.

### What the violations say

1. `do_leak`: `/progress` guards against expired but not against purged. The
   record it stores stays for ever. The consumer's `_job_alive` takes the 404
   of a purged job for alive, so a redelivery after the purge does this.
2. `client_stale`: the poller's tick compares generations before its await only. The
   old poll's `stopLive` settles the new job, and as its own generation is old nobody
   hides the busy figure any more. `LeftByStalePollsOnly` proves that no other step
   makes the page leave a job that goes on.
3. `v3_yaw`: `refine_pose` takes the first axis that improves, one per step, and
   starts at zero with image points counted from the corner of the photo; eight
   steps of 0.05 all go to `tx`, so `ry` is zero whatever the head does, and the
   gate of 15 degrees never rejects.
4. `soft_seam`: `soften_confidence` loses columns twice (differences of the sums,
   then the slice), `np.where` raises on the two shapes and the `except` returns
   the hard mask.

`MCJobPipeline_live.cfg` is kept beside the runs too: `ZipForgotten` holds of
`JobPipeline` when runs overlap and single deletes fail. What it says of one key,
`sweep_all` says of every zip in the bucket.

More was seen in the same way. Each of the instances below is violated; they are kept
beside the runs, and what they refute is left out of the property named with them, and
of nothing else:

- `MCCompareClient_spin.cfg` (`BusyMeansWork`): what comes of 2 on the page. The figure
  spins with nothing left that could hide it, although "todo terminal
  (done/failed/demo-fail) pasa por aqui" (index.astro:819). `BusyIsTrue` is about jobs
  that are not settled, or were told their end.
- `MCCompareClient_demo.cfg` (`WorkIsShown`): the end of a demo load asks `isJobLive()`,
  which is false from the end of the job on, and hides the figure over the download of
  its zip (index.astro:786), against "Uvi sigue visible durante la descarga del zip"
  (820-821). `DownloadIsShown` names this step.
- `MCViewer_over.cfg` (`ReadyShowsJob`), `MCViewer_clear.cfg` (`ClearedStaysNeutral`):
  `paintFace` looks at the serials after the parse (ThreeViewer.astro:433), awaits the
  texture, and takes the canvas (490) without another look. A load that was overtaken
  in between draws the earlier job's head under "cara real lista: meshes A+B cargados
  en visor" (three-rig.ts:151) of the new one, and a clear is undone: "la carga ya esta
  muerta, no hay GLB que pintar" (432). `ReadyIsWhole` excepts canvases with such a
  load (`late`).
- `MCViewer_lost.cfg` (`LostIsSaid`): a context that is lost while a load goes on is said
  to be unavailable, "Contexto 3D perdido con GLB ya parseado: visor no disponible"
  (ThreeViewer.astro:122), until the load ends and says ready (568). `ReadyIsWhole` is
  about canvases whose context lives.
- `MCBackend_double.cfg` (`EveryLineIsOwn`): the flags a line is made of are never
  cleared. A fit or texture double, or the completion of a texture without unwrap,
  writes none of them (flame_fit.py:807, flame_texture.py:1411-1441 and 1604-1615), and
  its line (modal_app.py:843, 880) shows those of the real job before it in its thread:
  no "Rama efectiva de textura para el log" (765). It takes a volume that loses weights
  while the process runs in auto mode. `LinesAreOwn` is about real jobs, and about
  all with `VULTUS_REAL_ML=1`.
- `MCBackend_border.cfg` (`OutsideIsUntrusted`): `compute_texel_confidence` takes the
  nearest pixel for a texel beside the photo (flame_texture.py:292-293), "fuera de foto
  = 0" (267) notwithstanding. `bake_hq` masks such texels itself; the forensic texture
  blends by the confidence and repeats the pixels of the border. `AtlasIsHonest` asks
  full trust to be the photo inside of it only.
- `MCBackend_line.cfg` (`MeshLineIsOwn`): the line with the displacement branch
  is logged (modal_app.py:1489) before the meshes displace anything, in a fresh
  thread whose table is empty.

Two more refute what no line of the repository promises in so many words:

- `MCJobPipeline_late.cfg` (`FailedHasNoResult`): with a ttl longer than the
  deadline, the deadline reports failure of a run that goes on to succeed: a
  failed job with a result and without photos.
- `MCDevPipeline_report.cfg` (`AckedIsOverWithoutReports`): `run_pair` calls
  `sink.report` inside its `try`, and a report that is not answered 200 raises;
  the run ends without `sink.fail`, the runner answers 200, the message is
  acknowledged, and the job is `processing` until its alarm. `AckedIsOver` is
  what holds.

Seen without an instance of their own:

- With a demo load beside it the figure may also be shown for nothing: a submission
  that fails before it has a job never sets `settled`, so the end of the demo load
  takes it for alive (index.astro:786, 867). `BusyIsTrue` speaks of a last submission
  that is sent, followed, or was told its end.
- "Un solo renderer por canvas" (ThreeViewer.astro:132) does not hold of drawing
  loops: a load that waited for its probes while a later one took the canvas
  starts a second one; `ViewerRests` is what holds.
- `AllZipsAreSwept`, without the proviso: every pass begins at the first page and
  ends after 10, so a zip behind 10,000 objects that stay is left to the
  bucket's one-day rule.
- `OneLinePerSubject`: "EXACTAMENTE una vez por sujeto" of `run_v3_subject` does
  not hold when `mediapipe_infer` raises (v3_worker.py:150).
- Seam band and dilation wrap around the border of the image (`np.roll`);
  `AtlasIsHonest` is stated with them as they are.
- The closed-form start of the HQ pinhole (flame_texture.py:1042) leaves out the
  two units that `_project_perspective` adds to the depth (v3_pose.py:65).

The second half of `WindowsKept`, `ExpiredWindowKept`, excuses a window that was `cut`:
`alarm()` stores `expired` before it arms the second alarm (progress-do.ts:238-239), a crash in between
makes the runtime repeat the alarm, and the repetition purges at once. The
header's "ventana `Expired` visible hasta 2x TTL" (progress-do.ts:3-4) then has
no length.

## Proofs

`ProgressDO_proofs` proves, for every set of sockets and ttls, every default and
tick limit, with crashes inside handlers or without:

- `TypeCorrect`: `TypeOK`, and that an open socket has a tick left;
- `AckedJobIsArmed`: `AckedIsArmed`;
- `WindowsHold`: `WindowsKept`, from `OpenWindow` and `ExpiredWindow`;
- `SocketStaysExpired`: `SocketNeverRevives`;
- `Refinement`: `ImplementsLifecycle`.

They rest on the assumptions of `ProgressDO` only (ttls are positive naturals
and include the default; 0 is a progress; `Absent` is none). The invariant is
`DOInv`. `AckedIsArmed` is not inductive: that an alarm step leaves the object
armed needs to know what the handler in the middle of its two writes has stored
(`Between`), that a record without an alarm belongs to an unfinished `/init` or
to a report after the purge (`ArmedStored`, `Forgotten`), and that nothing is
stored before `/init` (`Unborn`). Both windows need `Clock`: age and time left
add up to the ttl or more, except between the two writes of `alarm()` and after a
crash there. The refinement then
maps each action: `InitSave` to `Create`, `Report` to `Begin`, `Settle` or a
stutter, `AlarmExpire` to `Expire`, `AlarmPurge` to `Forget`, the rest to a
stutter, for which `VisibleByStore` shows that what is visible depends on the
storage alone. That no socket revives a job is not a matter of the sockets: each
client that saw `expired` stands before a storage that holds nothing else to show
under that `job_id` (`Told`, `Gone`), late reports after the purge included.

`DevPipeline_proofs` proves, for any set of threads, any number of deliveries and
with every kind of failure or without, the invariants and the action property of
`dev_all`: `TypeCorrect`, `DoneLeavesClean` (from `DoneMeansResult` and
`DoneForgetsPhotos`), `RunCloses` (from `DirectoryIsUsed` and `AckedJobIsOver`),
`TerminalIsFinal`. `DevAssumption` is all
they assume. `TypeOK` needs to know that a message that is ready has a delivery
left (`Countable`) and that nothing happens before the job is accepted
(`Unborn`). Four lemmas then say once what any step can do to the status, the
bucket, a thread and a PUT (`StatusStep`, `BucketStep`, `PcStep`, `PutStep`);
the invariants follow from these without looking at the actions again.
`DoneHasResult` and `DoneHasNoPhotos` need what the PUT has done by the time its
answer is read (`Stored`, `PhotosGo`), `AckedIsOver` what a run may end with
(`Told`). `TerminalStays` needs that, as long as no webhook breaks, one thread at
most is at work, and that one on an unsettled job (`Alone`, `Unended`).

`Backend_proofs` proves, for any threads, shapes, numbers of jobs, modes, roles and
volumes, whatever files come and go, of `BackendSpec`: `RasterStaysOwn`,
`HqNeverDegrades`, `RealStaysReal`, `LinesStayOwn`, `FigureComesWhole`. The
invariant is `ProcessInv`. `HqIsStrict` is not inductive: that `DprRequired` may
trust a flag in a table nobody clears needs to know that at that point the job
itself wrote it last (`HqInv`). `LinesAreOwn` needs the same of every flag that a
kind of job shows, from the step that writes it to the line (`LineInv`, which
holds in a process of one kind only: in the sidecar, a flag another kind of job
writes stays; doubles and completions write none, and are in the theorem with
`VULTUS_REAL_ML=1` only, where there are none), and that the geometric fit writes its flag before and its camera
after the displacement (`FitInv`). `RealInv` says where a double may come
from; `FigureInv`, that a stage is reached only with the branches of the earlier
ones. A step of another thread leaves what these say of a thread alone
(`BakeIsLocal`, `FitIsLocal`), a step of another part all of it (`Untouched`).
`ProcessStaysTyped` adds the types (`TypesInv`); what is not obvious there is that
no mesh job makes a piece too many, over three ways into `displaced_positions`
(`PieceLeft`).

`AtlasStaysHonest`, in the same module, is about texels: for atlases and photos of
any size, any masks and any light. `JoinedTexel` says what a texel may hold on the
seam and off it, `TapsAreTexels` what the halving to 512 reads, and the marks of the
completions are no pixels (`Marks`), so that what is of the photo in a texel was
sampled at a trusted place: its own in a texture, a neighbour's at most in the
others. A trusted place is inside the photo in HQ; in a texture it may be
beside it, where the border's pixel answers (`MCBackend_border.cfg`). `ReadsNearby` bounds the
taps of a bilinear sample by the rounded position, and so a trusted texel of an HQ
atlas cannot have read a pixel that the dilated mouth does not cover
(`MouthIsDilated`): two pixels that touch at a corner are two steps of the cross
apart. Hence the hypothesis `WideMouth`, a dilation of 2 or more; the code's is 3
(`_HQ_MOUTH_DILATE_PX`). A texture has no dilation: there the mouth is excluded by
the nearest pixel only. `NothingIsSoftened` says that the feather never has an effect
(violation 4, for every size). The dilation is stated in `Atlas` by the distance on
the torus and not by its iterations, which no theorem here could unfold.

`Borders_proofs` proves, for frames and messages of any content and any head:

- `WireStaysExact`: `WireIsExact`. Cutting a frame where its parts were joined
  gives the parts back (`CutMiddle`, `CutEnd`, `FrameParts`), so what the sidecar
  reads is what was posted (`FitRequestIsRead`, `TextureRequestIsRead`) and what was
  rounded once is not changed again (`FitRounds`). The invariant `WireInv` says what
  the client may hold (`Holding`), what a payload is made of (`Posted`) and what an
  answer may be (`Replied`). An old frame is told by its first byte, which is the
  highest byte of a length; `ShortFrames` is that this byte is not the version. In
  the code the length takes four bytes and a photo at most 8 MiB
  (`MAX_IMAGE_BYTES`), so the byte is 0.
- `QueueStaysRead`: `QueueIsRead`. For each producer and wrapping, the fields that the
  consumer reads are those that were meant (`GatewayIsRead`, `OtherIsRead`,
  `WrapIsRead`); `OwnReading` says so of a message before it is taken. The dead
  letters are the newest of all that were skipped (`Newest`, `NewestAppend`).
- `MeshStaysWhole`: `MeshIsWhole`, for any template, `.mat` or grid. A file is laid out
  section by section: a layout that holds the first n sections, each from four bytes
  on, holds one more (`HoldsOneMore`, `FourHolds`, `SevenHolds`), and the file holds
  what its layout does (`FileHolds`). The n-th triangle of a filtered list stands
  where the number of kept ones before it says (`KeptPlaces`); since the two lists
  are as long as the head together, no triangle is on neither side (`SplitsWhole`).
  A synthetic head has as many triangles as were asked for since the cut leaves a
  square of the grid (`QuadsType`, from the bounds in `MeshAssumption`); the
  eyeballs of a V3 figure come after the head's numbers (`EyeballsAreEyes`). The
  induction over the list is one over a set of numbers (`InductiveSet`, from the
  least one that is missing), which first-order provers can follow.
- `TypeCorrect`: `TypeOK` of all of `Backend`, under `ShortFrames` too, as an answer that
  passed for another one would have another type.

`Sweep_proofs` proves, for any keys, page size, limits and number of passes,
`TypeCorrect`, `OnlyOverGoes` and `PassLeavesNone`. A delete follows an answer that
is old when it is sent; `SweepInv` says that a key a pass is about to delete is
the zip of a job that is over, and `ClosedStaysClosed` that it stays so. That a
pass is complete needs to know where it stands: every zip that was over when it
began and is still there is on the page it has listed or beyond its cursor
(`Owed`, `Ahead`), a pass that lists has a page left, and one that deletes has
something to delete (`Stand`). `ListingSkipsNone` is the step from one page to the next: a
listing takes the first keys beyond the cursor, and the next cursor is the last of
them. That a finite set of numbers has a first and a last comes from
`WFMin` of the library, which is how an induction is had in first-order logic.

`JobPipeline_proofs` proves, for any consumers and deliveries, with crashes, lost
calls and lost answers or without:

- `TypeCorrect`, `PhotosAreKept`: from `TimeAssumption` alone;
- `RunsStayApart`: if `Deadline <= Visibility`. All deployed configurations are so
  (60 and 3600 seconds, and for HQ jobs 3600 and 3600);
- `DoneIsServed` (`DoneHasResult` and `MissingIsOver`): if `Ttl < Visibility`, again
  all of them (60, and 1800);
- `ResultMatches`, `TerminalIsFinal`: if moreover `Ttl < Deadline`, as for HQ jobs
  (1800 and 3600). A standard job has 60 and 60, see above;
  `MCJobPipeline_late.cfg` is what happens with `Ttl > Deadline`.

`TypeOK` needs `Beginning` (what cannot have happened yet; a ready message has a
delivery left). `PhotosStored` says how far the gateway has come with its two puts,
`PhotosGo` what a consumer on its way out has yet to delete. `Leased` ties the
timer of the message to the deadline of the run it was given to: a message comes
back only when its lease has run out, and by then the earlier run is past its
deadline. `OneDelivery` and `OneRun` are what follows for the job: as long as its
window is open only one delivery has been made, so the run that says done is the
only one there was, and `Results`, `Answers`, `InTime` and `NoneLeft` speak of it
alone. All later runs find the job over and may only delete.

`CompareClient_proofs` proves, for any numbers of submissions, polls, downloads and
demo loads, `TypeCorrect`, `ViewerOfLast`, `RetriedOnce`, `LiveJobIsWatched`,
`BusyTellsTheTruth` (`BusyIsTrue`, with `FigureStaysForDownload` for its middle part) and
`LeftByStalePollsOnly` (`OnlyStalePollsSettle`). The helpers of the page are operators
from page to page, so the invariant `Good` is one of a page, with a lemma for each
helper and each assignment: generations to come have left no trace (`Fresh`), what is
shown and what polls is of the current one (`Current`), an open socket has no polls
beside it (`Sockets`), an end that was told has settled the page (`Told`), and each
poll in flight has a slot for the download it may begin (`Room`). An action is then a
composition of lemmas. `BusyIsTrue` has three parts. `LiveIsShown` speaks of a job the
page has not settled: its figure is shown, whatever demo load ends and whatever becomes
of older jobs. `EndedIsHidden` speaks of one that was told its end: a figure is then
its download's or a demo load's. Neither covers the job that another one's poll has
settled, of which nothing good can be proved (`client_stale`);
`LeftByStalePollsOnly` says that this poll is the only way there. `DownloadIsShown` is
about the way from the first to the second. There the other poll of the same job is
needed: of two polls in flight the first may be answered `done` and begin the download,
the second 404, which hides the figure over it.
A poll is sent every second (every five for HQ) and has no time limit of its own, so
two in flight are possible; the page is the worse for it only when the job is
forgotten between the two answers.

`Viewer_proofs` proves, for any loads, clears, faces and frames, `TypeCorrect` and
`StatusTellsTheTruth` (`StatusIsTrue`). The invariant relates the newest load to
the canvases: the loads up to the newest have begun, and faces move only after the
import (`Begun`); an error comes from a face that failed, and says "overtaken" only
of a load that is (`Failed`); the newest load, unless a clear killed it, has its
URLs, and no overlay covers a face it draws (`Newest`); once the newest load has drawn a
face, it is what a canvas with a living context shows, as long as no load overtaken
past its last look may come (`Painted`); and the line speaks of a load that has begun
(`Spoken`). The two exceptions are there because the code needs them:
`MCViewer_over.cfg` shows the overtaken load, `MCViewer_lost.cfg` the context.

Only model-checked: liveness (`EverythingEnds`, `WorkEnds`, `ZipForgotten`,
`ViewerRests`, `ZipsAreSwept`: the prover has no `ENABLED` and no fairness).

## Not modelled

What networks and least-squares fits compute: they are steps that take their
branch or fail. The older GNM modules (`gnm.py`, `gnm_fit.py`, `gnm_head.py`,
`gnm_texture.py`) and the preview renderer: array computation without control
state. The values of vertices, normals, light and shape. The scene of the viewer
and the other widgets of the page. The parsers of requests in `contract.ts`: a
request they refuse changes nothing. `handleV3Figure`: it is `handleResult` over
a key that nothing in the repository writes. Scripts, secrets, the wording of
logs. The bucket's one-day rule: a backstop installed by a script, without which
the properties are stated. `R2_TTL_SECONDS` changing between deployments while a
job lives.

## Plan

1. Done: the life of a job (`JobLifecycle`, `ProgressDO`, `JobPipeline`, `Sweep`,
   `DevPipeline`), the page (`CompareClient`, `Viewer`), the backend (`Inference`,
   `Wire`, `Envelope`, `Atlas`, `Mesh`, `V3Pose`), with the proofs above.
2. Proofs: every safety and action property of the passing runs is a theorem. Next
   is which hypotheses of `JobPipeline_proofs` can be weakened for standard jobs.
3. `Contract`: the parsers of `contract.ts` as operators, and that gateway and
   backend agree on ttl, quality and keys.
