------------------------------- MODULE Viewer -------------------------------
(***************************************************************************)
(* The 3D viewer of the page (frontend/src/components/ThreeViewer.astro    *)
(* with three-rig.ts).  The page clears it when it starts a job and hands  *)
(* it the meshes of a finished one, by two window events; the viewer loads *)
(* both faces at once, each through a chain of awaits, and draws each on a *)
(* canvas of its own that a neutral picture covers meanwhile.              *)
(*                                                                         *)
(* JavaScript runs a callback to its next `await`: an action is the code   *)
(* between two of them.  An event may come at any await, and a load that   *)
(* was cleared or overtaken still runs on until it looks at its serials.   *)
(* Canvases and chunks are there (the boot checks pass).                   *)
(***************************************************************************)
EXTENDS Naturals

CONSTANTS
    Faces,     \* "A" and "B"
    MaxGens,   \* bound: generations the page starts
    MaxLoads,  \* bound: events vultus:meshes that are accepted
    Frames     \* renders of one drawing loop: 240

ASSUME ViewerAssumption == {MaxGens, MaxLoads, Frames} \subseteq Nat \ {0}

Gens  == 0..MaxGens
Loads == 1..MaxLoads

VARIABLES
    gen,        \* the page's generation, and invalidationSerial: it clears
                \* once for each (a retry clears twice in one go)
    viewerGen,  \* 0 is null
    serial,     \* loadSerial
    status,     \* what the status line says
    load,       \* load[n]: where loadGlbs stands for the n-th load
    face,       \* face[n][f]: where its paintFace for face f stands
    canvas,     \* canvas[f]: its slot, what is drawn on it, and its overlay
    todo,       \* todo[f][n]: frames the loop of load n still has to draw
    urls,       \* the loads whose object URLs live
    link,       \* the load that the download links give, 0 when hidden
    late        \* history, no property of the code: late[f] are the loads that
                \* were overtaken after their look at the serials, and before
                \* they were done with canvas f

page == <<gen, viewerGen, serial, urls, link, late>>
vars == <<gen, viewerGen, serial, status, load, face, canvas, todo, urls, link, late>>

Load   == [gen: Gens,                                \* myInvalid
           at:  {"none", "import", "paint", "over"},
           pbr: BOOLEAN,                             \* no texture failed
           err: {"none", "parse", "webgl", "cancelled", "stale"}]
Canvas == [neutral:  BOOLEAN,         \* is the overlay shown (it is animated then)
           gl:       {"none", "live", "lost"},  \* its WebGL context
           shows:    {0} \cup Loads,  \* whose meshes are drawn on it
           raf:      {0} \cup Loads]  \* whose frame request is in the slot

TypeOK ==
    /\ gen \in Gens /\ viewerGen \in Gens
    /\ serial \in 0..MaxLoads
    /\ status \in {"idle", "loading", "bare", "ready", "invalid", "unavailable", "cancelled"}
    /\ load \in [Loads -> Load]
    /\ face \in [Loads -> [Faces -> {"none", "parse", "pbr", "probes", "drawn",
                                     "failed"}]]
    /\ canvas \in [Faces -> Canvas]
    /\ todo \in [Faces -> [Loads -> 0..(Frames - 1)]]
    /\ urls \subseteq Loads
    /\ link \in {0} \cup Loads
    /\ late \in [Faces -> SUBSET Loads]

Init ==
    /\ gen = 0 /\ viewerGen = 0 /\ serial = 0
    /\ status = "idle"
    /\ load = [n \in Loads |-> [gen |-> 0, at |-> "none", pbr |-> TRUE, err |-> "none"]]
    /\ face = [n \in Loads |-> [f \in Faces |-> "none"]]
    /\ canvas = [f \in Faces |-> [neutral |-> TRUE, gl |-> "none", shows |-> 0, raf |-> 0]]
    /\ todo = [f \in Faces |-> [n \in Loads |-> 0]]
    /\ urls = {}
    /\ link = 0
    /\ late = [f \in Faces |-> {}]

-----------------------------------------------------------------------------
\* disposeCanvas: the slot is emptied (its renderer is disposed) and the request
\* in it is cancelled; a loop whose request is not in the slot goes on.
Disposed(f)  == [canvas[f] EXCEPT !.raf = 0]

\* MUTANT of Cancelled: the request is forgotten, and not cancelled.
Cancelled_Never(f) == todo[f]

Cancelled(f) == [n \in Loads |-> IF n = canvas[f].raf THEN 0 ELSE todo[f][n]]

\* A load that was overtaken, or cleared.
Stale(n)       == n # serial
Invalidated(n) == load[n].gen # gen

\* vultus:clear.
Clear ==
    /\ gen < MaxGens
    /\ gen' = gen + 1
    /\ urls' = {}
    /\ link' = 0
    /\ canvas' = [f \in Faces |-> [Disposed(f) EXCEPT !.neutral = TRUE]]
    /\ todo' = [f \in Faces |-> Cancelled(f)]
    /\ status' = "idle"
    /\ UNCHANGED <<viewerGen, serial, load, face, late>>

\* vultus:meshes.  The page looks at its generation and sends it in one go, and
\* sends the same meshes twice when two polls saw the job done.
Meshes ==
    /\ gen > 0 /\ serial < MaxLoads
    /\ gen >= viewerGen                      \* isStaleGen
    /\ viewerGen' = gen
    /\ serial' = serial + 1
    /\ load' = [load EXCEPT ![serial'].gen = gen, ![serial'].at = "import"]
    /\ urls' = urls \cup {serial'}
    /\ link' = serial'
    /\ status' = "loading"
    /\ late' = [f \in Faces |->
                  late[f] \cup {n \in Loads : face[n][f] \in {"pbr", "probes"}}]
    /\ UNCHANGED <<gen, face, canvas, todo>>

\* webglcontextlost, of a canvas that has a context.  (That three.js takes up a
\* context the browser gives back is left out.)
ContextLost(f) ==
    /\ canvas[f].gl = "live"
    /\ canvas' = [canvas EXCEPT ![f].gl = "lost", ![f].shows = 0]
    /\ status' = "unavailable"
    /\ UNCHANGED <<page, load, face, todo>>

-----------------------------------------------------------------------------
\* loadGlbs up to the two paintFace: the chunk of three.js.
Import(n) ==
    /\ load[n].at = "import"
    /\ \/ /\ load' = [load EXCEPT ![n].at = "paint"]
          /\ face' = [face EXCEPT ![n] = [f \in Faces |-> "parse"]]
          /\ UNCHANGED status
       \/ /\ load' = [load EXCEPT ![n].at = "over"]
          /\ status' = IF Stale(n) THEN status ELSE "unavailable"
          /\ UNCHANGED face
    /\ UNCHANGED <<page, canvas, todo>>

\* afterStartError: what a failure in phase `kind` is.
AfterStart(n, kind) ==
    IF Stale(n) THEN "stale" ELSE IF Invalidated(n) THEN "cancelled" ELSE kind

\* paintFace throws; Promise.all takes the first of the two faces.
Throw(n, f, kind) ==
    /\ face' = [face EXCEPT ![n][f] = "failed"]
    /\ load' = [load EXCEPT ![n].err = IF @ = "none" THEN kind ELSE @]

\* The chunk of the GLTF loader, whose failure loadGlbs takes for WebGL's;
\* loader.loadAsync, and the look at the serials after it.
Parse(n, f) ==
    /\ face[n][f] = "parse"
    /\ \/ /\ ~Stale(n) /\ ~Invalidated(n)
          /\ face' = [face EXCEPT ![n][f] = "pbr"]
          /\ UNCHANGED load
       \/ \E kind \in {AfterStart(n, "parse"), "webgl"} : Throw(n, f, kind)
    /\ UNCHANGED <<page, status, canvas, todo>>

\* The canvas is sized for a new renderer, which clears it; on a context that is
\* lost there may be a renderer, and nothing comes of it.
Taken(f) == [Disposed(f) EXCEPT !.neutral = FALSE,
                                !.gl = IF @ = "lost" THEN @ ELSE "live",
                                !.shows = 0]

\* The texture, or none; then the canvas is taken, without another look.
Texture(n, f) ==
    /\ face[n][f] = "pbr"
    /\ \E pbrOk \in BOOLEAN, renders \in BOOLEAN :
        /\ todo' = [todo EXCEPT ![f] = Cancelled(f)]
        /\ canvas' = [canvas EXCEPT ![f] =
                        IF renders THEN Taken(f) ELSE [Disposed(f) EXCEPT !.neutral = FALSE]]
        /\ face' = [face EXCEPT ![n][f] = IF renders THEN "probes" ELSE "failed"]
        /\ load' = [load EXCEPT
                      ![n].pbr = @ /\ pbrOk,
                      ![n].err = IF @ = "none" /\ ~renders THEN AfterStart(n, "webgl") ELSE @]
    /\ UNCHANGED <<page, status>>

\* tick() of load n on canvas f: one render, which does nothing while the context
\* is lost, and a request for the next.
Tick(n, f, more) ==
    /\ todo' = [todo EXCEPT ![f][n] = more]
    /\ canvas' = [canvas EXCEPT ![f].raf = IF more > 0 THEN n ELSE @,
                                ![f].shows = IF canvas[f].gl = "lost" THEN @ ELSE n]

\* MUTANT of Probes: `frames++ < 240`.
Probes_OneMore(n, f) ==
    /\ face[n][f] = "probes"
    /\ \/ /\ face' = [face EXCEPT ![n][f] = "drawn"]
          /\ Tick(n, f, Frames)
          /\ UNCHANGED load
       \/ /\ Throw(n, f, AfterStart(n, "webgl"))
          /\ UNCHANGED <<canvas, todo>>
    /\ UNCHANGED <<page, status>>

\* The probes, the first render, and the loop is started.
Probes(n, f) ==
    /\ face[n][f] = "probes"
    /\ \/ /\ face' = [face EXCEPT ![n][f] = "drawn"]
          /\ Tick(n, f, Frames - 1)
          /\ UNCHANGED load
       \/ /\ Throw(n, f, AfterStart(n, "webgl"))
          /\ UNCHANGED <<canvas, todo>>
    /\ UNCHANGED <<page, status>>

\* MUTANT of Frame: frames are not counted.
Frame_Forever(n, f) ==
    /\ todo[f][n] > 0
    /\ Tick(n, f, todo[f][n])
    /\ UNCHANGED <<page, status, load, face>>

Frame(n, f) ==
    /\ todo[f][n] > 0
    /\ Tick(n, f, todo[f][n] - 1)
    /\ UNCHANGED <<page, status, load, face>>

-----------------------------------------------------------------------------
\* What loadGlbs makes of the two faces.
Outcome(n) ==
    IF load[n].err = "stale" THEN status
    ELSE IF Invalidated(n) THEN "cancelled"      \* whatever the error was
    ELSE CASE load[n].err = "parse"     -> "invalid"
           [] load[n].err = "webgl"     -> "unavailable"
           [] load[n].err = "cancelled" -> "cancelled"
           [] load[n].err = "none"      -> IF load[n].pbr THEN "ready" ELSE "bare"

Ended(n) == /\ load[n].at = "paint"
            /\ load[n].err # "none" \/ \A f \in Faces : face[n][f] = "drawn"

\* MUTANT of Finish: the end of a load that was cleared is told.
Finish_AfterClear(n) ==
    /\ Ended(n)
    /\ load' = [load EXCEPT ![n].at = "over"]
    /\ status' = IF Stale(n) THEN status
                 ELSE IF load[n].err = "none" THEN "ready"
                 ELSE IF load[n].err = "parse" THEN "invalid" ELSE Outcome(n)
    /\ UNCHANGED <<page, face, canvas, todo>>

Finish(n) ==
    /\ Ended(n)
    /\ load' = [load EXCEPT ![n].at = "over"]
    /\ status' = IF Stale(n) THEN status ELSE Outcome(n)
    /\ UNCHANGED <<page, face, canvas, todo>>

Step(n) == \/ Import(n)
           \/ \E f \in Faces : Parse(n, f) \/ Texture(n, f) \/ Probes(n, f)
           \/ Finish(n)

Next ==
    \/ Clear
    \/ Meshes
    \/ \E f \in Faces : ContextLost(f)
    \/ \E n \in Loads : Step(n)
    \/ \E n \in Loads, f \in Faces : Frame(n, f)

Spec == Init /\ [][Next]_vars

\* While imports, downloads from memory or frames are due, one of them comes;
\* the page's events and the loss of a context are nobody's promise.
Fairness == /\ WF_vars(\E n \in Loads : Step(n))
            /\ WF_vars(\E n \in Loads, f \in Faces : Frame(n, f))

FairSpec == Spec /\ Fairness

-----------------------------------------------------------------------------
(* Properties.                                                             *)

\* "Cara real lista": both faces of the newest load were drawn with their
\* textures, nothing cleared it, no overlay hides them, and its meshes are what a
\* canvas with a living context shows, unless a load was
\* overtaken between its look at the serials and its first render there.
ReadyIsWhole ==
    status = "ready" =>
        /\ serial > 0 /\ ~Invalidated(serial) /\ load[serial].pbr
        /\ \A f \in Faces :
             /\ face[serial][f] = "drawn" /\ ~canvas[f].neutral
             /\ canvas[f].gl = "live" /\ late[f] = {} => canvas[f].shows = serial

\* Only a mesh of the newest load that did not parse, with its URLs still
\* alive, blames the zip: "Nunca invalid tras un clear" (ThreeViewer.astro:581).
InvalidIsOwn ==
    status = "invalid" =>
        /\ serial \in urls /\ ~Invalidated(serial)
        /\ \E f \in Faces : face[serial][f] = "failed"
        /\ load[serial].err = "parse"

\* "Cargando" is said of a load that goes on and that no clear has killed.
LoadingIsAlive ==
    status = "loading" => ~Invalidated(serial) /\ load[serial].at \in {"import", "paint"}

\* The download links give the meshes of the newest load, from URLs that were
\* not revoked.
LinksWork == link # 0 => link = serial /\ link \in urls

\* The page speaks of the newest load only, says how it went (ReadyIsWhole,
\* InvalidIsOwn, LoadingIsAlive) and offers its meshes (LinksWork).
StatusIsTrue == ReadyIsWhole /\ InvalidIsOwn /\ LoadingIsAlive /\ LinksWork

\* A clear between parse and render leaves nothing to draw: "la carga ya esta
\* muerta, no hay GLB que pintar" (ThreeViewer.astro:432), so until the next
\* meshes the neutral pictures stay.
ClearedStaysNeutral ==
    (serial = 0 \/ Invalidated(serial)) => \A f \in Faces : canvas[f].neutral

\* "cara real lista: meshes A+B cargados en visor" (three-rig.ts:151): what the
\* canvases show is of the job the page is about.  (Expected to fail.)
ReadyShowsJob ==
    status = "ready" =>
        \A f \in Faces : canvas[f].shows # 0 => load[canvas[f].shows].gen = gen

\* "Contexto 3D perdido con GLB ya parseado: visor no disponible"
\* (ThreeViewer.astro:122): not ready, then.  (Expected to fail.)
LostIsSaid == status = "ready" => \A f \in Faces : canvas[f].gl # "lost"

\* A load says how it ended: the status does not stay at "cargando".
LoadEnds == (status = "loading") ~> (status # "loading")

\* Loops that nothing cancels, their request being lost from the slot, run out.
LoopsEnd == <>[](\A f \in Faces, n \in Loads : todo[f][n] = 0)

\* Loads and drawing loops come to an end: LoadEnds and LoopsEnd.
ViewerRests == LoadEnds /\ LoopsEnd
=============================================================================
