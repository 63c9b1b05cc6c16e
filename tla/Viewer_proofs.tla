---------------------------- MODULE Viewer_proofs ----------------------------
(***************************************************************************)
(* Theorems about Viewer: however many clears and meshes come, and         *)
(* whatever loads they overtake, the status line and the download links    *)
(* tell the truth about the newest load.                                   *)
(***************************************************************************)
EXTENDS Viewer, TLAPS

LEMMA Bounds ==
    /\ MaxGens \in Nat \ {0} /\ MaxLoads \in Nat \ {0} /\ Frames \in Nat \ {0}
    /\ Frames - 1 \in 0 .. (Frames - 1) /\ 0 \in 0 .. (Frames - 1)
    /\ \A n \in Loads : n \in Nat \ {0}
    /\ 0 \in Gens /\ Gens \subseteq Nat
  BY ViewerAssumption DEF Loads, Gens

-----------------------------------------------------------------------------
(***************************************************************************)
(* The invariant of the loads.                                             *)
(***************************************************************************)

\* A load is of a generation that has come; the loads up to the newest have
\* begun; the faces move, and fail, only after the import.
Begun == \A n \in Loads :
    /\ load[n].gen <= gen
    /\ load[n].at = "none" => n > serial
    /\ n > serial => load[n].at = "none"
    /\ load[n].at \in {"none", "import"} =>
         load[n].err = "none" /\ \A f \in Faces : face[n][f] = "none"

\* A load has an error because one of its faces failed, and is called overtaken
\* only when it is.
Failed == \A n \in Loads :
    /\ load[n].err = "stale" => n < serial
    /\ load[n].err # "none" => \E f \in Faces : face[n][f] = "failed"

\* The newest load, unless a clear killed it, has its URLs, and no overlay covers
\* a face it has begun to draw.
Newest == serial > 0 /\ ~Invalidated(serial) =>
    /\ serial \in urls
    /\ \A f \in Faces : face[serial][f] \in {"probes", "drawn"} => ~canvas[f].neutral

\* What the status line says of a load, it says of one that has begun.
Spoken == status \in {"loading", "invalid", "ready"} => serial > 0

\* What StatusIsTrue says of the loads, what the canvases show left aside.
ReadyDrawn ==
    status = "ready" =>
        /\ serial > 0 /\ ~Invalidated(serial) /\ load[serial].pbr
        /\ \A f \in Faces : face[serial][f] = "drawn" /\ ~canvas[f].neutral

SaysTrue == ReadyDrawn /\ InvalidIsOwn /\ LoadingIsAlive /\ LinksWork

ViewerInv == TypeOK /\ Begun /\ Failed /\ Newest /\ Spoken /\ SaysTrue

-----------------------------------------------------------------------------
\* The values of the fields of a load, a face and a canvas, and of the status line.
Ats      == {"none", "import", "paint", "over"}
Errs     == {"none", "parse", "webgl", "cancelled", "stale"}
Stages   == {"none", "parse", "pbr", "probes", "drawn", "failed"}
Contexts == {"none", "live", "lost"}
Statuses == {"idle", "loading", "bare", "ready", "invalid", "unavailable", "cancelled"}

LEMMA Types ==
    /\ Load = [gen : Gens, at : Ats, pbr : BOOLEAN, err : Errs]
    /\ Canvas = [neutral : BOOLEAN, gl : Contexts, shows : {0} \cup Loads,
                 raf : {0} \cup Loads]
    /\ TypeOK <=>
         /\ gen \in Gens /\ viewerGen \in Gens /\ serial \in 0 .. MaxLoads
         /\ status \in Statuses
         /\ load \in [Loads -> Load]
         /\ face \in [Loads -> [Faces -> Stages]]
         /\ canvas \in [Faces -> Canvas]
         /\ todo \in [Faces -> [Loads -> 0 .. (Frames - 1)]]
         /\ urls \subseteq Loads
         /\ link \in {0} \cup Loads
         /\ late \in [Faces -> SUBSET Loads]
  BY DEF Load, Canvas, Ats, Errs, Stages, Contexts, Statuses, TypeOK

\* The serials and the generations are numbers.
LEMMA NumberTypes ==
    ASSUME TypeOK
    PROVE  /\ gen \in Nat /\ serial \in Nat
           /\ \A m \in Loads : m \in Nat /\ load[m] \in Load /\ load[m].gen \in Nat
           /\ serial > 0 => serial \in Loads
<1>1. gen \in Nat
  BY Types, Bounds
<1>2. serial \in Nat /\ (serial > 0 => serial \in Loads)
  BY Types, Bounds DEF Loads
<1>3. ASSUME NEW m \in Loads
      PROVE  m \in Nat /\ load[m] \in Load /\ load[m].gen \in Nat
  <2>1. load[m] \in Load
    BY Types
  <2>2. load[m].gen \in Gens
    BY <2>1, Types
  <2> QED BY <2>1, <2>2, Bounds
<1> QED BY <1>1, <1>2, <1>3

\* A canvas that is disposed, and its loop cancelled, are a canvas and a loop.
LEMMA DisposedType ==
    ASSUME TypeOK, NEW f \in Faces
    PROVE  /\ Disposed(f) \in Canvas
           /\ Cancelled(f) \in [Loads -> 0 .. (Frames - 1)]
           /\ [Disposed(f) EXCEPT !.neutral = TRUE] \in Canvas
           /\ [Disposed(f) EXCEPT !.neutral = FALSE] \in Canvas
           /\ Taken(f) \in Canvas /\ ~Taken(f).neutral
<1>1. canvas[f] \in Canvas /\ todo[f] \in [Loads -> 0 .. (Frames - 1)]
  BY Types
<1>2. Disposed(f) \in Canvas
  BY <1>1, Types DEF Disposed
<1>3. Cancelled(f) \in [Loads -> 0 .. (Frames - 1)]
  BY <1>1, Bounds DEF Cancelled
<1>4. Taken(f) \in Canvas /\ ~Taken(f).neutral
  <2> DEFINE g == IF Disposed(f).gl = "lost" THEN Disposed(f).gl ELSE "live"
  <2>1. g \in Contexts
    BY <1>2, Types DEF Contexts
  <2>2. Taken(f) = [Disposed(f) EXCEPT !.neutral = FALSE, !.gl = g, !.shows = 0]
    BY <1>2, Types DEF Taken
  <2> HIDE DEF g
  <2> QED BY <1>2, <2>1, <2>2, Types
<1> QED BY <1>2, <1>3, <1>4, Types

\* What a failure is called is one of the errors.
LEMMA AfterStartType ==
    ASSUME NEW n \in Loads
    PROVE  /\ AfterStart(n, "parse") \in {"parse", "cancelled", "stale"}
           /\ AfterStart(n, "webgl") \in {"webgl", "cancelled", "stale"}
           /\ AfterStart(n, "parse") = "stale" => n # serial
           /\ AfterStart(n, "webgl") = "stale" => n # serial
  BY DEF AfterStart, Stale

\* A render moves one loop and one canvas' request, nothing else.
LEMMA TickType ==
    ASSUME TypeOK, NEW n \in Loads, NEW f \in Faces, NEW more \in 0 .. (Frames - 1),
           Tick(n, f, more)
    PROVE  /\ canvas' \in [Faces -> Canvas]
           /\ todo' \in [Faces -> [Loads -> 0 .. (Frames - 1)]]
           /\ \A k \in Faces : canvas'[k].neutral = canvas[k].neutral
<1>1. canvas \in [Faces -> Canvas] /\ todo \in [Faces -> [Loads -> 0 .. (Frames - 1)]]
  BY Types
<1>2. todo' \in [Faces -> [Loads -> 0 .. (Frames - 1)]]
  BY <1>1 DEF Tick
<1> DEFINE r == IF more > 0 THEN n ELSE canvas[f].raf
           w == IF canvas[f].gl = "lost" THEN canvas[f].shows ELSE n
           b == [canvas[f] EXCEPT !.raf = r, !.shows = w]
<1>3. b \in Canvas /\ b.neutral = canvas[f].neutral
  BY <1>1, Types
<1>4. canvas' = [canvas EXCEPT ![f] = b]
  BY DEF Tick
<1> HIDE DEF b
<1> QED BY <1>1, <1>2, <1>3, <1>4

\* A face that throws fails, and gives the load its first error.
LEMMA ThrowFields ==
    ASSUME TypeOK, NEW n \in Loads, NEW f \in Faces, NEW kind \in Errs, Throw(n, f, kind)
    PROVE  /\ face' \in [Loads -> [Faces -> Stages]]
           /\ load' \in [Loads -> Load]
           /\ face'[n][f] = "failed"
           /\ \A m \in Loads, k \in Faces : m # n \/ k # f => face'[m][k] = face[m][k]
           /\ \A m \in Loads : /\ load'[m].gen = load[m].gen /\ load'[m].at = load[m].at
                               /\ load'[m].pbr = load[m].pbr
                               /\ m # n \/ load[m].err # "none" => load'[m].err = load[m].err
           /\ load'[n].err \in {load[n].err, kind}
<1>1. load \in [Loads -> Load] /\ face \in [Loads -> [Faces -> Stages]]
  BY Types
<1>2. "failed" \in Stages
  BY DEF Stages
<1> DEFINE e == IF load[n].err = "none" THEN kind ELSE load[n].err
           b == [load[n] EXCEPT !.err = e]
           c == [face[n] EXCEPT ![f] = "failed"]
<1>3. e \in Errs /\ e \in {load[n].err, kind} /\ (load[n].err # "none" => e = load[n].err)
  BY <1>1, Types
<1> HIDE DEF e
<1>4. /\ b \in Load /\ b.gen = load[n].gen /\ b.at = load[n].at /\ b.pbr = load[n].pbr
      /\ b.err = e
  BY <1>1, <1>3, Types, ZenonT(30)
<1>5. /\ c \in [Faces -> Stages] /\ c[f] = "failed"
      /\ \A k \in Faces \ {f} : c[k] = face[n][k]
  BY <1>1, <1>2
<1>6. load' = [load EXCEPT ![n] = b] /\ face' = [face EXCEPT ![n] = c]
  BY DEF Throw, e
<1> HIDE DEF b, c
<1>7. load' \in [Loads -> Load] /\ face' \in [Loads -> [Faces -> Stages]]
  BY <1>1, <1>4, <1>5, <1>6
<1>8. \A m \in Loads : load'[m] = IF m = n THEN b ELSE load[m]
  BY <1>1, <1>6
<1>9. \A m \in Loads : face'[m] = IF m = n THEN c ELSE face[m]
  BY <1>1, <1>6
<1>10. /\ face'[n][f] = "failed"
       /\ \A m \in Loads, k \in Faces : m # n \/ k # f => face'[m][k] = face[m][k]
  BY <1>5, <1>9
<1>11. /\ \A m \in Loads : /\ load'[m].gen = load[m].gen /\ load'[m].at = load[m].at
                           /\ load'[m].pbr = load[m].pbr
                           /\ m # n \/ load[m].err # "none" => load'[m].err = load[m].err
       /\ load'[n].err \in {load[n].err, kind}
  BY <1>3, <1>4, <1>8
<1> QED BY <1>7, <1>10, <1>11
-----------------------------------------------------------------------------
(***************************************************************************)
(* The steps.                                                              *)
(***************************************************************************)

Rest == <<gen, viewerGen, serial, status, urls, link, late>>

\* What a step of face f of load n may do.
FaceStep(n, f) ==
    /\ face[n][f] \in {"parse", "pbr", "probes"}
    /\ \A m \in Loads, k \in Faces : m # n \/ k # f => face'[m][k] = face[m][k]
    /\ \A m \in Loads : /\ load'[m].gen = load[m].gen /\ load'[m].at = load[m].at
                        /\ load[m].err # "none" => load'[m].err = load[m].err
    /\ \A m \in Loads : m # n => load'[m].err = load[m].err /\ load'[m].pbr = load[m].pbr
    /\ load'[n].err # load[n].err =>
         face'[n][f] = "failed" /\ (load'[n].err = "stale" => n # serial)
    /\ \A k \in Faces : ~canvas[k].neutral => ~canvas'[k].neutral
    /\ face'[n][f] \in {"probes", "drawn"} => ~canvas'[f].neutral \/ face[n][f] = "probes"
    /\ UNCHANGED Rest

\* Such a step keeps the invariant: a load that was told to be ready, or invalid,
\* has no face left that could change that.
LEMMA FaceStepKeeps ==
    ASSUME ViewerInv, TypeOK', NEW n \in Loads, NEW f \in Faces, FaceStep(n, f)
    PROVE  ViewerInv'
<1> USE DEF ViewerInv
<1>1. UNCHANGED <<gen, viewerGen, serial, status, urls, link, late>>
  BY DEF FaceStep, Rest
<1>2. /\ gen \in Nat /\ serial \in Nat
      /\ \A m \in Loads : m \in Nat /\ load[m].gen \in Nat
  BY NumberTypes
<1>3. load[n].at \notin {"none", "import"} /\ n <= serial
  <2>1. load[n].at \notin {"none", "import"}
    BY DEF FaceStep, Begun
  <2> QED BY <2>1, <1>2 DEF Begun
<1>4. Begun'
  <2> SUFFICES ASSUME NEW m \in Loads
               PROVE  /\ load'[m].gen <= gen
                      /\ load'[m].at = "none" => m > serial
                      /\ m > serial => load'[m].at = "none"
                      /\ load'[m].at \in {"none", "import"} =>
                           load'[m].err = "none" /\ \A k \in Faces : face'[m][k] = "none"
    BY <1>1 DEF Begun
  <2>1. load'[m].gen = load[m].gen /\ load'[m].at = load[m].at
    BY DEF FaceStep
  <2>2. CASE m = n
    BY <1>3, <2>1, <2>2 DEF Begun
  <2>3. CASE m # n
    BY <2>1, <2>3 DEF FaceStep, Begun
  <2> QED BY <2>2, <2>3
<1>5. Failed'
  <2> SUFFICES ASSUME NEW m \in Loads
               PROVE  /\ load'[m].err = "stale" => m < serial
                      /\ load'[m].err # "none" => \E k \in Faces : face'[m][k] = "failed"
    BY <1>1 DEF Failed
  <2>1. CASE load'[m].err = load[m].err
    <3>1. load[m].err = "stale" => m < serial
      BY DEF Failed
    <3>2. ASSUME load[m].err # "none"
          PROVE  \E k \in Faces : face'[m][k] = "failed"
      <4>1. PICK k \in Faces : face[m][k] = "failed"
        BY <3>2 DEF Failed
      <4>2. face'[m][k] = "failed"
        BY <4>1 DEF FaceStep
      <4> QED BY <4>2
    <3> QED BY <2>1, <3>1, <3>2
  <2>2. CASE load'[m].err # load[m].err
    <3>1. m = n /\ face'[n][f] = "failed" /\ (load'[n].err = "stale" => n # serial)
      BY <2>2 DEF FaceStep
    <3> QED BY <1>2, <1>3, <3>1
  <2> QED BY <2>1, <2>2
<1>6. Newest'
  <2> SUFFICES ASSUME serial > 0, load'[serial].gen = gen
               PROVE  /\ serial \in urls
                      /\ \A k \in Faces :
                           face'[serial][k] \in {"probes", "drawn"} => ~canvas'[k].neutral
    BY <1>1 DEF Newest, Invalidated
  <2>1. serial \in Loads
    BY <1>2, Types, Bounds DEF Loads
  <2>2. load[serial].gen = gen
    BY <2>1 DEF FaceStep
  <2>3. /\ serial \in urls
        /\ \A k \in Faces : face[serial][k] \in {"probes", "drawn"} => ~canvas[k].neutral
    BY <2>2 DEF Newest, Invalidated
  <2>4. ASSUME NEW k \in Faces, face'[serial][k] \in {"probes", "drawn"}
        PROVE  ~canvas'[k].neutral
    <3>1. CASE serial = n /\ k = f
      BY <2>3, <2>4, <3>1 DEF FaceStep
    <3>2. CASE ~(serial = n /\ k = f)
      BY <2>1, <2>3, <2>4, <3>2 DEF FaceStep
    <3> QED BY <3>1, <3>2
  <2> QED BY <2>3, <2>4
<1>7. Spoken'
  BY <1>1 DEF Spoken
<1>8. ASSUME status \in {"loading", "invalid", "ready"}
      PROVE  serial \in Loads
  BY <1>2, <1>8, Types, Bounds DEF Spoken, Loads
<1>9. ReadyDrawn'
  <2> SUFFICES ASSUME status = "ready"
               PROVE  /\ serial > 0 /\ load'[serial].gen = gen /\ load'[serial].pbr
                      /\ \A k \in Faces : face'[serial][k] = "drawn" /\ ~canvas'[k].neutral
    BY <1>1 DEF ReadyDrawn, Invalidated
  <2>1. /\ serial > 0 /\ load[serial].gen = gen /\ load[serial].pbr
        /\ \A k \in Faces : face[serial][k] = "drawn" /\ ~canvas[k].neutral
    BY DEF SaysTrue, ReadyDrawn, Invalidated
  <2>2. serial # n
    BY <2>1 DEF FaceStep
  <2> QED BY <1>8, <2>1, <2>2 DEF FaceStep
<1>10. InvalidIsOwn'
  <2> SUFFICES ASSUME status = "invalid"
               PROVE  /\ serial \in urls /\ load'[serial].gen = gen
                      /\ \E k \in Faces : face'[serial][k] = "failed"
                      /\ load'[serial].err = "parse"
    BY <1>1 DEF InvalidIsOwn, Invalidated
  <2>1. /\ serial \in urls /\ load[serial].gen = gen /\ load[serial].err = "parse"
    BY DEF SaysTrue, InvalidIsOwn, Invalidated
  <2>2. PICK k \in Faces : face[serial][k] = "failed"
    BY DEF SaysTrue, InvalidIsOwn
  <2>3. face'[serial][k] = "failed"
    BY <1>8, <2>2 DEF FaceStep
  <2> QED BY <1>8, <2>1, <2>3 DEF FaceStep
<1>11. LoadingIsAlive'
  BY <1>1, <1>8 DEF SaysTrue, LoadingIsAlive, Invalidated, FaceStep
<1>12. LinksWork'
  BY <1>1 DEF SaysTrue, LinksWork
<1> QED BY <1>4, <1>5, <1>6, <1>7, <1>9, <1>10, <1>11, <1>12 DEF SaysTrue

LEMMA ParseKeeps ==
    ASSUME ViewerInv, NEW n \in Loads, NEW f \in Faces, Parse(n, f)
    PROVE  ViewerInv'
<1>1. /\ TypeOK /\ face[n][f] = "parse"
      /\ UNCHANGED <<gen, viewerGen, serial, status, canvas, todo, urls, link, late>>
  BY DEF ViewerInv, Parse, page
<1>2. canvas \in [Faces -> Canvas]
  BY <1>1, Types
<1>3. CASE face' = [face EXCEPT ![n][f] = "pbr"] /\ UNCHANGED load
  <2>1. /\ face' \in [Loads -> [Faces -> Stages]] /\ face'[n][f] = "pbr"
        /\ \A m \in Loads, k \in Faces : m # n \/ k # f => face'[m][k] = face[m][k]
    BY <1>1, <1>3, Types DEF Stages
  <2>2. TypeOK'
    BY <1>1, <1>3, <2>1, Types DEF TypeOK, Stages
  <2>3. FaceStep(n, f)
    BY <1>1, <1>3, <2>1 DEF FaceStep, Rest
  <2> QED BY <2>2, <2>3, FaceStepKeeps
<1>4. ASSUME NEW kind \in {AfterStart(n, "parse"), "webgl"}, Throw(n, f, kind)
      PROVE  ViewerInv'
  <2>1. kind \in Errs /\ (kind = "stale" => n # serial)
    BY AfterStartType DEF Errs
  <2>2. /\ face' \in [Loads -> [Faces -> Stages]] /\ load' \in [Loads -> Load]
        /\ face'[n][f] = "failed"
        /\ \A m \in Loads, k \in Faces : m # n \/ k # f => face'[m][k] = face[m][k]
        /\ \A m \in Loads : /\ load'[m].gen = load[m].gen /\ load'[m].at = load[m].at
                            /\ load'[m].pbr = load[m].pbr
                            /\ m # n \/ load[m].err # "none" => load'[m].err = load[m].err
        /\ load'[n].err \in {load[n].err, kind}
    BY <1>1, <1>4, <2>1, ThrowFields
  <2>3. TypeOK'
    BY <1>1, <2>2, Types DEF TypeOK, Stages
  <2>4. FaceStep(n, f)
    BY <1>1, <2>1, <2>2 DEF FaceStep, Rest
  <2> QED BY <2>3, <2>4, FaceStepKeeps
<1> QED BY <1>3, <1>4 DEF Parse

LEMMA ProbesKeeps ==
    ASSUME ViewerInv, NEW n \in Loads, NEW f \in Faces, Probes(n, f)
    PROVE  ViewerInv'
<1>1. /\ TypeOK /\ face[n][f] = "probes"
      /\ UNCHANGED <<gen, viewerGen, serial, status, urls, link, late>>
  BY DEF ViewerInv, Probes, page
<1>2. CASE face' = [face EXCEPT ![n][f] = "drawn"] /\ Tick(n, f, Frames - 1) /\ UNCHANGED load
  <2>1. /\ face' \in [Loads -> [Faces -> Stages]] /\ face'[n][f] = "drawn"
        /\ \A m \in Loads, k \in Faces : m # n \/ k # f => face'[m][k] = face[m][k]
    BY <1>1, <1>2, Types DEF Stages
  <2>2. /\ canvas' \in [Faces -> Canvas]
        /\ todo' \in [Faces -> [Loads -> 0 .. (Frames - 1)]]
        /\ \A k \in Faces : canvas'[k].neutral = canvas[k].neutral
    BY <1>1, <1>2, Bounds, TickType
  <2>3. TypeOK'
    BY <1>1, <1>2, <2>1, <2>2, Types DEF TypeOK, Stages
  <2>4. FaceStep(n, f)
    BY <1>1, <1>2, <2>1, <2>2 DEF FaceStep, Rest
  <2> QED BY <2>3, <2>4, FaceStepKeeps
<1>3. CASE Throw(n, f, AfterStart(n, "webgl")) /\ UNCHANGED <<canvas, todo>>
  <2> DEFINE kind == AfterStart(n, "webgl")
  <2>1. kind \in Errs /\ (kind = "stale" => n # serial)
    BY AfterStartType DEF Errs
  <2>2. Throw(n, f, kind)
    BY <1>3
  <2> HIDE DEF kind
  <2>3. /\ face' \in [Loads -> [Faces -> Stages]] /\ load' \in [Loads -> Load]
        /\ face'[n][f] = "failed"
        /\ \A m \in Loads, k \in Faces : m # n \/ k # f => face'[m][k] = face[m][k]
        /\ \A m \in Loads : /\ load'[m].gen = load[m].gen /\ load'[m].at = load[m].at
                            /\ load'[m].pbr = load[m].pbr
                            /\ m # n \/ load[m].err # "none" => load'[m].err = load[m].err
        /\ load'[n].err \in {load[n].err, kind}
    BY <1>1, <2>1, <2>2, ThrowFields
  <2>4. TypeOK'
    BY <1>1, <1>3, <2>3, Types DEF TypeOK, Stages
  <2>5. FaceStep(n, f)
    BY <1>1, <1>3, <2>1, <2>3 DEF FaceStep, Rest
  <2> QED BY <2>4, <2>5, FaceStepKeeps
<1> QED BY <1>2, <1>3 DEF Probes
\* The canvas is taken without another look at the serials: the picture of an
\* overtaken load may cover it, which the newest load's faces do not depend on.
LEMMA TextureKeeps ==
    ASSUME ViewerInv, NEW n \in Loads, NEW f \in Faces, Texture(n, f)
    PROVE  ViewerInv'
<1>1. /\ TypeOK /\ face[n][f] = "pbr"
      /\ UNCHANGED <<gen, viewerGen, serial, status, urls, link, late>>
  BY DEF ViewerInv, Texture, page
<1>2. PICK pbrOk \in BOOLEAN, renders \in BOOLEAN :
        /\ todo' = [todo EXCEPT ![f] = Cancelled(f)]
        /\ canvas' = [canvas EXCEPT ![f] =
                        IF renders THEN Taken(f)
                        ELSE [Disposed(f) EXCEPT !.neutral = FALSE]]
        /\ face' = [face EXCEPT ![n][f] = IF renders THEN "probes" ELSE "failed"]
        /\ load' = [load EXCEPT
                      ![n].pbr = @ /\ pbrOk,
                      ![n].err = IF @ = "none" /\ ~renders THEN AfterStart(n, "webgl") ELSE @]
  BY DEF Texture
<1>3. /\ load \in [Loads -> Load] /\ face \in [Loads -> [Faces -> Stages]]
      /\ canvas \in [Faces -> Canvas] /\ todo \in [Faces -> [Loads -> 0 .. (Frames - 1)]]
  BY <1>1, Types
<1>4. todo' \in [Faces -> [Loads -> 0 .. (Frames - 1)]]
  BY <1>1, <1>2, <1>3, DisposedType
<1> DEFINE c == IF renders THEN Taken(f) ELSE [Disposed(f) EXCEPT !.neutral = FALSE]
<1>5. c \in Canvas /\ ~c.neutral
  <2>1. Disposed(f) \in Canvas /\ Taken(f) \in Canvas /\ ~Taken(f).neutral
    BY <1>1, DisposedType
  <2> QED BY <2>1, Types
<1>6. canvas' = [canvas EXCEPT ![f] = c]
  BY <1>2
<1> HIDE DEF c
<1>7. /\ canvas' \in [Faces -> Canvas] /\ ~canvas'[f].neutral
      /\ \A k \in Faces : ~canvas[k].neutral => ~canvas'[k].neutral
  BY <1>3, <1>5, <1>6
<1> DEFINE s == IF renders THEN "probes" ELSE "failed"
           e == IF load[n].err = "none" /\ ~renders THEN AfterStart(n, "webgl")
                ELSE load[n].err
           b == [load[n] EXCEPT !.pbr = load[n].pbr /\ pbrOk, !.err = e]
<1>8. /\ s \in Stages /\ (~renders => s = "failed")
  BY DEF Stages
<1>9. face' = [face EXCEPT ![n][f] = s]
  BY <1>2
<1>10. /\ e \in Errs /\ (load[n].err # "none" => e = load[n].err)
       /\ e # load[n].err => ~renders /\ (e = "stale" => n # serial)
  <2>1. load[n].err \in Errs
    BY <1>3, Types
  <2> QED BY <2>1, AfterStartType DEF Errs
<1> HIDE DEF s, e
<1>11. /\ face' \in [Loads -> [Faces -> Stages]] /\ face'[n][f] = s
       /\ \A m \in Loads, k \in Faces : m # n \/ k # f => face'[m][k] = face[m][k]
  BY <1>3, <1>8, <1>9
<1>12. /\ b \in Load /\ b.gen = load[n].gen /\ b.at = load[n].at /\ b.err = e
  BY <1>3, <1>10, Types, ZenonT(30)
<1>13. load' = [load EXCEPT ![n] = b]
  BY <1>2, <1>3 DEF e
<1> HIDE DEF b
<1>14. /\ load' \in [Loads -> Load]
       /\ \A m \in Loads : m # n => load'[m] = load[m]
       /\ load'[n] = b
  BY <1>3, <1>12, <1>13
<1>15. TypeOK'
  BY <1>1, <1>4, <1>7, <1>11, <1>14, Types DEF TypeOK, Stages
<1>16. \A m \in Loads : /\ load'[m].gen = load[m].gen /\ load'[m].at = load[m].at
                        /\ load[m].err # "none" => load'[m].err = load[m].err
  BY <1>10, <1>12, <1>14
<1>17. load'[n].err # load[n].err =>
         face'[n][f] = "failed" /\ (load'[n].err = "stale" => n # serial)
  BY <1>8, <1>10, <1>11, <1>12, <1>14
<1>18. FaceStep(n, f)
  BY <1>1, <1>7, <1>11, <1>14, <1>16, <1>17 DEF FaceStep, Rest
<1> QED BY <1>15, <1>18, FaceStepKeeps

\* A frame moves its loop and the request in the slot.
LEMMA FrameKeeps ==
    ASSUME ViewerInv, NEW n \in Loads, NEW f \in Faces, Frame(n, f)
    PROVE  ViewerInv'
<1>1. /\ TypeOK /\ Tick(n, f, todo[f][n] - 1) /\ todo[f][n] > 0
      /\ UNCHANGED <<gen, viewerGen, serial, status, load, face, urls, link, late>>
  BY DEF ViewerInv, Frame, page
<1>2. todo[f][n] - 1 \in 0 .. (Frames - 1)
  <2>1. todo[f][n] \in 0 .. (Frames - 1)
    BY <1>1, Types
  <2> QED BY <1>1, <2>1, Bounds
<1>3. /\ canvas' \in [Faces -> Canvas]
      /\ todo' \in [Faces -> [Loads -> 0 .. (Frames - 1)]]
      /\ \A k \in Faces : canvas'[k].neutral = canvas[k].neutral
  BY <1>1, <1>2, TickType
<1>4. TypeOK'
  BY <1>1, <1>3 DEF TypeOK
<1>5. Begun' /\ Failed' /\ Newest' /\ Spoken'
  BY <1>1, <1>3 DEF ViewerInv, Begun, Failed, Newest, Spoken, Invalidated
<1>6. SaysTrue'
  BY <1>1, <1>3 DEF ViewerInv, SaysTrue, ReadyDrawn, InvalidIsOwn, LoadingIsAlive,
                    LinksWork, Invalidated
<1> QED BY <1>4, <1>5, <1>6 DEF ViewerInv

\* The loss of a context changes the status line, to a word that says nothing of
\* a load, and leaves the overlays.
LEMMA ContextLostKeeps ==
    ASSUME ViewerInv, NEW f \in Faces, ContextLost(f)
    PROVE  ViewerInv'
<1>1. /\ TypeOK /\ status' = "unavailable"
      /\ canvas' = [canvas EXCEPT ![f].gl = "lost", ![f].shows = 0]
      /\ UNCHANGED <<gen, viewerGen, serial, load, face, todo, urls, link, late>>
  BY DEF ViewerInv, ContextLost, page
<1> DEFINE b == [canvas[f] EXCEPT !.gl = "lost", !.shows = 0]
<1>2. canvas \in [Faces -> Canvas] /\ canvas[f] \in Canvas
  BY <1>1, Types
<1>3. b \in Canvas /\ b.neutral = canvas[f].neutral
  BY <1>2, Types DEF Contexts
<1>4. canvas' = [canvas EXCEPT ![f] = b]
  BY <1>1, <1>2
<1> HIDE DEF b
<1>5. /\ canvas' \in [Faces -> Canvas]
      /\ \A k \in Faces : canvas'[k].neutral = canvas[k].neutral
  BY <1>2, <1>3, <1>4
<1>6. TypeOK'
  BY <1>1, <1>5 DEF TypeOK
<1>7. Begun' /\ Failed' /\ Newest' /\ Spoken'
  BY <1>1, <1>5 DEF ViewerInv, Begun, Failed, Newest, Spoken, Invalidated
<1>8. SaysTrue'
  BY <1>1 DEF ViewerInv, SaysTrue, ReadyDrawn, InvalidIsOwn, LoadingIsAlive, LinksWork,
              Invalidated
<1> QED BY <1>6, <1>7, <1>8 DEF ViewerInv

\* A clear leaves no load alive.
LEMMA ClearKeeps ==
    ASSUME ViewerInv, Clear
    PROVE  ViewerInv'
<1>1. /\ TypeOK /\ gen < MaxGens /\ gen' = gen + 1
      /\ urls' = {} /\ link' = 0 /\ status' = "idle"
      /\ UNCHANGED <<viewerGen, serial, load, face, late>>
  BY DEF ViewerInv, Clear
<1>2. /\ gen \in Nat /\ serial \in Nat
      /\ \A m \in Loads : m \in Nat /\ load[m] \in Load /\ load[m].gen \in Nat
      /\ serial > 0 => serial \in Loads
  BY <1>1, NumberTypes
<1>3. gen' \in Gens
  BY <1>1, <1>2, Bounds DEF Gens
<1>4. canvas' \in [Faces -> Canvas] /\ todo' \in [Faces -> [Loads -> 0 .. (Frames - 1)]]
  <2>1. \A f \in Faces : /\ [Disposed(f) EXCEPT !.neutral = TRUE] \in Canvas
                         /\ Cancelled(f) \in [Loads -> 0 .. (Frames - 1)]
    BY <1>1, DisposedType
  <2> QED BY <2>1 DEF Clear
<1>5. TypeOK'
  BY <1>1, <1>3, <1>4 DEF TypeOK
<1>6. \A m \in Loads : load[m].gen <= gen /\ load'[m].gen < gen'
  BY <1>1, <1>2 DEF ViewerInv, Begun
<1>7. Begun'
  BY <1>1, <1>2, <1>6 DEF ViewerInv, Begun
<1>8. Failed'
  BY <1>1 DEF ViewerInv, Failed
<1>9. serial > 0 => load'[serial].gen # gen'
  BY <1>1, <1>2, <1>6
<1>10. Newest' /\ Spoken'
  BY <1>1, <1>9 DEF Newest, Spoken, Invalidated
<1>11. SaysTrue'
  BY <1>1 DEF SaysTrue, ReadyDrawn, InvalidIsOwn, LoadingIsAlive, LinksWork
<1> QED BY <1>5, <1>7, <1>8, <1>10, <1>11 DEF ViewerInv

\* A load that begins is the newest, of the generation at work.
LEMMA MeshesKeeps ==
    ASSUME ViewerInv, Meshes
    PROVE  ViewerInv'
<1>1. /\ TypeOK /\ serial < MaxLoads /\ viewerGen' = gen /\ serial' = serial + 1
      /\ load' = [load EXCEPT ![serial'].gen = gen, ![serial'].at = "import"]
      /\ urls' = urls \cup {serial'} /\ link' = serial' /\ status' = "loading"
      /\ UNCHANGED <<gen, face, canvas, todo>>
  BY DEF ViewerInv, Meshes
<1>2. /\ gen \in Nat /\ gen \in Gens /\ serial \in Nat
      /\ \A m \in Loads : m \in Nat /\ load[m] \in Load /\ load[m].gen \in Nat
  BY <1>1, NumberTypes, Types
<1> DEFINE n == serial + 1
           b == [load[n] EXCEPT !.gen = gen, !.at = "import"]
<1>3. n \in Loads /\ n \in 0 .. MaxLoads /\ n > serial /\ n > 0
  BY <1>1, <1>2, Bounds DEF Loads
<1>4. b \in Load /\ b.gen = gen /\ b.at = "import" /\ b.err = load[n].err
  BY <1>2, <1>3, Types DEF Ats
<1>5. load' = [load EXCEPT ![n] = b] /\ load \in [Loads -> Load]
  <2>1. load \in [Loads -> Load]
    BY <1>1, Types
  <2> QED BY <1>1, <2>1
<1> HIDE DEF b
<1>6. load' \in [Loads -> Load] /\ load'[n] = b /\ \A m \in Loads \ {n} : load'[m] = load[m]
  BY <1>3, <1>4, <1>5
<1>7. serial' = n
  BY <1>1
<1>8. load[n].err = "none" /\ \A f \in Faces : face[n][f] = "none"
  BY <1>2, <1>3 DEF ViewerInv, Begun
<1> HIDE DEF n
<1>9. TypeOK'
  <2>1. late' \in [Faces -> SUBSET Loads]
    BY <1>1, Types DEF Meshes
  <2> QED BY <1>1, <1>2, <1>3, <1>6, <1>7, <2>1 DEF TypeOK
<1>10. \A m \in Loads : m # n => (m > n <=> m > serial)
  BY <1>2, <1>3 DEF n
<1>11. Begun'
  <2> SUFFICES ASSUME NEW m \in Loads
               PROVE  /\ load'[m].gen <= gen
                      /\ load'[m].at = "none" => m > n
                      /\ m > n => load'[m].at = "none"
                      /\ load'[m].at \in {"none", "import"} =>
                           load'[m].err = "none" /\ \A f \in Faces : face[m][f] = "none"
    BY <1>1, <1>7 DEF Begun
  <2>1. CASE m = n
    BY <1>2, <1>3, <1>4, <1>6, <1>8, <2>1
  <2>2. CASE m # n
    BY <1>6, <1>10, <2>2 DEF ViewerInv, Begun
  <2> QED BY <2>1, <2>2
<1>12. Failed'
  <2> SUFFICES ASSUME NEW m \in Loads
               PROVE  /\ load'[m].err = "stale" => m < n
                      /\ load'[m].err # "none" => \E f \in Faces : face[m][f] = "failed"
    BY <1>1, <1>7 DEF Failed
  <2>1. load'[m].err = load[m].err
    BY <1>4, <1>6
  <2>2. load[m].err = "stale" => m < n
    BY <1>2 DEF ViewerInv, Failed, n
  <2> QED BY <2>1, <2>2 DEF ViewerInv, Failed
<1>13. Newest'
  BY <1>1, <1>3, <1>7, <1>8 DEF Newest
<1>14. Spoken'
  BY <1>3, <1>7 DEF Spoken
<1>15. SaysTrue'
  BY <1>1, <1>4, <1>6, <1>7 DEF SaysTrue, ReadyDrawn, InvalidIsOwn, LoadingIsAlive,
                               LinksWork, Invalidated
<1> QED BY <1>9, <1>11, <1>12, <1>13, <1>14, <1>15 DEF ViewerInv

\* What the end of load n, or its failure to begin, makes of the status line.
Says(n) ==
    \/ n # serial /\ status' = status
    \/ /\ n = serial /\ status' \in Statuses \ {"loading"}
       /\ status' = "ready" => /\ load[n].gen = gen /\ load[n].pbr
                               /\ \A f \in Faces : face[n][f] = "drawn"
       /\ status' = "invalid" => load[n].gen = gen /\ load[n].err = "parse"

\* A load that ends, or does not begin, says so only when it is the newest.
LEMMA LoadEndKeeps ==
    ASSUME ViewerInv, NEW n \in Loads, load[n].at \in {"import", "paint"},
           load' = [load EXCEPT ![n].at = "over"],
           UNCHANGED <<gen, viewerGen, serial, face, canvas, todo, urls, link, late>>,
           Says(n)
    PROVE  ViewerInv'
<1>1. TypeOK
  BY DEF ViewerInv
<1>2. /\ gen \in Nat /\ serial \in Nat
      /\ \A m \in Loads : m \in Nat /\ load[m] \in Load /\ load[m].gen \in Nat
      /\ serial > 0 => serial \in Loads
  BY <1>1, NumberTypes
<1> DEFINE b == [load[n] EXCEPT !.at = "over"]
<1>3. /\ b \in Load /\ b.gen = load[n].gen /\ b.at = "over" /\ b.err = load[n].err
      /\ b.pbr = load[n].pbr
  BY <1>2, Types DEF Ats
<1>4. load' = [load EXCEPT ![n] = b] /\ load \in [Loads -> Load]
  BY <1>1, Types
<1> HIDE DEF b
<1>5. load' \in [Loads -> Load] /\ load'[n] = b /\ \A m \in Loads \ {n} : load'[m] = load[m]
  BY <1>3, <1>4
<1>6. \A m \in Loads : /\ load'[m].gen = load[m].gen /\ load'[m].err = load[m].err
                       /\ load'[m].pbr = load[m].pbr
                       /\ load'[m].at = IF m = n THEN "over" ELSE load[m].at
  BY <1>3, <1>5
<1>7. TypeOK'
  <2>1. status \in Statuses
    BY <1>1, Types
  <2>2. status' \in Statuses
    BY <2>1 DEF Says
  <2> QED BY <1>1, <1>5, <2>2 DEF TypeOK, Statuses
<1>8. n <= serial /\ serial > 0
  <2>1. n > 0 /\ ~(n > serial)
    BY Bounds DEF ViewerInv, Begun
  <2> QED BY <1>2, <2>1
<1>9. Begun'
  BY <1>2, <1>6, <1>8 DEF ViewerInv, Begun
<1>10. Failed'
  BY <1>6 DEF ViewerInv, Failed
<1>11. serial \in Loads /\ load'[serial].gen = load[serial].gen
  BY <1>2, <1>6, <1>8
<1>12. Newest' /\ Spoken'
  BY <1>8, <1>11 DEF ViewerInv, Newest, Spoken, Invalidated
<1>13. ASSUME n # serial, status' = status
       PROVE  SaysTrue'
  BY <1>6, <1>11, <1>13 DEF ViewerInv, SaysTrue, ReadyDrawn, InvalidIsOwn,
                            LoadingIsAlive, LinksWork, Invalidated
<1>14. ASSUME n = serial, status' \in Statuses \ {"loading"},
              status' = "ready" => /\ load[n].gen = gen /\ load[n].pbr
                                   /\ \A f \in Faces : face[n][f] = "drawn",
              status' = "invalid" => load[n].gen = gen /\ load[n].err = "parse"
       PROVE  SaysTrue'
  <2>1. load[n].gen = gen =>
          /\ serial \in urls
          /\ \A f \in Faces : face[serial][f] \in {"probes", "drawn"} => ~canvas[f].neutral
    BY <1>8, <1>14 DEF ViewerInv, Newest, Invalidated
  <2>2. ReadyDrawn'
    BY <1>6, <1>8, <1>11, <1>14, <2>1 DEF ReadyDrawn, Invalidated
  <2>3. InvalidIsOwn'
    BY <1>6, <1>11, <1>14, <2>1 DEF ViewerInv, Failed, InvalidIsOwn, Invalidated
  <2>4. LoadingIsAlive'
    BY <1>14 DEF LoadingIsAlive
  <2>5. LinksWork'
    BY DEF ViewerInv, SaysTrue, LinksWork
  <2> QED BY <2>2, <2>3, <2>4, <2>5 DEF SaysTrue
<1>15. SaysTrue'
  BY <1>13, <1>14 DEF Says
<1> QED BY <1>7, <1>9, <1>10, <1>12, <1>15 DEF ViewerInv

LEMMA ImportKeeps ==
    ASSUME ViewerInv, NEW n \in Loads, Import(n)
    PROVE  ViewerInv'
<1>1. /\ TypeOK /\ load[n].at = "import"
      /\ UNCHANGED <<gen, viewerGen, serial, canvas, todo, urls, link, late>>
  BY DEF ViewerInv, Import, page
<1>2. CASE /\ load' = [load EXCEPT ![n].at = "over"]
           /\ status' = IF Stale(n) THEN status ELSE "unavailable"
           /\ UNCHANGED face
  <2>1. Says(n)
    BY <1>2 DEF Says, Stale, Statuses
  <2> QED BY <1>1, <1>2, <2>1, LoadEndKeeps
<1>3. CASE /\ load' = [load EXCEPT ![n].at = "paint"]
           /\ face' = [face EXCEPT ![n] = [f \in Faces |-> "parse"]]
           /\ UNCHANGED status
  <2>1. /\ gen \in Nat /\ serial \in Nat
        /\ \A m \in Loads : m \in Nat /\ load[m] \in Load /\ load[m].gen \in Nat
        /\ serial > 0 => serial \in Loads
    BY <1>1, NumberTypes
  <2> DEFINE b == [load[n] EXCEPT !.at = "paint"]
             c == [f \in Faces |-> "parse"]
  <2>2. /\ b \in Load /\ b.gen = load[n].gen /\ b.at = "paint" /\ b.err = load[n].err
        /\ b.pbr = load[n].pbr
    BY <2>1, Types DEF Ats
  <2>3. load' = [load EXCEPT ![n] = b] /\ load \in [Loads -> Load]
    BY <1>1, <1>3, Types
  <2> HIDE DEF b
  <2>4. load' \in [Loads -> Load] /\ load'[n] = b /\ \A m \in Loads \ {n} : load'[m] = load[m]
    BY <2>2, <2>3
  <2>5. \A m \in Loads : /\ load'[m].gen = load[m].gen /\ load'[m].err = load[m].err
                         /\ load'[m].pbr = load[m].pbr
                         /\ load'[m].at = IF m = n THEN "paint" ELSE load[m].at
    BY <2>2, <2>4
  <2>6. c \in [Faces -> Stages] /\ \A f \in Faces : c[f] = "parse"
    BY DEF Stages
  <2>7. face \in [Loads -> [Faces -> Stages]] /\ face' = [face EXCEPT ![n] = c]
    BY <1>1, <1>3, Types
  <2> HIDE DEF c
  <2>8. /\ face' \in [Loads -> [Faces -> Stages]] /\ face'[n] = c
        /\ \A m \in Loads \ {n} : face'[m] = face[m]
    BY <2>6, <2>7
  <2>9. TypeOK'
    BY <1>1, <1>3, <2>4, <2>8 DEF TypeOK, Stages
  <2>10. load[n].err = "none" /\ \A f \in Faces : face[n][f] = "none"
    BY <1>1 DEF ViewerInv, Begun
  <2>11. Begun'
    <3> SUFFICES ASSUME NEW m \in Loads
                 PROVE  /\ load'[m].gen <= gen
                        /\ load'[m].at = "none" => m > serial
                        /\ m > serial => load'[m].at = "none"
                        /\ load'[m].at \in {"none", "import"} =>
                             load'[m].err = "none" /\ \A f \in Faces : face'[m][f] = "none"
      BY <1>1 DEF Begun
    <3>1. CASE m = n
      BY <1>1, <2>5, <3>1 DEF ViewerInv, Begun
    <3>2. CASE m # n
      BY <2>5, <2>8, <3>2 DEF ViewerInv, Begun
    <3> QED BY <3>1, <3>2
  <2>12. Failed'
    <3> SUFFICES ASSUME NEW m \in Loads
                 PROVE  /\ load'[m].err = "stale" => m < serial
                        /\ load'[m].err # "none" => \E f \in Faces : face'[m][f] = "failed"
      BY <1>1 DEF Failed
    <3>1. CASE m = n
      BY <2>5, <2>10, <3>1
    <3>2. CASE m # n
      BY <2>5, <2>8, <3>2 DEF ViewerInv, Failed
    <3> QED BY <3>1, <3>2
  <2>13. Newest'
    <3> SUFFICES ASSUME serial > 0, load'[serial].gen = gen
                 PROVE  /\ serial \in urls
                        /\ \A f \in Faces :
                             face'[serial][f] \in {"probes", "drawn"} => ~canvas[f].neutral
      BY <1>1 DEF Newest, Invalidated
    <3>1. /\ serial \in urls
          /\ \A f \in Faces : face[serial][f] \in {"probes", "drawn"} => ~canvas[f].neutral
      BY <2>1, <2>5 DEF ViewerInv, Newest, Invalidated
    <3>2. CASE serial = n
      BY <2>6, <2>8, <3>1, <3>2
    <3>3. CASE serial # n
      BY <2>1, <2>8, <3>1, <3>3
    <3> QED BY <3>2, <3>3
  <2>14. Spoken'
    BY <1>1, <1>3 DEF ViewerInv, Spoken
  <2>15. status \in {"loading", "invalid", "ready"} => serial \in Loads /\ serial > 0
    BY <2>1 DEF ViewerInv, Spoken
  <2>16. ReadyDrawn'
    <3> SUFFICES ASSUME status = "ready"
                 PROVE  /\ serial > 0 /\ load'[serial].gen = gen /\ load'[serial].pbr
                        /\ \A f \in Faces : face'[serial][f] = "drawn" /\ ~canvas[f].neutral
      BY <1>1, <1>3 DEF ReadyDrawn, Invalidated
    <3>1. /\ load[serial].gen = gen /\ load[serial].pbr
          /\ \A f \in Faces : face[serial][f] = "drawn" /\ ~canvas[f].neutral
      BY DEF ViewerInv, SaysTrue, ReadyDrawn, Invalidated
    <3>2. CASE serial = n
      <4>1. \A f \in Faces : FALSE
        BY <2>10, <3>1, <3>2
      <4> QED BY <2>5, <2>15, <3>1, <4>1
    <3>3. CASE serial # n
      BY <2>5, <2>8, <2>15, <3>1, <3>3
    <3> QED BY <3>2, <3>3
  <2>17. InvalidIsOwn'
    <3> SUFFICES ASSUME status = "invalid"
                 PROVE  /\ serial \in urls /\ load'[serial].gen = gen
                        /\ \E f \in Faces : face'[serial][f] = "failed"
                        /\ load'[serial].err = "parse"
      BY <1>1, <1>3 DEF InvalidIsOwn, Invalidated
    <3>1. /\ serial \in urls /\ load[serial].gen = gen
          /\ \E f \in Faces : face[serial][f] = "failed"
          /\ load[serial].err = "parse"
      BY DEF ViewerInv, SaysTrue, InvalidIsOwn, Invalidated
    <3>2. serial # n
      BY <2>10, <3>1
    <3> QED BY <2>5, <2>8, <2>15, <3>1, <3>2
  <2>18. LoadingIsAlive'
    BY <1>1, <1>3, <2>5, <2>15 DEF ViewerInv, SaysTrue, LoadingIsAlive, Invalidated
  <2>19. LinksWork'
    BY <1>1 DEF ViewerInv, SaysTrue, LinksWork
  <2> QED BY <2>9, <2>11, <2>12, <2>13, <2>14, <2>16, <2>17, <2>18, <2>19
          DEF ViewerInv, SaysTrue
<1> QED BY <1>2, <1>3 DEF Import

LEMMA FinishKeeps ==
    ASSUME ViewerInv, NEW n \in Loads, Finish(n)
    PROVE  ViewerInv'
<1>1. /\ TypeOK /\ load[n].at = "paint"
      /\ load[n].err # "none" \/ \A f \in Faces : face[n][f] = "drawn"
      /\ load' = [load EXCEPT ![n].at = "over"]
      /\ status' = IF Stale(n) THEN status ELSE Outcome(n)
      /\ UNCHANGED <<gen, viewerGen, serial, face, canvas, todo, urls, link, late>>
  BY DEF ViewerInv, Finish, Ended, page
<1>2. CASE n # serial
  <2>1. Says(n)
    BY <1>1, <1>2 DEF Says, Stale
  <2> QED BY <1>1, <2>1, LoadEndKeeps
<1>3. CASE n = serial
  <2>1. load[n].err # "stale"
    BY <1>1, <1>3, NumberTypes DEF ViewerInv, Failed
  <2>2. load[n].err \in Errs /\ load[n].pbr \in BOOLEAN
    BY <1>1, NumberTypes, Types
  <2>3. status' = Outcome(n)
    BY <1>1, <1>3 DEF Stale
  <2>4. CASE load[n].gen # gen
    <3>1. status' = "cancelled"
      BY <2>1, <2>3, <2>4 DEF Outcome, Invalidated
    <3>2. Says(n)
      BY <1>3, <3>1 DEF Says, Statuses
    <3> QED BY <1>1, <3>2, LoadEndKeeps
  <2>5. CASE load[n].gen = gen
    <3>1. \/ load[n].err = "parse" /\ Outcome(n) = "invalid"
          \/ load[n].err = "webgl" /\ Outcome(n) = "unavailable"
          \/ load[n].err = "cancelled" /\ Outcome(n) = "cancelled"
          \/ load[n].err = "none" /\ load[n].pbr /\ Outcome(n) = "ready"
          \/ load[n].err = "none" /\ ~load[n].pbr /\ Outcome(n) = "bare"
      BY <2>1, <2>2, <2>5 DEF Outcome, Invalidated, Errs
    <3>2. Says(n)
      BY <1>1, <1>3, <2>3, <2>5, <3>1 DEF Says, Statuses
    <3> QED BY <1>1, <3>2, LoadEndKeeps
  <2> QED BY <2>4, <2>5
<1> QED BY <1>2, <1>3

-----------------------------------------------------------------------------
(***************************************************************************)
(* What the canvases show.                                                 *)
(***************************************************************************)

\* Canvas f is the newest load's: no other load is past its look at the serials,
\* the only loop is the one in the slot, and nothing is drawn over the first
\* render of the newest load.
IsNewests(f) ==
    /\ \A n \in Loads : face[n][f] \in {"pbr", "probes"} => n = serial
    /\ \A n \in Loads : todo[f][n] > 0 => canvas[f].raf = n
    /\ serial > 0 /\ face[serial][f] \in {"probes", "drawn"} =>
         \A n \in Loads \ {serial} : todo[f][n] = 0
    /\ serial > 0 /\ face[serial][f] = "drawn" /\ canvas[f].gl = "live" =>
         canvas[f].shows = serial

\* So it is with every canvas that no overtaken load had still to take or draw.
Painted == \A f \in Faces : late[f] = {} => IsNewests(f)

\* A step that leaves canvas f alone: its loops, and how far the loads are with it.
Leaves(f) == /\ serial' = serial /\ late' = late
             /\ \A n \in Loads : face'[n][f] = face[n][f] /\ todo'[f][n] = todo[f][n]
             /\ canvas'[f] = canvas[f]

LEMMA LeavesKeeps ==
    ASSUME ViewerInv, Painted, NEW f \in Faces, Leaves(f), late'[f] = {}
    PROVE  IsNewests(f)'
<1>1. serial > 0 => serial \in Loads
  BY NumberTypes DEF ViewerInv
<1>2. late[f] = {} /\ IsNewests(f)
  BY DEF Leaves, Painted
<1> QED BY <1>1, <1>2 DEF Leaves, IsNewests

\* The faces of the loads, the loops and the canvases, one by one.
LEMMA Parts ==
    ASSUME ViewerInv, NEW f \in Faces
    PROVE  /\ canvas[f] \in Canvas
           /\ \A n \in Loads : todo[f][n] \in Nat
           /\ serial \in Nat /\ (serial > 0 => serial \in Loads)
           /\ \A n \in Loads : n \in Nat
<1>1. TypeOK
  BY DEF ViewerInv
<1>2. canvas[f] \in Canvas /\ todo[f] \in [Loads -> 0 .. (Frames - 1)]
  BY <1>1, Types
<1>3. \A n \in Loads : todo[f][n] \in Nat
  BY <1>2, Bounds
<1> QED BY <1>1, <1>2, <1>3, NumberTypes

\* A clear cancels the loop in the slot, and there is no other.
LEMMA ClearPaints ==
    ASSUME ViewerInv, Painted, Clear, NEW f \in Faces, late'[f] = {}
    PROVE  IsNewests(f)'
<1>1. late[f] = {} /\ UNCHANGED <<serial, face>>
  BY DEF Clear
<1>2. IsNewests(f)
  BY <1>1 DEF Painted
<1>3. \A n \in Loads : todo'[f][n] = 0
  <2>1. ASSUME NEW n \in Loads
        PROVE  todo'[f][n] = IF n = canvas[f].raf THEN 0 ELSE todo[f][n]
    BY DEF Clear, Cancelled
  <2> QED BY <1>2, <2>1, Parts DEF IsNewests
<1>4. canvas'[f].gl = canvas[f].gl /\ canvas'[f].shows = canvas[f].shows
  <2>1. canvas'[f] = [Disposed(f) EXCEPT !.neutral = TRUE]
    BY DEF Clear
  <2> QED BY <2>1, Parts, Types DEF Disposed
<1> QED BY <1>1, <1>2, <1>3, <1>4, Parts DEF IsNewests

\* The loads that new meshes overtake between look and render are the late ones.
LEMMA MeshesPaint ==
    ASSUME ViewerInv, Painted, Meshes, NEW f \in Faces, late'[f] = {}
    PROVE  IsNewests(f)'
<1>1. /\ serial' = serial + 1 /\ UNCHANGED <<face, canvas, todo>>
      /\ late[f] = {} /\ \A n \in Loads : face[n][f] \notin {"pbr", "probes"}
  <2>1. late'[f] = late[f] \cup {n \in Loads : face[n][f] \in {"pbr", "probes"}}
    BY DEF Meshes
  <2> QED BY <2>1 DEF Meshes
<1>2. IsNewests(f)
  BY <1>1 DEF Painted
<1>3. face[serial + 1][f] = "none"
  <2>1. serial + 1 \in Loads /\ serial + 1 > serial
    BY Parts, Bounds DEF Meshes, Loads
  <2> QED BY <2>1 DEF ViewerInv, Begun
<1> QED BY <1>1, <1>2, <1>3 DEF IsNewests

\* A lost context shows nothing.
LEMMA ContextLostPaints ==
    ASSUME ViewerInv, Painted, NEW g \in Faces, ContextLost(g),
           NEW f \in Faces, late'[f] = {}
    PROVE  IsNewests(f)'
<1>1. /\ late[f] = {} /\ UNCHANGED <<serial, face, todo, late>>
      /\ canvas' = [canvas EXCEPT ![g].gl = "lost", ![g].shows = 0]
  BY DEF ContextLost, page
<1>2. canvas \in [Faces -> Canvas]
  BY Types DEF ViewerInv
<1>3. CASE f = g
  <2>1. canvas'[f].gl = "lost" /\ canvas'[f].raf = canvas[f].raf
    BY <1>1, <1>2, <1>3, Types
  <2>2. IsNewests(f)
    BY <1>1 DEF Painted
  <2> QED BY <1>1, <2>1, <2>2 DEF IsNewests
<1>4. CASE f # g
  <2>1. Leaves(f)
    BY <1>1, <1>2, <1>4 DEF Leaves
  <2> QED BY <2>1, LeavesKeeps
<1> QED BY <1>3, <1>4

\* A load that begins, or does not, has no face under way.
LEMMA ImportPaints ==
    ASSUME ViewerInv, Painted, NEW n \in Loads, Import(n),
           NEW f \in Faces, late'[f] = {}
    PROVE  IsNewests(f)'
<1>1. load[n].at = "import" /\ UNCHANGED <<serial, late, canvas, todo>>
  BY DEF Import, page
<1>2. IsNewests(f)
  BY <1>1 DEF Painted
<1>3. CASE UNCHANGED face
  <2>1. Leaves(f)
    BY <1>1, <1>3 DEF Leaves
  <2> QED BY <2>1, LeavesKeeps
<1>4. CASE face' = [face EXCEPT ![n] = [k \in Faces |-> "parse"]]
  <2>1. \A m \in Loads : face'[m][f] = IF m = n THEN "parse" ELSE face[m][f]
    BY <1>4, Types DEF ViewerInv
  <2> QED BY <1>1, <1>2, <2>1, Parts DEF IsNewests
<1> QED BY <1>3, <1>4 DEF Import

\* A face whose stage changes from one to another, the canvas left alone.
LEMMA StagePaints ==
    ASSUME ViewerInv, Painted, NEW n \in Loads, NEW g \in Faces,
           NEW s \in {"pbr", "failed"}, s = "pbr" => n = serial,
           face' = [face EXCEPT ![n][g] = s],
           UNCHANGED <<serial, late, canvas, todo>>,
           NEW f \in Faces, late'[f] = {}
    PROVE  IsNewests(f)'
<1>1. IsNewests(f)
  BY DEF Painted
<1>2. \A m \in Loads : face'[m][f] = IF m = n /\ f = g THEN s ELSE face[m][f]
  BY Types DEF ViewerInv
<1> QED BY <1>1, <1>2, Parts DEF IsNewests

LEMMA ParsePaints ==
    ASSUME ViewerInv, Painted, NEW n \in Loads, NEW g \in Faces, Parse(n, g),
           NEW f \in Faces, late'[f] = {}
    PROVE  IsNewests(f)'
<1>1. UNCHANGED <<serial, late, canvas, todo>>
  BY DEF Parse, page
<1>2. \/ ~Stale(n) /\ face' = [face EXCEPT ![n][g] = "pbr"]
      \/ face' = [face EXCEPT ![n][g] = "failed"]
  BY DEF Parse, Throw
<1> QED BY <1>1, <1>2, StagePaints DEF Stale

\* The canvas is taken by the newest load, the only one that can: the loop in the
\* slot is cancelled, and there is no other.
LEMMA TexturePaints ==
    ASSUME ViewerInv, Painted, NEW n \in Loads, NEW g \in Faces, Texture(n, g),
           NEW f \in Faces, late'[f] = {}
    PROVE  IsNewests(f)'
<1>1. /\ face[n][g] = "pbr" /\ UNCHANGED <<serial, late>>
      /\ todo' = [todo EXCEPT ![g] = Cancelled(g)]
      /\ \A k \in Faces \ {g} : canvas'[k] = canvas[k]
      /\ \E s \in {"probes", "failed"} : face' = [face EXCEPT ![n][g] = s]
  BY Types DEF Texture, page, ViewerInv
<1>2. PICK s \in {"probes", "failed"} : face' = [face EXCEPT ![n][g] = s]
  BY <1>1
<1>3. \A m \in Loads, k \in Faces :
        face'[m][k] = IF m = n /\ k = g THEN s ELSE face[m][k]
  BY <1>2, Types DEF ViewerInv
<1>4. CASE f = g
  <2>1. IsNewests(f)
    BY <1>1 DEF Painted
  <2>2. n = serial
    BY <1>1, <1>4, <2>1 DEF IsNewests
  <2>3. \A m \in Loads : todo'[f][m] = 0
    <3>1. ASSUME NEW m \in Loads
          PROVE  todo'[f][m] = IF m = canvas[f].raf THEN 0 ELSE todo[f][m]
      BY <1>1, <1>4, Types DEF Cancelled, ViewerInv
    <3> QED BY <2>1, <3>1, Parts DEF IsNewests
  <2>4. /\ \A m \in Loads : face'[m][f] \in {"pbr", "probes"} => m = serial
        /\ face'[serial][f] # "drawn"
    BY <1>3, <1>4, <2>1, <2>2 DEF IsNewests
  <2> QED BY <1>1, <2>3, <2>4 DEF IsNewests
<1>5. CASE f # g
  <2>1. Leaves(f)
    BY <1>1, <1>3, <1>5, Types DEF Leaves, ViewerInv
  <2> QED BY <2>1, LeavesKeeps
<1> QED BY <1>4, <1>5

\* A render on canvas g leaves the others, counts its own loop, takes the slot
\* while there is more to draw, and shows its load where a context lives.
LEMMA TickParts ==
    ASSUME ViewerInv, NEW n \in Loads, NEW g \in Faces, NEW more \in 0 .. (Frames - 1),
           Tick(n, g, more)
    PROVE  /\ \A k \in Faces \ {g} : canvas'[k] = canvas[k] /\ todo'[k] = todo[k]
           /\ \A m \in Loads : todo'[g][m] = IF m = n THEN more ELSE todo[g][m]
           /\ canvas'[g].raf = IF more > 0 THEN n ELSE canvas[g].raf
           /\ canvas'[g].gl = canvas[g].gl
           /\ canvas[g].gl = "live" => canvas'[g].shows = n
<1>1. /\ canvas \in [Faces -> Canvas]
      /\ todo \in [Faces -> [Loads -> 0 .. (Frames - 1)]]
  BY Types DEF ViewerInv
<1>2. /\ \A k \in Faces \ {g} : todo'[k] = todo[k]
      /\ \A m \in Loads : todo'[g][m] = IF m = n THEN more ELSE todo[g][m]
  BY <1>1 DEF Tick
<1> DEFINE r == IF more > 0 THEN n ELSE canvas[g].raf
           w == IF canvas[g].gl = "lost" THEN canvas[g].shows ELSE n
           b == [canvas[g] EXCEPT !.raf = r, !.shows = w]
<1>3. b.raf = r /\ b.gl = canvas[g].gl /\ b.shows = w
  BY <1>1, Types
<1>4. canvas' = [canvas EXCEPT ![g] = b]
  BY DEF Tick
<1> HIDE DEF b
<1>5. canvas'[g] = b /\ \A k \in Faces \ {g} : canvas'[k] = canvas[k]
  BY <1>1, <1>4
<1> QED BY <1>2, <1>3, <1>5

\* The first render is of the newest load, and its loop is the only one.
LEMMA ProbesPaint ==
    ASSUME ViewerInv, Painted, NEW n \in Loads, NEW g \in Faces, Probes(n, g),
           NEW f \in Faces, late'[f] = {}
    PROVE  IsNewests(f)'
<1>1. face[n][g] = "probes" /\ UNCHANGED <<serial, late>>
  BY DEF Probes, page
<1>2. CASE face' = [face EXCEPT ![n][g] = "drawn"] /\ Tick(n, g, Frames - 1)
  <2>1. \A m \in Loads, k \in Faces :
          face'[m][k] = IF m = n /\ k = g THEN "drawn" ELSE face[m][k]
    BY <1>2, Types DEF ViewerInv
  <2> DEFINE more == Frames - 1
  <2>2. more \in 0 .. (Frames - 1)
    BY Bounds
  <2>3. Tick(n, g, more)
    BY <1>2
  <2> HIDE DEF more
  <2>4. /\ \A k \in Faces \ {g} : canvas'[k] = canvas[k] /\ todo'[k] = todo[k]
        /\ \A m \in Loads : todo'[g][m] = IF m = n THEN more ELSE todo[g][m]
        /\ canvas'[g].raf = IF more > 0 THEN n ELSE canvas[g].raf
        /\ canvas'[g].gl = canvas[g].gl
        /\ canvas[g].gl = "live" => canvas'[g].shows = n
    BY <2>2, <2>3, TickParts
  <2>5. CASE f = g
    <3>1. IsNewests(f)
      BY <1>1 DEF Painted
    <3>2. n = serial /\ n > 0
      BY <1>1, <2>5, <3>1, Bounds, Parts DEF IsNewests
    <3>3. \A m \in Loads \ {n} : todo'[f][m] = 0
      BY <1>1, <2>4, <2>5, <3>1, <3>2 DEF IsNewests
    <3>4. \A m \in Loads : face'[m][f] \in {"pbr", "probes"} => m = serial
      BY <2>1, <2>5, <3>1 DEF IsNewests
    <3>5. \A m \in Loads : todo'[f][m] > 0 => canvas'[f].raf = m
      <4> SUFFICES ASSUME NEW m \in Loads, todo'[f][m] > 0
                   PROVE  canvas'[f].raf = m
        OBVIOUS
      <4>1. m = n
        BY <3>3
      <4> QED BY <2>4, <2>5, <4>1
    <3> QED BY <1>1, <2>4, <2>5, <3>2, <3>3, <3>4, <3>5 DEF IsNewests
  <2>6. CASE f # g
    <3>1. Leaves(f)
      BY <1>1, <2>1, <2>4, <2>6 DEF Leaves
    <3> QED BY <3>1, LeavesKeeps
  <2> QED BY <2>5, <2>6
<1>3. CASE face' = [face EXCEPT ![n][g] = "failed"] /\ UNCHANGED <<canvas, todo>>
  BY <1>1, <1>3, StagePaints
<1> QED BY <1>2, <1>3 DEF Probes, Throw

\* A frame is drawn by the loop in the slot, the newest load's once it is drawn.
LEMMA FramePaints ==
    ASSUME ViewerInv, Painted, NEW n \in Loads, NEW g \in Faces, Frame(n, g),
           NEW f \in Faces, late'[f] = {}
    PROVE  IsNewests(f)'
<1>1. todo[g][n] > 0 /\ UNCHANGED <<serial, late, face>>
  BY DEF Frame, page
<1> DEFINE more == todo[g][n] - 1
<1>2. more \in 0 .. (Frames - 1)
  <2>1. todo[g][n] \in 0 .. (Frames - 1)
    BY Types DEF ViewerInv
  <2> QED BY <1>1, <2>1, Bounds
<1>3. Tick(n, g, more)
  BY DEF Frame
<1> HIDE DEF more
<1>4. /\ \A k \in Faces \ {g} : canvas'[k] = canvas[k] /\ todo'[k] = todo[k]
      /\ \A m \in Loads : todo'[g][m] = IF m = n THEN more ELSE todo[g][m]
      /\ canvas'[g].raf = IF more > 0 THEN n ELSE canvas[g].raf
      /\ canvas'[g].gl = canvas[g].gl
      /\ canvas[g].gl = "live" => canvas'[g].shows = n
  BY <1>2, <1>3, TickParts
<1>5. CASE f = g
  <2>1. IsNewests(f)
    BY <1>1 DEF Painted
  <2>2. canvas[f].raf = n
    BY <1>1, <1>5, <2>1 DEF IsNewests
  <2>3. \A m \in Loads : todo'[f][m] > 0 => canvas'[f].raf = m
    <3> SUFFICES ASSUME NEW m \in Loads, todo'[f][m] > 0
                 PROVE  canvas'[f].raf = m
      OBVIOUS
    <3>1. m = n
      BY <1>4, <1>5, <2>1, <2>2 DEF IsNewests
    <3> QED BY <1>4, <1>5, <2>2, <3>1
  <2>4. ASSUME serial > 0, face[serial][f] \in {"probes", "drawn"}
        PROVE  n = serial /\ \A m \in Loads \ {serial} : todo'[f][m] = 0
    <3>1. \A m \in Loads \ {serial} : todo[f][m] = 0
      BY <2>1, <2>4 DEF IsNewests
    <3>2. n = serial
      BY <1>1, <1>5, <3>1
    <3> QED BY <1>4, <1>5, <3>1, <3>2
  <2> QED BY <1>1, <1>4, <1>5, <2>1, <2>3, <2>4 DEF IsNewests
<1>6. CASE f # g
  <2>1. Leaves(f)
    BY <1>1, <1>4, <1>6 DEF Leaves
  <2> QED BY <2>1, LeavesKeeps
<1> QED BY <1>5, <1>6

\* The end of a load changes neither face nor canvas.
LEMMA FinishPaints ==
    ASSUME ViewerInv, Painted, NEW n \in Loads, Finish(n), NEW f \in Faces, late'[f] = {}
    PROVE  IsNewests(f)'
<1>1. Leaves(f)
  BY DEF Finish, page, Leaves
<1> QED BY <1>1, LeavesKeeps

-----------------------------------------------------------------------------
(***************************************************************************)
(* The invariants hold.                                                    *)
(***************************************************************************)

LEMMA ViewerInit == Init => ViewerInv
<1> SUFFICES ASSUME Init PROVE ViewerInv
  OBVIOUS
<1>1. TypeOK
  BY Bounds DEF Init, TypeOK, Load, Canvas, Gens
<1>2. Begun /\ Failed /\ Newest /\ Spoken
  BY Bounds DEF Init, Begun, Failed, Newest, Spoken
<1>3. SaysTrue
  BY DEF Init, SaysTrue, ReadyDrawn, InvalidIsOwn, LoadingIsAlive, LinksWork
<1> QED BY <1>1, <1>2, <1>3 DEF ViewerInv

LEMMA ViewerNext == ViewerInv /\ [Next]_vars => ViewerInv'
<1> SUFFICES ASSUME ViewerInv, [Next]_vars PROVE ViewerInv'
  OBVIOUS
<1>1. CASE UNCHANGED vars
  BY <1>1 DEF vars, ViewerInv, TypeOK, Begun, Failed, Newest, Spoken, Invalidated,
              SaysTrue, ReadyDrawn, InvalidIsOwn, LoadingIsAlive, LinksWork
<1>2. CASE Clear
  BY <1>2, ClearKeeps
<1>3. CASE Meshes
  BY <1>3, MeshesKeeps
<1>4. ASSUME NEW f \in Faces, ContextLost(f)
      PROVE  ViewerInv'
  BY <1>4, ContextLostKeeps
<1>5. ASSUME NEW n \in Loads, Step(n)
      PROVE  ViewerInv'
  BY <1>5, ImportKeeps, ParseKeeps, TextureKeeps, ProbesKeeps, FinishKeeps DEF Step
<1>6. ASSUME NEW n \in Loads, NEW f \in Faces, Frame(n, f)
      PROVE  ViewerInv'
  BY <1>6, FrameKeeps
<1> QED BY <1>1, <1>2, <1>3, <1>4, <1>5, <1>6 DEF Next

LEMMA PaintedInit == Init => Painted
<1> SUFFICES ASSUME Init, NEW f \in Faces PROVE IsNewests(f)
  BY DEF Painted
<1>1. serial = 0 /\ (\A n \in Loads : face[n][f] = "none" /\ todo[f][n] = 0)
  BY DEF Init
<1> QED BY <1>1 DEF IsNewests

LEMMA PaintedNext == ViewerInv /\ Painted /\ [Next]_vars => Painted'
<1> SUFFICES ASSUME ViewerInv, Painted, [Next]_vars, NEW f \in Faces, late'[f] = {}
             PROVE  IsNewests(f)'
  BY DEF Painted
<1>1. CASE UNCHANGED vars
  <2>1. Leaves(f)
    BY <1>1 DEF vars, Leaves
  <2> QED BY <2>1, LeavesKeeps
<1>2. CASE Clear
  BY <1>2, ClearPaints
<1>3. CASE Meshes
  BY <1>3, MeshesPaint
<1>4. ASSUME NEW g \in Faces, ContextLost(g)
      PROVE  IsNewests(f)'
  BY <1>4, ContextLostPaints
<1>5. ASSUME NEW n \in Loads, Step(n)
      PROVE  IsNewests(f)'
  BY <1>5, ImportPaints, ParsePaints, TexturePaints, ProbesPaint, FinishPaints DEF Step
<1>6. ASSUME NEW n \in Loads, NEW g \in Faces, Frame(n, g)
      PROVE  IsNewests(f)'
  BY <1>6, FramePaints
<1> QED BY <1>1, <1>2, <1>3, <1>4, <1>5, <1>6 DEF Next

LEMMA ViewerInvHolds == Spec => [](ViewerInv /\ Painted)
  BY ViewerInit, ViewerNext, PaintedInit, PaintedNext, PTL DEF Spec

\* The loads, the canvases and the loops keep to their types: no drawing loop
\* draws more frames than it was given, whoever's request is in the slot.
THEOREM TypeCorrect == Spec => []TypeOK
<1>1. ViewerInv => TypeOK
  BY DEF ViewerInv
<1> QED BY <1>1, ViewerInvHolds, PTL

\* The page speaks of the newest load only, in whatever order clears, meshes and
\* the awaits of the loads come: ready says that both its faces were drawn with
\* their textures and uncovered, and that a canvas with a living context shows it,
\* unless a load was overtaken there between its look at the serials and its first
\* render; invalid and loading are its own; and the links give its meshes.
THEOREM StatusTellsTheTruth == Spec => []StatusIsTrue
<1>1. ViewerInv /\ Painted => StatusIsTrue
  <2> SUFFICES ASSUME ViewerInv, Painted PROVE StatusIsTrue
    OBVIOUS
  <2>1. ReadyIsWhole
    <3> SUFFICES ASSUME status = "ready"
                 PROVE  /\ serial > 0 /\ ~Invalidated(serial) /\ load[serial].pbr
                        /\ \A f \in Faces :
                             /\ face[serial][f] = "drawn" /\ ~canvas[f].neutral
                             /\ canvas[f].gl = "live" /\ late[f] = {} =>
                                  canvas[f].shows = serial
      BY DEF ReadyIsWhole
    <3>1. /\ serial > 0 /\ ~Invalidated(serial) /\ load[serial].pbr
          /\ \A f \in Faces : face[serial][f] = "drawn" /\ ~canvas[f].neutral
      BY DEF ViewerInv, SaysTrue, ReadyDrawn
    <3> QED BY <3>1 DEF Painted, IsNewests
  <2> QED BY <2>1 DEF ViewerInv, SaysTrue, StatusIsTrue
<1> QED BY <1>1, ViewerInvHolds, PTL
=============================================================================
