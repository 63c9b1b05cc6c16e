----------------------------- MODULE TextureBake -----------------------------
(***************************************************************************)
(* The texture stage of the backend: the work one process does between a   *)
(* decoded texture request and the line it logs about it.  A process has   *)
(* several threads (the sidecar runs every request in a worker thread,     *)
(* Modal reuses the threads of a container from one job to the next) that  *)
(* share the raster cache and the parsing network.  Every thread has its   *)
(* own table of branch flags (ThreadLocalStats), which nothing clears      *)
(* between two jobs.                                                       *)
(*                                                                         *)
(* Two seams are modelled: the forensic bake (bake_flame), which degrades  *)
(* step by step, and the HQ bake (bake_hq), which must fail instead.       *)
(* Pixels are abstracted: what remains of an image is which branch         *)
(* produced it and for which raster.                                       *)
(***************************************************************************)
EXTENDS Weights

CONSTANT Shapes   \* sets of triangles that face the camera, one per fitted face

Flags == {"parsing", "texgan", "dpr", "pose_tex", "persp"}
Keys  == {"texture", "hq"} \X Shapes
NoKey == <<"none">>

Steps == {"impl", "bake", "real", "unwrap", "hq", "raster", "rasterising",
          "mask", "light", "lit", "fill", "compose"}

VARIABLES raster,  \* the job whose raster is cached
          net,     \* whether the parsing network is in memory
          on,      \* flags at 1 in the table of each thread
          pc, job, \* where each thread is, and the job it works on
          got,     \* the job whose raster this one samples with
          took,    \* branches the job itself took
          source   \* what produced the result, "none" when the job failed

cacheVars == <<raster, net>>
localVars == <<on, pc, job, got, took, source>>
bakeVars == <<cacheVars, localVars>>
sharedVars == <<weightsVars, cacheVars>>
textureVars == <<weightsVars, bakeVars>>

TextureTypeOK ==
    /\ WeightsTypeOK
    /\ raster \in Keys \cup {NoKey}
    /\ net \in BOOLEAN
    /\ on \in [Threads -> SUBSET Flags]
    /\ pc \in [Threads -> Steps \cup {"idle", "done"}]
    /\ job \in [Threads -> Keys \cup {NoKey}]
    /\ got \in [Threads -> Keys \cup {NoKey}]
    /\ took \in [Threads -> SUBSET Flags]
    /\ source \in [Threads -> {"none", "unwrap", "completion", "double"}]

-----------------------------------------------------------------------------
\* Helpers.

Kind(t) == job[t][1]

\* ThreadLocalStats._store: the table a thread reads and writes is its own.
Store(t) == t

\* _texture_branch_str: the flags a log line written by t shows.
TextureBranchStr(t) == on[Store(t)]

Goto(t, step) == pc' = [pc EXCEPT ![t] = step]

\* A branch flag is written: into the table of t and, as what really
\* happened, into the history of the job.
Write(t, flag, one) ==
    /\ on' = [on EXCEPT ![Store(t)] = IF one THEN @ \cup {flag} ELSE @ \ {flag}]
    /\ took' = [took EXCEPT ![t] = IF one THEN @ \cup {flag} ELSE @]

\* What a thread knows of a job is gone with it.
NoWork(t) ==
    /\ job' = [job EXCEPT ![t] = NoKey]
    /\ got' = [got EXCEPT ![t] = NoKey]
    /\ took' = [took EXCEPT ![t] = {}]
    /\ source' = [source EXCEPT ![t] = "none"]

\* The job ends with Err: no flag is cleared.
Fail(t) == /\ Goto(t, "done")
           /\ UNCHANGED <<sharedVars, on, job, got, took, source>>

\* The job ends with Ok and a texture from the given source.
Succeed(t, from) == /\ Goto(t, "done")
                    /\ source' = [source EXCEPT ![t] = from]
                    /\ UNCHANGED <<sharedVars, on, job, got, took>>

Proceed(t, step) == /\ Goto(t, step)
                    /\ UNCHANGED <<sharedVars, on, job, got, took, source>>

\* Weight gates: each looks at the volume again.
WeightsPresent == "bridge" \in disk
FindUnwrapMat  == "mat" \in disk
ParsingPresent == "parsing" \in disk
DprAvailable   == "dpr" \in disk
TexganPresent  == "texgan" \in disk

-----------------------------------------------------------------------------
TextureInit ==
    /\ raster = NoKey
    /\ net = FALSE
    /\ on = [t \in Threads |-> {}]
    /\ pc = [t \in Threads |-> "idle"]
    /\ job = [t \in Threads |-> NoKey]
    /\ got = [t \in Threads |-> NoKey]
    /\ took = [t \in Threads |-> {}]
    /\ source = [t \in Threads |-> "none"]

\* A decoded request reaches a free thread.
Receive(t, k) ==
    /\ pc[t] = "idle"
    /\ Take(k[1])
    /\ job' = [job EXCEPT ![t] = k]
    /\ Goto(t, "impl")
    /\ UNCHANGED <<cacheVars, on, got, took, source>>

\* _impl_texture and _impl_texture_hq: the double is refused before the seam.
ImplTexture(t) ==
    /\ pc[t] = "impl" /\ Kind(t) = "texture"
    /\ IF UseReal /\ ~WeightsPresent THEN Fail(t) ELSE Proceed(t, "bake")

ImplTextureHq(t) ==
    /\ pc[t] = "impl" /\ Kind(t) = "hq"
    /\ IF UseReal /\ ~WeightsPresent THEN Fail(t) ELSE Proceed(t, "hq")

\* Mutant: without weights the double is served whatever the environment.
BakeFlame_Lenient(t) ==
    /\ pc[t] = "bake"
    /\ \/ WeightsPresent /\ Proceed(t, "real")
       \/ ~WeightsPresent /\ Succeed(t, "double")

\* bake_flame: real with weights, loud without them when the environment
\* demands it, the sha256 double otherwise.
BakeFlame(t) ==
    /\ pc[t] = "bake"
    /\ \/ WeightsPresent /\ Proceed(t, "real")
       \/ ~WeightsPresent /\ RealMl /\ Fail(t)
       \/ ~WeightsPresent /\ ~RealMl /\ Succeed(t, "double")

\* _real_bake: the unwrap with a mat, else a completion derived from the
\* photo (which fails on a photo, a face or a bridge it cannot use).
RealBake(t) ==
    /\ pc[t] = "real"
    /\ \/ ~WeightsPresent /\ Fail(t)
       \/ WeightsPresent /\ FindUnwrapMat /\ Proceed(t, "unwrap")
       \/ WeightsPresent /\ ~FindUnwrapMat /\ RealMl /\ Fail(t)
       \/ /\ WeightsPresent /\ ~FindUnwrapMat /\ ~RealMl
          /\ Fail(t) \/ Succeed(t, "completion")

\* _texture_pose, _project_pose: the affine pose re-derived from the
\* landmarks; when it degenerates the bounding box of the face decides.
TexturePose(t) == \E fitted \in BOOLEAN : Write(t, "pose_tex", fitted)

\* run_unwrap_texture up to the projection: gates, photo, landmarks,
\* template, mesh and bounding box, any of which may be an Err, and the pose.
UnwrapPose(t) ==
    /\ pc[t] = "unwrap"
    /\ \/ Fail(t)
       \/ /\ WeightsPresent /\ FindUnwrapMat
          /\ TexturePose(t)
          /\ Goto(t, "raster")
          /\ UNCHANGED <<sharedVars, job, got, source>>

\* _perspective_vert_px: the pinhole when it beats the affine pose.
\* (Without a fitted affine pose it is an Err, and so is an affine
\* projection that is not finite: UnwrapHq.)
PerspectiveVertPx(t, pinhole) ==
    /\ on' = [on EXCEPT ![Store(t)] = {"pose_tex"} \cup
                 (IF pinhole THEN @ \cup {"persp"} ELSE @ \ {"persp"})]
    /\ took' = [took EXCEPT ![t] = @ \cup {"pose_tex"} \cup
                 (IF pinhole THEN {"persp"} ELSE {})]

\* bake_hq up to the projection: the same inputs, and the parsing and light
\* weights are demanded before any work.
UnwrapHq(t) ==
    /\ pc[t] = "hq"
    /\ \/ Fail(t)
       \/ /\ WeightsPresent /\ FindUnwrapMat /\ ParsingPresent /\ DprAvailable
          /\ \/ /\ \E pinhole \in BOOLEAN : PerspectiveVertPx(t, pinhole)
                /\ Goto(t, "raster")
             \/ Write(t, "persp", FALSE) /\ Goto(t, "done")
          /\ UNCHANGED <<sharedVars, job, got, source>>

\* Mutant: the key forgets which triangles face the camera.
RasterKey_SizeOnly(k) == k[1]

\* _rasterize_skin_uv: the key says size (one per kind) and facing triangles.
RasterKey(k) == k

RasterHit(t) ==
    /\ pc[t] = "raster" /\ raster # NoKey
    /\ RasterKey(raster) = RasterKey(job[t])
    /\ got' = [got EXCEPT ![t] = raster]
    /\ Goto(t, "mask")
    /\ UNCHANGED <<sharedVars, on, job, took, source>>

RasterMiss(t) ==
    /\ pc[t] = "raster"
    /\ raster # NoKey => RasterKey(raster) # RasterKey(job[t])
    /\ Proceed(t, "rasterising")

\* The loop over the triangles ends: the thread keeps what it computed and
\* leaves it as the only entry of the cache.
RasterStore(t) ==
    /\ pc[t] = "rasterising"
    /\ raster' = job[t]
    /\ got' = [got EXCEPT ![t] = job[t]]
    /\ Goto(t, "mask")
    /\ UNCHANGED <<weightsVars, net, on, job, took, source>>

\* face_skin_mask needs the network, which _net loads once from the volume.
FaceSkinMask == net \/ ParsingPresent

\* The skin mask of the photo: optional in the forensic bake, an Err in HQ.
MaskTexture(t) ==
    /\ pc[t] = "mask" /\ Kind(t) = "texture"
    /\ \E masked \in (IF FaceSkinMask THEN BOOLEAN ELSE {FALSE}) :
         /\ Write(t, "parsing", masked)
         /\ net' = (net \/ masked)
    /\ Goto(t, "light")
    /\ UNCHANGED <<weightsVars, raster, job, got, source>>

MaskHq(t) ==
    /\ pc[t] = "mask" /\ Kind(t) = "hq"
    /\ \/ Fail(t)
       \/ /\ FaceSkinMask
          /\ Write(t, "parsing", TRUE)
          /\ net' = TRUE
          /\ Goto(t, "light")
          /\ UNCHANGED <<weightsVars, raster, job, got, source>>

\* load_light_net and estimate_sh: each may fail.
EstimateSh == IF DprAvailable THEN BOOLEAN ELSE {FALSE}

\* Mutant: gray-world does not say so.
DprNormalize_Mute(t) ==
    /\ pc[t] = "light"
    /\ \/ TRUE \in EstimateSh /\ Write(t, "dpr", TRUE)
       \/ UNCHANGED <<on, took>>
    /\ Goto(t, IF Kind(t) = "hq" THEN "lit" ELSE "fill")
    /\ UNCHANGED <<sharedVars, job, got, source>>

\* _dpr_normalize: spherical-harmonic light, or gray-world when the weights
\* are gone or the estimate is unusable.  It says which only in the flag.
DprNormalize(t) ==
    /\ pc[t] = "light"
    /\ \E lit \in EstimateSh : Write(t, "dpr", lit)
    /\ Goto(t, IF Kind(t) = "hq" THEN "lit" ELSE "fill")
    /\ UNCHANGED <<sharedVars, job, got, source>>

\* bake_hq reads the flag back: gray-world is an Err.
DprRequired(t) ==
    /\ pc[t] = "lit"
    /\ IF "dpr" \in TextureBranchStr(t) THEN Proceed(t, "fill") ELSE Fail(t)

\* load_decoder: strict, cached only once it has loaded.
LoadDecoder == IF TexganPresent THEN BOOLEAN ELSE {FALSE}

\* neural_completion (512) and neural_completion_1024: None when the decoder
\* or the fit of its latent fails.
NeuralCompletion == LoadDecoder
NeuralCompletion1024 == LoadDecoder

\* Completion of the texels the photo does not show.  Forensic: mean skin
\* plus a detail whose seed needs the bridge and a face that is not flat.
FillTexture(t) ==
    /\ pc[t] = "fill" /\ Kind(t) = "texture"
    /\ \E neural \in NeuralCompletion :
         /\ Write(t, "texgan", neural)
         /\ \/ (neural \/ WeightsPresent) /\ Goto(t, "compose")
            \/ ~neural /\ Goto(t, "done")
    /\ UNCHANGED <<sharedVars, job, got, source>>

FillHq(t) ==
    /\ pc[t] = "fill" /\ Kind(t) = "hq"
    /\ \E neural \in NeuralCompletion1024 :
         \/ ~neural /\ Fail(t)
         \/ /\ neural
            /\ Write(t, "texgan", TRUE)
            /\ Goto(t, "compose")
            /\ UNCHANGED <<sharedVars, job, got, source>>

\* Blend, scrub and parse: the texture leaves the seam.
Compose(t) ==
    /\ pc[t] = "compose"
    /\ Succeed(t, "unwrap")

\* "except Exception" around both unwraps: any step may end in an Err.
Raised(t) ==
    /\ pc[t] \in {"raster", "rasterising", "mask", "light", "lit", "fill", "compose"}
    /\ Fail(t)

\* texture_infer: the line with the flags of this thread is written and the
\* worker answers or raises; the thread is free again, its table stays.
TextureInfer(t) ==
    /\ pc[t] = "done"
    /\ Goto(t, "idle")
    /\ NoWork(t)
    /\ UNCHANGED <<sharedVars, on>>

Bake(t) ==
    \/ ImplTexture(t) \/ ImplTextureHq(t)
    \/ BakeFlame(t) \/ RealBake(t)
    \/ UnwrapPose(t) \/ UnwrapHq(t)
    \/ RasterHit(t) \/ RasterMiss(t) \/ RasterStore(t)
    \/ MaskTexture(t) \/ MaskHq(t)
    \/ DprNormalize(t) \/ DprRequired(t)
    \/ FillTexture(t) \/ FillHq(t)
    \/ Compose(t) \/ Raised(t)
    \/ TextureInfer(t)

TextureNext ==
    \/ \E t \in Threads : Bake(t) \/ (\E k \in Keys : Receive(t, k))
    \/ (\E f \in Files : Volume(f)) /\ UNCHANGED bakeVars

TextureSpec == WeightsInit /\ TextureInit /\ [][TextureNext]_textureVars

-----------------------------------------------------------------------------
\* Properties.

Finished(t, from) == pc[t] = "done" /\ source[t] = from

(* An HQ texture is never a degraded one: the job itself took the skin     *)
(* mask, the spherical-harmonic light and the synthesis, although bake_hq  *)
(* learns of the light only from a flag in a table it shares with the jobs *)
(* that ran in the same thread before it.                                  *)
HqIsStrict ==
    \A t \in Threads : Finished(t, "unwrap") /\ Kind(t) = "hq" =>
        {"parsing", "dpr", "texgan"} \subseteq took[t]

(* With VULTUS_REAL_ML=1 a texture is unwrapped from the photo or the job  *)
(* fails: neither the sha256 double nor the photo-derived completion is    *)
(* served, whatever files come and go between the gates.                   *)
TextureIsReal ==
    \A t \in Threads : pc[t] = "done" /\ RealMl => source[t] \in {"none", "unwrap"}

\* The line of a job that ended well shows the branches of that job.
LineIsOwn(t) == pc[t] = "done" /\ source[t] # "none" => TextureBranchStr(t) = took[t]

(* In a process that serves one kind of job, the line of every unwrap, and *)
(* of every texture at all with VULTUS_REAL_ML=1, shows the branches of    *)
(* that job and none of an earlier one: flags are never cleared between    *)
(* two jobs, so every step has to write its own.  A double and a           *)
(* completion write none (EveryOkLineIsOwn).                               *)
OkLineIsOwn ==
    \A t \in Threads : Cardinality(serves) = 1 /\ (RealMl \/ source[t] = "unwrap")
                        => LineIsOwn(t)

(* _texture_branch_str: "Rama efectiva de textura para el log", of every   *)
(* texture that ended well.  (Expected to fail: a double or a completion   *)
(* that comes after an unwrap shows the branches of the unwrap.)           *)
EveryOkLineIsOwn == \A t \in Threads : Cardinality(serves) = 1 => LineIsOwn(t)

(* A job samples the photo with the raster of its own face and size, never *)
(* with the one another thread or an earlier job left in the cache.        *)
RasterIsOwn ==
    \A t \in Threads : got[t] \in {NoKey, job[t]}

=============================================================================
