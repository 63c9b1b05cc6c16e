-------------------------------- MODULE Atlas --------------------------------
(***************************************************************************)
(* The atlas of a face: what each of its texels comes from.  The forensic  *)
(* texture (run_unwrap_texture, its double included), the HQ texture       *)
(* (bake_hq) and the V3 figure (assemble_v3_atlas) sample the photo, trust *)
(* a texel by angle, depth, skin and mouth, fill the rest and join both.   *)
(*                                                                         *)
(* A colour is abstracted to the set of its sources: the pixels of the     *)
(* photo that weigh in it, and a mark for what completes the atlas.        *)
(* Positions in the photo are in half pixels, confidences in quarters.     *)
(***************************************************************************)
EXTENDS Integers, FiniteSets

CONSTANTS Size,       \* side of the atlas
          Width, Height,  \* of the photo
          FeatherPx,  \* feather_px()
          MouthPx,    \* _HQ_MOUTH_DILATE_PX
          Scenes      \* photos, heads and lights considered

Texels == (1 .. Size) \X (1 .. Size)
Pixels == (0 .. Width - 1) \X (0 .. Height - 1)
AtlasKinds == {"double", "texture", "hq", "figure"}
Synth    == <<-1, 1>>   \* marks, no pixels: of the network, in the skin's tone
SkinMean == <<-1, 2>>   \* mean of the trusted skin, and a detail from a hash
FaceCrop == <<-1, 3>>   \* the crop of the face, resized, and such a detail
Hashed   == <<-1, 4>>   \* bytes of a hash
Full == 4             \* confidence 1
ConfValidMin == 2     \* CONF_VALID_MIN_DEFAULT

ASSUME AtlasAssumption ==
    /\ Size \in Nat /\ Size % 2 = 0 /\ Size > FeatherPx + 2
    /\ Width \in Nat \ {0, 1} /\ Height \in Nat \ {0, 1}
    /\ FeatherPx \in Nat \ {0} /\ MouthPx \in Nat
    /\ \A s \in Scenes : s.kind \in AtlasKinds /\ s.px \in [Texels -> Int \X Int]

VARIABLES scene,    \* kind; covered, tex_px, nz, depth; skin, lips; synth
          confOf,   \* confidence of each texel
          atlas,    \* sources of each texel, <<>> while unknown
          sentinel, \* texels that are exactly SKIN_SENTINEL
          atlasStep \* what comes next

atlasVars == <<scene, confOf, atlas, sentinel, atlasStep>>

At(t) == scene.px[t]  \* tex_px

\* Neighbours of a texel that np.roll brings to it: the grid is a torus.
Rolled(t) ==
    {<<((t[1] - 1 + Size + d) % Size) + 1, t[2]>> : d \in {-1, 1}} \cup
    {<<t[1], ((t[2] - 1 + Size + d) % Size) + 1>> : d \in {-1, 1}}

Clamp(n, lo, hi) == IF n < lo THEN lo ELSE IF n > hi THEN hi ELSE n
Abs(n) == IF n < 0 THEN -n ELSE n

\* Steps between two rows (columns) of a torus of n of them.
Apart(a, b, n) == IF 2 * Abs(a - b) <= n THEN Abs(a - b) ELSE n - Abs(a - b)

-----------------------------------------------------------------------------
\* Sampling.

\* np.rint of a number of halves (to even), clipped.
Rint(h, n) ==
    LET k == h \div 2
    IN  Clamp(IF h % 2 = 0 \/ k % 2 = 0 THEN k ELSE k + 1, 0, n - 1)

\* Columns (rows) of the photo that weigh in a bilinear sample.
Reads(h, n) == IF h <= 0 THEN {0}
               ELSE IF h >= 2 * (n - 1) THEN {n - 2, n - 1}
               ELSE {h \div 2, (h + 1) \div 2}

BilinearSample(t) == Reads(At(t)[1], Width) \X Reads(At(t)[2], Height)
Nearest(t) == <<Rint(At(t)[1], Width), Rint(At(t)[2], Height)>>

InPhoto(t) == /\ t \in scene.covered
              /\ At(t)[1] \in 0 .. 2 * Width - 1
              /\ At(t)[2] \in 0 .. 2 * Height - 1

-----------------------------------------------------------------------------
\* Confidence.

\* mouth_interior_mask: an ellipse over the corners and the lips, in 1/20 of
\* a pixel; empty when degenerate.
MouthInteriorMask ==
    LET lips == scene.lips   \* left and right x, up and down y, in pixels
        ax == 11 * Abs(lips.r - lips.l)
        ay == 11 * Abs(lips.d - lips.u) + 20
        dx(p) == 20 * p[1] - 10 * (lips.l + lips.r)
        dy(p) == 20 * p[2] - 10 * (lips.u + lips.d)
    IN  IF ax < 20 \/ ay < 20 THEN {}
        ELSE {p \in Pixels : dx(p) * dx(p) * ay * ay + dy(p) * dy(p) * ax * ax
                               <= ax * ax * ay * ay}

\* Mutant: the teeth are left where they are.
DilateMask_None(mask, px) == mask

\* _dilate_mask: px steps in a cross by np.roll, so on a torus.
DilateMask(mask, px) ==
    {p \in Pixels : \E q \in mask :
        Apart(p[1], q[1], Width) + Apart(p[2], q[2], Height) <= px}

MouthPhoto == IF scene.kind = "hq" THEN DilateMask(MouthInteriorMask, MouthPx)
              ELSE MouthInteriorMask

\* Gradient of the depth (one unit is the gap), none before the first cell.
Gradient(t) ==
    LET d(u) == IF u \in scene.covered THEN scene.depth[u] ELSE 0
        back(u) == IF u \in Texels THEN u ELSE t
    IN  Abs(d(t) - d(back(<<t[1] - 1, t[2]>>))) + Abs(d(t) - d(back(<<t[1], t[2] - 1>>)))

\* compute_texel_confidence: angle and depth in halves.  Where the photo ends
\* the nearest pixel answers for skin and mouth.
ComputeTexelConfidence(t) ==
    IF t \in scene.covered /\ Nearest(t) \in scene.skin \ MouthPhoto
    THEN scene.nz[t] * Clamp(4 - Gradient(t), 0, 2)
    ELSE 0

HardValid == {t \in Texels : confOf[t] >= ConfValidMin /\ InPhoto(t)}

\* The V3 figure takes its crop for the atlas and the skin of it for valid.
CropValid == {t \in Texels : Nearest(t) \in scene.skin}
Valid == IF scene.kind = "figure" THEN CropValid ELSE HardValid

-----------------------------------------------------------------------------
\* Joining.

\* soften_confidence: a box blur over cumulative sums.  The pad is FeatherPx a
\* side, the differences are one short of the size, the slice starts at
\* FeatherPx: np.where raises on the two shapes, and the except returns conf.
SoftLen == (Size + 2 * FeatherPx) - (2 * FeatherPx + 1) - FeatherPx
Box(t) == {<<Clamp(t[1] + i, 1, Size), Clamp(t[2] + j, 1, Size)>> :
             i, j \in -FeatherPx .. FeatherPx}
SoftenConfidence ==
    IF SoftLen = Size
    THEN [t \in Texels |-> IF \A u \in Box(t) : confOf[u] = 0 THEN 0
                           ELSE IF \A u \in Box(t) : confOf[u] = Full THEN Full
                           ELSE ConfValidMin]
    ELSE confOf

\* What stands where the photo does not: with no network, in the texture only,
\* the mean of what is trusted, and with nothing trusted the photo's own crop.
Completion == CASE scene.kind = "double" -> Hashed
                [] scene.kind \in {"hq", "figure"} \/ scene.synth -> Synth
                [] scene.kind = "texture" /\ ~scene.synth ->
                     IF HardValid # {} THEN SkinMean ELSE FaceCrop

\* blend_with_feather: w * photo + (1 - w) * completion.
BlendWithFeather(w) ==
    [t \in Texels |-> (IF w[t] > 0 THEN BilinearSample(t) ELSE {}) \cup
                      (IF w[t] < Full THEN {Completion} ELSE {})]

\* seam_band_512, _seam_band: a texel with a neighbour of the other kind.
SeamBand(valid) ==
    {t \in Texels : \E u \in Rolled(t) : (u \in valid) # (t \in valid)}

Around(t) == {<<Clamp(t[1] + i, 1, Size), Clamp(t[2] + j, 1, Size)>> : i, j \in -1 .. 1}

\* smooth_seam_3x3: a box blur, taken on the band only.
SmoothSeam(a, valid) ==
    [t \in Texels |-> IF t \in SeamBand(valid) THEN UNION {a[u] : u \in Around(t)} ELSE a[t]]

\* Photo where valid, completion elsewhere, and the seam smoothed.
JoinSeam ==
    SmoothSeam([t \in Texels |-> IF t \in Valid THEN BilinearSample(t) ELSE {Completion}], Valid)

\* From 1024 to 512, BILINEAR: the two texels of each axis and one more a side.
Taps(i) == {Clamp(k, 1, Size) : k \in 2 * i - 2 .. 2 * i + 1}
Halved(a) ==
    [t \in (1 .. Size \div 2) \X (1 .. Size \div 2) |->
       UNION {a[u] : u \in Taps(t[1]) \X Taps(t[2])}]

-----------------------------------------------------------------------------
\* Steps.

AtlasClear == /\ confOf = <<>> /\ atlas = <<>> /\ sentinel = {}
              /\ atlasStep = "confidence"
AtlasInit == scene \in Scenes /\ AtlasClear

Confidence ==
    /\ atlasStep = "confidence"
    /\ confOf' = IF scene.kind \in {"texture", "hq"}
                 THEN [t \in Texels |-> ComputeTexelConfidence(t)]
                 ELSE [t \in Texels |-> 0]
    /\ atlasStep' = "join"
    /\ UNCHANGED <<scene, atlas, sentinel>>

\* HQ refuses a face without a valid texel, and with the figure any atlas
\* without a synthesis.
Refuse ==
    /\ atlasStep = "join"
    /\ \/ scene.kind = "hq" /\ HardValid = {}
       \/ scene.kind \in {"hq", "figure"} /\ ~scene.synth
       \/ scene.kind = "figure" /\ CropValid = {}
    /\ atlasStep' = "refused"
    /\ UNCHANGED <<scene, confOf, atlas, sentinel>>

Magenta(a) == {t \in DOMAIN a : a[t] \subseteq scene.magenta}

Join ==
    /\ atlasStep = "join"
    /\ scene.kind \in {"hq", "figure"} => scene.synth /\ Valid # {}
    /\ atlas' = CASE scene.kind = "double"  -> [t \in Texels |-> {Completion}]
                  [] scene.kind = "texture" -> BlendWithFeather(SoftenConfidence)
                  [] scene.kind = "hq"      -> Halved(JoinSeam)
                  [] scene.kind = "figure"  -> JoinSeam
    /\ sentinel' = Magenta(atlas')
    /\ atlasStep' = "scrub"
    /\ UNCHANGED <<scene, confOf>>

\* _scrub_sentinel: one bit of the red of an exact sentinel.
Scrub ==
    /\ atlasStep = "scrub"
    /\ sentinel' = {}
    /\ atlasStep' = "baked"
    /\ UNCHANGED <<scene, confOf, atlas>>

AtlasNext == Confidence \/ Refuse \/ Join \/ Scrub

-----------------------------------------------------------------------------
\* Properties.

\* The photo in a colour.
Photo(c) == c \cap (Pixels \cup {FaceCrop})

\* Texture: inside the photo what is fully trusted is the photo and nothing else;
\* the rest is the photo at its own place and the completion, and off the head
\* and inside the mouth (by the nearest pixel) the completion alone, which shows
\* the photo only when there is neither network nor trusted skin.
HonestTexture(a) == \A t \in Texels :
    /\ confOf[t] = Full /\ InPhoto(t) => a[t] = BilinearSample(t)
    /\ Photo(a[t]) \subseteq BilinearSample(t) \cup {FaceCrop}
    /\ t \notin scene.covered \/ Nearest(t) \in MouthInteriorMask => Photo(a[t]) \subseteq {FaceCrop}
    /\ scene.synth \/ HardValid # {} => FaceCrop \notin a[t]

\* Figure: off the seam the crop is itself; else it mixes valid neighbours only.
HonestFigure(a) == \A t \in Texels :
    /\ Around(t) \subseteq CropValid /\ t \notin SeamBand(CropValid) => a[t] = BilinearSample(t)
    /\ Photo(a[t]) \subseteq UNION {BilinearSample(u) : u \in Around(t) \cap CropValid}

\* HQ: a texel mixes trusted texels around the ones it is made from, well inside
\* them it has nothing synthesised, and no pixel from inside the mouth weighs in.
HonestHq(a) == \A t \in DOMAIN a :
    LET under == UNION {Around(u) : u \in Taps(t[1]) \X Taps(t[2])}
    IN  /\ a[t] \cap MouthInteriorMask = {}
        /\ Photo(a[t]) \subseteq UNION {BilinearSample(u) : u \in under \cap HardValid}
        /\ under \subseteq HardValid /\ under \cap SeamBand(HardValid) = {} => Synth \notin a[t]

(* What an atlas takes from the photo it takes where it is trusted, texel  *)
(* by texel or mixed with neighbours only, and the rest from its           *)
(* completion: HonestTexture, HonestFigure, HonestHq (_dilate_mask: "los   *)
(* dientes nunca deben tocar el seam").  No atlas keeps a sentinel.        *)
AtlasIsHonest ==
    atlasStep = "baked" =>
      /\ sentinel = {}
      /\ scene.kind = "texture" => HonestTexture(atlas)
      /\ scene.kind = "figure" => HonestFigure(atlas)
      /\ scene.kind = "hq" => HonestHq(atlas)

(* compute_texel_confidence: "No cubierto o fuera de foto = 0".  (Expected *)
(* to fail: beside the photo the pixel at its border answers.)             *)
OutsideIsUntrusted ==
    atlasStep # "confidence" /\ scene.kind \in {"texture", "hq"} =>
      \A t \in Texels : ~InPhoto(t) => confOf[t] = 0

(* blend_with_feather and test_texture_confidence: "Composicion suave ...   *)
(* (nunca np.where binario)"; soften_confidence: "interior profundo queda   *)
(* en 1, exterior profundo en 0, banda con rampa".  No texel that is all    *)
(* photo has a neighbour that is all completion.  (Expected to fail.)       *)
SeamIsFeathered ==
    atlasStep = "baked" /\ scene.kind = "texture" =>
      \A t \in Texels : \A u \in Around(t) :
        ~(Completion \notin atlas[t] /\ atlas[u] = {Completion})

=============================================================================
