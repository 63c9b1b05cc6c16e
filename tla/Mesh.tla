--------------------------------- MODULE Mesh --------------------------------
(***************************************************************************)
(* The binary mesh of a face: the personalised head of the result zip      *)
(* (build_personalized_glb: skin and eyes, over a template that is read or *)
(* synthesised) and the dense head of a V3 figure (add_eyeballs and        *)
(* build_dense_glb).  A vertex is its number, coordinates are left out;    *)
(* the sections of the file are laid out byte by byte, each byte carrying  *)
(* the number of its section and 0 where it is padding.                    *)
(***************************************************************************)
EXTENDS Integers, SequencesExt

CONSTANTS SkinCols, SkinRows, \* grid of the synthetic skin
          SkinVerts,          \* EYE_VERT_START: the grid is cut here
          EyeCols, EyeRows,   \* grid of an eyeball
          SkinTris, EyeTris,  \* FLAME_SKIN_TRIS, FLAME_EYE_TRIS
          Heads,              \* faces of other heads: a template file, a .mat
          Pngs, Jsons         \* lengths of a PNG and of the JSON chunk

BallVerts == EyeCols * EyeRows
VertCount == SkinVerts + 2 * BallVerts
IsEye(v) == v \in SkinVerts .. VertCount - 1
Pad4(n) == ((n + 3) \div 4) * 4
Range2(t) == {t[1], t[2], t[3]}
NoGlb == [sections |-> <<>>]

ASSUME MeshAssumption ==
    /\ {SkinCols, SkinRows, EyeCols, EyeRows} \subseteq Nat \ {0, 1}
    /\ SkinVerts \in 2 * SkinCols + 1 .. SkinCols * SkinRows
    /\ SkinTris \in Nat /\ EyeTris \in Nat /\ EyeTris % 2 = 0
    /\ EyeTris <= 4 * EyeCols * (EyeRows - 1)
    /\ Heads \subseteq Seq(Int \X Int \X Int)
    /\ Pngs \subseteq Nat \ {0} /\ Jsons \subseteq Nat \ {0}

VARIABLES origin,   \* "synthetic", "file" or "mat"
          faces,    \* triangles of the head, in order
          glb,      \* the file built, NoGlb before
          meshState \* "open", "built" or the error

meshFileVars == <<origin, faces, glb, meshState>>

-----------------------------------------------------------------------------
\* Heads.

\* [t for t in tris if t in those]: what is left keeps its order.
Keep(tris, those) ==
    LET kept[n \in 0 .. Len(tris)] ==
          IF n = 0 THEN <<>>
          ELSE IF tris[n] \in those THEN Append(kept[n - 1], tris[n])
          ELSE kept[n - 1]
    IN  kept[Len(tris)]

\* Both triangles of the square of a grid with its corner in row r, column c.
Corner(r, c, cols, base) == base + r * cols + (c % cols)
Half(q, first) == IF first THEN <<q[1], q[2], q[3]>> ELSE <<q[2], q[4], q[3]>>
Grid(cols, rows, base) ==
    [k \in 1 .. cols * (rows - 1) |->
        LET r == (k - 1) \div cols
            c == (k - 1) % cols
        IN  <<Corner(r, c, cols, base), Corner(r, c + 1, cols, base),
              Corner(r + 1, c, cols, base), Corner(r + 1, c + 1, cols, base)>>]

\* _synthetic_flame_template: the squares the cut leaves whole, again from the
\* first when they are not enough; and two eyeballs, as far as they are asked.
SyntheticFlameTemplate ==
    LET grid  == Grid(SkinCols, SkinRows, 0)
        quads == Keep(grid, {q \in ToSet(grid) : \A i \in 1 .. 4 : q[i] < SkinVerts})
        half(quad, n) == Half(quad, n % 2 = 1)
        skin == [n \in 1 .. SkinTris |->
                   IF n <= 2 * Len(quads) THEN half(quads[(n + 1) \div 2], n)
                   ELSE half(quads[((n - 2 * Len(quads) - 1) % Len(quads)) + 1], n)]
        ball(b) == [n \in 1 .. EyeTris \div 2 |->
                   half(Grid(EyeCols, EyeRows, SkinVerts + b * BallVerts)[(n + 1) \div 2], n)]
    IN  skin \o ball(0) \o ball(1)

\* add_eyeballs: two spheres behind the head, whose numbers stay.
EyeSphere == [n \in 1 .. 2 * EyeCols * (EyeRows - 1) |->
                Half(Grid(EyeCols, EyeRows, 0)[(n + 1) \div 2], n % 2 = 1)]
Shift(tris, by) == [n \in DOMAIN tris |-> [i \in 1 .. 3 |-> tris[n][i] + by]]
AddEyeballs(tris) ==
    tris \o Shift(EyeSphere, SkinVerts) \o Shift(EyeSphere, SkinVerts + BallVerts)

-----------------------------------------------------------------------------
\* Files.

\* Mutant: a section begins where the last one ends.
PadBytes_None(bytes) == bytes

\* _pad_bytes, _pad4.
PadBytes(bytes) == bytes \o [i \in 1 .. Pad4(Len(bytes)) - Len(bytes) |-> 0]

Section(k, length) == [i \in 1 .. length |-> k]

\* The sections of a mesh one after the other, and their offsets as the code
\* adds them up: positions, uvs, normals and the first indices.
Four(b) ==
    LET uv  == Len(b[1])
        nrm == uv + Len(b[2])
        idx == nrm + Len(b[3])
    IN  [bytes |-> b[1] \o b[2] \o b[3] \o b[4], at |-> <<0, uv, nrm, idx>>]

\* With the eyes' indices and two PNGs.
Seven(b) ==
    LET four == Four(b)
        eye  == four.at[4] + Len(b[4])
        skinPng == eye + Len(b[5])
        eyePng  == skinPng + Len(b[6])
    IN  [bytes |-> four.bytes \o b[5] \o b[6] \o b[7],
         at    |-> four.at \o <<eye, skinPng, eyePng>>]

Padded(lengths) == [k \in DOMAIN lengths |-> PadBytes(Section(k, lengths[k]))]

\* A file: its sections, the lengths that its views declare, what the accessors
\* count, the triangles of each primitive.
File(layout, lengths, accessors, prims, json) ==
    LET bin == PadBytes(layout.bytes)
    IN  [sections  |-> bin,
         views     |-> [k \in DOMAIN lengths |->
                          [at |-> layout.at[k], length |-> lengths[k]]],
         accessors |-> accessors,
         prims     |-> prims,
         json      |-> Pad4(json),
         header    |-> 12 + 8 + Pad4(json) + 8 + Len(bin)]

\* Accessors: view, bytes of an element, count.
Attributes(n) == <<[view |-> 1, size |-> 12, count |-> n],
                   [view |-> 2, size |-> 8,  count |-> n],
                   [view |-> 3, size |-> 12, count |-> n]>>
Indices(k, size, tris) == [view |-> k, size |-> size, count |-> 3 * Len(tris)]

\* The triangles of the skin and of the eyes.
SkinOf(tris) == Keep(tris, {t \in ToSet(tris) : \A v \in Range2(t) : v < SkinVerts})
EyeOf(tris) == Keep(tris, {t \in ToSet(tris) : \A v \in Range2(t) : v >= SkinVerts})
Within(tris, vs) == \A n \in DOMAIN tris : Range2(tris[n]) \subseteq vs

\* build_personalized_glb: positions, uvs, normals, skin and eye indices of
\* two bytes, two PNGs; triangles on both sides are an error.  The views
\* declare what the sections hold, padding left out.
BuildPersonalizedGlb(skinPng, eyePng, json) ==
    LET skin == SkinOf(faces)
        eye  == EyeOf(faces)
        lengths == <<12 * VertCount, 8 * VertCount, 12 * VertCount, 6 * Len(skin),
                     6 * Len(eye), skinPng, eyePng>>
    IN  IF \/ Len(faces) # Len(skin) + Len(eye)
           \/ skin = <<>> \/ eye = <<>>
           \/ ~Within(skin, 0 .. SkinVerts - 1)
           \/ ~Within(eye, SkinVerts .. VertCount - 1)
        THEN NoGlb
        ELSE File(Seven(Padded(lengths)), lengths,
                  Attributes(VertCount) \o <<Indices(4, 2, skin), Indices(5, 2, eye)>>,
                  <<skin, eye>>, json)

\* build_dense_glb: one primitive, indices of four bytes; the uvs of the head
\* from the .mat, those of the eyes from their patch.  The views declare the
\* padded sections.
BuildDenseGlb(tris, json) ==
    LET padded == Padded(<<12 * VertCount, 8 * VertCount, 12 * VertCount, 12 * Len(tris)>>)
    IN  IF tris = <<>> \/ ~Within(tris, 0 .. VertCount - 1)
        THEN NoGlb
        ELSE File(Four(padded), [k \in DOMAIN padded |-> Len(padded[k])],
                  Attributes(VertCount) \o <<Indices(4, 4, tris)>>, <<tris>>, json)

\* parse_gnm_mesh: the length in the header is the length of the file.
ParseGnmMesh(file) ==
    /\ file # NoGlb
    /\ file.header = 28 + file.json + Len(file.sections)

-----------------------------------------------------------------------------
\* Steps.

MeshFileClear == glb = NoGlb /\ meshState = "open"

MeshFileInit ==
    /\ \/ origin = "synthetic" /\ faces = SyntheticFlameTemplate
       \/ origin = "file" /\ faces \in Heads
       \/ origin = "mat" /\ faces \in Heads
    /\ MeshFileClear

Built(file) == /\ glb' = file
               /\ meshState' = IF ParseGnmMesh(file) THEN "built" ELSE "MlFailed"
               /\ UNCHANGED <<origin, faces>>

BuildFlame ==
    /\ meshState = "open" /\ origin # "mat"
    /\ \E skinPng, eyePng \in Pngs, json \in Jsons :
         Built(BuildPersonalizedGlb(skinPng, eyePng, json))

\* load_hifi_basis_from and add_eyeballs refuse a number beyond the head.
BuildDense ==
    /\ meshState = "open" /\ origin = "mat"
    /\ \E json \in Jsons :
         IF faces = <<>> \/ \E n \in DOMAIN faces : \E v \in Range2(faces[n]) : v >= SkinVerts
         THEN Built(NoGlb)
         ELSE Built(BuildDenseGlb(AddEyeballs(faces), json))

MeshFileNext == BuildFlame \/ BuildDense

-----------------------------------------------------------------------------
\* Properties.

\* Of a file from the head of an origin.

\* Every view starts on four bytes and holds its own section and nothing of
\* another; the views of a V3 figure end in padding.
ViewsAreOwn(file, from) ==
    \A k \in DOMAIN file.views :
      /\ file.views[k].at % 4 = 0
      /\ \A i \in 1 .. file.views[k].length :
           LET owner == file.sections[file.views[k].at + i]
           IN  owner = k \/ (owner = 0 /\ from = "mat")

AccessorsFit(file) ==
    \A a \in DOMAIN file.accessors :
      file.accessors[a].size * file.accessors[a].count
        <= file.views[file.accessors[a].view].length

\* An index names a vertex that has a position and a uv, of the skin or of the
\* eyes as the others of its triangle.
IndicesAreSound(file) ==
    \A p \in DOMAIN file.prims : \A n \in DOMAIN file.prims[p] :
      /\ Range2(file.prims[p][n]) \subseteq 0 .. file.accessors[2].count - 1
      /\ \A v, w \in Range2(file.prims[p][n]) : IsEye(v) = IsEye(w)

\* The primitive a triangle belongs to, and its place in it: the number of those
\* before it that belong to the same.
Side(t, from) == IF from = "mat" \/ \A v \in Range2(t) : v < SkinVerts THEN 1 ELSE 2
Place(whole, from, n) ==
    Cardinality({m \in 1 .. n : Side(whole[m], from) = Side(whole[n], from)})

\* Each triangle of a head is in one primitive and keeps its place.
HoldsEach(file, from, whole) ==
    /\ \A p \in DOMAIN file.prims :
         Len(file.prims[p]) = Cardinality({n \in DOMAIN whole : Side(whole[n], from) = p})
    /\ \A n \in DOMAIN whole :
         file.prims[Side(whole[n], from)][Place(whole, from, n)] = whole[n]

(* A mesh that is given out can be read, each view and accessor its own,   *)
(* and it is the whole head: every triangle, in its order, with skin and   *)
(* eyes apart; of a synthetic head as many as were asked for.              *)
MeshIsWhole ==
    meshState = "built" =>
      /\ ViewsAreOwn(glb, origin) /\ AccessorsFit(glb) /\ IndicesAreSound(glb)
      /\ HoldsEach(glb, origin, IF origin = "mat" THEN AddEyeballs(faces) ELSE faces)
      /\ origin = "synthetic" =>
           Len(glb.prims[1]) + Len(glb.prims[2]) = SkinTris + EyeTris

=============================================================================
