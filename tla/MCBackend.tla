----------------------------- MODULE MCBackend ------------------------------
EXTENDS Backend

CONSTANTS t1, t2, s1, s2

\* Volumes: complete, without texture weights, without shape assets, empty.
MCDisks == {Files, Files \ {"mat", "texgan"}, Files \ {"basis", "epoch"}, {}}
MCRoles == {{"fit"}, {"texture"}, {"hq"}, {"mesh"}, {"figure"},
            {"fit", "texture", "hq"}}
Symmetry == Permutations({t1, t2}) \cup Permutations({s1, s2})

\* Photos at and over the limit and one that is no JPEG; floats that pack as
\* they are, that are rounded, and that do not pack.
MCImages == {<<Jpeg>>, <<Jpeg, Pixel>>, <<Jpeg, Pixel, Pixel>>, <<Pixel>>}
MCFits == {<<Exact, Exact>>, <<Fine, Exact>>, <<Exact, Huge>>}

\* A head that covers all of the atlas or a part, sampled on, between and
\* beside the pixels; skin, light and depth with and without an edge.
AtlasScenes(side) ==
    LET T == (1 .. side) \X (1 .. side)
        P == (0 .. side - 1) \X (0 .. side - 1)
        px(dx, dy) == [t \in T |-> <<2 * (t[1] - 1) + dx, 2 * (t[2] - 1) + dy>>]
        Mouth == [l |-> 3, r |-> 5, u |-> 3, d |-> 4]
    IN  {[kind |-> "double", covered |-> T, px |-> px(0, 0), nz |-> [t \in T |-> 2],
          depth |-> [t \in T |-> 0], skin |-> P, lips |-> Mouth, synth |-> FALSE,
          magenta |-> {Hashed}]} \cup
        {[kind |-> k, covered |-> c, px |-> m, nz |-> n, depth |-> d, skin |-> s,
          lips |-> l, synth |-> y, magenta |-> g] :
            k \in {"texture", "hq", "figure"},
            c \in {T, {t \in T : t[1] < side}},
            m \in {px(0, 0), px(1, 1), px(-3, 1)},
            n \in {[t \in T |-> 2], [t \in T |-> Clamp(t[1] - 1, 0, 2)]},
            d \in {[t \in T |-> 0], [t \in T |-> IF t[2] = 1 THEN 3 ELSE 0]},
            s \in {P, {p \in P : p[2] > 1}, {}},
            l \in {Mouth, [Mouth EXCEPT !.r = 3]},
            y \in BOOLEAN,
            g \in {{}, {p \in P : p[1] > 3}}}

MCScenes == AtlasScenes(Size)

\* Twelve skin vertices and two eyeballs of six: a sound head, heads with a
\* triangle on both sides, beyond the last vertex or before the first, with skin
\* only, and none.
MCHeads == {<<<<0, 1, 4>>, <<12, 13, 15>>, <<4, 1, 5>>, <<18, 19, 21>>>>,
            <<<<0, 1, 4>>, <<11, 12, 13>>, <<18, 19, 21>>>>,
            <<<<0, 1, 4>>, <<12, 13, 24>>>>, <<<<0, -1, 4>>, <<12, 13, 14>>>>,
            <<<<0, 1, 2>>, <<2, 1, 11>>, <<7, 8, 9>>>>, <<>>}
=============================================================================
