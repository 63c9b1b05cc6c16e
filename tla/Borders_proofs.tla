--------------------------- MODULE Borders_proofs ----------------------------
(***************************************************************************)
(* Proofs about the borders of the backend where values are framed to be   *)
(* parsed again: the wire to the ML sidecar (Wire), for any photos, points *)
(* and sizes; the messages of the queue (Envelope), for any jobs and any   *)
(* number of dead letters; the binary mesh (Mesh), for any head.           *)
(***************************************************************************)
EXTENDS Backend_proofs, SequenceTheorems

-----------------------------------------------------------------------------
(***************************************************************************)
(* Cutting a frame where its parts were joined gives the parts back.       *)
(***************************************************************************)

Bytes == Seq(Nat)

LEMMA CutMiddle ==
    ASSUME NEW a \in Bytes, NEW b \in Bytes, NEW c \in Bytes
    PROVE  SubSeq(a \o b \o c, Len(a) + 1, Len(a) + Len(b)) = b
<1> DEFINE d == a \o b \o c
           s == SubSeq(d, Len(a) + 1, Len(a) + Len(b))
<1>1. /\ a \o b \in Bytes /\ Len(a \o b) = Len(a) + Len(b)
      /\ \A i \in 1 .. Len(a) + Len(b) : (a \o b)[i] = IF i <= Len(a) THEN a[i] ELSE b[i - Len(a)]
  BY ConcatProperties DEF Bytes
<1>2. /\ d \in Bytes /\ Len(d) = Len(a \o b) + Len(c)
      /\ \A i \in 1 .. Len(a \o b) + Len(c) : d[i] = IF i <= Len(a \o b) THEN (a \o b)[i] ELSE c[i - Len(a \o b)]
  BY <1>1, ConcatProperties DEF Bytes
<1>3. Len(a) \in Nat /\ Len(b) \in Nat /\ Len(c) \in Nat
  BY LenProperties DEF Bytes
<1>4. \A i \in Len(a) + 1 .. Len(a) + Len(b) : d[i] = b[i - Len(a)] /\ b[i - Len(a)] \in Nat
  <2> TAKE i \in Len(a) + 1 .. Len(a) + Len(b)
  <2>1. i - Len(a) \in 1 .. Len(b)
    BY <1>3
  <2>2. b[i - Len(a)] \in Nat
    BY <2>1, ElementOfSeq DEF Bytes
  <2>3. d[i] = (a \o b)[i]
    BY <1>1, <1>2, <1>3
  <2>4. (a \o b)[i] = b[i - Len(a)]
    BY <1>1, <1>3
  <2> QED BY <2>2, <2>3, <2>4
<1> HIDE DEF d
<1>5. /\ s \in Seq(Nat) /\ Len(s) = Len(b)
      /\ \A i \in 1 .. Len(b) : s[i] = d[Len(a) + 1 + i - 1]
  <2> DEFINE m == Len(a) + 1
             n == Len(a) + Len(b)
  <2>1. m \in Int /\ n \in Int /\ \A i \in m .. n : d[i] \in Nat
    BY <1>3, <1>4
  <2>2. /\ n - m + 1 = Len(b) /\ (m <= n \/ Len(b) = 0)
        /\ \A i \in 1 .. Len(b) : m + i - 1 = Len(a) + 1 + i - 1
    BY <1>3
  <2>3. s = SubSeq(d, m, n)
    OBVIOUS
  <2> HIDE DEF m, n, s
  <2>4. /\ SubSeq(d, m, n) \in Seq(Nat)
        /\ Len(SubSeq(d, m, n)) = IF m <= n THEN n - m + 1 ELSE 0
        /\ \A i \in 1 .. n - m + 1 : SubSeq(d, m, n)[i] = d[m + i - 1]
    BY <2>1, SubSeqProperties
  <2> QED BY <2>2, <2>3, <2>4
<1>6. \A i \in 1 .. Len(s) : s[i] = b[i]
  BY <1>3, <1>4, <1>5
<1>7. s = b
  BY <1>5, <1>6, SeqEqual DEF Bytes
<1> QED BY <1>7 DEF d

LEMMA CutEnd ==
    ASSUME NEW a \in Bytes, NEW b \in Bytes
    PROVE  From(a \o b, Len(a) + 1) = b
<1>1. <<>> \in Bytes /\ Len(<<>>) = 0
  BY EmptySeq DEF Bytes
<1>2. a \o b \in Bytes /\ Len(a \o b) = Len(a) + Len(b) /\ a \o b \o <<>> = a \o b
  BY ConcatProperties, ConcatEmptySeq DEF Bytes
<1>3. SubSeq(a \o b \o <<>>, Len(a) + 1, Len(a) + Len(b)) = b
  BY <1>1, CutMiddle
<1> QED BY <1>2, <1>3 DEF From

-----------------------------------------------------------------------------
(***************************************************************************)
(* The frames of the wire.                                                 *)
(***************************************************************************)

\* A version byte, the length of the first part, and the two parts.
Framed(b, c) == <<VersionV2>> \o LenBytes(Len(b)) \o b \o c

LEMMA LengthOfTwoBytes ==
    ASSUME NEW n \in Nat
    PROVE  n \div Base \in Nat /\ n % Base \in Nat /\ Base * (n \div Base) + (n % Base) = n
  BY DEF Base

LEMMA FrameParts ==
    ASSUME NEW b \in Bytes, NEW c \in Bytes
    PROVE  /\ Framed(b, c) \in Bytes
           /\ Len(Framed(b, c)) = Header + Len(b) + Len(c)
           /\ Framed(b, c)[1] = VersionV2
           /\ LenOf(Framed(b, c)) = Len(b)
           /\ SubSeq(Framed(b, c), Header + 1, Header + Len(b)) = b
           /\ From(Framed(b, c), Header + Len(b) + 1) = c
           /\ Tail(Framed(b, c)) \in Bytes
           /\ Len(Tail(Framed(b, c))) = Header + Len(b) + Len(c) - 1
           /\ Tail(Framed(b, c))[1] = Len(b) \div Base
<1> DEFINE h == <<VersionV2>> \o LenBytes(Len(b))
           d == h \o b \o c
<1>1. Len(b) \in Nat /\ Len(c) \in Nat
  BY LenProperties DEF Bytes
<1>2. /\ h \in Bytes /\ Len(h) = Header
      /\ h[1] = VersionV2 /\ h[2] = Len(b) \div Base /\ h[3] = Len(b) % Base
  BY <1>1, LengthOfTwoBytes DEF Bytes, Header, LenBytes, VersionV2
<1>3. Framed(b, c) = d
  BY DEF Framed
<1> HIDE DEF h
<1>4. /\ h \o b \in Bytes /\ Len(h \o b) = Header + Len(b)
      /\ \A i \in 1 .. Header + Len(b) : (h \o b)[i] = IF i <= Header THEN h[i] ELSE b[i - Header]
  BY <1>2, ConcatProperties DEF Bytes
<1>5. /\ d \in Bytes /\ Len(d) = Header + Len(b) + Len(c)
      /\ d[1] = h[1] /\ d[2] = h[2] /\ d[3] = h[3]
  <2>1. /\ d \in Bytes /\ Len(d) = Header + Len(b) + Len(c)
        /\ \A i \in 1 .. Header + Len(b) + Len(c) :
              d[i] = IF i <= Header + Len(b) THEN (h \o b)[i] ELSE c[i - (Header + Len(b))]
    BY <1>4, ConcatProperties DEF Bytes
  <2>2. \A i \in {1, 2, 3} : /\ i \in 1 .. Header + Len(b) + Len(c)
                            /\ i \in 1 .. Header + Len(b)
                            /\ i <= Header + Len(b) /\ i <= Header
    BY <1>1 DEF Header
  <2>3. \A i \in {1, 2, 3} : d[i] = h[i]
    BY <1>4, <2>1, <2>2, Zenon
  <2> QED BY <2>1, <2>3
<1>6. SubSeq(d, Header + 1, Header + Len(b)) = b
  BY <1>2, CutMiddle
<1>7. From(d, Header + Len(b) + 1) = c
  BY <1>4, CutEnd
<1> HIDE DEF d
<1>8. LenOf(d) = Len(b)
  BY <1>1, <1>2, <1>5, LengthOfTwoBytes DEF LenOf, Header
<1>9. d # <<>>
  BY <1>1, <1>5, EmptySeq DEF Header
<1>10. /\ Tail(d) \in Bytes /\ Len(Tail(d)) = Len(d) - 1
       /\ \A i \in 1 .. Len(Tail(d)) : Tail(d)[i] = d[i + 1]
  BY <1>5, <1>9, HeadTailProperties DEF Bytes
<1>11. Len(Tail(d)) = Header + Len(b) + Len(c) - 1 /\ Tail(d)[1] = Len(b) \div Base
  BY <1>1, <1>2, <1>5, <1>10 DEF Header
<1> QED BY <1>2, <1>3, <1>5, <1>6, <1>7, <1>8, <1>10, <1>11 DEF Header

-----------------------------------------------------------------------------
(***************************************************************************)
(* What the client may hold: a photo that parses, the landmarks of a face, *)
(* a fit that was rounded by its first packing.                            *)
(***************************************************************************)

Face    == <<Open>> \o [i \in 1 .. Points |-> Point] \o <<Close>>
Rounded == <<Exact, Exact>>
Photos  == {i \in Images : ParseImageBytes(i).ok}

LEMMA FaceParses ==
    /\ Face \in Bytes /\ Len(Face) = Points + 2 /\ Face # <<>>
    /\ ParseLandmarks(Face) = Ok(Face)
    /\ \A data : ParseLandmarks(data).ok => data = Face /\ ParseLandmarks(data).value = Face
<1> DEFINE mid == [i \in 1 .. Points |-> Point]
<1>1. Points \in Nat /\ Point \in Nat
  BY WireAssumption DEF Point
<1>2. mid \in Bytes /\ Len(mid) = Points
  BY <1>1 DEF Bytes
<1>3. <<Open>> \in Bytes /\ Len(<<Open>>) = 1 /\ <<Close>> \in Bytes /\ Len(<<Close>>) = 1
  BY DEF Bytes, Open, Close
<1> HIDE DEF mid
<1>4. <<Open>> \o mid \in Bytes /\ Len(<<Open>> \o mid) = 1 + Points
  BY <1>2, <1>3, ConcatProperties DEF Bytes
<1>5. <<Open>> \o mid \o <<Close>> \in Bytes /\ Len(<<Open>> \o mid \o <<Close>>) = Points + 2
  BY <1>1, <1>3, <1>4, ConcatProperties DEF Bytes
<1>6. Face \in Bytes /\ Len(Face) = Points + 2
  BY <1>5 DEF Face, mid
<1>7. Face # <<>>
  BY <1>1, <1>6, EmptySeq
<1> QED BY <1>6, <1>7 DEF ParseLandmarks, Face, Ok, Err

LEMMA PhotoParses ==
    ASSUME NEW img \in Photos
    PROVE  /\ img \in Bytes /\ Len(img) \in 1 .. MaxImage /\ img # <<>>
           /\ ParseImageBytes(img) = Ok(img)
<1>1. img \in Seq({Jpeg, Pixel}) /\ ParseImageBytes(img).ok
  BY WireAssumption DEF Photos
<1>2. {Jpeg, Pixel} \subseteq Nat
  BY DEF Jpeg, Pixel
<1>3. img \in Bytes
  BY <1>1, <1>2, SeqMonotonic DEF Bytes
<1>4. Len(img) \in 1 .. MaxImage /\ img[1] = Jpeg
  BY <1>1 DEF ParseImageBytes, Err
<1>5. img # <<>>
  BY <1>4, EmptySeq, WireAssumption
<1> QED BY <1>3, <1>4, <1>5 DEF ParseImageBytes

LEMMA FitRounds ==
    /\ Rounded \in Bytes /\ Len(Rounded) = FitResultLen /\ Rounded # <<>>
    /\ EncodeFitResult(Rounded) = Rounded
    /\ ParseFitResult(Rounded) = Ok(Rounded)
    /\ \A f \in Fits : Packs(f) => EncodeFitResult(f) = Rounded
<1>1. Rounded \in Bytes /\ Len(Rounded) = 2 /\ Rounded # <<>>
  BY DEF Rounded, Bytes, Exact
<1>2. EncodeFitResult(Rounded) = Rounded
  BY DEF EncodeFitResult, Rounded, Exact, Fine
<1>3. ParseFitResult(Rounded) = Ok(Rounded)
  BY DEF ParseFitResult, ParseGnmCoeffs, ParseCameraParams, Rounded, FitResultLen, Exact, NaN, Ok, Err
<1>4. ASSUME NEW f \in Fits, Packs(f)
      PROVE  EncodeFitResult(f) = Rounded
  <2>1. PICK x \in {Exact, Fine, Huge}, y \in {Exact, Fine, Huge} : f = <<x, y>>
    BY <1>4, WireAssumption
  <2>2. x \in {Exact, Fine} /\ y \in {Exact, Fine}
    BY <1>4, <2>1 DEF Packs
  <2> QED BY <2>1, <2>2 DEF EncodeFitResult, Rounded, Exact, Fine
<1> QED BY <1>1, <1>2, <1>3, <1>4 DEF FitResultLen

-----------------------------------------------------------------------------
(***************************************************************************)
(* The routes take a frame of their version for what it holds, and one of  *)
(* the other version for what it is.                                       *)
(***************************************************************************)

LEMMA OkFields == \A v : Ok(v).ok /\ Ok(v).value = v
  BY DEF Ok

LEMMA ErrFields == \A e : ~Err(e).ok /\ Err(e).error = e
  BY DEF Err

LEMMA FitRequestIsRead ==
    ASSUME NEW img \in Photos
    PROVE  /\ EncodeFitRequest(img, Face) \in Bytes
           /\ Len(EncodeFitRequest(img, Face)) = Points + 5 + Len(img)
           /\ DecodeFitRequest(EncodeFitRequest(img, Face)) = Ok(<<Face, img>>)
<1> DEFINE d == EncodeFitRequest(img, Face)
<1>1. /\ img \in Bytes /\ Len(img) \in Nat /\ ParseImageBytes(img) = Ok(img)
      /\ Face \in Bytes /\ Len(Face) = Points + 2 /\ Points \in Nat
      /\ ParseLandmarks(Face) = Ok(Face)
  BY PhotoParses, FaceParses, LenProperties, WireAssumption DEF Bytes
<1>2. d = Framed(Face, img)
  BY DEF EncodeFitRequest, Framed
<1> HIDE DEF d
<1>3. /\ d \in Bytes /\ Len(d) = Header + Len(Face) + Len(img)
      /\ d[1] = VersionV2 /\ LenOf(d) = Len(Face)
      /\ SubSeq(d, Header + 1, Header + Len(Face)) = Face
      /\ From(d, Header + Len(Face) + 1) = img
  BY <1>1, <1>2, FrameParts
<1>4. Len(d) = Points + 5 + Len(img)
  BY <1>1, <1>3 DEF Header
<1>5. ~(Len(d) < Header) /\ ~(Len(d) < Header + LenOf(d))
  BY <1>1, <1>3, <1>4 DEF Header
<1>6. DecodeFitRequest(d) = Ok(<<Face, img>>)
  BY <1>1, <1>3, <1>5, OkFields DEF DecodeFitRequest
<1> QED BY <1>3, <1>4, <1>6 DEF d

LEMMA TextureRequestIsRead ==
    ASSUME NEW img \in Photos
    PROVE  DecodeTextureRequest(EncodeTextureRequest(img, Rounded, Face))
             = Ok(<<img, Rounded, Face>>)
<1> DEFINE req == EncodeFitRequest(img, Face)
           d == EncodeTextureRequest(img, Rounded, Face)
<1>1. req \in Bytes /\ Len(req) \in Nat /\ DecodeFitRequest(req) = Ok(<<Face, img>>)
  BY FitRequestIsRead, LenProperties DEF Bytes
<1>2. /\ Rounded \in Bytes /\ Len(Rounded) = FitResultLen
      /\ EncodeFitResult(Rounded) = Rounded /\ ParseFitResult(Rounded) = Ok(Rounded)
  BY FitRounds
<1>3. d = Framed(req, Rounded)
  BY <1>2 DEF EncodeTextureRequest, Framed
<1> HIDE DEF d, req
<1>4. /\ Len(d) = Header + Len(req) + FitResultLen
      /\ d[1] = VersionV2 /\ LenOf(d) = Len(req)
      /\ SubSeq(d, Header + 1, Header + Len(req)) = req
      /\ From(d, Header + Len(req) + 1) = Rounded
  BY <1>1, <1>2, <1>3, FrameParts
<1>5. ~(Len(d) < Header) /\ ~(Len(d) < Header + LenOf(d) + FitResultLen)
      /\ ~(Len(d) > Header + LenOf(d) + FitResultLen)
  BY <1>1, <1>4 DEF Header, FitResultLen
<1>6. DecodeTextureRequest(d) = Ok(<<img, Rounded, Face>>)
  <2>1. <<Face, img>>[1] = Face /\ <<Face, img>>[2] = img
    OBVIOUS
  <2>2. /\ DecodeFitRequest(SubSeq(d, Header + 1, Header + LenOf(d))) = Ok(<<Face, img>>)
        /\ ParseFitResult(From(d, Header + LenOf(d) + 1)) = Ok(Rounded)
    BY <1>1, <1>2, <1>4
  <2>3. DecodeTextureRequest(d)
          = LET r == DecodeFitRequest(SubSeq(d, Header + 1, Header + LenOf(d)))
                f == ParseFitResult(From(d, Header + LenOf(d) + 1))
            IN  IF ~r.ok THEN r ELSE IF ~f.ok THEN f
                ELSE Ok(<<r.value[2], f.value, r.value[1]>>)
    BY <1>4, <1>5 DEF DecodeTextureRequest
  <2> QED BY <2>1, <2>2, <2>3, OkFields
<1> QED BY <1>6 DEF d

\* An old frame begins with its length.  In the code that takes four bytes, and
\* the first of them is 0 as long as photos have at most MAX_IMAGE_BYTES; here it
\* takes two, and what is needed is that the first is not the version.
ShortFrames == Points + 5 + MaxImage < VersionV2 * Base

LEMMA OldFramesAreSeen ==
    ASSUME ShortFrames, NEW img \in Photos
    PROVE  /\ DecodeFitRequest(Tail(EncodeFitRequest(img, Face))) = Err("VersionMismatch")
           /\ DecodeTextureRequest(Tail(EncodeTextureRequest(img, Rounded, Face)))
                = Err("VersionMismatch")
<1> DEFINE req == EncodeFitRequest(img, Face)
           old == Tail(req)
           tex == Tail(EncodeTextureRequest(img, Rounded, Face))
<1>1. /\ img \in Bytes /\ Len(img) \in 1 .. MaxImage /\ MaxImage \in Nat
      /\ Face \in Bytes /\ Len(Face) = Points + 2 /\ Points \in Nat
      /\ req \in Bytes /\ Len(req) = Points + 5 + Len(img)
      /\ Rounded \in Bytes /\ Len(Rounded) = FitResultLen
  BY PhotoParses, FaceParses, FitRounds, FitRequestIsRead, WireAssumption
<1>2. /\ old = Tail(Framed(Face, img))
      /\ tex = Tail(Framed(req, Rounded))
  BY FitRounds DEF EncodeFitRequest, EncodeTextureRequest, Framed
<1> HIDE DEF req, old, tex
<1>3. /\ Len(old) = Header + Len(Face) + Len(img) - 1 /\ old[1] = Len(Face) \div Base
      /\ Len(tex) = Header + Len(req) + Len(Rounded) - 1 /\ tex[1] = Len(req) \div Base
  BY <1>1, <1>2, FrameParts
<1>4. /\ ~(Len(old) < Header) /\ ~(Len(tex) < Header)
  BY <1>1, <1>3 DEF Header, FitResultLen
<1>5. Len(Face) < 32 /\ Len(req) < 32 /\ Len(Face) \in Nat /\ Len(req) \in Nat
  BY <1>1 DEF ShortFrames, VersionV2, Base
<1>6. old[1] # VersionV2 /\ tex[1] # VersionV2
  BY <1>3, <1>5 DEF VersionV2, Base
<1>7. DecodeFitRequest(old) = Err("VersionMismatch")
  BY <1>4, <1>6 DEF DecodeFitRequest
<1>8. DecodeTextureRequest(tex) = Err("VersionMismatch")
  BY <1>4, <1>6 DEF DecodeTextureRequest
<1> QED BY <1>7, <1>8 DEF old, tex, req

-----------------------------------------------------------------------------
(***************************************************************************)
(* The client and the sidecar.                                             *)
(***************************************************************************)

\* What the client holds grows in the order of the calls.
Holding ==
    /\ image \in Photos
    /\ landmarks \in {<<>>, Face} /\ fit \in {<<>>, Rounded}
    /\ fit = Rounded => landmarks = Face
    /\ uv = <<>> \/ ParseUvBytes(uv).ok
    /\ call \in Calls \cup {""}
    /\ outcome \in {"running", "whole", "MlFailed"}

\* A payload is the frame of what is held, or the old one of it.
Posted ==
    /\ call = "fit" => landmarks = Face
    /\ call = "texture" => landmarks = Face /\ fit = Rounded
    /\ call # "" => payload = Encode(call)
                    \/ (call \in {"fit", "texture"} /\ payload = OldFrame(call))

\* Nothing ran before the answer, and a good answer is what a core computes.
Replied ==
    /\ reply.status \in {0, 200, 400, 404, 500}
    /\ call # "" /\ reply = NoReply => ran = <<>>
    /\ call # "" /\ reply.status = 200 => reply.body \in Computed(call)

WireInv == Holding /\ Posted /\ Replied /\ RunsOnWhatIsHeld /\ SkewIsRefused

LEMMA SilentStatus == NoReply.status = 0
  BY DEF NoReply

LEMMA EncodeOf ==
    /\ Encode("landmarks") = image
    /\ Encode("fit") = EncodeFitRequest(image, landmarks)
    /\ Encode("texture") = EncodeTextureRequest(image, fit, landmarks)
  BY DEF Encode

LEMMA ComputedParses ==
    ASSUME NEW c \in Calls, NEW body \in Computed(c)
    PROVE  /\ Parse(c, body).ok /\ Parse(c, body).value = body
           /\ c = "landmarks" => body = Face
           /\ c = "fit" => body = Rounded
           /\ c = "texture" => ParseUvBytes(body).ok
<1>1. CASE c = "landmarks"
  <2>1. body = Face
    BY <1>1 DEF Computed, Face
  <2> QED BY <1>1, <2>1, FaceParses, OkFields DEF Parse
<1>2. CASE c = "fit"
  <2>1. body = Rounded
    BY <1>2, FitRounds DEF Computed
  <2> QED BY <1>2, <2>1, FitRounds, OkFields DEF Parse
<1>3. CASE c = "texture"
  <2>1. body = [i \in 1 .. UvLen |-> Texel]
    BY <1>3 DEF Computed
  <2>2. body \in Seq({Texel}) /\ Len(body) = UvLen
    BY <2>1, WireAssumption
  <2>3. ParseUvBytes(body) = Ok(body)
    BY <2>2 DEF ParseUvBytes
  <2> QED BY <1>3, <2>3, OkFields DEF Parse
<1> QED BY <1>1, <1>2, <1>3 DEF Calls

\* What the route makes of the payload.
LEMMA PayloadIsRead ==
    ASSUME ShortFrames, WireInv, call # ""
    PROVE  \/ /\ payload = Encode(call) /\ Decode(call, payload).ok
              /\ Decode(call, payload).value =
                   CASE call = "landmarks" -> image
                     [] call = "fit"       -> <<landmarks, image>>
                     [] call = "texture"   -> <<image, fit, landmarks>>
           \/ /\ call \in {"fit", "texture"}
              /\ Decode(call, payload) = Err("VersionMismatch")
<1> USE DEF WireInv, Holding, Posted
<1>1. CASE call = "landmarks"
  BY <1>1, PhotoParses, OkFields, EncodeOf DEF Decode
<1>2. CASE call = "fit" /\ payload = Encode(call)
  BY <1>2, FitRequestIsRead, OkFields, EncodeOf DEF Decode
<1>3. CASE call = "texture" /\ payload = Encode(call)
  BY <1>3, TextureRequestIsRead, OkFields, EncodeOf DEF Decode
<1>4. CASE call \in {"fit", "texture"} /\ payload = OldFrame(call)
  BY <1>4, OldFramesAreSeen, EncodeOf DEF Decode, OldFrame
<1> QED BY <1>1, <1>2, <1>3, <1>4 DEF Calls

\* An old frame never passes for anything else.
LEMMA OldIsRefused ==
    ASSUME ShortFrames, WireInv, call \in {"fit", "texture"}, payload = OldFrame(call)
    PROVE  Decode(call, payload) = Err("VersionMismatch")
  BY OldFramesAreSeen, EncodeOf DEF Decode, OldFrame, WireInv, Holding, Posted

LEMMA PostKeeps ==
    ASSUME WireInv, NEW c \in Calls, Post(c) \/ PostOld(c)
    PROVE  WireInv'
<1>1. /\ call' = c /\ ran' = <<>> /\ reply' = NoReply
      /\ UNCHANGED <<image, landmarks, fit, uv, outcome>>
      /\ c \in Calls /\ Ready(c)
      /\ payload' = Encode(c) \/ (c # "landmarks" /\ payload' = OldFrame(c))
  BY DEF Post, PostOld
<1>2. Encode(c)' = Encode(c) /\ OldFrame(c)' = OldFrame(c)
  BY <1>1 DEF Encode, OldFrame, Calls
<1>3. /\ c = "fit" => landmarks = Face
      /\ c = "texture" => landmarks = Face /\ fit = Rounded
  BY <1>1 DEF Ready, WireInv, Holding
<1>4. Encode(call)' = Encode(c) /\ OldFrame(call)' = OldFrame(c)
  BY <1>1, <1>2
<1>5. Holding' /\ Posted'
  BY <1>1, <1>3, <1>4 DEF WireInv, Holding, Posted, Calls
<1>6. Replied' /\ RunsOnWhatIsHeld' /\ SkewIsRefused'
  BY <1>1 DEF Replied, NoReply, RunsOnWhatIsHeld, SkewIsRefused
<1> QED BY <1>5, <1>6 DEF WireInv

LEMMA ServeKeeps ==
    ASSUME ShortFrames, WireInv, Serve
    PROVE  WireInv'
<1> DEFINE d == Decode(call, payload)
<1>1. /\ call # "" /\ reply = NoReply /\ ran = <<>>
      /\ UNCHANGED <<image, landmarks, fit, uv, call, payload, outcome>>
  BY DEF Serve, WireInv, Replied
<1>2. Holding' /\ Posted'
  BY <1>1 DEF WireInv, Holding, Posted, Encode, OldFrame
<1>3. CASE d.ok
  <2>1. ran' = d.value /\ RunImpl(call)
    BY <1>3 DEF Serve
  <2>2. d.value = CASE call = "landmarks" -> image
                     [] call = "fit"       -> <<landmarks, image>>
                     [] call = "texture"   -> <<image, fit, landmarks>>
    BY <1>1, <1>3, PayloadIsRead, ErrFields
  <2>3. RunsOnWhatIsHeld'
    BY <1>1, <2>1, <2>2 DEF RunsOnWhatIsHeld
  <2>4. /\ reply'.status \in {200, 400, 500}
        /\ reply'.status = 200 => reply'.body \in Computed(call)
    BY <2>1 DEF RunImpl, DomainToStatus
  <2>5. Computed(call)' = Computed(call)
    BY <1>1
  <2>6. Replied'
    <3>1. reply' # NoReply
      BY <2>4, SilentStatus
    <3>2. (reply.status \in {0, 200, 400, 404, 500})'
      BY <2>4
    <3>3. (call # "" /\ reply = NoReply => ran = <<>>)'
      BY <3>1
    <3>4. (reply.status = 200 => reply.body \in Computed(call))'
      BY <2>4, <2>5
    <3> QED BY <3>2, <3>3, <3>4 DEF Replied
  <2>7. SkewIsRefused'
    <3>1. call \in {"fit", "texture"} => payload # OldFrame(call)
      BY <1>3, OldIsRefused, ErrFields
    <3> QED BY <1>1, <3>1 DEF SkewIsRefused, OldFrame, Encode
  <2> QED BY <1>2, <2>3, <2>6, <2>7 DEF WireInv
<1>4. CASE ~d.ok
  <2>1. ran' = ran /\ reply' = [status |-> DomainToStatus(d.error), body |-> <<>>]
    BY <1>4 DEF Serve
  <2>2. d.error = "VersionMismatch"
    BY <1>1, <1>4, PayloadIsRead, ErrFields
  <2>3. reply'.status = 400
    BY <2>1, <2>2 DEF DomainToStatus
  <2>4. ran' = <<>>
    BY <1>1, <2>1
  <2>5. Replied'
    BY <2>3, <2>4 DEF Replied
  <2>6. RunsOnWhatIsHeld' /\ SkewIsRefused'
    BY <2>3, <2>4 DEF RunsOnWhatIsHeld, SkewIsRefused
  <2> QED BY <1>2, <2>5, <2>6 DEF WireInv
<1> QED BY <1>3, <1>4

LEMMA AnswerKeeps ==
    ASSUME WireInv, Answer \/ TransportFails
    PROVE  WireInv'
<1>1. /\ call # "" /\ call' = "" /\ UNCHANGED <<image, payload, ran, reply>>
      /\ call \in Calls
  BY DEF Answer, TransportFails, WireInv, Holding
<1>2. Posted' /\ RunsOnWhatIsHeld' /\ SkewIsRefused' /\ Replied'
  <2>1. Posted' /\ RunsOnWhatIsHeld' /\ SkewIsRefused'
    BY <1>1 DEF Posted, RunsOnWhatIsHeld, SkewIsRefused
  <2>2. Replied'
    BY <1>1 DEF Replied, WireInv
  <2> QED BY <2>1, <2>2
<1>3. CASE TransportFails
  BY <1>1, <1>2, <1>3 DEF TransportFails, WireInv, Holding
<1>4. CASE Answer /\ reply.status \in 200 .. 299 /\ Parse(call, reply.body).ok
  <2>1. reply.status = 200 /\ reply.body \in Computed(call)
    <3>1. reply.status \in {0, 200, 400, 404, 500}
      BY DEF WireInv, Replied
    <3>2. reply.status = 200
      BY <1>4, <3>1
    <3> QED BY <1>1, <3>2 DEF WireInv, Replied
  <2>2. Hold(call, reply.body) /\ outcome' \in {"running", "whole"}
    BY <1>1, <1>4, <2>1, ComputedParses DEF Answer
  <2>3. Holding'
    BY <1>1, <2>1, <2>2, ComputedParses DEF Hold, WireInv, Holding, Posted, Calls
  <2> QED BY <1>2, <2>3 DEF WireInv
<1>5. CASE Answer /\ ~(reply.status \in 200 .. 299 /\ Parse(call, reply.body).ok)
  <2>1. ~(reply.status \in 200 .. 299)
    <3>1. reply.status \in {0, 200, 400, 404, 500}
      BY DEF WireInv, Replied
    <3>2. ASSUME reply.status = 200
          PROVE  FALSE
      <4>1. reply.body \in Computed(call)
        BY <1>1, <3>2 DEF WireInv, Replied
      <4>2. Parse(call, reply.body).ok
        BY <1>1, <4>1, ComputedParses
      <4>3. 200 \in 200 .. 299
        OBVIOUS
      <4> QED BY <1>5, <3>2, <4>2, <4>3
    <3> QED BY <3>1, <3>2
  <2>2. outcome' = "MlFailed" /\ UNCHANGED <<landmarks, fit, uv>>
    BY <1>5, <2>1 DEF Answer
  <2>3. Holding'
    BY <1>1, <2>2 DEF WireInv, Holding
  <2> QED BY <1>2, <2>3 DEF WireInv
<1> QED BY <1>3, <1>4, <1>5

LEMMA WireStart ==
    ASSUME WireInit
    PROVE  WireInv
<1>1. /\ image \in Photos /\ landmarks = <<>> /\ fit = <<>> /\ uv = <<>> /\ call = ""
      /\ ran = <<>> /\ reply = NoReply /\ outcome = "running"
  BY DEF WireInit, Photos
<1>2. Holding
  BY <1>1, FitRounds DEF Holding
<1>3. Posted /\ RunsOnWhatIsHeld /\ SkewIsRefused
  BY <1>1 DEF Posted, RunsOnWhatIsHeld, SkewIsRefused
<1>4. Replied
  BY <1>1, SilentStatus DEF Replied
<1> QED BY <1>2, <1>3, <1>4 DEF WireInv

LEMMA WireStands ==
    ASSUME WireInv, UNCHANGED wireVars
    PROVE  WireInv'
<1>1. UNCHANGED <<image, landmarks, fit, uv, call, payload, ran, reply, outcome>>
  BY DEF wireVars
<1>2. Holding' /\ RunsOnWhatIsHeld'
  BY <1>1 DEF WireInv, Holding, RunsOnWhatIsHeld
<1>5. Computed(call)' = Computed(call)
  BY <1>1
<1>6. Replied'
  BY ZenonT(30), <1>1, <1>5 DEF WireInv, Replied
<1>3. Encode(call)' = Encode(call) /\ OldFrame(call)' = OldFrame(call)
  BY <1>1 DEF Encode, OldFrame
<1>4. Posted' /\ SkewIsRefused'
  BY ZenonT(30), <1>1, <1>3 DEF WireInv, Posted, SkewIsRefused
<1> QED BY <1>2, <1>4, <1>6 DEF WireInv

LEMMA WireInvHolds ==
    ASSUME ShortFrames
    PROVE  BackendSpec => []WireInv
<1>1. BackendInit => WireInv
  BY WireStart DEF BackendInit, WireRests
<1>2. WireInv /\ [BackendNext]_backendVars => WireInv'
  <2> SUFFICES ASSUME WireInv, [BackendNext]_backendVars
               PROVE  WireInv'
    OBVIOUS
  <2>1. CASE UNCHANGED wireVars
    BY <2>1, WireStands
  <2>2. CASE WireNext
    <3>1. CASE \E c \in Calls : Post(c) \/ PostOld(c)
      BY <3>1, PostKeeps
    <3>2. CASE Serve
      BY <3>2, ServeKeeps
    <3>3. CASE Answer \/ TransportFails
      BY <3>3, AnswerKeeps
    <3> QED BY <2>2, <3>1, <3>2, <3>3 DEF WireNext
  <2> QED BY <2>1, <2>2 DEF BackendNext, ProcessStep, WireStep, EnvelopeStep, AtlasStep,
        MeshStep, backendVars
<1> QED BY <1>1, <1>2, PTL DEF BackendSpec

\* For any photos that parse, any number of points and any size of the texture,
\* the core of the sidecar computes on exactly what the client holds or not at
\* all, and a frame without its version byte is refused with 400, whatever call
\* fails and in whatever order frames of both versions arrive.
THEOREM WireStaysExact ==
    ASSUME ShortFrames
    PROVE  BackendSpec => []WireIsExact
<1>1. WireInv => WireIsExact
  BY DEF WireInv, WireIsExact
<1> QED BY <1>1, WireInvHolds, PTL

\* Whatever is held, asked and answered on the wire has its type.
THEOREM WireStaysTyped ==
    ASSUME ShortFrames
    PROVE  BackendSpec => []WireTypeOK
<1>1. ASSUME WireInv
      PROVE  WireTypeOK
  <2>1. landmarks = <<>> \/ ParseLandmarks(landmarks).ok
    BY <1>1, FaceParses, OkFields DEF WireInv, Holding
  <2>2. fit = <<>> \/ ParseFitResult(fit).ok
    BY <1>1, FitRounds, OkFields DEF WireInv, Holding
  <2> QED BY <1>1, <2>1, <2>2 DEF WireInv, Holding, Replied, WireTypeOK, Photos
<1> QED BY <1>1, WireInvHolds, PTL

-----------------------------------------------------------------------------
(***************************************************************************)
(* The newest of a list.                                                   *)
(***************************************************************************)

Newest(s, n) == IF Len(s) <= n THEN s ELSE SubSeq(s, Len(s) - n + 1, Len(s))

LEMMA NewestForm ==
    ASSUME NEW S, NEW s \in Seq(S), NEW n \in Nat \ {0}
    PROVE  /\ Newest(s, n) \in Seq(S)
           /\ Len(Newest(s, n)) = IF Len(s) <= n THEN Len(s) ELSE n
           /\ \A i \in 1 .. Len(Newest(s, n)) :
                 Newest(s, n)[i] = s[Len(s) - Len(Newest(s, n)) + i]
<1>1. Len(s) \in Nat
  BY LenProperties
<1>2. CASE Len(s) <= n
  BY <1>1, <1>2 DEF Newest
<1>3. CASE ~(Len(s) <= n)
  <2> DEFINE m == Len(s) - n + 1
             l == Len(s)
             cut == SubSeq(s, m, l)
  <2>1. /\ m \in Int /\ l \in Int /\ m <= l /\ l - m + 1 = n
        /\ \A i \in m .. l : i \in 1 .. Len(s)
        /\ \A i \in 1 .. n : m + i - 1 = Len(s) - n + i
    BY <1>1, <1>3
  <2>2. \A i \in m .. l : s[i] \in S
    BY <2>1, ElementOfSeq
  <2>3. Newest(s, n) = cut
    BY <1>3 DEF Newest
  <2> HIDE DEF m, l
  <2>4. /\ cut \in Seq(S)
        /\ Len(cut) = IF m <= l THEN l - m + 1 ELSE 0
        /\ \A i \in 1 .. l - m + 1 : cut[i] = s[m + i - 1]
    BY <2>1, <2>2, SubSeqProperties
  <2> HIDE DEF cut
  <2>5. Len(cut) = n
    BY <2>1, <2>4
  <2>6. \A i \in 1 .. n : cut[i] = s[Len(s) - n + i]
    BY <2>1, <2>4
  <2> QED BY <1>3, <2>3, <2>4, <2>5, <2>6
<1> QED BY <1>2, <1>3

\* Adding to the newest and dropping the oldest keeps the newest.
LEMMA NewestAppend ==
    ASSUME NEW S, NEW s \in Seq(S), NEW n \in Nat \ {0}, NEW x \in S
    PROVE  Newest(Append(Newest(s, n), x), n) = Newest(Append(s, x), n)
<1> DEFINE old == Newest(s, n)
           one == Append(old, x)
           all == Append(s, x)
           u == Newest(one, n)
           v == Newest(all, n)
<1>1. /\ Len(s) \in Nat /\ old \in Seq(S)
      /\ Len(old) = IF Len(s) <= n THEN Len(s) ELSE n
      /\ \A i \in 1 .. Len(old) : old[i] = s[Len(s) - Len(old) + i]
  BY NewestForm, LenProperties
<1> HIDE DEF old
<1>2. /\ one \in Seq(S) /\ Len(one) = Len(old) + 1
      /\ \A i \in 1 .. Len(old) : one[i] = old[i]
      /\ one[Len(old) + 1] = x
  BY <1>1, AppendProperties
<1>3. /\ all \in Seq(S) /\ Len(all) = Len(s) + 1
      /\ \A i \in 1 .. Len(s) : all[i] = s[i]
      /\ all[Len(s) + 1] = x
  BY <1>1, AppendProperties
<1> HIDE DEF one, all
<1>4. /\ u \in Seq(S) /\ Len(u) = IF Len(one) <= n THEN Len(one) ELSE n
      /\ \A i \in 1 .. Len(u) : u[i] = one[Len(one) - Len(u) + i]
  <2>1. one \in Seq(S)
    BY <1>2
  <2> QED BY <2>1, NewestForm
<1>5. /\ v \in Seq(S) /\ Len(v) = IF Len(all) <= n THEN Len(all) ELSE n
      /\ \A i \in 1 .. Len(v) : v[i] = all[Len(all) - Len(v) + i]
  <2>1. all \in Seq(S)
    BY <1>3
  <2> QED BY <2>1, NewestForm
<1> HIDE DEF u, v
<1>6. Len(u) = Len(v) /\ Len(u) <= n /\ Len(u) \in Nat
  BY <1>1, <1>2, <1>3, <1>4, <1>5
<1>7. ASSUME NEW i \in 1 .. Len(u)
      PROVE  u[i] = v[i]
  <2> DEFINE p == Len(one) - Len(u) + i
             q == Len(all) - Len(v) + i
  <2>1. u[i] = one[p] /\ v[i] = all[q]
    BY <1>4, <1>5, <1>6
  <2>2. /\ p \in 1 .. Len(old) + 1 /\ q \in 1 .. Len(s) + 1
        /\ q = Len(s) - Len(old) + p
    <3>1. /\ Len(s) \in Nat /\ Len(old) \in Nat /\ Len(old) <= Len(s)
          /\ Len(one) = Len(old) + 1 /\ Len(all) = Len(s) + 1
      BY <1>1, <1>2, <1>3, LenProperties
    <3>2. Len(u) \in Nat /\ Len(v) = Len(u) /\ Len(u) <= Len(one)
      BY <1>4, <1>6, <3>1
    <3> QED BY <3>1, <3>2
  <2> HIDE DEF p, q
  <2>3. CASE p = Len(old) + 1
    BY <1>1, <1>2, <1>3, <2>1, <2>2, <2>3
  <2>4. CASE p \in 1 .. Len(old)
    <3>1. q \in 1 .. Len(s)
      BY <1>1, <2>2, <2>4
    <3>2. one[p] = s[Len(s) - Len(old) + p]
      BY <1>1, <1>2, <2>4
    <3> QED BY <1>3, <2>1, <2>2, <3>1, <3>2
  <2> QED BY <1>1, <2>2, <2>3, <2>4
<1>8. u = v
  BY <1>4, <1>5, <1>6, <1>7, SeqEqual
<1> QED BY <1>8 DEF u, v, one, all, old

-----------------------------------------------------------------------------
(***************************************************************************)
(* What a body says.                                                       *)
(***************************************************************************)

Failures == {"InvalidJobId", "InvalidR2Key", "Invariant"}

\* parse_queue_envelope behind the wrapping.
BodyRead(body) ==
    LET id   == Either(body, "job_id", "jobId")
        keys == Either(body, "r2_keys", "r2Keys")
        a    == Get(keys, "image_a")
        b    == Get(keys, "image_b")
        quality == ParseQuality(Get(body, "quality"))
    IN  IF body.t # "dict" \/ ~ParseJobId(id) THEN Rejected("InvalidJobId")
        ELSE IF keys.t # "dict" THEN Rejected("InvalidR2Key")
        ELSE IF {"a", "b"} \cap DOMAIN keys.fields # {} THEN Rejected("InvalidR2Key")
        ELSE IF ~ParseR2Key(a) \/ ~ParseR2Key(b) THEN Rejected("InvalidR2Key")
        ELSE IF quality = "invalid" THEN Rejected("Invariant")
        ELSE [ok |-> TRUE, job |-> id.job, a |-> a, b |-> b, quality |-> quality]

LEMMA ReadsBody == \A raw : ParseQueueEnvelope(raw) = BodyRead(Unwrap(raw))
  BY DEF ParseQueueEnvelope, BodyRead

\* A job that is taken is one with its own photos, and it is the body's.
Own(body, j) ==
    BodyRead(body).ok => /\ BodyRead(body).job = j
                         /\ BodyRead(body).a = KeyText(j, "a", Plain)
                         /\ BodyRead(body).b = KeyText(j, "b", Plain)
                         /\ body.t = "dict"
                         /\ JobText(j) \in {Get(body, "job_id"), Get(body, "jobId")}

\* No wrapping, and nothing a wrapping could be taken for.
Unwrapped(body) ==
    /\ body # None /\ body.t \notin {"json", "none"}
    /\ body.t = "dict" => "body" \notin DOMAIN body.fields /\ "message" \notin DOMAIN body.fields

LEMMA Failure == \A body : BodyRead(body).ok \/ (~BodyRead(body).ok /\ BodyRead(body).error \in Failures)
  BY DEF BodyRead, Rejected, Failures

LEMMA Kinds4 ==
    /\ None.t = "none" /\ Number.t = "number" /\ Garbage.t = "text"
    /\ \A f : Dict(f).t = "dict" /\ Dict(f).fields = f
    /\ \A v : Json(v).t = "json" /\ Json(v).value = v
    /\ \A j : JobText(j).t = "job" /\ JobText(j).job = j
    /\ \A q : QualityText(q).t = "quality" /\ QualityText(q).quality = q
    /\ \A j, s, f : KeyText(j, s, f).t = "key" /\ KeyText(j, s, f).flaws = f
  BY DEF None, Number, Garbage, Dict, Json, JobText, QualityText, KeyText

LEMMA PlainKeys == \A j, s : ParseR2Key(KeyText(j, s, Plain))
  BY DEF ParseR2Key, KeyText, Plain

LEMMA FlawedKeys == \A j, s : \A f \in Flawed : ~ParseR2Key(KeyText(j, s, f))
  BY DEF ParseR2Key, KeyText, Flawed

LEMMA CanonIsRead ==
    ASSUME NEW j
    PROVE  /\ CanonKeys(j).t = "dict"
           /\ {"a", "b"} \cap DOMAIN CanonKeys(j).fields = {}
           /\ Get(CanonKeys(j), "image_a") = KeyText(j, "a", Plain)
           /\ Get(CanonKeys(j), "image_b") = KeyText(j, "b", Plain)
           /\ ParseR2Key(KeyText(j, "a", Plain)) /\ ParseR2Key(KeyText(j, "b", Plain))
           /\ CanonKeys(j) # None
  BY PlainKeys, Kinds4 DEF CanonKeys, Get

\* What a body with its own job and keys comes to, by its quality.
LEMMA GoodBody ==
    ASSUME NEW j, NEW body, body.t = "dict",
           Either(body, "job_id", "jobId") = JobText(j),
           Either(body, "r2_keys", "r2Keys") = CanonKeys(j)
    PROVE  BodyRead(body) =
             IF ParseQuality(Get(body, "quality")) = "invalid" THEN Rejected("Invariant")
             ELSE [ok |-> TRUE, job |-> j, a |-> KeyText(j, "a", Plain),
                   b |-> KeyText(j, "b", Plain),
                   quality |-> ParseQuality(Get(body, "quality"))]
<1>1. ParseJobId(JobText(j)) /\ JobText(j).job = j
  BY Kinds4 DEF ParseJobId
<1> HIDE DEF ParseQuality
<1> QED BY <1>1, CanonIsRead DEF BodyRead

LEMMA GatewayIsRead ==
    ASSUME NEW j, NEW q \in {"standard", "hq"}
    PROVE  /\ Unwrapped(GatewayBody(j, q)) /\ Own(GatewayBody(j, q), j)
           /\ BodyRead(GatewayBody(j, q)).ok
           /\ BodyRead(GatewayBody(j, q)).job = j
           /\ BodyRead(GatewayBody(j, q)).quality = q
<1> DEFINE body == GatewayBody(j, q)
<1>1. /\ body.t = "dict" /\ Get(body, "job_id") = JobText(j)
      /\ Get(body, "r2_keys") = CanonKeys(j)
      /\ Get(body, "quality") = IF q = "hq" THEN QualityText("hq") ELSE None
      /\ "body" \notin DOMAIN body.fields /\ "message" \notin DOMAIN body.fields
  BY DEF GatewayBody, Get, Dict
<1> HIDE DEF body
<1>2. Either(body, "job_id", "jobId") = JobText(j) /\ Either(body, "r2_keys", "r2Keys") = CanonKeys(j)
  BY <1>1, Kinds4, CanonIsRead DEF Either
<1>3. ParseQuality(Get(body, "quality")) = q
  BY <1>1, Kinds4 DEF ParseQuality
<1>4. BodyRead(body) = [ok |-> TRUE, job |-> j, a |-> KeyText(j, "a", Plain),
                        b |-> KeyText(j, "b", Plain), quality |-> q]
  BY <1>1, <1>2, <1>3, GoodBody
<1>5. Unwrapped(body)
  BY <1>1, Kinds4 DEF Unwrapped
<1>6. Own(body, j)
  BY <1>1, <1>4 DEF Own
<1> QED BY <1>4, <1>5, <1>6 DEF body

\* A message whose keys are not the canonical ones is rejected.
LEMMA OddKeys ==
    ASSUME NEW j, NEW keys \in OtherKeys(j)
    PROVE  \/ keys.t # "dict"
           \/ {"a", "b"} \cap DOMAIN keys.fields # {}
           \/ ~ParseR2Key(Get(keys, "image_b"))
<1>1. CASE keys \in {Dict([a |-> KeyText(j, "a", Plain), b |-> KeyText(j, "b", Plain)]),
                     Dict([image_a |-> KeyText(j, "a", Plain),
                           image_b |-> KeyText(j, "b", Plain), a |-> KeyText(j, "b", Plain)])}
  BY <1>1 DEF Dict
<1>2. CASE keys = Dict([image_a |-> KeyText(j, "a", Plain)])
  <2>1. Get(keys, "image_b") = None
    BY <1>2 DEF Dict, Get
  <2> QED BY <2>1, Kinds4 DEF ParseR2Key
<1>3. CASE keys \in {Garbage, None}
  BY <1>3, Kinds4
<1>4. ASSUME NEW f \in Flawed,
             keys = Dict([image_a |-> KeyText(j, "a", Plain), image_b |-> KeyText(j, "b", f)])
      PROVE  ~ParseR2Key(Get(keys, "image_b"))
  <2>1. Get(keys, "image_b") = KeyText(j, "b", f)
    BY <1>4 DEF Dict, Get
  <2> QED BY <2>1, FlawedKeys
<1> QED BY <1>1, <1>2, <1>3, <1>4 DEF OtherKeys

LEMMA OtherIsRead ==
    ASSUME NEW j, NEW body \in OtherBody(j)
    PROVE  Unwrapped(body) /\ Own(body, j)
<1>1. ASSUME NEW q, body = Dict([jobId |-> JobText(j), r2Keys |-> CanonKeys(j), quality |-> q])
      PROVE  Unwrapped(body) /\ Own(body, j)
  <2>1. /\ body.t = "dict" /\ Get(body, "job_id") = None /\ Get(body, "r2_keys") = None
        /\ Get(body, "jobId") = JobText(j) /\ Get(body, "r2Keys") = CanonKeys(j)
        /\ "body" \notin DOMAIN body.fields /\ "message" \notin DOMAIN body.fields
    BY <1>1 DEF Get, Dict
  <2>2. Either(body, "job_id", "jobId") = JobText(j) /\ Either(body, "r2_keys", "r2Keys") = CanonKeys(j)
    BY <2>1 DEF Either
  <2>3. BodyRead(body).ok => /\ BodyRead(body).job = j
                             /\ BodyRead(body).a = KeyText(j, "a", Plain)
                             /\ BodyRead(body).b = KeyText(j, "b", Plain)
    BY <2>1, <2>2, GoodBody DEF Rejected
  <2> QED BY <2>1, <2>3, Kinds4 DEF Unwrapped, Own
<1>2. ASSUME NEW keys \in OtherKeys(j), body = Dict([job_id |-> JobText(j), r2_keys |-> keys])
      PROVE  Unwrapped(body) /\ Own(body, j)
  <2>1. /\ body.t = "dict" /\ Get(body, "r2_keys") = keys /\ Get(body, "r2Keys") = None
        /\ "body" \notin DOMAIN body.fields /\ "message" \notin DOMAIN body.fields
    BY <1>2 DEF Get, Dict
  <2>2. Either(body, "r2_keys", "r2Keys") = keys
    BY <2>1 DEF Either
  <2>3. ~BodyRead(body).ok
    BY <2>1, <2>2, OddKeys DEF BodyRead, Rejected
  <2> QED BY <2>1, <2>3, Kinds4 DEF Unwrapped, Own
<1>3. ASSUME NEW w \in {Garbage, Number}, body = Dict([job_id |-> w, r2_keys |-> CanonKeys(j)])
      PROVE  Unwrapped(body) /\ Own(body, j)
  <2>1. /\ body.t = "dict" /\ Get(body, "job_id") = w
        /\ "body" \notin DOMAIN body.fields /\ "message" \notin DOMAIN body.fields
    BY <1>3 DEF Get, Dict
  <2>2. Either(body, "job_id", "jobId").t # "job"
    BY <1>3, <2>1, Kinds4 DEF Either
  <2>3. ~BodyRead(body).ok
    BY <2>2 DEF BodyRead, Rejected, ParseJobId
  <2> QED BY <2>1, <2>3, Kinds4 DEF Unwrapped, Own
<1>4. CASE body = Dict(<<>>)
  <2>1. /\ body.t = "dict" /\ Get(body, "job_id") = None /\ Get(body, "jobId") = None
        /\ "body" \notin DOMAIN body.fields /\ "message" \notin DOMAIN body.fields
    BY <1>4 DEF Get, Dict
  <2>2. Either(body, "job_id", "jobId").t # "job"
    BY <2>1, Kinds4 DEF Either
  <2>3. ~BodyRead(body).ok
    BY <2>2 DEF BodyRead, Rejected, ParseJobId
  <2> QED BY <2>1, <2>3, Kinds4 DEF Unwrapped, Own
<1>5. CASE body \in {Garbage, Number}
  <2>1. body.t \in {"text", "number"}
    BY <1>5, Kinds4
  <2>2. ~BodyRead(body).ok
    BY <2>1 DEF BodyRead, Rejected
  <2> QED BY <2>1, <2>2, Kinds4 DEF Unwrapped, Own
<1> QED BY <1>1, <1>2, <1>3, <1>4, <1>5 DEF OtherBody

\* Every wrapping leads to its body, whatever else it carries.
LEMMA WrapIsRead ==
    ASSUME NEW body, Unwrapped(body), NEW second, NEW raw \in OtherWrapped(body, second)
    PROVE  /\ raw # None /\ Unwrap(raw) = body
           /\ raw.t = "dict" /\ Get(raw, "body") # None =>
                body = IF Get(raw, "body").t = "json" THEN Get(raw, "body").value
                                                      ELSE Get(raw, "body")
<1> USE DEF Unwrapped
<1>1. CASE raw = body
  <2>1. Unwrap(raw) = body
    BY <1>1 DEF Unwrap
  <2>2. raw.t = "dict" => Get(raw, "body") = None
    BY <1>1 DEF Get
  <2> QED BY <1>1, <2>1, <2>2
<1>2. ASSUME raw.t = "dict", {"body", "message"} \cap DOMAIN raw.fields # {},
             \/ Get(raw, "body") = body
             \/ Get(raw, "body") = Json(body)
             \/ Get(raw, "body") = None /\ Get(raw, "message") \in {body, Json(body)}
      PROVE  /\ raw # None /\ Unwrap(raw) = body
             /\ raw.t = "dict" /\ Get(raw, "body") # None =>
                  body = IF Get(raw, "body").t = "json" THEN Get(raw, "body").value
                                                        ELSE Get(raw, "body")
  <2>1. Either(raw, "body", "message") \in {body, Json(body)}
    BY <1>2, Kinds4 DEF Either
  <2>2. Unwrap(raw) = body
    BY <1>2, <2>1, Kinds4 DEF Unwrap
  <2>3. raw # None
    BY <1>2, Kinds4
  <2> QED BY <1>2, <2>2, <2>3, Kinds4
<1>3. CASE raw \in {Dict([body |-> body, lease_id |-> Garbage]),
                    Dict([body |-> body, message |-> Json(second)])}
  <2>1. /\ raw.t = "dict" /\ {"body", "message"} \cap DOMAIN raw.fields # {}
        /\ Get(raw, "body") = body
    BY <1>3 DEF Dict, Get
  <2> QED BY <1>2, <2>1
<1>4. CASE raw = Dict([body |-> Json(body)])
  <2>1. /\ raw.t = "dict" /\ {"body", "message"} \cap DOMAIN raw.fields # {}
        /\ Get(raw, "body") = Json(body)
    BY <1>4 DEF Dict, Get
  <2> QED BY <1>2, <2>1
<1>5. CASE raw = Dict([body |-> None, message |-> Json(body)])
  <2>1. /\ raw.t = "dict" /\ {"body", "message"} \cap DOMAIN raw.fields # {}
        /\ Get(raw, "body") = None /\ Get(raw, "message") = Json(body)
    BY <1>5 DEF Dict, Get
  <2> QED BY <1>2, <2>1
<1>6. CASE raw = Dict([message |-> body])
  <2>1. /\ raw.t = "dict" /\ {"body", "message"} \cap DOMAIN raw.fields # {}
        /\ Get(raw, "body") = None /\ Get(raw, "message") = body
    BY <1>6 DEF Dict, Get
  <2> QED BY <1>2, <2>1
<1> QED BY <1>1, <1>3, <1>4, <1>5, <1>6 DEF OtherWrapped, Wrapped

-----------------------------------------------------------------------------
(***************************************************************************)
(* Producers and consumers.                                                *)
(***************************************************************************)

\* What a consumer would make of a message from a producer: EnvelopeIsOwn
\* before the message is taken.
OwnReading(raw, from) ==
    LET read == ParseQueueEnvelope(raw)
    IN  /\ from # None => read.ok /\ read.job = from.job /\ read.quality = from.quality
        /\ read.ok => /\ read.a = KeyText(read.job, "a", Plain)
                      /\ read.b = KeyText(read.job, "b", Plain)
        /\ read.ok /\ raw.t = "dict" /\ Get(raw, "body") # None =>
             LET body == Get(raw, "body")
                 own  == IF body.t = "json" THEN body.value ELSE body
             IN  /\ own.t = "dict"
                 /\ JobText(read.job) \in {Get(own, "job_id"), Get(own, "jobId")}

MessageInv ==
    /\ message = None => sent = None /\ taken = None
    /\ message # None => OwnReading(message, sent)
    /\ taken # None => taken = ParseQueueEnvelope(message)

LettersInv == skipped \in Seq(Failures) /\ letters = Newest(skipped, LetterMax)

EnvelopeInv == MessageInv /\ LettersInv

LEMMA BodyMakesReading ==
    ASSUME NEW body, Unwrapped(body), NEW j, Own(body, j), NEW second,
           NEW raw \in OtherWrapped(body, second), NEW from,
           from # None => /\ BodyRead(body).ok
                          /\ BodyRead(body).job = from.job
                          /\ BodyRead(body).quality = from.quality
    PROVE  raw # None /\ OwnReading(raw, from)
<1>1. ParseQueueEnvelope(raw) = BodyRead(body)
  BY WrapIsRead, ReadsBody
<1>2. /\ raw # None
      /\ raw.t = "dict" /\ Get(raw, "body") # None =>
           body = IF Get(raw, "body").t = "json" THEN Get(raw, "body").value
                                                 ELSE Get(raw, "body")
  BY WrapIsRead
<1> QED BY <1>1, <1>2 DEF OwnReading, Own

LEMMA SendKeeps ==
    ASSUME MessageInv, Send
    PROVE  MessageInv'
<1>1. PICK j \in Jobs, q \in {"standard", "hq"} :
         /\ message' \in Wrapped(GatewayBody(j, q))
         /\ sent' = [t |-> "job", job |-> j, quality |-> q]
  BY DEF Send
<1>2. message' \in OtherWrapped(GatewayBody(j, q), None)
  BY <1>1 DEF OtherWrapped
<1>3. sent'.job = j /\ sent'.quality = q
  BY <1>1
<1>4. /\ Unwrapped(GatewayBody(j, q)) /\ Own(GatewayBody(j, q), j)
      /\ BodyRead(GatewayBody(j, q)).ok
      /\ BodyRead(GatewayBody(j, q)).job = j
      /\ BodyRead(GatewayBody(j, q)).quality = q
  BY GatewayIsRead
<1>5. message' # None /\ OwnReading(message', sent')
  BY <1>2, <1>3, <1>4, BodyMakesReading
<1>6. taken' = None
  BY DEF Send, MessageInv
<1> QED BY <1>5, <1>6 DEF MessageInv

LEMMA SendOtherKeeps ==
    ASSUME MessageInv, SendOther
    PROVE  MessageInv'
<1>1. PICK j \in Jobs : \E body \in OtherBody(j) \cup {GatewayBody(j, "hq")}, k \in Jobs \ {j} :
         message' \in OtherWrapped(body, GatewayBody(k, "standard"))
  BY DEF SendOther
<1>2. PICK body \in OtherBody(j) \cup {GatewayBody(j, "hq")}, k \in Jobs \ {j} :
         message' \in OtherWrapped(body, GatewayBody(k, "standard"))
  BY <1>1
<1>3. Unwrapped(body) /\ Own(body, j)
  BY <1>2, OtherIsRead, GatewayIsRead
<1>4. sent' = None /\ taken' = None
  BY DEF SendOther, MessageInv
<1>5. message' # None /\ OwnReading(message', sent')
  BY <1>2, <1>3, <1>4, BodyMakesReading
<1> QED BY <1>4, <1>5 DEF MessageInv

LEMMA ProcessKeepsMessage ==
    ASSUME MessageInv, Process \/ NextMessage
    PROVE  MessageInv'
<1>1. CASE Process
  BY <1>1 DEF Process, MessageInv
<1>2. CASE NextMessage
  BY <1>2 DEF NextMessage, MessageInv
<1> QED BY <1>1, <1>2

LEMMA ProcessKeepsLetters ==
    ASSUME LettersInv, Process
    PROVE  LettersInv'
<1>1. CASE taken'.ok
  BY <1>1 DEF Process, LettersInv
<1>2. CASE ~taken'.ok
  <2> DEFINE e == taken'.error
  <2>1. letters' = DeadLetter(e) /\ skipped' = Append(skipped, e)
    BY <1>2 DEF Process
  <2>2. e \in Failures
    BY <1>2, ReadsBody, Failure DEF Process
  <2>3. LetterMax \in Nat \ {0}
    BY EnvelopeAssumption
  <2> HIDE DEF e
  <2>4. skipped' \in Seq(Failures)
    BY <2>1, <2>2, AppendProperties DEF LettersInv
  <2>5. letters \in Seq(Failures)
    BY <2>3, NewestForm DEF LettersInv
  <2>6. Append(letters, e) \in Seq(Failures) /\ Len(Append(letters, e)) \in Nat
    BY <2>2, <2>5, AppendProperties, LenProperties
  <2>7. DeadLetter(e) = Newest(Append(letters, e), LetterMax)
    BY <2>3, <2>6 DEF DeadLetter, Newest
  <2>8. Newest(Append(letters, e), LetterMax) = Newest(Append(skipped, e), LetterMax)
    BY <2>2, <2>3, NewestAppend DEF LettersInv
  <2> QED BY <2>1, <2>4, <2>7, <2>8 DEF LettersInv
<1> QED BY <1>1, <1>2

LEMMA EnvelopeKeeps ==
    ASSUME EnvelopeInv, EnvelopeNext
    PROVE  EnvelopeInv'
<1>1. MessageInv'
  BY SendKeeps, SendOtherKeeps, ProcessKeepsMessage DEF EnvelopeInv, EnvelopeNext
<1>2. CASE Process
  BY <1>1, <1>2, ProcessKeepsLetters DEF EnvelopeInv
<1>3. CASE Send \/ SendOther \/ NextMessage
  BY <1>1, <1>3 DEF EnvelopeInv, LettersInv, Send, SendOther, NextMessage
<1> QED BY <1>2, <1>3 DEF EnvelopeNext

LEMMA EnvelopeInvHolds == BackendSpec => []EnvelopeInv
<1>1. ASSUME EnvelopeInit
      PROVE  EnvelopeInv
  <2>1. MessageInv
    BY <1>1 DEF EnvelopeInit, MessageInv
  <2>2. <<>> \in Seq(Failures) /\ Len(<<>>) = 0 /\ 0 <= LetterMax
    BY EmptySeq, EnvelopeAssumption
  <2>3. LettersInv
    BY <1>1, <2>2 DEF EnvelopeInit, LettersInv, Newest
  <2> QED BY <2>1, <2>3 DEF EnvelopeInv
<1>2. BackendInit => EnvelopeInv
  BY <1>1 DEF BackendInit
<1>3. EnvelopeInv /\ [BackendNext]_backendVars => EnvelopeInv'
  <2> SUFFICES ASSUME EnvelopeInv, [BackendNext]_backendVars
               PROVE  EnvelopeInv'
    OBVIOUS
  <2>1. CASE UNCHANGED envelopeVars
    BY <2>1 DEF envelopeVars, EnvelopeInv, MessageInv, LettersInv
  <2>2. CASE EnvelopeNext
    BY <2>2, EnvelopeKeeps
  <2> QED BY <2>1, <2>2 DEF BackendNext, ProcessStep, WireStep, EnvelopeStep, AtlasStep,
        MeshStep, backendVars
<1> QED BY <1>2, <1>3, PTL DEF BackendSpec

\* For any jobs and any number of dead letters, a message of the gateway is taken
\* with its own job, keys and quality however the queue wraps it, whoever wrote a
\* message a job is taken with its own two photos and out of the body that counts,
\* and the dead letters are the newest messages that were skipped.
THEOREM QueueStaysRead == BackendSpec => []QueueIsRead
<1>1. ASSUME EnvelopeInv
      PROVE  QueueIsRead
  <2>1. EnvelopeIsOwn
    BY <1>1 DEF EnvelopeInv, MessageInv, OwnReading, EnvelopeIsOwn
  <2>2. LettersAreNewest
    BY <1>1 DEF EnvelopeInv, LettersInv, Newest, LettersAreNewest
  <2> QED BY <2>1, <2>2 DEF QueueIsRead
<1> QED BY <1>1, EnvelopeInvHolds, PTL

-----------------------------------------------------------------------------
(***************************************************************************)
(* Induction over the naturals, with a set of them for the predicate, from *)
(* the least one that is missing.                                          *)
(***************************************************************************)

Below == {ss \in Nat \X Nat : ss[1] < ss[2]}

LEMMA InductiveSet ==
    ASSUME NEW S \in SUBSET Nat, 0 \in S, \A n \in S : n + 1 \in S
    PROVE  \A n \in Nat : n \in S
<1> DEFINE Missing == Nat \ S
<1> SUFFICES ASSUME Missing # {} PROVE FALSE
  OBVIOUS
<1>1. IsWellFoundedOn(Below, Nat)
  BY NatLessThanWellFounded DEF OpToRel, Below
<1>2. \A a, b \in Nat : a < b => <<a, b>> \in Below
  BY DEF Below
<1>3. Missing \subseteq Nat
  OBVIOUS
<1>4. \E k \in Missing : \A i \in Missing : ~(<<i, k>> \in Below)
  <2> HIDE DEF Missing
  <2> QED BY <1>1, <1>3, WFMin
<1>5. PICK k \in Missing : \A i \in Missing : ~(<<i, k>> \in Below)
  BY <1>4
<1>6. k \in Nat /\ k # 0 /\ k - 1 \in Nat /\ k - 1 + 1 = k
  OBVIOUS
<1>7. k - 1 \in S
  <2>1. k - 1 < k
    BY <1>6
  <2> QED BY <1>2, <1>5, <1>6, <2>1
<1> QED BY <1>6, <1>7

-----------------------------------------------------------------------------
(***************************************************************************)
(* What a filter keeps, and where.                                         *)
(***************************************************************************)

\* One step of the filter.
Add(s, those, n, r) == IF s[n] \in those THEN Append(r, s[n]) ELSE r

\* The recursion of Kept has a solution: it is extended one step at a time.
LEMMA KeptRuns ==
    ASSUME NEW V, NEW s \in Seq(V), NEW those
    PROVE  \E f : /\ Keep(s, those) = f[Len(s)]
                  /\ f[0] = <<>>
                  /\ \A n \in 1 .. Len(s) : f[n] = Add(s, those, n, f[n - 1])
<1> DEFINE Solves(f, k) == f = [n \in 0 .. k |-> IF n = 0 THEN <<>> ELSE Add(s, those, n, f[n - 1])]
           Solved == {k \in Nat : \E f : Solves(f, k)}
<1>1. 0 \in Solved
  <2>1. Solves([n \in 0 .. 0 |-> <<>>], 0)
    OBVIOUS
  <2> QED BY <2>1
<1>2. ASSUME NEW k \in Solved PROVE k + 1 \in Solved
  <2>1. \E f : Solves(f, k)
    OBVIOUS
  <2>2. PICK f : Solves(f, k)
    BY <2>1
  <2> DEFINE g == [n \in 0 .. k + 1 |-> IF n <= k THEN f[n] ELSE Add(s, those, k + 1, f[k])]
             h == [n \in 0 .. k + 1 |-> IF n = 0 THEN <<>> ELSE Add(s, those, n, g[n - 1])]
  <2>3. \A n \in 0 .. k + 1 : g[n] = h[n]
    <3> SUFFICES ASSUME NEW n \in 0 .. k + 1 PROVE g[n] = h[n]
      OBVIOUS
    <3>1. CASE n = 0
      BY <3>1, <2>2
    <3>2. CASE n # 0 /\ n <= k
      <4>1. n - 1 \in 0 .. k /\ n - 1 \in 0 .. k + 1 /\ n \in 0 .. k
        BY <3>2
      <4>2. g[n - 1] = f[n - 1] /\ g[n] = f[n]
        BY <4>1, <3>2
      <4>3. f[n] = Add(s, those, n, f[n - 1])
        BY <2>2, <3>2, <4>1
      <4> QED BY <4>2, <4>3, <3>2
    <3>3. CASE n = k + 1
      <4>1. k \in 0 .. k + 1 /\ n - 1 = k /\ n # 0 /\ ~(n <= k)
        BY <3>3
      <4>2. g[k] = f[k]
        BY <4>1
      <4> QED BY <4>1, <4>2, <3>3
    <3> QED BY <3>1, <3>2, <3>3
  <2>4. g = h
    <3> HIDE DEF Add
    <3> QED BY <2>3
  <2>5. Solves(g, k + 1)
    BY <2>4
  <2> HIDE DEF g, h
  <2> QED BY <2>5
<1>3. Len(s) \in Nat
  BY LenProperties
<1>4. Len(s) \in Solved
  <2>1. Solved \in SUBSET Nat
    OBVIOUS
  <2> HIDE DEF Solved
  <2> QED BY <1>1, <1>2, <1>3, <2>1, InductiveSet
<1>5. \E f : Solves(f, Len(s))
  BY <1>4
<1> DEFINE f == CHOOSE f : Solves(f, Len(s))
<1>6. Solves(f, Len(s))
  BY <1>5
<1>7. Keep(s, those) = f[Len(s)]
  BY Zenon DEF Keep, Add
<1> HIDE DEF f
<1>8. f[0] = <<>>
  BY <1>3, <1>6
<1>9. ASSUME NEW n \in 1 .. Len(s)
      PROVE  f[n] = Add(s, those, n, f[n - 1])
  BY <1>3, <1>6, n \in 0 .. Len(s), n # 0
<1> QED BY <1>7, <1>8, <1>9

\* How many of the first n are kept.
Upto(s, those, n) == Cardinality({m \in 1 .. n : s[m] \in those})

LEMMA UptoNone == ASSUME NEW s, NEW those PROVE Upto(s, those, 0) = 0
<1>1. {m \in 1 .. 0 : s[m] \in those} = {}
  OBVIOUS
<1> QED BY <1>1, FS_EmptySet DEF Upto

LEMMA UptoNext ==
    ASSUME NEW s, NEW those, NEW n \in Nat
    PROVE  /\ Upto(s, those, n) \in 0 .. n
           /\ Upto(s, those, n + 1) =
                IF s[n + 1] \in those THEN Upto(s, those, n) + 1 ELSE Upto(s, those, n)
<1> DEFINE A == {m \in 1 .. n : s[m] \in those}
           B == {m \in 1 .. n + 1 : s[m] \in those}
<1>1. IsFiniteSet(1 .. n) /\ Cardinality(1 .. n) = n
  BY FS_Interval
<1>2. A \in SUBSET (1 .. n)
  OBVIOUS
<1>3. IsFiniteSet(A) /\ Cardinality(A) <= n
  <2> HIDE DEF A
  <2> QED BY <1>1, <1>2, FS_Subset
<1>4. Cardinality(A) \in Nat
  BY <1>3, FS_CardinalityType
<1>5. Upto(s, those, n) = Cardinality(A) /\ Upto(s, those, n + 1) = Cardinality(B)
  BY DEF Upto
<1>6. CASE s[n + 1] \in those
  <2>1. B = A \cup {n + 1} /\ n + 1 \notin A
    BY <1>6
  <2> HIDE DEF A, B
  <2>2. Cardinality(A \cup {n + 1}) = Cardinality(A) + 1
    BY <1>3, <2>1, FS_AddElement
  <2> QED BY <1>3, <1>4, <1>5, <1>6, <2>1, <2>2
<1>7. CASE s[n + 1] \notin those
  <2>1. B = A
    BY <1>7
  <2> HIDE DEF A, B
  <2> QED BY <1>3, <1>4, <1>5, <1>7, <2>1
<1> QED BY <1>6, <1>7

\* A filter keeps those elements, as many as there are, in their order.
LEMMA KeptPlaces ==
    ASSUME NEW V, NEW s \in Seq(V), NEW those
    PROVE  /\ Keep(s, those) \in Seq(V)
           /\ Len(Keep(s, those)) = Upto(s, those, Len(s))
           /\ \A n \in 1 .. Len(s) : s[n] \in those =>
                /\ Upto(s, those, n) \in 1 .. Len(Keep(s, those))
                /\ Keep(s, those)[Upto(s, those, n)] = s[n]
           /\ \A r \in 1 .. Len(Keep(s, those)) : Keep(s, those)[r] \in those
<1>1. PICK f : /\ Keep(s, those) = f[Len(s)]
               /\ f[0] = <<>>
               /\ \A n \in 1 .. Len(s) : f[n] = Add(s, those, n, f[n - 1])
  BY KeptRuns
<1> DEFINE C(n) == Upto(s, those, n)
           Good(k) == /\ f[k] \in Seq(V) /\ Len(f[k]) = C(k)
                      /\ \A n \in 1 .. k : s[n] \in those =>
                           C(n) \in 1 .. C(k) /\ f[k][C(n)] = s[n]
                      /\ \A r \in 1 .. C(k) : f[k][r] \in those
           Reached == {k \in Nat : k <= Len(s) => Good(k)}
<1>2. Len(s) \in Nat
  BY LenProperties
<1>3. /\ C(0) = 0
      /\ \A n \in Nat : /\ C(n) \in 0 .. n
                        /\ C(n + 1) = IF s[n + 1] \in those THEN C(n) + 1 ELSE C(n)
  <2>1. C(0) = 0
    BY UptoNone
  <2>2. ASSUME NEW n \in Nat
        PROVE  C(n) \in 0 .. n /\ C(n + 1) = IF s[n + 1] \in those THEN C(n) + 1 ELSE C(n)
    BY UptoNext
  <2> HIDE DEF C
  <2> QED BY <2>1, <2>2
<1> HIDE DEF C
<1>4. Good(0)
  <2>1. <<>> \in Seq(V) /\ Len(<<>>) = 0
    BY EmptySeq
  <2> QED BY <1>1, <1>3, <2>1
<1>5. ASSUME NEW k \in Nat, k + 1 <= Len(s), Good(k)
      PROVE  Good(k + 1)
  <2>1. f[k + 1] = Add(s, those, k + 1, f[k])
    <3>1. k + 1 \in 1 .. Len(s) /\ k + 1 - 1 = k
      BY <1>2, <1>5
    <3> QED BY <1>1, <3>1
  <2>2. s[k + 1] \in V
    <3>1. k + 1 \in 1 .. Len(s)
      BY <1>2, <1>5
    <3> QED BY <3>1, ElementOfSeq
  <2>3. C(k) \in Nat
    <3>1. C(k) \in 0 .. k
      BY <1>3
    <3> QED BY <3>1
  <2>4. CASE s[k + 1] \in those
    <3>1. f[k + 1] = Append(f[k], s[k + 1])
      BY <2>1, <2>4 DEF Add
    <3>2. /\ f[k + 1] \in Seq(V) /\ Len(f[k + 1]) = C(k) + 1
          /\ \A r \in 1 .. C(k) : f[k + 1][r] = f[k][r]
          /\ f[k + 1][C(k) + 1] = s[k + 1]
      BY <1>5, <2>2, <2>3, <3>1, AppendProperties
    <3>3. C(k + 1) = C(k) + 1
      BY <1>3, <2>4
    <3>4. ASSUME NEW n \in 1 .. k + 1, s[n] \in those
          PROVE  C(n) \in 1 .. C(k + 1) /\ f[k + 1][C(n)] = s[n]
      <4>1. CASE n = k + 1
        BY <4>1, <3>2, <3>3, <2>3
      <4>2. CASE n # k + 1
        <5>1. n \in 1 .. k
          BY <4>2
        <5>2. C(n) \in 1 .. C(k) /\ f[k][C(n)] = s[n]
          BY <1>5, <3>4, <5>1
        <5> QED BY <2>3, <3>2, <3>3, <5>2
      <4> QED BY <4>1, <4>2
    <3>5. ASSUME NEW r \in 1 .. C(k + 1) PROVE f[k + 1][r] \in those
      <4>1. r \in 1 .. C(k) \/ r = C(k) + 1
        BY <2>3, <3>3
      <4> QED BY <1>5, <2>4, <3>2, <4>1
    <3> QED BY <3>2, <3>3, <3>4, <3>5
  <2>5. CASE s[k + 1] \notin those
    <3>1. f[k + 1] = f[k] /\ C(k + 1) = C(k)
      BY <1>3, <2>1, <2>5 DEF Add
    <3>2. ASSUME NEW n \in 1 .. k + 1, s[n] \in those
          PROVE  C(n) \in 1 .. C(k + 1) /\ f[k + 1][C(n)] = s[n]
      <4>1. n \in 1 .. k
        BY <2>5, <3>2
      <4> QED BY <1>5, <3>1, <3>2, <4>1
    <3> QED BY <1>5, <3>1, <3>2
  <2> QED BY <2>4, <2>5
<1>6. Good(Len(s))
  <2>1. 0 \in Reached
    BY <1>4
  <2>2. ASSUME NEW k \in Reached PROVE k + 1 \in Reached
    <3> SUFFICES ASSUME k + 1 <= Len(s) PROVE Good(k + 1)
      OBVIOUS
    <3>1. k \in Nat /\ k <= Len(s)
      BY <1>2
    <3>2. Good(k)
      BY <3>1
    <3> HIDE DEF Good
    <3> QED BY <1>5, <3>1, <3>2
  <2>3. Reached \in SUBSET Nat
    OBVIOUS
  <2>4. Len(s) \in Reached
    <3> HIDE DEF Reached
    <3> QED BY <1>2, <2>1, <2>2, <2>3, InductiveSet
  <2> HIDE DEF Good
  <2> QED BY <1>2, <2>4
<1> QED BY <1>1, <1>6 DEF C

-----------------------------------------------------------------------------
(***************************************************************************)
(* The sections of a mesh.                                                 *)
(***************************************************************************)

Aligned(b) == b \in Seq(Nat) /\ Len(b) % 4 = 0

LEMMA Pads == \A n \in Nat : /\ Pad4(n) \in Nat /\ Pad4(n) % 4 = 0
                             /\ n <= Pad4(n) /\ (n % 4 = 0 => Pad4(n) = n)
BY DEF Pad4

LEMMA Joins ==
    ASSUME NEW a \in Seq(Nat), NEW b \in Seq(Nat)
    PROVE  /\ a \o b \in Seq(Nat) /\ Len(a \o b) = Len(a) + Len(b)
           /\ \A i \in 1 .. Len(a) : (a \o b)[i] = a[i]
           /\ \A i \in 1 .. Len(b) : (a \o b)[Len(a) + i] = b[i]
<1>1. /\ a \o b \in Seq(Nat) /\ Len(a \o b) = Len(a) + Len(b)
      /\ \A i \in 1 .. Len(a) + Len(b) : (a \o b)[i] = IF i <= Len(a) THEN a[i] ELSE b[i - Len(a)]
  BY ConcatProperties
<1>2. Len(a) \in Nat /\ Len(b) \in Nat
  BY LenProperties
<1>3. ASSUME NEW i \in 1 .. Len(b) PROVE (a \o b)[Len(a) + i] = b[i]
  <2>1. Len(a) + i \in 1 .. Len(a) + Len(b) /\ ~(Len(a) + i <= Len(a)) /\ Len(a) + i - Len(a) = i
    BY <1>2
  <2> QED BY <1>1, <2>1
<1> QED BY <1>1, <1>2, <1>3

\* Padding appends zeros up to the next four bytes.
LEMMA PaddingAppends ==
    ASSUME NEW b \in Seq(Nat)
    PROVE  /\ Aligned(PadBytes(b)) /\ Len(PadBytes(b)) = Pad4(Len(b))
           /\ \A i \in 1 .. Len(b) : PadBytes(b)[i] = b[i]
           /\ \A i \in 1 .. Len(PadBytes(b)) : i > Len(b) => PadBytes(b)[i] = 0
<1> DEFINE n == Pad4(Len(b)) - Len(b)
           z == [i \in 1 .. n |-> 0]
<1>1. Len(b) \in Nat /\ n \in Nat /\ Pad4(Len(b)) % 4 = 0 /\ Len(b) + n = Pad4(Len(b))
  <2>1. Len(b) \in Nat
    BY LenProperties
  <2>2. Pad4(Len(b)) \in Nat /\ Pad4(Len(b)) % 4 = 0 /\ Len(b) <= Pad4(Len(b))
    BY <2>1, Pads
  <2> QED BY <2>1, <2>2
<1>2. z \in Seq(Nat) /\ Len(z) = n /\ \A i \in 1 .. n : z[i] = 0
  BY <1>1
<1>3. PadBytes(b) = b \o z
  BY DEF PadBytes
<1> HIDE DEF n, z
<1>4. /\ b \o z \in Seq(Nat) /\ Len(b \o z) = Len(b) + n
      /\ \A i \in 1 .. Len(b) : (b \o z)[i] = b[i]
      /\ \A i \in 1 .. n : (b \o z)[Len(b) + i] = 0
  BY ZenonT(30), <1>2, Joins
<1>5. ASSUME NEW i \in 1 .. Len(b \o z), i > Len(b) PROVE (b \o z)[i] = 0
  <2>1. i - Len(b) \in 1 .. n /\ Len(b) + (i - Len(b)) = i
    BY <1>1, <1>4, <1>5
  <2> QED BY <1>4, <2>1
<1> QED BY <1>1, <1>3, <1>4, <1>5 DEF Aligned

\* A padded section: its bytes, then zeros.
LEMMA PaddedSection ==
    ASSUME NEW k \in Nat, NEW n \in Nat
    PROVE  /\ Aligned(PadBytes(Section(k, n))) /\ n <= Len(PadBytes(Section(k, n)))
           /\ \A i \in 1 .. n : PadBytes(Section(k, n))[i] = k
           /\ \A i \in 1 .. Len(PadBytes(Section(k, n))) : PadBytes(Section(k, n))[i] \in {k, 0}
<1>1. Section(k, n) \in Seq(Nat) /\ Len(Section(k, n)) = n /\ \A i \in 1 .. n : Section(k, n)[i] = k
  BY DEF Section
<1>2. n <= Pad4(n)
  BY Pads
<1> QED BY <1>1, <1>2, PaddingAppends

\* A layout l holds the first n of the sections b, each from four bytes on.
Holds(l, b, n) ==
    /\ Aligned(l.bytes)
    /\ \A k \in 1 .. n :
         /\ Aligned(b[k])
         /\ l.at[k] \in Nat /\ l.at[k] % 4 = 0 /\ l.at[k] + Len(b[k]) <= Len(l.bytes)
         /\ \A i \in 1 .. Len(b[k]) : l.bytes[l.at[k] + i] = b[k][i]

\* One section more, where the last one ended.
Follows(m, l, b, n, next) ==
    /\ n \in Nat /\ next = n + 1
    /\ Holds(l, b, n) /\ Aligned(b[next])
    /\ m.bytes = l.bytes \o b[next] /\ m.at[next] = Len(l.bytes)
    /\ \A k \in 1 .. n : m.at[k] = l.at[k]

Longer(m, l, b, next) == Len(m.bytes) = Len(l.bytes) + Len(b[next])

LEMMA HoldsOneMore ==
    ASSUME NEW m, NEW l, NEW b, NEW n, NEW next, Follows(m, l, b, n, next)
    PROVE  Holds(m, b, next) /\ Longer(m, l, b, next)
<1> DEFINE a == l.bytes
           c == b[next]
<1> USE DEF Follows, Longer
<1>1. a \in Seq(Nat) /\ c \in Seq(Nat) /\ Len(a) \in Nat /\ Len(c) \in Nat
      /\ Len(a) % 4 = 0 /\ Len(c) % 4 = 0
  BY LenProperties DEF Holds, Aligned
<1>2. /\ m.bytes = a \o c /\ m.at[next] = Len(a)
      /\ \A k \in 1 .. n : /\ m.at[k] = l.at[k]
                           /\ Aligned(b[k])
                           /\ l.at[k] \in Nat /\ l.at[k] % 4 = 0 /\ l.at[k] + Len(b[k]) <= Len(a)
                           /\ \A i \in 1 .. Len(b[k]) : a[l.at[k] + i] = b[k][i]
  BY DEF Holds
<1> HIDE DEF a
<1>3. /\ a \o c \in Seq(Nat) /\ Len(a \o c) = Len(a) + Len(c)
      /\ \A i \in 1 .. Len(a) : (a \o c)[i] = a[i]
      /\ \A i \in 1 .. Len(c) : (a \o c)[Len(a) + i] = c[i]
  BY <1>1, Joins
<1>4. (Len(a) + Len(c)) % 4 = 0
  <2>1. \A x, y \in Nat : x % 4 = 0 /\ y % 4 = 0 => (x + y) % 4 = 0
    OBVIOUS
  <2> QED BY <1>1, <2>1
<1>5. ASSUME NEW k \in 1 .. next
      PROVE  /\ m.at[k] \in Nat /\ m.at[k] % 4 = 0 /\ m.at[k] + Len(b[k]) <= Len(m.bytes)
             /\ \A i \in 1 .. Len(b[k]) : m.bytes[m.at[k] + i] = b[k][i]
  <2>1. CASE k = next
    <3>1. m.at[k] = Len(a) /\ Len(b[k]) = Len(c) /\ b[k] = c
      BY <2>1, <1>2
    <3> HIDE DEF c
    <3> QED BY <3>1, <1>1, <1>2, <1>3
  <2>2. CASE k # next
    <3>1. k \in 1 .. n
      BY <2>2
    <3>2. /\ m.at[k] = l.at[k] /\ l.at[k] \in Nat /\ l.at[k] % 4 = 0
          /\ l.at[k] + Len(b[k]) <= Len(a) /\ Len(b[k]) \in Nat
      BY <1>2, <3>1, LenProperties DEF Aligned
    <3> HIDE DEF c
    <3>3. ASSUME NEW i \in 1 .. Len(b[k]) PROVE m.bytes[m.at[k] + i] = b[k][i]
      <4>1. a[l.at[k] + i] = b[k][i]
        BY <1>2, <3>1
      <4>2. l.at[k] + i \in 1 .. Len(a)
        <5>1. \A x, y, z \in Nat : x + y <= z => \A j \in 1 .. y : x + j \in 1 .. z
          OBVIOUS
        <5> QED BY <1>1, <3>2, <5>1
      <4> QED BY <4>1, <4>2, <1>2, <1>3, <3>2
    <3>4. m.at[k] + Len(b[k]) <= Len(m.bytes)
      <4>1. \A w, x, y, z \in Nat : w + x <= y => w + x <= y + z
        OBVIOUS
      <4>2. Len(m.bytes) = Len(a) + Len(c)
        BY <1>2, <1>3
      <4> QED BY <1>1, <3>2, <4>1, <4>2
    <3> QED BY <3>2, <3>3, <3>4
  <2> QED BY <2>1, <2>2
<1>6. ASSUME NEW k \in 1 .. next PROVE Aligned(b[k])
  BY <1>2
<1> QED BY <1>1, <1>2, <1>3, <1>4, <1>5, <1>6 DEF Holds, Aligned

LEMMA FourHolds ==
    ASSUME NEW b, \A k \in 1 .. 4 : Aligned(b[k])
    PROVE  /\ Holds(Four(b), b, 4) /\ Len(Four(b).bytes) = Four(b).at[4] + Len(b[4])
           /\ \A k \in 1 .. 4 : Four(b).at[k] \in Nat
<1> DEFINE at == Four(b).at
           l1 == [bytes |-> b[1], at |-> at]
           l2 == [bytes |-> b[1] \o b[2], at |-> at]
           l3 == [bytes |-> b[1] \o b[2] \o b[3], at |-> at]
<1>1. /\ at[1] = 0 /\ at[2] = Len(b[1]) /\ at[3] = Len(b[1]) + Len(b[2])
      /\ at[4] = Len(b[1]) + Len(b[2]) + Len(b[3])
      /\ Four(b).bytes = b[1] \o b[2] \o b[3] \o b[4]
  BY DEF Four
<1>2. \A k \in 1 .. 4 : b[k] \in Seq(Nat) /\ Len(b[k]) \in Nat /\ Aligned(b[k])
  BY LenProperties DEF Aligned
<1>3. /\ l1.bytes = b[1] /\ l2.bytes = l1.bytes \o b[2] /\ l3.bytes = l2.bytes \o b[3]
      /\ Four(b).bytes = l3.bytes \o b[4]
      /\ l1.at = at /\ l2.at = at /\ l3.at = at
  BY <1>1
<1> HIDE DEF at, l1, l2, l3
<1>4. Holds(l1, b, 1)
  <2>1. \A k \in 1 .. 1 : k = 1
    OBVIOUS
  <2> QED BY <1>1, <1>2, <1>3, <2>1 DEF Holds
<1>5. Holds(l2, b, 2) /\ Len(l2.bytes) = Len(b[1]) + Len(b[2])
  <2>1. Follows(l2, l1, b, 1, 2)
    BY <1>1, <1>2, <1>3, <1>4 DEF Follows
  <2>2. Holds(l2, b, 2) /\ Longer(l2, l1, b, 2)
    BY <2>1, HoldsOneMore
  <2> QED BY <2>2, <1>3 DEF Longer
<1>6. Holds(l3, b, 3) /\ Len(l3.bytes) = Len(b[1]) + Len(b[2]) + Len(b[3])
  <2>1. Follows(l3, l2, b, 2, 3)
    <3>1. l3.at[3] = Len(l2.bytes) /\ \A k \in 1 .. 2 : l3.at[k] = l2.at[k]
      BY <1>1, <1>3, <1>5
    <3>2. Aligned(b[3]) /\ l3.bytes = l2.bytes \o b[3] /\ Holds(l2, b, 2)
      BY <1>2, <1>3, <1>5
    <3>3. 2 \in Nat /\ 3 = 2 + 1
      OBVIOUS
    <3> QED BY <3>1, <3>2, <3>3, Zenon DEF Follows
  <2>2. Holds(l3, b, 3) /\ Longer(l3, l2, b, 3)
    BY <2>1, HoldsOneMore
  <2> QED BY <2>2, <1>5 DEF Longer
<1>7. /\ Holds(Four(b), b, 4)
      /\ Len(Four(b).bytes) = Len(b[1]) + Len(b[2]) + Len(b[3]) + Len(b[4])
  <2>1. Four(b).at = at
    BY DEF at
  <2>2. Follows(Four(b), l3, b, 3, 4)
    <3>1. Four(b).at[4] = Len(l3.bytes) /\ \A k \in 1 .. 3 : Four(b).at[k] = l3.at[k]
      BY <1>1, <1>3, <1>6, <2>1
    <3>2. Aligned(b[4]) /\ Four(b).bytes = l3.bytes \o b[4] /\ Holds(l3, b, 3)
      BY <1>2, <1>3, <1>6
    <3>3. 3 \in Nat /\ 4 = 3 + 1
      OBVIOUS
    <3> QED BY <3>1, <3>2, <3>3, Zenon DEF Follows
  <2>3. Holds(Four(b), b, 4) /\ Longer(Four(b), l3, b, 4)
    BY <2>2, HoldsOneMore
  <2> QED BY <2>3, <1>6 DEF Longer
<1>8. \A k \in 1 .. 4 : at[k] \in Nat
  BY <1>7 DEF Holds, at
<1> QED BY <1>1, <1>7, <1>8 DEF at

LEMMA SevenHolds ==
    ASSUME NEW b, \A k \in 1 .. 7 : Aligned(b[k])
    PROVE  Holds(Seven(b), b, 7)
<1> DEFINE at == Seven(b).at
           l4 == [bytes |-> Four(b).bytes, at |-> at]
           l5 == [bytes |-> l4.bytes \o b[5], at |-> at]
           l6 == [bytes |-> l5.bytes \o b[6], at |-> at]
<1>1. /\ Holds(Four(b), b, 4) /\ Len(Four(b).bytes) = Four(b).at[4] + Len(b[4])
      /\ \A k \in 1 .. 4 : Four(b).at[k] \in Nat
  BY FourHolds
<1>2. /\ \A k \in 1 .. 4 : at[k] = Four(b).at[k]
      /\ at[5] = Four(b).at[4] + Len(b[4])
      /\ at[6] = at[5] + Len(b[5]) /\ at[7] = at[6] + Len(b[6])
  <2> DEFINE f == Four(b).at
             x == f[4] + Len(b[4])
             y == x + Len(b[5])
             z == y + Len(b[6])
             g == <<x, y, z>>
  <2>1. at = f \o g
    BY DEF Seven
  <2>2. /\ f = <<f[1], f[2], f[3], f[4]>>
        /\ f[1] \in Nat /\ f[2] \in Nat /\ f[3] \in Nat /\ f[4] \in Nat
    <3>1. f = <<f[1], f[2], f[3], f[4]>>
      BY DEF Four
    <3>2. \A k \in 1 .. 4 : f[k] \in Nat
      BY <1>1
    <3> QED BY <3>1, <3>2
  <2>3. x \in Nat /\ y \in Nat /\ z \in Nat
    <3>1. b[4] \in Seq(Nat) /\ b[5] \in Seq(Nat) /\ b[6] \in Seq(Nat)
      BY DEF Aligned
    <3>2. Len(b[4]) \in Nat /\ Len(b[5]) \in Nat /\ Len(b[6]) \in Nat
      BY <3>1, LenProperties
    <3> HIDE DEF f
    <3>3. x \in Nat
      BY SMTT(30), <2>2, <3>2
    <3> HIDE DEF x
    <3>4. y \in Nat
      BY <3>2, <3>3
    <3> HIDE DEF y
    <3> QED BY <3>2, <3>3, <3>4
  <2> HIDE DEF f, x, y, z
  <2>4. f \in Seq(Nat) /\ Len(f) = 4 /\ g \in Seq(Nat) /\ Len(g) = 3
        /\ g[1] = x /\ g[2] = y /\ g[3] = z
    <3>1. \A i, j, k, l \in Nat : <<i, j, k, l>> \in Seq(Nat) /\ Len(<<i, j, k, l>>) = 4
      OBVIOUS
    <3>2. f \in Seq(Nat) /\ Len(f) = 4
      BY ZenonT(30), <2>2, <3>1
    <3> QED BY <2>3, <3>2
  <2> HIDE DEF g, at
  <2>5. /\ \A i \in 1 .. 4 : (f \o g)[i] = f[i]
        /\ \A i \in 1 .. 3 : (f \o g)[4 + i] = g[i]
    <3>1. /\ \A i \in 1 .. Len(f) : (f \o g)[i] = f[i]
          /\ \A i \in 1 .. Len(g) : (f \o g)[Len(f) + i] = g[i]
      BY <2>4, Joins
    <3> QED BY <2>4, <3>1
  <2>6. \A i \in 5 .. 7 : at[i] = g[i - 4]
    <3> SUFFICES ASSUME NEW i \in 5 .. 7 PROVE at[i] = g[i - 4]
      OBVIOUS
    <3>1. i - 4 \in 1 .. 3 /\ 4 + (i - 4) = i
      OBVIOUS
    <3> QED BY <2>1, <2>5, <3>1
  <2>7. at[5] = x /\ at[6] = y /\ at[7] = z
    <3>1. 5 - 4 = 1 /\ 6 - 4 = 2 /\ 7 - 4 = 3
      OBVIOUS
    <3>2. at[5] = g[1] /\ at[6] = g[2] /\ at[7] = g[3]
      BY <2>6, <3>1
    <3> QED BY <2>4, <3>2
  <2> QED BY <2>1, <2>5, <2>7 DEF f, x, y, z
<1>3. /\ l4.bytes = Four(b).bytes /\ l5.bytes = l4.bytes \o b[5] /\ l6.bytes = l5.bytes \o b[6]
      /\ Seven(b).bytes = l6.bytes \o b[7]
      /\ l4.at = at /\ l5.at = at /\ l6.at = at /\ Seven(b).at = at
  BY DEF Seven
<1>4. \A k \in 1 .. 7 : Aligned(b[k])
  OBVIOUS
<1> HIDE DEF at, l4, l5, l6
<1>5. Holds(l4, b, 4) /\ Len(l4.bytes) = at[5]
  <2>1. \A k \in 1 .. 4 : l4.at[k] = Four(b).at[k]
    BY <1>2, <1>3
  <2>2. l4.bytes = Four(b).bytes
    BY <1>3
  <2>3. Holds(l4, b, 4)
    BY <1>1, <2>1, <2>2, Zenon DEF Holds
  <2> QED BY <1>1, <1>2, <2>2, <2>3
<1>6. Holds(l5, b, 5) /\ Len(l5.bytes) = at[6]
  <2>1. Follows(l5, l4, b, 4, 5)
    BY <1>3, <1>4, <1>5 DEF Follows
  <2>2. Holds(l5, b, 5) /\ Longer(l5, l4, b, 5)
    BY <2>1, HoldsOneMore
  <2> QED BY <2>2, <1>2, <1>5 DEF Longer
<1>7. Holds(l6, b, 6) /\ Len(l6.bytes) = at[7]
  <2>1. Follows(l6, l5, b, 5, 6)
    BY <1>3, <1>4, <1>6 DEF Follows
  <2>2. Holds(l6, b, 6) /\ Longer(l6, l5, b, 6)
    BY <2>1, HoldsOneMore
  <2> QED BY <2>2, <1>2, <1>6 DEF Longer
<1>8. Holds(Seven(b), b, 7)
  <2>1. Follows(Seven(b), l6, b, 6, 7)
    BY <1>3, <1>4, <1>7 DEF Follows
  <2> QED BY <2>1, HoldsOneMore
<1> QED BY <1>8

\* What a view finds in the file: its own section, as far as it goes, and
\* padding where it goes beyond.
ViewsHold(file, lengths, n) ==
    /\ DOMAIN file.views = 1 .. n
    /\ \A k \in 1 .. n :
         /\ file.views[k].at % 4 = 0
         /\ lengths[k] <= file.views[k].length
         /\ \A i \in 1 .. file.views[k].length :
              /\ file.sections[file.views[k].at + i] \in {k, 0}
              /\ i <= lengths[k] => file.sections[file.views[k].at + i] = k

LEMMA FileHolds ==
    ASSUME NEW lengths, NEW n \in Nat, DOMAIN lengths = 1 .. n, \A k \in 1 .. n : lengths[k] \in Nat,
           NEW layout, Holds(layout, Padded(lengths), n),
           NEW declared, DOMAIN declared = 1 .. n,
           \A k \in 1 .. n : declared[k] \in {lengths[k], Len(Padded(lengths)[k])},
           NEW accessors, NEW prims, NEW json
    PROVE  ViewsHold(File(layout, declared, accessors, prims, json), lengths, n)
<1> DEFINE file == File(layout, declared, accessors, prims, json)
           b == Padded(lengths)
<1>1. /\ file.sections = PadBytes(layout.bytes)
      /\ DOMAIN file.views = 1 .. n
      /\ \A k \in 1 .. n : file.views[k].at = layout.at[k] /\ file.views[k].length = declared[k]
  BY DEF File
<1>2. \A k \in 1 .. n : b[k] = PadBytes(Section(k, lengths[k]))
  BY DEF Padded
<1>3. layout.bytes \in Seq(Nat) /\ Len(layout.bytes) \in Nat
  BY LenProperties DEF Holds, Aligned
<1> HIDE DEF file
<1>4. \A i \in 1 .. Len(layout.bytes) : file.sections[i] = layout.bytes[i]
  BY <1>1, <1>3, PaddingAppends
<1>5. ASSUME NEW k \in 1 .. n
      PROVE  /\ file.views[k].at % 4 = 0
             /\ lengths[k] <= file.views[k].length
             /\ \A i \in 1 .. file.views[k].length :
                  /\ file.sections[file.views[k].at + i] \in {k, 0}
                  /\ i <= lengths[k] => file.sections[file.views[k].at + i] = k
  <2>1. /\ b[k] \in Seq(Nat) /\ Len(b[k]) \in Nat /\ lengths[k] \in Nat /\ lengths[k] <= Len(b[k])
        /\ \A i \in 1 .. lengths[k] : b[k][i] = k
        /\ \A i \in 1 .. Len(b[k]) : b[k][i] \in {k, 0}
    <3>1. k \in Nat /\ lengths[k] \in Nat
      OBVIOUS
    <3>2. b[k] = PadBytes(Section(k, lengths[k]))
      BY <1>2
    <3> HIDE DEF b
    <3> DEFINE m == lengths[k]
               p == PadBytes(Section(k, m))
    <3>3. m \in Nat
      BY <3>1
    <3>4. /\ Aligned(p) /\ m <= Len(p)
          /\ \A i \in 1 .. m : p[i] = k
          /\ \A i \in 1 .. Len(p) : p[i] \in {k, 0}
      <4> HIDE DEF m
      <4> QED BY <3>1, <3>3, PaddedSection
    <3> HIDE DEF p
    <3>5. b[k] = p
      BY <3>2 DEF p
    <3>6. /\ Aligned(b[k]) /\ lengths[k] <= Len(b[k])
          /\ \A i \in 1 .. lengths[k] : b[k][i] = k
          /\ \A i \in 1 .. Len(b[k]) : b[k][i] \in {k, 0}
      BY <3>4, <3>5
    <3> QED BY <3>1, <3>6, LenProperties DEF Aligned
  <2>2. /\ layout.at[k] \in Nat /\ layout.at[k] % 4 = 0
        /\ layout.at[k] + Len(b[k]) <= Len(layout.bytes)
        /\ \A i \in 1 .. Len(b[k]) : layout.bytes[layout.at[k] + i] = b[k][i]
    BY DEF Holds
  <2> HIDE DEF b
  <2>3. file.views[k].at = layout.at[k] /\ file.views[k].length \in {lengths[k], Len(b[k])}
    BY <1>1 DEF b
  <2>4. ASSUME NEW i \in 1 .. Len(b[k]) PROVE file.sections[layout.at[k] + i] = b[k][i]
    <3>1. \A x, y, z \in Nat : x + y <= z => \A j \in 1 .. y : x + j \in 1 .. z
      OBVIOUS
    <3>2. layout.at[k] + i \in 1 .. Len(layout.bytes)
      BY <1>3, <2>1, <2>2, <3>1
    <3> QED BY <1>4, <2>2, <3>2
  <2>5. file.views[k].length \in Nat /\ lengths[k] <= file.views[k].length
        /\ file.views[k].length <= Len(b[k])
    BY <2>1, <2>3
  <2>6. ASSUME NEW i \in 1 .. file.views[k].length
        PROVE  /\ file.sections[layout.at[k] + i] \in {k, 0}
               /\ i <= lengths[k] => file.sections[layout.at[k] + i] = k
    <3>1. i \in 1 .. Len(b[k]) /\ (i <= lengths[k] => i \in 1 .. lengths[k])
      BY <2>1, <2>5
    <3> QED BY <2>1, <2>4, <3>1
  <2> QED BY <2>2, <2>3, <2>5, <2>6
<1> QED BY <1>1, <1>5 DEF ViewsHold, file

-----------------------------------------------------------------------------
(***************************************************************************)
(* The two files.                                                          *)
(***************************************************************************)

LEMMA MeshNumbers ==
    /\ SkinVerts \in Nat /\ BallVerts \in Nat /\ VertCount \in Nat
    /\ SkinVerts <= VertCount
    /\ \A p \in Pngs : p \in Nat
<1>1. /\ SkinCols \in Nat /\ SkinRows \in Nat /\ EyeCols \in Nat /\ EyeRows \in Nat
      /\ SkinVerts \in 2 * SkinCols + 1 .. SkinCols * SkinRows
      /\ \A p \in Pngs : p \in Nat
  BY MeshAssumption
<1>2. \A x, y \in Nat : x * y \in Nat
  OBVIOUS
<1>3. SkinVerts \in Nat
  <2>1. SkinCols * SkinRows \in Nat /\ 2 * SkinCols + 1 \in Nat
    BY <1>1, <1>2
  <2> QED BY <1>1, <2>1
<1>4. BallVerts \in Nat
  BY <1>1, <1>2 DEF BallVerts
<1> QED BY <1>1, <1>3, <1>4 DEF VertCount

LEMMA PaddedAligned ==
    ASSUME NEW lengths, NEW k \in Nat, k \in DOMAIN lengths, lengths[k] \in Nat
    PROVE  /\ Aligned(Padded(lengths)[k])
           /\ Len(Padded(lengths)[k]) \in Nat /\ lengths[k] <= Len(Padded(lengths)[k])
<1>1. Padded(lengths)[k] = PadBytes(Section(k, lengths[k]))
  BY DEF Padded
<1> DEFINE n == lengths[k]
           p == PadBytes(Section(k, n))
<1>2. n \in Nat
  OBVIOUS
<1>3. Aligned(p) /\ n <= Len(p)
  <2> HIDE DEF n
  <2> QED BY <1>2, PaddedSection
<1>4. Len(p) \in Nat
  <2>1. p \in Seq(Nat)
    BY <1>3 DEF Aligned
  <2> HIDE DEF p
  <2> QED BY <2>1, LenProperties
<1>5. Padded(lengths)[k] = p /\ lengths[k] = n
  BY <1>1
<1> HIDE DEF n, p
<1> QED BY <1>3, <1>4, <1>5

\* The views of a file that declares what its sections hold.
LEMMA FlameViews ==
    ASSUME NEW lengths, DOMAIN lengths = 1 .. 7, \A k \in 1 .. 7 : lengths[k] \in Nat,
           NEW accessors, NEW prims, NEW json, NEW from
    PROVE  ViewsAreOwn(File(Seven(Padded(lengths)), lengths, accessors, prims, json), from)
<1> DEFINE layout == Seven(Padded(lengths))
           file == File(layout, lengths, accessors, prims, json)
<1>1. ASSUME NEW k \in 1 .. 7 PROVE Aligned(Padded(lengths)[k])
  <2>1. k \in Nat /\ k \in DOMAIN lengths /\ lengths[k] \in Nat
    OBVIOUS
  <2> QED BY <2>1, PaddedAligned
<1>2. Holds(layout, Padded(lengths), 7)
  BY <1>1, SevenHolds
<1>3. /\ DOMAIN file.views = 1 .. 7
      /\ \A k \in 1 .. 7 : file.views[k].length = lengths[k]
  BY DEF File
<1> HIDE DEF layout
<1>4. ViewsHold(file, lengths, 7)
  <2>1. \A k \in 1 .. 7 : lengths[k] \in {lengths[k], Len(Padded(lengths)[k])}
    OBVIOUS
  <2>2. 7 \in Nat
    OBVIOUS
  <2> QED BY <1>2, <2>1, <2>2, FileHolds
<1> HIDE DEF file
<1>5. ASSUME NEW k \in 1 .. 7
      PROVE  /\ file.views[k].at % 4 = 0
             /\ \A i \in 1 .. file.views[k].length : file.sections[file.views[k].at + i] = k
  <2>1. file.views[k].length = lengths[k] /\ lengths[k] \in Nat
    BY <1>3
  <2>2. ASSUME NEW i \in 1 .. file.views[k].length
        PROVE  file.sections[file.views[k].at + i] = k
    <3>1. i <= lengths[k]
      BY <2>1
    <3> QED BY <1>4, <3>1 DEF ViewsHold
  <2> QED BY <1>4, <2>2 DEF ViewsHold
<1>6. ViewsAreOwn(file, from)
  BY <1>3, <1>5 DEF ViewsAreOwn
<1> QED BY <1>6 DEF file, layout

\* And those of a file that declares the padding as well.
LEMMA DenseViews ==
    ASSUME NEW lengths, DOMAIN lengths = 1 .. 4, \A k \in 1 .. 4 : lengths[k] \in Nat,
           NEW declared, declared = [k \in 1 .. 4 |-> Len(Padded(lengths)[k])],
           NEW accessors, NEW prims, NEW json, NEW from, from = "mat"
    PROVE  ViewsAreOwn(File(Four(Padded(lengths)), declared, accessors, prims, json), from)
<1> DEFINE layout == Four(Padded(lengths))
           file == File(layout, declared, accessors, prims, json)
<1>1. ASSUME NEW k \in 1 .. 4 PROVE Aligned(Padded(lengths)[k])
  <2>1. k \in Nat /\ k \in DOMAIN lengths /\ lengths[k] \in Nat
    OBVIOUS
  <2> QED BY <2>1, PaddedAligned
<1>2. Holds(layout, Padded(lengths), 4)
  BY <1>1, FourHolds
<1> HIDE DEF layout
<1>3. ViewsHold(file, lengths, 4)
  <2>1. /\ DOMAIN declared = 1 .. 4
        /\ \A k \in 1 .. 4 : declared[k] \in {lengths[k], Len(Padded(lengths)[k])}
    OBVIOUS
  <2>2. 4 \in Nat
    OBVIOUS
  <2> QED BY <1>2, <2>1, <2>2, FileHolds
<1> HIDE DEF file
<1>4. ViewsAreOwn(file, from)
  BY <1>3 DEF ViewsHold, ViewsAreOwn
<1> QED BY <1>4 DEF file, layout

\* Two lists of accessors that fit their views, one after the other.
LEMMA TwoFit ==
    ASSUME NEW S, NEW s \in Seq(S), NEW t \in Seq(S)
    PROVE  /\ \A a \in DOMAIN (s \o t) : (s \o t)[a] \in S
           /\ \A a \in DOMAIN s : (s \o t)[a] = s[a]
<1>1. /\ s \o t \in Seq(S) /\ Len(s \o t) = Len(s) + Len(t)
      /\ \A i \in 1 .. Len(s) + Len(t) : (s \o t)[i] = IF i <= Len(s) THEN s[i] ELSE t[i - Len(s)]
  BY ConcatProperties
<1>2. Len(s) \in Nat /\ Len(t) \in Nat /\ DOMAIN s = 1 .. Len(s)
  BY LenProperties
<1>3. \A a \in DOMAIN (s \o t) : (s \o t)[a] \in S
  <2> DEFINE c == s \o t
  <2>1. c \in Seq(S)
    BY <1>1
  <2> HIDE DEF c
  <2>2. \A a \in DOMAIN c : c[a] \in S
    BY <2>1, ElementOfSeq, LenProperties
  <2> QED BY <2>2 DEF c
<1>4. \A a \in DOMAIN s : (s \o t)[a] = s[a]
  BY <1>1, <1>2
<1> QED BY <1>3, <1>4

\* What the accessors say of a mesh of n vertices with those lengths.
LEMMA AttributesFit ==
    ASSUME NEW n \in Nat, NEW views, NEW more,
           views[1].length >= 12 * n, views[2].length >= 8 * n, views[3].length >= 12 * n,
           \A k \in 1 .. 3 : views[k].length \in Nat,
           more \in Seq({a \in [view : Nat, size : Nat, count : Nat] :
                            a.size * a.count <= views[a.view].length})
    PROVE  /\ \A a \in DOMAIN (Attributes(n) \o more) :
                (Attributes(n) \o more)[a].size * (Attributes(n) \o more)[a].count
                  <= views[(Attributes(n) \o more)[a].view].length
           /\ (Attributes(n) \o more)[2].count = n
<1> DEFINE S == {a \in [view : Nat, size : Nat, count : Nat] :
                            a.size * a.count <= views[a.view].length}
           s == Attributes(n)
<1>1. s \in Seq(S) /\ DOMAIN s = 1 .. 3 /\ s[2].count = n
  <2> DEFINE r1 == [view |-> 1, size |-> 12, count |-> n]
             r2 == [view |-> 2, size |-> 8,  count |-> n]
             r3 == [view |-> 3, size |-> 12, count |-> n]
  <2>1. r1 \in S /\ r2 \in S /\ r3 \in S /\ r2.count = n
    OBVIOUS
  <2>2. s = <<r1, r2, r3>>
    BY DEF Attributes
  <2> HIDE DEF S, r1, r2, r3, s
  <2> QED BY <2>1, <2>2
<1>2. more \in Seq(S)
  OBVIOUS
<1> HIDE DEF s
<1>3. \A a \in DOMAIN (s \o more) : (s \o more)[a] \in S
  <2> HIDE DEF S
  <2> QED BY <1>1, <1>2, TwoFit
<1>4. (s \o more)[2] = s[2]
  <2>1. 2 \in DOMAIN s
    BY <1>1
  <2> HIDE DEF S
  <2> QED BY <1>1, <1>2, <2>1, TwoFit
<1>5. \A a \in DOMAIN (s \o more) :
        (s \o more)[a].size * (s \o more)[a].count <= views[(s \o more)[a].view].length
  <2> DEFINE c == s \o more
  <2>1. \A a \in DOMAIN c : c[a] \in S
    BY <1>3
  <2> HIDE DEF c
  <2>2. \A a \in DOMAIN c : c[a].size * c[a].count <= views[c[a].view].length
    BY <2>1
  <2> QED BY <2>2 DEF c
<1> QED BY <1>1, <1>4, <1>5 DEF s

-----------------------------------------------------------------------------
(***************************************************************************)
(* The triangles.                                                          *)
(***************************************************************************)

Triangle == Int \X Int \X Int

SkinSide == {t \in Triangle : \A v \in Range2(t) : v < SkinVerts}
EyeSide  == {t \in Triangle : \A v \in Range2(t) : v >= SkinVerts}

LEMMA Corners ==
    ASSUME NEW t \in Triangle
    PROVE  Range2(t) \subseteq Int /\ t[1] \in Range2(t) /\ t[1] \in Int
BY DEF Triangle, Range2

LEMMA SidesDiffer == SkinSide \cap EyeSide = {}
<1> SUFFICES ASSUME NEW t \in SkinSide \cap EyeSide PROVE FALSE
  OBVIOUS
<1>1. t[1] \in Range2(t) /\ t[1] \in Int /\ SkinVerts \in Nat
  BY Corners, MeshNumbers DEF SkinSide
<1>2. t[1] < SkinVerts /\ t[1] >= SkinVerts
  BY <1>1 DEF SkinSide, EyeSide
<1> QED BY <1>1, <1>2

\* A filter only looks at what the list holds.
LEMMA SameUpto ==
    ASSUME NEW V, NEW s \in Seq(V), NEW A, NEW B, \A n \in 1 .. Len(s) : s[n] \in A <=> s[n] \in B,
           NEW n \in 0 .. Len(s)
    PROVE  Upto(s, A, n) = Upto(s, B, n)
<1>1. {m \in 1 .. n : s[m] \in A} = {m \in 1 .. n : s[m] \in B}
  <2>1. Len(s) \in Nat
    BY LenProperties
  <2>2. \A m \in 1 .. n : m \in 1 .. Len(s)
    BY <2>1
  <2> QED BY <2>2
<1> QED BY <1>1, Zenon DEF Upto

\* The two lists of a head of which none is left out, and where its triangles are.
LEMMA SplitsWhole ==
    ASSUME NEW V, NEW s \in Seq(V), NEW A, NEW B, A \cap B = {},
           Len(s) = Len(Keep(s, A)) + Len(Keep(s, B))
    PROVE  \A n \in 1 .. Len(s) : s[n] \in A \/ s[n] \in B
<1> DEFINE L == 1 .. Len(s)
           a == {m \in L : s[m] \in A}
           b == {m \in L : s[m] \in B}
<1>1. Len(s) \in Nat
  BY LenProperties
<1>2. Len(Keep(s, A)) = Cardinality(a) /\ Len(Keep(s, B)) = Cardinality(b)
  BY KeptPlaces DEF Upto
<1>3. IsFiniteSet(L) /\ Cardinality(L) = Len(s)
  BY <1>1, FS_Interval
<1>4. a \in SUBSET L /\ b \in SUBSET L /\ a \cap b = {}
  OBVIOUS
<1> HIDE DEF L, a, b
<1>5. IsFiniteSet(a) /\ IsFiniteSet(b)
  BY <1>3, <1>4, FS_Subset
<1>6. Cardinality(a \cup b) = Cardinality(a) + Cardinality(b) - Cardinality(a \cap b)
  BY <1>5, FS_Union
<1>7. Cardinality(a) \in Nat /\ Cardinality(b) \in Nat
  BY <1>5, FS_CardinalityType
<1>8. Cardinality(a \cap b) = 0
  BY <1>4, FS_EmptySet
<1>9. Cardinality(a \cup b) = Cardinality(L)
  BY <1>2, <1>3, <1>6, <1>7, <1>8
<1>10. a \cup b = L
  <2>1. a \cup b \in SUBSET L
    BY <1>4
  <2> QED BY <1>3, <1>9, <2>1, FS_Subset
<1> QED BY <1>10 DEF a, b, L

\* The primitives of a head whose triangles are all on one side.
LEMMA FlameHoldsEach ==
    ASSUME NEW tris \in Seq(Triangle), NEW from, from # "mat",
           Len(tris) = Len(SkinOf(tris)) + Len(EyeOf(tris)),
           NEW file, file.prims = <<SkinOf(tris), EyeOf(tris)>>
    PROVE  HoldsEach(file, from, tris)
<1> DEFINE A == {t \in ToSet(tris) : \A v \in Range2(t) : v < SkinVerts}
           B == {t \in ToSet(tris) : \A v \in Range2(t) : v >= SkinVerts}
<1>1. SkinOf(tris) = Keep(tris, A) /\ EyeOf(tris) = Keep(tris, B)
  BY DEF SkinOf, EyeOf
<1>2. Len(tris) \in Nat /\ DOMAIN tris = 1 .. Len(tris)
  BY LenProperties
<1>3. ASSUME NEW t \in ToSet(tris) PROVE t \in Triangle
  BY <1>2, <1>3, ElementOfSeq DEF ToSet
<1>4. A \cap B = {}
  <2>1. A \subseteq SkinSide /\ B \subseteq EyeSide
    BY <1>3 DEF SkinSide, EyeSide
  <2> QED BY <2>1, SidesDiffer
<1>5. ASSUME NEW n \in 1 .. Len(tris)
      PROVE  tris[n] \in A <=> \A v \in Range2(tris[n]) : v < SkinVerts
  <2>1. tris[n] \in ToSet(tris)
    BY <1>2 DEF ToSet
  <2> QED BY <2>1
<1> HIDE DEF A, B
<1>6. \A n \in 1 .. Len(tris) : tris[n] \in A \/ tris[n] \in B
  BY <1>1, <1>4, SplitsWhole
<1>7. ASSUME NEW n \in 1 .. Len(tris)
      PROVE  /\ tris[n] \in A => Side(tris[n], from) = 1
             /\ tris[n] \in B => Side(tris[n], from) = 2
             /\ Side(tris[n], from) = 1 <=> tris[n] \in A
             /\ Side(tris[n], from) = 2 <=> tris[n] \in B
  <2>1. Side(tris[n], from) = IF tris[n] \in A THEN 1 ELSE 2
    BY <1>5 DEF Side
  <2>2. ~(tris[n] \in A /\ tris[n] \in B)
    BY <1>4
  <2> QED BY <1>6, <2>1, <2>2
<1>8. /\ DOMAIN file.prims = 1 .. 2
      /\ file.prims[1] = Keep(tris, A) /\ file.prims[2] = Keep(tris, B)
  BY <1>1
<1>9. /\ Len(Keep(tris, A)) = Upto(tris, A, Len(tris))
      /\ \A n \in 1 .. Len(tris) : tris[n] \in A => Keep(tris, A)[Upto(tris, A, n)] = tris[n]
  BY KeptPlaces
<1>10. /\ Len(Keep(tris, B)) = Upto(tris, B, Len(tris))
       /\ \A n \in 1 .. Len(tris) : tris[n] \in B => Keep(tris, B)[Upto(tris, B, n)] = tris[n]
  BY KeptPlaces
<1>11. ASSUME NEW n \in 0 .. Len(tris)
       PROVE  /\ {m \in 1 .. n : Side(tris[m], from) = 1} = {m \in 1 .. n : tris[m] \in A}
              /\ {m \in 1 .. n : Side(tris[m], from) = 2} = {m \in 1 .. n : tris[m] \in B}
  <2>1. \A m \in 1 .. n : m \in 1 .. Len(tris)
    BY <1>2
  <2> QED BY <1>7, <2>1
<1>12. ASSUME NEW p \in DOMAIN file.prims
       PROVE  Len(file.prims[p]) = Cardinality({n \in DOMAIN tris : Side(tris[n], from) = p})
  <2>1. Len(tris) \in 0 .. Len(tris)
    BY <1>2
  <2>2. /\ {m \in DOMAIN tris : Side(tris[m], from) = 1} = {m \in 1 .. Len(tris) : tris[m] \in A}
        /\ {m \in DOMAIN tris : Side(tris[m], from) = 2} = {m \in 1 .. Len(tris) : tris[m] \in B}
    BY <1>2, <1>11, <2>1
  <2>3. /\ Cardinality({m \in DOMAIN tris : Side(tris[m], from) = 1}) = Len(Keep(tris, A))
        /\ Cardinality({m \in DOMAIN tris : Side(tris[m], from) = 2}) = Len(Keep(tris, B))
    BY <1>9, <1>10, <2>2, Zenon DEF Upto
  <2>4. p = 1 \/ p = 2
    BY <1>8
  <2> QED BY <1>8, <2>3, <2>4
<1>13. ASSUME NEW n \in DOMAIN tris
       PROVE  file.prims[Side(tris[n], from)][Place(tris, from, n)] = tris[n]
  <2>1. n \in 1 .. Len(tris) /\ n \in 0 .. Len(tris)
    BY <1>2
  <2>2. CASE tris[n] \in A
    <3>1. Side(tris[n], from) = 1
      BY <1>7, <2>1, <2>2
    <3>2. Place(tris, from, n) = Upto(tris, A, n)
      BY <1>11, <2>1, <3>1, Zenon DEF Place, Upto
    <3> QED BY <1>8, <1>9, <2>1, <2>2, <3>1, <3>2
  <2>3. CASE tris[n] \in B
    <3>1. Side(tris[n], from) = 2
      BY <1>7, <2>1, <2>3
    <3>2. Place(tris, from, n) = Upto(tris, B, n)
      BY <1>11, <2>1, <3>1, Zenon DEF Place, Upto
    <3> QED BY <1>8, <1>10, <2>1, <2>3, <3>1, <3>2
  <2> QED BY <1>6, <2>1, <2>2, <2>3
<1> QED BY <1>12, <1>13 DEF HoldsEach

\* The one primitive of a head of a V3 figure.
LEMMA DenseHoldsEach ==
    ASSUME NEW tris \in Seq(Triangle), NEW from, from = "mat", NEW file, file.prims = <<tris>>
    PROVE  HoldsEach(file, from, tris)
<1>1. Len(tris) \in Nat /\ DOMAIN tris = 1 .. Len(tris)
  BY LenProperties
<1>2. \A t : Side(t, from) = 1
  BY DEF Side
<1>3. DOMAIN file.prims = {1} /\ file.prims[1] = tris
  OBVIOUS
<1>4. \A n \in Nat : Cardinality(1 .. n) = n
  <2> SUFFICES ASSUME NEW n \in Nat PROVE Cardinality(1 .. n) = n
    OBVIOUS
  <2> QED BY FS_Interval
<1>5. {n \in DOMAIN tris : Side(tris[n], from) = 1} = 1 .. Len(tris)
  BY <1>1, <1>2
<1>6. ASSUME NEW n \in DOMAIN tris PROVE Place(tris, from, n) = n
  <2>1. {m \in 1 .. n : Side(tris[m], from) = Side(tris[n], from)} = 1 .. n
    BY <1>2
  <2>2. n \in Nat
    BY <1>1
  <2>3. Place(tris, from, n) = Cardinality(1 .. n)
    BY <2>1, Zenon DEF Place
  <2> QED BY <1>4, <2>2, <2>3
<1>7. Len(tris) = Cardinality({n \in DOMAIN tris : Side(tris[n], from) = 1})
  BY <1>1, <1>4, <1>5
<1> QED BY <1>2, <1>3, <1>6, <1>7 DEF HoldsEach

LEMMA FlameIndices ==
    ASSUME NEW file, NEW skin, NEW eye, file.prims = <<skin, eye>>,
           file.accessors[2].count = VertCount,
           Within(skin, 0 .. SkinVerts - 1), Within(eye, SkinVerts .. VertCount - 1)
    PROVE  IndicesAreSound(file)
<1>1. DOMAIN file.prims = 1 .. 2 /\ file.prims[1] = skin /\ file.prims[2] = eye
  OBVIOUS
<1>2. SkinVerts \in Nat /\ VertCount \in Nat /\ SkinVerts <= VertCount
  BY MeshNumbers
<1>3. \A v \in 0 .. SkinVerts - 1 : v \in 0 .. VertCount - 1 /\ ~IsEye(v)
  BY <1>2 DEF IsEye
<1>4. \A v \in SkinVerts .. VertCount - 1 : v \in 0 .. VertCount - 1 /\ IsEye(v)
  BY <1>2 DEF IsEye
<1>5. ASSUME NEW n \in DOMAIN skin
      PROVE  /\ Range2(skin[n]) \subseteq 0 .. VertCount - 1
             /\ \A v, w \in Range2(skin[n]) : IsEye(v) = IsEye(w)
  <2>1. \A v \in Range2(skin[n]) : v \in 0 .. VertCount - 1 /\ ~IsEye(v)
    BY <1>3 DEF Within
  <2> QED BY <2>1 DEF IsEye
<1>6. ASSUME NEW n \in DOMAIN eye
      PROVE  /\ Range2(eye[n]) \subseteq 0 .. VertCount - 1
             /\ \A v, w \in Range2(eye[n]) : IsEye(v) = IsEye(w)
  <2>1. \A v \in Range2(eye[n]) : v \in 0 .. VertCount - 1 /\ IsEye(v)
    BY <1>4 DEF Within
  <2> QED BY <2>1 DEF IsEye
<1> QED BY <1>1, <1>5, <1>6 DEF IndicesAreSound

LEMMA DenseIndices ==
    ASSUME NEW tris \in Seq(Triangle), NEW file, file.prims = <<tris>>,
           file.accessors[2].count = VertCount, Within(tris, 0 .. VertCount - 1),
           \A n \in 1 .. Len(tris) : tris[n] \in SkinSide \cup EyeSide
    PROVE  IndicesAreSound(file)
<1>1. DOMAIN file.prims = {1} /\ file.prims[1] = tris
  OBVIOUS
<1>2. SkinVerts \in Nat /\ VertCount \in Nat
  BY MeshNumbers
<1>3. DOMAIN tris = 1 .. Len(tris)
  BY LenProperties
<1>4. ASSUME NEW n \in DOMAIN tris
      PROVE  /\ Range2(tris[n]) \subseteq 0 .. VertCount - 1
             /\ \A v, w \in Range2(tris[n]) : IsEye(v) = IsEye(w)
  <2>1. Range2(tris[n]) \subseteq 0 .. VertCount - 1
    BY DEF Within
  <2>2. CASE tris[n] \in SkinSide
    <3>1. \A v \in Range2(tris[n]) : ~IsEye(v)
      BY <1>2, <2>1, <2>2 DEF SkinSide, IsEye
    <3> QED BY <2>1, <3>1 DEF IsEye
  <2>3. CASE tris[n] \in EyeSide
    <3>1. \A v \in Range2(tris[n]) : IsEye(v)
      BY <1>2, <2>1, <2>3 DEF EyeSide, IsEye
    <3> QED BY <2>1, <3>1 DEF IsEye
  <2> QED BY <1>3, <2>2, <2>3
<1> QED BY <1>1, <1>4 DEF IndicesAreSound

-----------------------------------------------------------------------------
(***************************************************************************)
(* The heads the code draws itself.                                        *)
(***************************************************************************)

Square == Nat \X Nat \X Nat \X Nat

LEMMA Products == \A x, y \in Nat : x * y \in Nat
OBVIOUS

LEMMA CornerType ==
    ASSUME NEW r \in Nat, NEW c \in Nat, NEW cols \in Nat \ {0}, NEW base \in Nat
    PROVE  Corner(r, c, cols, base) \in Nat
<1>1. c % cols \in Nat /\ r * cols \in Nat
  BY Products
<1> QED BY <1>1 DEF Corner

LEMMA GridType ==
    ASSUME NEW cols \in Nat \ {0}, NEW rows \in Nat \ {0}, NEW base \in Nat
    PROVE  /\ Grid(cols, rows, base) \in Seq(Square)
           /\ Len(Grid(cols, rows, base)) = cols * (rows - 1)
<1> DEFINE n == cols * (rows - 1)
<1>1. n \in Nat
  BY rows - 1 \in Nat, Products
<1>2. ASSUME NEW k \in 1 .. n
      PROVE  LET r == (k - 1) \div cols
                 c == (k - 1) % cols
             IN  <<Corner(r, c, cols, base), Corner(r, c + 1, cols, base),
                   Corner(r + 1, c, cols, base), Corner(r + 1, c + 1, cols, base)>> \in Square
  <2> DEFINE r == (k - 1) \div cols
             c == (k - 1) % cols
  <2>1. r \in Nat /\ c \in Nat
    BY <1>1
  <2> HIDE DEF r, c
  <2>2. r + 1 \in Nat /\ c + 1 \in Nat
    BY <2>1
  <2>3. /\ Corner(r, c, cols, base) \in Nat /\ Corner(r, c + 1, cols, base) \in Nat
        /\ Corner(r + 1, c, cols, base) \in Nat /\ Corner(r + 1, c + 1, cols, base) \in Nat
    BY <2>1, <2>2, CornerType
  <2>4. <<Corner(r, c, cols, base), Corner(r, c + 1, cols, base),
          Corner(r + 1, c, cols, base), Corner(r + 1, c + 1, cols, base)>> \in Square
    BY <2>3 DEF Square
  <2> QED BY <2>4 DEF r, c
<1> DEFINE g == Grid(cols, rows, base)
<1>3. DOMAIN g = 1 .. n /\ \A k \in 1 .. n : g[k] \in Square
  <2>1. g = [k \in 1 .. n |->
               LET r == (k - 1) \div cols
                   c == (k - 1) % cols
               IN  <<Corner(r, c, cols, base), Corner(r, c + 1, cols, base),
                     Corner(r + 1, c, cols, base), Corner(r + 1, c + 1, cols, base)>>]
    BY DEF Grid
  <2> HIDE DEF n
  <2> QED BY <1>2, <2>1
<1>4. g = [k \in 1 .. n |-> g[k]]
  BY Zenon, <1>3 DEF Grid
<1> HIDE DEF g, n
<1>5. g \in Seq(Square) /\ Len(g) = n
  BY <1>1, <1>3, <1>4
<1> QED BY <1>5 DEF g, n

LEMMA HalfType ==
    ASSUME NEW q \in Square, NEW first
    PROVE  Half(q, first) \in Nat \X Nat \X Nat
BY DEF Square, Half

\* A list given by its elements.
LEMMA ListType ==
    ASSUME NEW n \in Nat, NEW V, NEW f, f = [k \in 1 .. n |-> f[k]], \A k \in 1 .. n : f[k] \in V
    PROVE  f \in Seq(V) /\ Len(f) = n
OBVIOUS

Ball == Nat \X Nat \X Nat

LEMMA BallIsTriangle == Ball \subseteq Triangle
BY DEF Ball, Triangle

\* Twice the squares of a grid.
LEMMA Halves ==
    ASSUME NEW m \in Nat, NEW n \in 1 .. 2 * m
    PROVE  (n + 1) \div 2 \in 1 .. m
OBVIOUS

LEMMA SphereType == EyeSphere \in Seq(Ball)
<1> DEFINE g == Grid(EyeCols, EyeRows, 0)
           m == EyeCols * (EyeRows - 1)
           n == 2 * EyeCols * (EyeRows - 1)
<1>1. EyeCols \in Nat \ {0} /\ EyeRows \in Nat \ {0} /\ EyeRows - 1 \in Nat
  BY MeshAssumption
<1>2. g \in Seq(Square) /\ Len(g) = m
  BY <1>1, GridType
<1>3. m \in Nat
  BY <1>1, Products
<1>4. n = 2 * m
  <2>1. \A x, y \in Nat : 2 * x * y = 2 * (x * y)
    OBVIOUS
  <2> QED BY <1>1, <2>1
<1> HIDE DEF g, m
<1>5. ASSUME NEW k \in 1 .. n PROVE Half(g[(k + 1) \div 2], k % 2 = 1) \in Ball
  <2>1. (k + 1) \div 2 \in 1 .. m
    BY <1>3, <1>4, Halves
  <2>2. g[(k + 1) \div 2] \in Square
    BY <1>2, <2>1, ElementOfSeq
  <2> QED BY <2>2, HalfType DEF Ball
<1>6. EyeSphere = [k \in 1 .. n |-> Half(g[(k + 1) \div 2], k % 2 = 1)]
  BY DEF EyeSphere, g
<1>7. n \in Nat
  BY <1>3, <1>4
<1> HIDE DEF n
<1> QED BY <1>5, <1>6, <1>7

LEMMA ShiftType ==
    ASSUME NEW tris \in Seq(Ball), NEW by \in Nat, by >= SkinVerts
    PROVE  Shift(tris, by) \in Seq(EyeSide)
<1>1. Len(tris) \in Nat /\ DOMAIN tris = 1 .. Len(tris)
  BY LenProperties
<1>2. ASSUME NEW n \in 1 .. Len(tris)
      PROVE  [i \in 1 .. 3 |-> tris[n][i] + by] \in EyeSide
  <2>1. tris[n] \in Ball
    BY ElementOfSeq
  <2>2. tris[n][1] \in Nat /\ tris[n][2] \in Nat /\ tris[n][3] \in Nat
    BY <2>1 DEF Ball
  <2> DEFINE t == [i \in 1 .. 3 |-> tris[n][i] + by]
  <2>3. t[1] \in Nat /\ t[2] \in Nat /\ t[3] \in Nat
        /\ t[1] >= by /\ t[2] >= by /\ t[3] >= by
    BY SMTT(30), <2>2
  <2>4. t = <<t[1], t[2], t[3]>>
    OBVIOUS
  <2> HIDE DEF t
  <2>5. t \in Triangle
    BY <2>3, <2>4 DEF Triangle
  <2>6. SkinVerts \in Nat
    BY MeshNumbers
  <2>7. \A v \in Range2(t) : v >= SkinVerts
    BY <2>3, <2>6 DEF Range2
  <2> QED BY <2>5, <2>7 DEF EyeSide, t
<1>3. Shift(tris, by) = [n \in 1 .. Len(tris) |-> [i \in 1 .. 3 |-> tris[n][i] + by]]
  BY <1>1 DEF Shift
<1> QED BY <1>1, <1>2, <1>3

\* The eyes of a V3 figure come after the numbers of its head.
LEMMA EyeballsAreEyes ==
    ASSUME NEW tris \in Seq(SkinSide)
    PROVE  /\ AddEyeballs(tris) \in Seq(Triangle)
           /\ \A n \in 1 .. Len(AddEyeballs(tris)) : AddEyeballs(tris)[n] \in SkinSide \cup EyeSide
<1> DEFINE S == SkinSide \cup EyeSide
           a == Shift(EyeSphere, SkinVerts)
           b == Shift(EyeSphere, SkinVerts + BallVerts)
<1>1. SkinVerts \in Nat /\ SkinVerts + BallVerts \in Nat
      /\ SkinVerts >= SkinVerts /\ SkinVerts + BallVerts >= SkinVerts
  BY MeshNumbers
<1>2. a \in Seq(EyeSide) /\ b \in Seq(EyeSide)
  BY <1>1, SphereType, ShiftType
<1> HIDE DEF a, b
<1>3. \A T, U : T \subseteq U => Seq(T) \subseteq Seq(U)
  OBVIOUS
<1>4. SkinSide \subseteq S /\ EyeSide \subseteq S /\ S \subseteq Triangle
  BY DEF SkinSide, EyeSide
<1>5. tris \in Seq(S) /\ a \in Seq(S) /\ b \in Seq(S)
  BY <1>2, <1>3, <1>4
<1> HIDE DEF S
<1>6. tris \o a \in Seq(S)
  BY <1>5, ConcatProperties
<1>7. tris \o a \o b \in Seq(S)
  BY <1>5, <1>6, ConcatProperties
<1>8. AddEyeballs(tris) \in Seq(S)
  BY <1>7 DEF AddEyeballs, a, b
<1>9. AddEyeballs(tris) \in Seq(Triangle)
  BY <1>3, <1>4, <1>8
<1>10. \A n \in 1 .. Len(AddEyeballs(tris)) : AddEyeballs(tris)[n] \in S
  BY <1>8, ElementOfSeq
<1> QED BY <1>9, <1>10 DEF S

\* The cut leaves at least one square of the skin's grid.
LEMMA QuadsType ==
    LET grid  == Grid(SkinCols, SkinRows, 0)
        quads == Keep(grid, {q \in ToSet(grid) : \A i \in 1 .. 4 : q[i] < SkinVerts})
    IN  quads \in Seq(Square) /\ Len(quads) \in Nat \ {0}
<1> DEFINE grid == Grid(SkinCols, SkinRows, 0)
           T == {q \in ToSet(grid) : \A i \in 1 .. 4 : q[i] < SkinVerts}
           n == SkinCols * (SkinRows - 1)
<1>1. /\ SkinCols \in Nat \ {0, 1} /\ SkinRows \in Nat \ {0, 1}
      /\ SkinVerts \in Nat /\ SkinVerts >= 2 * SkinCols + 1
  BY MeshAssumption, MeshNumbers
<1>2. grid \in Seq(Square) /\ Len(grid) = n
  BY <1>1, GridType
<1>3. n \in Nat /\ n >= 1
  <2>1. \A x, y \in Nat \ {0} : x * y \in Nat \ {0}
    OBVIOUS
  <2>2. SkinRows - 1 \in Nat \ {0}
    BY <1>1
  <2>3. n \in Nat \ {0}
    BY <1>1, <2>1, <2>2
  <2> QED BY <2>3
<1>4. grid[1] = <<Corner(0, 0, SkinCols, 0), Corner(0, 0 + 1, SkinCols, 0),
                  Corner(0 + 1, 0, SkinCols, 0), Corner(0 + 1, 0 + 1, SkinCols, 0)>>
  <2>1. 1 \in 1 .. n
    BY <1>3
  <2>2. (1 - 1) \div SkinCols = 0 /\ (1 - 1) % SkinCols = 0
    BY <1>1
  <2> HIDE DEF n
  <2> QED BY <2>1, <2>2 DEF Grid, n
<1>5. \A i \in 1 .. 4 : grid[1][i] < SkinVerts
  <2>1. /\ 0 % SkinCols = 0 /\ 1 % SkinCols = 1
        /\ 0 * SkinCols = 0 /\ 1 * SkinCols = SkinCols
    BY <1>1
  <2>2. /\ Corner(0, 0, SkinCols, 0) = 0 /\ Corner(0, 0 + 1, SkinCols, 0) = 1
        /\ Corner(0 + 1, 0, SkinCols, 0) = SkinCols
        /\ Corner(0 + 1, 0 + 1, SkinCols, 0) = SkinCols + 1
    BY <1>1, <2>1 DEF Corner
  <2>3. grid[1] = <<0, 1, SkinCols, SkinCols + 1>>
    BY <1>4, <2>2
  <2> HIDE DEF grid
  <2> QED BY <1>1, <2>3
<1>6. grid[1] \in T
  <2>1. 1 \in DOMAIN grid
    BY <1>2, <1>3, LenProperties
  <2>2. grid[1] \in ToSet(grid)
    BY <2>1 DEF ToSet
  <2> QED BY <1>5, <2>2
<1> HIDE DEF grid, T, n
<1>7. Keep(grid, T) \in Seq(Square) /\ Upto(grid, T, 1) \in 1 .. Len(Keep(grid, T))
  BY <1>2, <1>3, <1>6, KeptPlaces
<1>8. Len(Keep(grid, T)) \in Nat \ {0}
  <2>1. Len(Keep(grid, T)) \in Nat
    BY <1>7, LenProperties
  <2> QED BY <1>7, <2>1
<1> QED BY <1>7, <1>8 DEF grid, T

\* A synthetic head has as many triangles as were asked for.
LEMMA SyntheticType ==
    /\ SyntheticFlameTemplate \in Seq(Triangle)
    /\ Len(SyntheticFlameTemplate) = SkinTris + EyeTris
<1> DEFINE grid  == Grid(SkinCols, SkinRows, 0)
           quads == Keep(grid, {q \in ToSet(grid) : \A i \in 1 .. 4 : q[i] < SkinVerts})
           half(quad, n) == Half(quad, n % 2 = 1)
           skinAt(n) == IF n <= 2 * Len(quads) THEN half(quads[(n + 1) \div 2], n)
                        ELSE half(quads[((n - 2 * Len(quads) - 1) % Len(quads)) + 1], n)
           skin == [n \in 1 .. SkinTris |-> skinAt(n)]
           ballAt(b, n) == half(Grid(EyeCols, EyeRows, SkinVerts + b * BallVerts)[(n + 1) \div 2], n)
           ball(b) == [n \in 1 .. EyeTris \div 2 |-> ballAt(b, n)]
<1>1. SyntheticFlameTemplate = skin \o ball(0) \o ball(1)
  BY DEF SyntheticFlameTemplate
<1>2. /\ SkinTris \in Nat /\ EyeTris \in Nat /\ EyeTris \div 2 \in Nat
      /\ 2 * (EyeTris \div 2) = EyeTris
      /\ SkinVerts \in Nat /\ BallVerts \in Nat
  BY MeshAssumption, MeshNumbers
<1>3. quads \in Seq(Square) /\ Len(quads) \in Nat \ {0}
  BY QuadsType
<1> HIDE DEF quads
<1>4. skin \in Seq(Ball) /\ Len(skin) = SkinTris
  <2> DEFINE m == Len(quads)
  <2>1. ASSUME NEW n \in 1 .. SkinTris PROVE skinAt(n) \in Ball
    <3>1. CASE n <= 2 * m
      <4>1. (n + 1) \div 2 \in 1 .. m
        <5>1. n \in 1 .. 2 * m
          BY <1>2, <1>3, <3>1
        <5> QED BY <1>3, <5>1, Halves
      <4>2. quads[(n + 1) \div 2] \in Square
        BY <1>3, <4>1, ElementOfSeq
      <4> QED BY <3>1, <4>2, HalfType DEF Ball
    <3>2. CASE ~(n <= 2 * m)
      <4>1. ((n - 2 * m - 1) % m) + 1 \in 1 .. m
        <5>1. n - 2 * m - 1 \in Nat
          BY <1>2, <1>3, <3>2
        <5>2. \A x \in Nat, y \in Nat \ {0} : (x % y) + 1 \in 1 .. y
          OBVIOUS
        <5> QED BY <1>3, <5>1, <5>2
      <4>2. quads[((n - 2 * m - 1) % m) + 1] \in Square
        BY <1>3, <4>1, ElementOfSeq
      <4> QED BY <3>2, <4>2, HalfType DEF Ball
    <3> QED BY <3>1, <3>2
  <2> HIDE DEF skinAt
  <2> QED BY <1>2, <2>1
<1>5. ASSUME NEW b \in 0 .. 1 PROVE ball(b) \in Seq(Ball) /\ Len(ball(b)) = EyeTris \div 2
  <2> DEFINE g == Grid(EyeCols, EyeRows, SkinVerts + b * BallVerts)
             m == EyeCols * (EyeRows - 1)
             k == EyeTris \div 2
  <2>1. /\ EyeCols \in Nat \ {0} /\ EyeRows \in Nat \ {0} /\ EyeRows - 1 \in Nat
        /\ EyeTris <= 4 * EyeCols * (EyeRows - 1)
    BY MeshAssumption
  <2>2. SkinVerts + b * BallVerts \in Nat
    BY <1>2, Products
  <2>3. g \in Seq(Square) /\ Len(g) = m
    BY <2>1, <2>2, GridType
  <2>4. m \in Nat /\ EyeTris <= 4 * m
    <3>1. \A x, y \in Nat : 4 * x * y = 4 * (x * y)
      OBVIOUS
    <3> QED BY <2>1, <3>1, Products
  <2> HIDE DEF m
  <2>5. k \in Nat /\ k <= 2 * m
    BY <1>2, <2>4
  <2> HIDE DEF g, k
  <2>6. ASSUME NEW n \in 1 .. k PROVE Half(g[(n + 1) \div 2], n % 2 = 1) \in Ball
    <3>1. n \in 1 .. 2 * m
      BY <2>4, <2>5
    <3>2. (n + 1) \div 2 \in 1 .. m
      BY <2>4, <3>1, Halves
    <3>3. g[(n + 1) \div 2] \in Square
      BY <2>3, <3>2, ElementOfSeq
    <3> QED BY <3>3, HalfType DEF Ball
  <2>7. ball(b) = [n \in 1 .. k |-> Half(g[(n + 1) \div 2], n % 2 = 1)]
    BY DEF g, k
  <2> HIDE DEF ball
  <2>8. ball(b) \in Seq(Ball) /\ Len(ball(b)) = k
    BY <2>5, <2>6, <2>7
  <2> QED BY <2>8 DEF k
<1>6. /\ ball(0) \in Seq(Ball) /\ Len(ball(0)) = EyeTris \div 2
      /\ ball(1) \in Seq(Ball) /\ Len(ball(1)) = EyeTris \div 2
  <2>1. 0 \in 0 .. 1 /\ 1 \in 0 .. 1
    OBVIOUS
  <2> HIDE DEF ball
  <2> QED BY <1>5, <2>1
<1> HIDE DEF skin, ball
<1>7. skin \o ball(0) \in Seq(Ball) /\ Len(skin \o ball(0)) = SkinTris + EyeTris \div 2
  BY <1>4, <1>6, ConcatProperties
<1>8. /\ skin \o ball(0) \o ball(1) \in Seq(Ball)
      /\ Len(skin \o ball(0) \o ball(1)) = SkinTris + EyeTris \div 2 + EyeTris \div 2
  <2> DEFINE c == skin \o ball(0)
  <2>1. c \in Seq(Ball) /\ Len(c) = SkinTris + EyeTris \div 2
    BY <1>7
  <2> HIDE DEF c
  <2>2. c \o ball(1) \in Seq(Ball) /\ Len(c \o ball(1)) = Len(c) + Len(ball(1))
    BY <1>6, <2>1, ConcatProperties
  <2> QED BY <1>6, <2>1, <2>2 DEF c
<1>9. SkinTris + EyeTris \div 2 + EyeTris \div 2 = SkinTris + EyeTris
  BY <1>2
<1>10. Seq(Ball) \subseteq Seq(Triangle)
  BY BallIsTriangle
<1> QED BY <1>1, <1>8, <1>9, <1>10

-----------------------------------------------------------------------------
(***************************************************************************)
(* Whatever the head, the file that is built of it is whole.               *)
(***************************************************************************)

Sound(file, from, whole) ==
    /\ ViewsAreOwn(file, from) /\ AccessorsFit(file) /\ IndicesAreSound(file)
    /\ HoldsEach(file, from, whole)

Counts(file, n) == Len(file.prims[1]) + Len(file.prims[2]) = n

LEMMA FlameIsWhole ==
    ASSUME faces \in Seq(Triangle), NEW from, from # "mat",
           NEW skinPng \in Pngs, NEW eyePng \in Pngs, NEW json, NEW file,
           file = BuildPersonalizedGlb(skinPng, eyePng, json), file # NoGlb
    PROVE  Sound(file, from, faces) /\ Counts(file, Len(faces))
<1> DEFINE skin == SkinOf(faces)
           eye  == EyeOf(faces)
           lengths == <<12 * VertCount, 8 * VertCount, 12 * VertCount, 6 * Len(skin),
                        6 * Len(eye), skinPng, eyePng>>
           more == <<Indices(4, 2, skin), Indices(5, 2, eye)>>
           accessors == Attributes(VertCount) \o more
           prims == <<skin, eye>>
           layout == Seven(Padded(lengths))
<1>1. /\ Len(faces) = Len(skin) + Len(eye)
      /\ Within(skin, 0 .. SkinVerts - 1) /\ Within(eye, SkinVerts .. VertCount - 1)
      /\ file = File(layout, lengths, accessors, prims, json)
  BY DEF BuildPersonalizedGlb
<1>2. skin \in Seq(Triangle) /\ eye \in Seq(Triangle)
  BY KeptPlaces DEF SkinOf, EyeOf
<1>3. Len(skin) \in Nat /\ Len(eye) \in Nat
  BY <1>2, LenProperties
<1>4. VertCount \in Nat /\ skinPng \in Nat /\ eyePng \in Nat
  BY MeshNumbers
<1> HIDE DEF skin, eye
<1>5. DOMAIN lengths = 1 .. 7 /\ \A k \in 1 .. 7 : lengths[k] \in Nat
  BY <1>3, <1>4
<1>6. /\ file.accessors = accessors /\ file.prims = prims
      /\ \A k \in 1 .. 7 : file.views[k].length = lengths[k]
  <2> HIDE DEF layout, lengths, accessors, prims
  <2> QED BY <1>1, <1>5 DEF File
<1>7. ViewsAreOwn(file, from)
  <2> HIDE DEF lengths, accessors, prims
  <2> QED BY <1>1, <1>5, FlameViews
<1>8. AccessorsFit(file) /\ file.accessors[2].count = VertCount
  <2> DEFINE views == file.views
  <2>1. /\ views[1].length = 12 * VertCount /\ views[2].length = 8 * VertCount
        /\ views[3].length = 12 * VertCount
        /\ views[4].length = 6 * Len(skin) /\ views[5].length = 6 * Len(eye)
    BY <1>6
  <2> HIDE DEF views
  <2> DEFINE S == {a \in [view : Nat, size : Nat, count : Nat] :
                     a.size * a.count <= views[a.view].length}
  <2>2. Indices(4, 2, skin) \in S /\ Indices(5, 2, eye) \in S
    BY <1>3, <2>1 DEF Indices
  <2>3. more \in Seq(S)
    <3> HIDE DEF S
    <3> QED BY <2>2
  <2>4. /\ views[1].length >= 12 * VertCount /\ views[2].length >= 8 * VertCount
        /\ views[3].length >= 12 * VertCount
        /\ \A k \in 1 .. 3 : views[k].length \in Nat
    BY SMTT(30), <1>4, <2>1
  <2> HIDE DEF more
  <2>5. /\ \A a \in DOMAIN accessors :
             accessors[a].size * accessors[a].count <= views[accessors[a].view].length
        /\ accessors[2].count = VertCount
    BY <1>4, <2>3, <2>4, AttributesFit
  <2> HIDE DEF accessors
  <2> QED BY <1>6, <2>5 DEF AccessorsFit, views
<1>9. IndicesAreSound(file)
  <2> HIDE DEF accessors, lengths
  <2> QED BY <1>1, <1>6, <1>8, FlameIndices
<1>10. HoldsEach(file, from, faces)
  <2> HIDE DEF accessors, lengths
  <2> QED BY <1>1, <1>6, FlameHoldsEach DEF skin, eye
<1>11. Counts(file, Len(faces))
  <2> HIDE DEF accessors, lengths
  <2>1. file.prims[1] = skin /\ file.prims[2] = eye
    BY <1>6
  <2> QED BY <1>1, <2>1 DEF Counts
<1> QED BY <1>7, <1>8, <1>9, <1>10, <1>11 DEF Sound

LEMMA DenseIsWhole ==
    ASSUME NEW tris \in Seq(Triangle), NEW from, from = "mat", NEW json, NEW file,
           \A n \in 1 .. Len(tris) : tris[n] \in SkinSide \cup EyeSide,
           file = BuildDenseGlb(tris, json), file # NoGlb
    PROVE  Sound(file, from, tris)
<1> DEFINE lengths == <<12 * VertCount, 8 * VertCount, 12 * VertCount, 12 * Len(tris)>>
           padded == Padded(lengths)
           declared == [k \in DOMAIN padded |-> Len(padded[k])]
           more == <<Indices(4, 4, tris)>>
           accessors == Attributes(VertCount) \o more
           prims == <<tris>>
           layout == Four(padded)
<1>1. /\ Within(tris, 0 .. VertCount - 1)
      /\ file = File(layout, declared, accessors, prims, json)
  BY DEF BuildDenseGlb
<1>2. Len(tris) \in Nat /\ VertCount \in Nat
  BY LenProperties, MeshNumbers
<1>3. DOMAIN lengths = 1 .. 4 /\ \A k \in 1 .. 4 : lengths[k] \in Nat
  BY <1>2
<1>4. declared = [k \in 1 .. 4 |-> Len(padded[k])]
  BY <1>3 DEF Padded
<1>5. ASSUME NEW k \in 1 .. 4 PROVE Len(padded[k]) \in Nat /\ lengths[k] <= Len(padded[k])
  <2>1. k \in Nat /\ k \in DOMAIN lengths /\ lengths[k] \in Nat
    BY <1>3
  <2> HIDE DEF lengths
  <2> QED BY <2>1, PaddedAligned
<1>6. /\ lengths[1] = 12 * VertCount /\ lengths[2] = 8 * VertCount
      /\ lengths[3] = 12 * VertCount /\ lengths[4] = 12 * Len(tris)
  OBVIOUS
<1> HIDE DEF lengths
<1>7. ViewsAreOwn(file, from)
  <2> HIDE DEF accessors, prims, declared
  <2> QED BY <1>1, <1>3, <1>4, DenseViews
<1> HIDE DEF padded, layout
<1>8. /\ file.accessors = accessors /\ file.prims = prims /\ file.views = file.views
      /\ \A k \in 1 .. 4 : file.views[k].length = Len(padded[k])
  <2>1. DOMAIN declared = 1 .. 4 /\ \A k \in 1 .. 4 : declared[k] = Len(padded[k])
    BY <1>4
  <2> HIDE DEF declared, accessors, prims
  <2> QED BY <1>1, <2>1 DEF File
<1>9. AccessorsFit(file) /\ file.accessors[2].count = VertCount
  <2> DEFINE views == file.views
  <2>1. \A k \in 1 .. 4 : views[k].length \in Nat /\ views[k].length >= lengths[k]
    BY <1>3, <1>5, <1>8
  <2> HIDE DEF views
  <2> DEFINE S == {a \in [view : Nat, size : Nat, count : Nat] :
                     a.size * a.count <= views[a.view].length}
  <2>2. Indices(4, 4, tris) \in S
    <3>1. views[4].length \in Nat /\ views[4].length >= 12 * Len(tris)
      BY <1>6, <2>1
    <3> QED BY <1>2, <3>1 DEF Indices
  <2>3. more \in Seq(S)
    <3> HIDE DEF S
    <3> QED BY <2>2
  <2>4. /\ views[1].length >= 12 * VertCount /\ views[2].length >= 8 * VertCount
        /\ views[3].length >= 12 * VertCount
        /\ \A k \in 1 .. 3 : views[k].length \in Nat
    BY <1>6, <2>1
  <2> HIDE DEF more
  <2>5. /\ \A a \in DOMAIN accessors :
             accessors[a].size * accessors[a].count <= views[accessors[a].view].length
        /\ accessors[2].count = VertCount
    BY <1>2, <2>3, <2>4, AttributesFit
  <2> HIDE DEF accessors
  <2> QED BY <1>8, <2>5 DEF AccessorsFit, views
<1>10. IndicesAreSound(file)
  <2> HIDE DEF accessors
  <2> QED BY <1>1, <1>8, <1>9, DenseIndices
<1>11. HoldsEach(file, from, tris)
  <2> HIDE DEF accessors
  <2> QED BY <1>8, DenseHoldsEach
<1> QED BY <1>7, <1>9, <1>10, <1>11 DEF Sound

-----------------------------------------------------------------------------
(***************************************************************************)
(* The mesh part.                                                          *)
(***************************************************************************)

MeshFileInv ==
    /\ faces \in Seq(Triangle)
    /\ origin = "synthetic" => Len(faces) = SkinTris + EyeTris
    /\ MeshIsWhole

LEMMA MeshFileStarts ==
    ASSUME MeshFileInit
    PROVE  MeshFileInv
<1>1. \A h \in Heads : h \in Seq(Triangle)
  BY MeshAssumption DEF Triangle
<1>2. faces \in Seq(Triangle) /\ (origin = "synthetic" => Len(faces) = SkinTris + EyeTris)
  BY <1>1, SyntheticType DEF MeshFileInit
<1>3. meshState = "open"
  BY DEF MeshFileInit, MeshFileClear
<1> QED BY <1>2, <1>3 DEF MeshFileInv, MeshIsWhole

LEMMA NoFile ==
    ASSUME NEW file, Built(file), meshState' = "built"
    PROVE  file # NoGlb /\ glb' = file
BY DEF Built, ParseGnmMesh

LEMMA BuildFlameKeeps ==
    ASSUME MeshFileInv, BuildFlame
    PROVE  MeshFileInv'
<1>1. PICK skinPng \in Pngs, eyePng \in Pngs, json \in Jsons :
         Built(BuildPersonalizedGlb(skinPng, eyePng, json))
  BY DEF BuildFlame
<1>2. origin' = origin /\ faces' = faces /\ origin # "mat" /\ faces \in Seq(Triangle)
  BY <1>1 DEF BuildFlame, Built, MeshFileInv
<1>3. ASSUME meshState' = "built"
      PROVE  Sound(glb', origin, faces) /\ Counts(glb', Len(faces))
  <2> DEFINE file == BuildPersonalizedGlb(skinPng, eyePng, json)
  <2>1. file # NoGlb /\ glb' = file
    BY <1>1, <1>3, NoFile
  <2>2. Sound(file, origin, faces) /\ Counts(file, Len(faces))
    BY <1>2, <2>1, FlameIsWhole
  <2> HIDE DEF file
  <2> QED BY <2>1, <2>2
<1>4. MeshIsWhole'
  BY <1>2, <1>3 DEF MeshFileInv, MeshIsWhole, Sound, Counts
<1> QED BY <1>2, <1>4 DEF MeshFileInv

LEMMA BuildDenseKeeps ==
    ASSUME MeshFileInv, BuildDense
    PROVE  MeshFileInv'
<1> DEFINE refused == faces = <<>> \/ \E n \in DOMAIN faces : \E v \in Range2(faces[n]) : v >= SkinVerts
           tris == AddEyeballs(faces)
<1>1. PICK json \in Jsons : IF refused THEN Built(NoGlb) ELSE Built(BuildDenseGlb(tris, json))
  BY DEF BuildDense
<1>2. origin' = origin /\ faces' = faces /\ origin = "mat" /\ faces \in Seq(Triangle)
  BY <1>1 DEF BuildDense, Built, MeshFileInv
<1>3. ASSUME meshState' = "built"
      PROVE  Sound(glb', origin, tris)
  <2>1. CASE refused
    BY <1>1, <1>3, <2>1, NoFile
  <2>2. CASE ~refused
    <3> DEFINE file == BuildDenseGlb(tris, json)
    <3>1. file # NoGlb /\ glb' = file
      BY <1>1, <1>3, <2>2, NoFile
    <3>2. faces \in Seq(SkinSide)
      <4>1. Len(faces) \in Nat /\ DOMAIN faces = 1 .. Len(faces)
        BY <1>2, LenProperties
      <4>2. SkinVerts \in Nat
        BY MeshNumbers
      <4>3. ASSUME NEW n \in 1 .. Len(faces) PROVE faces[n] \in SkinSide
        <5>1. faces[n] \in Triangle
          BY <1>2, ElementOfSeq
        <5>2. \A v \in Range2(faces[n]) : v \in Int /\ ~(v >= SkinVerts)
          BY <2>2, <4>1, <5>1, Corners
        <5> QED BY <4>2, <5>1, <5>2 DEF SkinSide
      <4> QED BY <1>2, <4>1, <4>3
    <3>3. /\ tris \in Seq(Triangle)
          /\ \A n \in 1 .. Len(tris) : tris[n] \in SkinSide \cup EyeSide
      BY <3>2, EyeballsAreEyes
    <3> HIDE DEF tris
    <3>4. Sound(file, origin, tris)
      BY <1>2, <3>1, <3>3, DenseIsWhole
    <3> HIDE DEF file
    <3> QED BY <3>1, <3>4
  <2> QED BY <2>1, <2>2
<1>4. MeshIsWhole'
  BY <1>2, <1>3 DEF MeshFileInv, MeshIsWhole, Sound
<1> QED BY <1>2, <1>4 DEF MeshFileInv

LEMMA MeshFileInvHolds == BackendSpec => []MeshFileInv
<1>1. ASSUME MeshRests
      PROVE  MeshFileInv
  <2>1. faces = <<>> /\ origin = "mat" /\ meshState = "open"
    BY <1>1 DEF MeshRests, MeshFileClear
  <2>2. <<>> \in Seq(Triangle)
    BY EmptySeq
  <2> QED BY <2>1, <2>2 DEF MeshFileInv, MeshIsWhole
<1>2. BackendInit => MeshFileInv
  BY <1>1, MeshFileStarts DEF BackendInit
<1>3. MeshFileInv /\ [BackendNext]_backendVars => MeshFileInv'
  <2> SUFFICES ASSUME MeshFileInv, [BackendNext]_backendVars
               PROVE  MeshFileInv'
    OBVIOUS
  <2>1. CASE UNCHANGED meshFileVars
    BY <2>1 DEF meshFileVars, MeshFileInv, MeshIsWhole
  <2>2. CASE MeshFileNext
    BY <2>2, BuildFlameKeeps, BuildDenseKeeps DEF MeshFileNext
  <2> QED BY <2>1, <2>2 DEF BackendNext, ProcessStep, WireStep, EnvelopeStep, AtlasStep,
        MeshStep, backendVars
<1> QED BY <1>2, <1>3, PTL DEF BackendSpec

\* For any head, any grids it is drawn on and any lengths of its PNGs, a mesh that
\* is given out can be read: every view starts on four bytes and holds its own
\* section, accessors fit their views, indices name vertices of one side, and every
\* triangle of the head is in its primitive, at its place.
THEOREM MeshStaysWhole == BackendSpec => []MeshIsWhole
<1>1. MeshFileInv => MeshIsWhole
  BY DEF MeshFileInv
<1> QED BY <1>1, MeshFileInvHolds, PTL

-----------------------------------------------------------------------------
(***************************************************************************)
(* The whole backend.                                                      *)
(***************************************************************************)

\* For any threads, jobs, volumes and photos every part of the backend keeps its
\* type: the process with its threads and figures, and the wire.
THEOREM TypeCorrect ==
    ASSUME ShortFrames
    PROVE  BackendSpec => []TypeOK
<1>1. InferenceTypeOK /\ WireTypeOK => TypeOK
  BY DEF TypeOK
<1> QED BY <1>1, ProcessStaysTyped, WireStaysTyped, PTL
=============================================================================
