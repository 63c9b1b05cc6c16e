-------------------------------- MODULE Wire ---------------------------------
(***************************************************************************)
(* The wire between the local pipeline (MlSidecarClient) and the ML        *)
(* sidecar: one face goes through landmarks, fit and texture, and what     *)
(* one call returns is part of the next payload.  Every border parses once *)
(* and answers Ok or Err; nothing is checked again behind it.              *)
(*                                                                         *)
(* Bytes are numbers of a small alphabet and a length takes two of them,   *)
(* so frames are short sequences; framing, offsets and lengths are as in   *)
(* the code.  A float is one byte that says how it packs.                  *)
(***************************************************************************)
EXTENDS Naturals, Sequences

CONSTANTS Images,    \* photos a job may have, as bytes
          MaxImage,  \* MAX_IMAGE_BYTES
          Points,    \* LANDMARKS_LEN
          UvLen,     \* UV_LEN
          Fits       \* coefficients and camera a fit may compute

Base == 16           \* values of a byte used in lengths
VersionV2 == 2
Jpeg == 20
Pixel == 21
Open == 30
Point == 31
Close == 32
Exact == 40          \* a float that is a float32
Fine == 41           \* one that is not: packing it rounds it to Exact
Huge == 42           \* one beyond float32: packing it raises
NaN == 43
Texel == 50
FitResultLen == 2    \* FIT_RESULT_LEN: coefficients and camera

ASSUME WireAssumption ==
    /\ MaxImage \in Nat /\ Points \in Nat /\ UvLen \in Nat \ {0}
    /\ Images \subseteq Seq({Jpeg, Pixel})
    /\ Fits \subseteq {Exact, Fine, Huge} \X {Exact, Fine, Huge}

VARIABLES image, landmarks, fit, uv, \* what the client holds, <<>> before
          call,                      \* the call it makes, "" between calls
          payload,                   \* the bytes it posted
          ran,                       \* what the sidecar's core ran on
          reply,                     \* status and body of the answer
          outcome                    \* "running", "whole" or the error

wireVars == <<image, landmarks, fit, uv, call, payload, ran, reply, outcome>>

Calls == {"landmarks", "fit", "texture"}
NoReply == [status |-> 0, body |-> <<>>]

Ok(v) == [ok |-> TRUE, value |-> v]
Err(e) == [ok |-> FALSE, error |-> e]

\* domain_to_status.
DomainToStatus(error) ==
    CASE error \in {"InvalidImage", "EmptyPayload", "InvalidCoeffs",
                    "InvalidCamera", "VersionMismatch"} -> 400
      [] error = "NotFound" -> 404
      [] error \in {"MlFailed", "FitFailed", "Invariant"} -> 500

From(data, n) == SubSeq(data, n, Len(data))

-----------------------------------------------------------------------------
\* Parsers of the borders.

ParseImageBytes(data) ==
    IF Len(data) \in 1 .. MaxImage /\ data[1] = Jpeg
    THEN Ok(data) ELSE Err("InvalidImage")

\* json of exactly Points points of finite numbers.
ParseLandmarks(data) ==
    IF data = <<>> THEN Err("EmptyPayload")
    ELSE IF data = <<Open>> \o [i \in 1 .. Points |-> Point] \o <<Close>>
         THEN Ok(data) ELSE Err("MlFailed")

ParseUvBytes(data) == IF Len(data) = UvLen THEN Ok(data) ELSE Err("MlFailed")

\* _parse_finite_floats.
ParseGnmCoeffs(c) == IF c = NaN THEN Err("InvalidCoeffs") ELSE Ok(c)
ParseCameraParams(c) == IF c = NaN THEN Err("InvalidCamera") ELSE Ok(c)

\* parse_fit_result: coefficients first.
ParseFitResult(data) ==
    IF Len(data) # FitResultLen THEN Err("FitFailed")
    ELSE LET coeffs == ParseGnmCoeffs(data[1])
             camera == ParseCameraParams(data[2])
         IN  IF ~coeffs.ok THEN coeffs ELSE IF ~camera.ok THEN camera ELSE Ok(data)

\* struct.pack to float32.
Packs(f) == \A i \in DOMAIN f : f[i] # Huge
EncodeFitResult(f) == [i \in DOMAIN f |-> IF f[i] = Fine THEN Exact ELSE f[i]]

LenBytes(n) == <<n \div Base, n % Base>>
LenOf(data) == Base * data[2] + data[3]
Header == 3          \* CODEC_VERSION_LEN + 4

EncodeFitRequest(img, lm) == <<VersionV2>> \o LenBytes(Len(lm)) \o lm \o img

EncodeTextureRequest(img, f, lm) ==
    LET req == EncodeFitRequest(img, lm)
    IN  <<VersionV2>> \o LenBytes(Len(req)) \o req \o EncodeFitResult(f)

\* Mutant: the body of the photo starts one byte early.
DecodeFitRequest_Early(data) ==
    IF Len(data) < Header \/ data[1] # VersionV2 \/ Len(data) < Header + LenOf(data)
    THEN Err("FitFailed")
    ELSE LET lm == ParseLandmarks(SubSeq(data, Header + 1, Header + LenOf(data)))
         IN  IF ~lm.ok THEN lm
             ELSE Ok(<<lm.value, From(data, Header + LenOf(data))>>)

\* decode_fit_request: version first, then the landmarks by their length;
\* the rest is the photo.
DecodeFitRequest(data) ==
    IF Len(data) < Header THEN Err("FitFailed")
    ELSE IF data[1] # VersionV2 THEN Err("VersionMismatch")
    ELSE IF Len(data) < Header + LenOf(data) THEN Err("FitFailed")
    ELSE LET lm  == ParseLandmarks(SubSeq(data, Header + 1, Header + LenOf(data)))
             img == ParseImageBytes(From(data, Header + LenOf(data) + 1))
         IN  IF ~lm.ok THEN lm ELSE IF ~img.ok THEN img
             ELSE Ok(<<lm.value, img.value>>)

\* decode_texture_request: the frame is consumed exactly.
DecodeTextureRequest(data) ==
    IF Len(data) < Header THEN Err("FitFailed")
    ELSE IF data[1] # VersionV2 THEN Err("VersionMismatch")
    ELSE LET size == LenOf(data)
             expected == Header + size + FitResultLen
         IN  IF Len(data) < expected THEN Err("FitFailed")
             ELSE IF Len(data) > expected THEN Err("VersionMismatch")
             ELSE LET req == DecodeFitRequest(SubSeq(data, Header + 1, Header + size))
                      res == ParseFitResult(From(data, Header + size + 1))
                  IN  IF ~req.ok THEN req ELSE IF ~res.ok THEN res
                      ELSE Ok(<<req.value[2], res.value, req.value[1]>>)

-----------------------------------------------------------------------------
\* Client.

WireInit ==
    /\ image \in {i \in Images : ParseImageBytes(i).ok}
    /\ landmarks = <<>> /\ fit = <<>> /\ uv = <<>>
    /\ call = "" /\ payload = <<>> /\ ran = <<>> /\ reply = NoReply
    /\ outcome = "running"

Ready(c) == CASE c = "landmarks" -> landmarks = <<>>
              [] c = "fit"       -> landmarks # <<>> /\ fit = <<>>
              [] c = "texture"   -> fit # <<>> /\ uv = <<>>

Encode(c) == CASE c = "landmarks" -> image
               [] c = "fit"       -> EncodeFitRequest(image, landmarks)
               [] c = "texture"   -> EncodeTextureRequest(image, fit, landmarks)

\* _post: the payload leaves.  (A fit that was received packs again.)
Post(c) ==
    /\ outcome = "running" /\ call = "" /\ Ready(c)
    /\ call' = c
    /\ payload' = Encode(c)
    /\ ran' = <<>> /\ reply' = NoReply
    /\ UNCHANGED <<image, landmarks, fit, uv, outcome>>

\* The transport fails, before or after the sidecar ran.
TransportFails ==
    /\ call # ""
    /\ outcome' = "MlFailed" /\ call' = ""
    /\ UNCHANGED <<image, landmarks, fit, uv, payload, ran, reply>>

\* A sidecar of the other version sits at the other end: its frames have no
\* version byte, or it is an old client that posts such a frame here.  (The outer
\* byte only: the fit request inside a texture request keeps its own.)
OldFrame(c) == Tail(Encode(c))

PostOld(c) ==
    /\ outcome = "running" /\ call = "" /\ Ready(c) /\ c # "landmarks"
    /\ call' = c
    /\ payload' = OldFrame(c)
    /\ ran' = <<>> /\ reply' = NoReply
    /\ UNCHANGED <<image, landmarks, fit, uv, outcome>>

-----------------------------------------------------------------------------
\* Sidecar.

Decode(c, data) == CASE c = "landmarks" -> ParseImageBytes(data)
                     [] c = "fit"       -> DecodeFitRequest(data)
                     [] c = "texture"   -> DecodeTextureRequest(data)

\* What the core of each route may compute.
Computed(c) ==
    CASE c = "landmarks" -> {<<Open>> \o [i \in 1 .. Points |-> Point] \o <<Close>>}
      [] c = "fit"       -> {EncodeFitResult(f) : f \in {g \in Fits : Packs(g)}}
      [] c = "texture"   -> {[i \in 1 .. UvLen |-> Texel]}

\* _run_impl: Ok, an Err of the core, ValueError (no face), or what else it
\* raises, a float that does not pack included.
RunImpl(c) ==
    \/ \E body \in Computed(c) : reply' = [status |-> 200, body |-> body]
    \/ \E error \in IF c = "landmarks" THEN {} ELSE {"InvalidImage", "FitFailed"} :
         reply' = [status |-> DomainToStatus(error), body |-> <<>>]
    \/ c = "landmarks" /\ reply' = [status |-> 400, body |-> <<>>]
    \/ reply' = [status |-> 500, body |-> <<>>]

Serve ==
    /\ call # "" /\ reply = NoReply
    /\ LET decoded == Decode(call, payload)
       IN  IF decoded.ok
           THEN ran' = decoded.value /\ RunImpl(call)
           ELSE /\ reply' = [status |-> DomainToStatus(decoded.error), body |-> <<>>]
                /\ UNCHANGED ran
    /\ UNCHANGED <<image, landmarks, fit, uv, call, payload, outcome>>

\* The client's side of the answer: status, emptiness, parser.
Parse(c, data) == CASE c = "landmarks" -> ParseLandmarks(data)
                    [] c = "fit"       -> ParseFitResult(data)
                    [] c = "texture"   -> ParseUvBytes(data)

Hold(c, value) ==
    /\ landmarks' = IF c = "landmarks" THEN value ELSE landmarks
    /\ fit' = IF c = "fit" THEN value ELSE fit
    /\ uv' = IF c = "texture" THEN value ELSE uv

Answer ==
    /\ call # "" /\ reply # NoReply
    /\ call' = ""
    /\ IF reply.status \in 200 .. 299 /\ Parse(call, reply.body).ok
       THEN /\ Hold(call, Parse(call, reply.body).value)
            /\ outcome' = IF call = "texture" THEN "whole" ELSE "running"
       ELSE /\ outcome' = IF reply.status \in 200 .. 299 /\ reply.body # <<>>
                          THEN Parse(call, reply.body).error ELSE "MlFailed"
            /\ UNCHANGED <<landmarks, fit, uv>>
    /\ UNCHANGED <<image, payload, ran, reply>>

WireNext == \/ \E c \in Calls : Post(c) \/ PostOld(c)
            \/ TransportFails \/ Serve \/ Answer

WireSpec == WireInit /\ [][WireNext]_wireVars

-----------------------------------------------------------------------------
\* Properties.

WireTypeOK ==
    /\ image \in Images
    /\ landmarks = <<>> \/ ParseLandmarks(landmarks).ok
    /\ fit = <<>> \/ ParseFitResult(fit).ok
    /\ uv = <<>> \/ ParseUvBytes(uv).ok
    /\ call \in Calls \cup {""}
    /\ reply.status \in {0, 200, 400, 404, 500}
    /\ outcome \in {"running", "whole", "MlFailed"}

(* The core of the sidecar computes on exactly what the client holds, or   *)
(* not at all: no offset of the nested frames is off, what was rounded     *)
(* once is not changed by a second packing, and a frame without its        *)
(* version byte never passes for another one.                              *)
RunsOnWhatIsHeld ==
    ran # <<>> /\ call # "" =>
        ran = CASE call = "landmarks" -> image
                [] call = "fit"       -> <<landmarks, image>>
                [] call = "texture"   -> <<image, fit, landmarks>>

(* A frame of the other version is refused as such: 400, never the 500 of  *)
(* a failed inference and never a result.                                  *)
SkewIsRefused ==
    call \in {"fit", "texture"} /\ reply # NoReply /\ payload = OldFrame(call) =>
        ran = <<>> /\ reply.status = 400

=============================================================================
