------------------------------ MODULE Envelope -------------------------------
(***************************************************************************)
(* The message of the queue, from the form the gateway accepts to the job  *)
(* a consumer takes: the gateway's message and those of other producers,   *)
(* as the queue wraps them, through parse_queue_envelope, and the list of  *)
(* dead letters the local runner keeps of what does not parse.             *)
(*                                                                         *)
(* JSON values are tagged records; a string says what it spells (a job, a  *)
(* key, a quality, or JSON text) and how.                                  *)
(***************************************************************************)
EXTENDS Naturals, Sequences, FiniteSets

CONSTANTS Jobs,        \* jobs that producers write messages for
          LetterMax,   \* _DEAD_LETTER_MAX
          MaxMessages  \* bound: messages the local runner receives

ASSUME EnvelopeAssumption == LetterMax \in Nat \ {0} /\ MaxMessages \in Nat

None == [t |-> "none"]
Number == [t |-> "number"]
Garbage == [t |-> "text"]                       \* a string of no use anywhere
Dict(fields) == [t |-> "dict", fields |-> fields]
Json(value) == [t |-> "json", value |-> value]  \* a string that is JSON
JobText(j) == [t |-> "job", job |-> j]          \* any spelling uuid.UUID takes
QualityText(q) == [t |-> "quality", quality |-> q] \* any case, padded or not

\* A key and what is wrong with it after 0, 1 and 2 rounds of unquote.
KeyText(j, side, flaws) ==
    [t |-> "key", job |-> j, side |-> side, flaws |-> flaws]
Plain == <<{}, {}, {}>>
Flawed == {<<{"blank"}, {}, {}>>, <<{"absolute"}, {"absolute"}, {"absolute"}>>,
           <<{}, {"long"}, {}>>, <<{}, {"encoded"}, {"dots"}>>}

Get(d, name) == IF name \in DOMAIN d.fields THEN d.fields[name] ELSE None
Either(d, name, other) ==
    IF Get(d, name) # None THEN Get(d, name) ELSE Get(d, other)

Rejected(e) == [ok |-> FALSE, error |-> e]

VARIABLES message,  \* the message on the queue
          sent,     \* what the gateway meant by it, "none" for other producers
          taken,    \* what the consumer made of it
          letters,  \* dead letters, oldest first
          skipped   \* history: messages skipped, oldest first

envelopeVars == <<message, sent, taken, letters, skipped>>

-----------------------------------------------------------------------------
\* Parsers.

ParseJobId(raw) == raw.t = "job"

\* parse_r2_key: the text itself, the length of every round, the last round.
ParseR2Key(raw) ==
    /\ raw.t = "key"
    /\ raw.flaws[1] \cap {"blank", "long", "absolute", "backslash", "control"} = {}
    /\ "long" \notin raw.flaws[2] \cup raw.flaws[3]
    /\ raw.flaws[3] \cap {"encoded", "backslash", "absolute", "control", "dots"} = {}

\* parse_quality: absent means standard; None when it is neither.
ParseQuality(raw) ==
    CASE raw = None -> "standard"
      [] raw.t = "quality" -> raw.quality
      [] OTHER -> "invalid"

\* Mutant: a falsy body falls through to the message field.
Unwrap_Falsy(raw) ==
    IF raw.t = "dict" /\ {"body", "message"} \cap DOMAIN raw.fields # {}
    THEN LET cand == IF Get(raw, "body") \in {None, Dict(<<>>), Garbage}
                     THEN Get(raw, "message") ELSE Get(raw, "body")
         IN  IF cand.t = "json" THEN cand.value ELSE cand
    ELSE raw

\* The object that counts: the message itself, or its body, or its message
\* field when the body is None; a string is read as JSON.
Unwrap(raw) ==
    IF raw.t = "dict" /\ {"body", "message"} \cap DOMAIN raw.fields # {}
    THEN LET cand == Either(raw, "body", "message")
         IN  IF cand.t = "json" THEN cand.value ELSE cand
    ELSE raw

\* parse_queue_envelope: the first thing wrong decides.
ParseQueueEnvelope(raw) ==
    LET body == Unwrap(raw)
        job  == Either(body, "job_id", "jobId")
        keys == Either(body, "r2_keys", "r2Keys")
        a    == Get(keys, "image_a")
        b    == Get(keys, "image_b")
        quality == ParseQuality(Get(body, "quality"))
    IN  IF body.t # "dict" \/ ~ParseJobId(job) THEN Rejected("InvalidJobId")
        ELSE IF keys.t # "dict" THEN Rejected("InvalidR2Key")
        ELSE IF {"a", "b"} \cap DOMAIN keys.fields # {} THEN Rejected("InvalidR2Key")
        ELSE IF ~ParseR2Key(a) \/ ~ParseR2Key(b) THEN Rejected("InvalidR2Key")
        ELSE IF quality = "invalid" THEN Rejected("Invariant")
        ELSE [ok |-> TRUE, job |-> job.job, a |-> a, b |-> b, quality |-> quality]

-----------------------------------------------------------------------------
\* Producers.

CanonKeys(j) == Dict([image_a |-> KeyText(j, "a", Plain), image_b |-> KeyText(j, "b", Plain)])

\* handleCompare: the quality travels with HQ only.
GatewayBody(j, quality) ==
    Dict(IF quality = "hq"
         THEN [job_id |-> JobText(j), r2_keys |-> CanonKeys(j), quality |-> QualityText("hq")]
         ELSE [job_id |-> JobText(j), r2_keys |-> CanonKeys(j)])

\* What else may be on the queue: camel case, the keys of the first version
\* alone or beside the canonical ones, flawed keys, foreign values.
OtherKeys(j) ==
    {Dict([a |-> KeyText(j, "a", Plain), b |-> KeyText(j, "b", Plain)]),
     Dict([image_a |-> KeyText(j, "a", Plain), image_b |-> KeyText(j, "b", Plain),
           a |-> KeyText(j, "b", Plain)]),
     Dict([image_a |-> KeyText(j, "a", Plain)]), Garbage, None}
    \cup {Dict([image_a |-> KeyText(j, "a", Plain), image_b |-> KeyText(j, "b", f)]) : f \in Flawed}

OtherBody(j) ==
    {Dict([jobId |-> JobText(j), r2Keys |-> CanonKeys(j), quality |-> q]) :
        q \in {None, Number, Garbage, QualityText("standard")}}
    \cup {Dict([job_id |-> JobText(j), r2_keys |-> k]) : k \in OtherKeys(j)}
    \cup {Dict([job_id |-> w, r2_keys |-> CanonKeys(j)]) : w \in {Garbage, Number}}
    \cup {Dict(<<>>), Garbage, Number}

\* The queue hands a message over bare (webhook) or as a body, an object or
\* its JSON (REST pull).
Wrapped(body) ==
    {body, Dict([body |-> body, lease_id |-> Garbage]), Dict([body |-> Json(body)])}

\* Wrappings of another producer, with a second body that must not count.
OtherWrapped(body, second) ==
    Wrapped(body) \cup
    {Dict([body |-> None, message |-> Json(body)]),
     Dict([message |-> body]),
     Dict([body |-> body, message |-> Json(second)])}

EnvelopeInit ==
    message = None /\ sent = None /\ taken = None /\ letters = <<>> /\ skipped = <<>>

Send ==
    /\ message = None
    /\ \E j \in Jobs, quality \in {"standard", "hq"} :
         /\ message' \in Wrapped(GatewayBody(j, quality))
         /\ sent' = [t |-> "job", job |-> j, quality |-> quality]
    /\ UNCHANGED <<taken, letters, skipped>>

SendOther ==
    /\ message = None
    /\ \E j \in Jobs : \E body \in OtherBody(j) \cup {GatewayBody(j, "hq")},
                          k \in Jobs \ {j} :
         message' \in OtherWrapped(body, GatewayBody(k, "standard"))
    /\ UNCHANGED <<sent, taken, letters, skipped>>

-----------------------------------------------------------------------------
\* Consumers.

\* _dead_letter, under its lock: the oldest go when there are too many.
DeadLetter(letter) ==
    LET all == Append(letters, letter)
    IN  IF Len(all) > LetterMax THEN SubSeq(all, Len(all) - LetterMax + 1, Len(all)) ELSE all

\* process_message takes the job or writes the letter.
Process ==
    /\ message # None /\ taken = None
    /\ Len(skipped) < MaxMessages
    /\ taken' = ParseQueueEnvelope(message)
    /\ IF taken'.ok THEN UNCHANGED <<letters, skipped>>
       ELSE /\ letters' = DeadLetter(taken'.error)
            /\ skipped' = Append(skipped, taken'.error)
    /\ UNCHANGED <<message, sent>>

NextMessage ==
    /\ taken # None
    /\ message' = None /\ sent' = None /\ taken' = None
    /\ UNCHANGED <<letters, skipped>>

EnvelopeNext == Send \/ SendOther \/ Process \/ NextMessage

EnvelopeSpec == EnvelopeInit /\ [][EnvelopeNext]_envelopeVars

-----------------------------------------------------------------------------
\* Properties.

(* What the gateway sends, however the queue wraps it, is taken with its   *)
(* own job, keys and quality; and whoever wrote a message, a job is taken  *)
(* with the photos of that job, each on its side: no field of a second     *)
(* body, of the old names or of the old keys is mixed in.                  *)
EnvelopeIsOwn ==
    taken # None =>
        /\ sent # None => /\ taken.ok
                          /\ taken.job = sent.job /\ taken.quality = sent.quality
        /\ taken.ok => /\ taken.a = KeyText(taken.job, "a", Plain)
                       /\ taken.b = KeyText(taken.job, "b", Plain)
        /\ taken.ok /\ message.t = "dict" /\ Get(message, "body") # None =>
             LET body == Get(message, "body")
                 own  == IF body.t = "json" THEN body.value ELSE body
             IN  /\ own.t = "dict"
                 /\ JobText(taken.job) \in {Get(own, "job_id"), Get(own, "jobId")}

(* The dead letters are the newest skipped messages, in their order, and   *)
(* never more than the limit.                                              *)
LettersAreNewest ==
    letters = IF Len(skipped) <= LetterMax THEN skipped
              ELSE SubSeq(skipped, Len(skipped) - LetterMax + 1, Len(skipped))

=============================================================================
