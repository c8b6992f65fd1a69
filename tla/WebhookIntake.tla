--------------------------- MODULE WebhookIntake ---------------------------
(***************************************************************************)
(* One webhook request on its way through Express: the parsers that        *)
(* server.ts installs for every route, the parser of the webhook's own     *)
(* router, and the handler up to the answer and the start of a pipeline.   *)
(***************************************************************************)
VARIABLES
    request,    \* what arrives; see Requests
    stage,      \* the middleware it has reached
    body,       \* req.body: nothing read yet, an object, or the raw bytes
    status,     \* what was answered, or None
    started     \* process was called for what the request carries

vars == <<request, stage, body, status, started>>

None == "none"

\* form: what the bytes are.  size: the global parsers take 10kb, express.raw,
\* which is given no limit, takes its 100kb.
Requests == [route     : {"tiktok", "klaviyo"},
             type      : {"json", "urlencoded", "text"},
             signature : {"missing", "wrong", "right"},
             form      : {"garbage", "json", "events"},
             size      : {"up to 10kb", "up to 100kb", "more"}]

\* Beyond the limit of the global parsers.
Bulky == request.size # "up to 10kb"

Stages == {"json", "urlencoded", "raw", "headers", "signature", "schema", "answered"}

TypeOK == /\ request \in Requests /\ stage \in Stages
          /\ body \in {"unread", "object", "raw"}
          /\ status \in {None, "200", "400", "401", "413"}
          /\ started \in BOOLEAN

Init == /\ request \in Requests
        /\ stage = "json" /\ body = "unread" /\ status = None
        /\ started = FALSE

Pass(next)   == stage' = next /\ UNCHANGED <<request, status, started>>
Refuse(code) == stage' = "answered" /\ status' = code /\ UNCHANGED <<request, body, started>>

-----------------------------------------------------------------------------

\* express.json for every route: it reads and parses what declares itself JSON.
JsonParser ==
    /\ stage = "json"
    /\ \/ request.type # "json" /\ Pass("urlencoded") /\ UNCHANGED body
       \/ /\ request.type = "json"
          /\ \/ Bulky /\ Refuse("413")
             \/ ~Bulky /\ request.form = "garbage" /\ Refuse("400")
             \/ ~Bulky /\ request.form # "garbage"
                /\ Pass("urlencoded") /\ body' = "object"

\* express.urlencoded for every route.
UrlencodedParser ==
    /\ stage = "urlencoded"
    /\ \/ request.type # "urlencoded" /\ Pass("raw") /\ UNCHANGED body
       \/ request.type = "urlencoded" /\ Bulky /\ Refuse("413")
       \/ request.type = "urlencoded" /\ ~Bulky /\ Pass("raw") /\ body' = "object"

\* A parser of Express leaves alone a request whose body another has read.
RawTypes == IF request.route = "tiktok" THEN {"json", "urlencoded", "text"} ELSE {"json"}

\* express.raw of the router.
RawParser ==
    /\ stage = "raw"
    /\ LET reads == body = "unread" /\ request.type \in RawTypes
       IN  \/ ~reads /\ Pass("headers") /\ UNCHANGED body
           \/ reads /\ request.size = "more" /\ Refuse("413")
           \/ reads /\ request.size # "more" /\ Pass("headers") /\ body' = "raw"

\* The handler: the headers that carry the signature.
CheckHeaders ==
    /\ stage = "headers"
    /\ \/ request.signature = "missing" /\ Refuse("401")
       \/ request.signature # "missing" /\ Pass("signature") /\ UNCHANGED body

\* The signature is over the bytes; of an object, verification makes another
\* text or throws, and is false either way.
Verified == body = "raw" /\ request.signature = "right"

VerifySignature ==
    /\ stage = "signature"
    /\ \/ ~Verified /\ Refuse("401")
       \/ Verified /\ Pass("schema") /\ UNCHANGED body

\* All of the body is valid, or nothing of it is taken; the answer comes first,
\* then process is called.
TakeEvents ==
    /\ stage = "schema"
    /\ \/ request.form # "events" /\ Refuse("400")
       \/ /\ request.form = "events"
          /\ stage' = "answered" /\ status' = "200" /\ started' = TRUE
          /\ UNCHANGED <<request, body>>

Next == JsonParser \/ UrlencodedParser \/ RawParser \/ CheckHeaders
        \/ VerifySignature \/ TakeEvents

Spec == Init /\ [][Next]_vars

-----------------------------------------------------------------------------
(* Properties *)

\* "Both webhook routes use express.raw() middleware to receive the raw body
\* bytes for accurate signature computation": a webhook with valid JSON and the
\* right signature is taken.
GenuineIsTaken ==
    /\ stage = "answered"
    /\ request.type = "json" /\ request.form = "events" /\ ~Bulky
    /\ request.signature = "right"
    => status = "200"

=============================================================================
