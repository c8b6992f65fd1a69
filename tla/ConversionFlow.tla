--------------------------- MODULE ConversionFlow ---------------------------
(***************************************************************************)
(* One person on the way through both pipelines: TikTok leads write to the *)
(* person's Klaviyo profile, people and Klaviyo itself change it, and the  *)
(* metrics of the CRM carry it back to TikTok, where TikTokAPIClient posts *)
(* it, again if need be.  Whether a webhook is let in, and what the log    *)
(* says of it, is the matter of the pipelines' own modules.                *)
(***************************************************************************)
EXTENDS Identity, Surroundings

CONSTANTS
    Leads,          \* webhook deliveries of leads
    LeadData,       \* the lead id and field_data that each carries
    Edits,          \* changes of the profile by others, partial profiles
    Deliveries,     \* webhook deliveries of metric events
    Sources,        \* the metric events they may be about
    MaxRetries,     \* TIKTOK_MAX_RETRIES: how often a call repeats its POST
    None

ASSUME FlowAssumption == /\ MaxRetries \in Nat
                         /\ \A s \in Sources : s.hasValue \in BOOLEAN

VARIABLES
    profile,    \* the person's profile in Klaviyo
    told,       \* history: the lead ids Klaviyo was given
    lead,       \* lead[l]: how far the inbound pipeline is
    conv,       \* conv[d]: the outbound pipeline with its client, see Idle
    taken       \* the payloads TikTok has acted on

vars == <<profile, told, lead, conv, taken>>

\* source and payload of a delivery; told as it was when the webhook left;
\* retries of the POST in the call that is under way.
Idle == [at |-> "unborn", source |-> None, payload |-> None, told |-> {}, retries |-> 0]

LeadStages == {"unborn", "create", "queued", "done"}
CallStages == {"call", "sent", "failed"}
ConvStages == {"unborn", "filtered", "dropped"} \cup CallStages

PayloadOK(p) == /\ p.event \in TikTokEvents /\ p.dfo_stage \in 1 .. 4
                /\ p.hasValue \in BOOLEAN
                /\ DOMAIN p.user \subseteq Fields

TypeOK ==
    /\ lead \in [Leads -> LeadStages]
    /\ told \subseteq {LeadData[l].lead_id : l \in Leads}
    /\ \A d \in Deliveries :
          /\ conv[d].at \in ConvStages /\ conv[d].told \subseteq told
          /\ conv[d].at \in CallStages => PayloadOK(conv[d].payload)
          /\ conv[d].retries \in 0 .. MaxRetries
    /\ \A p \in taken : PayloadOK(p)

Init == /\ profile = <<>> /\ told = {}
        /\ lead = [l \in Leads |-> "unborn"]
        /\ conv = [d \in Deliveries |-> Idle]
        /\ taken = {}

-----------------------------------------------------------------------------
(* Inbound *)

\* Klaviyo merges what it is given into the profile, new values first.
Patch(new, old) ==
    [key \in DOMAIN new \cup DOMAIN old |-> IF key \in DOMAIN new THEN new[key] ELSE old[key]]

Merge(l) ==
    /\ profile' = Patch(ProfileOf(EnrichFromTikTokLead(LeadData[l])), profile)
    /\ told' = told \cup {LeadData[l].lead_id}

LeadAt(l, from, to) == lead[l] = from /\ lead' = [lead EXCEPT ![l] = to]

\* The lead is enriched and built, and its profile upserted; a rejection is
\* caught, and Klaviyo may have acted on the call all the same.
UpsertProfile(l) ==
    /\ LeadAt(l, "unborn", "create")
    /\ Merge(l) \/ ("api" \in Faults /\ UNCHANGED <<profile, told>>)
    /\ UNCHANGED <<conv, taken>>

\* The event carries the profile once more; rejected, it is a job of the queue.
CreateEvent(l) ==
    /\ \/ LeadAt(l, "create", "done") /\ Merge(l)
       \/ LeadAt(l, "create", "queued") /\ "reply" \in Faults /\ Merge(l)
       \/ LeadAt(l, "create", "queued") /\ "api" \in Faults /\ UNCHANGED <<profile, told>>
    /\ UNCHANGED <<conv, taken>>

\* A run of the job, however late, with the same payload.  Klaviyo may have
\* acted on a run that fails; the job is then run again or given up.
RetryEvent(l) ==
    /\ \/ LeadAt(l, "queued", "done") /\ Merge(l)
       \/ LeadAt(l, "queued", "queued") /\ "reply" \in Faults /\ Merge(l)
       \/ LeadAt(l, "queued", "done") /\ "api" \in Faults /\ UNCHANGED <<profile, told>>
    /\ UNCHANGED <<conv, taken>>

\* Somebody retypes an attribute, or Klaviyo learns one.
EditProfile ==
    /\ \E edit \in Edits : profile' = Patch(edit, profile)
    /\ UNCHANGED <<told, lead, conv, taken>>

-----------------------------------------------------------------------------
(* Outbound *)

Step(d, next) == conv' = [conv EXCEPT ![d] = next]
Goto(d, at)   == conv' = [conv EXCEPT ![d].at = at, ![d].retries = 0]

\* A metric's webhook leaves with the profile as it is, and the pipeline
\* filters, enriches and builds.
ReceiveMetric(d) ==
    /\ conv[d].at = "unborn"
    /\ \E source \in Sources :
          LET events == FilterOutboundEvent(source.metric)
              user   == EnrichFromKlaviyoProfile(profile)
              met    == [Idle EXCEPT !.source = source, !.told = told]
          IN  \/ events = {} /\ Step(d, [met EXCEPT !.at = "filtered"])
              \/ \E event \in events :
                    \/ /\ ~Buildable(source, event)
                       /\ Step(d, [met EXCEPT !.at = "dropped"])
                    \/ /\ Buildable(source, event)
                       /\ Step(d, [met EXCEPT !.at = "call",
                                   !.payload = BuildTikTokPayload(source, event, user)])
    /\ UNCHANGED <<profile, told, lead, taken>>

\* sendEvents, in a slot of the limiter, gets a token before its first POST; one
\* that comes changes nothing here, without one the call rejects.
TokenFails(d) ==
    /\ conv[d].at = "call" /\ conv[d].retries = 0
    /\ "api" \in Faults
    /\ Goto(d, "failed")
    /\ UNCHANGED <<profile, told, lead, taken>>

\* What the client tells apart in an answer: HTTP 200 with code 0 in its body or
\* with another; what it repeats a POST after (5xx, 429, an error of the network);
\* and what it does not (another 4xx, no answer in 30 seconds).
Answers == {"code 0", "other code", "transient", "final"}

\* TikTok answers code 0 when it has acted on the POST; it may also have acted
\* when its answer is an error of the server or is not heard.
Answered(answer, acted) ==
    \/ answer = "code 0" /\ acted
    \/ answer \in {"transient", "final"} /\ acted /\ "reply" \in Faults
    \/ answer # "code 0" /\ ~acted /\ "api" \in Faults

\* Mutant: one POST too many.
RepeatOnceMore(d) ==
    \/ /\ conv[d].retries <= MaxRetries
       /\ conv' = [conv EXCEPT ![d].retries = @ + 1]
    \/ conv[d].retries > MaxRetries /\ Goto(d, "failed")

\* What sendEvents takes for success.
Success(answer) == answer = "code 0"

\* axios-retry makes the POST again, until its retries are used up.
Repeat(d) ==
    \/ /\ conv[d].retries < MaxRetries
       /\ conv' = [conv EXCEPT ![d].retries = @ + 1]
    \/ conv[d].retries = MaxRetries /\ Goto(d, "failed")

\* The call resolves, repeats its POST, or rejects.
React(d, answer) ==
    \/ Success(answer) /\ Goto(d, "sent")
    \/ answer = "transient" /\ Repeat(d)
    \/ answer # "transient" /\ ~Success(answer) /\ Goto(d, "failed")

\* The POST up to its answer, and what the client does on it.
Post(d) ==
    /\ conv[d].at = "call"
    /\ \E answer \in Answers, acted \in BOOLEAN :
          /\ Answered(answer, acted)
          /\ taken' = IF acted THEN taken \cup {conv[d].payload} ELSE taken
          /\ React(d, answer)
    /\ UNCHANGED <<profile, told, lead>>

\* The worker of the queue calls sendEvents with the payload that was enqueued.
RetrySend(d) ==
    /\ conv[d].at = "failed"
    /\ Goto(d, "call")
    /\ UNCHANGED <<profile, told, lead, taken>>

-----------------------------------------------------------------------------

Next == \/ \E l \in Leads : UpsertProfile(l) \/ CreateEvent(l) \/ RetryEvent(l)
        \/ EditProfile
        \/ \E d \in Deliveries : ReceiveMetric(d) \/ TokenFails(d) \/ Post(d) \/ RetrySend(d)

Spec == Init /\ [][Next]_vars

-----------------------------------------------------------------------------
(* Properties *)

Built == {d \in Deliveries : conv[d].at \in CallStages}
Payloads == {conv[d].payload : d \in Built} \cup taken

\* Of the person's own data, no value is in what TikTok has or in what the
\* queue keeps for it: only hashes.
NoPlaintext ==
    \A p \in Payloads : \A f \in DOMAIN p.user \cap PIIFields : DOMAIN p.user[f] = {"sha256"}

\* However the person's e-mail and phone were typed, in a form or in the CRM,
\* TikTok is given one hash of each: a match does not depend on the spelling.
OnePersonOneKey ==
    \A p, q \in Payloads : \A f \in {"email", "phone"} :
        Present(p.user, f) /\ Present(q.user, f) => p.user[f] = q.user[f]

\* The round trip: once Klaviyo was given a lead, a conversion of the person
\* names a lead again, one that Klaviyo had when the metric's webhook left.
LeadComesBack ==
    \A d \in Built : conv[d].told # {} =>
        LET user == conv[d].payload.user
        IN  Present(user, "tiktok_lead_id") /\ user.tiktok_lead_id \in conv[d].told

\* What TikTok counts by: a metric event that is delivered again keeps its id,
\* whatever lead the profile names by then, and two metric events share one just
\* when Klaviyo gave them one unique_id in one second and they are one event of
\* TikTok's, whatever their metrics are called.
IdOfTheEvent ==
    \A d, e \in Built :
        LET s == conv[d].source
            t == conv[e].source
        IN  conv[d].payload.event_id = conv[e].payload.event_id
                <=> /\ s.unique_id = t.unique_id /\ s.time = t.time
                    /\ \E event \in TikTokEvents : {s.metric, t.metric} \subseteq MetricsOf[event]

\* No Purchase without a value is given to TikTok or kept for it: the metric is
\* dropped each time it is delivered.
NoPurchaseWithoutValue == \A p \in Payloads : p.event = "Purchase" => p.hasValue

-----------------------------------------------------------------------------
(* What the theorems assume of the data, apart from its types *)

\* Klaviyo's own clients and the people who edit a profile leave the bridge's
\* property alone.
EditsSpareLead == \A edit \in Edits : ProfileKey.tiktok_lead_id \notin DOMAIN edit

\* The ways to write an address.
Writings(words) == [words : {words}, upper : BOOLEAN, padded : BOOLEAN]

\* What known has of an e-mail and of a phone, at these two places, is the
\* person's own, in one writing or another.
OwnContact(known, email, phone, words, national) ==
    /\ email \in DOMAIN known => known[email] \in Writings(words)
    /\ phone \in DOMAIN known => known[phone] \in Spellings(national)

OwnProfile(known, words, national) ==
    OwnContact(known, ProfileKey.email, ProfileKey.phone, words, national)

\* A US number, and no area code begins with 00.
Diallable(national) == /\ national \in Seq(Digits) /\ Len(national) = NationalLength
                       /\ national # <<>> /\ ~DialledAbroad(national)

\* Every form that is filled in and every change of the profile are of one
\* person with one address and one US number.
OnePerson(words, national) ==
    /\ Diallable(national)
    /\ \A l \in Leads : OwnContact(EnrichFromTikTokLead(LeadData[l]), "email", "phone",
                                   words, national)
    /\ \A edit \in Edits : OwnProfile(edit, words, national)

=============================================================================
