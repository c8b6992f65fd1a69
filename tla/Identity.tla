------------------------------ MODULE Identity ------------------------------
(***************************************************************************)
(* The data on its way through the bridge: a TikTok lead becomes a         *)
(* CanonicalUser, a Klaviyo profile, a CanonicalUser again, and at last the *)
(* hashed user of a TikTok event.  Each of them is a partial function: its *)
(* domain is the set of attributes that are present and not empty.         *)
(***************************************************************************)
EXTENDS Normalizer, SequencesExt

\* CanonicalUser; TikTok's phone_number and lead_id keep their names of here.
PIIFields   == {"email", "phone", "first_name", "last_name", "external_id"}
PlainFields == {"ttclid", "ip", "user_agent", "tiktok_lead_id"}
Fields      == PIIFields \cup PlainFields

Present(user, f) == f \in DOMAIN user

-----------------------------------------------------------------------------
(* Enrichment *)

\* What one entry of field_data sets; full_name sets the parts it has.
FieldSets(field) ==
    LET name == ParseFullName(field.value)
    IN  IF field.name = "full_name"
        THEN [part \in {p \in {"first_name", "last_name"} : ~IsBlank(name[p])} |-> name[part]]
        ELSE IF field.name \in {"phone", "phone_number"} THEN [phone |-> field.value]
        ELSE IF field.name \in {"email", "first_name", "last_name"}
        THEN [f \in {field.name} |-> field.value]
        ELSE <<>>

\* Entries are applied in order, so a field has the value of the last one that
\* sets it; those without a value are left out of lead.field_data here.
EnrichFromTikTokLead(lead) ==
    LET setters(f) == {i \in DOMAIN lead.field_data :
                          f \in DOMAIN FieldSets(lead.field_data[i])}
    IN  [f \in {"tiktok_lead_id"} \cup {g \in Fields : setters(g) # {}} |->
            IF f = "tiktok_lead_id" THEN lead.lead_id
            ELSE FieldSets(lead.field_data[Max(setters(f))])[f]]

\* Where a Klaviyo profile keeps a field, its own attributes and its custom
\* properties, as buildKlaviyoEvent writes them.
ProfileKey == [email       |-> "email",       phone          |-> "phone_number",
               first_name  |-> "first_name",  last_name      |-> "last_name",
               external_id |-> "external_id", ttclid         |-> "properties.ttclid",
               ip          |-> "properties.ip_address",
               user_agent  |-> "properties.user_agent",
               tiktok_lead_id |-> "properties.tiktok_lead_id"]

\* Mutant: the lead id is not written.
ProfileWithoutLead(user) ==
    [key \in {ProfileKey[f] : f \in DOMAIN user \ {"tiktok_lead_id"}} |->
        user[CHOOSE f \in DOMAIN user : ProfileKey[f] = key]]

\* The profile of buildKlaviyoEvent: plain values, only those that are there.
ProfileOf(user) ==
    [key \in {ProfileKey[f] : f \in DOMAIN user} |->
        user[CHOOSE f \in DOMAIN user : ProfileKey[f] = key]]

\* Where enrichFromKlaviyoProfile looks for a field.
EnrichKey == [ip             |-> "properties.ip_address",
              user_agent     |-> "properties.user_agent",
              ttclid         |-> "properties.ttclid",
              tiktok_lead_id |-> "properties.tiktok_lead_id",
              email          |-> "email",
              phone          |-> "phone_number",
              first_name     |-> "first_name",
              last_name      |-> "last_name",
              external_id    |-> "external_id"]

EnrichFromKlaviyoProfile(profile) ==
    [f \in {g \in Fields : EnrichKey[g] \in DOMAIN profile} |-> profile[EnrichKey[f]]]

-----------------------------------------------------------------------------
(* Hashing *)

\* SHA-256, as far as it matters: the value cannot be read off, and equal
\* hashes are of equal values.
SHA256(value) == [sha256 |-> value]

Normalize(f, value) ==
    IF f = "external_id" THEN value
    ELSE IF f = "phone" THEN NormalizePhone(value)
    ELSE NormalizeText(value)

\* A value of which normalization leaves nothing.
Vanishes(f, value) ==
    \/ f = "phone" /\ NormalizePhone(value) = NoPhone
    \/ f \in PIIFields \ {"phone", "external_id"} /\ IsBlank(value)

Hashable(user) == {f \in DOMAIN user \cap PIIFields : ~Vanishes(f, user[f])}

\* Mutant: the external id is left alone.
HashContactOnly(user) ==
    [f \in Hashable(user) \cup (DOMAIN user \ PIIFields) |->
        IF f \in PIIFields \ {"external_id"} THEN SHA256(Normalize(f, user[f])) ELSE user[f]]

HashUser(user) ==
    [f \in Hashable(user) \cup (DOMAIN user \ PIIFields) |->
        IF f \in PIIFields THEN SHA256(Normalize(f, user[f])) ELSE user[f]]

-----------------------------------------------------------------------------
(* Outbound events *)

MetricsOf ==
    [SubmitForm |-> {"lead created", "new lead", "form submitted", "lead submitted"},
     Contact    |-> {"lead contacted", "contacted", "lead contact"},
     Schedule   |-> {"demo scheduled", "meeting scheduled", "appointment scheduled",
                     "call scheduled", "discovery call scheduled"},
     CompleteRegistration |->
         {"lead qualified", "qualified", "mql", "marketing qualified lead"},
     SubmitApplication |->
         {"opportunity created", "sql", "sales qualified lead", "proposal sent"},
     Purchase   |-> {"deal won", "closed won", "converted", "customer"},
     ApplicationApproval |-> {"application approved", "approved", "credit approved"},
     Subscribe  |-> {"subscription started", "subscribed"},
     StartTrial |-> {"trial started", "free trial", "trial"}]

TikTokEvents == DOMAIN MetricsOf

\* EVENT_TO_DFO_STAGE.
FunnelStage(event) ==
    IF event = "SubmitForm" THEN 1
    ELSE IF event \in {"Contact", "Schedule"} THEN 2
    ELSE IF event \in {"CompleteRegistration", "SubmitApplication"} THEN 3
    ELSE 4

\* filterOutboundEvent, of a metric's name trimmed and in lower case: the
\* events the metric is mapped to, one or none.
FilterOutboundEvent(metric) == {event \in TikTokEvents : metric \in MetricsOf[event]}

\* Mutant: the id is made from the lead, as its comment and the README have it.
EventIdFromLead(source, event, user) ==
    <<IF Present(user, "tiktok_lead_id") THEN user.tiktok_lead_id ELSE source.unique_id,
      event, source.time>>

\* The three parts in one text: the colons keep them apart, since neither the
\* event's name nor the time has one.
EventId(source, event, user) == <<source.unique_id, event, source.time>>

\* Mutant: the value is not looked for.
AlwaysBuildable(source, event) == TRUE

\* buildTikTokPayload returns for all events but a Purchase without a value.
Buildable(source, event) == event = "Purchase" => source.hasValue

BuildTikTokPayload(source, event, user) ==
    [event_id |-> EventId(source, event, user), event |-> event,
     dfo_stage |-> FunnelStage(event),
     hasValue |-> event = "Purchase" /\ source.hasValue,
     user |-> HashUser(user)]

=============================================================================
