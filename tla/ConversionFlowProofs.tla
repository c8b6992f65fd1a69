------------------------ MODULE ConversionFlowProofs ------------------------
(* What is proved of the data on its way: phone numbers have one normal form, *)
(* and no payload, sent or waiting, has a value of the person in plain text. *)
EXTENDS ConversionFlow, SequenceTheorems, TLAPS

-----------------------------------------------------------------------------
(* Phone numbers *)

\* Normalizing a number again changes nothing: what comes back from Klaviyo in
\* normal form is hashed as the lead's own spelling is.
THEOREM NormalizePhoneIdempotent ==
    ASSUME NEW phone \in Phones
    PROVE  NormalizePhone(NormalizePhone(phone)) = NormalizePhone(phone)
<1>1. \A digits : NormalizePhone(E164(digits)) = E164(digits)
  BY DEF NormalizePhone, E164
<1>2. NormalizePhone(NoPhone) = NoPhone
  BY DEF NormalizePhone, NoPhone
<1>3. NormalizePhone(phone) = NoPhone \/ \E digits : NormalizePhone(phone) = E164(digits)
  BY DEF NormalizePhone
<1> QED BY <1>1, <1>2, <1>3

\* The digits of a US number in each of its spellings come out the same: bare,
\* behind its country code, and behind 00 and the country code.
LEMMA CountryCodes ==
    ASSUME NEW national \in Seq(Digits), Len(national) = NationalLength,
           ~DialledAbroad(national)
    PROVE  LET us == <<1>> \o national
           IN  /\ WithCountryCode(national) = us
               /\ WithCountryCode(us) = us
               /\ WithCountryCode(<<0, 0>> \o us) = us
<1> DEFINE us     == <<1>> \o national
           abroad == <<0, 0>> \o us
<1>1. us \in Seq(Digits) /\ Len(us) = NationalLength + 1 /\ us[1] = 1
  BY NationalAssumption DEF Digits
<1>2. abroad \in Seq(Digits) /\ Len(abroad) = NationalLength + 3
  BY <1>1, NationalAssumption DEF Digits
<1>3. abroad[1] = 0 /\ abroad[2] = 0
  BY <1>1, NationalAssumption DEF Digits
<1>4. WithCountryCode(national) = us
  BY NationalAssumption DEF WithCountryCode
<1>5. WithCountryCode(us) = us
  BY <1>1, NationalAssumption DEF WithCountryCode, DialledAbroad
<1>6. SubSeq(abroad, 3, Len(abroad)) = us
  <2>1. /\ SubSeq(abroad, 3, Len(abroad)) \in Seq(Digits)
        /\ Len(SubSeq(abroad, 3, Len(abroad))) = Len(us)
    BY <1>1, <1>2, NationalAssumption
  <2>2. ASSUME NEW i \in 1 .. Len(us)
        PROVE  SubSeq(abroad, 3, Len(abroad))[i] = us[i]
    BY <1>1, <1>2, NationalAssumption DEF Digits
  <2> QED BY <1>1, <2>1, <2>2, SeqEqual
<1>7. WithCountryCode(abroad) = us
  BY <1>2, <1>3, <1>6, NationalAssumption DEF WithCountryCode, DialledAbroad
<1> QED BY <1>4, <1>5, <1>7

\* A US number has one normal form, and so one hash, in whatever way it is
\* written, for any length of national numbers.
THEOREM SpellingsAgree ==
    ASSUME NEW national \in Seq(Digits), Len(national) = NationalLength,
           national # <<>>, ~DialledAbroad(national),
           NEW phone \in Spellings(national)
    PROVE  NormalizePhone(phone) = E164(<<1>> \o national)
<1> DEFINE us == <<1>> \o national
<1>1. /\ WithCountryCode(national) = us
      /\ WithCountryCode(us) = us
      /\ WithCountryCode(<<0, 0>> \o us) = us
  BY CountryCodes
<1>2. us # <<>> /\ <<0, 0>> \o us # <<>>
  BY DEF Digits
<1>3. CASE phone.plus /\ phone.digits = us
  BY <1>3 DEF NormalizePhone
<1>4. CASE ~phone.plus /\ phone.digits \in {national, us, <<0, 0>> \o us}
  BY <1>1, <1>2, <1>4 DEF NormalizePhone
<1> QED BY <1>3, <1>4 DEF Spellings

-----------------------------------------------------------------------------
(* Payloads *)

\* What the steps need to know of conv: its entries are records of five fields.
Entry == {"at", "source", "payload", "told", "retries"}

ConvRecords == /\ DOMAIN conv = Deliveries
               /\ \A d \in Deliveries : DOMAIN conv[d] = Entry

Hashed(p) == \A f \in DOMAIN p.user \cap PIIFields : DOMAIN p.user[f] = {"sha256"}

\* Inductive: every payload there is, of a call or at TikTok, is hashed.
PayloadInv == /\ ConvRecords
              /\ \A d \in Built : Hashed(conv[d].payload)
              /\ \A p \in taken : Hashed(p)

\* hashUser leaves no value of PIIFields as it was.
LEMMA HashUserHashes ==
    ASSUME NEW user, NEW f \in DOMAIN HashUser(user) \cap PIIFields
    PROVE  DOMAIN HashUser(user)[f] = {"sha256"}
<1>1. HashUser(user)[f] = SHA256(Normalize(f, user[f]))
  BY DEF HashUser
<1>2. \A value : DOMAIN SHA256(value) = {"sha256"}
  BY DEF SHA256
<1> QED BY <1>1, <1>2

LEMMA BuildsHashed ==
    ASSUME NEW source, NEW event, NEW user
    PROVE  Hashed(BuildTikTokPayload(source, event, user))
<1>1. BuildTikTokPayload(source, event, user).user = HashUser(user)
  BY DEF BuildTikTokPayload
<1> QED BY <1>1, HashUserHashes DEF Hashed

LEMMA PayloadInit == Init => PayloadInv
BY DEF Init, Idle, PayloadInv, ConvRecords, Entry, Built, CallStages

\* A step of the call that keeps its payload: it stays hashed.
LEMMA GotoStep ==
    ASSUME PayloadInv, NEW d \in Deliveries, d \in Built, NEW at, Goto(d, at),
           taken' \in {taken, taken \cup {conv[d].payload}}
    PROVE  PayloadInv'
<1>1. /\ ConvRecords'
      /\ conv'[d].at = at /\ conv'[d].payload = conv[d].payload
      /\ \A e \in Deliveries \ {d} : conv'[e] = conv[e]
  BY DEF Goto, PayloadInv, ConvRecords, Entry
<1>2. Hashed(conv[d].payload)
  BY DEF PayloadInv
<1>3. \A e \in Built' : Hashed(conv[e].payload)'
  BY <1>1, <1>2 DEF PayloadInv, Built, Hashed
<1>4. \A p \in taken' : Hashed(p)'
  BY <1>2 DEF PayloadInv, Hashed
<1> QED BY <1>1, <1>3, <1>4 DEF PayloadInv

\* What ReceiveMetric makes of an entry of conv.
Received(next) ==
    /\ DOMAIN next = Entry
    /\ \/ next.at \in {"filtered", "dropped"}
       \/ next.at = "call" /\ Hashed(next.payload)

LEMMA ReceiveMetricMakes ==
    ASSUME NEW d \in Deliveries, ReceiveMetric(d)
    PROVE  \E next : Step(d, next) /\ Received(next)
<1> DEFINE user        == EnrichFromKlaviyoProfile(profile)
           met(source) == [Idle EXCEPT !.source = source, !.told = told]
<1>1. PICK source \in Sources :
         \/ Step(d, [met(source) EXCEPT !.at = "filtered"])
         \/ Step(d, [met(source) EXCEPT !.at = "dropped"])
         \/ \E event : Step(d, [met(source) EXCEPT !.at = "call",
                             !.payload = BuildTikTokPayload(source, event, user)])
  BY DEF ReceiveMetric
<1>2. DOMAIN met(source) = Entry
  BY DEF Idle, Entry
<1> HIDE DEF met, user
<1>3. Received([met(source) EXCEPT !.at = "filtered"])
  BY <1>2 DEF Received, Entry
<1>4. Received([met(source) EXCEPT !.at = "dropped"])
  BY <1>2 DEF Received, Entry
<1>5. ASSUME NEW payload, Hashed(payload)
      PROVE  Received([met(source) EXCEPT !.at = "call", !.payload = payload])
  BY <1>2, <1>5 DEF Received, Entry
<1> QED BY <1>1, <1>3, <1>4, <1>5, BuildsHashed

LEMMA ReceiveMetricStep ==
    ASSUME PayloadInv, NEW d \in Deliveries, ReceiveMetric(d)
    PROVE  PayloadInv'
<1>1. PICK next : Step(d, next) /\ Received(next)
  BY ReceiveMetricMakes
<1>2. /\ ConvRecords' /\ conv'[d] = next
      /\ \A e \in Deliveries \ {d} : conv'[e] = conv[e]
  BY <1>1 DEF Step, Received, PayloadInv, ConvRecords, Entry
<1>3. taken' = taken
  BY DEF ReceiveMetric
<1>4. \A e \in Built' : Hashed(conv[e].payload)'
  BY <1>1, <1>2 DEF PayloadInv, Built, CallStages, Hashed, Received
<1> QED BY <1>2, <1>3, <1>4 DEF PayloadInv, Hashed

LEMMA PostStep ==
    ASSUME PayloadInv, NEW d \in Deliveries, Post(d)
    PROVE  PayloadInv'
<1>1. PICK answer \in Answers, acted \in BOOLEAN :
         /\ React(d, answer)
         /\ taken' = IF acted THEN taken \cup {conv[d].payload} ELSE taken
  BY DEF Post
<1>2. d \in Built /\ taken' \in {taken, taken \cup {conv[d].payload}}
  BY <1>1 DEF Post, Built, CallStages
<1>3. CASE \E at \in CallStages : Goto(d, at)
  BY <1>2, <1>3, GotoStep
<1>4. CASE conv' = [conv EXCEPT ![d].retries = @ + 1]
  <2>1. /\ ConvRecords'
        /\ conv'[d].at = conv[d].at /\ conv'[d].payload = conv[d].payload
        /\ \A e \in Deliveries \ {d} : conv'[e] = conv[e]
    BY <1>4 DEF PayloadInv, ConvRecords, Entry
  <2>2. Hashed(conv[d].payload)
    BY <1>2 DEF PayloadInv
  <2>3. \A e \in Built' : Hashed(conv[e].payload)'
    BY <2>1, <2>2 DEF PayloadInv, Built, Hashed
  <2>4. \A p \in taken' : Hashed(p)'
    BY <1>2, <2>2 DEF PayloadInv, Hashed
  <2> QED BY <2>1, <2>3, <2>4 DEF PayloadInv
<1> QED BY <1>1, <1>3, <1>4 DEF React, Repeat, CallStages

LEMMA PayloadStep == PayloadInv /\ [Next]_vars => PayloadInv'
<1> SUFFICES ASSUME PayloadInv, [Next]_vars PROVE PayloadInv'
  OBVIOUS
<1>1. CASE UNCHANGED <<conv, taken>>
  BY <1>1 DEF PayloadInv, ConvRecords, Built, Hashed
<1>2. ASSUME NEW l \in Leads, UpsertProfile(l) \/ CreateEvent(l) \/ RetryEvent(l)
      PROVE  UNCHANGED <<conv, taken>>
  BY <1>2 DEF UpsertProfile, CreateEvent, RetryEvent
<1>3. EditProfile => UNCHANGED <<conv, taken>>
  BY DEF EditProfile
<1>4. ASSUME NEW d \in Deliveries, TokenFails(d) \/ RetrySend(d)
      PROVE  PayloadInv'
  <2>1. d \in Built /\ taken' = taken
    BY <1>4 DEF TokenFails, RetrySend, Built, CallStages
  <2> QED BY <1>4, <2>1, GotoStep DEF TokenFails, RetrySend, CallStages
<1>5. UNCHANGED vars => UNCHANGED <<conv, taken>>
  BY DEF vars
<1> QED BY <1>1, <1>2, <1>3, <1>4, <1>5, ReceiveMetricStep, PostStep DEF Next

\* No payload, sent or waiting, has a value of the person in plain text,
\* whatever the leads, the edits and the metrics are.
THEOREM NoPlaintextHolds == Spec => []NoPlaintext
<1>1. PayloadInv => NoPlaintext
  BY DEF PayloadInv, NoPlaintext, Payloads, Hashed
<1> QED BY <1>1, PayloadInit, PayloadStep, PTL DEF Spec

-----------------------------------------------------------------------------
(* How a step leaves one conversion: as it was, further in the call with    *)
(* the payload it has, or met and built from the profile of the moment.     *)

Carried(d) ==
    /\ conv[d].at \in CallStages /\ conv'[d].at \in CallStages
    /\ conv'[d].source = conv[d].source /\ conv'[d].payload = conv[d].payload
    /\ conv'[d].told = conv[d].told
    /\ \/ conv'[d].retries = 0
       \/ conv[d].retries < MaxRetries /\ conv'[d].retries = conv[d].retries + 1

BuiltFrom(source, payload) ==
    \E event \in FilterOutboundEvent(source.metric) :
        /\ Buildable(source, event)
        /\ payload = BuildTikTokPayload(source, event, EnrichFromKlaviyoProfile(profile))

Met(d) ==
    \E source \in Sources :
        /\ conv'[d].source = source /\ conv'[d].told = told /\ conv'[d].retries = 0
        /\ \/ conv'[d].at \in {"filtered", "dropped"}
           \/ conv'[d].at = "call" /\ BuiltFrom(source, conv'[d].payload)

LEMMA MetByReceive ==
    ASSUME ConvRecords, NEW d \in Deliveries, ReceiveMetric(d)
    PROVE  Met(d) /\ \A e \in Deliveries \ {d} : conv'[e] = conv[e]
<1> DEFINE user        == EnrichFromKlaviyoProfile(profile)
           met(source) == [Idle EXCEPT !.source = source, !.told = told]
<1>1. PICK source \in Sources :
         \/ Step(d, [met(source) EXCEPT !.at = "filtered"])
         \/ Step(d, [met(source) EXCEPT !.at = "dropped"])
         \/ \E event \in FilterOutboundEvent(source.metric) :
               /\ Buildable(source, event)
               /\ Step(d, [met(source) EXCEPT !.at = "call",
                             !.payload = BuildTikTokPayload(source, event, user)])
  BY DEF ReceiveMetric
<1>2. /\ met(source).source = source /\ met(source).told = told /\ met(source).retries = 0
      /\ DOMAIN met(source) = Entry
  BY DEF Idle, Entry
<1>3. \A next : Step(d, next) =>
         conv'[d] = next /\ \A e \in Deliveries \ {d} : conv'[e] = conv[e]
  BY DEF Step, ConvRecords
<1> HIDE DEF met
<1>4. ASSUME NEW at \in {"filtered", "dropped"}, Step(d, [met(source) EXCEPT !.at = at])
      PROVE  Met(d)
  <2>1. conv'[d] = [met(source) EXCEPT !.at = at]
    BY <1>3, <1>4
  <2> QED BY <1>2, <2>1 DEF Met, Entry
<1>5. ASSUME NEW event \in FilterOutboundEvent(source.metric), Buildable(source, event),
             Step(d, [met(source) EXCEPT !.at = "call",
                        !.payload = BuildTikTokPayload(source, event, user)])
      PROVE  Met(d)
  <2> DEFINE payload == BuildTikTokPayload(source, event, user)
  <2>1. BuiltFrom(source, payload)
    BY <1>5 DEF BuiltFrom
  <2>2. conv'[d] = [met(source) EXCEPT !.at = "call", !.payload = payload]
    BY <1>3, <1>5
  <2> HIDE DEF payload
  <2>3. /\ conv'[d].at = "call" /\ conv'[d].payload = payload
        /\ conv'[d].source = source /\ conv'[d].told = told /\ conv'[d].retries = 0
    BY <1>2, <2>2 DEF Entry
  <2> QED BY <2>1, <2>3 DEF Met
<1> QED BY <1>1, <1>3, <1>4, <1>5

LEMMA ConversionSteps ==
    ASSUME ConvRecords, [Next]_vars, NEW d \in Deliveries
    PROVE  conv'[d] = conv[d] \/ Carried(d) \/ Met(d)
<1> DEFINE Goal == conv'[d] = conv[d] \/ Carried(d) \/ Met(d)
<1> SUFFICES Goal
  OBVIOUS
<1>1. ASSUME NEW e \in Deliveries, NEW at \in CallStages, conv[e].at \in CallStages, Goto(e, at)
      PROVE  Goal
  BY <1>1 DEF Goto, ConvRecords, Entry, Carried
<1>2. ASSUME NEW e \in Deliveries, Post(e) PROVE Goal
  <2>1. PICK answer : React(e, answer)
    BY <1>2 DEF Post
  <2>2. CASE Goto(e, "sent") \/ Goto(e, "failed")
    BY <1>1, <1>2, <2>2 DEF Post, CallStages
  <2>3. CASE conv[e].retries < MaxRetries /\ conv' = [conv EXCEPT ![e].retries = @ + 1]
    BY <1>2, <2>3 DEF Post, CallStages, ConvRecords, Entry, Carried
  <2> QED BY <2>1, <2>2, <2>3 DEF React, Repeat
<1>3. ASSUME NEW e \in Deliveries, TokenFails(e) \/ RetrySend(e) PROVE Goal
  BY <1>1, <1>3 DEF TokenFails, RetrySend, CallStages
<1>4. ASSUME NEW e \in Deliveries, ReceiveMetric(e) PROVE Goal
  BY <1>4, MetByReceive
<1>5. ASSUME NEW l \in Leads, UpsertProfile(l) \/ CreateEvent(l) \/ RetryEvent(l) PROVE Goal
  BY <1>5 DEF UpsertProfile, CreateEvent, RetryEvent
<1>6. EditProfile \/ UNCHANGED vars => Goal
  BY DEF EditProfile, vars
<1> QED BY <1>2, <1>3, <1>4, <1>5, <1>6 DEF Next

\* TikTok takes nothing but what a call carries.
LEMMA TakenSteps ==
    ASSUME [Next]_vars
    PROVE  \A p \in taken' : p \in taken \/ \E d \in Built : p = conv[d].payload
<1>1. ASSUME NEW d \in Deliveries, Post(d)
      PROVE  \A p \in taken' : p \in taken \/ \E e \in Built : p = conv[e].payload
  <2>1. d \in Built /\ taken' \in {taken, taken \cup {conv[d].payload}}
    BY <1>1 DEF Post, Built, CallStages
  <2> QED BY <2>1
<1>2. ASSUME NEW d \in Deliveries, ReceiveMetric(d) \/ TokenFails(d) \/ RetrySend(d)
      PROVE  taken' = taken
  BY <1>2 DEF ReceiveMetric, TokenFails, RetrySend
<1>3. ASSUME NEW l \in Leads, UpsertProfile(l) \/ CreateEvent(l) \/ RetryEvent(l)
      PROVE  taken' = taken
  BY <1>3 DEF UpsertProfile, CreateEvent, RetryEvent
<1>4. EditProfile \/ UNCHANGED vars => taken' = taken
  BY DEF EditProfile, vars
<1> QED BY <1>1, <1>2, <1>3, <1>4 DEF Next

\* The profile changes by a lead that is told, by an edit, or not at all.
LEMMA ProfileSteps ==
    ASSUME [Next]_vars
    PROVE  \/ \E l \in Leads : Merge(l)
           \/ UNCHANGED told /\ \E edit \in Edits : profile' = Patch(edit, profile)
           \/ UNCHANGED <<profile, told>>
<1>1. ASSUME NEW l \in Leads, UpsertProfile(l) \/ CreateEvent(l) \/ RetryEvent(l)
      PROVE  Merge(l) \/ UNCHANGED <<profile, told>>
  BY <1>1 DEF UpsertProfile, CreateEvent, RetryEvent
<1>2. EditProfile => UNCHANGED told /\ \E edit \in Edits : profile' = Patch(edit, profile)
  BY DEF EditProfile
<1>3. ASSUME NEW d \in Deliveries,
             ReceiveMetric(d) \/ TokenFails(d) \/ Post(d) \/ RetrySend(d)
      PROVE  UNCHANGED <<profile, told>>
  BY <1>3 DEF ReceiveMetric, TokenFails, Post, RetrySend
<1>4. UNCHANGED vars => UNCHANGED <<profile, told>>
  BY DEF vars
<1> QED BY <1>1, <1>2, <1>3, <1>4 DEF Next

LEMMA RecordsInvariant == Spec => []ConvRecords
<1>1. PayloadInv => ConvRecords
  BY DEF PayloadInv
<1> QED BY <1>1, PayloadInit, PayloadStep, PTL DEF Spec

-----------------------------------------------------------------------------
(* Types *)

LEMMA EnrichesFields ==
    ASSUME NEW known PROVE DOMAIN EnrichFromKlaviyoProfile(known) \subseteq Fields
BY DEF EnrichFromKlaviyoProfile

LEMMA StageOfEvent == ASSUME NEW event PROVE FunnelStage(event) \in 1 .. 4
BY DEF FunnelStage

LEMMA BuildsPayload ==
    ASSUME NEW source \in Sources, NEW payload, BuiltFrom(source, payload)
    PROVE  PayloadOK(payload)
<1> DEFINE user == EnrichFromKlaviyoProfile(profile)
<1>1. PICK event \in FilterOutboundEvent(source.metric) :
         Buildable(source, event) /\ payload = BuildTikTokPayload(source, event, user)
  BY DEF BuiltFrom
<1>2. event \in TikTokEvents
  BY DEF FilterOutboundEvent
<1>3. DOMAIN HashUser(user) \subseteq Fields
  BY EnrichesFields DEF HashUser, Hashable
<1> HIDE DEF user
<1>4. /\ payload.event = event /\ payload.dfo_stage = FunnelStage(event)
      /\ payload.hasValue = (event = "Purchase" /\ source.hasValue)
      /\ payload.user = HashUser(user)
  BY <1>1 DEF BuildTikTokPayload
<1>5. payload.hasValue \in BOOLEAN
  BY <1>4, FlowAssumption
<1> QED BY <1>2, <1>3, <1>4, <1>5, StageOfEvent DEF PayloadOK

ConvOK(c) == /\ c.at \in ConvStages /\ c.told \subseteq told
             /\ c.at \in CallStages => PayloadOK(c.payload)
             /\ c.retries \in 0 .. MaxRetries

LEMMA TypeInit == Init => TypeOK
BY FlowAssumption DEF Init, TypeOK, Idle, LeadStages, ConvStages, CallStages

LEMMA LeadStep ==
    ASSUME TypeOK, [Next]_vars PROVE lead' \in [Leads -> LeadStages]
<1>1. ASSUME NEW l \in Leads, UpsertProfile(l) \/ CreateEvent(l) \/ RetryEvent(l)
      PROVE  lead' \in [Leads -> LeadStages]
  BY <1>1 DEF UpsertProfile, CreateEvent, RetryEvent, LeadAt, LeadStages, TypeOK
<1>2. EditProfile \/ UNCHANGED vars => lead' = lead
  BY DEF EditProfile, vars
<1>3. ASSUME NEW d \in Deliveries,
             ReceiveMetric(d) \/ TokenFails(d) \/ Post(d) \/ RetrySend(d)
      PROVE  lead' = lead
  BY <1>3 DEF ReceiveMetric, TokenFails, Post, RetrySend
<1> QED BY <1>1, <1>2, <1>3 DEF Next, TypeOK

\* Klaviyo is never told less, and of no lead but those there are.
LEMMA ToldStep ==
    ASSUME TypeOK, [Next]_vars
    PROVE  told \subseteq told' /\ told' \subseteq {LeadData[l].lead_id : l \in Leads}
BY ProfileSteps DEF TypeOK, Merge

LEMMA TypeStep == TypeOK /\ ConvRecords /\ [Next]_vars => TypeOK'
<1> SUFFICES ASSUME TypeOK, ConvRecords, [Next]_vars PROVE TypeOK'
  OBVIOUS
<1>1. ASSUME NEW d \in Deliveries PROVE ConvOK(conv[d])'
  <2>1. ConvOK(conv[d])
    BY DEF TypeOK, ConvOK, CallStages
  <2>2. \A p : PayloadOK(p)' = PayloadOK(p)
    BY DEF PayloadOK
  <2>3. CASE conv'[d] = conv[d]
    BY <2>1, <2>2, <2>3, ToldStep DEF ConvOK
  <2>4. CASE Carried(d)
    <3>1. conv'[d].retries \in 0 .. MaxRetries
      BY <2>1, <2>4, FlowAssumption DEF ConvOK, Carried
    <3>2. conv'[d].at \in ConvStages
      BY <2>4 DEF Carried, CallStages, ConvStages
    <3> QED BY <2>1, <2>2, <2>4, <3>1, <3>2, ToldStep DEF ConvOK, Carried
  <2>5. CASE Met(d)
    <3>1. conv'[d].told = told /\ conv'[d].retries = 0
          /\ conv'[d].at \in {"filtered", "dropped", "call"}
      BY <2>5 DEF Met
    <3>2. conv'[d].at \in CallStages => PayloadOK(conv'[d].payload)
      BY <2>5, BuildsPayload DEF Met, CallStages
    <3> QED BY <2>2, <3>1, <3>2, ToldStep, FlowAssumption DEF ConvOK, ConvStages, CallStages
  <2> QED BY <2>3, <2>4, <2>5, ConversionSteps
<1>2. \A p \in taken' : PayloadOK(p)
  BY TakenSteps DEF TypeOK, Built
<1> QED BY <1>1, <1>2, LeadStep, ToldStep DEF TypeOK, ConvOK, CallStages, PayloadOK

\* Stages, payloads and counters are what they should be, for any number of
\* leads and deliveries: a call repeats its POST at most MaxRetries times, and a
\* conversion knows of no lead but those told.
THEOREM FlowTypeCorrect == Spec => []TypeOK
BY TypeInit, TypeStep, RecordsInvariant, PTL DEF Spec

-----------------------------------------------------------------------------
(* Event ids *)

\* A metric is one event's, so a source gives one event id.
LEMMA OneEventPerMetric ==
    ASSUME NEW metric,
           NEW event \in FilterOutboundEvent(metric), NEW other \in FilterOutboundEvent(metric)
    PROVE  event = other
<1>1. event \in TikTokEvents /\ metric \in MetricsOf[event]
      /\ other \in TikTokEvents /\ metric \in MetricsOf[other]
  BY DEF FilterOutboundEvent
<1> DEFINE Of(name) == metric \in MetricsOf[name]
<1>2. TikTokEvents = {"SubmitForm", "Contact", "Schedule", "CompleteRegistration",
                       "SubmitApplication", "Purchase", "ApplicationApproval",
                       "Subscribe", "StartTrial"}
  BY DEF TikTokEvents, MetricsOf
<1>3. Of("SubmitForm") => /\ ~Of("Contact") /\ ~Of("Schedule")
                          /\ ~Of("CompleteRegistration") /\ ~Of("SubmitApplication")
                          /\ ~Of("Purchase") /\ ~Of("ApplicationApproval")
                          /\ ~Of("Subscribe") /\ ~Of("StartTrial")
  BY DEF MetricsOf
<1>4. Of("Contact") => /\ ~Of("Schedule") /\ ~Of("CompleteRegistration")
                       /\ ~Of("SubmitApplication") /\ ~Of("Purchase")
                       /\ ~Of("ApplicationApproval") /\ ~Of("Subscribe")
                       /\ ~Of("StartTrial")
  BY DEF MetricsOf
<1>5. Of("Schedule") => /\ ~Of("CompleteRegistration") /\ ~Of("SubmitApplication")
                        /\ ~Of("Purchase") /\ ~Of("ApplicationApproval")
                        /\ ~Of("Subscribe") /\ ~Of("StartTrial")
  BY DEF MetricsOf
<1>6. Of("CompleteRegistration") => /\ ~Of("SubmitApplication") /\ ~Of("Purchase")
                                    /\ ~Of("ApplicationApproval") /\ ~Of("Subscribe")
                                    /\ ~Of("StartTrial")
  BY DEF MetricsOf
<1>7. Of("SubmitApplication") => /\ ~Of("Purchase") /\ ~Of("ApplicationApproval")
                                 /\ ~Of("Subscribe") /\ ~Of("StartTrial")
  BY DEF MetricsOf
<1>8. Of("Purchase") => /\ ~Of("ApplicationApproval") /\ ~Of("Subscribe")
                        /\ ~Of("StartTrial")
  BY DEF MetricsOf
<1>9. Of("ApplicationApproval") => /\ ~Of("Subscribe") /\ ~Of("StartTrial")
  BY DEF MetricsOf
<1>10. Of("Subscribe") => ~Of("StartTrial")
  BY DEF MetricsOf
<1>11. Of(event) /\ Of(other)
  BY <1>1
<1> HIDE DEF Of
<1> QED BY <1>1, <1>2, <1>3, <1>4, <1>5, <1>6, <1>7, <1>8, <1>9, <1>10, <1>11

\* The payload's id is the one of its source.
Named(c) ==
    /\ c.source \in Sources
    /\ \E event \in FilterOutboundEvent(c.source.metric) :
          c.payload.event_id = <<c.source.unique_id, event, c.source.time>>

NamedInv == \A d \in Built : Named(conv[d])

LEMMA NamedStep == NamedInv /\ ConvRecords /\ [Next]_vars => NamedInv'
<1> SUFFICES ASSUME NamedInv, ConvRecords, [Next]_vars, NEW d \in Built'
             PROVE  Named(conv'[d])
  BY DEF NamedInv, Named
<1>1. d \in Deliveries
  BY DEF Built
<1>2. CASE conv'[d] = conv[d]
  BY <1>1, <1>2 DEF NamedInv, Built
<1>3. CASE Carried(d)
  BY <1>1, <1>3 DEF NamedInv, Built, Carried, CallStages, Named
<1>4. CASE Met(d)
  <2>1. PICK source \in Sources :
           conv'[d].source = source /\ BuiltFrom(source, conv'[d].payload)
    BY <1>4 DEF Met, Built, CallStages
  <2>2. PICK event \in FilterOutboundEvent(source.metric) :
           conv'[d].payload =
               BuildTikTokPayload(source, event, EnrichFromKlaviyoProfile(profile))
    BY <2>1 DEF BuiltFrom
  <2>3. conv'[d].payload.event_id = <<source.unique_id, event, source.time>>
    BY <2>2 DEF BuildTikTokPayload, EventId
  <2> QED BY <2>1, <2>3 DEF Named
<1> QED BY <1>1, <1>2, <1>3, <1>4, ConversionSteps

LEMMA NamedInvariant == Spec => []NamedInv
<1>1. Init => NamedInv
  BY DEF Init, Idle, NamedInv, Built, CallStages
<1> QED BY <1>1, NamedStep, RecordsInvariant, PTL DEF Spec

\* Whatever the profiles, leads and other metrics are, two conversions share an id
\* just when unique_id, second and TikTok's event are the same: no lead enters it.
THEOREM IdOfTheEventHolds == Spec => []IdOfTheEvent
<1>1. ASSUME NamedInv, NEW d \in Built, NEW e \in Built
      PROVE  LET s == conv[d].source
                 t == conv[e].source
             IN  conv[d].payload.event_id = conv[e].payload.event_id
                     <=> /\ s.unique_id = t.unique_id /\ s.time = t.time
                         /\ \E event \in TikTokEvents :
                               {s.metric, t.metric} \subseteq MetricsOf[event]
  <2> DEFINE s == conv[d].source
             t == conv[e].source
  <2>1. Named(conv[d]) /\ Named(conv[e])
    BY <1>1 DEF NamedInv
  <2>2. PICK event \in FilterOutboundEvent(s.metric) :
           conv[d].payload.event_id = <<s.unique_id, event, s.time>>
    BY <2>1 DEF Named
  <2>3. PICK other \in FilterOutboundEvent(t.metric) :
           conv[e].payload.event_id = <<t.unique_id, other, t.time>>
    BY <2>1 DEF Named
  <2> HIDE DEF s, t
  <2>4. \A name : name \in TikTokEvents /\ {s.metric, t.metric} \subseteq MetricsOf[name]
            <=> name \in FilterOutboundEvent(s.metric) /\ name \in FilterOutboundEvent(t.metric)
    BY DEF FilterOutboundEvent
  <2>5. event = other <=> \E name \in TikTokEvents : {s.metric, t.metric} \subseteq MetricsOf[name]
    <3>1. ASSUME event = other
          PROVE  \E name \in TikTokEvents : {s.metric, t.metric} \subseteq MetricsOf[name]
      BY <2>4, <3>1
    <3>2. ASSUME NEW name \in TikTokEvents, {s.metric, t.metric} \subseteq MetricsOf[name]
          PROVE  event = other
      <4>1. name \in FilterOutboundEvent(s.metric) /\ name \in FilterOutboundEvent(t.metric)
        BY <2>4, <3>2
      <4> QED BY <4>1, OneEventPerMetric
    <3> QED BY <3>1, <3>2
  <2>6. <<s.unique_id, event, s.time>> = <<t.unique_id, other, t.time>>
            <=> s.unique_id = t.unique_id /\ event = other /\ s.time = t.time
    OBVIOUS
  <2> QED BY <2>2, <2>3, <2>5, <2>6 DEF s, t
<1>2. NamedInv => IdOfTheEvent
  BY <1>1 DEF IdOfTheEvent
<1> QED BY <1>2, NamedInvariant, PTL

-----------------------------------------------------------------------------
(* Values *)

Worth(p) == p.event = "Purchase" => p.hasValue

WorthInv == \A p \in Payloads : Worth(p)

LEMMA WorthStep == WorthInv /\ ConvRecords /\ [Next]_vars => WorthInv'
<1> SUFFICES ASSUME WorthInv, ConvRecords, [Next]_vars PROVE WorthInv'
  OBVIOUS
<1>1. ASSUME NEW d \in Built' PROVE Worth(conv'[d].payload)
  <2>1. d \in Deliveries /\ (d \in Built => Worth(conv[d].payload))
    BY DEF Built, WorthInv, Payloads
  <2>2. CASE conv'[d] = conv[d]
    BY <2>1, <2>2 DEF Built
  <2>3. CASE Carried(d)
    BY <2>1, <2>3 DEF Built, Carried
  <2>4. CASE Met(d)
    <3>1. PICK source \in Sources : BuiltFrom(source, conv'[d].payload)
      BY <2>4 DEF Met, Built, CallStages
    <3>2. PICK event :
             /\ Buildable(source, event)
             /\ conv'[d].payload =
                   BuildTikTokPayload(source, event, EnrichFromKlaviyoProfile(profile))
      BY <3>1 DEF BuiltFrom
    <3>3. /\ conv'[d].payload.event = event
          /\ conv'[d].payload.hasValue = (event = "Purchase" /\ source.hasValue)
      BY <3>2 DEF BuildTikTokPayload
    <3> QED BY <3>2, <3>3, FlowAssumption DEF Worth, Buildable
  <2> QED BY <2>1, <2>2, <2>3, <2>4, ConversionSteps
<1>2. \A p \in taken' : Worth(p)
  BY TakenSteps DEF WorthInv, Payloads
<1> QED BY <1>1, <1>2 DEF WorthInv, Payloads, Worth

\* A Purchase without a value stays with the bridge, however often its metric is
\* delivered, for all metrics, leads and retries.
THEOREM NoPurchaseWithoutValueHolds == Spec => []NoPurchaseWithoutValue
<1>1. Init => WorthInv
  BY DEF Init, Idle, WorthInv, Payloads, Built, CallStages
<1>2. WorthInv => NoPurchaseWithoutValue
  BY DEF WorthInv, Worth, NoPurchaseWithoutValue
<1> QED BY <1>1, <1>2, WorthStep, RecordsInvariant, PTL DEF Spec

-----------------------------------------------------------------------------
(* The profile between the two pipelines *)

\* Both sides keep a field at the same place, and no two fields at one.
LEMMA KeysAgree ==
    /\ \A f \in Fields : ProfileKey[f] = EnrichKey[f]
    /\ \A f, g \in Fields : ProfileKey[f] = ProfileKey[g] => f = g
<1>1. \A f \in Fields : ProfileKey[f] = EnrichKey[f]
  BY DEF Fields, PIIFields, PlainFields, ProfileKey, EnrichKey
<1>2. \A f, g \in Fields : ProfileKey[f] = ProfileKey[g] => f = g
  BY DEF Fields, PIIFields, PlainFields, ProfileKey
<1> QED BY <1>1, <1>2

\* buildKlaviyoEvent writes each field of the user to its place, nothing else.
LEMMA ProfileKeeps ==
    ASSUME NEW user, DOMAIN user \subseteq Fields, NEW f \in Fields
    PROVE  /\ ProfileKey[f] \in DOMAIN ProfileOf(user) <=> f \in DOMAIN user
           /\ f \in DOMAIN user => ProfileOf(user)[ProfileKey[f]] = user[f]
<1>1. ProfileKey[f] \in DOMAIN ProfileOf(user) <=> f \in DOMAIN user
  BY KeysAgree DEF ProfileOf
<1>2. ASSUME f \in DOMAIN user
      PROVE  (CHOOSE g \in DOMAIN user : ProfileKey[g] = ProfileKey[f]) = f
  BY <1>2, KeysAgree
<1> QED BY <1>1, <1>2 DEF ProfileOf

\* enrichFromKlaviyoProfile finds the fields where buildKlaviyoEvent writes them.
LEMMA EnrichFinds ==
    ASSUME NEW known, NEW f \in Fields
    PROVE  /\ f \in DOMAIN EnrichFromKlaviyoProfile(known) <=> ProfileKey[f] \in DOMAIN known
           /\ ProfileKey[f] \in DOMAIN known =>
                  EnrichFromKlaviyoProfile(known)[f] = known[ProfileKey[f]]
BY KeysAgree DEF EnrichFromKlaviyoProfile

LEMMA LeadHasFields ==
    ASSUME NEW data
    PROVE  /\ DOMAIN EnrichFromTikTokLead(data) \subseteq Fields
           /\ "tiktok_lead_id" \in DOMAIN EnrichFromTikTokLead(data)
           /\ EnrichFromTikTokLead(data)["tiktok_lead_id"] = data.lead_id
<1>1. "tiktok_lead_id" \in Fields
  BY DEF Fields, PlainFields
<1> QED BY <1>1 DEF EnrichFromTikTokLead

\* A change of the profile puts new values first and keeps the others.
LEMMA PatchKeeps ==
    ASSUME NEW new, NEW old, NEW key
    PROVE  /\ key \in DOMAIN Patch(new, old) <=> key \in DOMAIN new \cup DOMAIN old
           /\ key \in DOMAIN new => Patch(new, old)[key] = new[key]
           /\ key \in DOMAIN old \ DOMAIN new => Patch(new, old)[key] = old[key]
BY DEF Patch

-----------------------------------------------------------------------------
(* The lead id comes back *)

LeadKey == ProfileKey["tiktok_lead_id"]

LeadKept == told # {} => LeadKey \in DOMAIN profile /\ profile[LeadKey] \in told

BackInv == LeadKept /\ LeadComesBack

LEMMA LeadKeptStep ==
    ASSUME LeadKept, EditsSpareLead, [Next]_vars PROVE LeadKept'
<1> DEFINE id == "tiktok_lead_id"
<1>1. id \in Fields
  BY DEF Fields, PlainFields
<1>2. ASSUME NEW l \in Leads, Merge(l) PROVE LeadKept'
  <2> DEFINE user == EnrichFromTikTokLead(LeadData[l])
  <2>1. DOMAIN user \subseteq Fields /\ id \in DOMAIN user /\ user[id] = LeadData[l].lead_id
    BY LeadHasFields
  <2>2. profile' = Patch(ProfileOf(user), profile) /\ LeadData[l].lead_id \in told'
    BY <1>2 DEF Merge
  <2> HIDE DEF user
  <2>3. LeadKey \in DOMAIN ProfileOf(user) /\ ProfileOf(user)[LeadKey] = LeadData[l].lead_id
    BY <1>1, <2>1, ProfileKeeps DEF LeadKey
  <2>4. LeadKey \in DOMAIN profile' /\ profile'[LeadKey] = LeadData[l].lead_id
    BY <2>2, <2>3, PatchKeeps
  <2> QED BY <2>2, <2>4 DEF LeadKept, LeadKey
<1>3. ASSUME UNCHANGED told, NEW edit \in Edits, profile' = Patch(edit, profile)
      PROVE  LeadKept'
  BY <1>3, PatchKeeps DEF LeadKept, EditsSpareLead, LeadKey
<1>4. UNCHANGED <<profile, told>> => LeadKept'
  BY DEF LeadKept, LeadKey
<1> QED BY <1>2, <1>3, <1>4, ProfileSteps

\* A payload names the lead of the profile it is built from, unhashed.
LEMMA BuildsWithLead ==
    ASSUME NEW source, NEW payload, BuiltFrom(source, payload), LeadKey \in DOMAIN profile
    PROVE  /\ Present(payload.user, "tiktok_lead_id")
           /\ payload.user.tiktok_lead_id = profile[LeadKey]
<1> DEFINE id   == "tiktok_lead_id"
           user == EnrichFromKlaviyoProfile(profile)
<1>1. id \in Fields /\ id \notin PIIFields
  BY DEF Fields, PIIFields, PlainFields
<1>2. id \in DOMAIN user /\ user[id] = profile[LeadKey]
  BY <1>1, EnrichFinds DEF LeadKey
<1>3. payload.user = HashUser(user)
  BY DEF BuiltFrom, BuildTikTokPayload
<1> HIDE DEF user
<1>4. id \in DOMAIN HashUser(user) /\ HashUser(user)[id] = user[id]
  BY <1>1, <1>2 DEF HashUser
<1> QED BY <1>2, <1>3, <1>4 DEF Present

LEMMA BackStep ==
    BackInv /\ EditsSpareLead /\ ConvRecords /\ [Next]_vars => BackInv'
<1> SUFFICES ASSUME BackInv, EditsSpareLead, ConvRecords, [Next]_vars PROVE BackInv'
  OBVIOUS
<1> DEFINE Back(c) == c.told # {} => /\ Present(c.payload.user, "tiktok_lead_id")
                                     /\ c.payload.user.tiktok_lead_id \in c.told
<1>1. ASSUME NEW d \in Built' PROVE Back(conv'[d])
  <2>1. d \in Deliveries /\ (d \in Built => Back(conv[d]))
    BY DEF Built, BackInv, LeadComesBack
  <2>2. CASE conv'[d] = conv[d]
    BY <2>1, <2>2 DEF Built
  <2>3. CASE Carried(d)
    BY <2>1, <2>3 DEF Built, Carried, CallStages
  <2>4. CASE Met(d)
    <3>1. PICK source \in Sources :
             conv'[d].told = told /\ BuiltFrom(source, conv'[d].payload)
      BY <2>4 DEF Met, Built, CallStages
    <3>2. CASE told = {}
      BY <3>1, <3>2
    <3>3. CASE told # {}
      BY <3>1, <3>3, BuildsWithLead DEF BackInv, LeadKept
    <3> QED BY <3>2, <3>3
  <2> QED BY <2>1, <2>2, <2>3, <2>4, ConversionSteps
<1>2. LeadComesBack'
  BY <1>1 DEF LeadComesBack, Present
<1> QED BY <1>2, LeadKeptStep DEF BackInv

\* The round trip: once Klaviyo was given a lead, every conversion that leaves
\* afterwards names one that Klaviyo had by then, however leads, retries of
\* their calls and edits of the rest of the profile are interleaved.
THEOREM LeadComesBackHolds ==
    ASSUME EditsSpareLead PROVE Spec => []LeadComesBack
<1>1. Init => BackInv
  BY DEF Init, Idle, BackInv, LeadKept, LeadComesBack, Built, CallStages
<1>2. BackInv /\ ConvRecords /\ [Next]_vars => BackInv'
  BY BackStep
<1>3. BackInv => LeadComesBack
  BY DEF BackInv
<1> QED BY <1>1, <1>2, <1>3, RecordsInvariant, PTL DEF Spec

-----------------------------------------------------------------------------
(* One hash of the e-mail, one of the phone *)

\* The hashes are those of the normal forms.
OneKey(p, words, national) ==
    /\ Present(p.user, "email") =>
           p.user["email"] = SHA256([words |-> words, upper |-> FALSE, padded |-> FALSE])
    /\ Present(p.user, "phone") => p.user["phone"] = SHA256(E164(<<1>> \o national))

KeyInv(words, national) ==
    /\ OwnProfile(profile, words, national)
    /\ \A p \in Payloads : OneKey(p, words, national)

\* An address has one normal form, in whatever way it is written.
LEMMA WritingsAgree ==
    ASSUME NEW words, NEW text \in Writings(words)
    PROVE  NormalizeText(text) = [words |-> words, upper |-> FALSE, padded |-> FALSE]
<1> DEFINE normal == NormalizeText(text)
<1>1. DOMAIN text = {"words", "upper", "padded"} /\ text.words = words
  BY DEF Writings
<1>2. DOMAIN normal = {"words", "upper", "padded"} /\ normal = [k \in DOMAIN normal |-> normal[k]]
  BY <1>1 DEF NormalizeText
<1>3. normal.words = words
  BY <1>1 DEF NormalizeText
<1>4. normal.upper = FALSE
  BY <1>1 DEF NormalizeText
<1>5. normal.padded = FALSE
  BY <1>1 DEF NormalizeText
<1> HIDE DEF normal
<1>6. normal = [words |-> words, upper |-> FALSE, padded |-> FALSE]
  BY <1>2, <1>3, <1>4, <1>5
<1> QED BY <1>6 DEF normal

LEMMA ContactFields == {"email", "phone"} \subseteq PIIFields /\ PIIFields \subseteq Fields
BY DEF PIIFields, Fields

\* The profile that buildKlaviyoEvent writes of an own lead is an own profile.
LEMMA WritesOwn ==
    ASSUME NEW words, NEW national, NEW user, DOMAIN user \subseteq Fields,
           OwnContact(user, "email", "phone", words, national)
    PROVE  OwnProfile(ProfileOf(user), words, national)
<1>1. \A f \in {"email", "phone"} :
         /\ ProfileKey[f] \in DOMAIN ProfileOf(user) <=> f \in DOMAIN user
         /\ f \in DOMAIN user => ProfileOf(user)[ProfileKey[f]] = user[f]
  BY ContactFields, ProfileKeeps
<1> QED BY <1>1 DEF OwnProfile, OwnContact

LEMMA OwnProfileStep ==
    ASSUME NEW words, NEW national, OnePerson(words, national),
           OwnProfile(profile, words, national), [Next]_vars
    PROVE  OwnProfile(profile', words, national)
<1>1. ASSUME NEW new, OwnProfile(new, words, national)
      PROVE  OwnProfile(Patch(new, profile), words, national)
  BY <1>1, PatchKeeps DEF OwnProfile, OwnContact
<1>2. ASSUME NEW l \in Leads, Merge(l) PROVE OwnProfile(profile', words, national)
  <2> DEFINE user == EnrichFromTikTokLead(LeadData[l])
  <2>1. DOMAIN user \subseteq Fields /\ OwnContact(user, "email", "phone", words, national)
    BY LeadHasFields DEF OnePerson
  <2>2. profile' = Patch(ProfileOf(user), profile)
    BY <1>2 DEF Merge
  <2> HIDE DEF user
  <2> QED BY <1>1, <2>1, <2>2, WritesOwn
<1>3. ASSUME NEW edit \in Edits PROVE OwnProfile(edit, words, national)
  BY DEF OnePerson
<1>4. UNCHANGED profile => OwnProfile(profile', words, national)
  OBVIOUS
<1> QED BY <1>1, <1>2, <1>3, <1>4, ProfileSteps

\* However they are written, hashUser makes one hash of each.
LEMMA HashesAlike ==
    ASSUME NEW words, NEW national, Diallable(national), NEW user,
           OwnContact(user, "email", "phone", words, national)
    PROVE  OneKey([user |-> HashUser(user)], words, national)
<1> DEFINE hashed == HashUser(user)
<1>1. \A f \in {"email", "phone"} : f \in DOMAIN hashed =>
         f \in DOMAIN user /\ hashed[f] = SHA256(Normalize(f, user[f]))
  BY ContactFields DEF HashUser, Hashable
<1> HIDE DEF hashed
<1>2. ASSUME "email" \in DOMAIN hashed
      PROVE  hashed["email"] = SHA256([words |-> words, upper |-> FALSE, padded |-> FALSE])
  <2>1. user["email"] \in Writings(words)
    BY <1>1, <1>2 DEF OwnContact
  <2>2. NormalizeText(user["email"]) = [words |-> words, upper |-> FALSE, padded |-> FALSE]
    BY <2>1, WritingsAgree
  <2>3. Normalize("email", user["email"]) = NormalizeText(user["email"])
    BY DEF Normalize
  <2> QED BY <1>1, <1>2, <2>2, <2>3
<1>3. ASSUME "phone" \in DOMAIN hashed
      PROVE  hashed["phone"] = SHA256(E164(<<1>> \o national))
  <2>1. user["phone"] \in Spellings(national)
    BY <1>1, <1>3 DEF OwnContact
  <2>2. NormalizePhone(user["phone"]) = E164(<<1>> \o national)
    BY <2>1, SpellingsAgree DEF Diallable
  <2>3. Normalize("phone", user["phone"]) = NormalizePhone(user["phone"])
    BY DEF Normalize
  <2> QED BY <1>1, <1>3, <2>2, <2>3
<1>4. [user |-> HashUser(user)].user = hashed
  BY DEF hashed
<1> QED BY <1>2, <1>3, <1>4 DEF OneKey, Present

\* What is built from an own profile has its keys.
LEMMA BuildsOneKey ==
    ASSUME NEW words, NEW national, Diallable(national),
           OwnProfile(profile, words, national),
           NEW source, NEW payload, BuiltFrom(source, payload)
    PROVE  OneKey(payload, words, national)
<1> DEFINE user == EnrichFromKlaviyoProfile(profile)
<1>1. payload.user = HashUser(user)
  BY DEF BuiltFrom, BuildTikTokPayload
<1>2. \A f \in {"email", "phone"} :
         /\ f \in DOMAIN user <=> ProfileKey[f] \in DOMAIN profile
         /\ ProfileKey[f] \in DOMAIN profile => user[f] = profile[ProfileKey[f]]
  BY ContactFields, EnrichFinds
<1> HIDE DEF user
<1>3. OwnContact(user, "email", "phone", words, national)
  BY <1>2 DEF OwnProfile, OwnContact
<1>4. OneKey([user |-> HashUser(user)], words, national)
  BY <1>3, HashesAlike
<1>5. [user |-> HashUser(user)].user = HashUser(user)
  OBVIOUS
<1> QED BY <1>1, <1>4, <1>5 DEF OneKey

LEMMA KeyStep ==
    ASSUME NEW words, NEW national, OnePerson(words, national)
    PROVE  KeyInv(words, national) /\ ConvRecords /\ [Next]_vars => KeyInv(words, national)'
<1> SUFFICES ASSUME KeyInv(words, national), ConvRecords, [Next]_vars
             PROVE  KeyInv(words, national)'
  OBVIOUS
<1>1. ASSUME NEW d \in Built' PROVE OneKey(conv'[d].payload, words, national)
  <2>1. d \in Deliveries /\ (d \in Built => OneKey(conv[d].payload, words, national))
    BY DEF Built, KeyInv, Payloads
  <2>2. CASE conv'[d] = conv[d]
    BY <2>1, <2>2 DEF Built
  <2>3. CASE Carried(d)
    BY <2>1, <2>3 DEF Built, Carried, CallStages
  <2>4. CASE Met(d)
    <3>1. PICK source \in Sources : BuiltFrom(source, conv'[d].payload)
      BY <2>4 DEF Met, Built, CallStages
    <3> QED BY <3>1, BuildsOneKey DEF KeyInv, OnePerson
  <2> QED BY <2>1, <2>2, <2>3, <2>4, ConversionSteps
<1>2. \A p \in taken' : OneKey(p, words, national)
  BY TakenSteps DEF KeyInv, Payloads
<1>3. \A p \in Payloads' : OneKey(p, words, national)
  BY <1>1, <1>2 DEF Payloads
<1>4. OwnProfile(profile', words, national)
  BY OwnProfileStep DEF KeyInv
<1> QED BY <1>3, <1>4 DEF KeyInv, OwnProfile, OwnContact, OneKey, Present

\* A match does not depend on the spelling: of a person with one address and one
\* US number TikTok is given one hash of each, from whatever form or edit of the
\* profile they come, and whichever of them is the last before the metric.
THEOREM OnePersonOneKeyHolds ==
    ASSUME NEW words, NEW national, OnePerson(words, national)
    PROVE  Spec => []OnePersonOneKey
<1>1. Init => KeyInv(words, national)
  <2> SUFFICES ASSUME Init PROVE KeyInv(words, national)
    OBVIOUS
  <2>1. DOMAIN profile = {}
    BY DEF Init
  <2>2. Payloads = {}
    BY DEF Init, Idle, Payloads, Built, CallStages
  <2> QED BY <2>1, <2>2 DEF KeyInv, OwnProfile, OwnContact
<1>2. KeyInv(words, national) /\ ConvRecords /\ [Next]_vars => KeyInv(words, national)'
  BY KeyStep
<1>3. KeyInv(words, national) => OnePersonOneKey
  BY DEF KeyInv, OnePersonOneKey, OneKey
<1> QED BY <1>1, <1>2, <1>3, RecordsInvariant, PTL DEF Spec

=============================================================================
