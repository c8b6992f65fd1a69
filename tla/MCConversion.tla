---------------------------- MODULE MCConversion ----------------------------
(* Instances of ConversionFlow for TLC: two leads of one person, who is      *)
(* spelled in several ways, and a profile that is edited in between.        *)
EXTENDS ConversionFlow

CONSTANTS l1, l2, d1, d2

Text(words, upper) == [words |-> words, upper |-> upper, padded |-> upper]
Blank              == Text(<<>>, TRUE)
Field(name, value) == [name |-> name, value |-> value]

Phone  == <<2, 0, 1, 5, 5, 5, 0, 1, 2, 3>>
Plain  == [plus |-> FALSE, digits |-> Phone, formatted |-> TRUE]
Abroad == [plus |-> FALSE, digits |-> <<0, 0, 1>> \o Phone, formatted |-> FALSE]

\* The first form asks for the full name; the second asks twice for the e-mail,
\* and its name is left blank.
MCLeadData ==
    (l1 :> [lead_id |-> "lead 1",
            field_data |-> <<Field("email", Text(<<"ada@x">>, FALSE)),
                             Field("full_name", Text(<<"ada", "lovelace">>, TRUE)),
                             Field("phone_number", Plain)>>]) @@
    (l2 :> [lead_id |-> "lead 2",
            field_data |-> <<Field("email", Text(<<"typo@x">>, FALSE)),
                             Field("email", Text(<<"ada@x">>, TRUE)),
                             Field("full_name", Blank),
                             Field("phone", Abroad)>>])

\* The loop of enrichFromTikTokLead, entry by entry.
ApplyInOrder(form) ==
    FoldLeft(LAMBDA user, field : FieldSets(field) @@ user,
             [tiktok_lead_id |-> form.lead_id], form.field_data)

\* EnrichFromTikTokLead gives what the loop leaves, for forms of up to three
\* fields: names in full and in part, blank ones, fields asked for twice.
ASSUME EnrichIsTheLoop ==
    LET fields == {Field("email", Text(<<"ada@x">>, TRUE)), Field("email", Blank),
                   Field("phone", Plain), Field("phone_number", Abroad),
                   Field("full_name", Text(<<"ada", "lovelace">>, TRUE)),
                   Field("full_name", Text(<<"ada">>, FALSE)), Field("full_name", Blank),
                   Field("last_name", Text(<<"byron">>, FALSE)), Field("city", Blank)}
    IN  \A n \in 0 .. 3 : \A data \in [1 .. n -> fields] :
            LET form == [lead_id |-> "lead", field_data |-> data]
            IN  EnrichFromTikTokLead(form) = ApplyInOrder(form)

\* Klaviyo brings the phone into its own form, and the shop's id becomes known.
MCEdits ==
    {[phone_number |-> E164(<<1>> \o Phone), external_id |-> Text(<<"shop 7">>, TRUE)]}

Source(id, metric, hasValue) ==
    [unique_id |-> id, metric |-> metric, time |-> 1, hasValue |-> hasValue]

\* Of one unique_id: a sale under two names, another event, and a metric that is
\* filtered out.  Of another: a sale without a value.
MCSources == {Source("u1", "deal won", TRUE), Source("u1", "closed won", TRUE),
              Source("u1", "qualified", FALSE), Source("u1", "opened email", FALSE),
              Source("u2", "customer", FALSE)}

\* The instance is one of those that the theorems are about.
ASSUME TheoremsApply == EditsSpareLead /\ OnePerson(<<"ada@x">>, Phone)

MCSymmetry == Permutations({d1, d2})

=============================================================================
