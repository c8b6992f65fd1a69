----------------------------- MODULE Normalizer -----------------------------
(***************************************************************************)
(* The normal forms of what a person is matched by.  A text is a record of *)
(* the words in it and of how they are written (upper, padded); a phone    *)
(* number is what normalizePhone sees of its text: a leading plus, the     *)
(* digits, and whether other characters stand between them.                *)
(***************************************************************************)
EXTENDS Integers, Sequences

CONSTANT NationalLength     \* digits of a US number without country code (10)

ASSUME NationalAssumption == NationalLength \in Nat

Digits == 0 .. 9
Phones == [plus : BOOLEAN, digits : Seq(Digits), formatted : BOOLEAN]

-----------------------------------------------------------------------------

\* normalizeEmail, normalizeName: trim and lower case.
NormalizeText(text) == [text EXCEPT !.upper = FALSE, !.padded = FALSE]

IsBlank(text) == text.words = <<>>

\* The first word, and what follows the first space.
ParseFullName(name) ==
    LET part(words) == [name EXCEPT !.words = words, !.padded = FALSE]
    IN  IF IsBlank(name) THEN [first_name |-> part(<<>>), last_name |-> part(<<>>)]
        ELSE [first_name |-> part(<<Head(name.words)>>), last_name |-> part(Tail(name.words))]

E164(digits) == [plus |-> TRUE, digits |-> digits, formatted |-> FALSE]
NoPhone      == [plus |-> FALSE, digits |-> <<>>, formatted |-> FALSE]

DialledAbroad(digits) == Len(digits) >= 2 /\ digits[1] = 0 /\ digits[2] = 0

\* Mutant: a number of NationalLength digits is taken for an international one.
WithCountryCodeShort(digits) ==
    IF DialledAbroad(digits) THEN SubSeq(digits, 3, Len(digits))
    ELSE IF Len(digits) >= NationalLength THEN digits
    ELSE <<1>> \o digits

\* The digits of a number without a plus, country code first: 00 is dropped,
\* more than NationalLength digits have one, any others are taken for US.
WithCountryCode(digits) ==
    IF DialledAbroad(digits) THEN SubSeq(digits, 3, Len(digits))
    ELSE IF Len(digits) > NationalLength THEN digits
    ELSE <<1>> \o digits

NormalizePhone(phone) ==
    IF phone.plus THEN E164(phone.digits)
    ELSE IF phone.digits = <<>> THEN NoPhone
    ELSE E164(WithCountryCode(phone.digits))

\* How a US number is written: with its country code after a plus, 00 or
\* nothing, or without.
Spellings(national) ==
    LET us == <<1>> \o national
    IN  [plus : {TRUE}, digits : {us}, formatted : BOOLEAN]
        \cup [plus : {FALSE}, digits : {national, us, <<0, 0>> \o us}, formatted : BOOLEAN]

=============================================================================
