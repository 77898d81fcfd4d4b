-------------------------------- MODULE BankQr --------------------------------
(***************************************************************************)
(* The QR code of a bank transfer (src/server/billing/qr-payment.ts): the  *)
(* account number completed to an IBAN or refused, the payload built from  *)
(* tag, length and value, and how a banking application reads it back, one *)
(* element after the other.  A text is a sequence of code points, a        *)
(* payload one of bytes.  The four characters of the checksum are left     *)
(* blank.                                                                  *)
(* A definition named <What>_<definition> is <definition> with a bug in it *)
(* that the properties are shown to catch; nothing else uses it.           *)
(***************************************************************************)
EXTENDS Integers, Sequences, FiniteSets, SequencesExt

CONSTANTS
  Accounts,    \* what is configured as the account, normalised: its digits, and whether the
               \* letters AO are before them; no digits when there is none or when it has
               \* any other character
  Names,       \* merchant names
  Cities,      \* merchant cities
  References,  \* payment references
  Guis,        \* acquirer identifiers
  Amounts      \* amounts in cents

\* Code points that take two bytes at most, identifiers that are given (src/lib/env.ts:93
\* makes a blank one undefined, and it has a default), and amounts of 31 bits, as the column amount_cents has them.
ASSUME QrOK == /\ Accounts \subseteq [ao : BOOLEAN, digits : Seq(0..9)]
               /\ Names \cup Cities \cup References \cup Guis \subseteq Seq(0..2047)
               /\ << >> \notin Guis
               /\ Amounts \subseteq Nat /\ \A cents \in Amounts : cents \div 2 < 2 ^ 30

VARIABLES
  input,    \* the input of tryBuildAngolaBankQr
  payload,  \* what it returned: Null when it could not be built
  cursor,   \* how far parseTlv has come, in bytes
  elements  \* the elements it has read

qrVars == <<input, payload, cursor, elements>>

Null == << >>
Zero == 48 \* the code of the digit 0
Digits(ns) == [i \in DOMAIN ns |-> Zero + ns[i]]

\* The decimal digits of n, `width` of them at least.
Decimal(n, width) ==
  LET Needed == CHOOSE w \in width..10 : n < 10 ^ w /\ (w = width \/ n >= 10 ^ (w - 1))
  IN Digits([i \in 1..Needed |-> (n \div 10 ^ (Needed - i)) % 10])

\* UTF-8, of code points below 2048.
Encode(text) ==
  FlattenSeq([i \in DOMAIN text |->
    IF text[i] < 128 THEN <<text[i]>> ELSE <<192 + (text[i] \div 64), 128 + (text[i] % 64)>>])

-----------------------------------------------------------------------------
\* The IBAN.

\* A and O, as the standard counts letters.
AO == <<1, 0, 2, 4>>

Mod97(ns) == FoldLeft(LAMBDA remainder, n : (remainder * 10 + n) % 97, 0, ns)

checkDigits(account) ==
  LET c == 98 - Mod97(account \o AO \o <<0, 0>>) IN <<c \div 10, c % 10>>

IsIban(account) == account.ao /\ Len(account.digits) = 23
IsBban(account) == ~account.ao /\ Len(account.digits) = 21

\* A full IBAN, and what is of neither shape, is returned as it is.
toAngolaIban(account) ==
  IF IsBban(account)
  THEN [ao |-> TRUE, digits |-> checkDigits(account.digits) \o account.digits]
  ELSE account

Verified(digits) == Mod97(SubSeq(digits, 3, 23) \o AO \o SubSeq(digits, 1, 2)) = 1

isValidAngolaIban(account) ==
  LET iban == toAngolaIban(account) IN IsIban(iban) /\ Verified(iban.digits)

IbanText(account) == <<65, 79>> \o Digits(toAngolaIban(account).digits)

-----------------------------------------------------------------------------
\* The payload.

Units_lengthOf(value) == Len(value)

\* The length of an element counts bytes.
lengthOf(value) == Len(Encode(value))

Fits(value) == lengthOf(value) <= 99

tlv(tag, value) == Decimal(tag, 2) \o Decimal(lengthOf(value), 2) \o value

\* (amountCents / 100).toFixed(2)
formatQrAmount(cents) == Decimal(cents \div 100, 1) \o <<46>> \o Decimal(cents % 100, 2)

\* The white space of ECMAScript among these code points.
Blanks == (9..13) \cup {32, 160}

LeadingBlanks(text) == Cardinality({i \in DOMAIN text : \A j \in 1..i : text[j] \in Blanks})
TrailingBlanks(text) ==
  Cardinality({i \in DOMAIN text : \A j \in i..Len(text) : text[j] \in Blanks})

Trim(text) == SubSeq(text, LeadingBlanks(text) + 1, Len(text) - TrailingBlanks(text))

Cut(text, units) == SubSeq(text, 1, IF Len(text) < units THEN Len(text) ELSE units)

domestic == tlv(0, input.gui) \o tlv(1, IbanText(input.account)) \o tlv(2, input.reference)
additional == tlv(1, input.reference) \o tlv(5, input.reference)

\* The elements of buildAngolaBankQr but the last, for an amount that is known.
Fields == <<<<0, <<48, 49>> >>, <<1, <<49, 50>> >>,
            <<26, domestic>>,
            <<52, <<48, 48, 48, 48>> >>, <<53, <<57, 55, 51>> >>,
            <<54, formatQrAmount(input.amount)>>,
            <<58, <<65, 79>> >>,
            <<59, Cut(Trim(input.name), 25)>>,
            <<60, Cut(Trim(input.city), 15)>>,
            <<62, additional>> >>

\* assertQrInput, and every element within 99 bytes.
Buildable == /\ isValidAngolaIban(input.account)
             /\ Trim(input.name) # << >>
             /\ Trim(input.reference) # << >>
             /\ \A i \in DOMAIN Fields : Fits(Fields[i][2])
             /\ Fits(input.gui)
             /\ Fits(input.reference)

Checksum == Decimal(63, 2) \o Decimal(4, 2) \o <<0, 0, 0, 0>>

\* tryBuildAngolaBankQr
BuildAngolaBankQr ==
  /\ payload = Null
  /\ cursor = 0
  /\ payload' = IF Buildable
                THEN Encode(FlattenSeq([i \in DOMAIN Fields |-> tlv(Fields[i][1], Fields[i][2])])
                            \o Checksum)
                ELSE Null
  /\ cursor' = 1
  /\ UNCHANGED <<input, elements>>

\* parseTlv reads its next element: the header, and as many bytes as it declares.
Number(i) == 10 * (payload[i] - Zero) + payload[i + 1] - Zero

EndOfElement == cursor + 4 + Number(cursor + 2)

Readable == /\ cursor + 3 <= Len(payload)
            /\ \A i \in cursor..(cursor + 3) : payload[i] - Zero \in 0..9
            /\ EndOfElement <= Len(payload) + 1

ReadElement ==
  /\ cursor \in 1..Len(payload)
  /\ Readable
  /\ elements' = Append(elements,
                        <<Number(cursor), SubSeq(payload, cursor + 4, EndOfElement - 1)>>)
  /\ cursor' = EndOfElement
  /\ UNCHANGED <<input, payload>>

QrInit == /\ input \in [account: Accounts, name: Names, city: Cities, reference: References,
                        gui: Guis, amount: Amounts]
          /\ payload = Null
          /\ cursor = 0
          /\ elements = << >>

QrNext == BuildAngolaBankQr \/ ReadElement

-----------------------------------------------------------------------------
\* The reader is never stopped by a header it cannot read, and what it has read are the
\* account, amount, reference and names that were asked for, in order.  A transfer has no code
\* only if what is configured is neither a bare account number nor an IBAN with its check
\* digits, its name or its reference is blank, or its texts are too long for an element
\* (qr-payment.ts:77-127, 143-275).
QrReadsBack ==
  /\ \A i \in DOMAIN elements :
       elements[i] = IF i <= Len(Fields) THEN <<Fields[i][1], Encode(Fields[i][2])>>
                     ELSE <<63, <<0, 0, 0, 0>> >>
  /\ cursor \in 1..Len(payload) => Readable
  /\ cursor > Len(payload) /\ payload # Null => Len(elements) = Len(Fields) + 1
  /\ cursor > 0 /\ payload = Null =>
       \/ /\ ~IsBban(input.account)
          /\ ~(IsIban(input.account) /\ Verified(input.account.digits))
       \/ \A i \in DOMAIN input.name : input.name[i] \in Blanks
       \/ \A i \in DOMAIN input.reference : input.reference[i] \in Blanks
       \/ Len(Encode(input.gui)) + Len(Encode(input.reference)) + 4 + 4 + 29 > 99
       \/ 2 * (Len(Encode(input.reference)) + 4) > 99
=============================================================================
