------------------------------ MODULE Invoices ------------------------------
(***************************************************************************)
(* Lightning's two encoded texts, as crates/hit-event/src/zap.rs reads and *)
(* writes them: a bolt11 invoice and an LNURL, in five-bit words behind a  *)
(* prefix, with bech32's checksum.                                         *)
(*                                                                         *)
(* A prefix is a sequence of small numbers: for an invoice its currency    *)
(* and, unless the payer chooses, the digits of the amount (one number)    *)
(* and the letter of the multiplier.  The alphabet, upper and lower case   *)
(* and the `lightning:` scheme are left out.                               *)
(***************************************************************************)
EXTENDS NodeBase, SequencesExt
LOCAL INSTANCE Bitwise

CONSTANTS THOUSAND,         \* from one multiplier to the next: 1000
          U64_MAX,          \* the largest amount: 2^64 - 1
          TIME_WORDS,       \* words of a timestamp: 7
          SIGNATURE_WORDS,  \* words of a signature: 104
          HASH_WORDS        \* words of a hash: 52

ASSUME InvoiceConstants == /\ {U64_MAX, TIME_WORDS, SIGNATURE_WORDS, HASH_WORDS} \subseteq Nat
                           /\ THOUSAND \in Nat \ {0} /\ THOUSAND % 10 = 0

Zeros(n) == [i \in 1..n |-> 0]

-----------------------------------------------------------------------------
(* Bytes and words. *)

\* Groups of `from` bits, regrouped into groups of `to` bits; what does not
\* fill one is left in acc.
Regroup(values, from, to) ==
    LET take[s \in [acc : Nat, bits : Nat, out : Seq(Nat)]] ==
            IF s.bits < to THEN s
            ELSE take[[acc |-> s.acc % 2^(s.bits - to), bits |-> s.bits - to,
                       out |-> Append(s.out, s.acc \div 2^(s.bits - to))]]
        next(s, v) == take[[acc |-> s.acc * 2^from + v, bits |-> s.bits + from, out |-> s.out]]
    IN  FoldLeft(next, [acc |-> 0, bits |-> 0, out |-> <<>>], values)

\* to_words: the last word filled up with zeros.
ToWords(bytes) ==
    LET s == Regroup(bytes, 8, 5)
    IN  IF s.bits = 0 THEN s.out ELSE Append(s.out, s.acc * 2^(5 - s.bits))

\* to_bytes: what does not fill a byte is dropped.
ToBytes(words) == Regroup(words, 5, 8).out

Number(words) == FoldLeft(LAMBDA a, w : 32 * a + w, 0, words)

\* The n words of a number, and the fewest that hold it.
Fixed(x, n) == [k \in 1..n |-> (x \div 32^(n - k)) % 32]
Fewest(x) == Fixed(x, Least({n \in 0..6 : x < 32^n}))

-----------------------------------------------------------------------------
(* bech32 *)

GEN == <<996825010, 642813549, 513874426, 1027748829, 705979059>>

Polymod(values) ==
    LET mix[c \in Nat, v \in Nat] ==
            LET b == c \div 2^25
                of(d, i) == IF (b \div 2^(i - 1)) % 2 = 1 THEN d ^^ GEN[i] ELSE d
            IN  FoldLeft(of, ((c % 2^25) * 32) ^^ v, <<1, 2, 3, 4, 5>>)
    IN  FoldLeft(LAMBDA c, v : mix[c, v], 1, values)

HrpExpand(hrp) == [i \in DOMAIN hrp |-> hrp[i] \div 32] \o <<0>> \o [i \in DOMAIN hrp |-> hrp[i] % 32]

Bech32(hrp, words) ==
    [hrp |-> hrp, words |-> words \o Fixed(Polymod(HrpExpand(hrp) \o words \o Zeros(6)) ^^ 1, 6)]

\* The words without their checksum, or None.
UnBech32(t) ==
    IF t.hrp = <<>> \/ Len(t.words) < 6 \/ Polymod(HrpExpand(t.hrp) \o t.words) # 1 THEN None
    ELSE SubSeq(t.words, 1, Len(t.words) - 6)

-----------------------------------------------------------------------------
(* Amounts, in millisats. *)

LETTERS == <<"m", "u", "n", "p">>
Per(i) == (THOUSAND \div 10) * THOUSAND^(3 - i)   \* i = 0: a whole bitcoin

\* format_amount: the largest multiplier that divides it.
FormatAmount(msat) ==
    LET fits == {i \in 1..3 : msat % Per(i) = 0}
    IN  IF fits = {} THEN <<msat * 10, 4>> ELSE <<msat \div Per(Least(fits)), Least(fits)>>

\* parse_amount: no leading zero, no fraction of a millisat, and checked_mul.
ParseAmount(n, mult) ==
    IF n = 0 THEN None
    ELSE IF mult = 4 THEN (IF n % 10 = 0 THEN n \div 10 ELSE None)
    ELSE IF n > U64_MAX \div Per(mult) THEN None ELSE n * Per(mult)

-----------------------------------------------------------------------------
(* Invoices *)

BITCOIN == 2
LNURL == 3
PAYMENT == 1
DESCRIPTION_HASH == 23
DESCRIPTION == 13
EXPIRY == 6
DEFAULT_EXPIRY == 3600

Field(kind, data) == <<kind, Len(data) \div 32, Len(data) % 32>> \o data

\* The words of an invoice's own part, `more` being a field of another build.
InvoiceWords(m, more) ==
    LET opt(kind, data) == IF data = None THEN <<>> ELSE Field(kind, ToWords(data))
    IN  Fixed(m.timestamp, TIME_WORDS)
        \o opt(PAYMENT, m.payment_hash) \o opt(DESCRIPTION_HASH, m.description_hash)
        \o opt(DESCRIPTION, m.description)
        \o (IF m.expiry = DEFAULT_EXPIRY THEN <<>> ELSE Field(EXPIRY, Fewest(m.expiry)))
        \o more \o Zeros(SIGNATURE_WORDS)

\* encode_unsigned
EncodeInvoice(m, more) ==
    Bech32(<<BITCOIN>> \o (IF m.amount_msat = None THEN <<>> ELSE FormatAmount(m.amount_msat)),
           InvoiceWords(m, more))

\* The fields in the data, by kind: a later one of a kind over an earlier, a
\* hash of another length for nothing; None if the last is cut short.
FieldsIn(data) ==
    LET from[i \in Nat] ==
            IF i > Len(data) THEN <<>>
            ELSE IF i + 2 > Len(data) THEN None
            ELSE LET kind == data[i]
                     end == i + 2 + 32 * data[i + 1] + data[i + 2]
                     field == SubSeq(data, i + 3, end)
                     known == kind \in {PAYMENT, DESCRIPTION_HASH} => Len(field) = HASH_WORDS
                 IN  IF end > Len(data) \/ from[end + 1] = None THEN None
                     ELSE IF known THEN from[end + 1] @@ (kind :> field) ELSE from[end + 1]
    IN  from[TIME_WORDS + 1]

\* Invoice::decode
DecodeInvoice(t) ==
    LET words == UnBech32(t)
        data == SubSeq(words, 1, Len(words) - SIGNATURE_WORDS)
        amount == IF Len(t.hrp) = 1 THEN None ELSE ParseAmount(t.hrp[2], t.hrp[3])
        fields == FieldsIn(data)
        bytes(kind) == IF kind \in DOMAIN fields THEN ToBytes(fields[kind]) ELSE None
    IN  IF \/ words = None \/ t.hrp[1] # BITCOIN \/ (Len(t.hrp) > 1 /\ amount = None)
           \/ Len(words) < TIME_WORDS + SIGNATURE_WORDS \/ fields = None
        THEN None
        ELSE [act |-> "invoice", amount_msat |-> amount,
              timestamp |-> Number(SubSeq(data, 1, TIME_WORDS)),
              payment_hash |-> bytes(PAYMENT), description_hash |-> bytes(DESCRIPTION_HASH),
              description |-> bytes(DESCRIPTION),
              expiry |-> IF EXPIRY \in DOMAIN fields THEN Number(fields[EXPIRY]) ELSE DEFAULT_EXPIRY]

\* lnurl_encode, lnurl_decode
LnurlEncode(m) == Bech32(<<LNURL>>, ToWords(m.url))

LnurlDecode(t) ==
    LET words == UnBech32(t)
    IN  IF words = None \/ t.hrp # <<LNURL>> THEN None ELSE [act |-> "lnurl", url |-> ToBytes(words)]
=============================================================================
