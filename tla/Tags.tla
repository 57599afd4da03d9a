-------------------------------- MODULE Tags --------------------------------
(***************************************************************************)
(* The rows of an event's tags, and what every reader of them shares.      *)
(*                                                                         *)
(* A row is a tag's name and its values; a value is text, the hex of a key *)
(* or event id, or the decimal of a number, told apart so that a parse can *)
(* fail.  A field of an `imeta` row is its key and its value.  What holds  *)
(* an event inside it (a gift wrap, a carried zap receipt) is a sequence,  *)
(* the outer event first.                                                  *)
(***************************************************************************)
EXTENDS NodeBase, SequencesExt

CONSTANTS WirePeople, WireTexts,   \* people, and texts (names, ids, codes, media types)
          WireSizes,               \* sizes of files
          MAX_ATTACHMENTS, MAX_ATTACHMENT_BYTES,
          MAX_PEERS                \* devices in a link

ASSUME TagConstants == /\ {MAX_ATTACHMENTS, MAX_ATTACHMENT_BYTES, MAX_PEERS} \subseteq Nat
                       /\ WireSizes \subseteq Nat

\* An event: its signature good (ok), unless somebody changed it since.
Ev(kind, by, rows) == [kind |-> kind, by |-> by, ok |-> TRUE, rows |-> rows]

Txt(x) == <<"txt", x>>
Num(n) == <<"num", n>>
Hex(k) == <<"hex", k>>
As(type, v) == IF v # None /\ v[1] = type THEN v[2] ELSE None

Row(tag, vals) == [tag |-> tag, vals |-> vals]

\* The rows named `tag` with at least n values, in order.
Rows(ev, tag, n) == SelectSeq(ev.rows, LAMBDA r : r.tag = tag /\ Len(r.vals) >= n)

FirstRow(ev, tag, n) == LET rs == Rows(ev, tag, n) IN IF rs = <<>> THEN None ELSE rs[1].vals

FirstValue(ev, tag) == LET r == FirstRow(ev, tag, 1) IN IF r = None THEN None ELSE r[1]

\* The last row named `tag` that carries a value, as the readers' loops take it.
LastValue(ev, tag) == LET rs == Rows(ev, tag, 1) IN IF rs = <<>> THEN None ELSE rs[Len(rs)].vals[1]

Has(ev, tag) == Rows(ev, tag, 0) # <<>>

\* Every row read, or None if one of them cannot be.
All(rows, read(_)) ==
    LET out == [i \in DOMAIN rows |-> read(rows[i].vals)]
    IN  IF \E i \in DOMAIN out : out[i] = None THEN None ELSE out

\* One value for each, as set to sequence.
Each(S, f(_)) == LET s == SetToSeq(S) IN [i \in DOMAIN s |-> f(s[i])]

UpTo(S, n) == UNION {[1..k -> S] : k \in 0..n}

\* Attachment::is_valid
IsValid(f) == f.size # None /\ f.size > 0 /\ f.size <= MAX_ATTACHMENT_BYTES
=============================================================================
