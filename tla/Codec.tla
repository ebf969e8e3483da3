------------------------------- MODULE Codec -------------------------------
(* The byte codec of puffin (puffin/src/codec.rs) and the payload types of   *)
(* rustls built on it (msgs/base.rs, msgs/macros.rs).  A wire type is a      *)
(* record that says how a value is laid out; Encode and Read interpret it,   *)
(* the way the Codec implementations of the types call one another.  A read  *)
(* takes the bytes that are left and yields Nothing, or the value and the bytes *)
(* left behind it.                                                           *)
EXTENDS Integers, Sequences

Byte == 0 .. 255
Zeroes(n) == [i \in 1 .. n |-> 0]

(***************************************************************************)
(* Reader: take, rest, any_left, sub                                       *)
(***************************************************************************)
Nothing == [ok |-> FALSE]
Some(value, left) == [ok |-> TRUE, value |-> value, left |-> left]

take(b, n) == IF Len(b) < n THEN Nothing ELSE Some(SubSeq(b, 1, n), SubSeq(b, n + 1, Len(b)))
rest(b) == Some(b, <<>>)
any_left(r) == r.left # <<>>

(***************************************************************************)
(* Integers are big endian; `as u8', `as u16' and the u24 keep the low     *)
(* bytes of a value that does not fit.                                     *)
(***************************************************************************)
to_be_bytes(v, n) == [i \in 1 .. n |-> (v \div 256^(n - i)) % 256]
from_be_bytes(b) == LET value[i \in 0 .. Len(b)] == IF i = 0 THEN 0 ELSE 256 * value[i - 1] + b[i]
                    IN value[Len(b)]

read_int(b, n) == LET r == take(b, n)
                  IN IF r.ok THEN Some(from_be_bytes(r.value), r.left) ELSE Nothing

\* A length in n bytes, and a reader of that many bytes, for `sub'.
sized(b, n) == LET len == read_int(b, n)
               IN IF len.ok THEN take(len.left, len.value) ELSE Nothing

(***************************************************************************)
(* The kinds of wire type.  An enum of macros.rs is an integer of its      *)
(* width: reading maps every code to a variant, Unknown keeps the rest.    *)
(***************************************************************************)
U(n) == [kind |-> "int", n |-> n]
Enum(n) == U(n)
\* Four bytes are kept as they are: nothing here computes with a u32 of the wire.
U32 == [kind |-> "fixed", n |-> 4]
Fixed(n) == [kind |-> "fixed", n |-> n]
Payload == [kind |-> "rest"]
Opaque(n, max) == [kind |-> "opaque", n |-> n, max |-> max]
PayloadU8 == Opaque(1, 255)
PayloadU16 == Opaque(2, 65535)
PayloadU24 == Opaque(3, 16777215)
Certificate == Opaque(3, 16777215)
Vec(n, T, max) == [kind |-> "vec", n |-> n, of |-> T, max |-> max]
declare_u8_vec(T) == Vec(1, T, 255)
declare_u16_vec(T) == Vec(2, T, 65535)
vec_u24_limited(T, max) == Vec(3, T, max)
Struct(fields) == [kind |-> "struct", fields |-> fields]
Empty == [kind |-> "empty"]

\* A constant in front: written by encode, and anything else refused by read.
Const(code, T) == [kind |-> "const", code |-> code, of |-> T]
\* An enum that selects how the rest is laid out; Payload where cases is silent.
\* With size > 0 the rest has a length in front and must be read to its end.
Switch(n, size, cases) == [kind |-> "switch", n |-> n, size |-> size, cases |-> cases]
\* Written as one type and read as another.
Split(written, read) == [kind |-> "split", written |-> written, read |-> read]
\* A vector at the end of a structure that may be missing: read as empty then.
Trailing(T, always) == [kind |-> "trailing", of |-> T, always |-> always]
\* A non-empty vector: read refuses the empty one, encode does not.
NonEmpty(T) == [kind |-> "nonempty", of |-> T]
\* A name: read refuses bytes that are no DNS name.
HostName == [kind |-> "name", of |-> PayloadU16]

\* webpki::DnsNameRef::try_from_ascii: letters, digits, hyphens and dots.
try_from_ascii(b) == /\ b # <<>>
                     /\ \A i \in DOMAIN b : \/ b[i] \in 97 .. 122 \/ b[i] \in 65 .. 90
                                            \/ b[i] \in 48 .. 57 \/ b[i] \in {45, 46}

CaseOf(T, code) == IF code \in DOMAIN T.cases THEN T.cases[code] ELSE Payload

(***************************************************************************)
(* Codec::encode                                                           *)
(***************************************************************************)
WithLength(n, b) == to_be_bytes(Len(b), n) \o b

RECURSIVE Encode(_, _), EncodeAll(_, _)
Encode(T, v) ==
  CASE T.kind = "int" -> to_be_bytes(v, T.n)
    [] T.kind \in {"fixed", "rest"} -> v
    [] T.kind = "empty" -> <<>>
    [] T.kind = "opaque" -> WithLength(T.n, v)
    [] T.kind = "vec" -> WithLength(T.n, EncodeAll([i \in DOMAIN v |-> T.of], v))
    [] T.kind = "struct" -> EncodeAll(T.fields, v)
    [] T.kind = "const" -> <<T.code>> \o Encode(T.of, v)
    [] T.kind = "split" -> Encode(T.written, v)
    [] T.kind = "trailing" -> IF v = <<>> /\ ~T.always THEN <<>> ELSE Encode(T.of, v)
    [] T.kind \in {"nonempty", "name"} -> Encode(T.of, v)
    [] T.kind = "switch" ->
         LET body == Encode(CaseOf(T, v[1]), v[2])
         IN to_be_bytes(v[1], T.n) \o (IF T.size = 0 THEN body ELSE WithLength(T.size, body))
EncodeAll(Ts, vs) ==
  IF vs = <<>> THEN <<>> ELSE Encode(Head(Ts), Head(vs)) \o EncodeAll(Tail(Ts), Tail(vs))

(***************************************************************************)
(* Codec::read                                                             *)
(***************************************************************************)
\* What is read must be the whole of the sub reader.
Whole(r) == IF r.ok /\ ~any_left(r) THEN r ELSE Nothing

RECURSIVE Read(_, _), ReadStruct(_, _), ReadItems(_, _)
Read(T, b) ==
  CASE T.kind = "int" -> read_int(b, T.n)
    [] T.kind = "fixed" -> take(b, T.n)
    [] T.kind = "rest" -> rest(b)
    [] T.kind = "empty" -> Some(<<>>, b)
    [] T.kind = "opaque" -> LET r == sized(b, T.n)
                            IN IF r.ok /\ Len(r.value) <= T.max THEN r ELSE Nothing
    [] T.kind = "vec" -> LET sub == sized(b, T.n)
                         IN IF ~sub.ok \/ (sub.ok /\ Len(sub.value) > T.max) THEN Nothing
                            ELSE LET items == ReadItems(T.of, sub.value)
                                 IN IF items.ok THEN Some(items.value, sub.left) ELSE Nothing
    [] T.kind = "struct" -> ReadStruct(T.fields, b)
    [] T.kind = "const" -> IF b # <<>> /\ Head(b) = T.code THEN Read(T.of, Tail(b)) ELSE Nothing
    [] T.kind = "split" -> Read(T.read, b)
    [] T.kind = "trailing" -> IF b = <<>> THEN Some(<<>>, <<>>) ELSE Read(T.of, b)
    [] T.kind = "nonempty" -> LET r == Read(T.of, b) IN IF r.ok /\ r.value # <<>> THEN r ELSE Nothing
    [] T.kind = "name" -> LET r == Read(T.of, b) IN IF r.ok /\ try_from_ascii(r.value) THEN r ELSE Nothing
    [] T.kind = "switch" ->
         LET code == read_int(b, T.n)
             sub == IF T.size = 0 THEN Some(code.left, <<>>) ELSE sized(code.left, T.size)
             body == Read(CaseOf(T, code.value), sub.value)
         IN IF ~code.ok THEN Nothing
            ELSE IF ~sub.ok THEN Nothing
            ELSE IF T.size = 0
                 THEN IF body.ok THEN Some(<<code.value, body.value>>, body.left) ELSE Nothing
                 ELSE IF Whole(body).ok THEN Some(<<code.value, body.value>>, sub.left) ELSE Nothing
ReadStruct(Ts, b) ==
  IF Ts = <<>> THEN Some(<<>>, b)
  ELSE LET first == Read(Head(Ts), b)
           others == ReadStruct(Tail(Ts), first.left)
       IN IF ~first.ok THEN Nothing
          ELSE IF others.ok THEN Some(<<first.value>> \o others.value, others.left) ELSE Nothing
ReadItems(T, b) ==
  IF b = <<>> THEN Some(<<>>, <<>>)
  ELSE LET first == Read(T, b)
           others == ReadItems(T, first.left)
       IN IF ~first.ok THEN Nothing
          ELSE IF others.ok THEN Some(<<first.value>> \o others.value, <<>>) ELSE Nothing

(***************************************************************************)
(* A value fits its type if no length is cut off when it is encoded.       *)
(***************************************************************************)
RECURSIVE Fits(_, _)
Fits(T, v) ==
  CASE T.kind = "int" -> v < 256^T.n
    [] T.kind = "fixed" -> Len(v) = T.n
    [] T.kind \in {"rest", "empty"} -> TRUE
    [] T.kind = "opaque" -> Len(v) <= T.max
    [] T.kind = "vec" -> /\ \A i \in DOMAIN v : Fits(T.of, v[i])
                         /\ Len(Encode(T, v)) - T.n <= T.max
    [] T.kind = "struct" -> \A i \in DOMAIN v : Fits(T.fields[i], v[i])
    [] T.kind = "split" -> Fits(T.written, v)
    [] T.kind \in {"const", "trailing", "nonempty", "name"} -> Fits(T.of, v)
    [] T.kind = "switch" -> /\ Fits(CaseOf(T, v[1]), v[2])
                            /\ T.size > 0 => Len(Encode(CaseOf(T, v[1]), v[2])) < 256^T.size
=============================================================================
