------------------------------ MODULE DBusCodec ------------------------------
(***************************************************************************)
(* How the D-Bus client of libcgroups puts a message into bytes and takes  *)
(* one out of them: systemd/dbus_native/{serialize,message,utils}.rs.      *)
(*                                                                         *)
(* A type that implements DbusSerialize is a tuple: <<"s">> (String and    *)
(* &str), <<"b">>, <<"y">>, <<"q">>, <<"u">>, <<"t">>, <<"()">>,           *)
(* <<"v">> (Variant), <<"a", T>> (Vec<T>), <<"r", T>> (Structure<T>) and   *)
(* <<"*", Ts>> (a Rust tuple, whose fields follow each other unframed).    *)
(* A string is the sequence of its bytes, a Variant a record of the type   *)
(* and the value it holds.  A decoder returns what it found, the counter   *)
(* it stopped at and how it ended: "ok", "err" (a DbusError) or "panic"    *)
(* (an index out of bounds, or a byte no match arm accepts).               *)
(***************************************************************************)
EXTENDS Integers, Sequences, SequencesExt

\* The bytes of the characters a signature is made of.
CharOf == [a |-> 97, b |-> 98, g |-> 103, l |-> 108, o |-> 111, q |-> 113,
           s |-> 115, t |-> 116, u |-> 117, v |-> 118, y |-> 121]

RECURSIVE Le(_, _)
Le(n, w) == IF w = 0 THEN <<>> ELSE <<n % 256>> \o Le(n \div 256, w - 1)

RECURSIVE FromLe(_)
FromLe(b) == IF b = <<>> THEN 0 ELSE Head(b) + 256 * FromLe(Tail(b))

\* Bytes at..at + n - 1 of buf, counted from 0 like the slices of the code.
Slice(buf, at, n) == SubSeq(buf, at + 1, at + n)

AdjustPadding(buf, align) ==
    buf \o [i \in 1..((align - (Len(buf) % align)) % align) |-> 0]

AlignCounter(ctr, align) == ctr + ((align - (ctr % align)) % align)

Width == [b |-> 4, y |-> 1, q |-> 2, u |-> 4, t |-> 8]

RECURSIVE GetSignature(_)
GetSignature(T) ==
    CASE T[1] = "a" -> <<97>> \o GetSignature(T[2])
      [] T[1] = "r" -> <<40, 115>> \o GetSignature(T[2]) \o <<41>>
      [] T[1] = "*" -> FlattenSeq([i \in 1..Len(T[2]) |-> GetSignature(T[2][i])])
      [] T[1] = "()" -> <<>>
      [] OTHER -> <<CharOf[T[1]]>>

RECURSIVE GetAlignment(_)
GetAlignment(T) ==
    CASE T[1] \in {"s", "a"} -> 4
      [] T[1] = "r" -> 8
      [] T[1] \in {"v", "()"} -> 1
      [] T[1] = "*" -> GetAlignment(T[2][1])
      [] OTHER -> Width[T[1]]

VariantTypes ==
    {<<"s">>, <<"b">>, <<"t">>, <<"a", <<"y">>>>, <<"a", <<"u">>>>, <<"a", <<"t">>>>,
     <<"a", <<"r", <<"t">>>>>>, <<"a", <<"r", <<"s">>>>>>}
-----------------------------------------------------------------------------
(* Serialization: what value v of type T appends to the buffer. *)

SerializeString(s, buf) == AdjustPadding(buf, 4) \o Le(Len(s), 4) \o s \o <<0>>

SerializeBool(v, buf) == AdjustPadding(buf, 4) \o Le(IF v THEN 1 ELSE 0, 4)

SerializeNumber(T, v, buf) == AdjustPadding(buf, Width[T[1]]) \o Le(v, Width[T[1]])

RECURSIVE Serialize(_, _, _)

\* The elements are laid out in a buffer of their own, as if it began at 0,
\* and copied behind the length and the padding of the first element.
SerializeArray(T, v, buf) ==
    LET temp == FoldLeft(LAMBDA b, e : Serialize(T, e, b), <<>>, v)
    IN  AdjustPadding(AdjustPadding(buf, 4) \o Le(Len(temp), 4), GetAlignment(T)) \o temp

SerializeStructure(T, v, buf) ==
    Serialize(T, v[2], SerializeString(v[1], AdjustPadding(buf, 8)))

SerializeVariant(v, buf) ==
    LET sig == GetSignature(v.type)
    IN  Serialize(v.type, v.value, buf \o <<Len(sig)>> \o sig \o <<0>>)

SerializeTuple(Ts, v, buf) ==
    FoldLeft(LAMBDA b, i : Serialize(Ts[i], v[i], b), buf, [i \in 1..Len(Ts) |-> i])

Serialize(T, v, buf) ==
    CASE T[1] = "s" -> SerializeString(v, buf)
      [] T[1] = "b" -> SerializeBool(v, buf)
      [] T[1] = "a" -> SerializeArray(T[2], v, buf)
      [] T[1] = "r" -> SerializeStructure(T[2], v, buf)
      [] T[1] = "v" -> SerializeVariant(v, buf)
      [] T[1] = "*" -> SerializeTuple(T[2], v, buf)
      [] T[1] = "()" -> buf
      [] OTHER -> SerializeNumber(T, v, buf)
-----------------------------------------------------------------------------
(* Deserialization: from byte ctr of buf. *)

Ok(v, ctr) == [end |-> "ok", val |-> v, ctr |-> ctr]
Bad(end, ctr) == [end |-> end, val |-> <<>>, ctr |-> ctr]

\* The number of width w at ctr.
ReadNumber(w, buf, ctr) ==
    IF Len(buf) < ctr + w THEN Bad("err", ctr) ELSE Ok(FromLe(Slice(buf, ctr, w)), ctr + w)

DeserializeNumber(T, buf, ctr) == ReadNumber(Width[T[1]], buf, AlignCounter(ctr, Width[T[1]]))

DeserializeBool(buf, ctr) ==
    LET n == ReadNumber(4, buf, AlignCounter(ctr, 4))
    IN  IF n.end = "ok" THEN Ok(n.val # 0, n.ctr) ELSE n

\* The final 0 is skipped, not looked at.
DeserializeString(buf, ctr) ==
    LET n == ReadNumber(4, buf, AlignCounter(ctr, 4))
    IN  IF n.end # "ok" THEN n
        ELSE IF Len(buf) < n.ctr + n.val THEN Bad("err", n.ctr)
        ELSE Ok(Slice(buf, n.ctr, n.val), n.ctr + n.val + 1)

RECURSIVE Deserialize(_, _, _)

RECURSIVE ArrayElements(_, _, _, _, _)
ArrayElements(T, buf, ctr, end, got) ==
    IF ctr >= end THEN Ok(got, ctr)
    ELSE LET e == Deserialize(T, buf, ctr)
         IN  IF e.end = "ok" THEN ArrayElements(T, buf, e.ctr, end, Append(got, e.val)) ELSE e

DeserializeArray(T, buf, ctr) ==
    LET n     == ReadNumber(4, buf, AlignCounter(ctr, 4))
        first == AlignCounter(n.ctr, GetAlignment(T))
    IN  IF n.end # "ok" THEN n
        ELSE IF Len(buf) < first + n.val THEN Bad("err", first)
        ELSE ArrayElements(T, buf, first, first + n.val, <<>>)

DeserializeStructure(T, buf, ctr) ==
    LET key == DeserializeString(buf, AlignCounter(ctr, 8))
        val == Deserialize(T, buf, key.ctr)
    IN  IF key.end # "ok" THEN key
        ELSE IF val.end # "ok" THEN val
        ELSE Ok(<<key.val, val.val>>, val.ctr)

DeserializeVariant(buf, ctr) ==
    IF Len(buf) <= ctr THEN Bad("panic", ctr)
    ELSE LET n     == buf[ctr + 1]
             types == {T \in VariantTypes : GetSignature(T) = Slice(buf, ctr + 1, n)}
         IN  IF Len(buf) < ctr + 1 + n \/ types = {} THEN Bad("err", ctr)
             ELSE LET T == CHOOSE T \in types : TRUE
                      v == Deserialize(T, buf, ctr + n + 2)
                  IN  IF v.end = "ok" THEN Ok([type |-> T, value |-> v.val], v.ctr) ELSE v

RECURSIVE DeserializeTuple(_, _, _, _)
DeserializeTuple(Ts, buf, ctr, got) ==
    IF Ts = <<>> THEN Ok(got, ctr)
    ELSE LET e == Deserialize(Head(Ts), buf, ctr)
         IN  IF e.end = "ok" THEN DeserializeTuple(Tail(Ts), buf, e.ctr, Append(got, e.val)) ELSE e

Deserialize(T, buf, ctr) ==
    CASE T[1] = "s" -> DeserializeString(buf, ctr)
      [] T[1] = "b" -> DeserializeBool(buf, ctr)
      [] T[1] = "a" -> DeserializeArray(T[2], buf, ctr)
      [] T[1] = "r" -> DeserializeStructure(T[2], buf, ctr)
      [] T[1] = "v" -> DeserializeVariant(buf, ctr)
      [] T[1] = "*" -> DeserializeTuple(T[2], buf, ctr, <<>>)
      [] T[1] = "()" -> Ok(<<>>, Len(buf))
      [] OTHER -> DeserializeNumber(T, buf, ctr)
-----------------------------------------------------------------------------
(* Messages: [mtype, serial, headers, body], a header being its kind, the   *)
(* number it has on the wire, and its value: a number for ReplySerial (5)   *)
(* and UnixFd (9), a string for the others.                                 *)

MethodCall == 1
MethodReturn == 2
ErrorReply == 3
Signal == 4
ReplySerial == 5
Sender == 7
BodySignature == 8

HeaderSignature(kind) ==
    CASE kind = 1 -> CharOf.o
      [] kind \in {5, 9} -> CharOf.u
      [] kind = BodySignature -> CharOf.g
      [] OTHER -> CharOf.s

\* The length of a signature takes one byte, that of another string four.
HeaderValue(h) ==
    CASE h.kind \in {5, 9} -> Le(h.value, 4)
      [] h.kind = BodySignature -> <<Len(h.value)>> \o h.value \o <<0>>
      [] OTHER -> Le(Len(h.value), 4) \o h.value \o <<0>>

SerializeHeaders(headers) ==
    FoldLeft(LAMBDA b, h : AdjustPadding(b, 8)
                             \o <<h.kind, 1, HeaderSignature(h.kind), 0>> \o HeaderValue(h),
             <<>>, headers)

SerializeMessage(m) ==
    LET headers == SerializeHeaders(m.headers)
    IN  AdjustPadding(<<CharOf.l, m.mtype, 0, 1>> \o Le(Len(m.body), 4) \o Le(m.serial, 4)
                        \o Le(Len(headers), 4) \o headers, 8)
          \o m.body

\* A value of header kind k at ctr: the string is not checked for its final 0.
ParseHeaderValue(k, buf, ctr) ==
    LET n == IF k = BodySignature THEN Ok(buf[ctr + 1], ctr + 1) ELSE ReadNumber(4, buf, ctr)
    IN  CASE n.end # "ok" \/ k \in {5, 9} -> n
          [] Len(buf) < n.ctr + n.val -> Bad("err", n.ctr)
          [] OTHER -> Ok(Slice(buf, n.ctr, n.val), n.ctr + n.val + 1)

ParseHeader(buf, ctr) ==
    CASE buf[ctr + 1] \notin 1..9 \/ buf[ctr + 2] # 1 -> Bad("err", ctr)
      [] buf[ctr + 3] \notin {CharOf.o, CharOf.g, CharOf.s, CharOf.u} -> Bad("panic", ctr)
      [] buf[ctr + 3] # HeaderSignature(buf[ctr + 1]) -> Bad("err", ctr)
      [] OTHER -> ParseHeaderValue(buf[ctr + 1], buf, ctr + 4)

RECURSIVE DeserializeHeaders(_, _, _)
DeserializeHeaders(buf, ctr, got) ==
    IF ctr >= Len(buf) THEN Ok(got, ctr)
    ELSE LET h == ParseHeader(buf, ctr)
         IN  IF h.end # "ok" THEN h
             ELSE DeserializeHeaders(buf, AlignCounter(h.ctr, 8),
                                     Append(got, [kind |-> buf[ctr + 1], value |-> h.val]))

DeserializeMessage(buf) ==
    CASE buf[1] # CharOf.l -> Bad(IF buf[1] = CharOf.b THEN "err" ELSE "panic", 0)
      [] buf[2] \notin MethodCall..Signal \/ buf[4] # 1 -> Bad("err", 0)
      [] OTHER ->
           LET bodyLen == FromLe(Slice(buf, 4, 4))
               hdrLen  == FromLe(Slice(buf, 12, 4))
               hs      == DeserializeHeaders(Slice(buf, 16, hdrLen), 0, <<>>)
               at      == AlignCounter(16 + hdrLen, 8)
           IN  CASE Len(buf) < 16 + hdrLen -> Bad("err", 16)
                 [] hs.end # "ok" -> hs
                 [] Len(buf) < at + bodyLen -> Bad("err", at)
                 [] OTHER -> Ok([mtype |-> buf[2], serial |-> FromLe(Slice(buf, 8, 4)),
                                 headers |-> hs.val, body |-> Slice(buf, at, bodyLen)],
                                at + bodyLen)
=============================================================================
