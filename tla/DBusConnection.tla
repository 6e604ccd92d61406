--------------------------- MODULE DBusConnection ---------------------------
(***************************************************************************)
(* Method calls over one D-Bus connection, byte by byte: Proxy::method_call*)
(* serializes a call, DbusConnection::send_message sends it and reads      *)
(* messages until a MethodReturn or an Error, read_one_message and         *)
(* read_exact put every message together from whatever pieces recv()       *)
(* returns.  The peer is external: it answers in the wire format of the    *)
(* D-Bus specification (Marshal), with any number of signals before the    *)
(* reply, and it may close the connection or fall silent at any byte.      *)
(* After a timeout the socket stays in use: what was late is still in it   *)
(* when the next call is made, and a reply is not matched to a call.       *)
(***************************************************************************)
EXTENDS DBusCodec, FiniteSets

CONSTANTS
    Calls,     \* records [type, value, output, answers]: a body, the type its
               \* reply is read as, and the message sequences that may answer it
    Chunks,    \* the sizes of the pieces recv() returns
    MaxCalls   \* bound on the calls made over the connection

VARIABLES
    id,        \* the name Hello gave the connection, <<>> on the private socket
    pc,        \* "idle", "fixed" or "rest" (in read_one_message), "lost" (a
               \* message was left half read), "failed"
    calls,     \* msg_ctr
    call,      \* the call being made
    out,       \* the bytes of the call
    answer,    \* the messages in the socket: those left there, then the answer
    own,       \* where in them the answer to this call begins
    read,      \* how many of them have been read
    stream,    \* their bytes
    pos,       \* how many of them recv() has returned
    at,        \* where the message being read begins
    ret,       \* the messages send_message has collected
    result     \* what method_call returned

vars == <<id, pc, calls, call, out, answer, own, read, stream, pos, at, ret, result>>
-----------------------------------------------------------------------------
(* The wire format by the D-Bus specification: value v of type T at offset  *)
(* o of the message.  Unlike the code it counts every offset from the       *)
(* beginning of the message.  Structs are <<"(", Ts>>.                      *)

RECURSIVE Marshal(_, _, _)
Zeros(o, align) == [i \in 1..((align - (o % align)) % align) |-> 0]

MarshalAll(Ts, v, o) ==
    FoldLeft(LAMBDA b, i : b \o Marshal(Ts[i], v[i], o + Len(b)), <<>>, [i \in 1..Len(Ts) |-> i])

SpecAlignment(T) ==
    CASE T[1] \in {"s", "o", "a", "u", "b"} -> 4 [] T[1] \in {"r", "(", "t"} -> 8
      [] T[1] = "q" -> 2 [] OTHER -> 1

Marshal(T, v, o) ==
    LET z == Zeros(o, SpecAlignment(T))
    IN  CASE T[1] = "*" -> MarshalAll(T[2], v, o)
          [] T[1] = "()" -> <<>>
          [] T[1] \in {"s", "o"} -> z \o Le(Len(v), 4) \o v \o <<0>>
          [] T[1] = "g" -> <<Len(v)>> \o v \o <<0>>
          [] T[1] = "b" -> z \o Le(IF v THEN 1 ELSE 0, 4)
          [] T[1] = "(" -> z \o MarshalAll(T[2], v, o + Len(z))
          [] T[1] = "r" -> z \o MarshalAll(<<<<"s">>, T[2]>>, v, o + Len(z))
          [] T[1] = "v" -> LET sig == GetSignature(v.type)
                               s   == <<Len(sig)>> \o sig \o <<0>>
                           IN  s \o Marshal(v.type, v.value, o + Len(s))
          [] T[1] = "a" -> LET z2    == Zeros(o + Len(z) + 4, SpecAlignment(T[2]))
                               first == o + Len(z) + 4 + Len(z2)
                               elems == MarshalAll([i \in 1..Len(v) |-> T[2]], v, first)
                           IN  z \o Le(Len(elems), 4) \o z2 \o elems
          [] OTHER -> z \o Le(v, Width[T[1]])

\* A whole message, whose header is the struct yyyyuua(yv).
Y == <<"y">>
U == <<"u">>
HeaderVariant(h) ==
    [type |-> CASE h.kind = 1 -> <<"o">> [] h.kind \in {5, 9} -> U
                [] h.kind = BodySignature -> <<"g">> [] OTHER -> <<"s">>,
     value |-> h.value]

MarshalMessage(m) ==
    LET header(len) == Marshal(<<"(", <<Y, Y, Y, Y, U, U, <<"a", <<"(", <<Y, <<"v">>>>>>>>>>>>,
                               <<CharOf.l, m.mtype, 0, 1, len, m.serial,
                                 [i \in 1..Len(m.headers) |->
                                    <<m.headers[i].kind, HeaderVariant(m.headers[i])>>]>>, 0)
        start == header(0) \o Zeros(Len(header(0)), 8)
        body  == Marshal(m.type, m.value, Len(start))
    IN  header(Len(body)) \o Zeros(Len(header(0)), 8) \o body
-----------------------------------------------------------------------------
Init ==
    /\ id \in {<<>>, <<58, 49>>}
    /\ pc = "idle" /\ calls = 0 /\ call = <<>> /\ out = <<>> /\ answer = <<>> /\ own = 1 /\ read = 0
    /\ stream = <<>> /\ pos = 0 /\ at = 0 /\ ret = <<>> /\ result = Bad("none", 0)

\* The headers of a method call: path, destination, interface and member are
\* opaque, the signature is there when there is a body, the sender when the
\* connection has a name.
CallHeaders(c) ==
    <<[kind |-> 1, value |-> <<47>>], [kind |-> 6, value |-> <<100, 101>>],
      [kind |-> 2, value |-> <<105, 110, 116>>], [kind |-> 3, value |-> <<109>>]>>
      \o (IF c.type[1] = "()" THEN <<>>
          ELSE <<[kind |-> BodySignature, value |-> GetSignature(c.type)]>>)
      \o (IF id = <<>> THEN <<>> ELSE <<[kind |-> Sender, value |-> id]>>)

Message(c, n) == [mtype |-> MethodCall, serial |-> n, headers |-> CallHeaders(c),
                  body |-> Serialize(c.type, c.value, <<>>)]

\* The call is sent; its answer arrives behind what is still in the socket.
SendMessage ==
    /\ pc = "idle" /\ calls < MaxCalls
    /\ \E c \in Calls : \E a \in c.answers :
          LET left == SubSeq(answer, read + 1, Len(answer))
          IN  /\ call' = c /\ answer' = left \o a /\ own' = Len(left) + 1
              /\ out' = SerializeMessage(Message(c, calls + 1))
              /\ stream' = SubSeq(stream, pos + 1, Len(stream))
                             \o FlattenSeq([i \in 1..Len(a) |-> MarshalMessage(a[i])])
    /\ calls' = calls + 1
    /\ pc' = "fixed" /\ pos' = 0 /\ at' = 0 /\ read' = 0 /\ ret' = <<>> /\ result' = Bad("none", 0)
    /\ UNCHANGED id

\* The bytes of the message being read, and how many are left of it.
FixedLength == 16
\* One that does not count the padding behind the header fields.
RestLengthUnaligned(fixed) == FromLe(Slice(fixed, 12, 4)) + FromLe(Slice(fixed, 4, 4))

RestLength(fixed) ==
    AlignCounter(FromLe(Slice(fixed, 12, 4)), 8) + FromLe(Slice(fixed, 4, 4))

Wanted ==
    IF pc = "fixed" THEN FixedLength ELSE FixedLength + RestLength(Slice(stream, at, FixedLength))

\* recv() returns a piece of what is left; EINTR changes nothing.
ReadExact ==
    /\ pc \in {"fixed", "rest"} /\ pos < at + Wanted /\ pos < Len(stream)
    /\ \E n \in Chunks :
          LET left == at + Wanted - pos
              have == Len(stream) - pos
          IN  pos' = pos + (CHOOSE k \in {n, left, have} : \A j \in {n, left, have} : k <= j)
    /\ UNCHANGED <<id, pc, calls, call, out, answer, own, read, stream, at, ret, result>>

FixedHeaderRead ==
    /\ pc = "fixed" /\ pos = at + FixedLength
    /\ pc' = "rest"
    /\ UNCHANGED <<id, calls, call, out, answer, own, read, stream, pos, at, ret, result>>

\* check_signature_compatibility
Compatible(actual, expected) ==
    actual = expected \/ (expected = <<CharOf.s>> /\ actual = <<CharOf.o>>)

\* What method_call makes of the messages that came back.
Interpret(msgs, T) ==
    LET errors  == SelectSeq(msgs, LAMBDA m : m.mtype = ErrorReply)
        returns == SelectSeq(msgs, LAMBDA m : m.mtype = MethodReturn)
        reply   == Head(returns)
        sigs    == SelectSeq(reply.headers, LAMBDA h : h.kind = BodySignature)
    IN  CASE errors # <<>> -> [end |-> "method error",
                               val |-> IF Head(errors).body = <<>> THEN <<>>
                                       ELSE DeserializeString(Head(errors).body, 0).val]
          [] returns = <<>> -> Bad("err", 0)
          [] sigs = <<>> /\ reply.body # <<>> -> Bad("err", 0)
          [] GetSignature(T) = <<>> -> Ok(<<>>, 0)
          [] sigs = <<>> -> Bad("panic", 0)
          [] ~Compatible(Head(sigs).value, GetSignature(T)) -> Bad("err", 0)
          [] OTHER -> Deserialize(T, reply.body, 0)

\* A message that is refused has been taken from the socket all the same.
MessageRead ==
    /\ pc = "rest" /\ pos = at + Wanted
    /\ at' = pos /\ read' = read + 1
    /\ LET m == DeserializeMessage(Slice(stream, at, Wanted))
       IN  /\ ret' = IF m.end = "ok" THEN Append(ret, m.val) ELSE ret
           /\ result' = CASE m.end # "ok" -> m
                          [] m.val.mtype \in {MethodReturn, ErrorReply} -> Interpret(ret', call.output)
                          [] OTHER -> result
    /\ pc' = CASE result'.end = "none" -> "fixed" [] result'.end = "panic" -> "failed" [] OTHER -> "idle"
    /\ UNCHANGED <<id, calls, call, out, answer, own, stream, pos>>

\* recv() returns 0: the peer closed, and no later call is sent.
PeerCloses ==
    /\ pc \in {"fixed", "rest"} /\ pos < at + Wanted
    /\ pc' = "failed"
    /\ UNCHANGED <<id, calls, call, out, answer, own, read, stream, pos, at, ret, result>>

\* recv() fails with EAGAIN: SO_RCVTIMEO has passed.  The bytes read of a message
\* are dropped, those not read stay in the socket, and so does the connection.
ReceiveFails ==
    /\ pc \in {"fixed", "rest"} /\ pos < at + Wanted
    /\ pc' = IF pos = at THEN "idle" ELSE "lost"
    /\ result' = Bad("EAGAIN", 0)
    /\ UNCHANGED <<id, calls, call, out, answer, own, read, stream, pos, at, ret>>

\* A call after a message was left half read takes the rest of it for a header:
\* it may end in any way.
ReadGarbled ==
    /\ pc = "lost" /\ calls < MaxCalls
    /\ calls' = calls + 1
    /\ \E c \in Calls : call' = c /\ out' = SerializeMessage(Message(c, calls + 1))
    /\ result' \in {Ok(<<>>, 0)} \cup {Bad(end, 0) : end \in {"err", "panic", "EAGAIN"}}
    /\ pc' = IF result'.end = "panic" THEN "failed" ELSE "lost"
    /\ UNCHANGED <<id, answer, own, read, stream, pos, at, ret>>

Next ==
    SendMessage \/ ReadExact \/ FixedHeaderRead \/ MessageRead \/ PeerCloses \/ ReceiveFails \/ ReadGarbled

Spec == Init /\ [][Next]_vars
-----------------------------------------------------------------------------
\* Counters stay inside the stream, and a result is only there between calls.
TypeOK ==
    /\ pc \in {"idle", "fixed", "rest", "lost", "failed"} /\ calls \in 0..MaxCalls
    /\ at <= pos /\ pos <= Len(stream) /\ Len(ret) <= read /\ read <= Len(answer)
    /\ own \in 1..(Len(answer) + 1) /\ (pc \in {"fixed", "rest"} => result.end = "none")

\* Every call goes out in the wire format: SerializeArray lays its elements out
\* in a buffer of their own, and message.rs pads the headers apart from the
\* body, yet each value stands at an offset of the message that fits its type.
CallIsMarshalled ==
    out # <<>> =>
       out = MarshalMessage([mtype |-> MethodCall, serial |-> calls, headers |-> CallHeaders(call),
                             type |-> call.type, value |-> call.value])

\* What the message m says to a caller that expects a value of type T.
Says(m, T) ==
    CASE m.mtype = ErrorReply -> [end |-> "method error", val |-> m.value]
      [] T[1] = "()" -> [end |-> "ok", val |-> <<>>]
      [] T = m.type \/ (T[1] = "s" /\ m.type[1] = "o") -> [end |-> "ok", val |-> m.value]
      [] OTHER -> [end |-> IF m.type[1] = "()" THEN "panic" ELSE "err", val |-> <<>>]

\* As long as no message was left half read, a call returns the value or the error
\* of the first reply in the socket and leaves what is behind it there.  That is its
\* own, and nothing is left, when every call before it had its reply in time; a reply
\* that was late is returned to the next call, and every call after it is one behind.
\* No message of a type the client knows is refused.
ResultIsTheReply ==
    pc = "idle" /\ calls > 0 /\ result.end # "EAGAIN" =>
        LET m     == answer[read]
            final == {MethodReturn, ErrorReply}
            late  == {i \in 1..(own - 1) : answer[i].mtype \in final}
        IN  IF m.mtype \notin MethodCall..Signal THEN result.end = "err"
            ELSE /\ m.mtype \in final /\ \A i \in 1..(read - 1) : answer[i].mtype \notin final
                 /\ [end |-> result.end, val |-> result.val] = Says(m, call.output)
                 /\ (late = {}) = (read >= own)
                 /\ late = {} => read = Len(answer) /\ pos = Len(stream)
=============================================================================
