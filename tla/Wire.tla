-------------------------------- MODULE Wire ---------------------------------
(* The frames between fmtkit and its Go helper, as bytes.  Each side has its  *)
(* own codec: crates/go/src/proto.rs and go/helper/proto/proto.go.  A payload *)
(* is a sequence of fields, and a layout says what they are: "u32", "bool",   *)
(* "bytes", "text", or a list with the smallest encoded size of an element    *)
(* and the layout of one (a size of 0: one element, and no length before it). *)
(* The value of a payload is the sequence of its fields; a text is its bytes, *)
(* and of UTF-8 the model has the ASCII part.                                 *)
EXTENDS Integers, Sequences

LOCAL INSTANCE SequencesExt

CONSTANT MaxFrame          \* the largest length field that is accepted

PROTOCOL_VERSION == 1
HEADER_LEN == 5

ListOf(min, layout) == [min |-> min, of |-> layout]
Each(fields) == [i \in DOMAIN fields |-> ListOf(0, <<fields[i]>>)]
IsList(field) == field.min > 0
Kinds == [hello |-> 1, process |-> 2, reply |-> 3, shutdown |-> 4]

\* The payload of each kind, as each side reads and writes it.
RustLayout ==
    [hello |-> Each(<<"u32", "text">>),
     process |-> Each(<<"text", "bytes", "bytes", "bool", "bool", "bool", "bool", "bool">>),
     reply |-> Each(<<"text", "bytes">>)
                 \o <<ListOf(4, <<"text">>), ListOf(16, <<"text", "u32", "u32", "text">>),
                      ListOf(20, <<"text", "text", "u32", "u32", "u32">>)>>,
     shutdown |-> <<>>]

GoHello == Each(<<"u32", "bytes">>)
GoRequest == Each(<<"bytes", "bytes", "bytes", "bool", "bool", "bool", "bool", "bool">>)
GoReply == Each(<<"bytes", "bytes">>)
             \o <<ListOf(4, <<"bytes">>), ListOf(16, <<"bytes", "u32", "u32", "bytes">>),
                  ListOf(20, <<"bytes", "bytes", "u32", "u32", "u32">>)>>
GoLayout == [hello |-> GoHello, process |-> GoRequest, reply |-> GoReply, shutdown |-> <<>>]

--------------------------------------------------------------------------------
(* Writing.                                                                    *)

put_u32(v) == [i \in 1 .. 4 |-> (v \div 256 ^ (i - 1)) % 256]
put_bytes(b) == put_u32(Len(b)) \o b

Scalar(field, v) ==
    CASE field = "u32" -> put_u32(v)
      [] field = "bool" -> IF v THEN <<1>> ELSE <<0>>
      [] OTHER -> put_bytes(v)

Fields(layout, vs) == FlattenSeq([i \in DOMAIN layout |-> Scalar(layout[i], vs[i])])

Payload(layout, vs) ==
    FlattenSeq([i \in DOMAIN layout |->
        IF IsList(layout[i])
        THEN put_u32(Len(vs[i])) \o FlattenSeq([k \in DOMAIN vs[i] |-> Fields(layout[i].of, vs[i][k])])
        ELSE Scalar(layout[i].of[1], vs[i])])

\* A frame: the length of what follows, the kind, the id, the payload.
Framed(kind, id, payload) == put_u32(HEADER_LEN + Len(payload)) \o <<kind>> \o put_u32(id) \o payload

encode(frame) == Framed(Kinds[frame.kind], frame.id, Payload(RustLayout[frame.kind], frame.value))
AppendFrame(frame) == Framed(Kinds[frame.kind], frame.id, Payload(GoLayout[frame.kind], frame.value))

--------------------------------------------------------------------------------
(* Reading in Rust: a cursor that stops at the first failure.                 *)

\* Numbers above MaxInt, which no length of a frame comes near, count as it.
MaxInt == 2147483647
u32_of(b) == IF b[4] > 127 THEN MaxInt ELSE b[1] + 256 * b[2] + 65536 * b[3] + 16777216 * b[4]
Drop(b, n) == SubSeq(b, n + 1, Len(b))
Bad == [ok |-> FALSE, buf |-> <<>>, value |-> <<>>]
Good(v, buf) == [ok |-> TRUE, buf |-> buf, value |-> v]

take(buf, n) == IF n > Len(buf) THEN Bad ELSE Good(SubSeq(buf, 1, n), Drop(buf, n))

\* What a number, a boolean, a counted string or a text is made of.
Number(t) == IF t.ok THEN Good(u32_of(t.value), t.buf) ELSE Bad
Flag(t) == IF t.ok /\ t.value[1] \in {0, 1} THEN Good(t.value[1] = 1, t.buf) ELSE Bad
Counted(n) == IF n.ok THEN take(n.buf, n.value) ELSE Bad

read_u32(buf) == Number(take(buf, 4))
read_bool(buf) == Flag(take(buf, 1))
read_bytes(buf) == Counted(read_u32(buf))

\* A byte that is not UTF-8 becomes U+FFFD.
lossy(b) == FlattenSeq([i \in DOMAIN b |-> IF b[i] < 128 THEN <<b[i]>> ELSE <<239, 191, 189>>])
Lossy(b) == IF b.ok THEN Good(lossy(b.value), b.buf) ELSE Bad
read_string(buf) == Lossy(read_bytes(buf))

read_scalar(field, buf) ==
    CASE field = "u32" -> read_u32(buf) [] field = "bool" -> read_bool(buf)
      [] field = "text" -> read_string(buf) [] OTHER -> read_bytes(buf)

\* One value more.
Push(c, r) == IF c.ok /\ r.ok THEN Good(Append(c.value, r.value), r.buf) ELSE Bad

read_fields(layout, buf) ==
    FoldLeft(LAMBDA c, field : Push(c, read_scalar(field, c.buf)), Good(<<>>, buf), layout)

\* A list: its length is refused when the rest cannot hold that many elements.
Elements(list, n) ==
    LET more(c) == Push(c, read_fields(list.of, c.buf))
        after[k \in Nat] == IF k = 0 THEN Good(<<>>, n.buf) ELSE more(after[k - 1])
    IN  IF ~n.ok \/ n.value > Len(n.buf) \div list.min THEN Bad ELSE after[n.value]
read_list(list, buf) == Elements(list, read_u32(buf))

Finished(end) == IF end.ok /\ end.buf = <<>> THEN end ELSE Bad
decode_payload(layout, buf) ==
    Finished(FoldLeft(LAMBDA c, field :
                         Push(c, IF IsList(field) THEN read_list(field, c.buf) ELSE read_scalar(field.of[1], c.buf)),
                      Good(<<>>, buf), layout))

check_length(n) == HEADER_LEN <= n /\ n <= MaxFrame

\* The kind of a frame by its byte.
IsKind(byte) == \E k \in DOMAIN Kinds : Kinds[k] = byte
KindOf(byte) == CHOOSE k \in DOMAIN Kinds : Kinds[k] = byte

\* The body of a frame, without its length.
Frame(kind, id, payload) ==
    IF ~payload.ok THEN [ok |-> FALSE] ELSE [ok |-> TRUE, frame |-> [kind |-> kind, id |-> id, value |-> payload.value]]
decode_body(body) ==
    IF ~IsKind(body[1]) THEN [ok |-> FALSE]
    ELSE Frame(KindOf(body[1]), u32_of(SubSeq(body, 2, 5)),
               decode_payload(RustLayout[KindOf(body[1])], Drop(body, HEADER_LEN)))

\* The frame at the front of a buffer.
decode(buf) ==
    CASE Len(buf) < 4 -> [ok |-> FALSE]
      [] ~check_length(u32_of(buf)) -> [ok |-> FALSE]
      [] Len(buf) - 4 < u32_of(buf) -> [ok |-> FALSE]
      [] OTHER -> decode_body(SubSeq(buf, 5, 4 + u32_of(buf)))

--------------------------------------------------------------------------------
(* Reading in Go: a decoder that goes on after a failure, which sticks; later *)
(* reads give zero values.                                                    *)

Fail == [err |-> TRUE, buf |-> <<>>]
Read(d, v) == [d |-> d, v |-> v]
go_take(d, n) ==
    IF d.err \/ n > Len(d.buf) THEN [d |-> Fail, v |-> <<>>, nil |-> TRUE]
    ELSE [d |-> [d EXCEPT !.buf = Drop(@, n)], v |-> SubSeq(d.buf, 1, n), nil |-> FALSE]

GoNumber(t) == Read(t.d, IF t.nil THEN 0 ELSE u32_of(t.v))
go_u32(d) == GoNumber(go_take(d, 4))

GoCounted(n) == go_take(n.d, n.v)
GoTaken(t) == Read(t.d, t.v)
go_bytes(d) == GoTaken(GoCounted(go_u32(d)))

GoFlag(t) ==
    CASE t.nil \/ t.v = <<0>> -> Read(t.d, FALSE)
      [] t.v = <<1>> -> Read(t.d, TRUE)
      [] OTHER -> Read(Fail, FALSE)
go_boolean(d) == GoFlag(go_take(d, 1))

go_scalar(field, d) ==
    CASE field = "u32" -> go_u32(d) [] field = "bool" -> go_boolean(d) [] OTHER -> go_bytes(d)

\* The length of a list, 0 after a failure.
GoFits(n, min) == IF n.d.err \/ n.v > Len(n.d.buf) \div min THEN Read(Fail, 0) ELSE n
go_count(d, min) == GoFits(go_u32(d), min)

GoPush(c, r) == Read(r.d, Append(c.v, r.v))

go_fields(layout, d) == FoldLeft(LAMBDA c, field : GoPush(c, go_scalar(field, c.d)), Read(d, <<>>), layout)

GoElements(list, n) ==
    LET more(c) == GoPush(c, go_fields(list.of, c.d))
        after[k \in Nat] == IF k = 0 THEN Read(n.d, <<>>) ELSE more(after[k - 1])
    IN  after[n.v]
go_list(list, d) == GoElements(list, go_count(d, list.min))

GoFieldsOf(layout, payload) ==
    FoldLeft(LAMBDA c, field : GoPush(c, IF IsList(field) THEN go_list(field, c.d) ELSE go_scalar(field.of[1], c.d)),
             Read([err |-> FALSE, buf |-> payload], <<>>), layout)

\* finish refuses a failure and bytes that are left over.
finish_NoRest(end) == IF end.d.err THEN [ok |-> FALSE] ELSE [ok |-> TRUE, value |-> end.v]
finish(end) == IF end.d.err \/ end.d.buf # <<>> THEN [ok |-> FALSE] ELSE [ok |-> TRUE, value |-> end.v]

GoDecode(layout, payload) == finish(GoFieldsOf(layout, payload))

\* One frame read from a stream, its payload still encoded.
GoFrame(body) == [ok |-> TRUE, kind |-> body[1], id |-> u32_of(SubSeq(body, 2, 5)), payload |-> Drop(body, 5)]
ReadFrame(buf) ==
    CASE Len(buf) < 4 -> [ok |-> FALSE, eof |-> Len(buf) = 0]
      [] u32_of(buf) < HEADER_LEN \/ u32_of(buf) > MaxFrame -> [ok |-> FALSE, eof |-> FALSE]
      [] Len(buf) - 4 < u32_of(buf) -> [ok |-> FALSE, eof |-> FALSE]
      [] OTHER -> GoFrame(SubSeq(buf, 5, 4 + u32_of(buf)))
==============================================================================
