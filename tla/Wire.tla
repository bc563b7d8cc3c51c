-------------------------------- MODULE Wire --------------------------------
(***************************************************************************)
(* Frames of the protocol crates and the exchange of one frame.            *)
(*                                                                         *)
(* A frame is its size, its nonzero bytes, and the texts (names, payloads, *)
(* keys) it carries.  A text is its length and its kind, which is all the  *)
(* codecs look at.  Numbers are written and read byte by byte.  A codec is *)
(* a pair of operators: an encoder gives the set of the frame it writes,   *)
(* or the empty set when it refuses; a decoder the set of the value it     *)
(* returns, or the empty set when it returns an error.                     *)
(***************************************************************************)
EXTENDS Integers, Sequences, FiniteSets, TLC

VARIABLES stage,    \* "idle", "sent", "altered", "received"
          format,   \* the codec in use
          value,    \* what was encoded
          frame,    \* what is on its way
          intact,   \* nobody altered it
          got,      \* what the decoder returned
          again     \* what the encoder writes for what was returned

wire == <<stage, format, value, frame, intact, got, again>>

When(condition, x) == IF condition THEN {x} ELSE {}

\* An encoder that ends by decoding what it wrote.
Checked(f, Decode(_)) == When(Decode(f) # {}, f)

-----------------------------------------------------------------------------
(* Texts.                                                                  *)

T(n, kind) == [n |-> n, kind |-> kind]
Plain(n) == T(n, "plain")
Empty == Plain(0)

Utf8(t) == t.kind # "bad"
Nul(t) == t.kind \in {"nul", "zeros"}
Control(t) == t.kind \in {"control", "nul", "zeros"}

\* What a caller may pass where the code takes a string: around the limit,
\* empty, with a NUL or another control character.
Strings(limit) ==
  {Empty, Plain(1), Plain(limit), Plain(limit + 1), T(1, "nul"), T(1, "control")}

\* ... and where it takes bytes.
Bytes(limit) == Strings(limit) \union {T(2, "bad")}

-----------------------------------------------------------------------------
(* Numbers.  From Huge on a number stands for one with a high byte set:    *)
(* Huge + r * Step + x is 256^r + x.                                       *)

Huge == 60 * 16777216
Step == 16777216
Garbled == 1900000000   \* what a text gives when it is read as a number

Pow256(i) == <<1, 256, 65536, 16777216>>[i + 1]

ByteOf(v, i) ==
  IF v < Huge
  THEN IF i < 4 THEN (v \div Pow256(i)) % 256 ELSE IF v < 0 THEN 255 ELSE 0
  ELSE LET r == (v - Huge) \div Step  x == (v - Huge) % Step IN
       IF i = r THEN 1 ELSE IF i < 3 THEN (x \div Pow256(i)) % 256 ELSE 0

\* w bytes at offset o, least or most significant byte first.
LE(o, w, v) == {<<o + i, ByteOf(v, i)>> : i \in 0..(w - 1)}
BE(o, w, v) == {<<o + w - 1 - i, ByteOf(v, i)>> : i \in 0..(w - 1)}
U8(o, v) == LE(o, 1, v)
U16(o, v) == LE(o, 2, v)
U32(o, v) == LE(o, 4, v)
U64(o, v) == LE(o, 8, v)

Frame(size, numbers, texts) ==
  [size |-> size,
   bytes |-> {b \in UNION numbers : b[2] # 0},
   texts |-> {t \in texts : t[2].n > 0 /\ t[2].kind # "zeros"}]

ByteIn(bytes, o) ==
  IF \E b \in bytes : b[1] = o THEN (CHOOSE b \in bytes : b[1] = o)[2] ELSE 0
ByteAt(f, o) == ByteIn(f.bytes, o)

Overlap(t, o, w) == t[1] < o + w /\ o < t[1] + t[2].n
InText(f, o, w) == \E t \in f.texts : Overlap(t, o, w)
Zero(f, o, w) == ~InText(f, o, w) /\ \A b \in f.bytes : b[1] \notin o..(o + w - 1)
Zeros(f, o, w) == {i \in (o..(o + w - 1)) \ {b[1] : b \in f.bytes} : ~InText(f, i, 1)}

\* The number of w bytes b[0], b[1], ..., least significant byte first.
Number(w, b) ==
  LET low == b[0] + (IF w > 1 THEN 256 * b[1] ELSE 0) + (IF w > 2 THEN 65536 * b[2] ELSE 0)
      high == {i \in 3..(w - 1) : b[i] # 0} IN
  IF high = {} THEN low
  ELSE IF high = {3} /\ b[3] < 60 THEN low + Pow256(3) * b[3]
  ELSE Huge + (CHOOSE i \in high : \A j \in high : j <= i) * Step + (low % Step)

Near(f, o, w) == {b \in f.bytes : b[1] \in o..(o + w - 1)}
Little(bytes, o, w) == Number(w, [i \in 0..(w - 1) |-> ByteIn(bytes, o + i)])
Big(bytes, o, w) == Number(w, [i \in 0..(w - 1) |-> ByteIn(bytes, o + w - 1 - i)])
Num(f, o, w) == IF InText(f, o, w) THEN Garbled ELSE Little(Near(f, o, w), o, w)
BigNum(f, o, w) == IF InText(f, o, w) THEN Garbled ELSE Big(Near(f, o, w), o, w)
u8(f, o) == Num(f, o, 1)
u16(f, o) == Num(f, o, 2)
u32(f, o) == Num(f, o, 4)
u64(f, o) == Num(f, o, 8)
i32(f, o) ==
  IF ByteAt(f, o + 3) < 128 THEN u32(f, o)
  ELSE Num(f, o, 3) + Pow256(3) * (ByteAt(f, o + 3) - 256)

\* The fields <<name, offset, width>> of a record; it is joined to an empty
\* one so that TLC reads each field once.
Put(v, fields) == {LE(x[2], x[3], v[x[1]]) : x \in fields}
Get(f, fields) ==
  [k \in {x[1] : x \in fields} |->
     LET x == CHOOSE x \in fields : x[1] = k IN Num(f, x[2], x[3])] @@ <<>>

\* No bit of a number is set outside a mask.
MaxBit == 20
Within(v, mask) ==
  /\ v < 2^(MaxBit + 1)
  /\ \A i \in 0..MaxBit : (v \div 2^i) % 2 <= (mask \div 2^i) % 2
HasBit(v, bit) == (v \div bit) % 2 = 1

\* The n bytes at o: a text or a part of one, zeros, or pieces of several
\* things.
Text(f, o, n) ==
  LET covers(t) == t[1] <= o /\ o + n <= t[1] + t[2].n IN
  IF n = 0 THEN Empty
  ELSE IF \E t \in f.texts : covers(t)
  THEN T(n, (CHOOSE t \in f.texts : covers(t))[2].kind)
  ELSE IF Zero(f, o, n) THEN T(n, "zeros")
  ELSE T(n, IF \E i \in o..(o + n - 1) : Zero(f, i, 1) THEN "nul" ELSE "torn")

\* A frame that ends with a text, and what follows offset o.
Headed(o, numbers, t) == Frame(o + t.n, numbers, {<<o, t>>})
Rest(f, o) == Text(f, o, f.size - o)

\* Texts one after the other, with their lengths as a table of 16-bit
\* numbers.
Sum(ns) ==
  LET s[a \in Nat, b \in Nat] ==
        IF b < a THEN 0 ELSE IF a = b THEN ns[a] ELSE s[a, (a + b) \div 2] + s[(a + b) \div 2 + 1, b] IN
  s[1, Len(ns)]
Sizes(ts) == [i \in DOMAIN ts |-> ts[i].n]
Lengths(o, ts) == UNION {U16(o + 2 * (i - 1), ts[i].n) : i \in DOMAIN ts}
Run(o, ts) == {<<o + Sum(SubSeq(Sizes(ts), 1, i - 1)), ts[i]>> : i \in DOMAIN ts}
LengthsAt(f, o, k) == [i \in 1..k |-> u16(f, o + 2 * (i - 1))]
Cut(f, o, ns) == [i \in DOMAIN ns |-> Text(f, o + Sum(SubSeq(ns, 1, i - 1)), ns[i])]

\* A frame inside another one.
Shift(fields, o) == {<<x[1] + o, x[2]>> : x \in fields}
Clip(t, o, n) ==
  LET from == IF t[1] < o THEN o ELSE t[1]
      to == IF t[1] + t[2].n > o + n THEN o + n ELSE t[1] + t[2].n IN
  <<from, [t[2] EXCEPT !.n = to - from]>>
Slice(f, o, n) ==
  [size |-> n,
   bytes |-> Shift({b \in f.bytes : b[1] \in o..(o + n - 1)}, -o),
   texts |-> Shift({Clip(t, o, n) : t \in {t \in f.texts : Overlap(t, o, n)}}, -o)]
Envelope(size, numbers, o, inner) ==
  Frame(size, numbers \union {Shift(inner.bytes, o)}, Shift(inner.texts, o))

-----------------------------------------------------------------------------
(* Writers and readers that go through a frame from its start.  What is    *)
(* written is a number of w bytes and then a text; what is read is a       *)
(* number, n raw bytes, or a number of w bytes and then as many bytes, at  *)
(* most n.                                                                 *)

WNum(w, v) == [w |-> w, v |-> v, t |-> Empty]
WRaw(t) == [w |-> 0, v |-> 0, t |-> t]
WBytes(w, t) == [w |-> w, v |-> t.n, t |-> t]
\* What is written for each of several entries, one after the other.
Concat(ss) == LET c[i \in 0..Len(ss)] == IF i = 0 THEN <<>> ELSE c[i - 1] \o ss[i] IN c[Len(ss)]
Written(items) ==
  LET sizes == [i \in DOMAIN items |-> items[i].w + items[i].t.n]
      at(i) == Sum(SubSeq(sizes, 1, i - 1)) IN
  Frame(Sum(sizes),
        {LE(at(i), items[i].w, items[i].v) : i \in DOMAIN items},
        {<<at(i) + items[i].w, items[i].t>> : i \in DOMAIN items})

RNum(w) == [w |-> w, take |-> "number", n |-> 0]
RRaw(n) == [w |-> 0, take |-> "raw", n |-> n]
RBytes(w, max) == [w |-> w, take |-> "bytes", n |-> max]
Reader == [ok |-> TRUE, at |-> 0, got |-> <<>>]
\* After a number, the next n bytes.
TakeNext(f, r, x, number, n) ==
  IF ~r.ok \/ r.at + x.w > f.size \/ n > f.size - r.at - x.w \/ (x.take = "bytes" /\ n > x.n)
  THEN [r EXCEPT !.ok = FALSE]
  ELSE [r EXCEPT !.at = @ + x.w + n,
                 !.got = Append(@, IF x.take = "number" THEN number ELSE Text(f, r.at + x.w, n))]
TakeSized(f, r, x, number) ==
  TakeNext(f, r, x, number, CASE x.take = "number" -> 0 [] x.take = "raw" -> x.n [] x.take = "bytes" -> number)
Take(f, r, x) == TakeSized(f, r, x, Num(f, r.at, x.w))
TakeAll(f, r, items) ==
  LET s[i \in 0..Len(items)] == IF i = 0 THEN r ELSE Take(f, s[i - 1], items[i]) IN s[Len(items)]

\* A part that is kept as one value, if it is a good one, and k such parts.
Keep(r, s, Ok(_), Make(_)) ==
  IF s.ok THEN [s EXCEPT !.ok = Ok(Make(s.got)), !.got = Append(r.got, Make(s.got))] ELSE s
TakePart(f, r, items, Ok(_), Make(_)) ==
  Keep(r, TakeAll(f, [r EXCEPT !.got = <<>>], items), Ok, Make)
Copies(k, r, Part(_)) ==
  LET RECURSIVE run(_, _)
      run(n, q) ==
        IF n = 0 \/ ~q.ok THEN q ELSE IF n = 1 THEN Part(q) ELSE run(n - (n \div 2), run(n \div 2, q)) IN
  run(k, r)
Done(f, r) == r.ok /\ r.at = f.size

-----------------------------------------------------------------------------
(* One frame is encoded, perhaps altered, and decoded.                     *)

Idle ==
  /\ stage = "idle" /\ format = "none" /\ value = "none" /\ frame = "none"
  /\ intact = TRUE /\ got = {} /\ again = {}

\* One thing about a frame changes: a byte goes missing or is added at the
\* end, a byte or the kind of a text takes another value.
MaxProbe == 64   \* unset bytes are tried up to this offset

Alterations(f) ==
  LET free == Zeros(f, 0, IF f.size < MaxProbe THEN f.size ELSE MaxProbe)
      Last(t) == t[1] + t[2].n = f.size
      Grown(t) == IF Last(t) THEN <<t[1], T(t[2].n + 1, "nul")>> ELSE t
      With(b, c) == [f EXCEPT !.bytes = (@ \ {b}) \union When(c # 0, <<b[1], c>>)] IN
  When(f.size > 0, Slice(f, 0, f.size - 1))
  \union {[f EXCEPT !.size = @ + 1, !.texts = {Grown(t) : t \in @}]}
  \union UNION {{With(b, (b[2] + 1) % 256), With(b, b[2] - 1)} : b \in f.bytes}
  \union {[f EXCEPT !.bytes = @ \union {<<o, 1>>}] : o \in free}
  \union {[f EXCEPT !.texts = (@ \ {t}) \union {<<t[1], T(t[2].n, k)>>}] :
            t \in f.texts, k \in {"nul", "control", "bad"}}

Alter ==
  /\ stage = "sent"
  /\ \E f \in Alterations(frame) \ {frame} : frame' = f
  /\ stage' = "altered" /\ intact' = FALSE
  /\ UNCHANGED <<format, value, got, again>>

Send(name, Values, Encode(_)) ==
  /\ stage = "idle"
  /\ \E v \in Values : value' = v /\ \E f \in Encode(v) : frame' = f
  /\ stage' = "sent" /\ format' = name
  /\ UNCHANGED <<intact, got, again>>

Receive(name, Encode(_), Decode(_)) ==
  /\ stage \in {"sent", "altered"} /\ format = name
  /\ \E returned \in {Decode(frame)} : got' = returned /\ again' = UNION {Encode(v) : v \in returned}
  /\ stage' = "received"
  /\ UNCHANGED <<format, value, frame, intact>>

Exchange(name, Values, Encode(_), Decode(_)) ==
  Send(name, Values, Encode) \/ Receive(name, Encode, Decode)

\* Values that differ from a typical one in one field.
Vary(base, choices) ==
  UNION {{[base EXCEPT ![k] = x] : x \in choices[k]} : k \in DOMAIN choices}

-----------------------------------------------------------------------------
\* What an encoder accepts, the decoder of the same format accepts, and it
\* returns the same value: limits, offsets and widths of the two agree.
RoundTrip == stage = "received" /\ intact => got = {value}
=============================================================================
