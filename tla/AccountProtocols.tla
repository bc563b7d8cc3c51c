------------------------- MODULE AccountProtocols --------------------------
(***************************************************************************)
(* The messages of the user service: snapshots of its database in chunks,  *)
(* accounts, authentication, and public lookups of users and groups.       *)
(***************************************************************************)
EXTENDS Wire

MAGIC == 11
VERSION == 1
HEADER_LEN == 24
MAX_MESSAGE_LEN == 4128
CHUNK_RESPONSE_PREFIX_LEN == HEADER_LEN + 16
MAX_CHUNK_LEN == MAX_MESSAGE_LEN - CHUNK_RESPONSE_PREFIX_LEN
AUTHENTICATION_RESULT_PREFIX_LEN == HEADER_LEN + 16
MAX_USER_NAME_LEN == 32
MAX_PASSWORD_LEN == 1024

SnapshotBegin == 1
SnapshotChunkOp == 2
AddUserOp == 16
RemoveUserOp == 17
SetPasswordOp == 18
AuthenticateOp == 32
PublicLookup == 48
PublicGroupLookup == 49
StatusOp == 32768
SnapshotInfoOp == 32769
SnapshotData == 32770
AuthenticationResultOp == 32800
PublicAccount == 32816
PublicGroup == 32817
Opcode ==
  {SnapshotBegin, SnapshotChunkOp, AddUserOp, RemoveUserOp, SetPasswordOp, AuthenticateOp, PublicLookup,
   PublicGroupLookup, StatusOp, SnapshotInfoOp, SnapshotData, AuthenticationResultOp, PublicAccount, PublicGroup}

write_header(opcode, id, payload_len) ==
  {U32(0, MAGIC), U16(4, VERSION), U16(6, opcode), U64(8, id), U32(16, payload_len)}
Message(opcode, id, n, numbers, texts) ==
  Frame(HEADER_LEN + n, write_header(opcode, id, n) \union numbers, texts)
Wrap(opcode, id, inner) ==
  Envelope(HEADER_LEN + inner.size, write_header(opcode, id, inner.size), HEADER_LEN, inner)
Body(f) == Slice(f, HEADER_LEN, f.size - HEADER_LEN)

decode_header(f) ==
  When(/\ f.size \in HEADER_LEN..MAX_MESSAGE_LEN
       /\ u32(f, 0) = MAGIC /\ u16(f, 4) = VERSION /\ u16(f, 6) \in Opcode
       /\ u32(f, 20) = 0 /\ u32(f, 16) + HEADER_LEN = f.size,
       [opcode |-> u16(f, 6), request_id |-> u64(f, 8), payload_len |-> u32(f, 16)])
expected_header(f, expected) == {h \in decode_header(f) : h.opcode = expected}

-----------------------------------------------------------------------------
(* Snapshots.                                                              *)

SnapshotRequest_encode(id) == {Message(SnapshotBegin, id, 0, {}, {})}
SnapshotRequest_decode(f) == {h.request_id : h \in {h \in expected_header(f, SnapshotBegin) : h.payload_len = 0}}

SnapshotInfo == [request_id : {7, 70000}, total_len : {0, 5}, generation : {0, 6}]
SnapshotInfo_encode(v) ==
  {Message(SnapshotInfoOp, v.request_id, 16, {U64(24, v.total_len), U64(32, v.generation)}, {})}
SnapshotInfo_decode(f) ==
  {[request_id |-> h.request_id, total_len |-> u64(f, 24), generation |-> u64(f, 32)] :
     h \in {h \in expected_header(f, SnapshotInfoOp) : h.payload_len = 16}}

SnapshotChunkRequest == [request_id : {7}, offset : {0, 70000}, length : {0, 1, MAX_CHUNK_LEN, MAX_CHUNK_LEN + 1}]
SnapshotChunkRequest_encode(v) ==
  When(v.length \in 1..MAX_CHUNK_LEN,
       Message(SnapshotChunkOp, v.request_id, 16, {U64(24, v.offset), U32(32, v.length)}, {}))
SnapshotChunkRequest_decode(f) ==
  {[request_id |-> h.request_id, offset |-> u64(f, 24), length |-> u32(f, 32)] :
     h \in {h \in expected_header(f, SnapshotChunkOp) :
              h.payload_len = 16 /\ u32(f, 36) = 0 /\ u32(f, 32) \in 1..MAX_CHUNK_LEN}}

SnapshotChunk == [request_id : {7}, offset : {9}, generation : {8}, bytes : Bytes(MAX_CHUNK_LEN)]
SnapshotChunk_encode(v) ==
  When(v.bytes.n \in 1..MAX_CHUNK_LEN,
       Message(SnapshotData, v.request_id, 16 + v.bytes.n, {U64(24, v.offset), U64(32, v.generation)},
               {<<CHUNK_RESPONSE_PREFIX_LEN, v.bytes>>}))
SnapshotChunk_decode(f) ==
  {[request_id |-> h.request_id, offset |-> u64(f, 24), generation |-> u64(f, 32), bytes |-> Text(f, 40, f.size - 40)] :
     h \in {h \in expected_header(f, SnapshotData) : h.payload_len > 16}}

-----------------------------------------------------------------------------
(* Accounts and authentication.                                            *)

encode_bytes_message(opcode, id, bytes) ==
  When(bytes.n > 0 /\ HEADER_LEN + bytes.n <= MAX_MESSAGE_LEN,
       Message(opcode, id, bytes.n, {}, {<<HEADER_LEN, bytes>>}))

AddUser == [request_id : {7}, encoded_record : Bytes(MAX_MESSAGE_LEN - HEADER_LEN)]
AddUser_encode(v) == encode_bytes_message(AddUserOp, v.request_id, v.encoded_record)
AddUser_decode(f) ==
  {[request_id |-> h.request_id, encoded_record |-> Text(f, HEADER_LEN, h.payload_len)] :
     h \in {h \in expected_header(f, AddUserOp) : h.payload_len > 0}}

RemoveUser == [request_id : {7}, name : Strings(MAX_MESSAGE_LEN - HEADER_LEN)]
RemoveUser_encode(v) == encode_bytes_message(RemoveUserOp, v.request_id, v.name)
RemoveUser_decode(f) ==
  {[request_id |-> h.request_id, name |-> Text(f, HEADER_LEN, h.payload_len)] :
     h \in {h \in expected_header(f, RemoveUserOp) : h.payload_len > 0 /\ Utf8(Text(f, HEADER_LEN, h.payload_len))}}

Credentials ==
  [request_id : {7}, name : Strings(MAX_USER_NAME_LEN), password : Bytes(MAX_PASSWORD_LEN)]
encode_credentials(opcode, v) ==
  When(v.name.n \in 1..MAX_USER_NAME_LEN /\ v.password.n <= MAX_PASSWORD_LEN,
       Message(opcode, v.request_id, 8 + v.name.n + v.password.n,
               {U16(24, v.name.n), U16(26, v.password.n)}, Run(32, <<v.name, v.password>>)))
decode_credentials(f, opcode) ==
  LET ns == LengthsAt(f, 24, 2)
      ts == Cut(f, 32, ns) IN
  {[request_id |-> h.request_id, name |-> ts[1], password |-> ts[2]] :
     h \in {h \in expected_header(f, opcode) :
              /\ h.payload_len >= 8 /\ u32(f, 28) = 0
              /\ ns[1] \in 1..MAX_USER_NAME_LEN /\ ns[2] <= MAX_PASSWORD_LEN
              /\ Sum(ns) + 8 = h.payload_len /\ Utf8(ts[1])}}
SetPassword_encode(v) == encode_credentials(SetPasswordOp, v)
SetPassword_decode(f) == decode_credentials(f, SetPasswordOp)
Authenticate_encode(v) == encode_credentials(AuthenticateOp, v)
Authenticate_decode(f) == decode_credentials(f, AuthenticateOp)

AuthenticationResult ==
  Vary([request_id |-> 7, uid |-> 1, gid |-> 2, name |-> Plain(1), home |-> Plain(2), shell |-> Plain(3)],
       [uid |-> {0, 70000}, name |-> Strings(32), home |-> Strings(MAX_MESSAGE_LEN - 44), shell |-> Strings(MAX_MESSAGE_LEN - 43)])
AuthenticationResult_encode(v) ==
  LET ts == <<v.name, v.home, v.shell>>
      n == 16 + Sum(Sizes(ts)) IN
  When((\A i \in 1..3 : ts[i].n > 0) /\ HEADER_LEN + n <= MAX_MESSAGE_LEN,
       Message(AuthenticationResultOp, v.request_id, n, {U32(24, v.uid), U32(28, v.gid), Lengths(32, ts)},
               Run(AUTHENTICATION_RESULT_PREFIX_LEN, ts)))
AuthenticationResult_decode(f) ==
  LET ns == LengthsAt(f, 32, 3)
      ts == Cut(f, AUTHENTICATION_RESULT_PREFIX_LEN, ns) IN
  {[request_id |-> h.request_id, uid |-> u32(f, 24), gid |-> u32(f, 28), name |-> ts[1], home |-> ts[2], shell |-> ts[3]] :
     h \in {h \in expected_header(f, AuthenticationResultOp) :
              /\ h.payload_len >= 16 /\ u16(f, 38) = 0
              /\ \A i \in 1..3 : ns[i] > 0
              /\ Sum(ns) + 16 = h.payload_len /\ \A i \in 1..3 : Utf8(ts[i])}}

Status == [request_id : {7}, status : {0, -13, 4}, generation : {0, 8}]
Status_encode(v) == {Message(StatusOp, v.request_id, 16, {U32(24, v.status), U64(32, v.generation)}, {})}
Status_decode(f) ==
  {[request_id |-> h.request_id, status |-> i32(f, 24), generation |-> u64(f, 32)] :
     h \in {h \in expected_header(f, StatusOp) : h.payload_len = 16 /\ u32(f, 28) = 0}}

-----------------------------------------------------------------------------
(* Public lookups.  A "plain" text is letters, digits, '_' and '-' only; a *)
(* "path" begins with '/'.                                                 *)

MAX_NAME == 32
MAX_DISPLAY == 128
MAX_PATH == 512
MAX_QUERY == 8 + MAX_NAME
MAX_RECORD == 16 + MAX_NAME + MAX_DISPLAY + 2 * MAX_PATH
Limits == <<MAX_NAME, MAX_DISPLAY, MAX_PATH, MAX_PATH>>

text(t, limit) == t.n <= limit /\ ~Nul(t) /\ Utf8(t)
name(t) == text(t, MAX_NAME) /\ t.n > 0 /\ t.kind = "plain"

\* By number: no name.
Query == {<<0, 5, Empty>>, <<0, 70000, Empty>>} \union {<<1, 0, t>> : t \in Strings(MAX_NAME)}
encode_query(v) ==
  When(v[1] = 1 => name(v[3]),
       Frame(8 + v[3].n, {U32(0, v[1]), U32(4, IF v[1] = 0 THEN v[2] ELSE v[3].n)}, {<<8, v[3]>>}))
decode_query(f) ==
  LET t == Text(f, 8, f.size - 8) IN
  IF f.size \notin 8..MAX_QUERY THEN {}
  ELSE CASE u32(f, 0) = 0 -> When(f.size = 8, <<0, u32(f, 4), Empty>>)
         [] u32(f, 0) = 1 -> When(u32(f, 4) + 8 = f.size /\ name(t), <<1, 0, t>>)
         [] OTHER -> {}

Paths(limit) == {T(n, "path") : n \in {1, limit, limit + 1}} \union {Empty, Plain(3)}
Record ==
  Vary([uid |-> 1, gid |-> 2, name |-> Plain(3), display_name |-> T(5, "control"), home |-> T(2, "path"), shell |-> T(4, "path")],
       [uid |-> {0, 70000}, name |-> Strings(MAX_NAME), display_name |-> Strings(MAX_DISPLAY),
        home |-> Paths(MAX_PATH), shell |-> Paths(MAX_PATH)])
RecordOk(ts) ==
  /\ name(ts[1]) /\ \A i \in 1..4 : text(ts[i], Limits[i])
  /\ ts[3].kind = "path" /\ ts[4].kind = "path"
encode_record(v) ==
  LET ts == <<v.name, v.display_name, v.home, v.shell>> IN
  When(RecordOk(ts), Frame(16 + Sum(Sizes(ts)), {U32(0, v.uid), U32(4, v.gid), Lengths(8, ts)}, Run(16, ts)))
decode_record(f) ==
  LET ns == LengthsAt(f, 8, 4)
      ts == Cut(f, 16, ns) IN
  When(f.size \in 16..MAX_RECORD /\ 16 + Sum(ns) = f.size /\ RecordOk(ts),
       [uid |-> u32(f, 0), gid |-> u32(f, 4), name |-> ts[1], display_name |-> ts[2], home |-> ts[3], shell |-> ts[4]])

encode_request(v) == {Wrap(PublicLookup, v.id, q) : q \in encode_query(v.query)}
decode_request(f) ==
  {[id |-> h.request_id, query |-> q] :
     h \in expected_header(f, PublicLookup), q \in IF f.size < HEADER_LEN THEN {} ELSE decode_query(Body(f))}

\* A response: the record, or a status below zero.
encode_reply(v) == {Wrap(PublicAccount, v.id, r) : r \in encode_record(v.record)}
decode_reply(f) ==
  {[id |-> h.request_id, record |-> r] :
     h \in expected_header(f, PublicAccount), r \in IF f.size < HEADER_LEN THEN {} ELSE decode_record(Body(f))}
Refused == [id : {7}, status : {-2, -13}]
EncodeRefused(v) == Status_encode([request_id |-> v.id, status |-> v.status, generation |-> 0])
RefusedIn(id, f) ==
  {[id |-> id, status |-> s.status] : s \in {s \in Status_decode(f) : s.request_id = id /\ s.status < 0}}
IsStatus(f) == \E h \in decode_header(f) : h.opcode = StatusOp
decode_response(id, f) ==
  IF IsStatus(f) THEN RefusedIn(id, f) ELSE {r \in decode_reply(f) : r.id = id}

\* Groups: a name and members that differ.  Texts of one kind are told apart
\* by their length.
MAX_MEMBERS == 64
MAX_GROUP_RECORD == 8 + MAX_NAME + MAX_MEMBERS * (2 + MAX_NAME)
GroupRecord ==
  {[gid |-> 5, name |-> t, members |-> <<>>] : t \in Strings(MAX_NAME)}
  \union {[gid |-> 70000, name |-> Plain(2), members |-> ms] :
            ms \in {<<Plain(1)>>, <<Plain(32), Plain(1), Plain(2)>>, <<Plain(33)>>, <<Plain(1), Plain(1)>>,
                    <<Plain(1), Empty>>, <<T(1, "control")>>}}
Record_new(v) ==
  /\ Len(v.members) <= MAX_MEMBERS /\ name(v.name)
  /\ \A i \in DOMAIN v.members : name(v.members[i]) /\ \A j \in 1..(i - 1) : v.members[j] # v.members[i]
MemberOffset(o, ms, i) == o + 2 * (i - 1) + Sum(SubSeq(Sizes(ms), 1, i - 1))
encode_group(v) ==
  LET o == 8 + v.name.n
      at(i) == MemberOffset(o, v.members, i) IN
  When(Record_new(v),
       Frame(MemberOffset(o, v.members, Len(v.members) + 1),
             {U32(0, v.gid), U16(4, v.name.n), U16(6, Len(v.members))}
               \union {U16(at(i), v.members[i].n) : i \in DOMAIN v.members},
             {<<8, v.name>>} \union {<<at(i) + 2, v.members[i]>> : i \in DOMAIN v.members}))
decode_group(f) ==
  LET count == u16(f, 6)
      at[i \in 0..count] == IF i = 0 THEN 8 + u16(f, 4) ELSE at[i - 1] + 2 + u16(f, at[i - 1])
      v == [gid |-> u32(f, 0), name |-> Text(f, 8, u16(f, 4)),
            members |-> [i \in 1..count |-> Text(f, at[i - 1] + 2, at[i] - at[i - 1] - 2)]] IN
  IF f.size \notin 8..MAX_GROUP_RECORD \/ count > MAX_MEMBERS THEN {}
  ELSE When(8 + u16(f, 4) <= f.size /\ at[count] = f.size /\ Record_new(v), v)

encode_group_request(v) == {Wrap(PublicGroupLookup, v.id, q) : q \in encode_query(v.query)}
decode_group_request(f) ==
  {[id |-> h.request_id, query |-> q] :
     h \in expected_header(f, PublicGroupLookup), q \in IF f.size < HEADER_LEN THEN {} ELSE decode_query(Body(f))}
encode_group_reply(v) == {Wrap(PublicGroup, v.id, r) : r \in encode_group(v.record)}
decode_group_response(id, f) ==
  IF IsStatus(f) THEN RefusedIn(id, f)
  ELSE {[id |-> id, record |-> r] :
          h \in {h \in expected_header(f, PublicGroup) : h.request_id = id},
          r \in IF f.size < HEADER_LEN THEN {} ELSE decode_group(Body(f))}

-----------------------------------------------------------------------------
(***************************************************************************)
(* The messages of the keychain service. A "plain" text is letters,        *)
(* digits, '.', '-' and '_' only.                                          *)
(***************************************************************************)
MAX_FRAME == 8 * 1024
MAX_SECRET == 4096
MAX_PASSWORD == 1024
MAX_ITEMS == 256
PAGE_SIZE == 2
APPLICATION_PAGE_SIZE == 32
MAX_GRANTS == 16
MAX_APPLICATIONS == MAX_ITEMS * (MAX_GRANTS + 2)
KEYCHAIN_MAGIC == 12
HEADER == 24

Framed(op, status, id, payload) ==
  When(payload.size <= MAX_FRAME - HEADER,
       Envelope(HEADER + payload.size,
                {U64(0, KEYCHAIN_MAGIC), U16(8, op), U16(10, status), U32(12, payload.size), U64(16, id)}, HEADER, payload))
unframe(f) ==
  When(f.size \in HEADER..MAX_FRAME /\ u64(f, 0) = KEYCHAIN_MAGIC /\ u32(f, 12) = f.size - HEADER,
       [op |-> u16(f, 8), status |-> u16(f, 10), id |-> u64(f, 16), payload |-> Slice(f, HEADER, f.size - HEADER)])

valid_text(t, max, empty) == (empty \/ t.n > 0) /\ t.n <= max /\ ~Control(t)

-----------------------------------------------------------------------------
(* Applications and items.                                                 *)

Application_validate(a) == a.package.n \in 1..128 /\ a.package.kind = "plain" /\ a.provenance \in 1..3
App(n, provenance) == [package |-> Plain(n), signer |-> Plain(32), provenance |-> provenance]
Application ==
  Vary(App(5, 1), [package |-> Strings(128), provenance |-> 0..4])
Writer_application(a) == <<WBytes(2, a.package), WRaw(a.signer), WNum(1, a.provenance)>>
Reader_application(f, r) ==
  TakePart(f, r, <<RBytes(2, 128), RRaw(32), RNum(1)>>, LAMBDA a : Utf8(a.package) /\ Application_validate(a),
           LAMBDA g : [package |-> g[1], signer |-> g[2], provenance |-> g[3]])

Item_validate(i) ==
  /\ Application_validate(i.owner)
  /\ valid_text(i.service, 128, FALSE) /\ valid_text(i.account, 256, TRUE) /\ valid_text(i.label, 128, FALSE)
  /\ i.id.kind # "zeros" /\ Len(i.grants) <= MAX_GRANTS
  /\ \A k \in DOMAIN i.grants :
       /\ Application_validate(i.grants[k]) /\ i.grants[k] # i.owner
       /\ \A j \in 1..(k - 1) : i.grants[j] # i.grants[k]
Item ==
  Vary([id |-> Plain(16), owner |-> App(5, 1), service |-> Plain(1), account |-> Empty, label |-> Plain(2), grants |-> <<>>],
       [id |-> {T(16, "zeros")}, owner |-> Application, service |-> Strings(128), account |-> Strings(256),
        label |-> Strings(128),
        grants |-> {<<App(5, 2)>>, <<App(5, 1)>>, <<App(3, 1), App(4, 2)>>, <<App(3, 1), App(3, 1)>>,
                    [k \in 1..MAX_GRANTS |-> App(k, 3)], [k \in 1..(MAX_GRANTS + 1) |-> App(k, 3)]}])
Writer_item(i) ==
  <<WRaw(i.id)>> \o Writer_application(i.owner)
    \o <<WBytes(2, i.service), WBytes(2, i.account), WBytes(2, i.label), WNum(1, Len(i.grants))>>
    \o Concat([k \in DOMAIN i.grants |-> Writer_application(i.grants[k])])
\* After the head of an item, its grants; and the item, if it is a good one.
Item_of(g) ==
  [id |-> g[1], owner |-> g[2], service |-> g[3], account |-> g[4], label |-> g[5], grants |-> SubSeq(g, 7, 6 + g[6])]
ItemOk(i) == Item_validate(i) /\ Utf8(i.service) /\ Utf8(i.account) /\ Utf8(i.label)
Reader_grants(f, head) ==
  IF ~head.ok THEN head
  ELSE IF head.got[6] > MAX_GRANTS THEN [head EXCEPT !.ok = FALSE]
  ELSE Copies(head.got[6], head, LAMBDA q : Reader_application(f, q))
Reader_item(f, r) ==
  Keep(r, Reader_grants(f, TakeAll(f, Reader_application(f, TakeAll(f, [r EXCEPT !.got = <<>>], <<RRaw(16)>>)),
                                   <<RBytes(2, 128), RBytes(2, 256), RBytes(2, 128), RNum(1)>>)), ItemOk, Item_of)

-----------------------------------------------------------------------------
(* Requests: the operation, the identifier and the fields, in this order.  *)

Password == {Empty, T(1, "bad"), Plain(MAX_PASSWORD), Plain(MAX_PASSWORD + 1)}
Id == Plain(16)
Tag == Plain(32)
Fields ==
  UNION {{<<op, <<>>>> : op \in {1, 4, 14, 16}},
         {<<op, <<9, p>>>> : op \in {2, 3}, p \in Password},
         {<<5, <<s, Empty, Plain(2), Plain(3)>>>> : s \in Strings(128)},
         {<<5, <<Plain(1), s, Plain(2), Plain(3)>>>> : s \in Strings(256)},
         {<<5, <<Plain(1), Plain(2), s, T(MAX_SECRET, "bad")>>>> : s \in Strings(128)},
         {<<5, <<Plain(1), Plain(2), Plain(3), Plain(MAX_SECRET + 1)>>>>},
         {<<op, <<Id>>>> : op \in {6, 7}},
         {<<8, <<m, 3, 70000>>>> : m \in {0, 1}},
         {<<op, <<9, Id, p>>>> : op \in {9, 10}, p \in Password},
         {<<11, <<9, Id, a, m, Plain(1)>>>> : a \in Application, m \in {0, 1}},
         {<<11, <<9, Id, App(3, 3), 0, p>>>> : p \in Password},
         {<<12, <<9, p, q>>>> : p \in Password, q \in Password},
         {<<13, <<3, 70000>>>>, <<15, <<1000>>>>},
         {<<17, <<1000, 9, Tag, p>>>> : p \in Password},
         {<<18, <<1000, 9, Tag, Tag, p>>>> : p \in Password}}

RequestOk(op, x) ==
  /\ op \in {2, 3, 9, 10, 11, 12, 17, 18} => x[Len(x)].n <= MAX_PASSWORD
  /\ op = 12 => x[2].n <= MAX_PASSWORD
  /\ op = 11 => Application_validate(x[3])
  /\ op = 5 => /\ valid_text(x[1], 128, FALSE) /\ valid_text(x[2], 256, TRUE) /\ valid_text(x[3], 128, FALSE)
               /\ x[4].n <= MAX_SECRET
Request_encode(v) ==
  LET x == v[3]
      items == CASE v[1] \in {1, 4, 14, 16} -> <<>>
                 [] v[1] = 17 -> <<WNum(4, x[1]), WNum(8, x[2]), WRaw(x[3]), WBytes(2, x[4])>>
                 [] v[1] = 18 -> <<WNum(4, x[1]), WNum(8, x[2]), WRaw(x[3]), WRaw(x[4]), WBytes(2, x[5])>>
                 [] v[1] = 15 -> <<WNum(4, x[1])>>
                 [] v[1] = 13 -> <<WNum(2, x[1]), WNum(8, x[2])>>
                 [] v[1] \in {2, 3} -> <<WNum(8, x[1]), WBytes(2, x[2])>>
                 [] v[1] = 5 -> <<WBytes(2, x[1]), WBytes(2, x[2]), WBytes(2, x[3]), WBytes(2, x[4])>>
                 [] v[1] \in {6, 7} -> <<WRaw(x[1])>>
                 [] v[1] = 8 -> <<WNum(1, x[1]), WNum(2, x[2]), WNum(8, x[3])>>
                 [] v[1] \in {9, 10} -> <<WNum(8, x[1]), WRaw(x[2]), WBytes(2, x[3])>>
                 [] v[1] = 11 -> <<WNum(8, x[1]), WRaw(x[2])>> \o Writer_application(x[3])
                                   \o <<WNum(1, x[4]), WBytes(2, x[5])>>
                 [] v[1] = 12 -> <<WNum(8, x[1]), WBytes(2, x[2]), WBytes(2, x[3])>> IN
  IF RequestOk(v[1], x) THEN Framed(v[1], 0, v[2], Written(items)) ELSE {}

RequestItems(op) ==
  LET secret == RBytes(2, MAX_PASSWORD) IN
  CASE op \in {1, 4, 14, 16} -> <<>>
    [] op \in {2, 3} -> <<RNum(8), secret>>
    [] op = 5 -> <<RBytes(2, 128), RBytes(2, 256), RBytes(2, 128), RBytes(2, MAX_SECRET)>>
    [] op \in {6, 7} -> <<RRaw(16)>>
    [] op = 8 -> <<RNum(1), RNum(2), RNum(8)>>
    [] op \in {9, 10} -> <<RNum(8), RRaw(16), secret>>
    [] op = 12 -> <<RNum(8), secret, secret>>
    [] op = 13 -> <<RNum(2), RNum(8)>>
    [] op = 15 -> <<RNum(4)>>
    [] op = 17 -> <<RNum(4), RNum(8), RRaw(32), secret>>
    [] op = 18 -> <<RNum(4), RNum(8), RRaw(32), RRaw(32), secret>>
Request_read(op, p) ==
  IF op \notin 1..18 THEN [Reader EXCEPT !.ok = FALSE]
  ELSE IF op = 11
  THEN TakeAll(p, Reader_application(p, TakeAll(p, Reader, <<RNum(8), RRaw(16)>>)), <<RNum(1), RBytes(2, MAX_PASSWORD)>>)
  ELSE TakeAll(p, Reader, RequestItems(op))
Request_of(m, r) ==
  LET g == r.got IN
  When(/\ m.status = 0 /\ Done(m.payload, r)
       /\ m.op = 8 => g[1] <= 1
       /\ m.op = 11 => g[4] <= 1
       /\ m.op = 5 => /\ Utf8(g[1]) /\ Utf8(g[2]) /\ Utf8(g[3])
                      /\ valid_text(g[1], 128, FALSE) /\ valid_text(g[2], 256, TRUE) /\ valid_text(g[3], 128, FALSE),
       <<m.op, m.id, g>>)
Request_decode(f) == UNION {Request_of(m, Request_read(m.op, m.payload)) : m \in unframe(f)}

-----------------------------------------------------------------------------
(* Replies: the operation, the identifier, the fields and the error.       *)

RefusedStatus == 1..12
Many(k) == [i \in 1..k |-> App(i, 1)]
Answers ==
  {<<0, <<>>>>, <<2, <<Id>>>>, <<6, <<70000>>>>}
  \union {<<1, <<a, b, 70000, c, d>>>> : a \in {0, 1}, b \in {0, 1}, c \in {0, 1}, d \in {0, 1}}
  \union {<<3, <<t>>>> : t \in {Empty, T(2, "bad"), Plain(MAX_SECRET), Plain(MAX_SECRET + 1)}}
  \union {<<4, <<g, 5, <<i>>>>>> : g \in {0, 3}, i \in Item}
  \union {<<4, <<3, n, [k \in 1..c |-> CHOOSE i \in Item : Item_validate(i)]>>>> : n \in {0, 1, 2, MAX_ITEMS, MAX_ITEMS + 1}, c \in 0..3}
  \union {<<5, <<g, n, Many(c)>>>> : g \in {0, 3}, n \in {0, 1, 40, MAX_APPLICATIONS, MAX_APPLICATIONS + 1}, c \in {0, 1, 2, 32, 33}}

PageOk(x, limit, page) == x[1] # 0 /\ x[2] <= limit /\ Len(x[3]) <= page /\ Len(x[3]) <= x[2]
Page(x, entries) ==
  <<WNum(8, x[1]), WNum(2, x[2]), WNum(2, Len(x[3]))>> \o Concat(entries)
Reply_encode(v) ==
  LET x == v[3]
      ok == /\ v[1] = 3 => x[1].n <= MAX_SECRET
            /\ v[1] = 4 => PageOk(x, MAX_ITEMS, PAGE_SIZE) /\ \A i \in DOMAIN x[3] : Item_validate(x[3][i])
            /\ v[1] = 5 => PageOk(x, MAX_APPLICATIONS, APPLICATION_PAGE_SIZE)
      items == CASE v[1] = 0 -> <<>>
                 [] v[1] = 1 -> <<WNum(1, x[1]), WNum(1, x[2]), WNum(8, x[3]), WNum(1, x[4]), WNum(1, x[5])>>
                 [] v[1] = 2 -> <<WRaw(x[1])>>
                 [] v[1] = 3 -> <<WBytes(2, x[1])>>
                 [] v[1] = 4 -> Page(x, [k \in DOMAIN x[3] |-> Writer_item(x[3][k])])
                 [] v[1] = 5 -> Page(x, [k \in DOMAIN x[3] |-> Writer_application(x[3][k])])
                 [] v[1] = 6 -> <<WNum(8, x[1])>> IN
  IF ok THEN Framed(v[1], 0, v[2], Written(items)) ELSE {}
Reply_error(v) == Framed(0, v[4], v[2], Written(<<>>))

\* A page: its head, and its entries if the head is good.
PageOf(g, all) == IF all.ok THEN [all EXCEPT !.got = <<g[1], g[2], SubSeq(@, 4, 3 + g[3])>>] ELSE all
Entries(head, limit, page, Part(_)) ==
  LET g == head.got IN
  IF ~head.ok THEN head
  ELSE IF g[1] = 0 \/ g[3] > page \/ g[2] > limit \/ g[3] > g[2] THEN [head EXCEPT !.ok = FALSE]
  ELSE PageOf(g, Copies(g[3], head, Part))
Paged(p, limit, page, Part(_)) == Entries(TakeAll(p, Reader, <<RNum(8), RNum(2), RNum(2)>>), limit, page, Part)
Reply_read(op, p) ==
  CASE op = 4 -> Paged(p, MAX_ITEMS, PAGE_SIZE, LAMBDA q : Reader_item(p, q))
    [] op = 5 -> Paged(p, MAX_APPLICATIONS, APPLICATION_PAGE_SIZE, LAMBDA q : Reader_application(p, q))
    [] op \in {0, 1, 2, 3, 6} ->
         TakeAll(p, Reader, CASE op = 0 -> <<>>
                              [] op = 1 -> <<RNum(1), RNum(1), RNum(8), RNum(1), RNum(1)>>
                              [] op = 2 -> <<RRaw(16)>>
                              [] op = 3 -> <<RBytes(2, MAX_SECRET)>>
                              [] op = 6 -> <<RNum(8)>>)
    [] OTHER -> [Reader EXCEPT !.ok = FALSE]
Reply_of(m, x) ==
  When(Done(m.payload, x) /\ (m.op = 1 => \A i \in {1, 2, 4, 5} : x.got[i] <= 1), <<m.op, m.id, x.got, 0>>)
Reply_decode(f, expected) ==
  UNION {IF m.id # expected THEN {}
         ELSE IF m.status # 0 THEN When(m.payload.size = 0 /\ m.status \in RefusedStatus, <<0, m.id, <<>>, m.status>>)
         ELSE Reply_of(m, Reply_read(m.op, m.payload)) : m \in unframe(f)}

-----------------------------------------------------------------------------
ExchangeSnapshots ==
  \/ Exchange("user snapshot", {7, 70000}, SnapshotRequest_encode, SnapshotRequest_decode)
  \/ Exchange("user snapshot info", SnapshotInfo, SnapshotInfo_encode, SnapshotInfo_decode)
  \/ Exchange("user chunk request", SnapshotChunkRequest, SnapshotChunkRequest_encode, SnapshotChunkRequest_decode)
  \/ Exchange("user chunk", SnapshotChunk, SnapshotChunk_encode, SnapshotChunk_decode)
ExchangeUserChanges ==
  \/ Exchange("user add", AddUser, AddUser_encode, AddUser_decode)
  \/ Exchange("user set password", Credentials, SetPassword_encode, SetPassword_decode)
  \/ Exchange("user authenticate", Credentials, Authenticate_encode, Authenticate_decode)
ExchangeUserStatuses ==
  \/ Exchange("user remove", RemoveUser, RemoveUser_encode, RemoveUser_decode)
  \/ Exchange("user status", Status, Status_encode, Status_decode)
ExchangeAuthentications ==
  Exchange("user authenticated", AuthenticationResult, AuthenticationResult_encode, AuthenticationResult_decode)
ExchangeAccountLookups ==
  \/ Exchange("account query", Query, encode_query, decode_query)
  \/ Exchange("account lookup", [id : {7}, query : Query], encode_request, decode_request)
ExchangeAccountReplies ==
  \/ Exchange("account reply", [id : {7}, record : Record], encode_reply, LAMBDA f : decode_response(value.id, f))
  \/ Exchange("account refused", Refused, EncodeRefused, LAMBDA f : decode_response(value.id, f))
ExchangeGroupLookups ==
  \/ Exchange("group lookup", [id : {7}, query : Query], encode_group_request, decode_group_request)
  \/ Exchange("group reply", [id : {7}, record : GroupRecord], encode_group_reply,
              LAMBDA f : decode_group_response(value.id, f))
ExchangeKeychainRequests ==
  Exchange("keychain request", {<<x[1], 7, x[2]>> : x \in Fields}, Request_encode, Request_decode)
ExchangeKeychainReplies ==
  Exchange("keychain reply", {<<x[1], 7, x[2], 0>> : x \in Answers} \union {<<0, 7, <<>>, e>> : e \in RefusedStatus},
           LAMBDA v : IF v[4] = 0 THEN Reply_encode(v) ELSE Reply_error(v), LAMBDA f : Reply_decode(f, value[2]))

Next ==
  \/ ExchangeSnapshots \/ ExchangeUserChanges \/ ExchangeUserStatuses
  \/ ExchangeAuthentications \/ ExchangeAccountLookups \/ ExchangeAccountReplies
  \/ ExchangeGroupLookups \/ ExchangeKeychainRequests \/ ExchangeKeychainReplies
=============================================================================
