---------------------------- MODULE Signatures -----------------------------
(***************************************************************************)
(* Verification of packages by the signature service, and requests to the  *)
(* package service. "id" is letters, digits and dots, "path" a clean       *)
(* absolute path, "dots" a path with a ".." part.                          *)
(***************************************************************************)
EXTENDS Wire

MSIG == 1
MVIR == 2
MPKS == 3
VERSION == 1
HEADER_LEN == 24
BEGIN_LEN == HEADER_LEN + 40
VERIFY_FILE_FIXED_LEN == HEADER_LEN + 48
ERROR_LEN == HEADER_LEN + 8
UPDATE_NOTIFICATION_LEN == HEADER_LEN + 16
VERIFIED_FIXED_LEN == HEADER_LEN + 112
INSTALL_RECORD_HEADER_LEN == 8
BuiltIn == 1
VerifiedPackage == 2
Development == 3
InstallProvenance == {BuiltIn, VerifiedPackage, Development}
VerifyBegin == 1
VerifyChunk == 2
VerifyFinish == 3
VerifyFile == 4
TrustUpdated == 256
RevocationsUpdated == 257
Status == 32768
Verified == 32771
Error == 65535

write_header(op, id, payload_len) == {U32(0, MSIG), U16(4, VERSION), U16(6, op), U64(8, id), U32(16, payload_len)}
expected_header(f, op) ==
  /\ f.size >= HEADER_LEN /\ u32(f, 0) = MSIG /\ u16(f, 4) = VERSION /\ u16(f, 6) = op /\ Zero(f, 20, 4)
  /\ f.size = HEADER_LEN + u32(f, 16)

validate_text(t) == t.n > 0 /\ t.kind \in {"plain", "id"}
validate_path(t) == t.n >= 2 /\ t.kind \in {"path", "dots"}

VerifyFile_encode(v) ==
  When(validate_path(v.path) /\ v.path.n <= 65535,
       Frame(VERIFY_FILE_FIXED_LEN + v.path.n,
             write_header(VerifyFile, v.request_id, 48 + v.path.n) \union {U64(24, v.package_len), U16(64, v.path.n)},
             {<<32, v.package_digest>>, <<72, v.path>>}))
VerifyFile_decode(f) ==
  IF f.size < VERIFY_FILE_FIXED_LEN THEN {}
  ELSE When(/\ expected_header(f, VerifyFile) /\ Zero(f, 66, 6) /\ f.size = VERIFY_FILE_FIXED_LEN + u16(f, 64)
            /\ Utf8(Rest(f, 72)) /\ validate_path(Rest(f, 72)),
            [request_id |-> u64(f, 8), package_len |-> u64(f, 24), package_digest |-> Text(f, 32, 32), path |-> Rest(f, 72)])

VerifyBegin_encode(v) ==
  {Frame(BEGIN_LEN, write_header(VerifyBegin, v.request_id, 40) \union {U64(24, v.package_len)}, {<<32, v.package_digest>>})}
VerifyBegin_decode(f) ==
  When(expected_header(f, VerifyBegin) /\ f.size = BEGIN_LEN,
       [request_id |-> u64(f, 8), package_len |-> u64(f, 24), package_digest |-> Text(f, 32, 32)])

VerifyChunk_encode(v) ==
  {Headed(32, write_header(VerifyChunk, v.request_id, 8 + v.bytes.n) \union {U64(24, v.offset)}, v.bytes)}
VerifyChunk_decode(f) ==
  IF f.size < HEADER_LEN + 8 THEN {}
  ELSE When(expected_header(f, VerifyChunk), [request_id |-> u64(f, 8), offset |-> u64(f, 24), bytes |-> Rest(f, 32)])

VerifyFinish_encode(v) == {Frame(HEADER_LEN, write_header(VerifyFinish, v.request_id, 0), {})}
VerifyFinish_decode(f) == When(expected_header(f, VerifyFinish) /\ u32(f, 16) = 0, [request_id |-> u64(f, 8)])

UpdateNotification_encode(v) ==
  When(v.op \in {TrustUpdated, RevocationsUpdated},
       Frame(UPDATE_NOTIFICATION_LEN,
             write_header(v.op, v.request_id, 16) \union {U64(24, v.snapshot_version), U64(32, v.generation)}, {}))
UpdateNotification_decode(f) ==
  LET op == u16(f, 6) IN
  When(op \in {TrustUpdated, RevocationsUpdated} /\ expected_header(f, op) /\ f.size = UPDATE_NOTIFICATION_LEN,
       [op |-> op, request_id |-> u64(f, 8), snapshot_version |-> u64(f, 24), generation |-> u64(f, 32)])

StatusResponse_encode(op, v) == {Frame(ERROR_LEN, write_header(op, v.request_id, 8) \union {U32(24, v.status)}, {})}
StatusResponse_decode(op, f) ==
  When(f.size = ERROR_LEN /\ expected_header(f, op) /\ Zero(f, 28, 4), [request_id |-> u64(f, 8), status |-> i32(f, 24)])

\* The encoder does not look at the texts; the decoder does.
VerifiedResponse_encode(v) ==
  LET caps == v.allowed_capabilities
      body == Written(<<WRaw(v.developer_id), WRaw(v.verified_package_id)>> \o [i \in DOMAIN caps |-> WBytes(2, caps[i])])
      length == VERIFIED_FIXED_LEN + body.size IN
  IF \/ v.developer_id.n > 65535 \/ v.verified_package_id.n > 65535 \/ Len(caps) > 65535
     \/ \E i \in DOMAIN caps : caps[i].n > 65535
  THEN {}
  ELSE {Frame(length,
              write_header(Verified, v.request_id, length - HEADER_LEN)
              \union {U64(24, v.certificate_serial), U16(128, v.developer_id.n), U16(130, v.verified_package_id.n), U16(132, Len(caps)),
                      U8(134, v.provenance), Shift(body.bytes, VERIFIED_FIXED_LEN)},
              {<<32, v.subject_key_id>>, <<64, v.manifest_digest>>, <<96, v.package_digest>>} \union Shift(body.texts, VERIFIED_FIXED_LEN))}

CapabilityIter(f, start, count) ==
  IF count > f.size THEN [Reader EXCEPT !.ok = FALSE]
  ELSE TakeAll(f, [Reader EXCEPT !.at = start], [i \in 1..count |-> RBytes(2, 65535)])
VerifiedView_decode(f) ==
  LET developer == u16(f, 128)
      package == u16(f, 130)
      start == VERIFIED_FIXED_LEN + developer + package
      r == CapabilityIter(f, start, u16(f, 132)) IN
  IF f.size < VERIFIED_FIXED_LEN THEN {}
  ELSE IF ~expected_header(f, Verified) \/ ~Zero(f, 135, 1) \/ start > f.size \/ u8(f, 134) \notin InstallProvenance \union {0} THEN {}
  ELSE IF ~Done(f, r) THEN {}
  ELSE LET v == [request_id |-> u64(f, 8), provenance |-> IF u8(f, 134) = 0 THEN VerifiedPackage ELSE u8(f, 134),
                 certificate_serial |-> u64(f, 24),
                 subject_key_id |-> Text(f, 32, 32), manifest_digest |-> Text(f, 64, 32), package_digest |-> Text(f, 96, 32),
                 developer_id |-> Text(f, VERIFIED_FIXED_LEN, developer),
                 verified_package_id |-> Text(f, VERIFIED_FIXED_LEN + developer, package), allowed_capabilities |-> r.got] IN
       When(/\ validate_text(v.developer_id) /\ validate_text(v.verified_package_id)
            /\ \A i \in DOMAIN r.got : validate_text(r.got[i]), v)

InstallRecord_encode(v) ==
  {Envelope(INSTALL_RECORD_HEADER_LEN + f.size, {U32(0, MVIR), U16(4, VERSION), U8(6, v.provenance)}, INSTALL_RECORD_HEADER_LEN, f) :
     f \in VerifiedResponse_encode(v.verification)}
InstallRecordView_decode(f) ==
  IF f.size < INSTALL_RECORD_HEADER_LEN THEN {}
  ELSE IF ~(u32(f, 0) = MVIR /\ u16(f, 4) = VERSION /\ u8(f, 6) \in InstallProvenance /\ Zero(f, 7, 1)) THEN {}
  ELSE {[provenance |-> u8(f, 6), verification |-> v] :
          v \in VerifiedView_decode(Slice(f, INSTALL_RECORD_HEADER_LEN, f.size - INSTALL_RECORD_HEADER_LEN))}

-----------------------------------------------------------------------------
(* The package service.                                                    *)

MAX_MESSAGE_LEN == 65536
MAX_PATH_LEN == 4095
MAX_PACKAGE_ID_LEN == 128
MAX_NAME_LEN == 255
MAX_VERSION_LEN == 128
MAX_KIND_LEN == 32
MAX_PACKAGES == 1024
OP_INSTALL == 1
OP_UPDATE == 2
OP_REMOVE == 3
OP_LIST == 4
OP_STATUS == 32768
OP_LIST_RESULT == 32772

encode_message(op, id, status, payload) ==
  When(HEADER_LEN + payload.size <= MAX_MESSAGE_LEN,
       Envelope(HEADER_LEN + payload.size,
                {U32(0, MPKS), U16(4, VERSION), U16(6, op), U64(8, id), U32(16, status), U32(20, payload.size)}, HEADER_LEN, payload))
decode_message(f) ==
  /\ f.size \in HEADER_LEN..MAX_MESSAGE_LEN /\ u32(f, 0) = MPKS /\ u16(f, 4) = VERSION
  /\ u32(f, 20) = f.size - HEADER_LEN

package_path(t) == t.n \in 2..MAX_PATH_LEN /\ t.kind = "path"
validate_package_id(t) == t.n \in 1..MAX_PACKAGE_ID_LEN /\ t.kind \in {"plain", "id"}
package_text(t, maximum, allow_empty) == (allow_empty \/ t.n > 0) /\ t.n <= maximum /\ ~Control(t)
decode_text(t) == ~Nul(t) /\ Utf8(t)

RequestOk(v) ==
  CASE v.op \in {OP_INSTALL, OP_UPDATE} -> package_path(v.text)
    [] v.op = OP_REMOVE -> validate_package_id(v.text)
    [] v.op = OP_LIST -> v.text.n = 0
    [] OTHER -> FALSE
encode_request(v) == IF RequestOk(v) THEN encode_message(v.op, v.request_id, 0, Headed(0, {}, v.text)) ELSE {}
decode_request(f) ==
  LET v == [op |-> u16(f, 6), request_id |-> u64(f, 8), text |-> Rest(f, HEADER_LEN)] IN
  IF ~decode_message(f) THEN {} ELSE When(Zero(f, 16, 4) /\ decode_text(v.text) /\ RequestOk(v), v)

encode_status(v) == encode_message(OP_STATUS, v.request_id, v.status, Frame(0, {}, {}))
decode_status(f, id) ==
  When(decode_message(f) /\ f.size = HEADER_LEN /\ u16(f, 6) = OP_STATUS /\ u64(f, 8) = id, [request_id |-> id, status |-> i32(f, 16)])

\* One record after the other is pushed; the list ends before the first
\* one that does not fit.
RecordTexts(r) == <<r.package_id, r.name, r.version, r.kind>>
RecordOk(r) ==
  /\ validate_package_id(r.package_id) /\ package_text(r.name, MAX_NAME_LEN, FALSE)
  /\ package_text(r.version, MAX_VERSION_LEN, FALSE) /\ package_text(r.kind, MAX_KIND_LEN, TRUE)
push(r) ==
  <<WNum(4, r.flags)>> \o [i \in 1..4 |-> WNum(2, RecordTexts(r)[i].n)] \o [i \in 1..4 |-> WRaw(RecordTexts(r)[i])]
finish(v) ==
  LET body == Written(<<WNum(4, Len(v.records))>> \o Concat([i \in DOMAIN v.records |-> push(v.records[i])])) IN
  IF Len(v.records) > MAX_PACKAGES \/ (\E i \in DOMAIN v.records : ~RecordOk(v.records[i])) THEN {}
  ELSE encode_message(OP_LIST_RESULT, v.request_id, 0, body)
PackageRecord(f, r) ==
  LET at == r.at
      ns == LengthsAt(f, at + 4, 4)
      ts == Cut(f, at + 12, ns)
      x == [package_id |-> ts[1], name |-> ts[2], version |-> ts[3], kind |-> ts[4], flags |-> u32(f, at)] IN
  IF f.size - at < 12 THEN [r EXCEPT !.ok = FALSE]
  ELSE IF Sum(ns) > f.size - at - 12 THEN [r EXCEPT !.ok = FALSE]
  ELSE [ok |-> RecordOk(x) /\ \A i \in 1..4 : decode_text(ts[i]), at |-> at + 12 + Sum(ns), got |-> Append(r.got, x)]
decode_list(f, id) ==
  LET count == u32(f, HEADER_LEN) IN
  IF ~(decode_message(f) /\ u16(f, 6) = OP_LIST_RESULT /\ u64(f, 8) = id /\ Zero(f, 16, 4) /\ f.size >= HEADER_LEN + 4) THEN {}
  ELSE IF count > MAX_PACKAGES \/ 12 * count > f.size THEN {}   \* a record has twelve bytes at least
  ELSE LET r == Copies(count, [Reader EXCEPT !.at = HEADER_LEN + 4], LAMBDA q : PackageRecord(f, q)) IN
       When(Done(f, r), [request_id |-> id, records |-> r.got])

-----------------------------------------------------------------------------
Digest(n) == T(32, <<"plain", "control", "bad">>[n])
Paths == {T(2, "path"), T(4, "dots"), T(1, "path"), T(65535, "path"), T(65536, "path"), T(9, "nul"), Plain(9)}
Verifications ==
  Vary([request_id |-> 7, provenance |-> BuiltIn, certificate_serial |-> 70000, subject_key_id |-> Digest(1), manifest_digest |-> Digest(2),
        package_digest |-> Digest(3), developer_id |-> Plain(3), verified_package_id |-> T(5, "id"), allowed_capabilities |-> <<>>],
       [provenance |-> InstallProvenance, developer_id |-> {T(1, "id"), T(65535, "id"), T(65536, "id")},
        verified_package_id |-> {T(65535, "id"), T(65536, "id")},
        allowed_capabilities |-> {<<T(4, "id")>>, <<T(4, "id"), T(65535, "id"), Plain(1)>>, <<T(65536, "id")>>}])
InstallRecords == [provenance : InstallProvenance, verification : {v \in Verifications : v.provenance = BuiltIn}]
Records ==
  Vary([package_id |-> T(3, "id"), name |-> Plain(4), version |-> Plain(5), kind |-> Plain(6), flags |-> 2],
       [package_id |-> {Empty, T(128, "id"), T(129, "id"), T(2, "dots")}, name |-> {Empty, Plain(255), Plain(256), T(2, "control")},
        version |-> {Empty, Plain(128), Plain(129)}, kind |-> {Empty, Plain(32), Plain(33)}, flags |-> {0, 3}])
Lists ==
  [request_id : {9}, records : {<<>>} \union {<<r>> : r \in Records}
     \union {<<r, s>> : r, s \in {r \in Records : r.kind.n \in {0, 6} /\ r.name.n = 4}}]

-----------------------------------------------------------------------------
(***************************************************************************)
(* Developer certificates: encoded and decoded, and signed by a root key   *)
(* and verified for a package at a time. An "id" of n bytes is x.x.x...,   *)
(* so that a shorter one is a prefix of a longer one; a "word" is xxx; a   *)
(* "uuid" is 32 hexadecimal digits; "key" is a public key and "key id" its *)
(* digest; "root" is the digest of the root key and "signed" its           *)
(* signature.                                                              *)
(***************************************************************************)
MAGIC == 1
FORMAT_VERSION == 1
CERTIFICATE_HEADER_LEN == 144
SIGNATURE_LEN == 64
KEY_USAGE_PACKAGE_SIGNING == 1
MAX_CERTIFICATE_LEN == 1048576
MAX_DEVELOPER_ID_LEN == 32
MAX_PACKAGE_SCOPES == 256
MAX_ALLOWED_CAPABILITIES == 512
MAX_ITEM_LEN == 255
Exact == 1
Prefix == 2
PackageScopeKind == {Exact, Prefix}
OFFSET_TOTAL_LEN == 8
OFFSET_ISSUER_KEY_ID == 20
OFFSET_SUBJECT_KEY_ID == 52
OFFSET_SUBJECT_PUBLIC_KEY == 84
OFFSET_DEVELOPER_ID_LEN == 136
OFFSET_SCOPE_COUNT == 138
OFFSET_CAPABILITY_COUNT == 140
OFFSET_RESERVED == 142
Numbers == {<<"serial_number", 12, 8>>, <<"not_before", 116, 8>>, <<"not_after", 124, 8>>, <<"key_usage", 132, 4>>}

key_id(t) == T(32, IF t = T(32, "key") THEN "key id" ELSE "torn")
is_valid_developer_id(t) == t = T(MAX_DEVELOPER_ID_LEN, "uuid")
is_valid_package_id(t) == t.kind = "id" /\ t.n \in 3..MAX_ITEM_LEN /\ t.n % 2 = 1
is_valid_capability(t) == t.kind \in {"id", "word"} /\ t.n \in 1..MAX_ITEM_LEN
Below(a, b) == IF a.kind = b.kind THEN a.n < b.n ELSE a.kind = "id" /\ b.n > 1
ScopeBelow(a, b) == a.kind < b.kind \/ (a.kind = b.kind /\ Below(a.package_id, b.package_id))

validate_scopes(scopes) ==
  /\ Len(scopes) \in 1..MAX_PACKAGE_SCOPES
  /\ \A i \in DOMAIN scopes : is_valid_package_id(scopes[i].package_id)
  /\ \A i \in 2..Len(scopes) : ScopeBelow(scopes[i - 1], scopes[i])
validate_capabilities(capabilities) ==
  /\ Len(capabilities) <= MAX_ALLOWED_CAPABILITIES
  /\ \A i \in DOMAIN capabilities : is_valid_capability(capabilities[i])
  /\ \A i \in 2..Len(capabilities) : Below(capabilities[i - 1], capabilities[i])

encoded_len(v) ==
  CERTIFICATE_HEADER_LEN + v.developer_id.n + SIGNATURE_LEN + Sum([i \in DOMAIN v.package_id_scopes |-> 4 + v.package_id_scopes[i].package_id.n])
  + Sum([i \in DOMAIN v.allowed_capabilities |-> 2 + v.allowed_capabilities[i].n])
validate(v) ==
  /\ v.serial_number # 0 /\ is_valid_developer_id(v.developer_id)
  /\ v.subject_public_key.kind = "key" /\ key_id(v.subject_public_key) = v.subject_key_id
  /\ v.not_before < v.not_after /\ v.key_usage = KEY_USAGE_PACKAGE_SIGNING
  /\ validate_scopes(v.package_id_scopes) /\ validate_capabilities(v.allowed_capabilities)
  /\ encoded_len(v) <= MAX_CERTIFICATE_LEN

encode_prefix(v) ==
  LET scope(s) == <<WNum(2, s.kind), WBytes(2, s.package_id)>>
      scopes == [i \in DOMAIN v.package_id_scopes |-> scope(v.package_id_scopes[i])]
      capabilities == [i \in DOMAIN v.allowed_capabilities |-> WBytes(2, v.allowed_capabilities[i])]
      body == Written(<<WRaw(v.developer_id)>> \o Concat(scopes) \o capabilities) IN
  Frame(CERTIFICATE_HEADER_LEN + body.size,
        Put(v, Numbers)
        \union {U32(0, MAGIC), U16(4, FORMAT_VERSION), U16(6, CERTIFICATE_HEADER_LEN), U32(OFFSET_TOTAL_LEN, encoded_len(v)),
                U16(OFFSET_DEVELOPER_ID_LEN, v.developer_id.n), U16(OFFSET_SCOPE_COUNT, Len(scopes)),
                U16(OFFSET_CAPABILITY_COUNT, Len(capabilities)), Shift(body.bytes, CERTIFICATE_HEADER_LEN)},
        {<<OFFSET_ISSUER_KEY_ID, v.issuer_key_id>>, <<OFFSET_SUBJECT_KEY_ID, v.subject_key_id>>,
         <<OFFSET_SUBJECT_PUBLIC_KEY, v.subject_public_key>>} \union Shift(body.texts, CERTIFICATE_HEADER_LEN))
encode(v) ==
  IF ~validate(v) THEN {}
  ELSE LET f == encode_prefix(v) IN
       {[f EXCEPT !.size = @ + SIGNATURE_LEN, !.texts = @ \union {<<f.size, v.signature>>}]}

decode(f) ==
  LET scopes == u16(f, OFFSET_SCOPE_COUNT)
      capabilities == u16(f, OFFSET_CAPABILITY_COUNT)
      body == Slice(f, 0, f.size - SIGNATURE_LEN)
      Scope(g) == [kind |-> g[1], package_id |-> g[3]]
      ScopeOk(s) == s.kind \in PackageScopeKind /\ Utf8(s.package_id) IN
  IF f.size < CERTIFICATE_HEADER_LEN + SIGNATURE_LEN \/ f.size > MAX_CERTIFICATE_LEN THEN {}
  ELSE IF ~(/\ u32(f, 0) = MAGIC /\ u16(f, 4) = FORMAT_VERSION /\ u16(f, 6) = CERTIFICATE_HEADER_LEN /\ u32(f, OFFSET_TOTAL_LEN) = f.size
            /\ Zero(f, OFFSET_RESERVED, 2) /\ scopes <= MAX_PACKAGE_SCOPES /\ capabilities <= MAX_ALLOWED_CAPABILITIES) THEN {}
  ELSE LET r0 == Take(body, [Reader EXCEPT !.at = CERTIFICATE_HEADER_LEN], RRaw(u16(f, OFFSET_DEVELOPER_ID_LEN)))
           r1 == Copies(scopes, r0, LAMBDA r :
                   IF r.at + 2 <= body.size /\ Zero(body, r.at + 1, 1)
                   THEN TakePart(body, r, <<RNum(1), RRaw(1), RBytes(2, 65535)>>, ScopeOk, Scope)
                   ELSE [r EXCEPT !.ok = FALSE])
           r2 == Copies(capabilities, r1, LAMBDA r : Take(body, r, RBytes(2, 65535))) IN
       IF ~Done(body, r2) THEN {}
       ELSE LET v == Get(f, Numbers)
                     @@ [developer_id |-> r2.got[1], package_id_scopes |-> SubSeq(r2.got, 2, 1 + scopes),
                         allowed_capabilities |-> SubSeq(r2.got, 2 + scopes, Len(r2.got)),
                         issuer_key_id |-> Text(f, OFFSET_ISSUER_KEY_ID, 32), subject_key_id |-> Text(f, OFFSET_SUBJECT_KEY_ID, 32),
                         subject_public_key |-> Text(f, OFFSET_SUBJECT_PUBLIC_KEY, 32),
                         signature |-> Text(f, f.size - SIGNATURE_LEN, SIGNATURE_LEN)] IN
            When(validate(v), v)

\* A package is in scope: named exactly, or by a prefix that ends at a dot.
matches(scope, package_id) ==
  IF scope.kind = Exact THEN scope.package_id = package_id
  ELSE package_id = scope.package_id \/ (package_id.kind = "id" /\ package_id.n > scope.package_id.n)

\* The root signed one message, the encoding of the certificate sent.
verify_strict(v) == v.signature = T(SIGNATURE_LEN, "signed") /\ encode_prefix(v) = encode_prefix(value.certificate)
verify(v, unix_time, package_id) ==
  /\ v.issuer_key_id = T(32, "root")
  /\ verify_strict(v)
  /\ unix_time >= v.not_before /\ unix_time < v.not_after
  /\ is_valid_package_id(package_id) /\ \E i \in DOMAIN v.package_id_scopes : matches(v.package_id_scopes[i], package_id)

-----------------------------------------------------------------------------
(* A certificate with a question about it: is it good for a package at a   *)
(* time?                                                                   *)

Issued(v) == encode(v.certificate)
VerifiedCertificate(f) ==
  {[certificate |-> c, unix_time |-> value.unix_time, package_id |-> value.package_id,
    good |-> verify(c, value.unix_time, value.package_id)] : c \in decode(f)}

Scopes(s) == [i \in DOMAIN s |-> [kind |-> s[i][1], package_id |-> s[i][2]]]
Id(n) == T(n, "id")
DeveloperCertificate ==
  [serial_number |-> 70000, issuer_key_id |-> T(32, "root"), developer_id |-> T(32, "uuid"), subject_key_id |-> T(32, "key id"),
   subject_public_key |-> T(32, "key"), not_before |-> 5, not_after |-> 300, key_usage |-> 1,
   package_id_scopes |-> Scopes(<<<<Exact, Id(5)>>, <<Prefix, Id(3)>>>>),
   allowed_capabilities |-> <<Id(3), Id(4), T(2, "word")>>, signature |-> T(64, "signed")]
Certificates ==
  Vary(DeveloperCertificate,
       [serial_number |-> {0, 1}, issuer_key_id |-> {T(32, "plain")}, developer_id |-> {T(31, "uuid"), T(32, "word")}, subject_key_id |-> {T(32, "bad")},
        subject_public_key |-> {T(32, "bad")}, not_before |-> {0, 299, 300}, key_usage |-> {0, 2},
        package_id_scopes |-> {Scopes(s) : s \in {<<>>, <<<<Exact, Id(3)>>>>, <<<<Exact, Id(4)>>>>, <<<<Exact, Id(1)>>>>, <<<<Exact, Id(255)>>>>,
                                                  <<<<Prefix, Id(257)>>>>, <<<<Prefix, Id(3)>>, <<Exact, Id(5)>>>>, <<<<Exact, Id(3)>>, <<Exact, Id(3)>>>>,
                                                  <<<<Exact, Id(3)>>, <<Prefix, Id(3)>>>>, [i \in 1..9 |-> <<Exact, Id(2 * i + 1)>>], [i \in 1..257 |-> <<Prefix, Id(3)>>]}},
        allowed_capabilities |-> {<<>>, <<Empty>>, <<T(255, "word")>>, <<T(256, "word")>>, <<Id(4), Id(3)>>, <<Id(3), Id(3)>>}])
CertificateVerifications ==
  {[certificate |-> [DeveloperCertificate EXCEPT !.package_id_scopes = Scopes(<<<<Exact, Id(5)>>, <<Prefix, Id(7)>>>>)],
    unix_time |-> time, package_id |-> id, good |-> time \in 5..299 /\ id.n \in {5, 7, 9}] :
     time \in {4, 5, 299, 300}, id \in {Id(3), Id(5), Id(7), Id(8), Id(9)}}

-----------------------------------------------------------------------------
(***************************************************************************)
(* Signing of ELF files and verification of what was signed. A file is a   *)
(* frame; section names, code, digests and keys are texts. "signature" and *)
(* "manifest" are the two reserved section names, "mochiOS" the name of    *)
(* the note, "magic" that of its descriptor and "envelope" that of the     *)
(* manifest; "digest" is the digest of the file as it was signed, "key id" *)
(* that of the signer's key and "signed" a signature with it.              *)
(***************************************************************************)
ELF64_HEADER_LEN == 64
ELF64_SECTION_HEADER_LEN == 64
ELF64_PROGRAM_HEADER_LEN == 56
ET_EXEC == 2
ET_DYN == 3
SHT_PROGBITS == 1
SHT_STRTAB == 3
SHT_NOTE == 7
SHT_NOBITS == 8
PT_LOAD == 1
PT_NOTE == 4
SIGNATURE_SECTION == T(23, "signature")
SECTION == T(17, "manifest")
NOTE_NAME == T(8, "mochiOS")
NOTE_TYPE == 9
NOTE_VERSION == 1
KIND_ADHOC == 1
KIND_ED25519 == 2
DIGEST_SHA256 == 1
SIGNATURE_NONE == 0
SIGNATURE_ED25519 == 1
DESCRIPTOR_LEN == 146
KEY_ID_OFFSET == 18
DIGEST_OFFSET == 50
SIGNATURE_OFFSET == 82
ENVELOPE_HEADER_LEN == 16
MAX_MANIFEST_LEN == 65536
MAX_ELF_LEN == 1073741824
VerificationLimits ==
  [max_image_bytes |-> MAX_ELF_LEN, max_section_headers |-> 65535, max_program_headers |-> 65535,
   max_note_scan_bytes |-> 2147483647, max_name_scan_bytes |-> MAX_ELF_LEN]

align4(n) == 4 * ((n + 3) \div 4)
align8(n) == 8 * ((n + 7) \div 8)
is_power_of_two(n) == n \in {2^i : i \in 0..29} \/ (n >= Huge /\ (n - Huge) % Step = 0)
checked_end(offset, size, limit) == offset <= limit /\ size <= limit - offset
checked_table(offset, entry_size, count, limit) == checked_end(offset, entry_size * count, limit)
overlaps(left, right) == left[1] < right[2] /\ right[1] < left[2]
Range(s) == <<s.offset, s.offset + s.size>>

ProgramHeader(o) ==
  {<<"kind", o, 4>>, <<"offset", o + 8, 8>>, <<"address", o + 16, 8>>, <<"size", o + 32, 8>>, <<"memory", o + 40, 8>>, <<"align", o + 48, 8>>}
Section(o) ==
  {<<"name", o, 4>>, <<"section_type", o + 4, 4>>, <<"flags", o + 8, 8>>, <<"address", o + 16, 8>>, <<"offset", o + 24, 8>>,
   <<"size", o + 32, 8>>, <<"link", o + 40, 8>>, <<"align", o + 48, 8>>, <<"entry_size", o + 56, 8>>}

segment_ok(f, p) ==
  /\ checked_end(p.offset, p.size, f.size)
  /\ p.align > 1 => is_power_of_two(p.align)
  /\ p.kind = PT_LOAD =>
       p.size <= p.memory /\ (p.align > 1 => p.address % p.align = p.offset % p.align)
section_ok(f, s) ==
  /\ s.section_type # SHT_NOBITS => checked_end(s.offset, s.size, f.size)
  /\ s.align # 0 => is_power_of_two(s.align)
  /\ s.section_type # SHT_NOBITS /\ s.size # 0 /\ s.align > 1 => s.offset % s.align = 0
  /\ s.entry_size # 0 => s.size % s.entry_size = 0

\* The bytes of a name up to the NUL that ends it: the first NUL follows
\* bytes that are none, or is where the name starts.
NameEnd(f, strtab, name) ==
  LET from == strtab.offset + name
      room == strtab.size - name
      behind == {t[1] + t[2].n : t \in f.texts} \union {b[1] + 1 : b \in Near(f, from, room)}
      ends == {o \in {from} \union behind : o >= from /\ o < from + room /\ Zero(f, o, 1)} IN
  IF ends = {} THEN {} ELSE {CHOOSE o \in ends : \A q \in ends : o <= q}
section_name(f, strtab, s) ==
  LET from == strtab.offset + s.name IN {Text(f, from, e - from) : e \in NameEnd(f, strtab, s.name)}

header_ok(f, limits) ==
  /\ f.size <= limits.max_image_bytes /\ f.size >= ELF64_HEADER_LEN /\ Text(f, 0, 4).kind = "elf"
  /\ u8(f, 4) = 2 /\ u8(f, 5) = 1 /\ u8(f, 6) = 1 /\ Zero(f, 7, 9)
  /\ u16(f, 16) \in {ET_EXEC, ET_DYN} /\ u32(f, 20) = 1 /\ u16(f, 52) = ELF64_HEADER_LEN
programs_ok(f, limits) ==
  LET phoff == u64(f, 32)  phnum == u16(f, 56) IN
  IF phnum = 0 THEN phoff = 0
  ELSE /\ phnum <= limits.max_program_headers /\ phoff # 0 /\ phnum # 65535 /\ u16(f, 54) = ELF64_PROGRAM_HEADER_LEN
       /\ checked_table(phoff, ELF64_PROGRAM_HEADER_LEN, phnum, f.size)
sections_ok(f, limits) ==
  LET shoff == u64(f, 40)  shnum == u16(f, 60) IN
  /\ shnum <= limits.max_section_headers /\ shnum # 0 /\ shoff # 0 /\ u16(f, 58) = ELF64_SECTION_HEADER_LEN
  /\ checked_table(shoff, ELF64_SECTION_HEADER_LEN, shnum, f.size)
  /\ u16(f, 62) # 65535 /\ u16(f, 62) < shnum

\* The file with these two tables.
parse_tables(f, limits, programs, sections) ==
  LET phoff == u64(f, 32)  phnum == Len(programs)  shoff == u64(f, 40)  shnum == Len(sections)
      strtab == sections[u16(f, 62) + 1] IN
  IF ~(/\ \A i \in 1..phnum : segment_ok(f, programs[i])
       /\ \A i \in 1..shnum : section_ok(f, sections[i])
       /\ sections[1].name = 0 /\ sections[1].section_type = 0 /\ sections[1].offset = 0 /\ sections[1].size = 0
       /\ strtab.section_type = SHT_STRTAB /\ strtab.size > 0 /\ Zero(f, strtab.offset, 1)
       /\ \A i \in 1..shnum : sections[i].name <= strtab.size /\ NameEnd(f, strtab, sections[i].name) # {}
       /\ Sum([i \in 1..shnum |-> 1 + (CHOOSE t \in section_name(f, strtab, sections[i]) : TRUE).n]) <= limits.max_name_scan_bytes) THEN {}
  ELSE {[sections |-> sections,
         names |-> <<>> \o [i \in 1..shnum |-> CHOOSE t \in section_name(f, strtab, sections[i]) : TRUE],
         shstr_index |-> u16(f, 62) + 1,
         program_notes |-> SelectSeq(programs, LAMBDA p : p.kind = PT_NOTE),
         load_segments |-> {Range(programs[i]) : i \in {i \in 1..phnum : programs[i].kind = PT_LOAD /\ programs[i].size # 0}},
         tables |-> {<<0, ELF64_HEADER_LEN>>, <<shoff, shoff + shnum * ELF64_SECTION_HEADER_LEN>>}
                    \union When(phnum # 0, <<phoff, phoff + phnum * ELF64_PROGRAM_HEADER_LEN>>),
         note_scan_limit |-> limits.max_note_scan_bytes]}
\* The tables are concatenated to nothing so that TLC reads them once.
parse_elf(f, limits) ==
  IF f.size < ELF64_HEADER_LEN THEN {}
  ELSE IF ~(header_ok(f, limits) /\ programs_ok(f, limits)) THEN {}
  ELSE IF ~sections_ok(f, limits) THEN {}
  ELSE parse_tables(f, limits,
         <<>> \o [i \in 1..u16(f, 56) |-> Get(f, ProgramHeader(u64(f, 32) + (i - 1) * ELF64_PROGRAM_HEADER_LEN))],
         <<>> \o [i \in 1..u16(f, 60) |-> Get(f, Section(u64(f, 40) + (i - 1) * ELF64_SECTION_HEADER_LEN))])

-----------------------------------------------------------------------------
(* The signature note.                                                     *)

\* The descriptors of the signature notes in an area, or nothing when some
\* note is malformed.
parse_note_area(f, area) ==
  LET end == area.offset + area.size
      walk[c \in Nat] ==
        IF c >= end THEN {<<>>}
        ELSE IF end - c < 12 THEN {}
        ELSE LET namesz == u32(f, c)
                 descsz == u32(f, c + 4)
                 name_end == c + 12 + namesz
                 descriptor == align4(name_end)
                 next == align4(descriptor + descsz)
                 ours == u32(f, c + 8) = NOTE_TYPE /\ Text(f, c + 12, namesz) = NOTE_NAME IN
             IF ~checked_end(c + 12, namesz, end) THEN {}
             ELSE IF descriptor > end \/ ~checked_end(descriptor, descsz, end) THEN {}
             ELSE IF next > end THEN {}
             ELSE IF ~ours THEN walk[next]
             ELSE IF \/ descsz # DESCRIPTOR_LEN \/ ~Zero(f, name_end, descriptor - name_end)
                     \/ ~Zero(f, descriptor + descsz, next - descriptor - descsz) THEN {}
             ELSE {<<descriptor>> \o rest : rest \in walk[next]} IN
  walk[area.offset]

validate_signature_location(elf, origin, descriptor) ==
  LET range == <<descriptor, descriptor + DESCRIPTOR_LEN>> IN
  /\ \A r \in elf.tables \union elf.load_segments : ~overlaps(range, r)
  /\ \A i \in DOMAIN elf.sections :
       (elf.sections[i].section_type # SHT_NOBITS /\ elf.sections[i].size # 0 /\ i # origin) => ~overlaps(range, Range(elf.sections[i]))

parse_record(f, o) ==
  When(/\ Text(f, o, 8).kind = "magic" /\ u16(f, o + 8) = NOTE_VERSION /\ u8(f, o + 10) \in {KIND_ADHOC, KIND_ED25519} /\ Zero(f, o + 13, 1),
       [kind |-> u8(f, o + 10), digest_algorithm |-> u8(f, o + 11), signature_algorithm |-> u8(f, o + 12), flags |-> u32(f, o + 14),
        key_id |-> Text(f, o + KEY_ID_OFFSET, 32), digest |-> Text(f, o + DIGEST_OFFSET, 32),
        signature |-> Text(f, o + SIGNATURE_OFFSET, 64), at |-> o])

\* The note sections, then the note segments.
note_areas(elf) ==
  LET notes == SelectSeq([i \in DOMAIN elf.sections |-> i], LAMBDA i : elf.sections[i].section_type = SHT_NOTE) IN
  [k \in DOMAIN notes |-> [offset |-> elf.sections[notes[k]].offset, size |-> elf.sections[notes[k]].size, origin |-> notes[k]]]
  \o [k \in DOMAIN elf.program_notes |-> [offset |-> elf.program_notes[k].offset, size |-> elf.program_notes[k].size, origin |-> 0]]

\* Nothing when the file is malformed, else the set of the one record: of the
\* descriptors found, of those in these areas, of those in the file.
record_found(f, elf, reserved, found) ==
  LET same == /\ Len(found) = 2 /\ found[1].at = found[2].at
              /\ Range(found[1].area) = Range(found[2].area) /\ (found[1].area.origin = 0) # (found[2].area.origin = 0) IN
  IF found = <<>> THEN When(reserved = {}, {})
  ELSE IF ~(Len(found) = 1 \/ same) \/ reserved = {} THEN {}
  ELSE LET s == elf.sections[CHOOSE i \in reserved : TRUE]  at == found[1].at IN
       IF at < s.offset \/ at + DESCRIPTOR_LEN > s.offset + s.size \/ ~validate_signature_location(elf, found[1].area.origin, at) THEN {}
       ELSE {{r} : r \in parse_record(f, at)}
record_in(f, elf, reserved, areas, read) ==
  LET at(k) == LET ds == CHOOSE d \in read[k] : TRUE IN [j \in DOMAIN ds |-> [at |-> ds[j], area |-> areas[k]]] IN
  IF \/ \E i \in reserved : elf.sections[i].section_type # SHT_NOTE
     \/ Cardinality(reserved) > 1
     \/ Sum([k \in DOMAIN areas |-> areas[k].size]) > elf.note_scan_limit
     \/ \E k \in DOMAIN areas : read[k] = {} THEN {}
  ELSE record_found(f, elf, reserved, Concat([k \in DOMAIN areas |-> at(k)]))
locate_record_in(f, elf) ==
  record_in(f, elf, {i \in DOMAIN elf.sections : elf.names[i] = SIGNATURE_SECTION}, note_areas(elf),
            <<>> \o [k \in DOMAIN note_areas(elf) |-> parse_note_area(f, note_areas(elf)[k])])

validate_record(r) ==
  /\ r.digest_algorithm = DIGEST_SHA256 /\ r.flags = 0
  /\ IF r.kind = KIND_ADHOC
     THEN r.signature_algorithm = SIGNATURE_NONE /\ r.key_id = T(32, "zeros") /\ r.signature = T(64, "zeros")
     ELSE r.signature_algorithm = SIGNATURE_ED25519

-----------------------------------------------------------------------------
(* The embedded manifest.                                                  *)

text(t) == t.n \in 1..MAX_MANIFEST_LEN /\ ~Nul(t) /\ Utf8(t)
manifest_ok(f, elf, i) ==
  LET s == elf.sections[i]  range == Range(s) IN
  /\ s.section_type = SHT_PROGBITS /\ s.align = 4 /\ s.entry_size = 0 /\ s.flags = 0 /\ s.address = 0 /\ s.link = 0
  /\ s.size > ENVELOPE_HEADER_LEN /\ s.size <= ENVELOPE_HEADER_LEN + MAX_MANIFEST_LEN
  /\ \A r \in elf.tables \union elf.load_segments : ~overlaps(range, r)
  /\ \A k \in DOMAIN elf.program_notes : ~overlaps(range, Range(elf.program_notes[k]))
  /\ \A j \in DOMAIN elf.sections :
       j # i /\ elf.sections[j].section_type # SHT_NOBITS /\ elf.sections[j].size # 0 => ~overlaps(range, Range(elf.sections[j]))
  /\ Text(f, s.offset, 8).kind = "envelope" /\ u16(f, s.offset + 8) = 1 /\ u16(f, s.offset + 10) = 1 /\ Zero(f, s.offset + 12, 4)
  /\ text(Text(f, s.offset + ENVELOPE_HEADER_LEN, s.size - ENVELOPE_HEADER_LEN))
\* Nothing when a manifest is malformed, else the set of the one there is.
locate(f, elf) ==
  LET named == {i \in DOMAIN elf.sections : elf.names[i] = SECTION} IN
  IF Cardinality(named) > 1 \/ \E i \in named : ~manifest_ok(f, elf, i) THEN {}
  ELSE {{Text(f, elf.sections[i].offset + ENVELOPE_HEADER_LEN, elf.sections[i].size - ENVELOPE_HEADER_LEN) : i \in named}}

-----------------------------------------------------------------------------
(* Signing.                                                                *)

append_section(f, elf, name, kind, data) ==
  LET n == Len(elf.sections)
      strtab == elf.sections[elf.shstr_index]
      name_at == strtab.size + (IF Zero(f, strtab.offset + strtab.size - 1, 1) THEN 0 ELSE 1)
      str_size == name_at + name.n + 1
      data_offset == align4(f.size)
      str_offset == data_offset + data.size
      table == align8(str_offset + str_size)
      own == table + n * ELF64_SECTION_HEADER_LEN
      str == own + ELF64_SECTION_HEADER_LEN
      pieces == {<<data, data_offset>>, <<Slice(f, strtab.offset, strtab.size), str_offset>>,
                 <<Slice(f, u64(f, 40), n * ELF64_SECTION_HEADER_LEN), table>>,
                 <<Frame(str + ELF64_SECTION_HEADER_LEN,
                         {U64(40, table), U16(60, n + 2), U16(62, n + 1),
                          U32(own, name_at), U32(own + 4, kind), U64(own + 24, data_offset), U64(own + 32, data.size), U64(own + 48, 4),
                          U32(str, strtab.name), U32(str + 4, SHT_STRTAB), U64(str + 24, str_offset), U64(str + 32, str_size), U64(str + 48, 1)},
                         {<<str_offset + name_at, name>>}), 0>>} IN
  When(/\ n + 2 <= 65535
       /\ f.size + data.size + str_size + (n + 2) * ELF64_SECTION_HEADER_LEN + 16 <= MAX_ELF_LEN,
       [size |-> str + ELF64_SECTION_HEADER_LEN,
        bytes |-> {b \in f.bytes : b[1] \notin (40..47) \union (60..63)} \union UNION {Shift(x[1].bytes, x[2]) : x \in pieces},
        texts |-> f.texts \union UNION {Shift(x[1].texts, x[2]) : x \in pieces}])

embed_manifest(f, declaration) ==
  LET data == Frame(ENVELOPE_HEADER_LEN + declaration.n, {U16(8, 1), U16(10, 1)}, {<<0, T(8, "envelope")>>, <<ENVELOPE_HEADER_LEN, declaration>>}) IN
  IF ~text(declaration) THEN {}
  ELSE UNION {append_section(f, elf, SECTION, SHT_PROGBITS, data) :
                elf \in {e \in parse_elf(f, VerificationLimits) : locate_record_in(f, e) = {{}} /\ locate(f, e) = {{}}}}

embed_empty_record(f, kind) ==
  LET algorithm == IF kind = KIND_ADHOC THEN SIGNATURE_NONE ELSE SIGNATURE_ED25519
      note == Frame(168, {U32(0, 8), U32(4, DESCRIPTOR_LEN), U32(8, NOTE_TYPE), U16(28, NOTE_VERSION), U8(30, kind), U8(31, DIGEST_SHA256),
                          U8(32, algorithm)},
                    {<<12, NOTE_NAME>>, <<20, T(8, "magic")>>, <<20 + KEY_ID_OFFSET, T(32, IF kind = KIND_ADHOC THEN "zeros" ELSE "key id")>>}) IN
  UNION {append_section(f, elf, SIGNATURE_SECTION, SHT_NOTE, note) :
           elf \in {e \in parse_elf(f, VerificationLimits) :
                      locate_record_in(f, e) = {{}} /\ (\A i \in DOMAIN e.names : e.names[i] # SIGNATURE_SECTION) /\ locate(f, e) # {}}}

\* The digest, and the signature of it, go where the record was found.
sign(f, kind) ==
  LET seal(g, r) ==
        [g EXCEPT !.texts = @ \union {<<r.at + DIGEST_OFFSET, T(32, "digest")>>}
                              \union When(kind = KIND_ED25519, <<r.at + SIGNATURE_OFFSET, T(64, "signed")>>)]
      records(g) == UNION UNION {locate_record_in(g, elf) : elf \in parse_elf(g, VerificationLimits)} IN
  UNION {{seal(g, r) : r \in records(g)} : g \in embed_empty_record(f, kind)}

normalized(f, r) ==
  LET values == (r.at + DIGEST_OFFSET)..(r.at + DESCRIPTOR_LEN - 1) IN
  [f EXCEPT !.bytes = {b \in @ : b[1] \notin values}, !.texts = {t \in @ : t[1] \notin values}]

-----------------------------------------------------------------------------
(* What the linker wrote: a header, a load segment and a note segment,     *)
(* code, a note, the names, the sections.                                  *)

Linked(segments, alignment, bss, spare) ==
  LET n == IF bss THEN 5 ELSE 4
      table == 240 IN
  Frame(table + 64 * n,
        {U8(4, 2), U8(5, 1), U8(6, 1), U16(16, ET_DYN), U16(18, 62), U32(20, 1), U64(40, table), U16(52, 64), U16(54, 56), U16(56, segments),
         U16(58, 64), U16(60, n), U16(62, 3), U64(32, IF segments = 0 THEN 0 ELSE 64),
         U32(192, 4), U32(196, 4), U32(200, 1),
         U32(table + 64, 1), U32(table + 68, 1), U64(table + 88, 176), U64(table + 96, 16), U64(table + 112, alignment),
         U32(table + 128, 7), U32(table + 132, SHT_NOTE), U64(table + 152, 192), U64(table + 160, 20), U64(table + 176, 4),
         U32(table + 192, 13), U32(table + 196, SHT_STRTAB), U64(table + 216, 212), U64(table + 224, 23 + spare), U64(table + 240, 1)}
        \union (IF segments = 0 THEN {}
                ELSE {U32(64, PT_LOAD), U64(72, 176), U64(80, 176), U64(96, 16), U64(104, 16), U64(112, 16)})
        \union (IF segments < 2 THEN {} ELSE {U32(120, PT_NOTE), U64(128, 192), U64(152, 20), U64(168, 4)})
        \union (IF bss THEN {U32(table + 256, 1), U32(table + 260, SHT_NOBITS), U64(table + 280, 9000), U64(table + 288, 70000)} ELSE {}),
        {<<0, T(4, "elf")>>, <<176, Plain(16)>>, <<204, Plain(4)>>, <<208, Plain(4)>>, <<213, Plain(5)>>, <<219, Plain(5)>>, <<225, Plain(9)>>,
         <<235, Plain(spare)>>})

Images ==
  Vary([unsigned |-> Linked(2, 16, FALSE, 0), manifest |-> {}, kind |-> KIND_ADHOC],
       [kind |-> {KIND_ADHOC, KIND_ED25519}, manifest |-> {{Plain(5)}, {T(5, "nul")}, {Empty}, {Plain(65537)}},
        unsigned |-> {Linked(0, 1, TRUE, 0), Linked(2, 16, FALSE, 1), Linked(2, 32, FALSE, 0), Linked(1, 3, FALSE, 0)}])
Signed(v) ==
  UNION {sign(f, v.kind) : f \in IF v.manifest = {} THEN {v.unsigned} ELSE UNION {embed_manifest(v.unsigned, t) : t \in v.manifest}}

\* The digest in a file is that of the one file that was signed.
digest_matches(f, r) ==
  /\ r.digest = T(32, "digest")
  /\ \E g \in Signed(value) : normalized(f, r) = normalized(g, r)
verify_parsed(f, r) ==
  /\ validate_record(r)
  /\ digest_matches(f, r)
  /\ r.kind = KIND_ED25519 => r.key_id = T(32, "key id") /\ r.signature = T(64, "signed")
verify_image(f) ==
  UNION {{[unsigned |-> value.unsigned, manifest |-> m, kind |-> r.kind] :
            m \in locate(f, elf), r \in {r \in UNION locate_record_in(f, elf) : verify_parsed(f, r)}} :
           elf \in parse_elf(f, VerificationLimits)}

-----------------------------------------------------------------------------
ExchangeVerifyFiles ==
  \/ Exchange("verify file", [request_id : {7}, package_len : {70000}, package_digest : {Digest(1)}, path : Paths],
              VerifyFile_encode, VerifyFile_decode)
  \/ Exchange("verify status", [request_id : {7}, status : {0, -22, 1}],
              LAMBDA v : StatusResponse_encode(Status, v), LAMBDA f : StatusResponse_decode(Status, f))
  \/ Exchange("verify error", [request_id : {7}, status : {0, -22, 1}],
              LAMBDA v : StatusResponse_encode(Error, v), LAMBDA f : StatusResponse_decode(Error, f))
ExchangeVerifyChunks ==
  \/ Exchange("verify begin", [request_id : {7}, package_len : {0, 70000}, package_digest : {Digest(1)}],
              VerifyBegin_encode, VerifyBegin_decode)
  \/ Exchange("verify chunk", [request_id : {7}, offset : {0, 70000}, bytes : {Empty, Plain(1), Plain(300), T(5, "nul")}],
              VerifyChunk_encode, VerifyChunk_decode)
ExchangeTrustUpdates ==
  \/ Exchange("verify finish", [request_id : {0, 70000}], VerifyFinish_encode, VerifyFinish_decode)
  \/ Exchange("trust update", [op : {TrustUpdated, RevocationsUpdated, Status}, request_id : {7}, snapshot_version : {3}, generation : {0, 70000}],
              UpdateNotification_encode, UpdateNotification_decode)
ExchangeVerifiedRecords ==
  Exchange("verified", Verifications, VerifiedResponse_encode, VerifiedView_decode)
ExchangeInstallRecords ==
  Exchange("install record", InstallRecords, InstallRecord_encode, InstallRecordView_decode)
ExchangePackageRequests ==
  \/ Exchange("package request",
              [op : 1..5, request_id : {7}, text : {Empty, T(1, "path"), T(2, "path"), T(4095, "path"), T(4096, "path"), T(5, "dots"),
                                                     T(128, "id"), T(129, "id"), Plain(3), T(3, "nul")}],
              encode_request, decode_request)
  \/ Exchange("package status", [request_id : {7}, status : {0, -22}], encode_status, LAMBDA f : decode_status(f, value.request_id))
ExchangePackageLists ==
  Exchange("package list", Lists, finish, LAMBDA f : decode_list(f, value.request_id))
ExchangeCertificates ==
  Exchange("certificate", Certificates, encode, decode)
ExchangeVerifiedCertificates ==
  Exchange("verified certificate", CertificateVerifications, Issued, VerifiedCertificate)
ExchangeSignedElfs ==
  Exchange("signed elf", Images, Signed, verify_image)

Next ==
  \/ ExchangeVerifyFiles \/ ExchangeVerifyChunks \/ ExchangeTrustUpdates
  \/ ExchangeVerifiedRecords \/ ExchangeInstallRecords \/ ExchangePackageRequests
  \/ ExchangePackageLists \/ ExchangeCertificates
  \/ ExchangeVerifiedCertificates \/ ExchangeSignedElfs
=============================================================================
