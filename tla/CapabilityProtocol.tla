------------------------ MODULE CapabilityProtocol -------------------------
(***************************************************************************)
(* The messages that ask what a program may do: resolving and authorizing  *)
(* executables, permission requests and decisions, images of libraries and *)
(* signed programs, application launches. A text of kind "path" is an      *)
(* absolute path, one of kind "variable" is NAME=value.                    *)
(***************************************************************************)
EXTENDS Wire

CAPABILITY_PROMPT_OPCODE == 1
CAPABILITY_DECISION_OPCODE == 3
CAPABILITY_PERSISTENT_QUERY_OPCODE == 4
RESOLVE_CAPABILITIES_OPCODE == 5
RESOLVE_EXECUTION_SECURITY_OPCODE == 6
PREPARE_EXECUTION_IMAGE_OPCODE == 7
AUTHORIZE_EXEC_OPCODE == 10
AUTHORIZE_EXEC_OBJECT_OPCODE == 11
AUTHORIZE_CAPTURED_IMAGE_OPCODE == 12
PROTOCOL_VERSION == 1
RESOLVE_CAPABILITIES_REQUEST_PREFIX_LEN == 4
RESOLVE_CAPABILITIES_REPLY_STATUS_LEN == 8
RESOLVE_EXECUTION_SECURITY_REPLY_HEADER_LEN == 8 + 4
MAX_CAPABILITY_NAME_LEN == 64
MAX_EXECUTABLE_PATH_LEN == 256
MAX_EXECUTABLE_IDENTITY_LEN == 255
MAX_RESOURCE_PATH_LEN == 256
MAX_REASON_LEN == 128

validate_executable_identity(t) == t.n \in 1..MAX_EXECUTABLE_IDENTITY_LEN /\ ~Nul(t)
Identities == Strings(MAX_EXECUTABLE_IDENTITY_LEN)
Digest == Plain(32)

encode_authorize_exec_object_request(v) ==
  When(validate_executable_identity(v.identity),
       Frame(40 + v.identity.n, {U32(0, AUTHORIZE_EXEC_OBJECT_OPCODE), U32(4, PROTOCOL_VERSION)},
             {<<8, v.digest>>, <<40, v.identity>>}))
decode_authorize_exec_object_request(f) ==
  When(/\ f.size >= 40 /\ u32(f, 0) = AUTHORIZE_EXEC_OBJECT_OPCODE /\ u32(f, 4) = PROTOCOL_VERSION
       /\ Utf8(Rest(f, 40)) /\ validate_executable_identity(Rest(f, 40)),
       [digest |-> Text(f, 8, 32), identity |-> Rest(f, 40)])

encode_authorize_captured_image_request(t) ==
  When(validate_executable_identity(t),
       Headed(8, {U32(0, AUTHORIZE_CAPTURED_IMAGE_OPCODE), U32(4, PROTOCOL_VERSION)}, t))
decode_authorize_captured_image_request(f) ==
  When(/\ f.size >= 8 /\ u32(f, 0) = AUTHORIZE_CAPTURED_IMAGE_OPCODE /\ u32(f, 4) = PROTOCOL_VERSION
       /\ Utf8(Rest(f, 8)) /\ validate_executable_identity(Rest(f, 8)), Rest(f, 8))

-----------------------------------------------------------------------------
(* Requests about an executable's path, and their replies.                 *)

resolve_capabilities_path(t) == t.n > 0 /\ t.kind = "path"
Paths == {T(1, "path"), T(300, "path"), Empty, Plain(3), T(3, "nul")}

encode_resolve_capabilities_request(t) ==
  When(resolve_capabilities_path(t),
       Headed(RESOLVE_CAPABILITIES_REQUEST_PREFIX_LEN, {U32(0, RESOLVE_CAPABILITIES_OPCODE)}, t))
decode_resolve_capabilities_request(f) ==
  When(/\ f.size >= RESOLVE_CAPABILITIES_REQUEST_PREFIX_LEN /\ u32(f, 0) = RESOLVE_CAPABILITIES_OPCODE
       /\ resolve_capabilities_path(Rest(f, RESOLVE_CAPABILITIES_REQUEST_PREFIX_LEN)),
       Rest(f, RESOLVE_CAPABILITIES_REQUEST_PREFIX_LEN))

ByClass == [class : {0, 2, 3, 70000}, path : Paths]
encode_resolve_execution_security_request(v) ==
  When(resolve_capabilities_path(v.path),
       Headed(12, {U32(0, RESOLVE_EXECUTION_SECURITY_OPCODE), U64(4, v.class)}, v.path))
decode_resolve_execution_security_request(f) ==
  When(f.size >= 12 /\ u32(f, 0) = RESOLVE_EXECUTION_SECURITY_OPCODE /\ resolve_capabilities_path(Rest(f, 12)),
       [class |-> u64(f, 4), path |-> Rest(f, 12)])

encode_prepare_execution_image_request(v) ==
  When(v.class \in {2, 3} /\ resolve_capabilities_path(v.path),
       Headed(16, {U32(0, PREPARE_EXECUTION_IMAGE_OPCODE), U32(4, PROTOCOL_VERSION), U64(8, v.class)}, v.path))
decode_prepare_execution_image_request(f) ==
  When(/\ f.size >= 16 /\ u32(f, 0) = PREPARE_EXECUTION_IMAGE_OPCODE /\ u32(f, 4) = PROTOCOL_VERSION
       /\ u64(f, 8) \in {2, 3} /\ resolve_capabilities_path(Rest(f, 16)),
       [class |-> u64(f, 8), path |-> Rest(f, 16)])
decode_prepare_execution_image_reply(f) == When(f.size = 8 /\ u64(f, 0) <= 4095, u64(f, 0))

encode_authorize_exec_request(t) ==
  When(resolve_capabilities_path(t), Headed(4, {U32(0, AUTHORIZE_EXEC_OPCODE)}, t))
decode_authorize_exec_request(f) ==
  When(f.size > 4 /\ u32(f, 0) = AUTHORIZE_EXEC_OPCODE /\ resolve_capabilities_path(Rest(f, 4)), Rest(f, 4))

ResolveCapabilitiesReply == [status : {0, 70000}, capabilities : Bytes(300)]
encode_resolve_capabilities_reply(v) ==
  {Headed(RESOLVE_CAPABILITIES_REPLY_STATUS_LEN, {U64(0, v.status)}, v.capabilities)}
decode_resolve_capabilities_reply(f) ==
  When(f.size >= RESOLVE_CAPABILITIES_REPLY_STATUS_LEN,
       [status |-> u64(f, 0), capabilities |-> Rest(f, RESOLVE_CAPABILITIES_REPLY_STATUS_LEN)])

ResolveExecutionSecurityReply ==
  [status : {0, 70000}, identity : {Empty, Plain(5)}, capabilities : {Empty, T(300, "names")}]
encode_resolve_execution_security_reply(v) ==
  {Frame(12 + v.identity.n + v.capabilities.n, {U64(0, v.status), U32(8, v.identity.n)},
         {<<12, v.identity>>, <<12 + v.identity.n, v.capabilities>>})}
decode_resolve_execution_security_reply(f) ==
  LET end == RESOLVE_EXECUTION_SECURITY_REPLY_HEADER_LEN + u32(f, 8) IN
  When(f.size >= RESOLVE_EXECUTION_SECURITY_REPLY_HEADER_LEN /\ end <= f.size,
       [status |-> u64(f, 0), identity |-> Text(f, 12, end - 12), capabilities |-> Rest(f, end)])

-----------------------------------------------------------------------------
(* Permission requests and decisions: records with the layout the C ABI    *)
(* gives them.  A text has its length in a field and fills the start of an *)
(* array, which is sent whole.                                             *)

CapabilityRequestLen == 784
DecisionOffset == 16

\* The arrays: where the length is, where the array is, how long it is.
Arrays ==
  [path |-> <<16, 52, MAX_EXECUTABLE_PATH_LEN>>, capability |-> <<312, 586, MAX_CAPABILITY_NAME_LEN>>,
   resource |-> <<320, 324, MAX_RESOURCE_PATH_LEN>>, reason |-> <<580, 650, MAX_REASON_LEN>>]
set_field(t, k) == When(t.n <= Arrays[k][3], [len |-> t.n, array |-> Frame(Arrays[k][3], {}, {<<0, t>>})])
field_str(x) == x.len <= x.array.size /\ Utf8(Text(x.array, 0, x.len))

OfTexts(ts, k) == UNION {set_field(t, k) : t \in ts}
CapabilityRequest ==
  LET blank == [k \in DOMAIN Arrays |-> [len |-> 0, array |-> Frame(Arrays[k][3], {}, {})]] IN
  {v @@ blank : v \in
     Vary([opcode |-> CAPABILITY_PROMPT_OPCODE, process_id |-> 9, capability_class |-> 1, kind |-> 0, interactive |-> 1,
           decision_scope |-> 0, digest |-> Digest],
          [opcode |-> {0, CAPABILITY_PERSISTENT_QUERY_OPCODE, CAPABILITY_DECISION_OPCODE}, process_id |-> {0, 70000},
           capability_class |-> {2, 3}, kind |-> {1}, interactive |-> {0}, decision_scope |-> {5}])}
  \union Vary([opcode |-> CAPABILITY_PROMPT_OPCODE, process_id |-> 9, capability_class |-> 1, kind |-> 0, interactive |-> 1,
               decision_scope |-> 0, digest |-> Digest] @@ blank,
              [k \in DOMAIN Arrays |-> OfTexts(Strings(Arrays[k][3]), k)])
CapabilityRequest_validate(v) ==
  /\ v.opcode \in {CAPABILITY_PROMPT_OPCODE, CAPABILITY_PERSISTENT_QUERY_OPCODE}
  /\ v.process_id # 0
  /\ \A k \in DOMAIN Arrays : field_str(v[k])
Fields ==
  {<<"opcode", 0, 4>>, <<"process_id", 8, 8>>, <<"capability_class", 308, 4>>, <<"kind", 316, 4>>,
   <<"interactive", 582, 1>>, <<"decision_scope", 583, 1>>}
encode_request(v) ==
  When(CapabilityRequest_validate(v),
       Frame(CapabilityRequestLen,
             Put(v, Fields)
               \union UNION {{U16(Arrays[k][1], v[k].len), Shift(v[k].array.bytes, Arrays[k][2])} : k \in DOMAIN Arrays},
             {<<20, v.digest>>} \union UNION {Shift(v[k].array.texts, Arrays[k][2]) : k \in DOMAIN Arrays}))
decode_request(f) ==
  LET v == Get(f, Fields) @@ [digest |-> Text(f, 20, 32)]
        @@ [k \in DOMAIN Arrays |-> [len |-> u16(f, Arrays[k][1]), array |-> Slice(f, Arrays[k][2], Arrays[k][3])]] IN
  When(/\ f.size = CapabilityRequestLen /\ v.capability_class \in 1..3
       /\ u16(f, 18) = 0 /\ u16(f, 322) = 0 /\ u16(f, 584) = 0 /\ CapabilityRequest_validate(v), v)

CapabilityDecisionRequest ==
  {[decision |-> d, reserved |-> r.process_id, request |-> r] : d \in 1..5, r \in CapabilityRequest}
encode_decision_request(v) ==
  {Envelope(DecisionOffset + CapabilityRequestLen,
            {U32(0, CAPABILITY_DECISION_OPCODE), U32(4, v.decision), U64(8, v.reserved)}, DecisionOffset, r) :
     r \in encode_request(v.request)}
decode_decision_request(f) ==
  IF /\ f.size = DecisionOffset + CapabilityRequestLen
     /\ u32(f, 0) = CAPABILITY_DECISION_OPCODE /\ u32(f, 4) \in 1..5
  THEN {[decision |-> u32(f, 4), reserved |-> u64(f, 8), request |-> r] :
          r \in decode_request(Slice(f, DecisionOffset, CapabilityRequestLen))}
  ELSE {}

-----------------------------------------------------------------------------
(* Images of libraries and of signed programs.                             *)

VERIFY_OPCODE == 13
encode_library(n) == When(n # 0, Frame(24, {U32(0, VERIFY_OPCODE), U32(4, 1), U64(8, n)}, {}))
decode_library(f) ==
  When(f.size = 24 /\ u32(f, 0) = VERIFY_OPCODE /\ u32(f, 4) = 1 /\ u64(f, 8) # 0 /\ Zero(f, 16, 8), u64(f, 8))
LibraryReply == {<<0, Digest>>, <<5, T(32, "zeros")>>, <<70000, T(32, "zeros")>>}
reply(v) == {Frame(40, {U64(0, v[1])}, IF v[1] = 0 THEN {<<8, v[2]>>} ELSE {})}
decode_reply(f) == When(f.size = 40 /\ (u64(f, 0) # 0 => Zero(f, 8, 32)), <<u64(f, 0), Text(f, 8, 32)>>)

AUTHORIZE_OPCODE == 14
SIGNED_VERSION == 3
PREFIX_LEN == 24
SignedImage == [source_length : {0, 9, 70000}, public_key : {<<>>, <<T(32, "key")>>}, identity : Identities]
encode_signed(v) ==
  LET key == 32 * Len(v.public_key) IN
  When(validate_executable_identity(v.identity) /\ v.source_length # 0,
       Frame(PREFIX_LEN + key + v.identity.n,
             {U32(0, AUTHORIZE_OPCODE), U32(4, SIGNED_VERSION), U64(8, v.source_length), U32(16, Len(v.public_key))},
             {<<PREFIX_LEN, v.public_key[i]>> : i \in DOMAIN v.public_key} \union {<<PREFIX_LEN + key, v.identity>>}))
decode_signed(f) ==
  LET n == u32(f, 16)
      identity == Rest(f, PREFIX_LEN + 32 * n) IN
  When(/\ f.size >= PREFIX_LEN /\ u32(f, 0) = AUTHORIZE_OPCODE /\ u32(f, 4) = SIGNED_VERSION
       /\ u64(f, 8) # 0 /\ Zero(f, 20, 4) /\ n \in {0, 1} /\ f.size >= PREFIX_LEN + 32 * n
       /\ Utf8(identity) /\ validate_executable_identity(identity),
       [source_length |-> u64(f, 8), public_key |-> [i \in 1..n |-> Text(f, PREFIX_LEN, 32)], identity |-> identity])

-----------------------------------------------------------------------------
(* Application launches: a path, arguments and environment, each ended by  *)
(* a zero byte.                                                            *)

OPCODE == 15
HEADER_BYTES == 40
MAX_BYTES == 1024
MAX_ITEMS == 64
path(t) == t.kind = "path" /\ t.n \in 1..MAX_EXECUTABLE_PATH_LEN
valid_text(t) == ~Nul(t)
environment(t) == t.kind = "variable"
Request ==
  Vary([path |-> T(5, "path"), arguments |-> <<Plain(3)>>, environment |-> <<>>, stdio |-> <<1, 2, 70000>>],
       [path |-> {T(1, "path"), T(MAX_EXECUTABLE_PATH_LEN, "path"), T(MAX_EXECUTABLE_PATH_LEN + 1, "path"), Plain(5), Empty},
        arguments |-> {<<>>, <<Empty>>, <<Plain(3), Empty, Plain(4)>>, <<T(3, "nul")>>, [i \in 1..MAX_ITEMS |-> Empty],
                       <<Plain(MAX_BYTES - 47)>>, <<Plain(MAX_BYTES - 46)>>},
        environment |-> {<<T(4, "variable")>>, <<Plain(4)>>, [i \in 1..(MAX_ITEMS - 1) |-> T(3, "variable")],
                         [i \in 1..MAX_ITEMS |-> T(3, "variable")]},
        stdio |-> {<<0, 0, 0>>}])
encode(v) ==
  LET all == <<v.path>> \o v.arguments \o v.environment
      items == [i \in 1..(2 * Len(all)) |-> IF i % 2 = 1 THEN all[(i + 1) \div 2] ELSE T(1, "zeros")]
      length == HEADER_BYTES + Sum(Sizes(items)) IN
  When(/\ path(v.path) /\ v.arguments # <<>> /\ Len(v.arguments) + Len(v.environment) <= MAX_ITEMS
       /\ \A i \in DOMAIN v.arguments : valid_text(v.arguments[i])
       /\ \A i \in DOMAIN v.environment : environment(v.environment[i])
       /\ length <= MAX_BYTES,
       Frame(length,
             {U32(0, OPCODE), U32(4, 1), U16(8, Len(v.arguments)), U16(10, Len(v.environment))}
               \union {U64(16 + 8 * (i - 1), v.stdio[i]) : i \in 1..3}, Run(HEADER_BYTES, items)))
\* The text up to the first zero byte.  A text that gains or loses a zero
\* byte makes one string more or less than the counts say, and is refused.
take_text(f, o) ==
  LET here == {t \in f.texts : t[1] = o}
      n == IF here = {} THEN 0 ELSE (CHOOSE t \in here : TRUE)[2].n
      t == Text(f, o, n) IN
  When(o + n < f.size /\ Zero(f, o + n, 1) /\ Utf8(t) /\ ~Nul(t), t)
vector(f, o, count) ==   \* count texts from o on
  Copies(count, [Reader EXCEPT !.at = o],
        LAMBDA r : IF take_text(f, r.at) = {} THEN [r EXCEPT !.ok = FALSE]
                   ELSE LET t == CHOOSE t \in take_text(f, r.at) : TRUE IN
                        [r EXCEPT !.at = @ + t.n + 1, !.got = Append(@, t)])
decode(f) ==
  LET a == u16(f, 8)
      b == u16(f, 10)
      r == vector(f, HEADER_BYTES, 1 + a + b)
      v == [path |-> r.got[1], arguments |-> SubSeq(r.got, 2, 1 + a), environment |-> SubSeq(r.got, 2 + a, 1 + a + b),
            stdio |-> [i \in 1..3 |-> u64(f, 16 + 8 * (i - 1))]] IN
  When(/\ f.size \in HEADER_BYTES..MAX_BYTES /\ u32(f, 0) = OPCODE /\ u32(f, 4) = 1 /\ Zero(f, 12, 4)
       /\ a # 0 /\ a + b <= MAX_ITEMS /\ Done(f, r)
       /\ path(v.path) /\ \A i \in DOMAIN v.environment : environment(v.environment[i]), v)

-----------------------------------------------------------------------------
(***************************************************************************)
(* Asking the user: the prompt and the feedback to it, the frontend that   *)
(* shows it, the compositor that presents it and the input authority that  *)
(* watches the keys. A "plain" text is letters, digits, '.', '_' and '-';  *)
(* of two plain texts the longer one is the greater one.                   *)
(***************************************************************************)
MAGIC == 1
VERSION == 1
FEEDBACK_BYTES == 80

Ticket_is_valid(c) == c.id # 0 /\ c.challenge.kind # "zeros"
Bound(c) == Ticket_is_valid(c) /\ c.display # 0
Correlation ==
  Vary([id |-> 9, challenge |-> Plain(32), display |-> 8],
       [id |-> {0, 70000}, challenge |-> {T(32, "zeros")}, display |-> {0, 8}])
Known == [id |-> 9, challenge |-> Plain(32), display |-> 8]
PutCorrelation(o, c) == {U64(o, c.id), U64(o + 40, c.display)}
CorrelationAt(f, o) == [id |-> u64(f, o), challenge |-> Text(f, o + 8, 32), display |-> u64(f, o + 40)]

Deny == 0
Choice == 0..3
Feedback ==
  {[correlation |-> c, kind |-> k, choice |-> Deny, gesture |-> 0] : c \in Correlation, k \in 1..3}
  \union {[correlation |-> Known, kind |-> 2, choice |-> x, gesture |-> g] : x \in Choice, g \in {0, 70000}}
encode_feedback(v) ==
  When(Bound(v.correlation) /\ (v.kind = 2 => (v.choice = Deny) = (v.gesture = 0)),
       Frame(FEEDBACK_BYTES,
             PutCorrelation(16, v.correlation)
               \union {U64(0, MAGIC), U16(8, VERSION), U16(10, v.kind), U8(64, v.choice), U64(72, v.gesture)},
             {<<24, v.correlation.challenge>>}))
decode_feedback(f) ==
  LET v == [correlation |-> CorrelationAt(f, 16), kind |-> u16(f, 10), choice |-> u8(f, 64), gesture |-> u64(f, 72)] IN
  When(/\ f.size = FEEDBACK_BYTES /\ u64(f, 0) = MAGIC /\ u16(f, 8) = VERSION /\ Zero(f, 12, 4) /\ Zero(f, 65, 7)
       /\ Bound(v.correlation) /\ v.choice \in Choice
       /\ CASE v.kind \in {1, 3} -> v.choice = Deny /\ v.gesture = 0
            [] v.kind = 2 -> (v.choice = Deny) = (v.gesture = 0)
            [] OTHER -> FALSE, v)

-----------------------------------------------------------------------------
(* The prompt, and fetching it.                                            *)

PROMPT_MAGIC == 2
FETCH_MAGIC == 3
FETCH_BYTES == 64
PROMPT_HEADER_BYTES == 112
MAX_PACKAGE_BYTES == 255
MAX_CAPABILITIES == 128
MAX_CAPABILITY_BYTES == 64
MAX_REQUIREMENTS_BYTES == 1024
MAX_MESSAGE_BYTES == PROMPT_HEADER_BYTES + MAX_PACKAGE_BYTES + MAX_REQUIREMENTS_BYTES
CHOICE_BITS == 7   \* Choices: ONCE, PROCESS and PERSISTENT

encode_fetch(c) ==
  When(Bound(c), Frame(FETCH_BYTES, PutCorrelation(16, c) \union {U64(0, FETCH_MAGIC), U16(8, VERSION)}, {<<24, c.challenge>>}))
decode_fetch(f) ==
  When(/\ f.size = FETCH_BYTES /\ u64(f, 0) = FETCH_MAGIC /\ u16(f, 8) = VERSION /\ Zero(f, 10, 6)
       /\ Bound(CorrelationAt(f, 16)), CorrelationAt(f, 16))

identifier(t, limit) == t.n \in 1..limit /\ t.kind = "plain"
\* The requirements are the sorted names, each ended by a zero byte.
Terminated(names) == [i \in 1..(2 * Len(names)) |-> IF i % 2 = 1 THEN names[(i + 1) \div 2] ELSE T(1, "zeros")]
RequirementsLen(names) == Sum(Sizes(names)) + Len(names)
Prompt ==
  Vary([correlation |-> Known, deadline |-> 70000, choices |-> 3, source_digest |-> Plain(32), package |-> Plain(7),
        requirements |-> <<Plain(3)>>],
       [correlation |-> Correlation, deadline |-> {0}, choices |-> {0, CHOICE_BITS, 8}, package |-> Strings(MAX_PACKAGE_BYTES),
        requirements |-> {<<>>, <<Plain(1), Plain(2)>>, <<Plain(2), Plain(1)>>, <<Plain(2), Plain(2)>>, <<Empty>>,
                          <<Plain(1), T(2, "control")>>, <<Plain(MAX_CAPABILITY_BYTES)>>, <<Plain(MAX_CAPABILITY_BYTES + 1)>>,
                          [i \in 1..20 |-> Plain(40 + i)]}])
Prompt_validate(v) ==
  /\ Bound(v.correlation) /\ v.deadline # 0 /\ identifier(v.package, MAX_PACKAGE_BYTES)
  /\ RequirementsLen(v.requirements) <= MAX_REQUIREMENTS_BYTES /\ Len(v.requirements) <= MAX_CAPABILITIES
  /\ \A i \in DOMAIN v.requirements :
       /\ identifier(v.requirements[i], MAX_CAPABILITY_BYTES)
       /\ \A j \in 1..(i - 1) : v.requirements[j].n < v.requirements[i].n
encode_prompt(v) ==
  LET n == RequirementsLen(v.requirements) IN
  When(Within(v.choices, CHOICE_BITS) /\ Prompt_validate(v),
       Frame(PROMPT_HEADER_BYTES + v.package.n + n,
             PutCorrelation(16, v.correlation)
               \union {U64(0, PROMPT_MAGIC), U16(8, VERSION), U8(10, v.choices), U64(64, v.deadline), U16(104, v.package.n),
                       U16(106, n), U16(108, Len(v.requirements))},
             {<<24, v.correlation.challenge>>, <<72, v.source_digest>>, <<PROMPT_HEADER_BYTES, v.package>>}
               \union Run(PROMPT_HEADER_BYTES + v.package.n, Terminated(v.requirements))))
\* The names in the last bytes of the frame: a zero byte more or less makes
\* their number differ from the count in the header.
Prompt_capabilities(f, o, count) ==
  Copies(count, [Reader EXCEPT !.at = o],
        LAMBDA r : LET here == {t \in f.texts : t[1] = r.at}
                       n == IF here = {} THEN 0 ELSE (CHOOSE t \in here : TRUE)[2].n IN
                   IF r.at + n < f.size /\ Zero(f, r.at + n, 1)
                   THEN [r EXCEPT !.at = @ + n + 1, !.got = Append(@, Text(f, r.at, n))]
                   ELSE [r EXCEPT !.ok = FALSE])
decode_prompt(f) ==
  LET package == u16(f, 104)
      n == u16(f, 106)
      count == u16(f, 108)
      r == Prompt_capabilities(f, PROMPT_HEADER_BYTES + package, count)
      v == [correlation |-> CorrelationAt(f, 16), deadline |-> u64(f, 64), choices |-> u8(f, 10),
            source_digest |-> Text(f, 72, 32), package |-> Text(f, PROMPT_HEADER_BYTES, package), requirements |-> r.got] IN
  When(/\ f.size \in PROMPT_HEADER_BYTES..MAX_MESSAGE_BYTES /\ u64(f, 0) = PROMPT_MAGIC /\ u16(f, 8) = VERSION
       /\ Zero(f, 11, 5) /\ Zero(f, 110, 2) /\ f.size = PROMPT_HEADER_BYTES + package + n
       /\ Within(v.choices, CHOICE_BITS) /\ count <= MAX_CAPABILITIES /\ Done(f, r) /\ Prompt_validate(v), v)

-----------------------------------------------------------------------------
(* The frontend: waiting for a prompt, polling, and its commands.          *)

TEXT_POLL_OPCODE == 4
TEXT_RELEASE_OPCODE == 5
WAIT_MAGIC == 6
COMMAND_MAGIC == 7
WAIT_BYTES == 16
COMMAND_BYTES == 64

encode_text_poll(release) ==
  {Frame(WAIT_BYTES, {U32(0, IF release THEN TEXT_RELEASE_OPCODE ELSE TEXT_POLL_OPCODE), U16(4, VERSION)}, {})}
decode_text_poll(f) ==
  When(/\ f.size = WAIT_BYTES /\ Zero(f, 6, 10) /\ u16(f, 4) = VERSION
       /\ u32(f, 0) \in {TEXT_POLL_OPCODE, TEXT_RELEASE_OPCODE}, u32(f, 0) = TEXT_RELEASE_OPCODE)
encode_wait(kind) == {Frame(WAIT_BYTES, {U64(0, WAIT_MAGIC), U16(8, VERSION), U16(10, kind)}, {})}
decode_wait(f) ==
  When(f.size = WAIT_BYTES /\ u64(f, 0) = WAIT_MAGIC /\ Zero(f, 12, 4) /\ u16(f, 8) = VERSION /\ u16(f, 10) \in {1, 2}, u16(f, 10))

Action == {[correlation |-> c, kind |-> k, choice |-> Deny] : c \in Correlation, k \in {1, 3}}
          \union {[correlation |-> Known, kind |-> 2, choice |-> x] : x \in Choice}
encode_action(v) ==
  When(Bound(v.correlation),
       Frame(COMMAND_BYTES, PutCorrelation(16, v.correlation)
               \union {U64(0, COMMAND_MAGIC), U16(8, VERSION), U16(10, v.kind), U8(12, v.choice)},
             {<<24, v.correlation.challenge>>}))
decode_action(f) ==
  LET v == [correlation |-> CorrelationAt(f, 16), kind |-> u16(f, 10), choice |-> u8(f, 12)] IN
  When(/\ f.size = COMMAND_BYTES /\ u64(f, 0) = COMMAND_MAGIC /\ Zero(f, 13, 3) /\ u16(f, 8) = VERSION
       /\ Bound(v.correlation) /\ v.choice \in Choice
       /\ v.kind \in 1..3 /\ (v.kind # 2 => v.choice = Deny), v)

-----------------------------------------------------------------------------
(* Presentation: the session, the commands and the receipt.                *)

SESSION_OPCODE == 8
CONTROL_OPCODE == 9
REPLY_OPCODE == 10
SESSION_BYTES == 32
PRESENTATION_BYTES == 88
RECEIPT_BYTES == 128

header(opcode, kind) == {U32(0, opcode), U16(4, VERSION), U16(6, kind)}
check(f, length, opcode) == When(f.size = length /\ u32(f, 0) = opcode /\ u16(f, 4) = VERSION, u16(f, 6))

Context_valid(c) == c.session # 0 /\ c.generation # 0
Context == [session : {0, 9}, generation : {0, 70000}, active : {0, 1}]
encode_session(c) ==
  When(Context_valid(c),
       Frame(SESSION_BYTES, header(SESSION_OPCODE, 1) \union {U64(8, c.session), U64(16, c.generation), U8(24, c.active)}, {}))
decode_session(f) ==
  LET c == Get(f, {<<"session", 8, 8>>, <<"generation", 16, 8>>, <<"active", 24, 1>>}) IN
  When(check(f, SESSION_BYTES, SESSION_OPCODE) = {1} /\ c.active <= 1 /\ Zero(f, 25, 7) /\ Context_valid(c), c)

Idle0 == [session |-> 0, generation |-> 0, active |-> 0]
Command ==
  {[op |-> 1, context |-> c, correlation |-> x, kind |-> k, selector |-> 0] : c \in Context, x \in Correlation, k \in {1, 2}}
  \union {[op |-> o, context |-> Idle0, correlation |-> x, kind |-> 0, selector |-> s] : o \in 2..4, x \in Correlation, s \in {0, 7}}
encode_command(v) ==
  When(/\ Bound(v.correlation)
       /\ IF v.op = 1 THEN Context_valid(v.context) /\ v.context.active = 1 ELSE v.selector # 0,
       Frame(PRESENTATION_BYTES,
             header(CONTROL_OPCODE, v.op) \union PutCorrelation(24, v.correlation)
               \union {U64(8, v.context.session), U64(16, v.context.generation), U64(72, v.selector), U64(80, v.kind)},
             {<<32, v.correlation.challenge>>}))
decode_command(f) ==
  UNION {LET context == [session |-> u64(f, 8), generation |-> u64(f, 16), active |-> IF op = 1 THEN 1 ELSE 0]
             v == [op |-> op, context |-> context, correlation |-> CorrelationAt(f, 24), kind |-> u64(f, 80),
                   selector |-> u64(f, 72)] IN
         When(/\ Bound(v.correlation)
              /\ CASE op = 1 -> Context_valid(context) /\ v.selector = 0 /\ v.kind \in {1, 2}
                   [] op \in 2..4 -> context = Idle0 /\ v.kind = 0 /\ v.selector # 0
                   [] OTHER -> FALSE, v) : op \in check(f, PRESENTATION_BYTES, CONTROL_OPCODE)}

Presented == 1
Failure(status) ==   \* Receipt::failure
  [status |-> status, stage |-> 0, registration |-> 0, session |-> 0, generation |-> 0, active |-> 0, focus |-> 0,
   surface |-> 0, content |-> 0, process |-> 0, revision |-> 0, digest |-> T(32, "zeros")]
Receipt ==
  {Failure(s) : s \in {0, 5, 4095, 4096}}
  \union {[Failure(5) EXCEPT !.surface = 3]}
  \union Vary([status |-> 0, stage |-> Presented, registration |-> 2, session |-> 3, generation |-> 4, active |-> 1,
               focus |-> 5, surface |-> 6, content |-> 7, process |-> 8, revision |-> 9, digest |-> Plain(32)],
              [stage |-> {0, 2}, registration |-> {0}, session |-> {0}, generation |-> {0}, active |-> {0}, focus |-> {0},
               surface |-> {0}, content |-> {0}, process |-> {0}, revision |-> {0, 70000}, digest |-> {Plain(32)}])
ReceiptFields ==
  {<<"registration", 16, 8>>, <<"session", 24, 8>>, <<"generation", 32, 8>>, <<"focus", 40, 8>>,
   <<"surface", 48, 8>>, <<"content", 56, 8>>, <<"process", 64, 8>>, <<"revision", 72, 8>>}
ReceiptOk(v) ==
  IF v.status # 0 THEN v.status <= 4095 /\ v = Failure(v.status)
  ELSE /\ v.registration # 0 /\ v.session # 0 /\ v.generation # 0 /\ v.active = 1 /\ v.process # 0
       /\ v.stage = Presented => v.focus # 0 /\ v.surface # 0 /\ v.content # 0
encode_receipt(v) ==
  When(ReceiptOk(v),
       Frame(RECEIPT_BYTES, header(REPLY_OPCODE, 1) \union {U32(8, v.status), U32(12, v.stage)} \union Put(v, ReceiptFields),
             {<<80, v.digest>>}))
decode_receipt(f) ==
  LET status == u32(f, 8)
      v == Get(f, ReceiptFields) @@ [status |-> 0, stage |-> u32(f, 12), active |-> 1, digest |-> Text(f, 80, 32)] IN
  IF check(f, RECEIPT_BYTES, REPLY_OPCODE) # {1} \/ ~Zero(f, 112, 16) THEN {}
  ELSE IF status # 0 THEN When(encode_receipt(Failure(status)) = {f}, Failure(status))
  ELSE When(v.stage \in 0..2 /\ ReceiptOk(v), v)

-----------------------------------------------------------------------------
(* The input authority: its commands, replies and events.                  *)

INPUT_OPCODE == 11
EVENT_OPCODE == 12
INPUT_REPLY_OPCODE == 13
REQUEST_BYTES == 64
REPLY_BYTES == 40
EVENT_BYTES == 80

valid(generation, c) == generation # 0 /\ Bound(c)
write_binding(generation, c) == {U64(8, generation)} \union PutCorrelation(16, c)
binding(f) ==
  LET c == CorrelationAt(f, 16) IN
  When(valid(u64(f, 8), c), [generation |-> u64(f, 8), correlation |-> c])

Nobody == [id |-> 0, challenge |-> T(32, "zeros"), display |-> 0]
InputCommand ==
  {[kind |-> 1, generation |-> 0, correlation |-> Nobody]}
  \union [kind : 2..4, generation : {0, 70000}, correlation : Correlation]
encode_input(v) ==
  When(v.kind = 1 \/ valid(v.generation, v.correlation),
       Frame(REQUEST_BYTES, header(INPUT_OPCODE, v.kind) \union write_binding(v.generation, v.correlation),
             {<<24, v.correlation.challenge>>}))
decode_input(f) ==
  UNION {IF kind = 1 THEN When(Zero(f, 8, 56), [kind |-> 1, generation |-> 0, correlation |-> Nobody])
         ELSE {[kind |-> kind, generation |-> b.generation, correlation |-> b.correlation] :
                 b \in {b \in binding(f) : kind \in 2..4}} : kind \in check(f, REQUEST_BYTES, INPUT_OPCODE)}

Reply == [status : {0, 5, 4095, 4096}, generation : {0, 6}, serial : {0, 70000}, all_released : {0, 1}]
ReplyOk(v) ==
  /\ v.status = 0 => v.generation # 0
  /\ v.status <= 4095
  /\ v.status # 0 => v.generation = 0 /\ v.serial = 0 /\ v.all_released = 0
ReplyFields == {<<"status", 8, 4>>, <<"all_released", 12, 4>>, <<"generation", 16, 8>>, <<"serial", 24, 8>>}
encode_reply(v) == When(ReplyOk(v), Frame(REPLY_BYTES, header(INPUT_REPLY_OPCODE, 1) \union Put(v, ReplyFields), {}))
decode_input_reply(f) ==
  LET v == Get(f, ReplyFields) IN
  When(check(f, REPLY_BYTES, INPUT_REPLY_OPCODE) = {1} /\ Zero(f, 32, 8) /\ v.all_released <= 1 /\ ReplyOk(v), v)

Event ==
  Vary([generation |-> 9, correlation |-> Known, serial |-> 70000, transition |-> 1, control |-> 258],
       [generation |-> {0}, correlation |-> Correlation, serial |-> {0}, transition |-> 2..5, control |-> {0, 1, 259}])
EventOk(v) == valid(v.generation, v.correlation) /\ v.serial # 0 /\ v.control \in 1..258
encode_event(v) ==
  When(EventOk(v),
       Frame(EVENT_BYTES, header(EVENT_OPCODE, v.transition) \union write_binding(v.generation, v.correlation)
               \union {U64(64, v.serial), U16(72, v.control)}, {<<24, v.correlation.challenge>>}))
decode_event(f) ==
  UNION {LET v == [generation |-> b.generation, correlation |-> b.correlation, serial |-> u64(f, 64), transition |-> t,
                   control |-> u16(f, 72)] IN
         When(t \in 1..5 /\ Zero(f, 74, 6) /\ EventOk(v), v) : t \in check(f, EVENT_BYTES, EVENT_OPCODE), b \in binding(f)}

-----------------------------------------------------------------------------
ExchangeImageAuthorizations ==
  \/ Exchange("authorize object", [digest : {Digest}, identity : Identities], encode_authorize_exec_object_request,
              decode_authorize_exec_object_request)
  \/ Exchange("authorize captured", Identities, encode_authorize_captured_image_request, decode_authorize_captured_image_request)
ExchangeResolutions ==
  \/ Exchange("resolve capabilities", Paths, encode_resolve_capabilities_request, decode_resolve_capabilities_request)
  \/ Exchange("resolve security", ByClass, encode_resolve_execution_security_request, decode_resolve_execution_security_request)
  \/ Exchange("prepare image", ByClass, encode_prepare_execution_image_request, decode_prepare_execution_image_request)
  \/ Exchange("prepared image", {0, 5, 4095}, LAMBDA n : {Frame(8, {U64(0, n)}, {})}, decode_prepare_execution_image_reply)
  \/ Exchange("authorize exec", Paths, encode_authorize_exec_request, decode_authorize_exec_request)
  \/ Exchange("capabilities", ResolveCapabilitiesReply, encode_resolve_capabilities_reply, decode_resolve_capabilities_reply)
ExchangeSecurityContexts ==
  Exchange("security", ResolveExecutionSecurityReply, encode_resolve_execution_security_reply,
           decode_resolve_execution_security_reply)
ExchangeCapabilityRequests ==
  \/ Exchange("capability request", CapabilityRequest, encode_request, decode_request)
  \/ Exchange("capability decision", CapabilityDecisionRequest, encode_decision_request, decode_decision_request)
ExchangeLibraryImages ==
  \/ Exchange("library image", {0, 1, 70000}, encode_library, decode_library)
  \/ Exchange("library digest", LibraryReply, reply, decode_reply)
ExchangeSignedImages ==
  Exchange("signed image", SignedImage, encode_signed, decode_signed)
ExchangeApplicationLaunches ==
  Exchange("application launch", Request, encode, decode)
ExchangeConsentFeedback ==
  Exchange("consent feedback", Feedback, encode_feedback, decode_feedback)
ExchangeConsentFetches ==
  Exchange("consent fetch", Correlation, encode_fetch, decode_fetch)
ExchangeConsentPrompts ==
  Exchange("consent prompt", Prompt, encode_prompt, decode_prompt)
ExchangeConsentWaits ==
  \/ Exchange("consent poll", BOOLEAN, encode_text_poll, decode_text_poll)
  \/ Exchange("consent wait", {1, 2}, encode_wait, decode_wait)
  \/ Exchange("consent action", Action, encode_action, decode_action)
ExchangePresentationCommands ==
  \/ Exchange("session context", Context, encode_session, decode_session)
  \/ Exchange("presentation command", Command, encode_command, decode_command)
ExchangePresentationReceipts ==
  Exchange("presentation receipt", Receipt, encode_receipt, decode_receipt)
ExchangeInputAuthority ==
  \/ Exchange("input command", InputCommand, encode_input, decode_input)
  \/ Exchange("input reply", Reply, encode_reply, decode_input_reply)
  \/ Exchange("input event", Event, encode_event, decode_event)

Next ==
  \/ ExchangeImageAuthorizations \/ ExchangeResolutions \/ ExchangeSecurityContexts
  \/ ExchangeCapabilityRequests \/ ExchangeLibraryImages \/ ExchangeSignedImages
  \/ ExchangeApplicationLaunches \/ ExchangeConsentFeedback
  \/ ExchangeConsentFetches \/ ExchangeConsentPrompts \/ ExchangeConsentWaits
  \/ ExchangePresentationCommands \/ ExchangePresentationReceipts
  \/ ExchangeInputAuthority
=============================================================================
