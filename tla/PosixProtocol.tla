--------------------------- MODULE PosixProtocol ---------------------------
(***************************************************************************)
(* The messages between a program and the POSIX service: the header, and   *)
(* the payloads about processes, credentials, limits and terminals.        *)
(* Numbers that mean "all bits set" in the code are -1 here.               *)
(***************************************************************************)
EXTENDS Wire

MAGIC == 5
VERSION == 1
HEADER_LEN == 32
MAX_MESSAGE_LEN == 64 * 1024

Fixed(size, v, fields) == Frame(size, Put(v, fields), {})

-----------------------------------------------------------------------------
(* Requests.                                                               *)

\* The numbers the operations are given.
Opcodes ==
  (1..15) \union (18..27) \union (29..35) \union (37..71) \union (73..83)
    \union (85..89) \union (91..135)
OP_GROUP_LOOKUP == 144
OP_TERMINAL_PROCESS_FOREGROUND == 145
OP_PROCESS_HAS_TERMINAL == 146
OP_STATUS == 32768
Assigned ==
  Opcodes \union (136..143) \union {OP_GROUP_LOOKUP, OP_TERMINAL_PROCESS_FOREGROUND, OP_PROCESS_HAS_TERMINAL}

is_request_opcode(op) ==
  \/ op \in 1..15 \/ op \in 18..27 \/ op \in 29..35 \/ op \in 37..71
  \/ op \in 73..83 \/ op \in 85..89 \/ op \in 91..143
  \/ op \in {OP_GROUP_LOOKUP, OP_TERMINAL_PROCESS_FOREGROUND, OP_PROCESS_HAS_TERMINAL}

Header ==
  Vary([opcode |-> 1, request_id |-> 2, flags |-> 3, status |-> 0, payload |-> Plain(4)],
       [opcode |-> Assigned \union {OP_STATUS}, request_id |-> {0, 70000},
        flags |-> {0, 16777216}, status |-> {0, -5, -38, -65537},
        payload |-> {Empty, Plain(1), Plain(MAX_MESSAGE_LEN - HEADER_LEN), Plain(MAX_MESSAGE_LEN - HEADER_LEN + 1)}])

encode(v) ==
  When(v.payload.n <= MAX_MESSAGE_LEN - HEADER_LEN,
       Frame(HEADER_LEN + v.payload.n,
             {LE(0, 4, MAGIC), U16(4, VERSION), U16(6, v.opcode), U64(8, v.request_id),
              U32(16, v.flags), U32(20, v.payload.n), U32(24, v.status)},
             {<<HEADER_LEN, v.payload>>}))

decode(f) ==
  LET n == u32(f, 20) IN
  When(/\ f.size >= HEADER_LEN /\ Num(f, 0, 4) = MAGIC /\ u16(f, 4) = VERSION
       /\ HEADER_LEN + n <= f.size /\ HEADER_LEN + n <= MAX_MESSAGE_LEN,
       [opcode |-> u16(f, 6), request_id |-> u64(f, 8), flags |-> u32(f, 16),
        status |-> i32(f, 24), payload |-> Text(f, HEADER_LEN, n)])

\* The service answers a message whose opcode it does not know with an
\* error, and a reply is a message with the status opcode.
Sent(v) == When(v.opcode \in Assigned \union {OP_STATUS}, v)
EncodeMessage(v) == UNION {encode(w) : w \in Sent(v)}
DecodeMessage(f) == {v \in decode(f) : is_request_opcode(v.opcode) \/ v.opcode = OP_STATUS}

-----------------------------------------------------------------------------
(* Descriptors a new program inherits.                                     *)

FD_METADATA_TAG == 20550
FD_HANDLE_KEY_PREFIX == 1
FD_METADATA_KEY_PREFIX == 2

valid_inherited_fd_kind(kind) == kind \in {1, 2, 3} \union (5..16)
inherited_fd_kind_requires_handle(kind) ==
  When(valid_inherited_fd_kind(kind), kind \in 5..16)

InheritedFdMetadata ==
  Vary([kind |-> 5, open_flags |-> 2, descriptor_flags |-> 1],
       [kind |-> 0..17, open_flags |-> {0, 1025}, descriptor_flags |-> 0..2])

encode_inherited_fd_metadata(v) ==
  When(valid_inherited_fd_kind(v.kind) /\ Within(v.descriptor_flags, 1),
       Frame(8, Put(v, {<<"open_flags", 0, 4>>, <<"descriptor_flags", 4, 1>>, <<"kind", 5, 1>>})
                  \union {U16(6, FD_METADATA_TAG)}, {}))

decode_inherited_fd_metadata(f) ==
  LET v == Get(f, {<<"kind", 5, 1>>, <<"open_flags", 0, 4>>, <<"descriptor_flags", 4, 1>>}) IN
  When(/\ f.size = 8 /\ u16(f, 6) = FD_METADATA_TAG
       /\ valid_inherited_fd_kind(v.kind) /\ Within(v.descriptor_flags, 1), v)

\* A key is a prefix in the high half and the descriptor in the low half.
FdKeys == [prefix : {FD_HANDLE_KEY_PREFIX, FD_METADATA_KEY_PREFIX}, fd : {-1, 0, 7, 1023}]
fd_handle_key(fd) == When(fd >= 0, Frame(8, {U32(0, fd), U32(4, FD_HANDLE_KEY_PREFIX)}, {}))
fd_metadata_key(fd) == When(fd >= 0, Frame(8, {U32(0, fd), U32(4, FD_METADATA_KEY_PREFIX)}, {}))
EncodeKey(v) ==
  IF v.prefix = FD_HANDLE_KEY_PREFIX THEN fd_handle_key(v.fd) ELSE fd_metadata_key(v.fd)
inherited_fd_from_key(f) ==
  When(/\ f.size = 8 /\ u32(f, 4) \in {FD_HANDLE_KEY_PREFIX, FD_METADATA_KEY_PREFIX}
       /\ i32(f, 0) >= 0,
       [prefix |-> u32(f, 4), fd |-> i32(f, 0)])

-----------------------------------------------------------------------------
(* Sessions and credentials.                                               *)

SESSION_INFO_LEN == 20
UMASK_PAYLOAD_LEN == 4
CREDENTIAL_ID_PAYLOAD_LEN == 4
CREDENTIAL_PAIR_PAYLOAD_LEN == 8
CREDENTIAL_ID_UNCHANGED == -1
MAX_SUPPLEMENTARY_GROUPS == 32
GROUP_LIST_HEADER_LEN == 4

SessionInfo == {[real_uid |-> 1, effective_uid |-> 2, real_gid |-> 3, effective_gid |-> 4, umask |-> 18]}

encode_session_info(v) ==
  {Fixed(SESSION_INFO_LEN, v,
         {<<"real_uid", 0, 4>>, <<"effective_uid", 4, 4>>, <<"real_gid", 8, 4>>,
          <<"effective_gid", 12, 4>>, <<"umask", 16, 4>>})}

decode_session_info(f) ==
  When(f.size = SESSION_INFO_LEN,
       Get(f, {<<"real_uid", 0, 4>>, <<"effective_uid", 4, 4>>, <<"real_gid", 8, 4>>,
               <<"effective_gid", 12, 4>>, <<"umask", 16, 4>>}))

encode_umask(v) == {Frame(UMASK_PAYLOAD_LEN, {U32(0, v)}, {})}
decode_umask(f) == When(f.size = UMASK_PAYLOAD_LEN, u32(f, 0))

encode_credential_id(v) == {Frame(CREDENTIAL_ID_PAYLOAD_LEN, {U32(0, v)}, {})}
decode_credential_id(f) == When(f.size = CREDENTIAL_ID_PAYLOAD_LEN, i32(f, 0))

encode_credential_pair(v) == {Frame(CREDENTIAL_PAIR_PAYLOAD_LEN, {U32(0, v[1]), U32(4, v[2])}, {})}
decode_credential_pair(f) == When(f.size = CREDENTIAL_PAIR_PAYLOAD_LEN, <<i32(f, 0), i32(f, 4)>>)

Groups == {<<>>, <<0>>, <<7, 300>>} \union {[i \in 1..n |-> i] : n \in {MAX_SUPPLEMENTARY_GROUPS, MAX_SUPPLEMENTARY_GROUPS + 1}}

encode_group_list(groups) ==
  When(Len(groups) <= MAX_SUPPLEMENTARY_GROUPS,
       Frame(GROUP_LIST_HEADER_LEN + 4 * Len(groups),
             {U32(0, Len(groups))} \union {U32(GROUP_LIST_HEADER_LEN + 4 * (i - 1), groups[i]) : i \in DOMAIN groups},
             {}))

decode_group_list(f) ==
  LET count == u32(f, 0) IN
  When(/\ f.size >= GROUP_LIST_HEADER_LEN /\ count <= MAX_SUPPLEMENTARY_GROUPS
       /\ f.size = GROUP_LIST_HEADER_LEN + 4 * count,
       [i \in 1..count |-> u32(f, GROUP_LIST_HEADER_LEN + 4 * (i - 1))])

SpawnCredentials ==
  Vary([uid |-> 1, gid |-> 2, groups |-> <<5>>], [uid |-> {0, -1}, gid |-> {0, -1}, groups |-> Groups])

encode_spawn_credentials(v) ==
  {Envelope(8 + g.size, {U32(0, v.uid), U32(4, v.gid)}, 8, g) :
     g \in IF v.uid = -1 \/ v.gid = -1 THEN {} ELSE encode_group_list(v.groups)}

decode_spawn_credentials(f) ==
  {[uid |-> i32(f, 0), gid |-> i32(f, 4), groups |-> g] :
     g \in IF f.size < 8 \/ i32(f, 0) = -1 \/ i32(f, 4) = -1 THEN {}
           ELSE decode_group_list(Slice(f, 8, f.size - 8))}

-----------------------------------------------------------------------------
(* Waiting for children, and processes.                                    *)

WAIT_REQUEST_LEN == 16
WAIT_GUARDED_REQUEST_LEN == 24
WAIT_RESULT_LEN == 16
WAIT_INFO_LEN == 24
WAITED_CHILD_CPU_USAGE_LEN == 40
PROCESS_ID_REQUEST_LEN == 8
PROCESS_GROUP_REQUEST_LEN == 16
PROCESS_INFO_LEN == 32

WAIT_EVENT_KINDS == {4, 2, 8}
WAIT_SELECT_EVENTS == 32
WAIT_OPTIONS_ALL == 1 + 4 + 2 + 8 + 16 + 32 + 64
wait_options_valid(options) ==
  /\ Within(options, WAIT_OPTIONS_ALL)
  /\ HasBit(options, WAIT_SELECT_EVENTS) => \E k \in WAIT_EVENT_KINDS : HasBit(options, k)

WaitRequest == [selector : {1, 900}, options : {0, 1, 127}]
encode_wait_request(v) ==
  {Fixed(WAIT_REQUEST_LEN, v, {<<"selector", 0, 8>>, <<"options", 8, 4>>})}
decode_wait_request(f) ==
  When(f.size = WAIT_REQUEST_LEN /\ u32(f, 12) = 0, Get(f, {<<"selector", 0, 8>>, <<"options", 8, 4>>}))

encode_guarded_wait_request(v) ==
  {Envelope(WAIT_GUARDED_REQUEST_LEN, {U64(WAIT_REQUEST_LEN, v.epoch)}, 0, r) : r \in encode_wait_request(v.request)}
decode_guarded_wait_request(f) ==
  {[request |-> r, epoch |-> u64(f, WAIT_REQUEST_LEN)] :
     r \in IF f.size # WAIT_GUARDED_REQUEST_LEN THEN {} ELSE decode_wait_request(Slice(f, 0, WAIT_REQUEST_LEN))}

WaitResult == [process_id : {0, 12}, status : {0, 256, 65535}]
encode_wait_result(v) ==
  {Fixed(WAIT_RESULT_LEN, v, {<<"process_id", 0, 8>>, <<"status", 8, 4>>})}
decode_wait_result(f) ==
  When(f.size = WAIT_RESULT_LEN /\ u32(f, 12) = 0, Get(f, {<<"process_id", 0, 8>>, <<"status", 8, 4>>}))

WaitInfo == [result : WaitResult, real_uid : {0, 5}]
encode_wait_info(v) ==
  {Envelope(WAIT_INFO_LEN, {U32(WAIT_RESULT_LEN, v.real_uid)}, 0, r) : r \in encode_wait_result(v.result)}
decode_wait_info(f) ==
  {[result |-> r, real_uid |-> u32(f, WAIT_RESULT_LEN)] :
     r \in IF f.size # WAIT_INFO_LEN \/ u32(f, 20) # 0 THEN {}
           ELSE decode_wait_result(Slice(f, 0, WAIT_RESULT_LEN))}

\* Processor time of waited children, and their largest memory use.
WaitedChildCpuUsage == [user_ticks : {0, 4}, kernel_ticks : {0, 5}, ticks_per_second : {0, 100}]
RateKnown(v) == v.ticks_per_second = 0 => v.user_ticks = 0 /\ v.kernel_ticks = 0
encode_waited_child_cpu_usage(v) ==
  When(RateKnown(v),
       Fixed(WAITED_CHILD_CPU_USAGE_LEN, v,
             {<<"user_ticks", 0, 16>>, <<"kernel_ticks", 16, 16>>, <<"ticks_per_second", 32, 8>>}))
decode_waited_child_cpu_usage(f) ==
  {v \in {Get(f, {<<"user_ticks", 0, 16>>, <<"kernel_ticks", 16, 16>>, <<"ticks_per_second", 32, 8>>})} :
     f.size = WAITED_CHILD_CPU_USAGE_LEN /\ RateKnown(v)}

USAGE_LEN == WAITED_CHILD_CPU_USAGE_LEN + 8
OBSERVATION_LEN == WAIT_INFO_LEN + USAGE_LEN
Usage == [cpu : {u \in WaitedChildCpuUsage : RateKnown(u)}, peak_resident_bytes : {0, 4096}]
NoUsage == [cpu |-> [user_ticks |-> 0, kernel_ticks |-> 0, ticks_per_second |-> 0], peak_resident_bytes |-> 0]
encode_usage(v) ==
  {Envelope(USAGE_LEN, {U64(WAITED_CHILD_CPU_USAGE_LEN, v.peak_resident_bytes)}, 0, c) :
     c \in IF v.cpu.ticks_per_second = 0 /\ v.peak_resident_bytes # 0 THEN {}
           ELSE encode_waited_child_cpu_usage(v.cpu)}
decode_usage(f) ==
  LET peak == u64(f, WAITED_CHILD_CPU_USAGE_LEN) IN
  {[cpu |-> c, peak_resident_bytes |-> peak] :
     c \in IF f.size # USAGE_LEN THEN {}
           ELSE {c \in decode_waited_child_cpu_usage(Slice(f, 0, WAITED_CHILD_CPU_USAGE_LEN)) :
                   c.ticks_per_second = 0 => peak = 0}}

Observation == [info : WaitInfo, usage : Usage]
validate_observation(v) ==
  IF v.info.result.process_id = 0
  THEN v.info = [result |-> [process_id |-> 0, status |-> 0], real_uid |-> 0] /\ v.usage = NoUsage
  ELSE v.usage.cpu.ticks_per_second # 0
encode_observation(v) ==
  {Envelope(OBSERVATION_LEN, {Shift(u.bytes, WAIT_INFO_LEN)}, 0, i) :
     i \in IF validate_observation(v) THEN encode_wait_info(v.info) ELSE {}, u \in encode_usage(v.usage)}
decode_observation(f) ==
  {v \in {[info |-> i, usage |-> u] :
            i \in IF f.size = OBSERVATION_LEN THEN decode_wait_info(Slice(f, 0, WAIT_INFO_LEN)) ELSE {},
            u \in decode_usage(Slice(f, WAIT_INFO_LEN, USAGE_LEN))} :
     validate_observation(v)}

encode_process_id_request(v) == {Frame(PROCESS_ID_REQUEST_LEN, {U64(0, v)}, {})}
decode_process_id_request(f) == When(f.size = PROCESS_ID_REQUEST_LEN, u64(f, 0))

encode_process_group_request(v) == {Frame(PROCESS_GROUP_REQUEST_LEN, {U64(0, v[1]), U64(8, v[2])}, {})}
decode_process_group_request(f) == When(f.size = PROCESS_GROUP_REQUEST_LEN, <<u64(f, 0), u64(f, 8)>>)

ProcessInfo == {[process_id |-> 4, parent_id |-> 3, process_group_id |-> 2, session_id |-> 1]}
encode_process_info(v) ==
  {Fixed(PROCESS_INFO_LEN, v, {<<"process_id", 0, 8>>, <<"parent_id", 8, 8>>,
                               <<"process_group_id", 16, 8>>, <<"session_id", 24, 8>>})}
decode_process_info(f) ==
  When(f.size = PROCESS_INFO_LEN,
       Get(f, {<<"process_id", 0, 8>>, <<"parent_id", 8, 8>>,
               <<"process_group_id", 16, 8>>, <<"session_id", 24, 8>>}))

-----------------------------------------------------------------------------
(* Limits, clocks and identity.                                            *)

RESOURCE_LIMIT_REQUEST_LEN == 32
RESOURCE_LIMIT_LEN == 16
RESOURCE_LIMIT_FLAGS_ALL == 1

ResourceLimit == [soft : {0, 9}, hard : {9, 70000}]
encode_resource_limit(v) == {Fixed(RESOURCE_LIMIT_LEN, v, {<<"soft", 0, 8>>, <<"hard", 8, 8>>})}
decode_resource_limit(f) ==
  When(f.size = RESOURCE_LIMIT_LEN, Get(f, {<<"soft", 0, 8>>, <<"hard", 8, 8>>}))

ResourceLimitRequest == [process_id : {0, 3}, resource : {7}, flags : 0..2, soft : {5}, hard : {6}]
encode_resource_limit_request(v) ==
  When(Within(v.flags, RESOURCE_LIMIT_FLAGS_ALL),
       Fixed(RESOURCE_LIMIT_REQUEST_LEN, v,
             {<<"process_id", 0, 8>>, <<"resource", 8, 4>>, <<"flags", 12, 4>>,
              <<"soft", 16, 8>>, <<"hard", 24, 8>>}))
decode_resource_limit_request(f) ==
  {v \in {Get(f, {<<"process_id", 0, 8>>, <<"resource", 8, 4>>, <<"flags", 12, 4>>,
                  <<"soft", 16, 8>>, <<"hard", 24, 8>>})} :
     f.size = RESOURCE_LIMIT_REQUEST_LEN /\ Within(v.flags, RESOURCE_LIMIT_FLAGS_ALL)}

\* Five names, each with its length before it.
SystemIdentity ==
  {[ts EXCEPT ![i] = t] : ts \in {<<Plain(4), Plain(5), Plain(6), Plain(7), Plain(8)>>},
                          i \in 1..5, t \in Strings(255)}
FieldAt(o, ts, i) == o + Sum(SubSeq(Sizes(ts), 1, i - 1)) + 2 * (i - 1)
encode_identity(ts) ==
  When(\A i \in DOMAIN ts : ts[i].n < 256 /\ ~Nul(ts[i]),
       Frame(FieldAt(0, ts, Len(ts) + 1),
             {U16(FieldAt(0, ts, i), ts[i].n) : i \in DOMAIN ts},
             {<<FieldAt(0, ts, i) + 2, ts[i]>> : i \in DOMAIN ts}))
decode_identity(f) ==
  LET at[i \in 1..6] == IF i = 1 THEN 0 ELSE at[i - 1] + 2 + u16(f, at[i - 1])
      ts == [i \in 1..5 |-> Text(f, at[i] + 2, u16(f, at[i]))] IN
  IF \A i \in 1..5 : at[i] + 2 <= f.size /\ u16(f, at[i]) < 256 /\ at[i] + 2 + u16(f, at[i]) <= f.size
  THEN When(at[6] = f.size /\ \A i \in 1..5 : ~Nul(ts[i]), ts)
  ELSE {}

-----------------------------------------------------------------------------
(* Terminals.                                                              *)

TERMINAL_READ_SETTINGS_LEN == 4
TERMINAL_FLOW_LEN == 4
TERMINAL_FLOW_INPUT_START == 3
TERMINAL_WINDOW_SIZE_LEN == 8
TERMINAL_FLUSH_LEN == 4
TERMINAL_FLUSH_ALL == 3
TERMINAL_CONTROL_CHARACTERS == 32
TERMINAL_ATTRIBUTES_LEN == 56

TerminalReadSettings == [noncanonical : {0, 1}, minimum : {0, 2}, deciseconds : {0, 255}]
encode_terminal_read_settings(v) ==
  When(v.noncanonical = 0 => v.minimum = 0 /\ v.deciseconds = 0,
       Frame(TERMINAL_READ_SETTINGS_LEN,
             {U8(0, 1), U8(1, v.noncanonical), U8(2, v.minimum), U8(3, v.deciseconds)}, {}))
decode_terminal_read_settings(f) ==
  When(/\ f.size = TERMINAL_READ_SETTINGS_LEN /\ u8(f, 0) = 1 /\ u8(f, 1) <= 1
       /\ u8(f, 1) = 0 => u8(f, 2) = 0 /\ u8(f, 3) = 0,
       [noncanonical |-> u8(f, 1), minimum |-> u8(f, 2), deciseconds |-> u8(f, 3)])

TerminalWindowSize == {[rows |-> 24, columns |-> 80, pixel_width |-> 640, pixel_height |-> 480]}
encode_terminal_window_size(v) ==
  {Frame(TERMINAL_WINDOW_SIZE_LEN,
         LET fields == <<v.rows, v.columns, v.pixel_width, v.pixel_height>> IN
         {U16(2 * (i - 1), fields[i]) : i \in 1..4}, {})}
decode_terminal_window_size(f) ==
  When(f.size = TERMINAL_WINDOW_SIZE_LEN,
       [rows |-> u16(f, 0), columns |-> u16(f, 2), pixel_width |-> u16(f, 4), pixel_height |-> u16(f, 6)])

encode_terminal_flow(v) ==
  When(v <= TERMINAL_FLOW_INPUT_START, Frame(TERMINAL_FLOW_LEN, {U32(0, v)}, {}))
decode_terminal_flow(f) ==
  When(f.size = TERMINAL_FLOW_LEN /\ u32(f, 0) <= TERMINAL_FLOW_INPUT_START, u32(f, 0))

encode_terminal_flush(v) ==
  When(v # 0 /\ Within(v, TERMINAL_FLUSH_ALL), Frame(TERMINAL_FLUSH_LEN, {U32(0, v)}, {}))
decode_terminal_flush(f) ==
  When(f.size = TERMINAL_FLUSH_LEN /\ u32(f, 0) # 0 /\ Within(u32(f, 0), TERMINAL_FLUSH_ALL), u32(f, 0))

\* The attributes a terminal starts with: <<index, character>>.
TerminalAttributes_sane ==
  [input_flags |-> 256, output_flags |-> 5, control_flags |-> 48 + 128, local_flags |-> 1 + 2 + 8 + 16 + 32,
   input_speed |-> 38400, output_speed |-> 38400,
   control_characters |->
     {<<0, 3>>, <<1, 28>>, <<2, 127>>, <<3, 21>>, <<4, 4>>, <<6, 1>>, <<8, 17>>, <<9, 19>>,
      <<10, 26>>, <<12, 18>>, <<13, 15>>, <<14, 23>>, <<15, 22>>}]
encode_terminal_attributes(v) ==
  {Frame(TERMINAL_ATTRIBUTES_LEN,
         Put(v, {<<"input_flags", 0, 4>>, <<"output_flags", 4, 4>>, <<"control_flags", 8, 4>>,
                 <<"local_flags", 12, 4>>, <<"input_speed", 48, 4>>, <<"output_speed", 52, 4>>})
           \union {U8(16 + c[1], c[2]) : c \in v.control_characters}, {})}
decode_terminal_attributes(f) ==
  When(f.size = TERMINAL_ATTRIBUTES_LEN,
       Get(f, {<<"input_flags", 0, 4>>, <<"output_flags", 4, 4>>, <<"control_flags", 8, 4>>,
               <<"local_flags", 12, 4>>, <<"input_speed", 48, 4>>, <<"output_speed", 52, 4>>})
         @@ [control_characters |->
               Slice(f, 16, TERMINAL_CONTROL_CHARACTERS).bytes])

\* How much input a terminal takes.  The encoder leaves the check to the
\* terminal that made the limits.
LIMITS_LEN == 12
Limits == [canonical_bytes : {1, 4096}, input_bytes : {4096}, disabled_character : {0, 255}]
encode_limits(v) ==
  {Fixed(LIMITS_LEN, v, {<<"canonical_bytes", 0, 4>>, <<"input_bytes", 4, 4>>, <<"disabled_character", 8, 1>>})}
decode_limits(f) ==
  {v \in {Get(f, {<<"canonical_bytes", 0, 4>>, <<"input_bytes", 4, 4>>, <<"disabled_character", 8, 1>>})} :
     f.size = LIMITS_LEN /\ Zero(f, 9, 3) /\ v.canonical_bytes # 0 /\ v.canonical_bytes <= v.input_bytes}

-----------------------------------------------------------------------------
(***************************************************************************)
(* The payloads of the POSIX service about files: paths under a base       *)
(* directory, file status, times, ownership, and the names of shared       *)
(* memory objects and semaphores.                                          *)
(***************************************************************************)
MAX_PATH_LEN == 4096
OPEN_AT_HEADER_LEN == 16
STAT_AT_HEADER_LEN == 12
ACCESS_AT_HEADER_LEN == 16
RENAME_AT_HEADER_LEN == 16
LINK_AT_HEADER_LEN == 16
TRUNCATE_AT_HEADER_LEN == 16
SYMLINK_AT_HEADER_LEN == 16
CHOWN_AT_HEADER_LEN == 20
OPEN_OPTIONS_ALL == 2047
STAT_FLAGS_ALL == 1
CHOWN_FLAGS_ALL == 1
LINK_FLAGS_ALL == 1
ACCESS_FLAGS_ALL == 3
ACCESS_MODES_ALL == 7
MUTABLE_STATUS_FLAGS == 32 + 64
FILE_LENGTH_PAYLOAD_LEN == 8
FILE_FLAGS_PAYLOAD_LEN == 4
FILE_FLAGS_UPDATE_PAYLOAD_LEN == 8
FILE_OWNER_PAYLOAD_LEN == 8
FILE_STATUS_LEN == 112

PathOk(t) == t.n \in 1..MAX_PATH_LEN /\ ~Nul(t)
OpenBase == 0..2
OpenBase_from_raw(raw) == raw \in OpenBase

-----------------------------------------------------------------------------
(* One path.                                                               *)

OpenAtRequest ==
  Vary([base |-> 1, options |-> 1, mode |-> 420, path |-> Plain(5)],
       [base |-> OpenBase, options |-> {0, 2047, 2048}, mode |-> {0, 511}, path |-> Bytes(MAX_PATH_LEN)])
encode_open_at(v) ==
  When(PathOk(v.path) /\ Within(v.options, OPEN_OPTIONS_ALL),
       Frame(OPEN_AT_HEADER_LEN + v.path.n,
             {U8(0, v.base), U32(4, v.options), U32(8, v.mode), U32(12, v.path.n)},
             {<<OPEN_AT_HEADER_LEN, v.path>>}))
decode_open_at(f) ==
  LET n == u32(f, 12)
      path == Text(f, OPEN_AT_HEADER_LEN, n) IN
  When(/\ f.size >= OPEN_AT_HEADER_LEN /\ Zero(f, 1, 3) /\ OpenBase_from_raw(u8(f, 0))
       /\ Within(u32(f, 4), OPEN_OPTIONS_ALL)
       /\ n \in 1..MAX_PATH_LEN /\ f.size = OPEN_AT_HEADER_LEN + n /\ ~Nul(path),
       [base |-> u8(f, 0), options |-> u32(f, 4), mode |-> u32(f, 8), path |-> path])

StatAtRequest ==
  Vary([base |-> 0, flags |-> 1, path |-> Plain(5)],
       [base |-> OpenBase, flags |-> 0..2, path |-> Bytes(MAX_PATH_LEN)])
encode_stat_at(v) ==
  When(PathOk(v.path) /\ Within(v.flags, STAT_FLAGS_ALL),
       Frame(STAT_AT_HEADER_LEN + v.path.n, {U8(0, v.base), U32(4, v.flags), U32(8, v.path.n)},
             {<<STAT_AT_HEADER_LEN, v.path>>}))
decode_stat_at(f) ==
  LET n == u32(f, 8)
      path == Text(f, STAT_AT_HEADER_LEN, n) IN
  When(/\ f.size >= STAT_AT_HEADER_LEN /\ Zero(f, 1, 3) /\ OpenBase_from_raw(u8(f, 0))
       /\ Within(u32(f, 4), STAT_FLAGS_ALL)
       /\ n \in 1..MAX_PATH_LEN /\ f.size = STAT_AT_HEADER_LEN + n /\ ~Nul(path),
       [base |-> u8(f, 0), flags |-> u32(f, 4), path |-> path])

TruncateAtRequest ==
  Vary([base |-> 2, length |-> 70000, path |-> Plain(5)],
       [base |-> OpenBase, length |-> {0, 1}, path |-> Bytes(MAX_PATH_LEN)])
encode_truncate_at(v) ==
  When(PathOk(v.path),
       Frame(TRUNCATE_AT_HEADER_LEN + v.path.n, {U8(0, v.base), U64(4, v.length), U32(12, v.path.n)},
             {<<TRUNCATE_AT_HEADER_LEN, v.path>>}))
decode_truncate_at(f) ==
  LET n == u32(f, 12)
      path == Text(f, TRUNCATE_AT_HEADER_LEN, n) IN
  When(/\ f.size >= TRUNCATE_AT_HEADER_LEN /\ Zero(f, 1, 3) /\ OpenBase_from_raw(u8(f, 0))
       /\ n \in 1..MAX_PATH_LEN /\ f.size = TRUNCATE_AT_HEADER_LEN + n /\ ~Nul(path),
       [base |-> u8(f, 0), length |-> u64(f, 4), path |-> path])

ChownAtRequest ==
  Vary([base |-> 1, flags |-> 1, uid |-> 2, gid |-> 3, path |-> Plain(5)],
       [base |-> OpenBase, flags |-> 0..2, uid |-> {0, 70000}, path |-> Bytes(MAX_PATH_LEN)])
encode_chown_at(v) ==
  When(PathOk(v.path) /\ Within(v.flags, CHOWN_FLAGS_ALL),
       Frame(CHOWN_AT_HEADER_LEN + v.path.n,
             {U8(0, v.base), U32(4, v.flags), U32(8, v.uid), U32(12, v.gid), U32(16, v.path.n)},
             {<<CHOWN_AT_HEADER_LEN, v.path>>}))
decode_chown_at(f) ==
  LET n == u32(f, 16)
      path == Text(f, CHOWN_AT_HEADER_LEN, n) IN
  When(/\ f.size >= CHOWN_AT_HEADER_LEN /\ Zero(f, 1, 3) /\ OpenBase_from_raw(u8(f, 0))
       /\ Within(u32(f, 4), CHOWN_FLAGS_ALL)
       /\ n \in 1..MAX_PATH_LEN /\ f.size = CHOWN_AT_HEADER_LEN + n /\ ~Nul(path),
       [base |-> u8(f, 0), flags |-> u32(f, 4), uid |-> u32(f, 8), gid |-> u32(f, 12), path |-> path])

AccessAtRequest ==
  Vary([base |-> 1, flags |-> 1, modes |-> 4, path |-> Plain(5)],
       [base |-> OpenBase, flags |-> 0..4, modes |-> 0..8, path |-> Bytes(MAX_PATH_LEN)])
encode_access_at(v) ==
  When(PathOk(v.path) /\ Within(v.flags, ACCESS_FLAGS_ALL) /\ Within(v.modes, ACCESS_MODES_ALL),
       Frame(ACCESS_AT_HEADER_LEN + v.path.n,
             {U8(0, v.base), U32(4, v.flags), U32(8, v.modes), U32(12, v.path.n)},
             {<<ACCESS_AT_HEADER_LEN, v.path>>}))
decode_access_at(f) ==
  LET n == u32(f, 12)
      path == Text(f, ACCESS_AT_HEADER_LEN, n) IN
  When(/\ f.size >= ACCESS_AT_HEADER_LEN /\ Zero(f, 1, 3) /\ OpenBase_from_raw(u8(f, 0))
       /\ Within(u32(f, 4), ACCESS_FLAGS_ALL) /\ Within(u32(f, 8), ACCESS_MODES_ALL)
       /\ n \in 1..MAX_PATH_LEN /\ f.size = ACCESS_AT_HEADER_LEN + n /\ ~Nul(path),
       [base |-> u8(f, 0), flags |-> u32(f, 4), modes |-> u32(f, 8), path |-> path])

-----------------------------------------------------------------------------
(* Two paths.                                                              *)

RenameAtRequest ==
  Vary([old_base |-> 1, new_base |-> 2, old_path |-> Plain(5), new_path |-> Plain(6)],
       [old_base |-> OpenBase, new_base |-> OpenBase, old_path |-> Bytes(MAX_PATH_LEN), new_path |-> Bytes(MAX_PATH_LEN)])
encode_rename_at(v) ==
  When(PathOk(v.old_path) /\ PathOk(v.new_path),
       Frame(RENAME_AT_HEADER_LEN + v.old_path.n + v.new_path.n,
             {U8(0, v.old_base), U8(1, v.new_base), U32(8, v.old_path.n), U32(12, v.new_path.n)},
             Run(RENAME_AT_HEADER_LEN, <<v.old_path, v.new_path>>)))
decode_rename_at(f) ==
  LET ns == <<u32(f, 8), u32(f, 12)>>
      ts == Cut(f, RENAME_AT_HEADER_LEN, ns) IN
  When(/\ f.size >= RENAME_AT_HEADER_LEN /\ Zero(f, 2, 6)
       /\ OpenBase_from_raw(u8(f, 0)) /\ OpenBase_from_raw(u8(f, 1))
       /\ ns[1] \in 1..MAX_PATH_LEN /\ ns[2] \in 1..MAX_PATH_LEN
       /\ f.size = RENAME_AT_HEADER_LEN + Sum(ns) /\ ~Nul(ts[1]) /\ ~Nul(ts[2]),
       [old_base |-> u8(f, 0), new_base |-> u8(f, 1), old_path |-> ts[1], new_path |-> ts[2]])

LinkAtRequest ==
  Vary([old_base |-> 1, new_base |-> 2, flags |-> 1, old_path |-> Plain(5), new_path |-> Plain(6)],
       [old_base |-> OpenBase, new_base |-> OpenBase, flags |-> 0..2,
        old_path |-> Bytes(MAX_PATH_LEN), new_path |-> Bytes(MAX_PATH_LEN)])
encode_link_at(v) ==
  When(PathOk(v.old_path) /\ PathOk(v.new_path) /\ Within(v.flags, LINK_FLAGS_ALL),
       Frame(LINK_AT_HEADER_LEN + v.old_path.n + v.new_path.n,
             {U8(0, v.old_base), U8(1, v.new_base), U32(4, v.flags), U32(8, v.old_path.n), U32(12, v.new_path.n)},
             Run(LINK_AT_HEADER_LEN, <<v.old_path, v.new_path>>)))
decode_link_at(f) ==
  LET ns == <<u32(f, 8), u32(f, 12)>>
      ts == Cut(f, LINK_AT_HEADER_LEN, ns) IN
  When(/\ f.size >= LINK_AT_HEADER_LEN /\ Zero(f, 2, 2)
       /\ OpenBase_from_raw(u8(f, 0)) /\ OpenBase_from_raw(u8(f, 1)) /\ Within(u32(f, 4), LINK_FLAGS_ALL)
       /\ ns[1] \in 1..MAX_PATH_LEN /\ ns[2] \in 1..MAX_PATH_LEN
       /\ f.size = LINK_AT_HEADER_LEN + Sum(ns) /\ ~Nul(ts[1]) /\ ~Nul(ts[2]),
       [old_base |-> u8(f, 0), new_base |-> u8(f, 1), flags |-> u32(f, 4), old_path |-> ts[1], new_path |-> ts[2]])

SymlinkAtRequest ==
  Vary([base |-> 1, target |-> Plain(5), link_path |-> Plain(6)],
       [base |-> OpenBase, target |-> Bytes(MAX_PATH_LEN), link_path |-> Bytes(MAX_PATH_LEN)])
encode_symlink_at(v) ==
  When(PathOk(v.target) /\ PathOk(v.link_path),
       Frame(SYMLINK_AT_HEADER_LEN + v.target.n + v.link_path.n,
             {U8(0, v.base), U32(4, v.target.n), U32(8, v.link_path.n)},
             Run(SYMLINK_AT_HEADER_LEN, <<v.target, v.link_path>>)))
decode_symlink_at(f) ==
  LET ns == <<u32(f, 4), u32(f, 8)>>
      ts == Cut(f, SYMLINK_AT_HEADER_LEN, ns) IN
  When(/\ f.size >= SYMLINK_AT_HEADER_LEN /\ Zero(f, 1, 3) /\ Zero(f, 12, 4) /\ OpenBase_from_raw(u8(f, 0))
       /\ ns[1] \in 1..MAX_PATH_LEN /\ ns[2] \in 1..MAX_PATH_LEN
       /\ f.size = SYMLINK_AT_HEADER_LEN + Sum(ns) /\ ~Nul(ts[1]) /\ ~Nul(ts[2]),
       [base |-> u8(f, 0), target |-> ts[1], link_path |-> ts[2]])

-----------------------------------------------------------------------------
(* What a program may read while another one is being launched.            *)

SESSION == 20
SOURCE_INFO_LEN == 8 + SESSION
SourceInfo == [process_id : {0, 4}, session : {Plain(SESSION)}]
encode_source_info(v) ==
  When(v.process_id # 0, Frame(SOURCE_INFO_LEN, {U64(0, v.process_id)}, {<<8, v.session>>}))
decode_source_info(f) ==
  When(f.size = SOURCE_INFO_LEN /\ u64(f, 0) # 0,
       [process_id |-> u64(f, 0), session |-> Text(f, 8, SESSION)])

ScopedOpen == [base : OpenBase, options : {1, 65, 1089}, mode : {0, 1}, path : {Plain(5)}]
Scoped(v) == v.base # 2 /\ v.options \in {1 + 64, 1 + 64 + 1024} /\ v.mode = 0
decode_open(f) == {v \in decode_open_at(f) : Scoped(v)}

-----------------------------------------------------------------------------
(* Status, length, flags, owner and times.                                 *)

FileStatus ==
  Vary([device |-> 1, inode |-> 2, mode |-> 3, link_count |-> 4, uid |-> 5, gid |-> 6,
        special_device |-> 7, size |-> 8, block_size |-> 9, blocks |-> 10,
        access_time_seconds |-> 11, access_time_nanoseconds |-> 12,
        modification_time_seconds |-> 13, modification_time_nanoseconds |-> 14,
        change_time_seconds |-> 15, change_time_nanoseconds |-> 16],
       [access_time_nanoseconds |-> {0, 999999999, 1000000000},
        modification_time_nanoseconds |-> {1000000000}, change_time_nanoseconds |-> {1000000000}])
timestamps_are_valid(v) ==
  \A k \in {"access_time_nanoseconds", "modification_time_nanoseconds", "change_time_nanoseconds"} :
    v[k] \in 0..999999999
encode_file_status(v) ==
  When(timestamps_are_valid(v),
       Frame(FILE_STATUS_LEN,
             Put(v, {<<"device", 0, 8>>, <<"inode", 8, 8>>, <<"mode", 16, 4>>, <<"link_count", 20, 4>>,
                     <<"uid", 24, 4>>, <<"gid", 28, 4>>, <<"special_device", 32, 8>>, <<"size", 40, 8>>,
                     <<"block_size", 48, 8>>, <<"blocks", 56, 8>>,
                     <<"access_time_seconds", 64, 8>>, <<"access_time_nanoseconds", 72, 8>>,
                     <<"modification_time_seconds", 80, 8>>, <<"modification_time_nanoseconds", 88, 8>>,
                     <<"change_time_seconds", 96, 8>>, <<"change_time_nanoseconds", 104, 8>>}), {}))
decode_file_status(f) ==
  {v \in {Get(f, {<<"device", 0, 8>>, <<"inode", 8, 8>>, <<"mode", 16, 4>>, <<"link_count", 20, 4>>,
                  <<"uid", 24, 4>>, <<"gid", 28, 4>>, <<"special_device", 32, 8>>, <<"size", 40, 8>>,
                  <<"block_size", 48, 8>>, <<"blocks", 56, 8>>,
                  <<"access_time_seconds", 64, 8>>, <<"access_time_nanoseconds", 72, 8>>,
                  <<"modification_time_seconds", 80, 8>>, <<"modification_time_nanoseconds", 88, 8>>,
                  <<"change_time_seconds", 96, 8>>, <<"change_time_nanoseconds", 104, 8>>})} :
     f.size = FILE_STATUS_LEN /\ timestamps_are_valid(v)}

encode_file_length(v) == {Frame(FILE_LENGTH_PAYLOAD_LEN, {U64(0, v)}, {})}
decode_file_length(f) == When(f.size = FILE_LENGTH_PAYLOAD_LEN, u64(f, 0))
encode_file_flags(v) == {Frame(FILE_FLAGS_PAYLOAD_LEN, {U32(0, v)}, {})}
decode_file_flags(f) == When(f.size = FILE_FLAGS_PAYLOAD_LEN, u32(f, 0))
encode_file_owner(v) == {Frame(FILE_OWNER_PAYLOAD_LEN, {U32(0, v[1]), U32(4, v[2])}, {})}
decode_file_owner(f) == When(f.size = FILE_OWNER_PAYLOAD_LEN, <<u32(f, 0), u32(f, 4)>>)

\* Which of the mutable flags change, and to what.
encode_file_flags_update(v) ==
  When(Within(v[1], MUTABLE_STATUS_FLAGS) /\ Within(v[2], v[1]),
       Frame(FILE_FLAGS_UPDATE_PAYLOAD_LEN, {U32(0, v[1]), U32(4, v[2])}, {}))
decode_file_flags_update(f) ==
  LET mask == u32(f, 0)
      flags == u32(f, 4) IN
  When(/\ f.size = FILE_FLAGS_UPDATE_PAYLOAD_LEN
       /\ Within(mask, MUTABLE_STATUS_FLAGS) /\ Within(flags, mask),
       <<mask, flags>>)

\* <<tag, seconds, nanoseconds>>: set, now, or leave alone.
UPDATE_LEN == 32
Change == {<<0, 5, 7>>, <<0, 5, 999999999>>, <<0, 0, 1000000000>>, <<1, 0, 0>>, <<2, 0, 0>>}
Update_valid(v) == \A i \in 1..2 : v[i][1] = 0 => v[i][3] < 1000000000
encode_times(v) ==
  When(Update_valid(v),
       Frame(UPDATE_LEN,
             UNION {{U32(16 * (i - 1), v[i][1]), U64(16 * (i - 1) + 4, v[i][2]), U32(16 * (i - 1) + 12, v[i][3])} :
                      i \in 1..2}, {}))
ChangeAt(f, o) == <<u32(f, o), u64(f, o + 4), u32(f, o + 12)>>
ChangeOk(c) == (c[1] = 0 /\ c[3] < 1000000000) \/ (c[1] \in {1, 2} /\ c[2] = 0 /\ c[3] = 0)
decode_times(f) ==
  LET v == <<ChangeAt(f, 0), ChangeAt(f, 16)>> IN
  When(f.size = UPDATE_LEN /\ ChangeOk(v[1]) /\ ChangeOk(v[2]), v)

encode_at(v) ==
  {Envelope(UPDATE_LEN + p.size, {t.bytes}, UPDATE_LEN, p) :
     t \in encode_times(v.times), p \in encode_stat_at(v.target)}
decode_at(f) ==
  IF f.size < UPDATE_LEN THEN {}
  ELSE {[times |-> t, target |-> p] :
          t \in decode_times(Slice(f, 0, UPDATE_LEN)),
          p \in decode_stat_at(Slice(f, UPDATE_LEN, f.size - UPDATE_LEN))}

-----------------------------------------------------------------------------
(* Names of semaphores and shared memory: a slash and one component.       *)

MAX_NAME_BYTES == 255
NAME_HEADER_LEN == 4
OPEN_HEADER_LEN == 16
Names == Strings(MAX_NAME_BYTES) \union {Plain(2), Plain(MAX_NAME_BYTES + 2), T(3, "relative"), T(5, "slash inside")}
valid_name(t) == t.kind \notin {"relative", "slash inside"} /\ t.n \in 2..(MAX_NAME_BYTES + 1) /\ ~Nul(t)

encode_name(t) == When(valid_name(t), Frame(NAME_HEADER_LEN + t.n, {U32(0, t.n)}, {<<NAME_HEADER_LEN, t>>}))
decode_name(f) ==
  LET t == Text(f, NAME_HEADER_LEN, f.size - NAME_HEADER_LEN) IN
  When(f.size > NAME_HEADER_LEN /\ u32(f, 0) = t.n /\ valid_name(t), t)

SemaphoreOpen ==
  Vary([options |-> 1, mode |-> 5, value |-> 2, name |-> Plain(3)],
       [options |-> 0..4, mode |-> {0}, value |-> {0}, name |-> Names])
  \union {[options |-> 0, mode |-> 0, value |-> 0, name |-> Plain(3)]}
valid_open(v) ==
  /\ valid_name(v.name) /\ Within(v.options, 1 + 2)
  /\ HasBit(v.options, 1) \/ (v.options = 0 /\ v.mode = 0 /\ v.value = 0)
encode_semaphore_open(v) ==
  When(valid_open(v),
       Frame(OPEN_HEADER_LEN + v.name.n, {U32(0, v.options), U32(4, v.mode), U32(8, v.value), U32(12, v.name.n)},
             {<<OPEN_HEADER_LEN, v.name>>}))
decode_semaphore_open(f) ==
  LET v == [options |-> u32(f, 0), mode |-> u32(f, 4), value |-> u32(f, 8),
            name |-> Text(f, OPEN_HEADER_LEN, f.size - OPEN_HEADER_LEN)] IN
  When(f.size >= OPEN_HEADER_LEN /\ u32(f, 12) = v.name.n /\ valid_open(v), v)

READ_WRITE == 1
CREATE == 2
EXCLUSIVE == 4
TRUNCATE == 8
SharedMemoryOpen ==
  [options : 0..16, mode : {0, 5}, name : {Plain(3)}]
    \union [options : {CREATE}, mode : {5}, name : Names]
valid_memory_open(v) ==
  /\ valid_name(v.name) /\ Within(v.options, READ_WRITE + CREATE + EXCLUSIVE + TRUNCATE)
  /\ HasBit(v.options, EXCLUSIVE) => HasBit(v.options, CREATE)
  /\ HasBit(v.options, TRUNCATE) => HasBit(v.options, READ_WRITE)
  /\ HasBit(v.options, CREATE) \/ v.mode = 0
encode_memory_open(v) ==
  When(valid_memory_open(v),
       Frame(OPEN_HEADER_LEN + v.name.n, {U32(0, v.options), U32(4, v.mode), U32(12, v.name.n)},
             {<<OPEN_HEADER_LEN, v.name>>}))
decode_memory_open(f) ==
  LET v == [options |-> u32(f, 0), mode |-> u32(f, 4),
            name |-> Text(f, OPEN_HEADER_LEN, f.size - OPEN_HEADER_LEN)] IN
  When(f.size >= OPEN_HEADER_LEN /\ u32(f, 8) = 0 /\ u32(f, 12) = v.name.n /\ valid_memory_open(v), v)

-----------------------------------------------------------------------------
(* Pseudo terminal names and the wait of a FIFO.                           *)

PTY_MAX_LEN == 64
PREFIX == T(9, "/dev/pts/")
Components == Bytes(PTY_MAX_LEN - PREFIX.n - 1) \union {T(1, "."), T(2, ".."), T(3, "slash inside")}
valid_component(t) ==
  t.n # 0 /\ t.n + PREFIX.n < PTY_MAX_LEN /\ t.kind \notin {".", "..", "slash inside"} /\ ~Nul(t)
encode_pty_name(t) ==
  When(valid_component(t), Frame(PREFIX.n + t.n + 1, {}, {<<0, PREFIX>>, <<PREFIX.n, t>>}))
decode_pty_name(f) ==
  LET t == Text(f, PREFIX.n, f.size - 1 - PREFIX.n) IN
  When(/\ f.size \in (PREFIX.n + 1)..PTY_MAX_LEN /\ Zero(f, f.size - 1, 1) /\ Text(f, 0, PREFIX.n) = PREFIX
       /\ valid_component(t), t)

PTYF == 71
CREATE_REQUEST == Frame(8, {U32(0, PTYF), U16(4, 1), U16(6, 1)}, {})
decode_pty_factory(f) ==
  When(f.size = 8 /\ u32(f, 0) = PTYF /\ u16(f, 4) = 1 /\ u16(f, 6) = 1, "create")

\* <<kind, length>>: the other end opens, there is something to read, there
\* is room.
WAIT_MAGIC == 70
WAIT_LEN == 16
WaitCondition == {<<0, 0>>, <<1, 0>>, <<2, 0>>, <<2, 1>>, <<2, 70000>>}
WaitCondition_encode(v) ==
  When(v # <<2, 0>>, Frame(WAIT_LEN, {U32(0, WAIT_MAGIC), U16(4, 1), U16(6, v[1]), U64(8, v[2])}, {}))
WaitCondition_decode(f) ==
  LET v == <<u16(f, 6), u64(f, 8)>> IN
  When(/\ f.size = WAIT_LEN /\ u32(f, 0) = WAIT_MAGIC /\ u16(f, 4) = 1
       /\ v \in {<<0, 0>>, <<1, 0>>} \/ (v[1] = 2 /\ v[2] >= 1), v)

-----------------------------------------------------------------------------
(* Record locks.                                                           *)

LOCK_REQUEST_LEN == 32
LOCK_REPLY_LEN == 32
I64_MAX == 2000000000
Operation == {<<"query", 1>>, <<"query", 2>>, <<"set", 1>>, <<"set", 2>>, <<"unlock", 0>>, <<"release file", 0>>}
OperationByte(op) == CASE op = "query" -> 1 [] op = "set" -> 2 [] op = "unlock" -> 3 [] op = "release file" -> 4
LockRequest == [operation : Operation, origin : 0..2, start : {0, 5}, length : {0, 7}]
encode_request(v) ==
  When(v.operation[1] = "release file" => v.origin = 0 /\ v.start = 0 /\ v.length = 0,
       Frame(LOCK_REQUEST_LEN, {U8(0, 1), U8(1, OperationByte(v.operation[1])), U8(2, v.operation[2]),
                           U8(3, v.origin), U64(8, v.start), U64(16, v.length)}, {}))
decode_request(f) ==
  {v \in [operation : {op \in Operation : u8(f, 1) = OperationByte(op[1]) /\ u8(f, 2) = op[2]},
          origin : {u8(f, 3)}, start : {u64(f, 8)}, length : {u64(f, 16)}] :
     /\ f.size = LOCK_REQUEST_LEN /\ u8(f, 0) = 1 /\ Zero(f, 4, 4) /\ Zero(f, 24, 8) /\ v.origin \in 0..2
     /\ v.operation[1] = "release file" => v.origin = 0 /\ v.start = 0 /\ v.length = 0}

Reply ==
  [tag : {0, 1}, kind : {0}, owner : {0}, start : {0}, length : {0}]
    \union [tag : {2}, kind : {1, 2}, owner : {0, 3}, start : {0, 5}, length : {0, 7}]
encode_reply(v) ==
  When(v.tag = 2 => v.owner # 0 /\ v.start >= 0 /\ v.length >= 0 /\ v.start + v.length <= I64_MAX + 1,
       Frame(LOCK_REPLY_LEN, {U8(0, 1), U8(1, v.tag), U8(2, v.kind), U64(8, v.owner), U64(16, v.start), U64(24, v.length)}, {}))
decode_reply(f) ==
  LET v == [tag |-> u8(f, 1), kind |-> u8(f, 2), owner |-> u64(f, 8), start |-> u64(f, 16), length |-> u64(f, 24)] IN
  When(/\ f.size = LOCK_REPLY_LEN /\ u8(f, 0) = 1 /\ Zero(f, 3, 5)
       /\ \/ v.tag \in {0, 1} /\ v.kind = 0 /\ Zero(f, 8, 24)
          \/ v.tag = 2 /\ v.kind \in {1, 2}
       /\ encode_reply(v) # {}, v)

\* A lock to wait for, unless a signal came since the epoch was read.
LOCK_WAIT_LEN == LOCK_REQUEST_LEN + 8
encode_lock_wait(v) ==
  {Envelope(LOCK_WAIT_LEN, {U64(LOCK_REQUEST_LEN, v.epoch)}, 0, r) :
     r \in IF v.lock.operation[1] = "set" THEN encode_request(v.lock) ELSE {}}
decode_lock_wait(f) ==
  {[lock |-> r, epoch |-> u64(f, LOCK_REQUEST_LEN)] :
     r \in {r \in IF f.size = LOCK_WAIT_LEN THEN decode_request(Slice(f, 0, LOCK_REQUEST_LEN)) ELSE {} :
             r.operation[1] = "set"}}

\* <<operation, token>>: prepare the locks for a program image, or cancel.
LOCK_EXEC_LEN == 16
encode_lock_exec(v) ==
  When(v[1] = 2 => v[2] # 0, Frame(LOCK_EXEC_LEN, {U8(0, 1), U8(1, v[1]), U64(8, v[2])}, {}))
decode_lock_exec(f) ==
  When(/\ f.size = LOCK_EXEC_LEN /\ u8(f, 0) = 1 /\ Zero(f, 2, 6)
       /\ u8(f, 1) = 1 \/ (u8(f, 1) = 2 /\ u64(f, 8) # 0),
       <<u8(f, 1), u64(f, 8)>>)
encode_lock_exec_reply(token) == {Frame(LOCK_EXEC_LEN, {U8(0, 1), U64(8, token)}, {})}
decode_lock_exec_reply(f) == When(f.size = LOCK_EXEC_LEN /\ u8(f, 0) = 1 /\ Zero(f, 1, 7), u64(f, 8))

-----------------------------------------------------------------------------
(***************************************************************************)
(* The payloads of the POSIX service about signals, timers, processor      *)
(* clocks and sleeps.                                                      *)
(***************************************************************************)
SIGNAL_MAX == 64
SIGNAL_KILL == 9
SIGNAL_BUS == 10
SIGNAL_SEGV == 11
SIGNAL_STOP == 17
SIGNAL_CONT == 19
SIGNAL_CHLD == 20
SIGNAL_SEND_REQUEST_LEN == 16
SIGNAL_MASK_LEN == 8
SIGNAL_WAIT_REQUEST_LEN == 16
SIGNAL_DISPOSITION_LEN == 16
SIGNAL_DISPOSITION_DEFAULT == 0
SIGNAL_DISPOSITION_CAUGHT == 2
SIGNAL_CHILD_OPTIONS_ALL == 3
SIGNAL_CHILD_OPTIONS_LEN == 4
SIGNAL_THREAD_MASK_LEN == 16
SIGNAL_MASK_QUERY == 0
SIGNAL_MASK_INITIALIZE == 4
SIGNAL_DELIVERY_LEN == 16

-----------------------------------------------------------------------------
(* Sending, masks and dispositions.                                        *)

SignalSendRequest == [selector : {1, 70000}, signal : {0, 1, 64, 65}]
encode_signal_send_request(v) ==
  When(v.signal <= SIGNAL_MAX,
       Frame(SIGNAL_SEND_REQUEST_LEN, {U64(0, v.selector), U32(8, v.signal)}, {}))
decode_signal_send_request(f) ==
  When(f.size = SIGNAL_SEND_REQUEST_LEN /\ u32(f, 12) = 0 /\ u32(f, 8) <= SIGNAL_MAX,
       [selector |-> u64(f, 0), signal |-> u32(f, 8)])

encode_signal_mask(v) == {Frame(SIGNAL_MASK_LEN, {U64(0, v)}, {})}
decode_signal_mask(f) == When(f.size = SIGNAL_MASK_LEN, u64(f, 0))

encode_signal_wait_request(v) == {Frame(SIGNAL_WAIT_REQUEST_LEN, {U64(0, v[1]), U64(8, v[2])}, {})}
decode_signal_wait_request(f) == When(f.size = SIGNAL_WAIT_REQUEST_LEN, <<u64(f, 0), u64(f, 8)>>)

SignalDisposition == [signal : {0, 1, 20, 64, 65}, kind : 0..3, child_options : {0, 1, 3, 4}]
encode_signal_disposition(v) ==
  When(/\ v.signal \in 1..SIGNAL_MAX /\ v.kind <= SIGNAL_DISPOSITION_CAUGHT
       /\ Within(v.child_options, SIGNAL_CHILD_OPTIONS_ALL)
       /\ v.signal = SIGNAL_CHLD \/ v.child_options = 0,
       Frame(SIGNAL_DISPOSITION_LEN, {U32(0, v.signal), U32(4, v.kind), U32(8, v.child_options)}, {}))
decode_signal_disposition(f) ==
  LET v == [signal |-> u32(f, 0), kind |-> u32(f, 4), child_options |-> u32(f, 8)] IN
  When(f.size = SIGNAL_DISPOSITION_LEN /\ u32(f, 12) = 0 /\ encode_signal_disposition(v) # {}, v)

SignalMaskRequest == [operation : 0..5, mask : {0, 6}]
encode_signal_mask_request(v) ==
  When(v.operation <= SIGNAL_MASK_INITIALIZE /\ (v.operation = SIGNAL_MASK_QUERY => v.mask = 0),
       Frame(SIGNAL_THREAD_MASK_LEN, {U32(0, v.operation), U64(8, v.mask)}, {}))
decode_signal_mask_request(f) ==
  LET v == [operation |-> u32(f, 0), mask |-> u64(f, 8)] IN
  When(f.size = SIGNAL_THREAD_MASK_LEN /\ u32(f, 4) = 0 /\ encode_signal_mask_request(v) # {}, v)

encode_signal_child_options(v) ==
  When(Within(v, SIGNAL_CHILD_OPTIONS_ALL), Frame(SIGNAL_CHILD_OPTIONS_LEN, {U32(0, v)}, {}))
decode_signal_child_options(f) ==
  When(f.size = SIGNAL_CHILD_OPTIONS_LEN /\ Within(u32(f, 0), SIGNAL_CHILD_OPTIONS_ALL), u32(f, 0))

-----------------------------------------------------------------------------
(* Delivery: a signal, the token its completion names, and its origin.     *)

SignalDelivery == [signal : {0, 1, 10, 64, 65}, token : {0, 8}]
DeliveryOk(v) == v.signal <= SIGNAL_MAX /\ (v.signal = 0 => v.token = 0)
encode_signal_delivery(v) ==
  When(DeliveryOk(v), Frame(SIGNAL_DELIVERY_LEN, {U32(0, v.signal), U64(8, v.token)}, {}))
decode_signal_delivery(f) ==
  {v \in {[signal |-> u32(f, 0), token |-> u64(f, 8)]} :
     f.size = SIGNAL_DELIVERY_LEN /\ u32(f, 4) = 0 /\ DeliveryOk(v)}

DELIVERY_LEN == SIGNAL_DELIVERY_LEN + 8
Delivery == [signal : SignalDelivery, disposition : 0..3]
encode_fault(v) ==
  {Envelope(DELIVERY_LEN, {U32(SIGNAL_DELIVERY_LEN, v.disposition)}, 0, d) :
     d \in IF /\ v.signal.signal \in {SIGNAL_BUS, SIGNAL_SEGV} /\ v.signal.token # 0
              /\ v.disposition \in {SIGNAL_DISPOSITION_DEFAULT, SIGNAL_DISPOSITION_CAUGHT}
           THEN encode_signal_delivery(v.signal) ELSE {}}
decode_fault(f) ==
  {v \in {[signal |-> d, disposition |-> u32(f, SIGNAL_DELIVERY_LEN)] :
            d \in IF f.size = DELIVERY_LEN /\ u32(f, SIGNAL_DELIVERY_LEN + 4) = 0
                  THEN decode_signal_delivery(Slice(f, 0, SIGNAL_DELIVERY_LEN)) ELSE {}} :
     encode_fault(v) # {}}

USER == 1
CHILD == 2
SYSTEM == 3
FAULT == 4
TIMER == 5
ORIGIN_LEN == 24
ORIGIN_MAX_LEN == 48
NoTimer == [timer_id |-> 0, value_token |-> 0, overrun |-> 0]
Origin ==
  Vary([source |-> CHILD, real_uid |-> 3, process_id |-> 4, event |-> 1, status |-> 255, timer |-> NoTimer],
       [process_id |-> {0}, event |-> 0..7, status |-> {256}])
  \union [source : {CHILD}, real_uid : {0}, process_id : {4}, event : 1..7, status : {0, 1, 19, 64, 65}, timer : {NoTimer}]
  \union [source : {USER, SYSTEM, FAULT, TIMER, 6}, real_uid : {0, 3}, process_id : {0, 4}, event : {0},
          status : {0, 1}, timer : {NoTimer, [timer_id |-> 5, value_token |-> 6, overrun |-> 7]}]
encoded_len(v) == IF v.source = TIMER THEN ORIGIN_MAX_LEN ELSE ORIGIN_LEN
ChildOk(v) ==
  CASE v.event = 1 -> v.status <= 255
    [] v.event \in 2..5 -> v.status \in 1..SIGNAL_MAX
    [] v.event = 6 -> v.status = SIGNAL_CONT
    [] OTHER -> FALSE
OriginOk(v) ==
  /\ v.source \in USER..TIMER
  /\ v.source \in {USER, CHILD} => v.process_id # 0
  /\ v.source \in {SYSTEM, FAULT, TIMER} => v.process_id = 0 /\ v.real_uid = 0
  /\ IF v.source = TIMER THEN v.timer.timer_id # 0 /\ v.timer.overrun < Huge + 4 * Step ELSE v.timer = NoTimer
  /\ IF v.source = CHILD THEN ChildOk(v) ELSE v.event = 0 /\ v.status = 0
encode_origin(v) ==
  When(OriginOk(v),
       Frame(encoded_len(v),
             {U32(0, v.source), U32(4, v.real_uid), U64(8, v.process_id), U32(16, v.event), U32(20, v.status)}
               \union IF v.source = TIMER
                      THEN {U32(24, 1), U32(28, v.timer.overrun), U64(32, v.timer.timer_id), U64(40, v.timer.value_token)}
                      ELSE {}, {}))
decode_origin(f) ==
  LET timed == u32(f, 0) = TIMER
      v == [source |-> u32(f, 0), real_uid |-> u32(f, 4), process_id |-> u64(f, 8),
            event |-> u32(f, 16), status |-> u32(f, 20),
            timer |-> IF timed THEN [timer_id |-> u64(f, 32), value_token |-> u64(f, 40), overrun |-> u32(f, 28)]
                      ELSE NoTimer] IN
  When(/\ f.size \in {ORIGIN_LEN, ORIGIN_MAX_LEN} /\ f.size = IF timed THEN ORIGIN_MAX_LEN ELSE ORIGIN_LEN
       /\ timed => u32(f, 24) = 1
       /\ OriginOk(v), v)

Accepted == [signal : {0, 1, 9, 17, 20, 64, 65}, origin : {o \in Origin : OriginOk(o)}]
encode_accepted(v) ==
  {Envelope(8 + o.size, {U32(0, v.signal)}, 8, o) :
     o \in IF /\ v.signal \in 1..SIGNAL_MAX /\ v.signal \notin {SIGNAL_KILL, SIGNAL_STOP}
              /\ v.origin.source # FAULT /\ (v.origin.source = CHILD => v.signal = SIGNAL_CHLD)
           THEN encode_origin(v.origin) ELSE {}}
decode_accepted(f) ==
  {v \in {[signal |-> u32(f, 0), origin |-> o] :
            o \in IF f.size < 8 \/ u32(f, 4) # 0 THEN {} ELSE decode_origin(Slice(f, 8, f.size - 8))} :
     encode_accepted(v) # {}}

\* A wait that ends at a deadline; -1 is no deadline at all.
TIMED_REQUEST_LEN == SIGNAL_WAIT_REQUEST_LEN + 8
encode_timed_request(v) ==
  {Envelope(TIMED_REQUEST_LEN, {U64(SIGNAL_WAIT_REQUEST_LEN, v[3])}, 0, w) :
     w \in IF v[3] = -1 THEN {} ELSE encode_signal_wait_request(<<v[1], v[2]>>)}
decode_timed_request(f) ==
  {<<w[1], w[2], u64(f, SIGNAL_WAIT_REQUEST_LEN)>> :
     w \in IF f.size # TIMED_REQUEST_LEN \/ \A i \in 16..23 : ByteAt(f, i) = 255 THEN {}
           ELSE decode_signal_wait_request(Slice(f, 0, SIGNAL_WAIT_REQUEST_LEN))}

-----------------------------------------------------------------------------
(* Timers.                                                                 *)

\* i32::MAX, and the nanoseconds of an i64 of seconds: only their order with
\* the sampled values matters, so both are thresholds above the exact numbers.
MAX_PID == Huge
MAX_DURATION_NS == Huge + 12 * Step

IntervalValue == [interval_ns : {0, 5}, remaining_ns : {0, 6}]
encode_interval(v) == {Frame(16, {U64(0, v.interval_ns), U64(8, v.remaining_ns)}, {})}
decode_interval(f) == When(f.size = 16, [interval_ns |-> u64(f, 0), remaining_ns |-> u64(f, 8)])

\* <<kind, signal, value>>: none, default, a signal with a value, a thread.
Notification == (0..4) \X {0, 1, 64, 65} \X {0, 9}
NotificationOk(n) ==
  \/ n[1] \in {0, 1} /\ n[2] = 0 /\ n[3] = 0
  \/ n[1] = 2 /\ n[2] \in 1..SIGNAL_MAX
  \/ n[1] = 3 /\ n[2] = 0 /\ n[3] # 0
TIMER_CREATE_LEN == 24
Clock == 1..4
encode_create(v) ==
  When(NotificationOk(v.notification),
       Frame(TIMER_CREATE_LEN, {U16(0, 1), U32(4, v.clock), U32(8, v.notification[1]),
                          U32(12, v.notification[2]), U64(16, v.notification[3])}, {}))
decode_create(f) ==
  {v \in {[clock |-> u32(f, 4), notification |-> <<u32(f, 8), u32(f, 12), u64(f, 16)>>]} :
     /\ f.size = TIMER_CREATE_LEN /\ u32(f, 0) = 1 /\ v.clock \in Clock /\ NotificationOk(v.notification)}

PROCESS_CREATE_LEN == TIMER_CREATE_LEN + 8
target(f) == When(f.size = 8 /\ u64(f, 0) <= MAX_PID, u64(f, 0))
encode_process_create(v) ==
  {Envelope(PROCESS_CREATE_LEN, {U64(TIMER_CREATE_LEN, v.pid)}, 0, c) :
     c \in IF v.pid = 0 \/ v.pid > MAX_PID THEN {} ELSE encode_create([clock |-> 3, notification |-> v.notification])}
decode_process_create(f) ==
  IF f.size # PROCESS_CREATE_LEN THEN {}
  ELSE {[pid |-> p, notification |-> c.notification] :
          c \in {c \in decode_create(Slice(f, 0, TIMER_CREATE_LEN)) : c.clock = 3},
          p \in target(Slice(f, TIMER_CREATE_LEN, 8)) \ {0}}

VALUE_LEN == 32
Value == [remaining_ns : {0, 5, MAX_DURATION_NS + Step}, interval_ns : {0, 6, MAX_DURATION_NS + Step}]
encode_value(v) ==
  When(v.remaining_ns <= MAX_DURATION_NS /\ v.interval_ns <= MAX_DURATION_NS,
       Frame(VALUE_LEN, {LE(0, 16, v.remaining_ns), LE(16, 16, v.interval_ns)}, {}))
decode_value(f) ==
  LET v == [remaining_ns |-> Num(f, 0, 16), interval_ns |-> Num(f, 16, 16)] IN
  When(f.size = VALUE_LEN /\ encode_value(v) # {}, v)

SET_LEN == 48
encode_set(v) ==
  {Envelope(SET_LEN, {U64(0, v.id), U32(8, v.absolute)}, 16, x) :
     x \in IF v.id = 0 THEN {} ELSE encode_value(v.value)}
decode_id(f) == When(f.size = 8 /\ u64(f, 0) # 0, u64(f, 0))
decode_set(f) ==
  IF f.size # SET_LEN \/ ~Zero(f, 12, 4) \/ u32(f, 8) > 1 THEN {}
  ELSE {[id |-> i, absolute |-> u32(f, 8), value |-> x] :
          i \in decode_id(Slice(f, 0, 8)), x \in decode_value(Slice(f, 16, VALUE_LEN))}

\* What a timer's thread is told.
Event == [timer : {0, 1}, cookie : {0, 2}, overrun : {0, 3, Huge + 4 * Step}]
EventOk(v) == v.timer # 0 /\ v.cookie # 0 /\ v.overrun < Huge + 4 * Step
encode_event(v) ==
  When(EventOk(v), Frame(32, {U8(0, 1), U64(8, v.timer), U64(16, v.cookie), U32(24, v.overrun)}, {}))
decode_event(f) ==
  {v \in {[timer |-> u64(f, 8), cookie |-> u64(f, 16), overrun |-> u32(f, 24)]} :
     f.size = 32 /\ u8(f, 0) = 1 /\ Zero(f, 1, 7) /\ Zero(f, 28, 4) /\ EventOk(v)}

-----------------------------------------------------------------------------
(* Processor clocks, sleeps on them, and the token of a fork.              *)

SAMPLE_LEN == 32
Sample == [process_id : {0, 1}, user_ticks : {2}, kernel_ticks : {3}, ticks_per_second : {0, 4}]
encode_sample(v) ==
  When(v.process_id # 0 /\ v.ticks_per_second # 0,
       Frame(SAMPLE_LEN, Put(v, {<<"process_id", 0, 8>>, <<"user_ticks", 8, 8>>,
                                 <<"kernel_ticks", 16, 8>>, <<"ticks_per_second", 24, 8>>}), {}))
decode_sample(f) ==
  {v \in {Get(f, {<<"process_id", 0, 8>>, <<"user_ticks", 8, 8>>,
                  <<"kernel_ticks", 16, 8>>, <<"ticks_per_second", 24, 8>>})} :
     f.size = SAMPLE_LEN /\ v.process_id # 0 /\ v.ticks_per_second # 0}

SLEEP_REQUEST_LEN == 32
SLEEP_REPLY_LEN == 24
COMPLETION_LEN == 8
SleepRequest == [process : {0, 7, MAX_PID + 1}, absolute : {0, 1}, nanoseconds : {0, 5, MAX_DURATION_NS + 1}]
SleepOk(v) == v.process <= MAX_PID /\ v.nanoseconds <= MAX_DURATION_NS
encode_sleep_request(v) ==
  When(SleepOk(v), Frame(SLEEP_REQUEST_LEN, {U8(0, 1), U8(2, v.absolute), U64(8, v.process), LE(16, 16, v.nanoseconds)}, {}))
decode_sleep_request(f) ==
  {v \in {[process |-> u64(f, 8), absolute |-> u8(f, 2), nanoseconds |-> Num(f, 16, 16)]} :
     f.size = SLEEP_REQUEST_LEN /\ u16(f, 0) = 1 /\ v.absolute <= 1 /\ Zero(f, 3, 5) /\ SleepOk(v)}
decode_thread_request(f) == {v \in decode_sleep_request(f) : v.process = 0}
encode_sleep_reply(v) == {Frame(SLEEP_REPLY_LEN, {U8(0, 1), LE(8, 16, v)}, {})}
decode_sleep_reply(f) == When(f.size = SLEEP_REPLY_LEN /\ u8(f, 0) = 1 /\ Zero(f, 1, 7), Num(f, 8, 16))
encode_completion(v) == When(v \in -4095..0, Frame(COMPLETION_LEN, {U32(0, 1), U32(4, v)}, {}))
decode_completion(f) == When(f.size = COMPLETION_LEN /\ u32(f, 0) = 1 /\ i32(f, 4) \in -4095..0, i32(f, 4))

encode_token(v) == When(v # 0, Frame(8, {U64(0, v)}, {}))
decode_token(f) == When(f.size = 8 /\ u64(f, 0) # 0, u64(f, 0))

-----------------------------------------------------------------------------
(***************************************************************************)
(* The payloads about sockets: addresses, records, and the transfer of     *)
(* descriptors with a record. The magic numbers are small numbers here.    *)
(* Offsets are far below 2^64: offset + length never overflows.            *)
(***************************************************************************)
\* How many handles one IPC message carries.
IPC_MAX_OBJECT_HANDLES == 4

SOCKET_CREATE_LEN == 16
NONBLOCKING == 1
ACCEPT_LEN == 8
CONNECT_REPLY_LEN == 8

ConnectReply_encode(v) == {Frame(CONNECT_REPLY_LEN, {U32(0, v)}, {})}
ConnectReply_decode(f) == When(f.size = CONNECT_REPLY_LEN /\ Zero(f, 4, 4) /\ u32(f, 0) \in {0, 1}, u32(f, 0))

Accept_encode(v) == When(Within(v, NONBLOCKING), Frame(ACCEPT_LEN, {U32(0, v)}, {}))
Accept_decode(f) == When(f.size = ACCEPT_LEN /\ Zero(f, 4, 4) /\ Within(u32(f, 0), NONBLOCKING), u32(f, 0))

Domain == 1..3
Kind == 1..3
Create == [domain : Domain, kind : Kind, protocol : {0, 70000}, options : 0..2]
Create_encode(v) ==
  When(Within(v.options, NONBLOCKING),
       Frame(SOCKET_CREATE_LEN, {U16(0, v.domain), U16(2, v.kind), U32(4, v.protocol), U32(8, v.options)}, {}))
Create_decode(f) ==
  {v \in {[domain |-> u16(f, 0), kind |-> u16(f, 2), protocol |-> u32(f, 4), options |-> u32(f, 8)]} :
     /\ f.size = SOCKET_CREATE_LEN /\ Zero(f, 12, 4)
     /\ v.domain \in Domain /\ v.kind \in Kind /\ Within(v.options, NONBLOCKING)}

-----------------------------------------------------------------------------
(* Addresses: a domain and a form, a name or an IP address, a port.        *)

ADDRESS_HEADER_LEN == 8
MAX_UNIX_NAME_BYTES == 107
Named(form, name) == [domain |-> 1, form |-> form, name |-> name, port |-> 0, flow_info |-> 0, scope_id |-> 0]
UnixPath == {Named(0, t) : t \in Bytes(MAX_UNIX_NAME_BYTES)}
UnixAbstract == {Named(1, t) : t \in Bytes(MAX_UNIX_NAME_BYTES)}
UnixUnnamed == Named(2, Empty)
Ipv4 == [domain |-> 2, form |-> 0, name |-> Plain(4), port |-> 80, flow_info |-> 0, scope_id |-> 0]
Ipv6 == [domain |-> 3, form |-> 0, name |-> Plain(16), port |-> 443, flow_info |-> 3, scope_id |-> 4]
Address == UnixPath \union UnixAbstract \union {UnixUnnamed, Ipv4, Ipv6}

IsPath(a) == a.domain = 1 /\ a.form = 0
IsIpv4(a) == a.domain = 2

Address_encode(a) ==
  LET start == CASE a.domain = 1 -> 0 [] a.domain = 2 -> 2 [] a.domain = 3 -> 10
      length == start + a.name.n IN
  When(a.domain = 1 => /\ a.form = 0 => a.name.n > 0 /\ ~Nul(a.name)
                       /\ a.name.n <= MAX_UNIX_NAME_BYTES,
       Frame(ADDRESS_HEADER_LEN + length,
             {U16(0, a.domain), U8(2, a.form), U32(4, length)}
               \union (IF a.domain = 1 THEN {} ELSE {U16(8, a.port)})
               \union (IF a.domain = 3 THEN {U32(10, a.flow_info), U32(14, a.scope_id)} ELSE {}),
             {<<ADDRESS_HEADER_LEN + start, a.name>>}))

Address_decode(f) ==
  LET n == f.size - ADDRESS_HEADER_LEN
      domain == u16(f, 0)  form == u8(f, 2)
      name == Text(f, ADDRESS_HEADER_LEN, n) IN
  IF f.size < ADDRESS_HEADER_LEN \/ u8(f, 3) # 0 \/ u32(f, 4) # n THEN {}
  ELSE CASE domain = 1 /\ form = 0 -> When(n > 0 /\ ~Nul(name) /\ n <= MAX_UNIX_NAME_BYTES, Named(0, name))
         [] domain = 1 /\ form = 1 -> When(n <= MAX_UNIX_NAME_BYTES, Named(1, name))
         [] domain = 1 /\ form = 2 -> When(n = 0, UnixUnnamed)
         [] domain = 2 /\ form = 0 ->
              When(n = 6, [domain |-> 2, form |-> 0, name |-> Text(f, 10, 4), port |-> u16(f, 8),
                           flow_info |-> 0, scope_id |-> 0])
         [] domain = 3 /\ form = 0 ->
              When(n = 26, [domain |-> 3, form |-> 0, name |-> Text(f, 18, 16), port |-> u16(f, 8),
                            flow_info |-> u32(f, 10), scope_id |-> u32(f, 14)])
         [] OTHER -> {}

\* An address after a header of so many bytes, nothing for no bytes.
Source(f, o) == IF f.size = o THEN {{}} ELSE {{a} : a \in Address_decode(Slice(f, o, f.size - o))}

-----------------------------------------------------------------------------
(* Records of datagram and sequenced packet sockets.                       *)

MAX_RECORD_SIZE == 64 * 1024
RECORD_REQUEST_LEN == 32
REPLY_HEADER_LEN == 24
REQUEST_MAGIC == 3
REPLY_MAGIC == 4
RECORD_VERSION == 1
SendRecord == 1
ReceiveRecord == 2
WaitSend == 3
SendRoute == 4
SendTo == 5

validate_prefix(f, magic) == u32(f, 0) = magic /\ u16(f, 4) = RECORD_VERSION
operation(f) == When(u16(f, 6) \in 1..5, u16(f, 6))

RecordRequest ==
  [operation : 1..5, offset : {0, 9}, length : {0, 3, MAX_RECORD_SIZE, MAX_RECORD_SIZE + 1}, peek : {0, 1}]
Request_validate(v) ==
  /\ v.length <= MAX_RECORD_SIZE
  /\ v.peek = 1 => v.operation = ReceiveRecord
  /\ v.operation = WaitSend => v.offset = 0
Request_encode(v) ==
  When(Request_validate(v),
       Frame(RECORD_REQUEST_LEN, {U32(0, REQUEST_MAGIC), U16(4, RECORD_VERSION), U16(6, v.operation),
                           U64(8, v.offset), U32(16, v.length), U32(20, v.peek)}, {}))
Request_decode(f) ==
  IF f.size # RECORD_REQUEST_LEN \/ ~Zero(f, 24, 8) \/ ~validate_prefix(f, REQUEST_MAGIC) \/ u32(f, 20) > 1 THEN {}
  ELSE {v \in {[operation |-> o, offset |-> u64(f, 8), length |-> u32(f, 16), peek |-> u32(f, 20)] : o \in operation(f)} :
          Request_validate(v)}

\* A source is the set of at most one address.
Smaller(a, b) == IF a < b THEN a ELSE b
Reply_validate(v, request) ==
  /\ Request_validate(request)
  /\ v.length <= MAX_RECORD_SIZE /\ v.copied <= request.length /\ v.copied <= v.length
  /\ \/ /\ request.operation \in {SendRecord, SendRoute, SendTo} /\ v.source = {}
        /\ v.copied = request.length /\ v.length = request.length
     \/ /\ request.operation = ReceiveRecord /\ \E a \in v.source : a.domain # 3
        /\ v.copied = Smaller(request.length, v.length)
Reply_encode(v, request) ==
  LET head(n) == {U32(0, REPLY_MAGIC), U16(4, RECORD_VERSION), U16(6, request.operation),
                  U32(8, v.copied), U32(12, v.length), U32(16, n)} IN
  IF ~Reply_validate(v, request) THEN {}
  ELSE IF v.source = {} THEN {Frame(REPLY_HEADER_LEN, head(0), {})}
  ELSE {Envelope(REPLY_HEADER_LEN + a.size, head(a.size), REPLY_HEADER_LEN, a) :
          a \in UNION {Address_encode(s) : s \in v.source}}
Reply_decode(request, f) ==
  IF \/ f.size < REPLY_HEADER_LEN \/ ~Zero(f, 20, 4) \/ ~validate_prefix(f, REPLY_MAGIC)
     \/ operation(f) # {request.operation} \/ u32(f, 16) # f.size - REPLY_HEADER_LEN THEN {}
  ELSE {v \in {[copied |-> u32(f, 8), length |-> u32(f, 12), source |-> s] : s \in Source(f, REPLY_HEADER_LEN)} :
          Reply_validate(v, request)}
Replies ==
  [request : {r \in RecordRequest : Request_validate(r)},
   reply : [copied : {0, 3, MAX_RECORD_SIZE}, length : {0, 3, MAX_RECORD_SIZE, MAX_RECORD_SIZE + 1},
            source : {{}, {Named(0, Plain(1))}, {UnixUnnamed}, {Ipv4}, {Ipv6}}]]

encode_send_to(v) ==
  IF v.request.operation # SendTo \/ \E a \in v.address : ~IsIpv4(a) THEN {}
  ELSE {Envelope(RECORD_REQUEST_LEN + a.size, {r.bytes}, RECORD_REQUEST_LEN, a) :
          r \in Request_encode(v.request), a \in UNION {Address_encode(a) : a \in v.address}}
decode_frame(f) ==
  IF f.size < RECORD_REQUEST_LEN THEN {}
  ELSE {v \in {[request |-> r, address |-> s] :
                 r \in Request_decode(Slice(f, 0, RECORD_REQUEST_LEN)), s \in Source(f, RECORD_REQUEST_LEN)} :
          IF v.request.operation = SendTo THEN \E a \in v.address : IsIpv4(a) ELSE v.address = {}}
EncodeFrame(v) == IF v.request.operation = SendTo THEN encode_send_to(v) ELSE Request_encode(v.request)
Frames ==
  {v \in [request : RecordRequest, address : {{}, {Ipv4}, {Ipv6}, {UnixUnnamed}}] :
     (v.request.operation = SendTo) = (v.address # {})}

\* The route a datagram takes to a socket with a path.
ROUTE_MAGIC == 5
SOCKET_HEADER_LEN == 16
encode_route(v) ==
  IF v.length > MAX_RECORD_SIZE \/ ~IsPath(v.address) THEN {}
  ELSE {Envelope(SOCKET_HEADER_LEN + a.size,
                 {U32(0, ROUTE_MAGIC), U16(4, 1), U32(8, v.length), U32(12, a.size)}, SOCKET_HEADER_LEN, a) :
          a \in Address_encode(v.address)}
decode_route(f) ==
  IF \/ f.size < SOCKET_HEADER_LEN \/ ~Zero(f, 6, 2) \/ u32(f, 0) # ROUTE_MAGIC \/ u16(f, 4) # 1
     \/ u32(f, 8) > MAX_RECORD_SIZE \/ u32(f, 12) # f.size - SOCKET_HEADER_LEN THEN {}
  ELSE {[length |-> u32(f, 8), address |-> a] :
          a \in {a \in Address_decode(Slice(f, SOCKET_HEADER_LEN, f.size - SOCKET_HEADER_LEN)) : IsPath(a)}}

-----------------------------------------------------------------------------
(* The transfer of descriptors: a sender begins, appends batches of        *)
(* descriptors and commits; a receiver asks for the record, then for the   *)
(* descriptors in batches.                                                 *)

MAX_TRANSFERRED_DESCRIPTORS == 253
TRANSFER_MAGIC == 6
BATCH_SIZE == IPC_MAX_OBJECT_HANDLES - 1
RECEIVE_REQUEST_LEN == 32
RECEIVE_REPLY_HEADER_LEN == 24
MAX_PAYLOAD_LEN == 128 * 1024 * 1024
RECEIVE_MAGIC == 7

Prefix(magic, op) == {U32(0, magic), U16(4, 1), U16(6, op)}
reply_prefix(f, op) == u32(f, 0) = RECEIVE_MAGIC /\ u16(f, 4) = 1 /\ u16(f, 6) = op

valid_metadata(info) ==
  /\ info.descriptor_flags = 0 /\ info.open_flags % 4 # 3
  /\ inherited_fd_kind_requires_handle(info.kind) = {TRUE}
Info(kind, open, flags) == [kind |-> kind, open_flags |-> open, descriptor_flags |-> flags]
Batches ==
  LET good == Info(5, 2, 0) IN
  {<<>>, <<good>>, <<Info(3, 2, 0)>>, <<Info(5, 3, 0)>>, <<Info(5, 2, 1)>>,
   <<good, Info(16, 1024, 0)>>, <<good, good, good>>, <<good, good, good, good>>,
   <<good, good, good, good, good>>}
\* The metadata of the descriptors of a batch, eight bytes each.
PutBatch(batch) ==
  UNION {{Shift(m.bytes, SOCKET_HEADER_LEN + 8 * (i - 1)) : m \in encode_inherited_fd_metadata(batch[i])} :
           i \in DOMAIN batch}
GetBatch(f, count) ==
  LET at(i) == decode_inherited_fd_metadata(Slice(f, SOCKET_HEADER_LEN + 8 * (i - 1), 8)) IN
  IF \A i \in 1..count : \E m \in at(i) : valid_metadata(m)
  THEN {[i \in 1..count |-> CHOOSE m \in at(i) : TRUE]} ELSE {}

begin(length, descriptors) ==
  When(length <= MAX_PAYLOAD_LEN /\ descriptors <= MAX_TRANSFERRED_DESCRIPTORS,
       Frame(SOCKET_HEADER_LEN, Prefix(TRANSFER_MAGIC, 1) \union {U32(8, length), U16(12, descriptors)}, {}))
append(offset, metadata) ==
  LET count == Len(metadata) IN
  When(/\ count \in 1..BATCH_SIZE /\ offset + count <= MAX_TRANSFERRED_DESCRIPTORS
       /\ \A i \in 1..count : valid_metadata(metadata[i]),
       Frame(SOCKET_HEADER_LEN + 8 * count,
             Prefix(TRANSFER_MAGIC, 2) \union {U16(8, offset), U16(10, count)} \union PutBatch(metadata), {}))
commit(offset) == {Frame(SOCKET_HEADER_LEN, Prefix(TRANSFER_MAGIC, 3) \union {U64(8, offset)}, {})}
ReceiveFrame(op, offset, length, maximum_rights) ==
  When(length <= MAX_RECORD_SIZE /\ maximum_rights <= MAX_TRANSFERRED_DESCRIPTORS,
       Frame(RECEIVE_REQUEST_LEN,
             Prefix(TRANSFER_MAGIC, op) \union {U64(8, offset), U32(16, length), U16(20, maximum_rights)}, {}))
receive(offset, length, maximum_rights) == ReceiveFrame(4, offset, length, maximum_rights)
peek(offset, length, maximum_rights) == ReceiveFrame(6, offset, length, maximum_rights)
deliver(offset, maximum) ==
  When(offset <= MAX_TRANSFERRED_DESCRIPTORS /\ maximum \in 1..IPC_MAX_OBJECT_HANDLES,
       Frame(SOCKET_HEADER_LEN, Prefix(TRANSFER_MAGIC, 5) \union {U16(8, offset), U16(10, maximum)}, {}))

Transfer(op, offset, length, count, metadata) ==
  [op |-> op, offset |-> offset, length |-> length, count |-> count, metadata |-> metadata]
TransferRequest ==
  {Transfer(1, 0, n, c, <<>>) : n \in {0, MAX_PAYLOAD_LEN, MAX_PAYLOAD_LEN + 1}, c \in {0, 253, 254}}
  \union {Transfer(2, o, 0, 0, b) : o \in {0, 250, 252, 253}, b \in Batches}
  \union {Transfer(3, 70000, 0, 0, <<>>)}
  \union {Transfer(op, 5, n, c, <<>>) : op \in {4, 6}, n \in {0, MAX_RECORD_SIZE, MAX_RECORD_SIZE + 1}, c \in {0, 253, 254}}
  \union {Transfer(5, o, 0, c, <<>>) : o \in {0, 253, 254}, c \in 0..5}
EncodeTransfer(v) ==
  CASE v.op = 1 -> begin(v.length, v.count)
    [] v.op = 2 -> append(v.offset, v.metadata)
    [] v.op = 3 -> commit(v.offset)
    [] v.op = 4 -> receive(v.offset, v.length, v.count)
    [] v.op = 5 -> deliver(v.offset, v.count)
    [] v.op = 6 -> peek(v.offset, v.length, v.count)
decode_transfer(f) ==
  LET op == u16(f, 6)  count == u16(f, 10) IN
  IF f.size < SOCKET_HEADER_LEN \/ u32(f, 0) # TRANSFER_MAGIC \/ u16(f, 4) # 1 THEN {}
  ELSE CASE op = 1 ->
              {v \in {Transfer(1, 0, u32(f, 8), u16(f, 12), <<>>)} :
                 f.size = SOCKET_HEADER_LEN /\ Zero(f, 14, 2) /\ begin(v.length, v.count) # {}}
         [] op = 2 ->
              IF \/ count \notin 1..BATCH_SIZE \/ u16(f, 8) + count > MAX_TRANSFERRED_DESCRIPTORS
                 \/ f.size # SOCKET_HEADER_LEN + 8 * count \/ ~Zero(f, 12, 4) THEN {}
              ELSE {Transfer(2, u16(f, 8), 0, 0, b) : b \in GetBatch(f, count)}
         [] op = 3 -> When(f.size = SOCKET_HEADER_LEN, Transfer(3, u64(f, 8), 0, 0, <<>>))
         [] op \in {4, 6} ->
              {v \in {Transfer(op, u64(f, 8), u32(f, 16), u16(f, 20), <<>>)} :
                 f.size = RECEIVE_REQUEST_LEN /\ Zero(f, 22, 10) /\ receive(v.offset, v.length, v.count) # {}}
         [] op = 5 ->
              {v \in {Transfer(5, u16(f, 8), 0, count, <<>>)} :
                 f.size = SOCKET_HEADER_LEN /\ Zero(f, 12, 4) /\ deliver(v.offset, v.count) # {}}
         [] OTHER -> {}

\* The answer to a receive or a peek for so many bytes and rights.
ReceiveReply_validate(v, length, maximum) ==
  /\ receive(0, length, maximum) # {}
  /\ v.length <= MAX_RECORD_SIZE /\ v.copied = Smaller(length, v.length)
  /\ v.total_rights <= MAX_TRANSFERRED_DESCRIPTORS /\ v.available_rights = Smaller(maximum, v.total_rights)
  /\ v.source.domain = 1
ReceiveReply_encode_using(v, length, maximum, op) ==
  IF ~ReceiveReply_validate(v, length, maximum) THEN {}
  ELSE {Envelope(RECEIVE_REPLY_HEADER_LEN + a.size,
                 Prefix(RECEIVE_MAGIC, op) \union
                 {U32(8, v.copied), U32(12, v.length), U16(16, v.total_rights), U16(18, v.available_rights),
                  U16(20, a.size), U8(22, v.end_of_record)}, RECEIVE_REPLY_HEADER_LEN, a) :
          a \in Address_encode(v.source)}
ReceiveReply_decode_using(length, maximum, f, op) ==
  IF \/ f.size < RECEIVE_REPLY_HEADER_LEN \/ u8(f, 22) > 1 \/ u8(f, 23) # 0
     \/ ~reply_prefix(f, op) \/ f.size # RECEIVE_REPLY_HEADER_LEN + u16(f, 20) THEN {}
  ELSE {v \in {[copied |-> u32(f, 8), length |-> u32(f, 12), total_rights |-> u16(f, 16),
                available_rights |-> u16(f, 18), end_of_record |-> u8(f, 22), source |-> a] :
                 a \in Address_decode(Slice(f, 24, f.size - 24))} :
          ReceiveReply_validate(v, length, maximum)}
ReceiveReply_encode(v, length, maximum) == ReceiveReply_encode_using(v, length, maximum, 4)
ReceiveReply_encode_peek(v, length, maximum) == ReceiveReply_encode_using(v, length, maximum, 6)
ReceiveReply_decode(length, maximum, f) == ReceiveReply_decode_using(length, maximum, f, 4)
ReceiveReply_decode_peek(length, maximum, f) == ReceiveReply_decode_using(length, maximum, f, 6)
ReceiveReply ==
  [peek : BOOLEAN, request : {<<0, 0>>, <<3, 253>>, <<MAX_RECORD_SIZE, 1>>},
   reply : [copied : {0, 3}, length : {0, 3, 9}, total_rights : {0, 2, 254}, available_rights : {0, 1, 2},
            end_of_record : {0, 1}, source : {UnixUnnamed, Named(0, Plain(1)), Ipv4}]]
EncodeReceived(v) ==
  IF v.peek THEN ReceiveReply_encode_peek(v.reply, v.request[1], v.request[2])
  ELSE ReceiveReply_encode(v.reply, v.request[1], v.request[2])
DecodeReceived(v, f) ==
  {[v EXCEPT !.reply = r] :
     r \in IF v.peek THEN ReceiveReply_decode_peek(v.request[1], v.request[2], f)
           ELSE ReceiveReply_decode(v.request[1], v.request[2], f)}

\* The answer to a request for at most so many descriptors from an offset.
delivery_reply(offset, metadata) ==
  LET count == Len(metadata) IN
  When(/\ count \in 1..IPC_MAX_OBJECT_HANDLES /\ offset + count <= MAX_TRANSFERRED_DESCRIPTORS
       /\ \A i \in 1..count : valid_metadata(metadata[i]),
       Frame(SOCKET_HEADER_LEN + 8 * count,
             Prefix(RECEIVE_MAGIC, 5) \union {U16(8, offset), U16(10, count)} \union PutBatch(metadata), {}))
decode_delivery(offset, maximum, f) ==
  LET count == u16(f, 10) IN
  IF \/ deliver(offset, maximum) = {} \/ f.size < SOCKET_HEADER_LEN \/ ~Zero(f, 12, 4) \/ ~reply_prefix(f, 5)
     \/ u16(f, 8) # offset \/ count \notin 1..maximum
     \/ offset + count > MAX_TRANSFERRED_DESCRIPTORS \/ f.size # SOCKET_HEADER_LEN + 8 * count THEN {}
  ELSE GetBatch(f, count)
\* The service answers with at most as many descriptors as it was asked for.
Deliveries == [offset : {0, 250, 252, 253}, maximum : {4}, metadata : Batches]

-----------------------------------------------------------------------------
ExchangeSessionMessages ==
  \/ Exchange("posix message", Header, EncodeMessage, DecodeMessage)
  \/ Exchange("session info", SessionInfo, encode_session_info, decode_session_info)
  \/ Exchange("umask", {18, 511}, encode_umask, decode_umask)
ExchangeInheritedDescriptors ==
  \/ Exchange("inherited descriptor", InheritedFdMetadata, encode_inherited_fd_metadata, decode_inherited_fd_metadata)
  \/ Exchange("inherited key", FdKeys, EncodeKey, inherited_fd_from_key)
ExchangeCredentials ==
  \/ Exchange("credential", {0, 1000, CREDENTIAL_ID_UNCHANGED}, encode_credential_id, decode_credential_id)
  \/ Exchange("credential pair", {<<1, 2>>, <<CREDENTIAL_ID_UNCHANGED, 5>>}, encode_credential_pair, decode_credential_pair)
  \/ Exchange("groups", Groups, encode_group_list, decode_group_list)
  \/ Exchange("spawn credentials", SpawnCredentials, encode_spawn_credentials, decode_spawn_credentials)
  \/ Exchange("wait", {w \in WaitRequest : wait_options_valid(w.options)}, encode_wait_request, decode_wait_request)
ExchangeWaits ==
  \/ Exchange("guarded wait", [request : WaitRequest, epoch : {0, 3}],
              encode_guarded_wait_request, decode_guarded_wait_request)
  \/ Exchange("wait result", WaitResult, encode_wait_result, decode_wait_result)
  \/ Exchange("wait info", WaitInfo, encode_wait_info, decode_wait_info)
  \/ Exchange("process id", {1, 40000}, encode_process_id_request, decode_process_id_request)
  \/ Exchange("signal send", SignalSendRequest, encode_signal_send_request, decode_signal_send_request)
ExchangeChildCpuUsages ==
  Exchange("child cpu usage", WaitedChildCpuUsage, encode_waited_child_cpu_usage, decode_waited_child_cpu_usage)
ExchangeChildUsages ==
  \/ Exchange("child usage", Usage, encode_usage, decode_usage)
  \/ Exchange("child observation", Observation, encode_observation, decode_observation)
ExchangeTerminalRequests ==
  \/ Exchange("process group", {<<1, 2>>}, encode_process_group_request, decode_process_group_request)
  \/ Exchange("process info", ProcessInfo, encode_process_info, decode_process_info)
  \/ Exchange("terminal flow", 0..4, encode_terminal_flow, decode_terminal_flow)
  \/ Exchange("terminal flush", 0..4, encode_terminal_flush, decode_terminal_flush)
  \/ Exchange("terminal attributes", {TerminalAttributes_sane}, encode_terminal_attributes, decode_terminal_attributes)
  \/ Exchange("signal delivery", SignalDelivery, encode_signal_delivery, decode_signal_delivery)
ExchangeResourceLimits ==
  \/ Exchange("resource limit", ResourceLimit, encode_resource_limit, decode_resource_limit)
  \/ Exchange("resource limit request", ResourceLimitRequest, encode_resource_limit_request, decode_resource_limit_request)
  \/ Exchange("file length", {0, 70000}, encode_file_length, decode_file_length)
  \/ Exchange("file flags", {0, 97}, encode_file_flags, decode_file_flags)
  \/ Exchange("file flags update", {0, 1, 32, 96} \X {0, 32, 64}, encode_file_flags_update, decode_file_flags_update)
ExchangeIdentities ==
  Exchange("identity", SystemIdentity, encode_identity, decode_identity)
ExchangeTerminalSettings ==
  \/ Exchange("read settings", TerminalReadSettings, encode_terminal_read_settings, decode_terminal_read_settings)
  \/ Exchange("window size", TerminalWindowSize, encode_terminal_window_size, decode_terminal_window_size)
ExchangeTerminalLimits ==
  Exchange("terminal limits", Limits, encode_limits, decode_limits)
ExchangeOpensAt ==
  \/ Exchange("open at", OpenAtRequest, encode_open_at, decode_open_at)
  \/ Exchange("stat at", StatAtRequest, encode_stat_at, decode_stat_at)
ExchangeTruncatesAt ==
  \/ Exchange("truncate at", TruncateAtRequest, encode_truncate_at, decode_truncate_at)
  \/ Exchange("symlink at", SymlinkAtRequest, encode_symlink_at, decode_symlink_at)
ExchangeOwnersAt ==
  \/ Exchange("chown at", ChownAtRequest, encode_chown_at, decode_chown_at)
  \/ Exchange("access at", AccessAtRequest, encode_access_at, decode_access_at)
  \/ Exchange("file owner", {<<1, 2>>}, encode_file_owner, decode_file_owner)
ExchangeRenamesAt ==
  \/ Exchange("rename at", RenameAtRequest, encode_rename_at, decode_rename_at)
  \/ Exchange("link at", LinkAtRequest, encode_link_at, decode_link_at)
ExchangeReadScopes ==
  \/ Exchange("source info", SourceInfo, encode_source_info, decode_source_info)
  \/ Exchange("scoped open", {v \in ScopedOpen : Scoped(v)}, encode_open_at, decode_open)
ExchangeFileStatuses ==
  Exchange("file status", FileStatus, encode_file_status, decode_file_status)
ExchangeFileTimes ==
  \/ Exchange("file times", Change \X Change, encode_times, decode_times)
  \/ Exchange("file times at", [times : {<<<<0, 5, 7>>, <<2, 0, 0>>>>}, target : StatAtRequest], encode_at, decode_at)
ExchangeSemaphoreOpens ==
  \/ Exchange("object name", Names, encode_name, decode_name)
  \/ Exchange("semaphore open", SemaphoreOpen, encode_semaphore_open, decode_semaphore_open)
ExchangeSharedMemoryOpens ==
  Exchange("shared memory open", SharedMemoryOpen, encode_memory_open, decode_memory_open)
ExchangePtyNames ==
  Exchange("pty name", Components, encode_pty_name, decode_pty_name)
ExchangePtyFactories ==
  Exchange("pty factory", {"create"}, LAMBDA v : {CREATE_REQUEST}, decode_pty_factory)
ExchangeFifoWaits ==
  Exchange("fifo wait", WaitCondition, WaitCondition_encode, WaitCondition_decode)
ExchangeRecordLocks ==
  \/ Exchange("record lock", LockRequest, encode_request, decode_request)
  \/ Exchange("record lock reply", Reply, encode_reply, decode_reply)
ExchangeRecordLockWaits ==
  Exchange("record lock wait", [lock : LockRequest, epoch : {0, 3}], encode_lock_wait, decode_lock_wait)
ExchangeRecordLockExecs ==
  \/ Exchange("record lock exec", {1, 2} \X {0, 9}, encode_lock_exec, decode_lock_exec)
  \/ Exchange("record lock exec reply", {0, 9}, encode_lock_exec_reply, decode_lock_exec_reply)
ExchangeSignalMasks ==
  \/ Exchange("signal mask", {0, 9}, encode_signal_mask, decode_signal_mask)
  \/ Exchange("signal wait", {<<1, 2>>}, encode_signal_wait_request, decode_signal_wait_request)
  \/ Exchange("signal disposition", SignalDisposition, encode_signal_disposition, decode_signal_disposition)
  \/ Exchange("signal mask request", SignalMaskRequest, encode_signal_mask_request, decode_signal_mask_request)
  \/ Exchange("signal child options", 0..4, encode_signal_child_options, decode_signal_child_options)
ExchangeFaultDeliveries ==
  Exchange("fault delivery", Delivery, encode_fault, decode_fault)
ExchangeSignalOrigins ==
  Exchange("signal origin", Origin, encode_origin, decode_origin)
ExchangeSignalWaits ==
  \/ Exchange("accepted signal", Accepted, encode_accepted, decode_accepted)
  \/ Exchange("timed signal wait", {<<1, 2, 3>>, <<1, 2, -1>>}, encode_timed_request, decode_timed_request)
ExchangeIntervalTimers ==
  Exchange("interval timer", IntervalValue, encode_interval, decode_interval)
ExchangeProcessTimers ==
  \/ Exchange("timer create", [clock : Clock, notification : Notification], encode_create, decode_create)
  \/ Exchange("process timer create", [pid : {0, 7, MAX_PID + 1}, notification : Notification],
              encode_process_create, decode_process_create)
  \/ Exchange("timer value", Value, encode_value, decode_value)
  \/ Exchange("timer set", [id : {0, 3}, absolute : {0, 1}, value : Value], encode_set, decode_set)
ExchangeTimerEvents ==
  Exchange("timer event", Event, encode_event, decode_event)
ExchangeProcessClocks ==
  Exchange("process clock", Sample, encode_sample, decode_sample)
ExchangeCpuSleeps ==
  \/ Exchange("cpu sleep", SleepRequest, encode_sleep_request, decode_sleep_request)
  \/ Exchange("thread cpu sleep", {v \in SleepRequest : v.process = 0}, encode_sleep_request, decode_thread_request)
  \/ Exchange("cpu sleep reply", {0, 70000}, encode_sleep_reply, decode_sleep_reply)
  \/ Exchange("cpu sleep completion", {0, -1, -4095, -4096}, encode_completion, decode_completion)
ExchangeForkTokens ==
  Exchange("fork token", {0, 70000}, encode_token, decode_token)
ExchangeSocketOpenings ==
  \/ Exchange("socket connect reply", {0, 1}, ConnectReply_encode, ConnectReply_decode)
  \/ Exchange("socket accept", 0..2, Accept_encode, Accept_decode)
ExchangeSocketAddresses ==
  \/ Exchange("socket create", Create, Create_encode, Create_decode)
  \/ Exchange("socket address", Address, Address_encode, Address_decode)
ExchangeRecordFrames ==
  \/ Exchange("record frame", Frames, EncodeFrame, decode_frame)
  \/ Exchange("record reply", Replies, LAMBDA v : Reply_encode(v.reply, v.request),
              LAMBDA f : {[request |-> value.request, reply |-> r] : r \in Reply_decode(value.request, f)})
ExchangeRecordRoutes ==
  Exchange("record route", [length : {0, MAX_RECORD_SIZE, MAX_RECORD_SIZE + 1}, address : Address],
           encode_route, decode_route)
ExchangeTransferRequests ==
  Exchange("transfer request", TransferRequest, EncodeTransfer, decode_transfer)
ExchangeTransferReceipts ==
  Exchange("transfer received", ReceiveReply, EncodeReceived, LAMBDA f : DecodeReceived(value, f))
ExchangeTransferDeliveries ==
  Exchange("transfer delivery", Deliveries, LAMBDA v : delivery_reply(v.offset, v.metadata),
           LAMBDA f : {[value EXCEPT !.metadata = m] : m \in decode_delivery(value.offset, value.maximum, f)})

Next ==
  \/ ExchangeSessionMessages \/ ExchangeInheritedDescriptors \/ ExchangeCredentials
  \/ ExchangeWaits \/ ExchangeChildCpuUsages \/ ExchangeChildUsages
  \/ ExchangeTerminalRequests \/ ExchangeResourceLimits \/ ExchangeIdentities
  \/ ExchangeTerminalSettings \/ ExchangeTerminalLimits \/ ExchangeOpensAt
  \/ ExchangeTruncatesAt \/ ExchangeOwnersAt \/ ExchangeRenamesAt
  \/ ExchangeReadScopes \/ ExchangeFileStatuses \/ ExchangeFileTimes
  \/ ExchangeSemaphoreOpens \/ ExchangeSharedMemoryOpens \/ ExchangePtyNames
  \/ ExchangePtyFactories \/ ExchangeFifoWaits \/ ExchangeRecordLocks
  \/ ExchangeRecordLockWaits \/ ExchangeRecordLockExecs \/ ExchangeSignalMasks
  \/ ExchangeFaultDeliveries \/ ExchangeSignalOrigins \/ ExchangeSignalWaits
  \/ ExchangeIntervalTimers \/ ExchangeProcessTimers \/ ExchangeTimerEvents
  \/ ExchangeProcessClocks \/ ExchangeCpuSleeps \/ ExchangeForkTokens
  \/ ExchangeSocketOpenings \/ ExchangeSocketAddresses \/ ExchangeRecordFrames
  \/ ExchangeRecordRoutes \/ ExchangeTransferRequests \/ ExchangeTransferReceipts
  \/ ExchangeTransferDeliveries
=============================================================================
