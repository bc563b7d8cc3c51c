------------------------- MODULE FilesystemProtocol -------------------------
(***************************************************************************)
(* The messages of the filesystem service.  Texts of kind "path" contain   *)
(* a '/', and begin with it; "dots" is '.' or '..'.                        *)
(***************************************************************************)
EXTENDS Wire

MAGIC == 1
VERSION == 1
HEADER_LEN == 64
MAX_MESSAGE_LEN == 256 * 1024
MAX_SUPPLEMENTARY_GROUPS == 32
CREDENTIALS_HEADER_LEN == 12
OPEN_STATUS_FLAGS_ALL == 3
OP_DEVICE_NODE_CREATE == 44
OP_DEVICE_NODE_SET_ATTRIBUTES == 45
OP_DEVICE_NODE_REMOVE == 46
DIRENT_HEADER_LEN == 16
CURSOR_DIRENT_HEADER_LEN == 24
DIRENT_HAS_CURSOR == 1
METADATA_LEN == 8
NODE_STATUS_LEN == 112
MAX_NAME_LEN == 255

Names == Strings(MAX_NAME_LEN) \union {T(4, "path"), T(1, "dots"), T(2, "dots")}
\* A name with no zero byte and no '/'.
Component(t) == t.n \in 1..MAX_NAME_LEN /\ ~Nul(t) /\ t.kind # "path"

-----------------------------------------------------------------------------
(* The message: a header and a payload.                                    *)

HeaderFields ==
  {<<"opcode", 6, 2>>, <<"request_id", 8, 8>>, <<"mount_id", 16, 8>>, <<"node_id", 24, 8>>, <<"open_id", 32, 8>>,
   <<"offset", 40, 8>>, <<"length", 48, 4>>, <<"flags", 52, 4>>, <<"mode", 60, 4>>}
Header ==
  Vary([opcode |-> 8, request_id |-> 7, mount_id |-> 6, node_id |-> 5, open_id |-> 4, offset |-> 70000, length |-> 3,
        flags |-> 2, status |-> 0, mode |-> 1, payload |-> Plain(3)],
       [length |-> {2, 4}, status |-> {-22, 65536}, mode |-> {0, 70000}])
  \union {[opcode |-> 8, request_id |-> 7, mount_id |-> 6, node_id |-> 5, open_id |-> 4, offset |-> 0, length |-> n,
           flags |-> 0, status |-> 0, mode |-> 0, payload |-> Plain(n)] :
            n \in {0, MAX_MESSAGE_LEN - HEADER_LEN, MAX_MESSAGE_LEN - HEADER_LEN + 1}}
encode(v) ==
  When(v.payload.n <= MAX_MESSAGE_LEN - HEADER_LEN /\ v.payload.n = v.length,
       Headed(HEADER_LEN, {U32(0, MAGIC), U16(4, VERSION), U32(56, v.status)} \union Put(v, HeaderFields), v.payload))
decode(f) ==
  LET length == u32(f, 48)
      total == HEADER_LEN + length IN
  When(f.size >= HEADER_LEN /\ u32(f, 0) = MAGIC /\ u16(f, 4) = VERSION /\ total <= f.size /\ total <= MAX_MESSAGE_LEN,
       Get(f, HeaderFields) @@ [status |-> i32(f, 56), payload |-> Text(f, HEADER_LEN, length)])

Credentials ==
  [effective_uid : {0, 1000}, effective_gid : {0, 70000},
   supplementary_groups : {<<>>, <<5>>, <<5, 70000, 5>>, [i \in 1..MAX_SUPPLEMENTARY_GROUPS |-> i],
                           [i \in 1..(MAX_SUPPLEMENTARY_GROUPS + 1) |-> i]},
   payload : {Headed(0, {}, Plain(n)) : n \in {0, 3, MAX_MESSAGE_LEN}}]
encode_credentials_payload(v) ==
  LET count == Len(v.supplementary_groups)
      len == CREDENTIALS_HEADER_LEN + 4 * count IN
  When(count <= MAX_SUPPLEMENTARY_GROUPS /\ len + v.payload.size <= MAX_MESSAGE_LEN - HEADER_LEN,
       Envelope(len + v.payload.size,
                {U32(0, v.effective_uid), U32(4, v.effective_gid), U32(8, count)}
                  \union {U32(CREDENTIALS_HEADER_LEN + 4 * (i - 1), v.supplementary_groups[i]) : i \in 1..count},
                len, v.payload))
decode_credentials_payload(f) ==
  LET count == u32(f, 8)
      len == CREDENTIALS_HEADER_LEN + 4 * count IN
  When(f.size >= CREDENTIALS_HEADER_LEN /\ count <= MAX_SUPPLEMENTARY_GROUPS /\ f.size >= len,
       [effective_uid |-> u32(f, 0), effective_gid |-> u32(f, 4),
        supplementary_groups |-> [i \in 1..count |-> u32(f, CREDENTIALS_HEADER_LEN + 4 * (i - 1))],
        payload |-> Slice(f, len, f.size - len)])

-----------------------------------------------------------------------------
(* The status of a node, its owner, directory entries and times.           *)

Nanoseconds == {0, 999999999, 1000000000}
NodeStatus ==
  Vary([device |-> 1, node_id |-> 2, size |-> 70000, blocks |-> 3, block_size |-> 512, kind |-> 1, mode |-> 420, uid |-> 4,
        gid |-> 5, link_count |-> 6, special_device |-> 7, atime |-> 8, atime_ns |-> 9, mtime |-> 10, mtime_ns |-> 11,
        ctime |-> 12, ctime_ns |-> 13],
       [atime_ns |-> Nanoseconds, mtime_ns |-> Nanoseconds, ctime_ns |-> Nanoseconds])
StatusFields ==
  {<<"device", 0, 8>>, <<"node_id", 8, 8>>, <<"size", 16, 8>>, <<"blocks", 24, 8>>, <<"block_size", 32, 4>>, <<"kind", 36, 4>>,
   <<"mode", 40, 4>>, <<"uid", 44, 4>>, <<"gid", 48, 4>>, <<"link_count", 52, 4>>, <<"special_device", 56, 8>>,
   <<"atime", 64, 8>>, <<"atime_ns", 72, 4>>, <<"mtime", 80, 8>>, <<"mtime_ns", 88, 4>>, <<"ctime", 96, 8>>, <<"ctime_ns", 104, 4>>}
node_status_times_are_valid(v) == \A k \in {"atime_ns", "mtime_ns", "ctime_ns"} : v[k] < 1000000000
encode_node_status(v) == When(node_status_times_are_valid(v), Frame(NODE_STATUS_LEN, Put(v, StatusFields), {}))
decode_node_status(f) ==
  When(/\ f.size = NODE_STATUS_LEN /\ Zero(f, 76, 4) /\ Zero(f, 92, 4) /\ Zero(f, 108, 4)
       /\ node_status_times_are_valid(Get(f, StatusFields)), Get(f, StatusFields))

NodeMetadata == [uid : {0, 1000}, gid : {0, 70000}]
encode_metadata(v) == {Frame(METADATA_LEN, {U32(0, v.uid), U32(4, v.gid)}, {})}
decode_metadata(f) == When(f.size = METADATA_LEN, [uid |-> u32(f, 0), gid |-> u32(f, 4)])

DirEntryHeader == [node_id : {1, 70000}, kind : {2}, name : Names, next_position : {<<>>, <<0>>, <<65536>>}]
DirEntryLen(cursor) == IF cursor THEN CURSOR_DIRENT_HEADER_LEN ELSE DIRENT_HEADER_LEN
encode_dir_entry_record(v) ==
  LET cursor == v.next_position # <<>> IN
  When(Component(v.name),
       Headed(DirEntryLen(cursor),
              {U64(0, v.node_id), U32(8, v.kind), U16(12, v.name.n), U16(14, IF cursor THEN DIRENT_HAS_CURSOR ELSE 0)}
                \union {U64(DIRENT_HEADER_LEN, p) : p \in {v.next_position[i] : i \in DOMAIN v.next_position}}, v.name))
decode_dir_entry(f) ==
  LET cursor == u16(f, 14) = DIRENT_HAS_CURSOR
      len == DirEntryLen(cursor)
      name == Text(f, len, u16(f, 12)) IN
  When(/\ f.size >= DIRENT_HEADER_LEN /\ u16(f, 14) \in {0, DIRENT_HAS_CURSOR}
       /\ u16(f, 12) \in 1..MAX_NAME_LEN /\ len + name.n <= f.size /\ Component(name),
       [node_id |-> u64(f, 0), kind |-> u32(f, 8), name |-> name,
        next_position |-> IF cursor THEN <<u64(f, DIRENT_HEADER_LEN)>> ELSE <<>>])

TIME_UPDATE_LEN == 32
Set == 0
TimestampUpdate == {<<Set, 70000, n>> : n \in Nanoseconds} \union {<<tag, 0, 0>> : tag \in {1, 2}}
valid_one(x) == x[1] = Set => x[3] < 1000000000
encode_time_update(v) ==
  When(valid_one(v[1]) /\ valid_one(v[2]),
       Frame(TIME_UPDATE_LEN,
             UNION {{U32(o, v[1 + (o \div 16)][1]), U64(o + 4, v[1 + (o \div 16)][2]), U32(o + 12, v[1 + (o \div 16)][3])} : o \in {0, 16}},
             {}))
decode_one(f, o) ==
  LET x == <<u32(f, o), u64(f, o + 4), u32(f, o + 12)>> IN
  When(IF x[1] = Set THEN x[3] < 1000000000 ELSE x[1] \in {1, 2} /\ x[2] = 0 /\ x[3] = 0, x)
decode_time_update(f) ==
  IF f.size < TIME_UPDATE_LEN THEN {} ELSE {<<a, b>> : a \in decode_one(f, 0), b \in decode_one(f, 16)}

encode_update(v) ==
  When(Within(v.mask, OPEN_STATUS_FLAGS_ALL) /\ Within(v.flags, v.mask), Frame(8, {U32(0, v.mask), U32(4, v.flags)}, {}))
decode_update(f) ==
  LET v == [mask |-> u32(f, 0), flags |-> u32(f, 4)] IN When(f.size = 8 /\ encode_update(v) # {}, v)

LIMITS_LEN == 16
LimitFields ==
  {<<"name_bytes_max", 0, 4>>, <<"path_bytes_max", 4, 4>>, <<"link_count_max", 8, 4>>, <<"filesystem_block_bytes", 12, 4>>}
Limits == [name_bytes_max : {0, 255}, path_bytes_max : {4096}, link_count_max : {1, 70000}, filesystem_block_bytes : {512}]
Limits_encode(v) == {Frame(LIMITS_LEN, Put(v, LimitFields), {})}
Limits_decode(f) == When(f.size = LIMITS_LEN, Get(f, LimitFields))

-----------------------------------------------------------------------------
(* Device nodes.                                                           *)

REGISTRATION_LEN == 32
REMOVAL_LEN == 32
ATTRIBUTES_LEN == 16
NAMESPACE_LEN == 24
ModeOk(mode) == mode \in 0..4095
NodeName(t) == Component(t) /\ t.kind # "dots"

NamespaceRequest ==
  Vary([opcode |-> OP_DEVICE_NODE_CREATE, kind |-> 1, mode |-> 420, uid |-> 3, gid |-> 70000, name |-> Plain(4)],
       [kind |-> 0..3, mode |-> {4095, 4096}, name |-> Names, opcode |-> {1, OP_DEVICE_NODE_REMOVE}])
  \union Vary([opcode |-> OP_DEVICE_NODE_SET_ATTRIBUTES, kind |-> 0, mode |-> 420, uid |-> 3, gid |-> 4, name |-> Plain(4)],
              [kind |-> {0, 1}])
  \union Vary([opcode |-> OP_DEVICE_NODE_REMOVE, kind |-> 0, mode |-> 0, uid |-> 0, gid |-> 0, name |-> Plain(4)],
              [kind |-> {0, 1}, mode |-> {1}, uid |-> {1}, gid |-> {1}])
namespace_valid(v) ==
  /\ NodeName(v.name) /\ ModeOk(v.mode)
  /\ CASE v.opcode = OP_DEVICE_NODE_CREATE -> v.kind \in {1, 2}
       [] v.opcode = OP_DEVICE_NODE_SET_ATTRIBUTES -> v.kind = 0
       [] v.opcode = OP_DEVICE_NODE_REMOVE -> v.kind = 0 /\ v.mode = 0 /\ v.uid = 0 /\ v.gid = 0
       [] OTHER -> FALSE
encode_namespace(v) ==
  When(namespace_valid(v),
       Headed(NAMESPACE_LEN,
              {U16(0, VERSION), U16(2, v.kind), U32(4, v.mode), U32(8, v.uid), U32(12, v.gid), U16(16, v.name.n)}, v.name))
decode_namespace(opcode, f) ==
  LET v == [opcode |-> opcode, kind |-> u16(f, 2), mode |-> u32(f, 4), uid |-> u32(f, 8), gid |-> u32(f, 12),
            name |-> Rest(f, NAMESPACE_LEN)] IN
  IF f.size < NAMESPACE_LEN THEN {}
  ELSE When(u16(f, 0) = VERSION /\ f.size = NAMESPACE_LEN + u16(f, 16) /\ Zero(f, 18, 6) /\ namespace_valid(v), v)

Registration ==
  Vary([mode |-> 420, uid |-> 3, gid |-> 70000, special_device |-> 9, name |-> Plain(4)],
       [mode |-> {4095, 4096}, name |-> Names])
registration_valid(v) == ModeOk(v.mode) /\ NodeName(v.name)
encode_registration(v) ==
  When(registration_valid(v),
       Headed(REGISTRATION_LEN,
              {U16(0, VERSION), U32(4, v.mode), U32(8, v.uid), U32(12, v.gid), U64(16, v.special_device), U16(24, v.name.n)}, v.name))
decode_registration(f) ==
  LET v == [mode |-> u32(f, 4), uid |-> u32(f, 8), gid |-> u32(f, 12), special_device |-> u64(f, 16),
            name |-> Rest(f, REGISTRATION_LEN)] IN
  IF f.size < REGISTRATION_LEN THEN {}
  ELSE When(/\ u16(f, 0) = VERSION /\ f.size = REGISTRATION_LEN + u16(f, 24) /\ Zero(f, 2, 2) /\ Zero(f, 26, 6)
            /\ registration_valid(v), v)

Removal == Vary([device |-> 70000, node_id |-> 9, name |-> Plain(4)], [node_id |-> {0}, name |-> Names])
removal_valid(v) == v.node_id # 0 /\ NodeName(v.name)
encode_removal(v) ==
  When(removal_valid(v),
       Headed(REMOVAL_LEN, {U16(0, VERSION), U64(8, v.device), U64(16, v.node_id), U16(24, v.name.n)}, v.name))
decode_removal(f) ==
  LET v == [device |-> u64(f, 8), node_id |-> u64(f, 16), name |-> Rest(f, REMOVAL_LEN)] IN
  IF f.size < REMOVAL_LEN THEN {}
  ELSE When(/\ u16(f, 0) = VERSION /\ f.size = REMOVAL_LEN + u16(f, 24) /\ Zero(f, 2, 6) /\ Zero(f, 26, 6)
            /\ removal_valid(v), v)

Attributes == {[mode |-> m, uid |-> 3, gid |-> 70000, identity |-> r] : m \in {420, 4095, 4096}, r \in Removal}
encode_attributes(v) ==
  IF ~ModeOk(v.mode) THEN {}
  ELSE {Envelope(ATTRIBUTES_LEN + r.size, {U16(0, VERSION), U16(2, v.mode), U32(4, v.uid), U32(8, v.gid)}, ATTRIBUTES_LEN, r) :
          r \in encode_removal(v.identity)}
decode_attributes(f) ==
  IF f.size < ATTRIBUTES_LEN \/ u16(f, 0) # VERSION \/ ~ModeOk(u16(f, 2)) \/ ~Zero(f, 12, 4) THEN {}
  ELSE {[mode |-> u16(f, 2), uid |-> u32(f, 4), gid |-> u32(f, 8), identity |-> r] :
          r \in decode_removal(Slice(f, ATTRIBUTES_LEN, f.size - ATTRIBUTES_LEN))}

\* Requests without a name.  Some encoders leave the checks to the decoder:
\* their values are the ones it accepts.
DVMT == 2
DVOB == 3
DVOP == 4
MAX_RESPONSE_LEN == 4096
encode_device_metadata(rights) == {Frame(16, {U32(0, DVMT), U16(4, VERSION), U64(8, rights)}, {})}
decode_device_metadata(f) == When(f.size = 16 /\ u32(f, 0) = DVMT /\ u16(f, 4) = VERSION /\ Zero(f, 6, 2), u64(f, 8))
encode_observation(v) == {Frame(24, {U32(0, DVOB), U16(4, VERSION), U64(8, v.selector), U32(16, v.capacity)}, {})}
decode_observation(f) ==
  When(/\ f.size = 24 /\ u32(f, 0) = DVOB /\ u16(f, 4) = VERSION /\ Zero(f, 6, 2) /\ Zero(f, 20, 4)
       /\ u32(f, 16) <= MAX_RESPONSE_LEN, [selector |-> u64(f, 8), capacity |-> u32(f, 16)])
encode_device_open(v) == {Frame(24, {U32(0, DVOP), U16(4, VERSION), U64(8, v.rights), U64(16, v.options)}, {})}
decode_device_open(f) ==
  When(f.size = 24 /\ u32(f, 0) = DVOP /\ u16(f, 4) = VERSION /\ Zero(f, 6, 2), [rights |-> u64(f, 8), options |-> u64(f, 16)])

-----------------------------------------------------------------------------
(* Storage: the inventory, reservations, the status of a volume.           *)

RECORD_LEN == 320
MAX_RECORDS == 4096
MSI1 == 5
DISK == 1
VOLUME == 3
OUTSIDE_PARTITIONS == 4
READ_ONLY == 1
ACCESS_KNOWN == 2
USAGE_KNOWN == 4
CAPACITY_FROM_PARTITION_MAP == 8
FLAGS == 15

InventoryRequest == {[generation |-> 0, index |-> 0]} \union [generation : {1, 70000}, index : {0, 1, MAX_RECORDS}]
encode_inventory_request(v) == {Frame(16, {U64(0, v.generation), U64(8, v.index)}, {})}
decode_inventory_request(f) ==
  LET v == [generation |-> u64(f, 0), index |-> u64(f, 8)] IN
  When(f.size = 16 /\ v.index <= MAX_RECORDS /\ (v.generation # 0 \/ v.index = 0), v)

Record_end(generation, warning) ==
  [generation |-> generation, warning |-> warning, kind |-> 0, id |-> 0, parent |-> 0, capacity |-> 0, used |-> 0, flags |-> 0,
   start |-> 0, sector_bytes |-> 0, name |-> Empty, format |-> Empty, mount |-> Empty]
Record ==
  {Record_end(g, w) : g \in {0, 9}, w \in {0, 5, Huge + 3 * Step}}
  \union Vary(Record_end(9, 5), [id |-> {1}, flags |-> {1}, name |-> {Plain(1)}])
  \union Vary([generation |-> 9, warning |-> 5, kind |-> VOLUME, id |-> 3, parent |-> 2, capacity |-> 20, used |-> 0,
               flags |-> ACCESS_KNOWN, start |-> 70000, sector_bytes |-> 512, name |-> Plain(6), format |-> Plain(2),
               mount |-> T(5, "path")],
              [generation |-> {0}, kind |-> {1, 2, 4, 5}, id |-> {0, 2}, used |-> {1}, flags |-> 0..16,
               name |-> Strings(64), format |-> Strings(16),
               mount |-> {Empty, Plain(3), T(160, "path"), T(161, "path"), T(2, "nul")}])
  \union [generation : {9}, warning : {0}, kind : 1..4, id : {3}, parent : {2}, capacity : {20}, used : {0, 20, 21},
          flags : 0..15, start : {0}, sector_bytes : {512}, name : {Plain(6)}, format : {Empty}, mount : {Empty}]
Record_valid(v) ==
  /\ v.generation # 0 /\ v.warning < Huge + 3 * Step
  /\ IF v.kind = 0 THEN v = Record_end(v.generation, v.warning)
     ELSE /\ v.kind <= OUTSIDE_PARTITIONS /\ Within(v.flags, FLAGS)
          /\ HasBit(v.flags, CAPACITY_FROM_PARTITION_MAP) => v.kind = DISK
          /\ HasBit(v.flags, USAGE_KNOWN) => v.kind = VOLUME
          /\ HasBit(v.flags, READ_ONLY) => HasBit(v.flags, ACCESS_KNOWN)
          /\ IF HasBit(v.flags, USAGE_KNOWN) THEN v.used <= v.capacity ELSE v.used = 0
          /\ v.name.n \in 1..64 /\ v.format.n <= 16 /\ v.mount.n <= 160
          /\ ~Nul(v.name) /\ ~Nul(v.format) /\ ~Nul(v.mount)
          /\ v.id # 0 /\ v.id # v.parent
          /\ v.mount.n = 0 \/ (v.kind = VOLUME /\ v.mount.kind = "path")
RecordFields ==
  {<<"kind", 6, 1>>, <<"generation", 8, 8>>, <<"id", 16, 8>>, <<"parent", 24, 8>>, <<"capacity", 32, 8>>, <<"used", 40, 8>>,
   <<"flags", 48, 4>>, <<"warning", 52, 4>>, <<"start", 56, 8>>, <<"sector_bytes", 64, 4>>}
Record_encode(v) ==
  When(Record_valid(v),
       Frame(RECORD_LEN, {U32(0, MSI1), U16(4, 1), U16(68, v.name.n), U16(70, v.format.n), U16(72, v.mount.n)} \union Put(v, RecordFields),
             {<<80, v.name>>, <<144, v.format>>, <<160, v.mount>>}))
Record_decode(f) ==
  LET text(o, l, max) ==
        LET n == u16(f, l) IN When(n <= max /\ Zero(f, o + n, max - n) /\ Utf8(Text(f, o, n)), Text(f, o, n)) IN
  IF f.size # RECORD_LEN \/ u32(f, 0) # MSI1 \/ u16(f, 4) # 1 \/ ~Zero(f, 7, 1) \/ ~Zero(f, 74, 6) THEN {}
  ELSE {v \in {Get(f, RecordFields) @@ [name |-> a, format |-> b, mount |-> c] :
                 a \in text(80, 68, 64), b \in text(144, 70, 16), c \in text(160, 72, 160)} : Record_valid(v)}

RSRV == 6
encode_reservation(v) == {Frame(32, {U64(0, RSRV), U64(8, v.generation), U64(16, v.disk)}, {})}
decode_reservation(f) ==
  LET v == [generation |-> u64(f, 8), disk |-> u64(f, 16)] IN
  When(f.size = 32 /\ u64(f, 0) = RSRV /\ Zero(f, 24, 8) /\ v.generation # 0 /\ v.disk # 0, v)

REGION_LEN == 48
MFS1RGNW == 7
RegionFields == {<<"generation", 8, 8>>, <<"disk", 16, 8>>, <<"first", 24, 8>>, <<"sectors", 32, 8>>, <<"epoch", 40, 8>>}
Region == [generation : {1, 70000}, disk : {5}, first : {0, 70000}, sectors : {1, 70000}, epoch : {3}]
encode_region(v) == {Frame(REGION_LEN, {U64(0, MFS1RGNW)} \union Put(v, RegionFields), {})}
decode_region(f) ==
  LET v == Get(f, RegionFields) IN
  When(f.size = REGION_LEN /\ u64(f, 0) = MFS1RGNW /\ \A k \in {"generation", "disk", "epoch", "sectors"} : v[k] # 0, v)

VOLUME_LEN == 56
VolumeFields ==
  {<<"block_bytes", 0, 4>>, <<"flags", 4, 4>>, <<"blocks", 8, 8>>, <<"free_blocks", 16, 8>>, <<"inodes", 24, 8>>,
   <<"free_inodes", 32, 8>>, <<"filesystem_id", 40, 8>>, <<"name_bytes_max", 48, 4>>}
Status == [block_bytes : {1, 512}, flags : {0, 1}, blocks : {9, 70000}, free_blocks : {0, 9}, inodes : {7}, free_inodes : {0, 7},
           filesystem_id : {3}, name_bytes_max : {255}]
Status_encode(v) == {Frame(VOLUME_LEN, Put(v, VolumeFields), {})}
Status_decode(f) ==
  LET v == Get(f, VolumeFields) IN
  When(/\ f.size = VOLUME_LEN /\ Zero(f, 52, 4) /\ v.block_bytes # 0 /\ v.name_bytes_max # 0 /\ Within(v.flags, READ_ONLY)
       /\ v.free_blocks <= v.blocks /\ v.free_inodes <= v.inodes, v)

-----------------------------------------------------------------------------
ExchangeFilesystemMessages ==
  Exchange("filesystem message", Header, encode, decode)
ExchangeCredentialsMessages ==
  Exchange("filesystem credentials", Credentials, encode_credentials_payload, decode_credentials_payload)
ExchangeNodeMessages ==
  \/ Exchange("node status", NodeStatus, encode_node_status, decode_node_status)
  \/ Exchange("node metadata", NodeMetadata, encode_metadata, decode_metadata)
ExchangeDirectoryEntries ==
  Exchange("directory entry", DirEntryHeader, encode_dir_entry_record, decode_dir_entry)
ExchangeTimeUpdates ==
  Exchange("time update", TimestampUpdate \X TimestampUpdate, encode_time_update, decode_time_update)
ExchangeFlagsUpdates ==
  Exchange("flags update", [mask : 0..4, flags : 0..4], encode_update, decode_update)
ExchangeLimitsOfObjects ==
  Exchange("object limits", Limits, Limits_encode, Limits_decode)
ExchangeDeviceNamespaces ==
  Exchange("device namespace", NamespaceRequest, encode_namespace, LAMBDA f : decode_namespace(value.opcode, f))
ExchangeDeviceRegistrations ==
  Exchange("device registration", Registration, encode_registration, decode_registration)
ExchangeDeviceRemovals ==
  Exchange("device removal", Removal, encode_removal, decode_removal)
ExchangeDeviceAttributes ==
  Exchange("device attributes", Attributes, encode_attributes, decode_attributes)
ExchangeDeviceMetadataReplies ==
  Exchange("device metadata", {0, 70000}, encode_device_metadata, decode_device_metadata)
ExchangeDeviceObservations ==
  Exchange("device observation", [selector : {0, 70000}, capacity : {0, MAX_RESPONSE_LEN}], encode_observation, decode_observation)
ExchangeDeviceOpens ==
  Exchange("device open", [rights : {0, 70000}, options : {0, 9}], encode_device_open, decode_device_open)
ExchangeInventories ==
  \/ Exchange("inventory request", InventoryRequest, encode_inventory_request, decode_inventory_request)
  \/ Exchange("inventory record", Record, Record_encode, Record_decode)
ExchangeStorageReservations ==
  Exchange("storage reservation", [generation : {1, 70000}, disk : {5}], encode_reservation, decode_reservation)
ExchangeStorageRegions ==
  Exchange("storage region", Region, encode_region, decode_region)
ExchangeVolumeStatuses ==
  Exchange("volume status", Status, Status_encode, Status_decode)

Next ==
  \/ ExchangeFilesystemMessages \/ ExchangeCredentialsMessages
  \/ ExchangeNodeMessages \/ ExchangeDirectoryEntries \/ ExchangeTimeUpdates
  \/ ExchangeFlagsUpdates \/ ExchangeLimitsOfObjects \/ ExchangeDeviceNamespaces
  \/ ExchangeDeviceRegistrations \/ ExchangeDeviceRemovals
  \/ ExchangeDeviceAttributes \/ ExchangeDeviceMetadataReplies
  \/ ExchangeDeviceObservations \/ ExchangeDeviceOpens \/ ExchangeInventories
  \/ ExchangeStorageReservations \/ ExchangeStorageRegions
  \/ ExchangeVolumeStatuses
=============================================================================
