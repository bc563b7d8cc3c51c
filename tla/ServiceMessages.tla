--------------------------- MODULE ServiceMessages ---------------------------
(***************************************************************************)
(* Messages between the host of Linux applications, its portal, the driver *)
(* manager and their clients.  They start alike: magic, version, opcode    *)
(* and the number of the request.  A layout gives the length of the fixed  *)
(* part, the fields in it, the texts behind it with the places of their    *)
(* lengths, and what the values must satisfy; the rest is reserved.        *)
(*                                                                         *)
(* Texts: "plain" is lower-case letters and digits, "upper" has upper-case *)
(* ones, "id" is two such parts with a dot between them and "dots" has an  *)
(* empty part; "path" is an absolute path without empty, "." or ".."       *)
(* parts, "hex" is lower-case hexadecimal digits.                          *)
(***************************************************************************)
EXTENDS Wire

LGUI == 1
MDRP == 2
DRVC == 3
VERSION == 1
HEADER_LEN == 16

write_header(v) == {U32(0, v.magic), U16(4, VERSION), U16(6, v.op), U64(8, v.request_id)}

Named(v, texts) == [i \in DOMAIN texts |-> v[texts[i][1]]]
At(x) == x[2]..(x[2] + x[3] - 1)

encode(v, size, fields, texts) ==
  LET ts == Named(v, texts) IN
  Frame(size + Sum(Sizes(ts)),
        write_header(v) \union Put(v, fields) \union {U16(texts[i][2], ts[i].n) : i \in DOMAIN texts}, Run(size, ts))
decode(f, magic, op, size, fields, texts) ==
  LET ns == [i \in DOMAIN texts |-> u16(f, texts[i][2])]
      used == UNION {At(x) : x \in fields} \union UNION {{texts[i][2], texts[i][2] + 1} : i \in DOMAIN texts}
      cut == Cut(f, size, ns)
      number(x) == IF x[1] = "status" THEN i32(f, x[2]) ELSE Num(f, x[2], x[3])
      v == [magic |-> magic, op |-> op, request_id |-> u64(f, 8)]
           @@ [k \in {x[1] : x \in fields} |-> number(CHOOSE x \in fields : x[1] = k)]
           @@ [k \in {texts[i][1] : i \in DOMAIN texts} |-> cut[CHOOSE i \in DOMAIN texts : texts[i][1] = k]] IN
  IF f.size < size THEN {}
  ELSE IF ~(u32(f, 0) = magic /\ u16(f, 4) = VERSION /\ u16(f, 6) = op /\ f.size = size + Sum(ns)) THEN {}
  ELSE When(/\ \A o \in HEADER_LEN..(size - 1) : o \notin used => Zero(f, o, 1)
            /\ \A i \in DOMAIN texts : Utf8(cut[i]), v)

-----------------------------------------------------------------------------
(* Hosting Linux applications.                                             *)

MAX_BUNDLE_ID_LEN == 128
MAX_USER_NAME_LEN == 64
Status == <<"status", 16, 4>>

valid_bundle_id(t) == t.n \in 1..MAX_BUNDLE_ID_LEN /\ t.kind \in {"plain", "id", "hex"}
valid_user_name(t) == t.n \in 1..MAX_USER_NAME_LEN /\ t.kind \in {"plain", "hex"}
valid_absolute_path(t) == t.kind = "path"
valid_sha256(t) == t.n = 64 /\ t.kind = "hex"

LaunchRequest == [op |-> 1, size |-> 24, fields |-> {<<"application", 16, 4>>}, texts |-> <<>>]
LinuxApplication == 1..3
StatusRequest == [op |-> 2, size |-> 24, fields |-> {<<"instance", 16, 8>>}, texts |-> <<>>]
BundleLaunchRequest == [op |-> 3, size |-> 24, fields |-> {}, texts |-> <<<<"bundle_id", 16>>, <<"user", 18>>>>]
PrepareBundleRequest ==
  [op |-> 4, size |-> 40, fields |-> {<<"rootfs_offset", 20, 8>>, <<"rootfs_size", 28, 8>>},
   texts |-> <<<<"bundle_id", 16>>, <<"source_path", 18>>, <<"rootfs_digest", 36>>>>]
LaunchResponse == [op |-> 32769, size |-> 32, fields |-> {Status, <<"instance", 24, 8>>}, texts |-> <<>>]
StatusResponse == [op |-> 32770, size |-> 32, fields |-> {Status, <<"running", 20, 4>>, <<"instance", 24, 8>>}, texts |-> <<>>]
BundleLaunchResponse == [LaunchResponse EXCEPT !.op = 32771]
PrepareBundleResponse == [op |-> 32772, size |-> 24, fields |-> {Status}, texts |-> <<>>]
GuiMessages ==
  {LaunchRequest, StatusRequest, BundleLaunchRequest, PrepareBundleRequest, LaunchResponse, StatusResponse,
   BundleLaunchResponse, PrepareBundleResponse}
GuiValid(v) ==
  CASE v.op = 1 -> v.application \in LinuxApplication
    [] v.op = 3 -> valid_bundle_id(v.bundle_id) /\ valid_user_name(v.user)
    [] v.op = 4 ->
         valid_bundle_id(v.bundle_id) /\ valid_absolute_path(v.source_path) /\ v.rootfs_size # 0 /\ valid_sha256(v.rootfs_digest)
    [] v.op = 32770 -> v.running <= 1
    [] OTHER -> TRUE

-----------------------------------------------------------------------------
(* The portal to directories, the network and storage.                     *)

MAX_PATH_LEN == 512
Session == <<"session_id", 16, 8>>

portal_bundle_id(t) == t.n \in 1..MAX_BUNDLE_ID_LEN /\ t.kind = "id"
portal_user_name(t) == t.n \in 1..MAX_USER_NAME_LEN /\ t.kind \in {"plain", "upper", "hex"}
valid_portal_path(t) == t.n \in 2..MAX_PATH_LEN /\ t.kind = "path"
valid_storage_target(t) == t.n \in 1..MAX_PATH_LEN /\ ~Control(t)

Access == {1, 3}
StorageAction == 1..3
GrantDirectoryRequest ==
  [op |-> 1, size |-> 40, fields |-> {Session, <<"access", 24, 4>>}, texts |-> <<<<"bundle_id", 28>>, <<"user", 30>>, <<"path", 32>>>>]
RequestNetworkRequest == [op |-> 2, size |-> 32, fields |-> {Session}, texts |-> <<<<"bundle_id", 24>>, <<"user", 26>>>>]
AuthorizeStorageRequest ==
  [op |-> 3, size |-> 32, fields |-> {Session, <<"action", 24, 2>>}, texts |-> <<<<"bundle_id", 26>>, <<"target", 28>>>>]
GrantDirectoryResponse == [op |-> 32769, size |-> 32, fields |-> {Status, <<"grant_id", 24, 8>>}, texts |-> <<>>]
RequestNetworkResponse == [op |-> 32770, size |-> 24, fields |-> {Status}, texts |-> <<>>]
AuthorizeStorageResponse == [op |-> 32771, size |-> 24, fields |-> {Status}, texts |-> <<>>]
PortalMessages ==
  {GrantDirectoryRequest, RequestNetworkRequest, AuthorizeStorageRequest, GrantDirectoryResponse, RequestNetworkResponse,
   AuthorizeStorageResponse}
PortalValid(v) ==
  /\ v.op \in 1..3 => v.session_id # 0 /\ portal_bundle_id(v.bundle_id)
  /\ v.op \in 1..2 => portal_user_name(v.user)
  /\ v.op = 1 => v.access \in Access /\ valid_portal_path(v.path)
  /\ v.op = 3 => v.action \in StorageAction /\ valid_storage_target(v.target)
  /\ v.op = 32769 => ((v.status = 0) <=> (v.grant_id # 0))

-----------------------------------------------------------------------------
(* Discovery of devices by a driver.                                       *)

Token == <<"token", 16, 8>>
DriverHello == [op |-> 1, size |-> 32, fields |-> {Token, <<"control_endpoint", 24, 8>>}, texts |-> <<>>]
StartDiscovery == [op |-> 2, size |-> 32, fields |-> {Token, <<"response_endpoint", 24, 8>>}, texts |-> <<>>]
DiscoveryComplete == [op |-> 32770, size |-> 24, fields |-> {Status}, texts |-> <<>>]
DriverMessages == {DriverHello, StartDiscovery, DiscoveryComplete}
DriverValid(v) == TRUE

-----------------------------------------------------------------------------
(* Messages around the limits: a good one, and others that differ from it  *)
(* in one field.                                                           *)

Good(k) ==
  CASE k \in {"bundle_id"} -> T(7, "id") [] k = "user" -> Plain(4) [] k \in {"source_path", "path"} -> T(5, "path")
    [] k = "rootfs_digest" -> T(64, "hex") [] k = "target" -> T(3, "path") [] OTHER -> 1
TextKinds == {"plain", "upper", "dots", "nul", "path"}
Others(k) ==
  CASE k = "status" -> {0, -28}
    [] k = "bundle_id" -> {Empty, T(128, "id"), T(129, "id")} \union {T(7, x) : x \in TextKinds}
    [] k = "user" -> {Empty, Plain(64), Plain(65), T(4, "upper"), T(4, "path")}
    [] k \in {"path", "target"} -> {Empty, T(1, "path"), T(512, "path"), T(513, "path"), T(6, "nul"), T(6, "control")}
    [] k = "source_path" -> {Empty, T(65535, "path"), T(6, "nul")}
    [] k = "rootfs_digest" -> {T(63, "hex"), T(64, "upper")}
    [] OTHER -> {0, 2, 3, 4, 70000}
Samples(magic, messages) ==
  UNION {LET names == {x[1] : x \in m.fields} \union {m.texts[i][1] : i \in DOMAIN m.texts}
             base == [magic |-> magic, op |-> m.op, request_id |-> 70000] @@ [k \in names |-> Good(k)]
             changed == [k \in names |-> Others(k)] IN
         {base} \union Vary(base, changed) : m \in messages}
\* A response without a grant, as a failed request has it.
Refused == [magic |-> MDRP, op |-> 32769, request_id |-> 1, status |-> -28, grant_id |-> 0]

Encoded(messages, v, valid) ==
  {encode(v, m.size, m.fields, m.texts) : m \in {m \in messages : valid /\ m.op = v.op}}
Decoded(magic, messages, f) ==
  UNION {decode(f, magic, m.op, m.size, m.fields, m.texts) : m \in {m \in messages : m.op = u16(f, 6)}}

ExchangeLinuxApplications ==
  Exchange("linux application", Samples(LGUI, GuiMessages), LAMBDA v : Encoded(GuiMessages, v, GuiValid(v)),
           LAMBDA f : {v \in Decoded(LGUI, GuiMessages, f) : GuiValid(v)})
ExchangeLinuxPortals ==
  Exchange("linux portal", {Refused} \union Samples(MDRP, PortalMessages), LAMBDA v : Encoded(PortalMessages, v, PortalValid(v)),
           LAMBDA f : {v \in Decoded(MDRP, PortalMessages, f) : PortalValid(v)})
ExchangeDriverMessages ==
  Exchange("driver", Samples(DRVC, DriverMessages), LAMBDA v : Encoded(DriverMessages, v, DriverValid(v)),
           LAMBDA f : {v \in Decoded(DRVC, DriverMessages, f) : DriverValid(v)})

Next ==
  \/ ExchangeLinuxApplications \/ ExchangeLinuxPortals \/ ExchangeDriverMessages
=============================================================================
