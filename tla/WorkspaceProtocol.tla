-------------------------- MODULE WorkspaceProtocol --------------------------
(***************************************************************************)
(* The messages between applications and the workspace service:            *)
(* document delivery, notifications, control center cards, file panels,    *)
(* and the message header they travel in.                                  *)
(***************************************************************************)
EXTENDS Wire

MAGIC == 77
VERSION == 1
HEADER_LEN == 24
MAX_MESSAGE_LEN == 64 * 1024
MAX_CONTENT_TYPE_LEN == 127
MAX_BUNDLE_ID_LEN == 255
MAX_PATH_LEN == 4095
MAX_CONTROL_CENTER_ITEM_ID_LEN == 64
MAX_CONTROL_CENTER_CARD_TITLE_LEN == 96
MAX_CONTROL_CENTER_CARD_BODY_LEN == 2048
CONTROL_CENTER_CARD_PREFIX_LEN == 8
MAX_NOTIFICATION_TITLE_LEN == 128
MAX_NOTIFICATION_BODY_LEN == 1024
NOTIFICATION_PREFIX_LEN == 24
MAX_NOTIFICATION_SETTINGS_LEN == 16 * 1024
DOCUMENT_DELIVERY_MAGIC == 78
DOCUMENT_DELIVERY_PREFIX_LEN == 16
STATUS_CAPACITY_EXCEEDED == -28
OP_STATUS == 32768
OP_NOTIFICATION_POST == 1536
FILE_PANEL_MODE_OPEN == 1
FILE_PANEL_MODE_SAVE == 2
FILE_PANEL_REQUEST_PREFIX_LEN == 16
FILE_PANEL_RESULT_PREFIX_LEN == 24
FILE_PANEL_TOKEN_LEN == 16
FILE_PANEL_FINISH_PREFIX_LEN == 24
MAX_FILE_PANEL_ERROR_LEN == 1023
MAX_FILE_PANEL_TITLE_LEN == 255
MAX_FILE_PANEL_SUGGESTED_NAME_LEN == 255
MAX_FILE_PANEL_CONTENT_TYPES_LEN == 2047

-----------------------------------------------------------------------------
(* A document for an application to open.                                  *)

DocumentDelivery ==
  Vary([path |-> Plain(1), content_type |-> Plain(9)],
       [path |-> Strings(MAX_PATH_LEN), content_type |-> Strings(MAX_CONTENT_TYPE_LEN)])

encode_document_delivery(v) ==
  When(/\ v.path.n \in 1..MAX_PATH_LEN /\ v.content_type.n \in 1..MAX_CONTENT_TYPE_LEN
       /\ ~Nul(v.path) /\ ~Nul(v.content_type),
       Frame(DOCUMENT_DELIVERY_PREFIX_LEN + v.path.n + v.content_type.n,
             {LE(0, 8, DOCUMENT_DELIVERY_MAGIC), Lengths(8, <<v.path, v.content_type>>)},
             Run(DOCUMENT_DELIVERY_PREFIX_LEN, <<v.path, v.content_type>>)))

decode_document_delivery(f) ==
  LET ns == LengthsAt(f, 8, 2)
      ts == Cut(f, DOCUMENT_DELIVERY_PREFIX_LEN, ns) IN
  When(/\ f.size >= DOCUMENT_DELIVERY_PREFIX_LEN
       /\ Num(f, 0, 8) = DOCUMENT_DELIVERY_MAGIC /\ Zero(f, 12, 4)
       /\ f.size = DOCUMENT_DELIVERY_PREFIX_LEN + Sum(ns) /\ ns[1] # 0 /\ ns[2] # 0
       /\ Utf8(ts[1]) /\ Utf8(ts[2])
       /\ ns[1] <= MAX_PATH_LEN /\ ns[2] <= MAX_CONTENT_TYPE_LEN
       /\ ~Nul(ts[1]) /\ ~Nul(ts[2]),
       [path |-> ts[1], content_type |-> ts[2]])

-----------------------------------------------------------------------------
(* Notifications and their settings.                                       *)

NotificationSettings ==
  [focus_enabled : {0, 1},
   disabled_bundle_ids : Strings(MAX_BUNDLE_ID_LEN)
     \union {T(n, "lines") : n \in {511, MAX_NOTIFICATION_SETTINGS_LEN - 4, MAX_NOTIFICATION_SETTINGS_LEN - 3}}
     \union {T(2, "blank line")}]

\* Every line is a bundle identifier.
BundleLines(t) ==
  t.n = 0 \/ t.kind = "lines" \/ (t.n <= MAX_BUNDLE_ID_LEN /\ ~Control(t) /\ t.kind # "blank line")

encode_notification_settings(v) ==
  LET total == 4 + v.disabled_bundle_ids.n IN
  When(total <= MAX_NOTIFICATION_SETTINGS_LEN /\ BundleLines(v.disabled_bundle_ids),
       Frame(total, {U8(0, v.focus_enabled)}, {<<4, v.disabled_bundle_ids>>}))

decode_notification_settings(f) ==
  LET t == Text(f, 4, f.size - 4) IN
  When(/\ f.size \in 4..MAX_NOTIFICATION_SETTINGS_LEN
       /\ u8(f, 0) <= 1 /\ Zero(f, 1, 3)
       /\ Utf8(t) /\ BundleLines(t),
       [focus_enabled |-> u8(f, 0), disabled_bundle_ids |-> t])

NotificationApplicationSetting == [enabled : {0, 1}, bundle_id : Strings(MAX_BUNDLE_ID_LEN)]

encode_notification_application_setting(v) ==
  When(v.bundle_id.n \in 1..MAX_BUNDLE_ID_LEN /\ ~Control(v.bundle_id),
       Frame(1 + v.bundle_id.n, {U8(0, v.enabled)}, {<<1, v.bundle_id>>}))

decode_notification_application_setting(f) ==
  LET t == Text(f, 1, f.size - 1) IN
  When(/\ f.size > 0 /\ u8(f, 0) <= 1
       /\ Utf8(t) /\ t.n \in 1..MAX_BUNDLE_ID_LEN /\ ~Control(t),
       [enabled |-> u8(f, 0), bundle_id |-> t])

Notification ==
  Vary([id |-> 7, created_at |-> 9, read |-> 1, bundle_id |-> Plain(3), title |-> Plain(2), body |-> Plain(5)],
       [id |-> {0, 300}, read |-> {0, 1}, bundle_id |-> Strings(MAX_BUNDLE_ID_LEN),
        title |-> Strings(MAX_NOTIFICATION_TITLE_LEN), body |-> Strings(MAX_NOTIFICATION_BODY_LEN)])

validate_utf8_field(t, maximum) == t.n \in 1..maximum /\ Utf8(t)

decode_notification(f) ==
  LET ns == LengthsAt(f, 18, 3)
      ts == Cut(f, NOTIFICATION_PREFIX_LEN, ns) IN
  When(/\ f.size >= NOTIFICATION_PREFIX_LEN /\ u8(f, 16) <= 1 /\ u8(f, 17) = 0
       /\ f.size = NOTIFICATION_PREFIX_LEN + Sum(ns)
       /\ validate_utf8_field(ts[1], MAX_BUNDLE_ID_LEN)
       /\ validate_utf8_field(ts[2], MAX_NOTIFICATION_TITLE_LEN)
       /\ validate_utf8_field(ts[3], MAX_NOTIFICATION_BODY_LEN),
       [id |-> u64(f, 0), created_at |-> u64(f, 8), read |-> u8(f, 16),
        bundle_id |-> ts[1], title |-> ts[2], body |-> ts[3]])

\* Mutant of encode_notification: the table of lengths starts one entry late.
encodeNotificationLate(v) ==
  LET ts == <<v.bundle_id, v.title, v.body>> IN
  When(\A i \in DOMAIN ts : ts[i].n \in 1..<<MAX_BUNDLE_ID_LEN, MAX_NOTIFICATION_TITLE_LEN, MAX_NOTIFICATION_BODY_LEN>>[i],
       Frame(NOTIFICATION_PREFIX_LEN + Sum(Sizes(ts)),
             {U64(0, v.id), U64(8, v.created_at), U8(16, v.read), Lengths(20, ts)},
             Run(NOTIFICATION_PREFIX_LEN, ts)))

encode_notification(v) ==
  LET ts == <<v.bundle_id, v.title, v.body>>
      limits == <<MAX_BUNDLE_ID_LEN, MAX_NOTIFICATION_TITLE_LEN, MAX_NOTIFICATION_BODY_LEN>>
      total == NOTIFICATION_PREFIX_LEN + Sum(Sizes(ts)) IN
  IF (\E i \in DOMAIN ts : ts[i].n \notin 1..limits[i]) \/ total > MAX_MESSAGE_LEN - HEADER_LEN
  THEN {}
  ELSE Checked(Frame(total,
                     {U64(0, v.id), U64(8, v.created_at), U8(16, v.read), Lengths(18, ts)},
                     Run(NOTIFICATION_PREFIX_LEN, ts)),
               decode_notification)

-----------------------------------------------------------------------------
(* Control center cards.                                                   *)

ControlCenterCard ==
  Vary([bundle_id |-> Plain(3), item_id |-> Plain(2), title |-> Plain(5), body |-> Plain(7)],
       [bundle_id |-> Strings(MAX_BUNDLE_ID_LEN), item_id |-> Strings(MAX_CONTROL_CENTER_ITEM_ID_LEN),
        title |-> Strings(MAX_CONTROL_CENTER_CARD_TITLE_LEN),
        body |-> Strings(MAX_CONTROL_CENTER_CARD_BODY_LEN)])

decode_control_center_card(f) ==
  LET ns == LengthsAt(f, 0, 4)
      ts == Cut(f, CONTROL_CENTER_CARD_PREFIX_LEN, ns) IN
  When(/\ f.size >= CONTROL_CENTER_CARD_PREFIX_LEN
       /\ f.size = CONTROL_CENTER_CARD_PREFIX_LEN + Sum(ns)
       /\ validate_utf8_field(ts[1], MAX_BUNDLE_ID_LEN)
       /\ validate_utf8_field(ts[2], MAX_CONTROL_CENTER_ITEM_ID_LEN)
       /\ validate_utf8_field(ts[3], MAX_CONTROL_CENTER_CARD_TITLE_LEN)
       /\ validate_utf8_field(ts[4], MAX_CONTROL_CENTER_CARD_BODY_LEN),
       [bundle_id |-> ts[1], item_id |-> ts[2], title |-> ts[3], body |-> ts[4]])

encode_control_center_card(v) ==
  LET ts == <<v.bundle_id, v.item_id, v.title, v.body>>
      limits == <<MAX_BUNDLE_ID_LEN, MAX_CONTROL_CENTER_ITEM_ID_LEN,
                  MAX_CONTROL_CENTER_CARD_TITLE_LEN, MAX_CONTROL_CENTER_CARD_BODY_LEN>>
      total == CONTROL_CENTER_CARD_PREFIX_LEN + Sum(Sizes(ts)) IN
  IF (\E i \in DOMAIN ts : ts[i].n \notin 1..limits[i]) \/ total > MAX_MESSAGE_LEN - HEADER_LEN
  THEN {}
  ELSE Checked(Frame(total, {Lengths(0, ts)}, Run(CONTROL_CENTER_CARD_PREFIX_LEN, ts)),
               decode_control_center_card)

-----------------------------------------------------------------------------
(* The file panel.                                                         *)

FilePanelFinish ==
  [token : {0, 5}, status : {-1, 0, 1, 2}, error : Strings(MAX_FILE_PANEL_ERROR_LEN)]

decode_file_panel_finish(f) ==
  LET n == u16(f, 20)
      status == i32(f, 16)
      t == Text(f, FILE_PANEL_FINISH_PREFIX_LEN, n) IN
  When(/\ f.size >= FILE_PANEL_FINISH_PREFIX_LEN
       /\ status \in {0, 1} /\ u16(f, 22) = 0
       /\ n <= MAX_FILE_PANEL_ERROR_LEN
       /\ f.size = FILE_PANEL_FINISH_PREFIX_LEN + n
       /\ ~(status = 0 /\ n # 0) /\ Utf8(t),
       [token |-> Num(f, 0, FILE_PANEL_TOKEN_LEN), status |-> status, error |-> t])

encode_file_panel_finish(v) ==
  IF /\ v.status \in {0, 1} /\ v.error.n <= MAX_FILE_PANEL_ERROR_LEN
     /\ ~(v.status = 0 /\ v.error.n # 0)
  THEN Checked(Frame(FILE_PANEL_FINISH_PREFIX_LEN + v.error.n,
                     {LE(0, FILE_PANEL_TOKEN_LEN, v.token), U32(16, v.status), U16(20, v.error.n)},
                     {<<FILE_PANEL_FINISH_PREFIX_LEN, v.error>>}),
               decode_file_panel_finish)
  ELSE {}

FilePanelRequest ==
  LET base == [mode |-> FILE_PANEL_MODE_SAVE, title |-> Plain(3), initial_directory |-> Plain(4),
               suggested_name |-> Plain(2), allowed_content_types |-> Plain(6), executable |-> Plain(5)] IN
  Vary(base, [mode |-> 0..3, title |-> Strings(MAX_FILE_PANEL_TITLE_LEN),
              initial_directory |-> Strings(MAX_PATH_LEN),
              suggested_name |-> Strings(MAX_FILE_PANEL_SUGGESTED_NAME_LEN),
              allowed_content_types |-> Strings(MAX_FILE_PANEL_CONTENT_TYPES_LEN),
              executable |-> Strings(MAX_PATH_LEN)])
  \union {[base EXCEPT !.mode = FILE_PANEL_MODE_OPEN, !.suggested_name = Empty]}

\* Mutant of decode_file_panel_request: the reserved word is not looked at.
decodeRequestAnyReserved(f) ==
  LET ns == LengthsAt(f, 2, 5)
      ts == Cut(f, FILE_PANEL_REQUEST_PREFIX_LEN, ns) IN
  When(f.size = FILE_PANEL_REQUEST_PREFIX_LEN + Sum(ns) /\ u16(f, 0) \in 1..2 /\ \A i \in 1..5 : Utf8(ts[i]),
       [mode |-> u16(f, 0), title |-> ts[1], initial_directory |-> ts[2], suggested_name |-> ts[3],
        allowed_content_types |-> ts[4], executable |-> ts[5]])

decode_file_panel_request(f) ==
  LET mode == u16(f, 0)
      ns == LengthsAt(f, 2, 5)
      ts == Cut(f, FILE_PANEL_REQUEST_PREFIX_LEN, ns) IN
  When(/\ f.size >= FILE_PANEL_REQUEST_PREFIX_LEN
       /\ u32(f, 12) = 0 /\ mode \in {FILE_PANEL_MODE_OPEN, FILE_PANEL_MODE_SAVE}
       /\ ns[1] <= MAX_FILE_PANEL_TITLE_LEN /\ ns[2] <= MAX_PATH_LEN
       /\ ns[3] <= MAX_FILE_PANEL_SUGGESTED_NAME_LEN
       /\ ns[4] <= MAX_FILE_PANEL_CONTENT_TYPES_LEN
       /\ ns[5] \in 1..MAX_PATH_LEN
       /\ f.size = FILE_PANEL_REQUEST_PREFIX_LEN + Sum(ns)
       /\ \A i \in 1..5 : Utf8(ts[i])
       /\ ~(mode = FILE_PANEL_MODE_OPEN /\ ts[3].n # 0),
       [mode |-> mode, title |-> ts[1], initial_directory |-> ts[2], suggested_name |-> ts[3],
        allowed_content_types |-> ts[4], executable |-> ts[5]])

encode_file_panel_request(v) ==
  LET ts == <<v.title, v.initial_directory, v.suggested_name, v.allowed_content_types, v.executable>>
      payload_len == FILE_PANEL_REQUEST_PREFIX_LEN + Sum(Sizes(ts)) IN
  IF payload_len <= MAX_MESSAGE_LEN - HEADER_LEN
  THEN Checked(Frame(payload_len, {U16(0, v.mode), Lengths(2, ts)}, Run(FILE_PANEL_REQUEST_PREFIX_LEN, ts)),
               decode_file_panel_request)
  ELSE {}

FilePanelResult == [status : {-1, 0, 1}, token : {0, 5}, path : Strings(MAX_PATH_LEN)]

decode_file_panel_result(f) ==
  LET status == i32(f, 0)
      n == u16(f, 4)
      t == Text(f, FILE_PANEL_RESULT_PREFIX_LEN, n) IN
  When(/\ f.size >= FILE_PANEL_RESULT_PREFIX_LEN
       /\ u16(f, 6) = 0 /\ n <= MAX_PATH_LEN
       /\ f.size = FILE_PANEL_RESULT_PREFIX_LEN + n
       /\ (status = 0) = (n # 0) /\ Utf8(t),
       [status |-> status, token |-> Num(f, 8, FILE_PANEL_TOKEN_LEN), path |-> t])

encode_file_panel_result(v) ==
  Checked(Frame(FILE_PANEL_RESULT_PREFIX_LEN + v.path.n,
                {U32(0, v.status), U16(4, v.path.n), LE(8, FILE_PANEL_TOKEN_LEN, v.token)},
                {<<FILE_PANEL_RESULT_PREFIX_LEN, v.path>>}),
          decode_file_panel_result)

-----------------------------------------------------------------------------
(* The header, and the status reply.                                       *)

Message ==
  Vary([opcode |-> OP_NOTIFICATION_POST, request_id |-> 9, flags |-> 0, payload |-> Plain(3)],
       [request_id |-> {0, 9}, flags |-> {0, 1}, payload |-> Strings(MAX_MESSAGE_LEN - HEADER_LEN)])

decode(f) ==
  LET n == u32(f, 16) IN
  When(/\ f.size >= HEADER_LEN /\ u32(f, 0) = MAGIC /\ u16(f, 4) = VERSION
       /\ f.size = HEADER_LEN + n /\ f.size <= MAX_MESSAGE_LEN,
       [opcode |-> u16(f, 6), request_id |-> u64(f, 8), flags |-> u32(f, 20),
        payload |-> Text(f, HEADER_LEN, n)])

Header(v, n) ==
  {U32(0, MAGIC), U16(4, VERSION), U16(6, v.opcode), U64(8, v.request_id), U32(16, n), U32(20, v.flags)}

encode(v) ==
  When(HEADER_LEN + v.payload.n <= MAX_MESSAGE_LEN,
       Frame(HEADER_LEN + v.payload.n, Header(v, v.payload.n), {<<HEADER_LEN, v.payload>>}))

Status ==
  [request_id : {9}, status : {0, -1, STATUS_CAPACITY_EXCEEDED}, generation : {0, 3}, value : {0, 4}]

encode_status(v) ==
  {Envelope(HEADER_LEN + 24,
            Header([opcode |-> OP_STATUS, request_id |-> v.request_id, flags |-> 0], 24),
            HEADER_LEN,
            Frame(24, {U32(0, v.status), U64(8, v.generation), U64(16, v.value)}, {}))}

decode_status(f) ==
  LET p == Slice(f, HEADER_LEN, 24) IN
  UNION {When(m.opcode = OP_STATUS /\ m.payload.n = 24,
              [request_id |-> m.request_id, status |-> i32(p, 0), generation |-> u64(p, 8), value |-> u64(p, 16)]) :
           m \in decode(f)}

-----------------------------------------------------------------------------
ExchangeDocumentDeliveries ==
  Exchange("document delivery", DocumentDelivery, encode_document_delivery, decode_document_delivery)
ExchangeNotificationSettings ==
  \/ Exchange("notification settings", NotificationSettings,
              encode_notification_settings, decode_notification_settings)
  \/ Exchange("notification application setting", NotificationApplicationSetting,
              encode_notification_application_setting, decode_notification_application_setting)
ExchangeNotifications ==
  Exchange("notification", Notification, encode_notification, decode_notification)
ExchangeCardsAndFinishes ==
  \/ Exchange("control center card", ControlCenterCard, encode_control_center_card, decode_control_center_card)
  \/ Exchange("file panel finish", FilePanelFinish, encode_file_panel_finish, decode_file_panel_finish)
ExchangeFilePanels ==
  \/ Exchange("file panel request", FilePanelRequest, encode_file_panel_request, decode_file_panel_request)
  \/ Exchange("file panel result", FilePanelResult, encode_file_panel_result, decode_file_panel_result)
ExchangeWorkspaceMessages ==
  \/ Exchange("workspace message", Message, encode, decode)
  \/ Exchange("workspace status", Status, encode_status, decode_status)

Next ==
  \/ ExchangeDocumentDeliveries \/ ExchangeNotificationSettings
  \/ ExchangeNotifications \/ ExchangeCardsAndFinishes \/ ExchangeFilePanels
  \/ ExchangeWorkspaceMessages
=============================================================================
