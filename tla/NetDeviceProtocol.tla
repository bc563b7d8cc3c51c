------------------------- MODULE NetDeviceProtocol -------------------------
(***************************************************************************)
(* The messages of network devices and of the network service: frames,     *)
(* statistics, ping, name resolution, TCP, TLS and HTTP. Addresses of four *)
(* and six bytes are numbers. "wide" is text beyond ASCII, "etag" a        *)
(* well-formed entity tag, "range" a well-formed byte range.               *)
(***************************************************************************)
EXTENDS Wire

MAGIC == 1
VERSION == 1
HEADER_LEN == 24
MAX_FRAME_LEN == 1514
INTERFACE_INFO_LEN == 64
DRIVER_NAME_LEN == 12
STATISTICS_LEN == 88
STATUS_LEN == 32
PING_REQUEST_LEN == 32
PING_RESULT_LEN == 40
RESOLVE_RESULT_LEN == 40
TCP_CONNECT_RESULT_LEN == 48
TCP_IO_RESULT_LEN == 40
TCP_RECEIVE_REQUEST_LEN == 40
TCP_CLOSE_REQUEST_LEN == 40
STACK_STATISTICS_LEN == 288
SECURITY_STATISTICS_LEN == 152
MAX_HOSTNAME_LEN == 253
MAX_TCP_IO_LEN == 4096

\* Requests, and the results that answer them.
Opcode ==
  LET requests == {1, 2, 3, 4} \union (257..260) \union (272..275) \union (288..291) \union (304..306) IN
  requests \union {32768 + r : r \in requests}
Result(r) == 32768 + r
GetInterfaceInfo == 1
TransmitFrame == 2
Ping == 257
GetStackStatistics == 258
ResolveIpv4 == 259
GetSecurityStatistics == 260
TcpConnect == 272
TcpSend == 273
TcpReceive == 274
TcpClose == 275
TlsConnect == 288
TlsSend == 289
TlsReceive == 290
TlsClose == 291
HttpRequest == 304
HttpRead == 305
HttpClose == 306

write_header(opcode, id, length) ==
  {U32(0, MAGIC), U16(4, VERSION), U16(6, opcode), U32(8, length), U64(16, id)}
\* The header is good and has the expected opcode.
Header_decode(f, expected) ==
  /\ f.size >= HEADER_LEN /\ u32(f, 0) = MAGIC /\ u16(f, 4) = VERSION
  /\ u16(f, 6) \in Opcode /\ u16(f, 6) = expected
  /\ u32(f, 8) = f.size /\ u32(f, 12) = 0

\* A message with the fields of v; one that ends with a text.  What a
\* decoder returns of a message whose header is good.
Id == {<<"request_id", 16, 8>>}
Message(opcode, v, length, fields) ==
  Frame(length, write_header(opcode, v.request_id, length) \union Put(v, fields), {})
Ending(opcode, v, base, fields, numbers, t) ==
  Headed(base, write_header(opcode, v.request_id, base + t.n) \union Put(v, fields) \union numbers, t)
Fields(f, fields) == Get(f, Id \union fields)
Status(f) == [status |-> i32(f, 24)]
Statuses == {0, -9, 65536}

-----------------------------------------------------------------------------
(* Devices: frames, interfaces, statistics.                                *)

encode_empty(v) == {Message(v.opcode, v, HEADER_LEN, {})}
decode_empty(expected, f) ==
  When(Header_decode(f, expected) /\ f.size = HEADER_LEN, [opcode |-> expected, request_id |-> u64(f, 16)])

encode_frame(v) ==
  When(v.frame.n <= MAX_FRAME_LEN, Ending(v.opcode, v, HEADER_LEN + 4, {}, {U32(HEADER_LEN, v.frame.n)}, v.frame))
decode_frame(expected, f) ==
  LET n == u32(f, HEADER_LEN) IN
  When(Header_decode(f, expected) /\ f.size >= HEADER_LEN + 4 /\ n <= MAX_FRAME_LEN /\ f.size = HEADER_LEN + 4 + n,
       [opcode |-> expected, request_id |-> u64(f, 16), frame |-> Rest(f, HEADER_LEN + 4)])

encode_status(v) == {Message(v.opcode, v, STATUS_LEN, {<<"status", 24, 4>>})}
decode_status(expected, f) ==
  When(Header_decode(f, expected) /\ f.size = STATUS_LEN /\ u32(f, 28) = 0,
       Fields(f, {}) @@ Status(f) @@ [opcode |-> expected])

InterfaceInfo ==
  [request_id : {7}, interface_id : {70000}, mac : {131586}, link_up : {0, 1}, mtu : {1500}, driver_id : {5}, device_id : {6},
   driver_name : {Plain(DRIVER_NAME_LEN), T(DRIVER_NAME_LEN, "nul")}]
InterfaceFields ==
  {<<"interface_id", 24, 8>>, <<"mac", 32, 6>>, <<"link_up", 38, 1>>, <<"mtu", 40, 2>>, <<"driver_id", 44, 4>>, <<"device_id", 48, 4>>}
encode_interface_info(v) == {Ending(Result(GetInterfaceInfo), v, 52, InterfaceFields, {}, v.driver_name)}
decode_interface_info(f) ==
  When(Header_decode(f, Result(GetInterfaceInfo)) /\ f.size = INTERFACE_INFO_LEN /\ Zero(f, 39, 1) /\ Zero(f, 42, 2),
       [Fields(f, InterfaceFields) EXCEPT !.link_up = IF @ # 0 THEN 1 ELSE 0] @@ [driver_name |-> Rest(f, 52)])

\* Statistics are counters in a row.
Counters(k) == {[i \in 1..k |-> IF i = j THEN 70000 ELSE i] : j \in {1, k}}
PutCounters(opcode, v, length) ==
  {Frame(length, write_header(opcode, v[1], length) \union {U64(24 + 8 * (i - 1), v[2][i]) : i \in DOMAIN v[2]}, {})}
GetCounters(opcode, f, length, k) ==
  When(Header_decode(f, opcode) /\ f.size = length, <<u64(f, 16), [i \in 1..k |-> u64(f, 24 + 8 * (i - 1))]>>)
DeviceStatistics == 8
StackStatistics == 33
SecurityStatistics == 16
encode_statistics(opcode, v) == PutCounters(opcode, v, STATISTICS_LEN)
decode_statistics(opcode, f) == GetCounters(opcode, f, STATISTICS_LEN, DeviceStatistics)
encode_stack_statistics(v) == PutCounters(Result(GetStackStatistics), v, STACK_STATISTICS_LEN)
decode_stack_statistics(f) == GetCounters(Result(GetStackStatistics), f, STACK_STATISTICS_LEN, StackStatistics)
encode_security_statistics(v) == PutCounters(Result(GetSecurityStatistics), v, SECURITY_STATISTICS_LEN)
decode_security_statistics(f) == GetCounters(Result(GetSecurityStatistics), f, SECURITY_STATISTICS_LEN, SecurityStatistics)

-----------------------------------------------------------------------------
(* Ping, resolution, TCP.                                                  *)

encode_ping(v) == {Message(Ping, v, PING_REQUEST_LEN, {<<"address", 24, 4>>})}
decode_ping(f) ==
  When(Header_decode(f, Ping) /\ f.size = PING_REQUEST_LEN /\ Zero(f, 28, 4), Fields(f, {<<"address", 24, 4>>}))
encode_ping_result(v) == {Message(Result(Ping), v, PING_RESULT_LEN, {<<"status", 24, 4>>, <<"rtt_ms", 32, 8>>})}
decode_ping_result(f) ==
  When(Header_decode(f, Result(Ping)) /\ f.size = PING_RESULT_LEN /\ Zero(f, 28, 4), Fields(f, {<<"rtt_ms", 32, 8>>}) @@ Status(f))

Resolve == [request_id : {7}, timeout_ms : {70000}, hostname : Strings(MAX_HOSTNAME_LEN)]
HostOk(t) == t.n \in 1..MAX_HOSTNAME_LEN
encode_resolve_ipv4(v) ==
  When(HostOk(v.hostname), Ending(ResolveIpv4, v, 32, {<<"timeout_ms", 24, 4>>}, {U16(28, v.hostname.n)}, v.hostname))
decode_resolve_ipv4(f) ==
  When(/\ Header_decode(f, ResolveIpv4) /\ f.size >= 32 /\ Zero(f, 30, 2)
       /\ u16(f, 28) \in 1..MAX_HOSTNAME_LEN /\ f.size = 32 + u16(f, 28) /\ Utf8(Rest(f, 32)),
       Fields(f, {<<"timeout_ms", 24, 4>>}) @@ [hostname |-> Rest(f, 32)])

Resolved == {<<"from_cache", 28, 4>>, <<"address", 32, 4>>}
encode_resolve_ipv4_result(v) == {Message(Result(ResolveIpv4), v, RESOLVE_RESULT_LEN, {<<"status", 24, 4>>} \union Resolved)}
decode_resolve_ipv4_result(f) ==
  When(Header_decode(f, Result(ResolveIpv4)) /\ f.size = RESOLVE_RESULT_LEN /\ Zero(f, 36, 4) /\ u32(f, 28) <= 1,
       Fields(f, Resolved) @@ Status(f))

ConnectFields == {<<"timeout_ms", 24, 4>>, <<"port", 28, 2>>}
Connect == {r @@ [port |-> 443] : r \in Resolve \union Vary([request_id |-> 7, timeout_ms |-> 5, hostname |-> T(2, "wide")], [timeout_ms |-> {5}])}
encode_tcp_connect(v) ==
  When(HostOk(v.hostname), Ending(TcpConnect, v, 32, ConnectFields, {U16(30, v.hostname.n)}, v.hostname))
decode_tcp_connect(f) ==
  When(/\ Header_decode(f, TcpConnect) /\ f.size >= 32 /\ u16(f, 30) \in 1..MAX_HOSTNAME_LEN
       /\ f.size = 32 + u16(f, 30) /\ Utf8(Rest(f, 32)), Fields(f, ConnectFields) @@ [hostname |-> Rest(f, 32)])
Connected == {<<"handle", 32, 8>>, <<"address", 40, 4>>, <<"port", 44, 2>>}
encode_tcp_connect_result(v) == {Message(Result(TcpConnect), v, TCP_CONNECT_RESULT_LEN, {<<"status", 24, 4>>} \union Connected)}
decode_tcp_connect_result(f) ==
  When(Header_decode(f, Result(TcpConnect)) /\ f.size = TCP_CONNECT_RESULT_LEN /\ Zero(f, 28, 4) /\ Zero(f, 46, 2),
       Fields(f, Connected) @@ Status(f))

\* Requests to send, receive and close: those of TLS have the layout of
\* those of TCP and opcodes of their own.
Stream == {<<"handle", 24, 8>>, <<"timeout_ms", 32, 4>>}
Sent == [request_id : {7}, handle : {70000}, timeout_ms : {9}, data : Bytes(MAX_TCP_IO_LEN)]
Asked == [request_id : {7}, handle : {70000}, timeout_ms : {9}, maximum : {0, MAX_TCP_IO_LEN, MAX_TCP_IO_LEN + 1}]
PutSend(opcode, v) ==
  When(v.data.n <= MAX_TCP_IO_LEN, Ending(opcode, v, 40, Stream, {U32(36, v.data.n)}, v.data))
GetSend(opcode, f) ==
  When(Header_decode(f, opcode) /\ f.size >= 40 /\ u32(f, 36) <= MAX_TCP_IO_LEN /\ f.size = 40 + u32(f, 36),
       Fields(f, Stream) @@ [data |-> Rest(f, 40)])
PutReceive(opcode, v) ==
  When(v.maximum <= MAX_TCP_IO_LEN, Message(opcode, v, TCP_RECEIVE_REQUEST_LEN, Stream \union {<<"maximum", 36, 4>>}))
GetReceive(opcode, f) ==
  When(Header_decode(f, opcode) /\ f.size = TCP_RECEIVE_REQUEST_LEN /\ u32(f, 36) <= MAX_TCP_IO_LEN,
       Fields(f, Stream \union {<<"maximum", 36, 4>>}))
PutClose(opcode, v) == {Message(opcode, v, TCP_CLOSE_REQUEST_LEN, Stream)}
GetClose(opcode, f) ==
  When(Header_decode(f, opcode) /\ f.size = TCP_CLOSE_REQUEST_LEN /\ Zero(f, 36, 4), Fields(f, Stream))
encode_tcp_send(v) == PutSend(TcpSend, v)
decode_tcp_send(f) == GetSend(TcpSend, f)
encode_tcp_receive(v) == PutReceive(TcpReceive, v)
decode_tcp_receive(f) == GetReceive(TcpReceive, f)
encode_tcp_close(v) == PutClose(TcpClose, v)
decode_tcp_close(f) == GetClose(TcpClose, f)

IoResult(ops) ==
  [opcode : {Result(o) : o \in ops}, request_id : {7}, status : Statuses, transferred : {0, 70000}]
encode_tcp_io_result(v) ==
  When(v.opcode \in {Result(TcpSend), Result(TcpClose)},
       Message(v.opcode, v, TCP_IO_RESULT_LEN, {<<"status", 24, 4>>, <<"transferred", 32, 4>>}))
decode_tcp_io_result(expected, f) ==
  When(Header_decode(f, expected) /\ f.size = TCP_IO_RESULT_LEN /\ Zero(f, 28, 4) /\ Zero(f, 36, 4),
       Fields(f, {<<"transferred", 32, 4>>}) @@ Status(f) @@ [opcode |-> expected])
encode_tcp_receive_result(v) ==
  When(v.data.n <= MAX_TCP_IO_LEN,
       Ending(Result(TcpReceive), v, 40, {<<"status", 24, 4>>, <<"closed", 28, 4>>}, {U32(32, v.data.n)}, v.data))
decode_tcp_receive_result(f) ==
  LET n == u32(f, 32) IN
  When(/\ Header_decode(f, Result(TcpReceive)) /\ f.size >= 40 /\ Zero(f, 36, 4) /\ u32(f, 28) <= 1
       /\ n <= MAX_TCP_IO_LEN /\ f.size = 40 + n,
       Fields(f, {<<"closed", 28, 4>>}) @@ Status(f) @@ [data |-> Rest(f, 40)])

-----------------------------------------------------------------------------
(* TLS.                                                                    *)

TLS_CONNECT_BASE_LEN == 40
TLS_CONNECT_RESULT_BASE_LEN == 80
TLS_IO_RESULT_LEN == 48
TLS_RECEIVE_RESULT_BASE_LEN == 48
MAX_CERTIFICATE_NAME_LEN == 512
TlsFailure == 0..18
validate_hostname(t) == HostOk(t) /\ ~Nul(t) /\ t.kind \notin {"wide", "bad"}
validate_certificate_name(t) == t.n <= MAX_CERTIFICATE_NAME_LEN /\ ~Control(t)

encode_tls_connect(v) ==
  When(validate_hostname(v.hostname),
       Ending(TlsConnect, v, TLS_CONNECT_BASE_LEN, ConnectFields, {U16(32, v.hostname.n)}, v.hostname))
decode_tls_connect(f) ==
  When(/\ Header_decode(f, TlsConnect) /\ f.size >= TLS_CONNECT_BASE_LEN /\ Zero(f, 30, 2) /\ Zero(f, 34, 6)
       /\ f.size = TLS_CONNECT_BASE_LEN + u16(f, 32) /\ validate_hostname(Rest(f, TLS_CONNECT_BASE_LEN)),
       Fields(f, ConnectFields) @@ [hostname |-> Rest(f, TLS_CONNECT_BASE_LEN)])

TlsConnected ==
  {<<"failure", 28, 2>>, <<"handle", 32, 8>>, <<"address", 40, 4>>, <<"port", 44, 2>>, <<"protocol_version", 46, 2>>,
   <<"cipher_suite", 48, 2>>, <<"not_before", 64, 8>>, <<"not_after", 72, 8>>}
TlsConnectResult ==
  Vary([request_id |-> 7, status |-> 0, failure |-> 0, handle |-> 70000, address |-> 5, port |-> 443, protocol_version |-> 772,
        cipher_suite |-> 4865, not_before |-> 8, not_after |-> 9, texts |-> <<Plain(5), Plain(6), Plain(7)>>],
       [status |-> Statuses, failure |-> {18},
        texts |-> {<<h, Plain(6), Plain(7)>> : h \in Strings(MAX_HOSTNAME_LEN)}
                    \union {<<Plain(5), s, Empty>> : s \in Strings(MAX_CERTIFICATE_NAME_LEN)}
                    \union {<<Empty, Empty, s>> : s \in Strings(MAX_CERTIFICATE_NAME_LEN)}])
TlsTextsOk(ts) ==
  /\ ts[1].n > 0 => validate_hostname(ts[1])
  /\ \A i \in 2..3 : validate_certificate_name(ts[i])
encode_tls_connect_result(v) ==
  LET length == TLS_CONNECT_RESULT_BASE_LEN + Sum(Sizes(v.texts)) IN
  When(TlsTextsOk(v.texts),
       Frame(length, write_header(Result(TlsConnect), v.request_id, length) \union {U32(24, v.status)} \union Put(v, TlsConnected)
                       \union {Lengths(50, v.texts)}, Run(TLS_CONNECT_RESULT_BASE_LEN, v.texts)))
decode_tls_connect_result(f) ==
  LET lengths == LengthsAt(f, 50, 3)
      texts == Cut(f, TLS_CONNECT_RESULT_BASE_LEN, lengths) IN
  When(/\ Header_decode(f, Result(TlsConnect)) /\ f.size >= TLS_CONNECT_RESULT_BASE_LEN /\ Zero(f, 30, 2) /\ Zero(f, 56, 8)
       /\ u16(f, 28) \in TlsFailure
       /\ lengths[1] <= MAX_HOSTNAME_LEN /\ lengths[2] <= MAX_CERTIFICATE_NAME_LEN /\ lengths[3] <= MAX_CERTIFICATE_NAME_LEN
       /\ f.size = TLS_CONNECT_RESULT_BASE_LEN + Sum(lengths)
       /\ (\A i \in 1..3 : Utf8(texts[i])) /\ TlsTextsOk(texts),
       Fields(f, TlsConnected) @@ Status(f) @@ [texts |-> texts])

encode_tls_send(v) == PutSend(TlsSend, v)
decode_tls_data_request(f) == GetSend(TlsSend, f)
encode_tls_receive(v) == PutReceive(TlsReceive, v)
decode_tls_receive(f) == GetReceive(TlsReceive, f)
encode_tls_close(v) == PutClose(TlsClose, v)
decode_tls_close(f) == GetClose(TlsClose, f)

TlsIo == {<<"failure", 28, 2>>, <<"transferred", 32, 4>>, <<"handle", 40, 8>>}
encode_tls_io_result(v) ==
  When(v.opcode \in {Result(TlsSend), Result(TlsClose)},
       Message(v.opcode, v, TLS_IO_RESULT_LEN, {<<"status", 24, 4>>} \union TlsIo))
decode_tls_io_result(expected, f) ==
  When(/\ Header_decode(f, expected) /\ f.size = TLS_IO_RESULT_LEN /\ Zero(f, 30, 2) /\ Zero(f, 36, 4)
       /\ u16(f, 28) \in TlsFailure, Fields(f, TlsIo) @@ Status(f) @@ [opcode |-> expected])

TlsReceived == {<<"failure", 28, 2>>, <<"closed", 30, 2>>, <<"handle", 40, 8>>}
ReceiveResult == [request_id : {7}, status : Statuses, closed : {0, 1}, data : Bytes(MAX_TCP_IO_LEN)]
encode_tls_receive_result(v) ==
  When(v.data.n <= MAX_TCP_IO_LEN,
       Ending(Result(TlsReceive), v, TLS_RECEIVE_RESULT_BASE_LEN, {<<"status", 24, 4>>} \union TlsReceived, {U32(32, v.data.n)}, v.data))
decode_tls_receive_result(f) ==
  LET n == u32(f, 32) IN
  When(/\ Header_decode(f, Result(TlsReceive)) /\ f.size >= TLS_RECEIVE_RESULT_BASE_LEN
       /\ u16(f, 30) <= 1 /\ Zero(f, 36, 4) /\ n <= MAX_TCP_IO_LEN /\ f.size = TLS_RECEIVE_RESULT_BASE_LEN + n
       /\ u16(f, 28) \in TlsFailure,
       Fields(f, TlsReceived) @@ Status(f) @@ [data |-> Rest(f, TLS_RECEIVE_RESULT_BASE_LEN)])

-----------------------------------------------------------------------------
(* HTTP.                                                                   *)

HTTP_REQUEST_BASE_LEN == 48
HTTP_REQUEST_RESULT_BASE_LEN == 56
HTTP_READ_REQUEST_LEN == 40
HTTP_READ_RESULT_BASE_LEN == 48
HTTP_CLOSE_REQUEST_LEN == 40
MAX_HTTP_URL_LEN == 2048
MAX_HTTP_CONTENT_TYPE_LEN == 256
MAX_HTTP_ETAG_LEN == 128
MAX_HTTP_RANGE_LEN == 64
MAX_HTTP_IPC_DATA_LEN == 4096
HttpMethod == {1, 2}
HttpStream == {1, 2}
HttpFailure == 0..12
validate_text(t, maximum) == t.n <= maximum /\ ~Control(t)
validate_etag(t) == t.n <= MAX_HTTP_ETAG_LEN /\ (t.n = 0 \/ t.kind = "etag")
validate_range(t) == t.n <= MAX_HTTP_RANGE_LEN /\ (t.n = 0 \/ t.kind = "range")

\* texts: URL, content type, entity tag, range, body.
HttpRequests ==
  LET typical == <<Plain(20), Plain(9), T(4, "etag"), T(8, "range"), Plain(3)>> IN
  {[request_id |-> 7, method |-> m, timeout_ms |-> 70000, texts |-> typical] : m \in HttpMethod}
  \union {[request_id |-> 7, method |-> 1, timeout_ms |-> 5, texts |-> [typical EXCEPT ![x[1]] = x[2]]] :
            x \in ({1} \X Strings(MAX_HTTP_URL_LEN)) \union ({2} \X Strings(MAX_HTTP_CONTENT_TYPE_LEN))
                  \union ({3} \X {Empty, Plain(2), T(MAX_HTTP_ETAG_LEN, "etag"), T(MAX_HTTP_ETAG_LEN + 1, "etag")})
                  \union ({4} \X {Empty, Plain(8), T(MAX_HTTP_RANGE_LEN, "range"), T(MAX_HTTP_RANGE_LEN + 1, "range")})
                  \union ({5} \X Bytes(MAX_HTTP_IPC_DATA_LEN))}
HttpTextsOk(ts) ==
  /\ validate_text(ts[1], MAX_HTTP_URL_LEN) /\ validate_text(ts[2], MAX_HTTP_CONTENT_TYPE_LEN)
  /\ validate_etag(ts[3]) /\ validate_range(ts[4]) /\ ts[5].n <= MAX_HTTP_IPC_DATA_LEN
encode_http_request_with_range(v) ==
  LET n == Sizes(v.texts)
      length == HTTP_REQUEST_BASE_LEN + Sum(n) IN
  When(HttpTextsOk(v.texts),
       Frame(length, write_header(HttpRequest, v.request_id, length)
                       \union {U16(24, v.method), U32(28, v.timeout_ms), U16(32, n[1]), U16(34, n[2]), U32(36, n[5]),
                               U16(40, n[3]), U16(42, n[4])}, Run(HTTP_REQUEST_BASE_LEN, v.texts)))
decode_http_request(f) ==
  LET n == <<u16(f, 32), u16(f, 34), u16(f, 40), u16(f, 42), u32(f, 36)>>
      max == <<MAX_HTTP_URL_LEN, MAX_HTTP_CONTENT_TYPE_LEN, MAX_HTTP_ETAG_LEN, MAX_HTTP_RANGE_LEN, MAX_HTTP_IPC_DATA_LEN>>
      texts == Cut(f, HTTP_REQUEST_BASE_LEN, n) IN
  When(/\ Header_decode(f, HttpRequest) /\ f.size >= HTTP_REQUEST_BASE_LEN /\ Zero(f, 26, 2) /\ Zero(f, 44, 4)
       /\ u16(f, 24) \in HttpMethod
       /\ (\A i \in 1..5 : n[i] <= max[i]) /\ f.size = HTTP_REQUEST_BASE_LEN + Sum(n)
       /\ (\A i \in 1..4 : Utf8(texts[i])) /\ HttpTextsOk(texts),
       [request_id |-> u64(f, 16), method |-> u16(f, 24), timeout_ms |-> u32(f, 28), texts |-> texts])

HttpAnswered ==
  {<<"failure", 28, 2>>, <<"status_code", 30, 2>>, <<"handle", 32, 8>>, <<"body_length", 40, 4>>, <<"headers_length", 44, 4>>}
HttpRequestResult ==
  Vary([request_id |-> 7, status |-> 0, failure |-> 0, status_code |-> 404, handle |-> 70000, body_length |-> 5,
        headers_length |-> 6, content_type |-> Plain(9)],
       [status |-> Statuses, failure |-> {12}, content_type |-> Strings(MAX_HTTP_CONTENT_TYPE_LEN)])
encode_http_request_result(v) ==
  When(validate_text(v.content_type, MAX_HTTP_CONTENT_TYPE_LEN),
       Ending(Result(HttpRequest), v, HTTP_REQUEST_RESULT_BASE_LEN, {<<"status", 24, 4>>} \union HttpAnswered,
              {U16(48, v.content_type.n)}, v.content_type))
decode_http_request_result(f) ==
  LET t == Rest(f, HTTP_REQUEST_RESULT_BASE_LEN) IN
  IF f.size < HTTP_REQUEST_RESULT_BASE_LEN THEN {}
  ELSE When(/\ Header_decode(f, Result(HttpRequest)) /\ Zero(f, 50, 6) /\ u16(f, 28) \in HttpFailure
            /\ f.size = HTTP_REQUEST_RESULT_BASE_LEN + u16(f, 48) /\ Utf8(t) /\ validate_text(t, MAX_HTTP_CONTENT_TYPE_LEN),
            Fields(f, HttpAnswered) @@ Status(f) @@ [content_type |-> t])

HttpReadFields == {<<"handle", 24, 8>>, <<"maximum", 32, 4>>, <<"stream", 36, 2>>}
encode_http_read(v) == When(v.maximum <= MAX_HTTP_IPC_DATA_LEN, Message(HttpRead, v, HTTP_READ_REQUEST_LEN, HttpReadFields))
decode_http_read(f) ==
  When(/\ Header_decode(f, HttpRead) /\ f.size = HTTP_READ_REQUEST_LEN /\ Zero(f, 38, 2)
       /\ u32(f, 32) <= MAX_HTTP_IPC_DATA_LEN /\ u16(f, 36) \in HttpStream, Fields(f, HttpReadFields))

HttpReadResult == {<<"failure", 28, 2>>, <<"complete", 30, 2>>, <<"handle", 32, 8>>}
encode_http_read_result(v) ==
  When(v.opcode \in {Result(HttpRead), Result(HttpClose)} /\ v.data.n <= MAX_HTTP_IPC_DATA_LEN,
       Ending(v.opcode, v, HTTP_READ_RESULT_BASE_LEN, {<<"status", 24, 4>>} \union HttpReadResult, {U32(40, v.data.n)}, v.data))
decode_http_read_result(expected, f) ==
  LET n == u32(f, 40) IN
  When(/\ Header_decode(f, expected) /\ f.size >= HTTP_READ_RESULT_BASE_LEN /\ Zero(f, 44, 4) /\ u16(f, 30) <= 1
       /\ u16(f, 28) \in HttpFailure /\ n <= MAX_HTTP_IPC_DATA_LEN /\ f.size = HTTP_READ_RESULT_BASE_LEN + n,
       Fields(f, HttpReadResult) @@ Status(f) @@ [opcode |-> expected, data |-> Rest(f, HTTP_READ_RESULT_BASE_LEN)])

encode_http_close(v) == {Message(HttpClose, v, HTTP_CLOSE_REQUEST_LEN, {<<"handle", 24, 8>>})}
decode_http_close(f) ==
  When(Header_decode(f, HttpClose) /\ f.size = HTTP_CLOSE_REQUEST_LEN /\ Zero(f, 32, 8), Fields(f, {<<"handle", 24, 8>>}))

-----------------------------------------------------------------------------
(***************************************************************************)
(* Datagram and stream sockets, the resolver and the list of interfaces,   *)
(* as the network service offers them. Addresses of four bytes are         *)
(* numbers. "dns" is a well-formed name of labels, "DNS" one in other      *)
(* letters; "mx", "srv", "soa" and "txt" are well-formed record values;    *)
(* "path" contains a '/'.                                                  *)
(***************************************************************************)
NUDP == 1
NUDR == 2
NTCP == 3
NTCR == 4
NDNS == 5
NDNR == 6
NIFS == 7
NIFR == 8
Min == -2147483647 - 1

\* Each protocol starts a message with its magic, its version and an
\* operation.
header(magic, op) == {U32(0, magic), U16(4, 1), U16(6, op)}
Starts(f, magic, op) == f.size >= 8 /\ u32(f, 0) = magic /\ u16(f, 4) = 1 /\ u16(f, 6) = op
reply(magic, op, status) == When(status <= 0, Frame(16, header(magic, op) \union {U32(8, status)}, {}))
reply_status(magic, op, f) ==
  When(f.size = 16 /\ Starts(f, magic, op) /\ Zero(f, 12, 4) /\ i32(f, 8) <= 0, i32(f, 8))

-----------------------------------------------------------------------------
(* Datagrams.                                                              *)

ENDPOINT_LEN == 8
RECEIVE_HEADER_LEN == 12
MAX_PAYLOAD == 1472
LIMITS_LEN == 12
OPEN_OPCODE == 2

Endpoint == [address : {0, 70000}, port : {0, 53}]
Unspecified == [address |-> 0, port |-> 0]
Endpoint_encode(o, v) == {U32(o, v.address), U16(o + 4, v.port)}
EndpointAt(f, o) == [address |-> u32(f, o), port |-> u16(f, o + 4)]
Endpoint_decode(f, o) == When(Zero(f, o + 6, 2), EndpointAt(f, o))

open(local) == {Frame(16, header(NUDP, OPEN_OPCODE) \union Endpoint_encode(8, local), {})}
decode_open(f) == IF f.size = 16 /\ Starts(f, NUDP, OPEN_OPCODE) THEN Endpoint_decode(f, 8) ELSE {}

\* No destination is written as the unspecified one.
send(v) ==
  When(v.payload.n <= MAX_PAYLOAD,
       Headed(8, UNION {Endpoint_encode(0, d) : d \in v.destination}, v.payload))
decode_send(f) ==
  IF f.size < 8 \/ f.size > 8 + MAX_PAYLOAD THEN {}
  ELSE {[destination |-> {d} \ {Unspecified}, payload |-> Rest(f, 8)] : d \in Endpoint_decode(f, 0)}

\* The receiver's room for the payload may be less than its length.
received(source, payload, room) ==
  LET copied == IF payload.n < room THEN payload.n ELSE room IN
  When(payload.n <= MAX_PAYLOAD,
       Headed(RECEIVE_HEADER_LEN,
              Endpoint_encode(0, source) \union {U16(6, payload.n), U32(8, IF copied < payload.n THEN 1 ELSE 0)},
              [payload EXCEPT !.n = copied]))
Received ==
  [source : {[address |-> 70000, port |-> 53]}, original_length : {0, 1, 5, MAX_PAYLOAD, MAX_PAYLOAD + 1}, payload : {Empty, Plain(1), Plain(5)}]
decode_received(f) ==
  LET original == u16(f, 6) IN
  IF f.size < RECEIVE_HEADER_LEN THEN {}
  ELSE When(/\ original <= MAX_PAYLOAD /\ f.size - 12 <= original
            /\ u32(f, 8) = IF f.size - 12 < original THEN 1 ELSE 0,
            [source |-> EndpointAt(f, 0), original_length |-> original, payload |-> Rest(f, 12)])

DatagramLimits == [minimum_port : {0, 1024}, maximum_payload : {0, MAX_PAYLOAD}]
DatagramLimits_encode(v) ==
  When(v.minimum_port # 0 /\ v.maximum_payload # 0,
       Frame(LIMITS_LEN, {U16(0, 1), U16(2, 1), U16(4, v.minimum_port), U16(6, v.maximum_payload)}, {}))
DatagramLimits_decode(f) ==
  LET v == [minimum_port |-> u16(f, 4), maximum_payload |-> u16(f, 6)] IN
  When(f.size = LIMITS_LEN /\ u16(f, 0) = 1 /\ u16(f, 2) = 1 /\ Zero(f, 8, 4) /\ DatagramLimits_encode(v) # {}, v)

-----------------------------------------------------------------------------
(* Streams.                                                                *)

ACQUIRE == 1
DERIVE == 5
ALL_SCOPES == 3
ROUTE_LOOPBACK == 1
ROUTE_INTERFACE == 2
STREAM_FLAGS == 15

scoped(v) ==
  When(v.op \in {ACQUIRE, DERIVE} /\ v.scopes # 0 /\ Within(v.scopes, ALL_SCOPES),
       Frame(12, header(NTCP, v.op) \union {U32(8, v.scopes)}, {}))
scopes(f) ==
  LET v == [op |-> u16(f, 6), scopes |-> u32(f, 8)] IN
  When(f.size = 12 /\ Starts(f, NTCP, v.op) /\ scoped(v) # {}, v)

Observation == [flags : {0, 1, 8, 15, 16}, error : {0, -9, 1}]
Observation_encode(v) ==
  When(Within(v.flags, STREAM_FLAGS) /\ v.error <= 0, Frame(8, {U32(0, v.flags), U32(4, v.error)}, {}))
Observation_decode(f) ==
  LET v == [flags |-> u32(f, 0), error |-> i32(f, 4)] IN When(f.size = 8 /\ Observation_encode(v) # {}, v)

Limits == [scopes : 0..4, minimum_port : {0, 1024}, routes : 0..4]
Limits_encode(v) ==
  When(/\ v.scopes # 0 /\ Within(v.scopes, ALL_SCOPES) /\ v.minimum_port # 0
       /\ HasBit(v.routes, ROUTE_LOOPBACK) /\ Within(v.routes, ROUTE_LOOPBACK + ROUTE_INTERFACE),
       Frame(LIMITS_LEN, {U16(0, 1), U16(2, v.routes), U32(4, v.scopes), U16(8, v.minimum_port)}, {}))
Limits_decode(f) ==
  LET v == [scopes |-> u32(f, 4), minimum_port |-> u16(f, 8), routes |-> u16(f, 2)] IN
  When(f.size = LIMITS_LEN /\ u16(f, 0) = 1 /\ Zero(f, 10, 2) /\ Limits_encode(v) # {}, v)

-----------------------------------------------------------------------------
(* The resolver.                                                           *)

OPEN == 2
DERIVE_RESOLVER == 4
SUPPORTED_SCOPES == 255
MAX_TIMEOUT == 30000
MAX_RESULT_LEN == 2 * 1024 * 1024
MAX_RECORDS == 5957
MAX_ALIASES == 16
RESOLVER_LIMITS_LEN == 16
OBSERVATION_LEN == 24
RESULT_HEADER_LEN == 40
A == 1
Ns == 2
Soa == 6
Ptr == 12
Mx == 15
Txt == 16
Aaaa == 28
Srv == 33
Kind == {A, Ns, Soa, Ptr, Mx, Txt, Aaaa, Srv}

\* Names are told apart by their length, letters in them by the kind.
Name_decode(t) == t.n \in 1..255 /\ t.kind \in {"dns", "DNS"}
Name_matches(s, t) == s.n = t.n
value_valid(kind, t) ==
  CASE kind = A -> t.n = 4
    [] kind = Aaaa -> t.n = 16
    [] kind \in {Ptr, Ns} -> Name_decode(t)
    [] kind = Mx -> t.kind = "mx"
    [] kind = Srv -> t.kind = "srv"
    [] kind = Soa -> t.kind = "soa"
    [] kind = Txt -> t.kind = "txt"

ResolverLimits == [op : {ACQUIRE, 2, DERIVE_RESOLVER}, scopes : {0, 1, 255, 256}, maximum_timeout : {0, 1, MAX_TIMEOUT, MAX_TIMEOUT + 1}]
Limits_valid(v) == v.scopes # 0 /\ Within(v.scopes, SUPPORTED_SCOPES) /\ v.maximum_timeout \in 1..MAX_TIMEOUT
resolver_scoped(v) ==
  When(Limits_valid(v) /\ v.op \in {ACQUIRE, DERIVE_RESOLVER},
       Frame(16, header(NDNS, v.op) \union {U32(8, v.scopes), U32(12, v.maximum_timeout)}, {}))
decode_scoped(f) ==
  LET v == [op |-> u16(f, 6), scopes |-> u32(f, 8), maximum_timeout |-> u32(f, 12)] IN
  When(f.size = 16 /\ Starts(f, NDNS, v.op) /\ resolver_scoped(v) # {}, v)
ResolverLimits_encode(v) ==
  When(Limits_valid(v),
       Frame(RESOLVER_LIMITS_LEN, {U16(0, 1), U16(2, 1), U32(4, v.scopes), U32(8, MAX_RESULT_LEN), U32(12, v.maximum_timeout)}, {}))
ResolverLimits_decode(f) ==
  LET v == [scopes |-> u32(f, 4), maximum_timeout |-> u32(f, 12)] IN
  When(f.size = RESOLVER_LIMITS_LEN /\ u16(f, 0) = 1 /\ u16(f, 2) = 1 /\ u32(f, 8) = MAX_RESULT_LEN /\ Limits_valid(v), v)

resolver_reply(op, status) == IF status = Min THEN {} ELSE reply(NDNR, op, status)
resolver_reply_status(op, f) == {s \in reply_status(NDNR, op, f) : s # Min}

Request ==
  Vary([kind |-> A, timeout |-> 5, name |-> T(6, "dns")],
       [kind |-> Kind, timeout |-> {0, 1, MAX_TIMEOUT, MAX_TIMEOUT + 1}, name |-> {T(1, "dns"), T(255, "DNS")}])
Request_encode(v) ==
  When(v.timeout \in 1..MAX_TIMEOUT,
       Headed(24, header(NDNS, OPEN) \union {U16(8, v.kind), U32(12, v.timeout), U16(16, v.name.n)}, v.name))
Request_decode(f) ==
  IF f.size < 24 THEN {}
  ELSE When(/\ Starts(f, NDNS, OPEN) /\ Zero(f, 10, 2) /\ Zero(f, 18, 6) /\ u16(f, 16) = f.size - 24
            /\ u16(f, 8) \in Kind /\ Name_decode(Rest(f, 24)) /\ u32(f, 12) \in 1..MAX_TIMEOUT,
            [kind |-> u16(f, 8), timeout |-> u32(f, 12), name |-> Rest(f, 24)])

ResolverObservation ==
  [ready : {0, 1}, kind : {A, Srv}, status : {0, -61, 1, Min},
   length : {0, RESULT_HEADER_LEN, RESULT_HEADER_LEN + 1, MAX_RESULT_LEN, MAX_RESULT_LEN + 1}]
ResolverObservation_encode(v) ==
  When(/\ v.status <= 0 /\ v.status # Min /\ v.length <= MAX_RESULT_LEN
       /\ IF v.ready = 1 THEN v.length >= RESULT_HEADER_LEN + 1 ELSE v.status = 0 /\ v.length = 0,
       Frame(OBSERVATION_LEN, {U16(0, 1), U16(2, v.ready), U16(4, v.kind), U32(8, v.status), U64(16, v.length)}, {}))
ResolverObservation_decode(f) ==
  LET v == [ready |-> u16(f, 2), kind |-> u16(f, 4), status |-> i32(f, 8), length |-> u64(f, 16)] IN
  When(/\ f.size = OBSERVATION_LEN /\ u16(f, 0) = 1 /\ v.ready <= 1 /\ Zero(f, 6, 2) /\ Zero(f, 12, 4)
       /\ v.kind \in Kind /\ ResolverObservation_encode(v) # {}, v)

\* An answer names the question and the canonical name it leads to, by the
\* aliases in between: the first is the question, none is repeated, none
\* is the canonical name.
ValueOf(kind) ==
  CASE kind = A -> Plain(4) [] kind = Aaaa -> Plain(16) [] kind \in {Ptr, Ns} -> T(3, "dns")
    [] kind = Mx -> T(5, "mx") [] kind = Srv -> T(9, "srv") [] kind = Soa -> T(22, "soa") [] kind = Txt -> T(2, "txt")
Results ==
  LET question == T(6, "dns")
      base == [kind |-> A, status |-> 0, cached |-> 0, question |-> question, canonical |-> {T(6, "DNS")}, aliases |-> <<>>,
               values |-> <<Plain(4)>>]
      via(c, as) == [base EXCEPT !.canonical = {c}, !.aliases = as] IN
  {[base EXCEPT !.kind = k, !.values = vs] : k \in Kind, vs \in {<<>>, <<ValueOf(A)>>, <<ValueOf(Aaaa)>>, <<T(3, "dns"), T(3, "DNS")>>}}
  \union {[base EXCEPT !.kind = k, !.values = <<ValueOf(k), ValueOf(k)>>] : k \in Kind}
  \union Vary(base, [cached |-> {1}, status |-> {-61, 1, Min}, canonical |-> {{}, {T(5, "dns")}}])
  \union Vary([base EXCEPT !.status = -61, !.canonical = {}, !.values = <<>>],
              [cached |-> {0, 1}, canonical |-> {{question}}, aliases |-> {<<question>>}, values |-> {<<Plain(4)>>}])
  \union {via(T(9, "dns"), as) :
            as \in {<<>>, <<question>>, <<T(6, "DNS"), T(7, "dns")>>, <<T(7, "dns"), question>>, <<question, T(6, "DNS")>>,
                    <<question, T(9, "DNS")>>, [i \in 1..17 |-> T(IF i = 1 THEN 6 ELSE i + 10, "dns")]}}
AliasesOk(v, c) ==
  LET as == v.aliases IN
  /\ as = <<>> => Name_matches(v.question, c)
  /\ \A i \in DOMAIN as :
       /\ i = 1 => Name_matches(as[i], v.question)
       /\ ~Name_matches(as[i], c)
       /\ \A j \in 1..(i - 1) : ~Name_matches(as[i], as[j])
decode_result(f) ==
  LET n == u16(f, 24)
      m == u16(f, 26)
      count == u32(f, 20)
      aliases == u16(f, 28)
      status == i32(f, 12)
      fit == aliases + count <= f.size   \* an entry has two bytes at least
      r == IF fit THEN TakeAll(f, [Reader EXCEPT !.at = RESULT_HEADER_LEN + n + m], [i \in 1..(aliases + count) |-> RBytes(2, 65535)])
           ELSE [Reader EXCEPT !.ok = FALSE]
      v == [kind |-> u16(f, 10), status |-> status, cached |-> u32(f, 16), question |-> Text(f, RESULT_HEADER_LEN, n),
            canonical |-> IF status = 0 THEN {Text(f, RESULT_HEADER_LEN + n, m)} ELSE {},
            aliases |-> SubSeq(r.got, 1, aliases), values |-> SubSeq(r.got, aliases + 1, aliases + count)] IN
  IF ~Done(f, r) THEN {}
  ELSE When(/\ f.size \in RESULT_HEADER_LEN..MAX_RESULT_LEN /\ u64(f, 0) = NDNR /\ u16(f, 8) = 1
            /\ Zero(f, 30, 2) /\ Zero(f, 36, 4) /\ u32(f, 32) = f.size
            /\ v.kind \in Kind /\ status <= 0 /\ status # Min /\ v.cached <= 1 /\ count <= MAX_RECORDS /\ aliases <= MAX_ALIASES
            /\ RESULT_HEADER_LEN + n + m <= f.size /\ Name_decode(v.question)
            /\ IF status = 0 THEN \A c \in v.canonical : Name_decode(c) ELSE m = 0 /\ count = 0 /\ aliases = 0 /\ v.cached = 0
            /\ (\A i \in 1..aliases : Name_decode(r.got[i])) /\ (\A i \in 1..count : value_valid(v.kind, v.values[i]))
            /\ \A c \in v.canonical : AliasesOk(v, c), v)
encode_result(v) ==
  LET names == <<v.question>> \o (IF v.canonical = {} THEN <<>> ELSE <<CHOOSE c \in v.canonical : TRUE>>)
      entries == v.aliases \o v.values
      body == Written([i \in DOMAIN names |-> WRaw(names[i])] \o [i \in DOMAIN entries |-> WBytes(2, entries[i])])
      size == RESULT_HEADER_LEN + body.size IN
  IF \/ v.status > 0 \/ v.status = Min \/ Len(v.aliases) > MAX_ALIASES \/ Len(v.values) > MAX_RECORDS
     \/ (v.status # 0 /\ (v.canonical # {} \/ v.cached = 1 \/ entries # <<>>))
     \/ (v.status = 0 /\ v.canonical = {})
     \/ (\E i \in DOMAIN v.aliases : ~Name_decode(v.aliases[i])) \/ (\E i \in DOMAIN v.values : ~value_valid(v.kind, v.values[i]))
     \/ size > MAX_RESULT_LEN
  THEN {}
  ELSE Checked(Envelope(size, {U64(0, NDNR), U16(8, 1), U16(10, v.kind), U32(12, v.status), U32(16, v.cached), U32(20, Len(v.values)),
                               U16(24, v.question.n), U16(26, Sum(Sizes(names)) - v.question.n), U16(28, Len(v.aliases)), U32(32, size)},
                        RESULT_HEADER_LEN, body), decode_result)

-----------------------------------------------------------------------------
(* The list of interfaces.                                                 *)

SNAPSHOT == 1
MAX_REPLY == 4096
INTERFACES_HEADER_LEN == 24
INTERFACE_FLAGS == 7
USABLE == 1
RECORD_LEN == 16
ADDRESS_LEN == 24

request(op) == {Frame(8, header(NIFS, op), {})}
operation(f) == When(f.size = 8 /\ u32(f, 0) = NIFS /\ u16(f, 4) = 1, u16(f, 6))

\* <<family, prefix, flags, scope, bytes>>
V4(prefix, flags) == <<4, prefix, flags, 0, Plain(4)>>
V6(prefix, flags, scope) == <<6, prefix, flags, scope, Plain(16)>>
Address_ok(a) == a[2] <= (IF a[1] = 4 THEN 32 ELSE 128) /\ Within(a[3], USABLE)
Address_encode(a) ==
  <<WNum(2, a[1]), WNum(1, a[2]), WNum(1, a[3]), WNum(4, a[4]), WRaw(a[5])>>
    \o (IF a[1] = 4 THEN <<WNum(6, 0), WNum(6, 0)>> ELSE <<>>)
AddressAt(f, o) ==
  <<u16(f, o), u8(f, o + 2), u8(f, o + 3), u32(f, o + 4), Text(f, o + 8, IF u16(f, o) = 4 THEN 4 ELSE 16)>>
Address_decode(f, o) ==
  LET a == AddressAt(f, o) IN
  a[1] \in {4, 6} /\ (a[1] = 4 => Zero(f, o + 4, 4) /\ Zero(f, o + 12, 12)) /\ Address_ok(a)

Interfaces ==
  LET base == [index |-> 3, flags |-> 3, mtu |-> 1500, name |-> Plain(4), addresses |-> <<V4(24, 1)>>]
      other == [base EXCEPT !.index = 4, !.name = Plain(5), !.addresses = <<V6(64, 0, 4), V4(0, 1)>>] IN
  {<<>>, <<base, other>>, <<base, [other EXCEPT !.index = 3]>>, <<base, [other EXCEPT !.name = Plain(4), !.addresses = <<>>]>>}
  \union {<<r>> : r \in Vary(base, [index |-> {0}, flags |-> {7, 8}, mtu |-> {0}, name |-> Bytes(63) \union {T(3, "path")},
                                   addresses |-> {<<>>, <<V4(32, 0)>>, <<V4(33, 0)>>, <<V4(8, 2)>>, <<V6(128, 1, 0)>>,
                                                  <<V6(129, 1, 0)>>, <<V6(64, 0, 3)>>, <<V6(64, 0, 4)>>, [i \in 1..171 |-> V4(1, 1)]}])}
valid(r) ==
  /\ r.index # 0 /\ r.mtu # 0 /\ Within(r.flags, INTERFACE_FLAGS)
  /\ r.name.n \in 1..63 /\ ~Nul(r.name) /\ r.name.kind # "path"
record(f, q) ==
  LET start == q.at + RECORD_LEN + u16(f, q.at + 12)
      count == u16(f, q.at + 14)
      at(i) == start + ADDRESS_LEN * (i - 1)
      r == [index |-> u32(f, q.at), flags |-> u32(f, q.at + 4), mtu |-> u32(f, q.at + 8),
            name |-> Text(f, q.at + RECORD_LEN, u16(f, q.at + 12)),
            addresses |-> IF start + ADDRESS_LEN * count <= f.size THEN [i \in 1..count |-> AddressAt(f, at(i))] ELSE <<>>]
      ok == /\ q.at + RECORD_LEN <= f.size /\ start <= f.size /\ Utf8(r.name) /\ valid(r)
            /\ start + ADDRESS_LEN * count <= f.size
            /\ \A i \in 1..count : Address_decode(f, at(i)) /\ r.addresses[i][4] \in {0, r.index}
            /\ \A i \in DOMAIN q.got : q.got[i].index # r.index /\ q.got[i].name # r.name IN
  IF ok THEN [q EXCEPT !.at = start + ADDRESS_LEN * count, !.got = Append(@, r)] ELSE [q EXCEPT !.ok = FALSE]
decode(f) ==
  LET count == u32(f, 12)
      status == i32(f, 8) IN
  IF \/ f.size < INTERFACES_HEADER_LEN \/ f.size > MAX_REPLY \/ ~Starts(f, NIFR, SNAPSHOT) \/ ~Zero(f, 20, 4) \/ u32(f, 16) # f.size
     \/ status > 0 \/ status = Min \/ (status # 0 /\ (count # 0 \/ f.size # INTERFACES_HEADER_LEN))
     \/ count > f.size   \* a record has sixteen bytes at least
  THEN {}
  ELSE {<<status, r.got>> : r \in {r \in {Copies(count, [Reader EXCEPT !.at = INTERFACES_HEADER_LEN], LAMBDA q : record(f, q))} : Done(f, r)}}
InterfaceHeader(status, count, length) == header(NIFR, SNAPSHOT) \union {U32(8, status), U32(12, count), U32(16, length)}
failure(status) == When(status < 0 /\ status # Min, Frame(INTERFACES_HEADER_LEN, InterfaceHeader(status, 0, INTERFACES_HEADER_LEN), {}))
encode(rs) ==
  LET part(r) == <<WNum(4, r.index), WNum(4, r.flags), WNum(4, r.mtu), WNum(2, r.name.n), WNum(2, Len(r.addresses)), WRaw(r.name)>>
                   \o Concat([i \in DOMAIN r.addresses |-> Address_encode(r.addresses[i])])
      body == Written(Concat([i \in DOMAIN rs |-> part(rs[i])])) IN
  IF \/ (\E i \in DOMAIN rs : ~valid(rs[i]) \/ Len(rs[i].addresses) * ADDRESS_LEN > MAX_REPLY)
     \/ INTERFACES_HEADER_LEN + body.size > MAX_REPLY
     \/ \E i \in DOMAIN rs : \E j \in DOMAIN rs[i].addresses : ~Address_ok(rs[i].addresses[j])
  THEN {}
  ELSE Checked(Envelope(INTERFACES_HEADER_LEN + body.size, InterfaceHeader(0, Len(rs), INTERFACES_HEADER_LEN + body.size), INTERFACES_HEADER_LEN, body), decode)
\* A snapshot or a failure.
encode_snapshot(v) == IF v[1] = 0 THEN encode(v[2]) ELSE failure(v[1])

-----------------------------------------------------------------------------
Replies == {0, -9, 1, Min}

-----------------------------------------------------------------------------
ExchangeNetFrames ==
  \/ Exchange("net empty", [opcode : {GetInterfaceInfo, GetStackStatistics}, request_id : {0, 70000}], encode_empty,
              LAMBDA f : decode_empty(value.opcode, f))
  \/ Exchange("net frame", [opcode : {TransmitFrame}, request_id : {7}, frame : Bytes(MAX_FRAME_LEN)], encode_frame,
              LAMBDA f : decode_frame(value.opcode, f))
  \/ Exchange("net status", [opcode : {Result(TransmitFrame)}, request_id : {7}, status : Statuses], encode_status,
              LAMBDA f : decode_status(value.opcode, f))
  \/ Exchange("net interface", InterfaceInfo, encode_interface_info, decode_interface_info)
ExchangeNetStatistics ==
  Exchange("net statistics", {7} \X Counters(DeviceStatistics), LAMBDA v : encode_statistics(Result(4), v),
           LAMBDA f : decode_statistics(Result(4), f))
ExchangeStackCounters ==
  Exchange("stack statistics", {7} \X Counters(StackStatistics), encode_stack_statistics, decode_stack_statistics)
ExchangeSecurityCounters ==
  Exchange("security statistics", {7} \X Counters(SecurityStatistics), encode_security_statistics, decode_security_statistics)
ExchangePings ==
  \/ Exchange("ping", [request_id : {7}, address : {70000}], encode_ping, decode_ping)
  \/ Exchange("ping result", [request_id : {7}, status : Statuses, rtt_ms : {70000}], encode_ping_result, decode_ping_result)
  \/ Exchange("resolve", Resolve, encode_resolve_ipv4, decode_resolve_ipv4)
  \/ Exchange("resolve result", [request_id : {7}, status : Statuses, from_cache : {0, 1}, address : {70000}],
              encode_resolve_ipv4_result, decode_resolve_ipv4_result)
ExchangeTcpConnects ==
  \/ Exchange("tcp connect", Connect, encode_tcp_connect, decode_tcp_connect)
  \/ Exchange("tcp connect result", [request_id : {7}, status : Statuses, handle : {70000}, address : {5}, port : {443}],
              encode_tcp_connect_result, decode_tcp_connect_result)
  \/ Exchange("tcp send", Sent, encode_tcp_send, decode_tcp_send)
ExchangeTcpTransfers ==
  \/ Exchange("tcp receive", Asked, encode_tcp_receive, decode_tcp_receive)
  \/ Exchange("tcp close", [request_id : {7}, handle : {70000}, timeout_ms : {9}], encode_tcp_close, decode_tcp_close)
  \/ Exchange("tcp io result", IoResult({TcpSend, TcpReceive, TcpClose}), encode_tcp_io_result,
              LAMBDA f : decode_tcp_io_result(value.opcode, f))
  \/ Exchange("tcp receive result", ReceiveResult, encode_tcp_receive_result, decode_tcp_receive_result)
ExchangeTlsConnects ==
  Exchange("tls connect", Connect, encode_tls_connect, decode_tls_connect)
ExchangeTlsConnectResults ==
  Exchange("tls connect result", TlsConnectResult, encode_tls_connect_result, decode_tls_connect_result)
ExchangeTlsSends ==
  \/ Exchange("tls send", Sent, encode_tls_send, decode_tls_data_request)
  \/ Exchange("tls receive result", {r @@ [failure |-> 18, handle |-> 70000] : r \in ReceiveResult},
              encode_tls_receive_result, decode_tls_receive_result)
ExchangeTlsReceives ==
  \/ Exchange("tls receive", Asked, encode_tls_receive, decode_tls_receive)
  \/ Exchange("tls close", [request_id : {7}, handle : {70000}, timeout_ms : {9}], encode_tls_close, decode_tls_close)
  \/ Exchange("tls io result", {r @@ [failure |-> 18, handle |-> 70000] : r \in IoResult({TlsSend, TlsReceive, TlsClose})},
              encode_tls_io_result, LAMBDA f : decode_tls_io_result(value.opcode, f))
ExchangeHttpRequests ==
  Exchange("http request", HttpRequests, encode_http_request_with_range, decode_http_request)
ExchangeHttpResults ==
  \/ Exchange("http result", HttpRequestResult, encode_http_request_result, decode_http_request_result)
  \/ Exchange("http read", [request_id : {7}, handle : {70000}, maximum : {0, 4096, 4097}, stream : HttpStream],
              encode_http_read, decode_http_read)
ExchangeHttpReads ==
  \/ Exchange("http read result",
              [opcode : {Result(HttpRead), Result(HttpClose), Result(HttpRequest)}, request_id : {7}, status : Statuses,
               failure : {0, 12}, complete : {0, 1}, handle : {70000}, data : {Empty, T(2, "bad"), Plain(4096), Plain(4097)}],
              encode_http_read_result, LAMBDA f : decode_http_read_result(value.opcode, f))
  \/ Exchange("http close", [request_id : {7}, handle : {70000}], encode_http_close, decode_http_close)
ExchangeDatagrams ==
  \/ Exchange("datagram open", Endpoint, open, decode_open)
  \/ Exchange("datagram send", [destination : {{}} \union {{e} : e \in Endpoint \ {Unspecified}}, payload : Bytes(MAX_PAYLOAD)], send, decode_send)
  \/ Exchange("datagram received", {r \in Received : r.payload.n <= r.original_length},
              LAMBDA v : received(v.source, [v.payload EXCEPT !.n = v.original_length], v.payload.n), decode_received)
ExchangeDatagramAuthority ==
  \/ Exchange("datagram reply", {0, -9, 1}, LAMBDA s : reply(NUDR, 3, s), LAMBDA f : reply_status(NUDR, 3, f))
  \/ Exchange("datagram limits", DatagramLimits, DatagramLimits_encode, DatagramLimits_decode)
ExchangeStreamScopes ==
  \/ Exchange("stream scopes", [op : 1..5, scopes : 0..4], scoped, scopes)
  \/ Exchange("stream reply", {0, -9, 1}, LAMBDA s : reply(NTCR, 4, s), LAMBDA f : reply_status(NTCR, 4, f))
ExchangeStreamLimits ==
  \/ Exchange("stream observation", Observation, Observation_encode, Observation_decode)
  \/ Exchange("stream limits", Limits, Limits_encode, Limits_decode)
ExchangeResolverScopes ==
  \/ Exchange("resolver scopes", ResolverLimits, resolver_scoped, decode_scoped)
  \/ Exchange("resolver reply", Replies, LAMBDA s : resolver_reply(OPEN, s), LAMBDA f : resolver_reply_status(OPEN, f))
ExchangeResolverRequests ==
  \/ Exchange("resolver limits", [scopes : {0, 1, 255, 256}, maximum_timeout : {0, 1, 30000, 30001}], ResolverLimits_encode, ResolverLimits_decode)
  \/ Exchange("resolver request", Request, Request_encode, Request_decode)
  \/ Exchange("resolver observation", ResolverObservation, ResolverObservation_encode, ResolverObservation_decode)
ExchangeResolverResults ==
  Exchange("resolver result", Results, encode_result, decode_result)
ExchangeInterfaceLists ==
  \/ Exchange("interfaces request", {SNAPSHOT, 700}, request, operation)
  \/ Exchange("interfaces", ({0} \X Interfaces) \union (Replies \X {<<>>}), encode_snapshot, decode)

Next ==
  \/ ExchangeNetFrames \/ ExchangeNetStatistics \/ ExchangeStackCounters
  \/ ExchangeSecurityCounters \/ ExchangePings \/ ExchangeTcpConnects
  \/ ExchangeTcpTransfers \/ ExchangeTlsConnects \/ ExchangeTlsConnectResults
  \/ ExchangeTlsSends \/ ExchangeTlsReceives \/ ExchangeHttpRequests
  \/ ExchangeHttpResults \/ ExchangeHttpReads \/ ExchangeDatagrams
  \/ ExchangeDatagramAuthority \/ ExchangeStreamScopes \/ ExchangeStreamLimits
  \/ ExchangeResolverScopes \/ ExchangeResolverRequests \/ ExchangeResolverResults
  \/ ExchangeInterfaceLists
=============================================================================
