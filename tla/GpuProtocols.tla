--------------------------- MODULE GpuProtocols ----------------------------
(***************************************************************************)
(* Commands to a virtio GPU and its responses. A command is its type, a    *)
(* context or 0, and fields at fixed places after the header; every byte   *)
(* in between is reserved.                                                 *)
(***************************************************************************)
EXTENDS Wire

TYPE_GET_DISPLAY_INFO == 256
TYPE_RESOURCE_CREATE_2D == 257
TYPE_RESOURCE_UNREF == 258
TYPE_SET_SCANOUT == 259
TYPE_RESOURCE_FLUSH == 260
TYPE_TRANSFER_TO_HOST_2D == 261
TYPE_RESOURCE_ATTACH_BACKING == 262
TYPE_RESOURCE_DETACH_BACKING == 263
TYPE_GET_CAPSET_INFO == 264
TYPE_GET_CAPSET == 265
TYPE_CTX_CREATE == 512
TYPE_CTX_DESTROY == 513
TYPE_CTX_ATTACH_RESOURCE == 514
TYPE_CTX_DETACH_RESOURCE == 515
TYPE_RESOURCE_CREATE_3D == 516
TYPE_TRANSFER_TO_HOST_3D == 517
TYPE_TRANSFER_FROM_HOST_3D == 518
TYPE_SUBMIT_3D == 519
TYPE_UPDATE_CURSOR == 768
TYPE_MOVE_CURSOR == 769
TYPE_RESP_OK_NODATA == 4352
TYPE_RESP_OK_DISPLAY_INFO == 4353
TYPE_RESP_OK_CAPSET_INFO == 4354
TYPE_RESP_OK_CAPSET == 4355
TYPE_RESP_ERR_UNSPEC == 4608
TYPE_RESP_ERR_INVALID_PARAMETER == 4613

COMMAND_HEADER_LEN == 24
ATTACH_BACKING_PREFIX_LEN == 32
CONTEXT_CREATE_LEN == 96
SUBMIT_3D_PREFIX_LEN == 32
CONTEXT_DEBUG_NAME_LEN == 64
MAX_SUBMIT_3D_SIZE == 16777216
MAX_BACKING_ENTRIES == 4096
MAX_SCANOUT_ID == 15

-----------------------------------------------------------------------------
(* Rectangles, boxes and ranges of memory.  The largest numbers that are   *)
(* represented exactly stand for the 2^24 largest of a field.              *)

Top == Huge - Step
Wraps(a, b) == a > Top + Step - 1 - b

PixelFormat == {1, 2}
RectFields(o) == {<<"x", o, 4>>, <<"y", o + 4, 4>>, <<"width", o + 8, 4>>, <<"height", o + 12, 4>>}
Rect_default(v) == v.x = 0 /\ v.y = 0 /\ v.width = 0 /\ v.height = 0
Rect_validate_nonempty(v) ==
  v.width # 0 /\ v.height # 0 /\ ~Wraps(v.x, v.width) /\ ~Wraps(v.y, v.height)

BoxFields(o) ==
  {<<"x", o, 4>>, <<"y", o + 4, 4>>, <<"z", o + 8, 4>>, <<"width", o + 12, 4>>, <<"height", o + 16, 4>>, <<"depth", o + 20, 4>>}
Box3d_validate_nonempty(v) == Rect_validate_nonempty(v) /\ v.depth # 0 /\ ~Wraps(v.z, v.depth)

MemoryEntry == [address : {0, 65536, Top}, length : {0, 1, 4096, Step}]
MemoryEntry_ok(e) == e.length # 0 /\ ~Wraps(e.address, e.length)
MemoryEntry_encode_at(o, e) == {U64(o, e.address), U32(o + 8, e.length)}
MemoryEntry_decode_at(f, o) == [address |-> u64(f, o), length |-> u32(f, o + 8)]

-----------------------------------------------------------------------------
(* Commands.                                                               *)

Id(o) == {<<"resource_id", o, 4>>}
Layout2d ==
  (TYPE_GET_DISPLAY_INFO :> {})
  @@ (TYPE_RESOURCE_CREATE_2D :> Id(24) \union {<<"format", 28, 4>>, <<"width", 32, 4>>, <<"height", 36, 4>>})
  @@ (TYPE_RESOURCE_UNREF :> Id(24))
  @@ (TYPE_SET_SCANOUT :> RectFields(24) \union {<<"scanout_id", 40, 4>>} \union Id(44))
  @@ (TYPE_RESOURCE_FLUSH :> RectFields(24) \union Id(40))
  @@ (TYPE_TRANSFER_TO_HOST_2D :> RectFields(24) \union {<<"offset", 40, 8>>} \union Id(48))
  @@ (TYPE_RESOURCE_DETACH_BACKING :> Id(24))
LayoutContext ==
  (TYPE_GET_CAPSET_INFO :> {<<"index", 24, 4>>})
  @@ (TYPE_GET_CAPSET :> {<<"capset_id", 24, 4>>, <<"version", 28, 4>>})
  @@ (TYPE_CTX_DESTROY :> {})
  @@ (TYPE_CTX_ATTACH_RESOURCE :> Id(24))
  @@ (TYPE_CTX_DETACH_RESOURCE :> Id(24))
encode_transfer_host_3d ==
  BoxFields(24) \union {<<"offset", 48, 8>>} \union Id(56)
  \union {<<"level", 60, 4>>, <<"stride", 64, 4>>, <<"layer_stride", 68, 4>>}
Layout3d ==
  (TYPE_RESOURCE_CREATE_3D :>
     Id(24) \union {<<"target", 28, 4>>, <<"format", 32, 4>>, <<"bind", 36, 4>>, <<"width", 40, 4>>, <<"height", 44, 4>>,
                    <<"depth", 48, 4>>, <<"array_size", 52, 4>>, <<"last_level", 56, 4>>, <<"samples", 60, 4>>, <<"flags", 64, 4>>})
  @@ (TYPE_TRANSFER_TO_HOST_3D :> encode_transfer_host_3d)
  @@ (TYPE_TRANSFER_FROM_HOST_3D :> encode_transfer_host_3d)
encode_cursor_position == {<<"scanout_id", 24, 4>>, <<"x", 28, 4>>, <<"y", 32, 4>>}
LayoutCursor ==
  (TYPE_UPDATE_CURSOR :> encode_cursor_position \union Id(40) \union {<<"hotspot_x", 44, 4>>, <<"hotspot_y", 48, 4>>})
  @@ (TYPE_MOVE_CURSOR :> encode_cursor_position)
Layout == Layout2d @@ LayoutContext @@ Layout3d @@ LayoutCursor

encoded_len(op) ==
  CASE op \in {TYPE_GET_DISPLAY_INFO, TYPE_CTX_DESTROY} -> COMMAND_HEADER_LEN
    [] op = TYPE_RESOURCE_CREATE_2D -> 40
    [] op \in {TYPE_RESOURCE_UNREF, TYPE_RESOURCE_DETACH_BACKING, TYPE_GET_CAPSET_INFO, TYPE_GET_CAPSET,
               TYPE_CTX_ATTACH_RESOURCE, TYPE_CTX_DETACH_RESOURCE} -> 32
    [] op \in {TYPE_SET_SCANOUT, TYPE_RESOURCE_FLUSH} -> 48
    [] op \in {TYPE_TRANSFER_TO_HOST_2D, TYPE_UPDATE_CURSOR, TYPE_MOVE_CURSOR} -> 56
    [] op \in {TYPE_RESOURCE_CREATE_3D, TYPE_TRANSFER_TO_HOST_3D, TYPE_TRANSFER_FROM_HOST_3D} -> 72

\* The commands about a context carry its number, the others carry none.
ContextCommands ==
  {TYPE_CTX_CREATE, TYPE_CTX_DESTROY, TYPE_CTX_ATTACH_RESOURCE, TYPE_CTX_DETACH_RESOURCE, TYPE_TRANSFER_TO_HOST_3D,
   TYPE_TRANSFER_FROM_HOST_3D, TYPE_SUBMIT_3D}
require_context(v) == (v.op \in ContextCommands) <=> (v.context_id # 0)

encode_context_header(v) == {U32(0, v.op), U32(16, v.context_id)}
decode_header(f) == Zero(f, 4, 12) /\ Zero(f, 20, 4)

Ok2d(v) ==
  CASE v.op = TYPE_RESOURCE_CREATE_2D -> v.resource_id # 0 /\ v.format \in PixelFormat /\ v.width # 0 /\ v.height # 0
    [] v.op \in {TYPE_RESOURCE_UNREF, TYPE_RESOURCE_DETACH_BACKING} -> v.resource_id # 0
    [] v.op = TYPE_SET_SCANOUT ->
         v.scanout_id <= MAX_SCANOUT_ID /\ IF v.resource_id = 0 THEN Rect_default(v) ELSE Rect_validate_nonempty(v)
    [] v.op = TYPE_RESOURCE_FLUSH -> Rect_validate_nonempty(v)
    [] v.op = TYPE_TRANSFER_TO_HOST_2D -> v.resource_id # 0 /\ Rect_validate_nonempty(v)
    [] OTHER -> TRUE
OkContext(v) ==
  /\ v.op = TYPE_GET_CAPSET => v.capset_id # 0
  /\ v.op \in {TYPE_CTX_ATTACH_RESOURCE, TYPE_CTX_DETACH_RESOURCE} => v.resource_id # 0
Ok3d(v) ==
  /\ v.resource_id # 0
  /\ IF v.op = TYPE_RESOURCE_CREATE_3D
     THEN v.width # 0 /\ v.height # 0 /\ v.depth # 0 /\ v.array_size # 0
     ELSE Box3d_validate_nonempty(v)
decode_cursor_position(v) == v.scanout_id <= MAX_SCANOUT_ID
Ok(v) ==
  /\ require_context(v)
  /\ CASE v.op \in DOMAIN Layout2d -> Ok2d(v)
       [] v.op \in DOMAIN LayoutContext -> OkContext(v)
       [] v.op \in DOMAIN Layout3d -> Ok3d(v)
       [] v.op \in DOMAIN LayoutCursor -> decode_cursor_position(v)

\* The encoder also wants the resource to flush; the decoder does not ask.
Command_encode(v) ==
  When(Ok(v) /\ (v.op = TYPE_RESOURCE_FLUSH => v.resource_id # 0),
       Frame(encoded_len(v.op), encode_context_header(v) \union Put(v, Layout[v.op]), {}))
decode_reserved(f, fields) ==
  \A o \in COMMAND_HEADER_LEN..(f.size - 1) : (\A x \in fields : o \notin x[2]..(x[2] + x[3] - 1)) => Zero(f, o, 1)
DecodedCommand_decode(f) ==
  LET op == u32(f, 0)
      v == (("op" :> op) @@ ("context_id" :> u32(f, 16))) @@ Get(f, Layout[op]) IN
  IF f.size < COMMAND_HEADER_LEN \/ op \notin DOMAIN Layout THEN {}
  ELSE IF f.size # encoded_len(op) THEN {}
  ELSE When(decode_header(f) /\ decode_reserved(f, Layout[op]) /\ Ok(v), v)

\* The commands with something of another length at their end.
ResourceAttachBacking_encode(v) ==
  LET at(i) == ATTACH_BACKING_PREFIX_LEN + 16 * (i - 1) IN
  IF Len(v.entries) \notin 1..MAX_BACKING_ENTRIES \/ v.resource_id = 0 \/ \E i \in DOMAIN v.entries : ~MemoryEntry_ok(v.entries[i])
  THEN {}
  ELSE {Frame(at(Len(v.entries) + 1),
              {U32(0, TYPE_RESOURCE_ATTACH_BACKING), U32(24, v.resource_id), U32(28, Len(v.entries))}
              \union UNION {MemoryEntry_encode_at(at(i), v.entries[i]) : i \in DOMAIN v.entries}, {})}
AttachBackingView(f) ==
  LET count == u32(f, 28)
      at(i) == ATTACH_BACKING_PREFIX_LEN + 16 * (i - 1)
      entries == [i \in 1..count |-> MemoryEntry_decode_at(f, at(i))] IN
  IF f.size < ATTACH_BACKING_PREFIX_LEN \/ ~(decode_header(f) /\ Zero(f, 16, 4) /\ u32(f, 0) = TYPE_RESOURCE_ATTACH_BACKING) THEN {}
  ELSE IF count \notin 1..MAX_BACKING_ENTRIES THEN {}
  ELSE IF f.size # at(count + 1) THEN {}
  ELSE When(/\ u32(f, 24) # 0
            /\ \A i \in 1..count : Zero(f, at(i) + 12, 4) /\ MemoryEntry_ok(entries[i]),
            [resource_id |-> u32(f, 24), entries |-> entries])

\* The name may hold any bytes, zeros included.
ContextCreate_encode(v) ==
  When(v.context_id # 0 /\ v.debug_name.size <= CONTEXT_DEBUG_NAME_LEN,
       Envelope(CONTEXT_CREATE_LEN,
                {U32(0, TYPE_CTX_CREATE), U32(16, v.context_id), U32(24, v.debug_name.size), U32(28, v.context_init)},
                32, v.debug_name))
ContextCreateView(f) ==
  LET n == u32(f, 24) IN
  IF f.size # CONTEXT_CREATE_LEN \/ n > CONTEXT_DEBUG_NAME_LEN THEN {}
  ELSE When(/\ decode_header(f) /\ u32(f, 0) = TYPE_CTX_CREATE /\ u32(f, 16) # 0 /\ Zero(f, 32 + n, CONTEXT_DEBUG_NAME_LEN - n),
            [context_id |-> u32(f, 16), context_init |-> u32(f, 28), debug_name |-> Slice(f, 32, n)])

Submit3d_encode(v) ==
  When(v.context_id # 0 /\ v.commands.n \in 1..MAX_SUBMIT_3D_SIZE /\ v.commands.n % 4 = 0,
       Headed(SUBMIT_3D_PREFIX_LEN, {U32(0, TYPE_SUBMIT_3D), U32(16, v.context_id), U32(24, v.commands.n)}, v.commands))
Submit3dView(f) ==
  LET size == u32(f, 24) IN
  IF f.size < SUBMIT_3D_PREFIX_LEN THEN {}
  ELSE When(/\ decode_header(f) /\ u32(f, 0) = TYPE_SUBMIT_3D /\ u32(f, 16) # 0 /\ Zero(f, 28, 4)
            /\ size \in 1..MAX_SUBMIT_3D_SIZE /\ size % 4 = 0 /\ f.size = size + SUBMIT_3D_PREFIX_LEN,
            [context_id |-> u32(f, 16), commands |-> Rest(f, SUBMIT_3D_PREFIX_LEN)])

-----------------------------------------------------------------------------
(* Responses.                                                              *)

DISPLAY_MODE_COUNT == 16
DISPLAY_INFO_LEN == 24 + DISPLAY_MODE_COUNT * 24
RESPONSE_HEADER_LEN == 24
CAPSET_INFO_LEN == 40
FLAG_FENCE == 1

ResponseError == {TYPE_RESP_ERR_UNSPEC, TYPE_RESP_ERR_INVALID_PARAMETER} \union (4609..4612)

ModeFields(o) == RectFields(o) \union {<<"enabled", o + 16, 4>>}
DisplayInfo_ok(v) == (v.enabled = 0 /\ Rect_default(v)) \/ (v.enabled = 1 /\ Rect_validate_nonempty(v))
ModeAt(i) == RESPONSE_HEADER_LEN + (i - 1) * 24
DisplayInfoView(f) == [i \in 1..DISPLAY_MODE_COUNT |-> Get(f, ModeFields(ModeAt(i)))]

\* What follows the header, by the type of the response.
response_header(v) == {U32(0, v.type)}
ResponseMessage_encode(v) ==
  CASE v.type \in ResponseError \union {TYPE_RESP_OK_NODATA} -> {Frame(RESPONSE_HEADER_LEN, response_header(v), {})}
    [] v.type = TYPE_RESP_OK_DISPLAY_INFO ->
         When(\A i \in DOMAIN v.modes : DisplayInfo_ok(v.modes[i]),
              Frame(DISPLAY_INFO_LEN, response_header(v) \union UNION {Put(v.modes[i], ModeFields(ModeAt(i))) : i \in DOMAIN v.modes}, {}))
    [] v.type = TYPE_RESP_OK_CAPSET_INFO ->
         When(v.id # 0 /\ v.maximum_size # 0,
              Frame(CAPSET_INFO_LEN, response_header(v) \union {U32(24, v.id), U32(28, v.maximum_version), U32(32, v.maximum_size)}, {}))
    [] v.type = TYPE_RESP_OK_CAPSET -> 
         When(v.data.size > 0, Envelope(RESPONSE_HEADER_LEN + v.data.size, response_header(v), RESPONSE_HEADER_LEN, v.data))

\* The header as it was asked for: with the fence and the context of the
\* command, or with neither.
decode_response_header(f, flags, fence_id, context_id) ==
  /\ f.size >= RESPONSE_HEADER_LEN
  /\ u32(f, 4) = flags /\ u64(f, 8) = fence_id /\ u32(f, 16) = context_id /\ Zero(f, 20, 4)
decode_inner(f) ==
  LET type == u32(f, 0) IN
  CASE type \in ResponseError \union {TYPE_RESP_OK_NODATA} -> When(f.size = RESPONSE_HEADER_LEN, [type |-> type])
    [] type = TYPE_RESP_OK_DISPLAY_INFO ->
         IF f.size # DISPLAY_INFO_LEN THEN {}
         ELSE LET modes == DisplayInfoView(f) IN
              When(\A i \in DOMAIN modes : Zero(f, ModeAt(i) + 20, 4) /\ DisplayInfo_ok(modes[i]), [type |-> type, modes |-> modes])
    [] type = TYPE_RESP_OK_CAPSET_INFO ->
         When(f.size = CAPSET_INFO_LEN /\ Zero(f, 36, 4) /\ u32(f, 24) # 0 /\ u32(f, 32) # 0,
              [type |-> type, id |-> u32(f, 24), maximum_version |-> u32(f, 28), maximum_size |-> u32(f, 32)])
    [] type = TYPE_RESP_OK_CAPSET ->
         IF f.size = RESPONSE_HEADER_LEN THEN {} ELSE {[type |-> type, data |-> Slice(f, RESPONSE_HEADER_LEN, f.size - RESPONSE_HEADER_LEN)]}
    [] OTHER -> {}
Response_decode(f) == IF decode_response_header(f, 0, 0, 0) THEN decode_inner(f) ELSE {}

\* A fenced command, the response of a device that repeats its fence and
\* context, and the check that it is the response to this command.
encode_fenced(v) ==
  IF v.fence_id = 0 THEN {}
  ELSE {[f EXCEPT !.bytes = @ \union {b \in U32(4, FLAG_FENCE) \union U64(8, v.fence_id) : b[2] # 0}] : f \in Command_encode(v.command)}
Respond(v) ==
  UNION {{[r EXCEPT !.bytes = @ \union {b \in f.bytes : b[1] \in 4..23}] : f \in encode_fenced(v)} : r \in ResponseMessage_encode(v.message)}
decode_fenced(v, f) ==
  IF v.fence_id # 0 /\ decode_response_header(f, FLAG_FENCE, v.fence_id, v.command.context_id)
  THEN {[v EXCEPT !.message = m] : m \in decode_inner(f)}
  ELSE {}

-----------------------------------------------------------------------------
(* Values around the limits.                                               *)

Of(op, fields) == (("op" :> op) @@ ("context_id" :> IF op \in ContextCommands THEN 3 ELSE 0)) @@ fields
Sides == [x |-> 0, y |-> 70000, width |-> 640, height |-> 1]
Edges == [x |-> {Top}, y |-> {Top + Step - 1}, width |-> {0, Step}, height |-> {0}]
Commands ==
  LET ids == [resource_id |-> {0, 1, 70000}]
      flush == Of(TYPE_RESOURCE_FLUSH, [resource_id |-> 5] @@ Sides)
      scanout == Of(TYPE_SET_SCANOUT, [resource_id |-> 5, scanout_id |-> 15] @@ Sides)
      off == Of(TYPE_SET_SCANOUT, [resource_id |-> 0, scanout_id |-> 0, x |-> 0, y |-> 0, width |-> 0, height |-> 0])
      transfer(op) == Of(op, [resource_id |-> 5, offset |-> 70000, z |-> 9, depth |-> 1, level |-> 0, stride |-> 4, layer_stride |-> 8] @@ Sides)
      cursor == Of(TYPE_UPDATE_CURSOR, [scanout_id |-> 0, x |-> 1, y |-> 2, resource_id |-> 0, hotspot_x |-> 3, hotspot_y |-> 4]) IN
  UNION
    {{Of(op, [a \in {} |-> 0]) : op \in {TYPE_GET_DISPLAY_INFO, TYPE_CTX_DESTROY}},
     {[Of(TYPE_CTX_DESTROY, [a \in {} |-> 0]) EXCEPT !.context_id = 0]},
     {Of(op, [resource_id |-> i]) :
        op \in {TYPE_RESOURCE_UNREF, TYPE_RESOURCE_DETACH_BACKING, TYPE_CTX_ATTACH_RESOURCE, TYPE_CTX_DETACH_RESOURCE}, i \in {0, 5}},
     Vary(Of(TYPE_RESOURCE_CREATE_2D, [resource_id |-> 5, format |-> 1, width |-> 640, height |-> 1]),
          ids @@ [format |-> {2}, width |-> {0}, height |-> {0}]),
     Vary(scanout, [scanout_id |-> {15, 16}, resource_id |-> {0, 5}] @@ Edges), {off, [off EXCEPT !.width = 1]},
     Vary(flush, ids @@ Edges),
     Vary(Of(TYPE_TRANSFER_TO_HOST_2D, [resource_id |-> 5, offset |-> 70000] @@ Sides), ids @@ Edges),
     {Of(TYPE_GET_CAPSET_INFO, [index |-> 0])}, {Of(TYPE_GET_CAPSET, [capset_id |-> i, version |-> 2]) : i \in {0, 1}},
     Vary(Of(TYPE_RESOURCE_CREATE_3D,
             [resource_id |-> 5, target |-> 2, format |-> 1, bind |-> 2, width |-> 640, height |-> 1, depth |-> 1, array_size |-> 1,
              last_level |-> 0, samples |-> 0, flags |-> 0]),
          ids @@ [depth |-> {0}, array_size |-> {0}, width |-> {0}]),
     UNION {Vary(transfer(op), ids @@ Edges @@ [context_id |-> {0}, depth |-> {0}, z |-> {Top + Step - 1}]) :
              op \in {TYPE_TRANSFER_TO_HOST_3D, TYPE_TRANSFER_FROM_HOST_3D}},
     Vary(cursor, [scanout_id |-> {15, 16}, resource_id |-> {7}]),
     {Of(TYPE_MOVE_CURSOR, [scanout_id |-> s, x |-> 1, y |-> 2]) : s \in {15, 16}}}
Backings == [resource_id : {0, 5}, entries : {<<>>, [i \in 1..4097 |-> [address |-> 0, length |-> 1]]}
               \union {<<e>> : e \in MemoryEntry} \union {<<[address |-> 4096, length |-> 1], e>> : e \in MemoryEntry}]
ContextCreates ==
  Vary([context_id |-> 3, context_init |-> 2, debug_name |-> Headed(0, {}, Plain(4))],
       [context_id |-> {0}, debug_name |-> {Headed(0, {}, Plain(n)) : n \in {0, 1, 63, 64, 65}}])
Submits == [context_id : {0, 3}, commands : {Empty, Plain(3), Plain(4), Plain(MAX_SUBMIT_3D_SIZE), Plain(MAX_SUBMIT_3D_SIZE + 4)}]
Off == [x |-> 0, y |-> 0, width |-> 0, height |-> 0, enabled |-> 0]
On == [Sides EXCEPT !.y = 3] @@ [enabled |-> 1]
Responses ==
  {[type |-> t] : t \in ResponseError \union {TYPE_RESP_OK_NODATA}}
  \union {[type |-> TYPE_RESP_OK_DISPLAY_INFO, modes |-> [i \in 1..16 |-> IF i = 1 THEN m ELSE IF i = 16 THEN n ELSE Off]] :
            m \in {On, Off}, n \in {On, Off, [On EXCEPT !.width = 0], [Off EXCEPT !.x = 1]}}
  \union {[type |-> TYPE_RESP_OK_CAPSET_INFO, id |-> i, maximum_version |-> 0, maximum_size |-> s] : i \in {0, 1}, s \in {0, 70000}}
  \union {[type |-> TYPE_RESP_OK_CAPSET, data |-> Headed(0, {}, Plain(n))] : n \in {0, 1, 40}}
Fenced ==
  [fence_id : {0, 1, Top}, message : {[type |-> TYPE_RESP_OK_NODATA], [type |-> TYPE_RESP_ERR_UNSPEC]},
   command : {Of(TYPE_CTX_DESTROY, [a \in {} |-> 0]), Of(TYPE_GET_DISPLAY_INFO, [a \in {} |-> 0])}]

-----------------------------------------------------------------------------
(***************************************************************************)
(* Scenes for the GPU: vertices and one atlas, or the compositor's         *)
(* vertices, textures and batches. Vertices and pixels are texts; only     *)
(* their lengths are looked at.                                            *)
(***************************************************************************)
VKGS == 1
VKGC == 2
VERSION == 1
TIMED_VERSION == 2
HEADER_LEN == 52
COMPOSITOR_HEADER_LEN == 64
VERTEX_STRIDE == 36
CLEAR_VERTEX_COUNT == 6
MAX_VERTICES == 65536
MAX_ATLAS_EXTENT == 2048
TEXTURE_DESC_LEN == 40
BATCH_DESC_LEN == 16
MAX_TEXTURES == 64
MAX_BATCHES == 128
MAX_TEXTURE_EXTENT == 8192

\* The rows from y on, h of them, lie in an image of this height.
RowsIn(y, h, height) == y <= height /\ h <= height - y

SceneFields ==
  {<<"width", 12, 4>>, <<"height", 16, 4>>, <<"vertex_count", 20, 4>>, <<"atlas_width", 36, 4>>, <<"atlas_height", 40, 4>>,
   <<"atlas_data_y", 44, 4>>, <<"atlas_data_height", 48, 4>>}
validate_dimensions(v) ==
  /\ v.width # 0 /\ v.height # 0 /\ v.atlas_width # 0 /\ v.atlas_height # 0
  /\ RowsIn(v.atlas_data_y, v.atlas_data_height, v.atlas_height)
  /\ v.atlas_data_height = 0 => v.atlas_data_y = 0
  /\ v.atlas_width <= MAX_ATLAS_EXTENT /\ v.atlas_height <= MAX_ATLAS_EXTENT
  /\ v.vertex_count \in CLEAR_VERTEX_COUNT..MAX_VERTICES /\ v.vertex_count % 3 = 0
AtlasOffset(v) == HEADER_LEN + VERTEX_STRIDE * v.vertex_count
AtlasBytes(v) == 4 * v.atlas_width * v.atlas_data_height
encode_header(v) ==
  IF ~validate_dimensions(v) THEN {}
  ELSE LET total == AtlasOffset(v) + AtlasBytes(v) IN
       {Frame(total,
              Put(v, SceneFields)
              \union {U32(0, VKGS), U16(4, VERSION), U16(6, HEADER_LEN), U32(8, total), U32(24, VERTEX_STRIDE), U32(28, HEADER_LEN),
                      U32(32, AtlasOffset(v))},
              {<<HEADER_LEN, Plain(VERTEX_STRIDE * v.vertex_count)>>, <<AtlasOffset(v), Plain(AtlasBytes(v))>>})}
decode(f) ==
  LET v == Get(f, SceneFields) IN
  IF f.size < HEADER_LEN THEN {}
  ELSE IF ~(/\ u32(f, 0) = VKGS /\ u16(f, 4) = VERSION /\ u16(f, 6) = HEADER_LEN /\ u32(f, 8) = f.size
            /\ u32(f, 24) = VERTEX_STRIDE /\ validate_dimensions(v)) THEN {}
  ELSE When(u32(f, 28) = HEADER_LEN /\ u32(f, 32) = AtlasOffset(v) /\ AtlasOffset(v) + AtlasBytes(v) = f.size, v)

\* A scene with something else behind it.
decode_prefix(f) ==
  IF f.size < HEADER_LEN THEN {}
  ELSE IF u32(f, 8) > f.size THEN {} ELSE decode(Slice(f, 0, u32(f, 8)))

-----------------------------------------------------------------------------
(* The compositor.                                                         *)

validate_counts(vertices, textures, batches) ==
  /\ vertices \in 1..MAX_VERTICES /\ vertices % 3 = 0
  /\ textures \in 1..MAX_TEXTURES /\ batches \in 1..MAX_BATCHES
validate_texture(t) ==
  /\ t.width \in 1..MAX_TEXTURE_EXTENT /\ t.height \in 1..MAX_TEXTURE_EXTENT
  /\ RowsIn(t.data_y, t.data_height, t.height)
  /\ t.data_len = 4 * t.width * t.data_height

TextureFields(o) ==
  {<<"key", o, 8>>, <<"width", o + 8, 4>>, <<"height", o + 12, 4>>, <<"data_y", o + 16, 4>>, <<"data_height", o + 20, 4>>,
   <<"data_len", o + 28, 4>>, <<"generation", o + 32, 8>>}
TextureAt(i) == COMPOSITOR_HEADER_LEN + TEXTURE_DESC_LEN * (i - 1)
encode_texture(i, t, data_offset) == Put(t, TextureFields(TextureAt(i))) \union {U32(TextureAt(i) + 24, data_offset)}
BatchFields(o) == {<<"texture_key", o, 8>>, <<"first_vertex", o + 8, 4>>, <<"vertex_count", o + 12, 4>>}
encode_batch(offset, i, b) == Put(b, BatchFields(offset + BATCH_DESC_LEN * (i - 1)))

BatchOffset(textures) == COMPOSITOR_HEADER_LEN + TEXTURE_DESC_LEN * textures
VertexOffset(textures, batches) == BatchOffset(textures) + BATCH_DESC_LEN * batches
DataOffset(textures, batches, vertices) == VertexOffset(textures, batches) + VERTEX_STRIDE * vertices
TimingFields == {<<"compose_ms", 52, 4>>, <<"ipc_ms", 56, 4>>, <<"control_ms", 60, 4>>}
set_frame_timing(timing) == UNION {Put(t, TimingFields) : t \in timing}

\* The pixels of the textures that bring some follow each other.
DataAt(start, lens, i) == IF lens[i] = 0 THEN 0 ELSE start + Sum(SubSeq(lens, 1, i - 1))
encode_composition(v) ==
  LET n == Len(v.textures)
      m == Len(v.batches)
      data == DataOffset(n, m, v.vertex_count)
      lens == [i \in 1..n |-> v.textures[i].data_len]
      total == data + Sum(lens) IN
  IF v.width = 0 \/ v.height = 0 \/ ~validate_counts(v.vertex_count, n, m) \/ \E i \in 1..n : ~validate_texture(v.textures[i]) THEN {}
  ELSE {Frame(total,
              {U32(0, VKGC), U16(4, IF v.timing = {} THEN VERSION ELSE TIMED_VERSION), U16(6, COMPOSITOR_HEADER_LEN), U32(8, total),
               U32(12, v.width), U32(16, v.height), U32(20, v.vertex_count), U32(24, VERTEX_STRIDE), U32(28, n), U32(32, m),
               U32(36, COMPOSITOR_HEADER_LEN), U32(40, BatchOffset(n)), U32(44, VertexOffset(n, m)), U32(48, data)}
              \union set_frame_timing(v.timing)
              \union UNION {encode_texture(i, v.textures[i], DataAt(data, lens, i)) : i \in 1..n}
              \union UNION {encode_batch(BatchOffset(n), i, v.batches[i]) : i \in 1..m},
              {<<VertexOffset(n, m), Plain(VERTEX_STRIDE * v.vertex_count)>>, <<data, Plain(Sum(lens))>>})}
batch_valid(b, vertices, textures) ==
  /\ b.vertex_count # 0 /\ b.vertex_count % 3 = 0 /\ RowsIn(b.first_vertex, b.vertex_count, vertices)
  /\ \E i \in DOMAIN textures : textures[i].key = b.texture_key
decode_composition(f) ==
  LET version == u16(f, 4)
      vertices == u32(f, 20)
      n == u32(f, 28)
      m == u32(f, 32)
      data == DataOffset(n, m, vertices)
      textures == [i \in 1..n |-> Get(f, TextureFields(TextureAt(i)))]
      batches == [i \in 1..m |-> Get(f, BatchFields(BatchOffset(n) + BATCH_DESC_LEN * (i - 1)))]
      lens == [i \in 1..n |-> textures[i].data_len] IN
  IF f.size < COMPOSITOR_HEADER_LEN THEN {}
  ELSE IF ~(/\ u32(f, 0) = VKGC /\ version \in {VERSION, TIMED_VERSION} /\ u16(f, 6) = COMPOSITOR_HEADER_LEN /\ u32(f, 8) = f.size
            /\ u32(f, 12) # 0 /\ u32(f, 16) # 0 /\ u32(f, 24) = VERTEX_STRIDE /\ validate_counts(vertices, n, m)) THEN {}
  ELSE IF ~(/\ u32(f, 36) = COMPOSITOR_HEADER_LEN /\ u32(f, 40) = BatchOffset(n) /\ u32(f, 44) = VertexOffset(n, m)
            /\ u32(f, 48) = data /\ data <= f.size /\ (version = VERSION => Zero(f, 52, 12))) THEN {}
  ELSE When(/\ \A i \in 1..n : validate_texture(textures[i]) /\ u32(f, TextureAt(i) + 24) = DataAt(data, lens, i)
            /\ data + Sum(lens) = f.size
            /\ \A i \in 1..m : batch_valid(batches[i], vertices, textures),
            [width |-> u32(f, 12), height |-> u32(f, 16), vertex_count |-> vertices, textures |-> textures, batches |-> batches,
             timing |-> IF version = VERSION THEN {} ELSE {Get(f, TimingFields)}])

-----------------------------------------------------------------------------
Scenes ==
  Vary([width |-> 640, height |-> 480, vertex_count |-> 6, atlas_width |-> 3, atlas_height |-> 5, atlas_data_y |-> 1, atlas_data_height |-> 4],
       [width |-> {0}, height |-> {0}, vertex_count |-> {0, 3, 7, 9, 65535, 65538}, atlas_width |-> {0, 2048, 2049},
        atlas_height |-> {4, 2048, 2049}, atlas_data_y |-> {0, 2, Huge - 1}, atlas_data_height |-> {0, 3, 5}])
  \union {[width |-> 640, height |-> 480, vertex_count |-> 6, atlas_width |-> 3, atlas_height |-> 5, atlas_data_y |-> 0, atlas_data_height |-> 0]}
Texture == [key |-> 7, width |-> 3, height |-> 5, data_y |-> 1, data_height |-> 2, data_len |-> 24, generation |-> 70000]
Kept == [Texture EXCEPT !.key = 8, !.data_height = 0, !.data_len = 0]
Batch == [texture_key |-> 7, first_vertex |-> 0, vertex_count |-> 3]
Textures ==
  {<<>>, <<Kept>>, <<Texture, Kept>>, <<Kept, Texture>>, <<Texture, [Texture EXCEPT !.key = 9, !.data_y = 3]>>, [i \in 1..65 |-> Texture]}
  \union {<<t>> : t \in Vary(Texture, [width |-> {0, 8193}, height |-> {2, 3, 8192}, data_len |-> {0, 23}, data_height |-> {0, 3}])}
\* Batches of textures that are there; the encoder does not look.
Compositions ==
  LET batches(ts) == {<<[Batch EXCEPT !.texture_key = ts[1].key]>>, <<[Batch EXCEPT !.texture_key = ts[Len(ts)].key, !.first_vertex = 3], [Batch EXCEPT !.texture_key = ts[1].key, !.vertex_count = 6]>>}
      of(ts) == [width : {0, 640}, height : {480}, vertex_count : {3 * i : i \in {0, 2, 3}}, textures : {ts}, batches : batches(ts),
                 timing : {{}, {[compose_ms |-> 1, ipc_ms |-> 0, control_ms |-> 70000]}}] IN
  UNION {of(ts) : ts \in Textures \ {<<>>}}
  \union {[width |-> 1, height |-> 1, vertex_count |-> 3, textures |-> <<>>, batches |-> <<Batch>>, timing |-> {}],
          [width |-> 1, height |-> 1, vertex_count |-> 3, textures |-> <<Texture>>, batches |-> [i \in 1..129 |-> Batch], timing |-> {}]}

-----------------------------------------------------------------------------
ExchangeGpuCommands ==
  \/ Exchange("gpu command", Commands, Command_encode, DecodedCommand_decode)
  \/ Exchange("gpu backing", Backings, ResourceAttachBacking_encode, AttachBackingView)
ExchangeGpuSubmissions ==
  \/ Exchange("gpu context", ContextCreates, ContextCreate_encode, ContextCreateView)
  \/ Exchange("gpu submit", Submits, Submit3d_encode, Submit3dView)
ExchangeGpuResponses ==
  \/ Exchange("gpu response", Responses, ResponseMessage_encode, Response_decode)
  \/ Exchange("gpu fenced", Fenced, Respond, LAMBDA f : decode_fenced(value, f))
ExchangeScenes ==
  \/ Exchange("scene", Scenes, encode_header, decode)
  \/ Exchange("scene prefix", Scenes, encode_header, decode_prefix)
ExchangeCompositions ==
  Exchange("composition", Compositions, encode_composition, decode_composition)

Next ==
  \/ ExchangeGpuCommands \/ ExchangeGpuSubmissions \/ ExchangeGpuResponses
  \/ ExchangeScenes \/ ExchangeCompositions
=============================================================================
