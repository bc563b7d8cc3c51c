------------------------------- MODULE MCData -------------------------------
(***************************************************************************)
(* Data that is sent, and data that is stored; a behaviour is about one    *)
(* part, chosen at first.  Every codec of the protocol crates on values    *)
(* around its limits, each frame once as written and once with one thing   *)
(* about it changed.  The certificate store with two kinds, three versions *)
(* and a bounded generation.                                               *)
(***************************************************************************)
EXTENDS Wire, CertificateStore

CONSTANTS trust, revocations, MaxVersion

VARIABLE part

MCSnapshots == [version: 1..MaxVersion, generated_at: {1}]

MCTimes == {0}

Workspace == INSTANCE WorkspaceProtocol
Posix == INSTANCE PosixProtocol
Accounts == INSTANCE AccountProtocols
Capability == INSTANCE CapabilityProtocol
Filesystem == INSTANCE FilesystemProtocol
NetDevice == INSTANCE NetDeviceProtocol
Gpu == INSTANCE GpuProtocols
Services == INSTANCE ServiceMessages
Signed == INSTANCE Signatures
Packet == INSTANCE Packets

\* The codecs of one crate, or of a few small ones.
Codecs ==
  \/ part = "workspace" /\ Workspace!Next
  \/ part = "posix" /\ Posix!Next
  \/ part = "accounts" /\ Accounts!Next
  \/ part = "capability" /\ Capability!Next
  \/ part = "filesystem" /\ Filesystem!Next
  \/ part = "net device" /\ NetDevice!Next
  \/ part = "gpu" /\ Gpu!Next
  \/ part = "services" /\ Services!Next
  \/ part = "signatures" /\ Signed!Next
  \/ part = "packets" /\ Packet!Next

Crates == {"workspace", "posix", "accounts", "capability", "filesystem", "net device", "gpu", "services",
           "signatures", "packets"}

InitAll == part \in Crates \cup {"store"} /\ Idle /\ Init

NextAll ==
  \/ part # "store" /\ stage # "received" /\ (Alter \/ Codecs) /\ UNCHANGED <<part, vars>>
  \/ part = "store" /\ Next /\ UNCHANGED <<part, wire>>

SpecAll == InitAll /\ [][NextAll]_<<part, wire, vars>>

\* The bytes a decoder does not look at, and the decoders that leave what
\* follows the frame to their caller.
Unread ==
  CASE format = "workspace status" -> (20..23) \union (28..31)
    [] format = "posix message" -> 28..31
    [] format = "account refused" -> 32..39
    [] format = "keychain reply" /\ ByteAt(frame, 10) # 0 -> 8..9
    [] format = "capability request" -> (4..7) \union (314..315) \union (778..783)
    [] format = "capability decision" -> (20..23) \union (330..331) \union (794..799)
    [] format = "net interface" -> {38}
    [] format = "verified" /\ ByteAt(frame, 134) = 0 -> {134}
    [] format = "install record" /\ ByteAt(frame, 142) = 0 -> {142}
    [] format = "udp" /\ Zero(frame, 6, 2) -> 6..7
    [] OTHER -> {}
Open == {"posix message", "filesystem message", "directory entry", "time update", "scene prefix", "arp", "ipv4", "udp"}

\* What a decoder takes though no encoder writes it: a command to flush
\* resource 0, and what servers add to their answers to DHCP.
Lax == (format = "gpu command" /\ \E v \in got : v.op = 260 /\ v.resource_id = 0) \/ format = "dhcp"

\* The frame without what the decoder leaves alone, and with the places
\* where text begins and ends for the texts: a length that changes may cut
\* the same bytes elsewhere.
Read(f, size) ==
  LET g == IF format \in Open /\ size < f.size THEN Slice(f, 0, size) ELSE f
      starts == {t[1] : t \in g.texts}
      ends == {t[1] + t[2].n : t \in g.texts} IN
  [size |-> g.size, bytes |-> {b \in g.bytes : b[1] \notin Unread}, starts |-> starts \ ends, ends |-> ends \ starts]

\* A frame is accepted in one form only: encoding what a decoder returns
\* gives the frame it read, whatever happened to the frame on its way.  No
\* reserved byte, flag, length, padding or trailing byte goes unchecked,
\* but for those listed above.
OnlyCanonical ==
  stage = "received" /\ got # {} /\ ~Lax => \E f \in again : Read(f, f.size) = Read(frame, f.size)
=============================================================================
