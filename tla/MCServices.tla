------------------------------ MODULE MCServices ------------------------------
(* Four independent parts, of which a behaviour runs one, chosen at first: the *)
(* resolver's cache and queries; one TCP connection, with small streams whose  *)
(* sequence numbers wrap; the table of connections and listeners; the client   *)
(* of the POSIX service.                                                       *)
EXTENDS Dns, TLC

CONSTANTS hostA, hostB, A, AAAA,
          SeqSpace, Mss, SendCapacity, ReceiveCapacity, MaxInFlight,
          ClientBytes, ServerBytes,
          TotalBytes,   \* bytes the two ends write together
          Handles, Backlogs, Capacity,
          Threads, Numbers, MaxKept

VARIABLES part, conn, net, written, got, conns, listeners, accepted,
          menu, table, kept, pc, op, attached, ticket, opened, closing, after

connection == <<conn, net, written, got>>
rows == <<conns, listeners, accepted>>
client == <<menu, table, kept, pc, op, attached, ticket, opened, closing, after>>

MCNames == {<<hostA, "test">>, <<hostB, "test">>}

MCZones == {<<"test">>}

-----------------------------------------------------------------------------
MCIss == [client |-> SeqSpace - 1, server |-> SeqSpace - 2]

MCMaxBytes == [client |-> ClientBytes, server |-> ServerBytes]

\* A SYN/ACK and an acknowledgment of something never sent, and a reset that
\* lies in the window.
MCStrays ==
  LET stray(from, seq, ack, flags, window) ==
        [from |-> from, window |-> window,
         seg |-> [seq |-> seq, ack |-> ack, flags |-> flags, payload |-> <<>>]]
  IN  {stray("server", 0, 8, {"SYN", "ACK"}, 1), stray("client", 0, 8, {"ACK"}, 1),
       stray("client", 1, 0, {"RST"}, 0)}

Connection == INSTANCE Tcp WITH Iss <- MCIss, MaxBytes <- MCMaxBytes, Strays <- MCStrays

Table == INSTANCE TcpListener

-----------------------------------------------------------------------------
(* One handle with every right, one to read and pass on, one to wait on.  One  *)
(* client makes every call alone, or two whose calls attach and return handles *)
(* meet.                                                                       *)
Operations == INSTANCE PosixClient WITH Initial <- <<>>, Menus <- {}

MCInitial == 1 :> Operations!AllRights @@ 2 :> {"READ", "TRANSFER"} @@ 3 :> {"WAIT"}

Catalogue == INSTANCE PosixClient WITH Initial <- MCInitial, Menus <- {}

MCMenus ==
  LET C == Catalogue!Calls \cup Catalogue!Attaching \cup Catalogue!Returning
             \cup Catalogue!Services \cup Catalogue!Mutations
  IN  {1 :> {} @@ 2 :> {},
       1 :> C @@ 2 :> {},
       1 :> (Catalogue!open_pty \cup Catalogue!connect_socket \cup Catalogue!prepare_open_fifo)
         @@ 2 :> (Catalogue!socket_record_endpoint \cup Catalogue!transfer_begin
                    \cup Catalogue!prepare_ftruncate)}

Client == INSTANCE PosixClient WITH Initial <- MCInitial, Menus <- MCMenus

-----------------------------------------------------------------------------
(* The parts a behaviour does not run stay in one initial state.              *)
InitAll ==
  /\ part \in {"resolver", "connection", "table", "client"}
  /\ Init /\ Connection!Init /\ Table!Init /\ Client!Init
  /\ part # "resolver" => capacity = 1
  /\ part # "client" <=> menu[1] = {}

NextAll ==
  \/ /\ part = "resolver" /\ Next
     /\ UNCHANGED <<part, connection, rows, client>>
  \/ /\ part = "connection" /\ Connection!Next
     /\ written'["client"] + written'["server"] <= TotalBytes
     /\ UNCHANGED <<part, vars, rows, client>>
  \/ /\ part = "table" /\ Table!Next
     /\ UNCHANGED <<part, vars, connection, client>>
  \/ /\ part = "client" /\ Client!Next
     /\ UNCHANGED <<part, vars, connection, rows>>

SpecAll == InitAll /\ [][NextAll]_<<part, vars, connection, rows, client>>

\* The record types are alike, and so are the hosts.
Symmetry == Permutations({A, AAAA}) \cup Permutations({hostA, hostB})

\* See Tcp: each end accepts the bytes its peer wrote, in order.
StreamIntegrity == part = "connection" => Connection!StreamIntegrity

\* See Tcp: a FIN closes the stream behind its last byte.
OrderlyClose == part = "connection" => Connection!OrderlyClose

\* See TcpListener: every connection is in exactly one place.
BacklogAccountsForAll == part = "table" => Table!BacklogAccountsForAll

\* See PosixClient: every handle is kept, passed on or closed once.
HandlesSettled == part = "client" => Client!HandlesSettled

\* See PosixClient: no request passes on a right its source does not have.
AttachedWithinSource == part = "client" => Client!AttachedWithinSource
=============================================================================
