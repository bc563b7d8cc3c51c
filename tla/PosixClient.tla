------------------------------ MODULE PosixClient ------------------------------
(***************************************************************************)
(* The client of the POSIX service: posix-client's Client, its operations,  *)
(* and the free functions that talk to the socket services over the same    *)
(* kind of transport.  A call attaches handles of the process, the kernel   *)
(* installs the handles of the reply in the process, and the client either  *)
(* returns each of them to its caller or closes it.  Several threads share  *)
(* one client; the kernel gives a closed handle's number to a later reply.  *)
(* An operation is a record:                                                *)
(*   via      "call" (no handles), "client", "raw" (no header) or "queued"  *)
(*   strict   the reply's flags must be zero                                *)
(*   busy     the reply may say that memory admission is busy               *)
(*   sources  the rights checked and attached, one per attached handle      *)
(*   wants    the replies accepted: <<body, rights of the handles>>         *)
(*   discards how handles that are not wanted are closed: "drain" (each      *)
(*            once, attached ones never), "cleanup" (each once), "loop" (each) *)
(*   apart    the first attached handle differs from the others             *)
(* Contents of payloads are left to the models of the formats: a body is    *)
(* empty, good or bad for the decoder, or long for the buffer.              *)
(***************************************************************************)
EXTENDS Integers, Sequences, FiniteSets, SequencesExt

CONSTANTS Threads,     \* threads that share the client
          Numbers,     \* handle numbers of the process, from 1 on
          Initial,     \* handles that the process holds throughout: number -> rights
          Menus,       \* thread -> operations it calls, for each behaviour
          MaxKept      \* handles that callers hold when they begin a call

VARIABLES menu,        \* what the threads call
          table,       \* live handles of the process: number -> rights
          kept,        \* handles that calls returned
          pc,          \* "idle", "sent", "waiting", "pending" or "closing"
          op,          \* the operation of the call in progress
          attached,    \* its sources: handle and rights
          ticket,      \* the place in the admission queue, or 0
          opened,      \* a FIFO's data handle and its notification while they wait
          closing,     \* handles that the call still has to close
          after        \* where it goes on when they are closed

vars == <<menu, table, kept, pc, op, attached, ticket, opened, closing, after>>

MAX_OBJECT_HANDLES == 4

-----------------------------------------------------------------------------
(* Rights *)

AllRights == {"READ", "WRITE", "SEEK", "CONTROL", "MAP", "DUPLICATE", "TRANSFER", "WAIT",
              "SIGNAL", "SEND"}
Unchecked == {"any"}       \* any rights are accepted, or attached as they are
Transferable == {"any", "TRANSFER"}     \* any that include TRANSFER

CHECK_EXECUTABLE_RIGHTS == {"READ", "TRANSFER"}
THREAD_WAIT_INTERRUPT_RIGHTS == {"WAIT", "TRANSFER"}
ACCOUNT_ENDPOINT_RIGHTS == {"SEND", "DUPLICATE", "TRANSFER"}
READER_RIGHTS == {"READ", "MAP"}
TICKET_RIGHTS == {"WAIT", "TRANSFER"}
NOTIFICATION_RIGHTS == {"WAIT", "DUPLICATE", "TRANSFER"}
COMPLETION_RIGHTS == {"READ", "WAIT"}
TOKEN_RIGHTS == {"DUPLICATE", "TRANSFER"}
FILE_RIGHTS == {"READ"} \cup TOKEN_RIGHTS
ENDPOINT_RIGHTS == {"SEND", "TRANSFER"}
TRANSFER_RIGHTS == {"CONTROL", "WAIT", "TRANSFER"}
ROUTE_RIGHTS == {"WRITE", "WAIT", "TRANSFER"}
SEMAPHORE_RIGHTS == {"READ", "WRITE", "MAP", "DUPLICATE", "TRANSFER"}
endpoint_rights == {"SEND", "DUPLICATE", "TRANSFER"}
client_endpoint_rights == {"SEND", "TRANSFER"}
receive_wait_socket_rights == {"READ", "TRANSFER"}
receive_wait_job_rights == {"WAIT", "TRANSFER"}
connect_socket_rights == {"CONTROL", "TRANSFER"}
connect_job_rights == {"CONTROL", "WAIT", "TRANSFER"}
accept_listener_rights == {"CONTROL", "TRANSFER"}
inet_factory_rights == {"CONTROL", "TRANSFER"}
socket_descriptor_rights == {"READ", "WRITE", "CONTROL", "WAIT", "DUPLICATE", "TRANSFER"}
descriptor_rights(read_write) ==
  {"READ", "SEEK", "CONTROL", "DUPLICATE", "TRANSFER"} \cup (IF read_write THEN {"WRITE"} ELSE {})
mapping_rights(writable) ==
  {"READ", "MAP", "DUPLICATE", "TRANSFER"} \cup (IF writable THEN {"WRITE"} ELSE {})
data_rights(direction) == {"CONTROL", "DUPLICATE", "TRANSFER", "WAIT", direction}

file_mutation_rights(opcode) ==
  CASE opcode = "OP_FTRUNCATE" -> {"WRITE", "TRANSFER"}
    [] opcode \in {"OP_FCHMOD", "OP_FCHOWN", "OP_FUTIMENS"} -> {"CONTROL", "TRANSFER"}
    [] OTHER -> Unchecked

\* The kind of lock asked for, and whether its range starts at the file's position.
required_rights(kind, current) ==
  {"TRANSFER"} \cup (IF kind \in {"READ", "WRITE"} THEN {kind} ELSE {})
               \cup (IF current THEN {"SEEK"} ELSE {})

-----------------------------------------------------------------------------
(* Sources: what is asked of a caller's handle and what is attached of it *)

\* Passed on as the caller gives it.
Whole == [need |-> {}, lacks |-> {}, exact |-> FALSE, nonzero |-> FALSE, give |-> Unchecked]
\* Must hold `rights`; exactly these are attached.
Needs(rights) == [Whole EXCEPT !.need = rights, !.give = rights]
NeedsLive(rights) == [Needs(rights) EXCEPT !.nonzero = TRUE]
NeedsExactly(rights) == [NeedsLive(rights) EXCEPT !.exact = TRUE]

\* What is attached of `source` for `spec`, or nothing when the check refuses it.
Attach(spec, source) ==
  IF /\ spec.need \subseteq source.rights
     /\ spec.lacks \cap source.rights = {}
     /\ spec.exact => source.rights = spec.need
     /\ spec.nonzero => source.handle # 0
  THEN {[handle |-> source.handle,
         rights |-> IF spec.give = Unchecked THEN source.rights ELSE spec.give]}
  ELSE {}

-----------------------------------------------------------------------------
(* The requests that the operations share *)

Operation(via, sources, wants) ==
  [via |-> via, strict |-> FALSE, busy |-> FALSE, sources |-> sources, wants |-> wants,
   discards |-> "drain", apart |-> FALSE]

Empty == {<<"empty", <<>>>>}          \* an empty body and no handle
Good == {<<"good", <<>>>>}            \* a body that decodes and no handle
Bytes == {<<"empty", <<>>>>, <<"good", <<>>>>, <<"bad", <<>>>>}    \* any body that fits
Object(rights) == {<<"empty", <<rights>>>>}

\* Client::request, and request_without_reply_handles.
Call(wants) == {Operation("call", <<>>, wants)}
WithoutReplyHandles(sources, wants) == {Operation("client", sources, wants)}
WithHandles(sources, wants) == {Operation("client", sources, wants)}
Strict(operations) == {[o EXCEPT !.strict = TRUE] : o \in operations}
Busy(operations) == {[o EXCEPT !.busy = TRUE] : o \in operations}

\* OpenAtBase, StatAtBase and AccessAtBase: the process's root or working
\* directory, or an attached directory.
AtBase(wants) == WithoutReplyHandles(<<>>, wants) \cup WithoutReplyHandles(<<Whole>>, wants)
TwoBases(wants) == AtBase(wants) \cup WithoutReplyHandles(<<Whole, Whole>>, wants)

terminal_request(wants) == WithoutReplyHandles(<<Whole>>, wants)
tree_request == WithoutReplyHandles(<<Whole>>, Empty)
create_node_at == AtBase(Empty)
configuration_at(wants) == AtBase(wants)
timer_request(wants) == WithoutReplyHandles(<<>>, wants)
signal_delivery_request == Call(Empty)
signal_disposition_request == Call(Good)
set_credential_id == Call(Empty)
set_credential_pair == Call(Empty)

file_request(opcode, source, wants) ==
  WithoutReplyHandles(<<IF file_mutation_rights(opcode) = Unchecked THEN source
                        ELSE Needs(file_mutation_rights(opcode))>>, wants)
file_operation(opcode, source) == file_request(opcode, source, Empty)

-----------------------------------------------------------------------------
(* Operations without handles *)

ping == Call(Empty)
register_session == Call(Empty)
session_info == Call(Good)
wait_child == Call(Good)
waited_child_cpu_usage == Call(Good)
waited_child_usage == Call(Good)
thread_signal_epoch == Call(Good)
\* "good" also means that the accepted signal is one of the mask's.
wait_thread_signal_info == Call(Good)
wait_child_since == Call(Good)
wait_child_info_since == Call(Good)
wait_child_usage_since == Call(Good)
report_process_stopped == signal_delivery_request
complete_signal_delivery == signal_delivery_request
report_process_signaled == signal_delivery_request
process_info == Call(Good)
set_process_group == Call(Empty)
create_session == Call(Good)
send_signal == Call(Empty)
pending_signals == Call(Good)
signal_image_started == Call(Good)
thread_signal_mask == Call(Good)
raise_signal == Call(Empty)
fault_signal_delivery == Call(Good)
signal_delivery_origin == Call(Good)
thread_pending_signals == Call(Good)
thread_dequeue_signal_delivery == Call(Good)
set_signal_disposition == signal_disposition_request
signal_disposition == signal_disposition_request
set_signal_child_options == Call(Empty)
resource_limit == Call(Good)
set_umask == Call(Good)
set_uid == set_credential_id
set_gid == set_credential_id
set_effective_uid == set_credential_id
set_effective_gid == set_credential_id
set_real_effective_uid == set_credential_pair
set_real_effective_gid == set_credential_pair
reset_effective_ids == Call(Empty)
get_groups == Call(Good)
set_groups == Call(Empty)
getcwd == Call(Bytes)
alarm == Call(Good)
real_timer == Call(Good)
set_real_timer == Call(Good)
cpu_timer == Call(Good)
set_cpu_timer == Call(Good)
lookup_group == Call(Good)
lookup_account == Call(Good)

ChildCalls ==
  UNION {ping, register_session, session_info, wait_child, waited_child_cpu_usage,
         waited_child_usage, thread_signal_epoch, wait_thread_signal_info,
         wait_child_since}
ProcessCalls ==
  UNION {wait_child_info_since, wait_child_usage_since, report_process_stopped,
         complete_signal_delivery, report_process_signaled, process_info,
         set_process_group, create_session, send_signal, pending_signals,
         signal_image_started}
SignalCalls ==
  UNION {thread_signal_mask, raise_signal, fault_signal_delivery, signal_delivery_origin,
         thread_pending_signals, thread_dequeue_signal_delivery, set_signal_disposition,
         signal_disposition, set_signal_child_options}
CredentialCalls ==
  UNION {resource_limit, set_umask, set_uid, set_gid, set_effective_uid,
         set_effective_gid, set_real_effective_uid, set_real_effective_gid,
         reset_effective_ids, get_groups, set_groups, getcwd}
TimerCalls ==
  UNION {alarm, real_timer, set_real_timer, cpu_timer, set_cpu_timer}
AccountCalls ==
  UNION {lookup_group, lookup_account}

Calls ==
  UNION {ChildCalls, ProcessCalls, SignalCalls, CredentialCalls, TimerCalls, AccountCalls}

-----------------------------------------------------------------------------
(* Operations that attach handles and receive none *)

grant_pty_master == terminal_request(Empty)
acquire_controlling_terminal == terminal_request(Empty)
release_controlling_terminal == terminal_request(Empty)
\* "good" also means a positive process group or session.
terminal_foreground_process_group == terminal_request(Good)
terminal_session_id == terminal_request(Good)
set_terminal_foreground_process_group == terminal_request(Empty)
terminal_process_foreground ==
  Strict(WithoutReplyHandles(<<NeedsLive({"CONTROL", "TRANSFER"}), NeedsLive({"WAIT"})>>, Good))
process_has_terminal == Strict(WithoutReplyHandles(<<NeedsExactly({"WAIT"})>>, Good))
register_signal_thread == WithoutReplyHandles(<<Whole>>, Empty)
send_thread_signal == WithoutReplyHandles(<<Whole>>, Empty)
initialize_process == WithoutReplyHandles(<<Whole>>, Empty)
register_spawned_child == WithoutReplyHandles(<<Whole>>, Empty)
register_launched_child == WithoutReplyHandles(<<Whole, Whole>>, Empty)
abort_launched_child == WithoutReplyHandles(<<Whole>>, Empty)
terminate_launched_tree == tree_request
reclaim_launched_tree == tree_request
process_session_info == WithoutReplyHandles(<<Whole>>, Good)
canonical_path_at == AtBase(Bytes)
stat_at == AtBase(Good)
fstat == file_request("OP_FSTAT", Whole, Good)
\* "good" also means a reply of the kind the lock operation asks for.
record_lock ==
  UNION {file_request("OP_RECORD_LOCK", Needs(required_rights(kind, current)), Good) :
           kind \in {"READ", "WRITE", "other"}, current \in BOOLEAN}
wait_record_lock_since ==
  UNION {file_request("OP_RECORD_LOCK_WAIT", Needs(required_rights(kind, current)), Good) :
           kind \in {"READ", "WRITE"}, current \in BOOLEAN}
interrupt_thread_waits ==
  file_request("OP_THREAD_WAIT_INTERRUPT", Needs(THREAD_WAIT_INTERRUPT_RIGHTS), Empty)
access_at == AtBase(Empty)
chdir_at == AtBase(Empty)
chroot_at == AtBase(Empty)
fchdir == WithoutReplyHandles(<<Whole>>, Empty)
ftruncate == Busy(file_operation("OP_FTRUNCATE", Whole))
fsync == file_operation("OP_FSYNC", Whole)
mkdir_at == create_node_at
mkfifo_at == create_node_at
unlink_at == AtBase(Empty)
rename_at == TwoBases(Empty)
link_at == TwoBases(Empty)
truncate_at == Busy(AtBase(Empty))
symlink_at == AtBase(Empty)
readlink_at == AtBase(Bytes)
chmod_at == AtBase(Empty)
chown_at == AtBase(Empty)
utimens_at == AtBase(Empty)
futimens == file_operation("OP_FUTIMENS", Whole)
check_executable ==
  Strict(file_operation("OP_CHECK_EXECUTABLE", Needs(CHECK_EXECUTABLE_RIGHTS)))
fchmod == file_operation("OP_FCHMOD", Whole)
fchown == file_operation("OP_FCHOWN", Whole)
volume_status_at == Strict(configuration_at(Good))
volume_status ==
  Strict(file_request("OP_VOLUME_STATUS_HANDLE", NeedsLive({"TRANSFER"}), Good))
path_limits_at == configuration_at(Good)
terminal_limits_at == configuration_at(Good)
prepare_fork == WithoutReplyHandles(<<>>, Good)
commit_fork == WithoutReplyHandles(<<Whole>>, Empty)
cancel_fork == WithoutReplyHandles(<<>>, Empty)
\* "good" also means the token of the earlier batch, or zero after a cancel.
prepare_record_lock_exec ==
  UNION {WithoutReplyHandles([i \in 1..n |-> Needs({"TRANSFER"})], Good) :
           n \in 1..MAX_OBJECT_HANDLES}
cancel_record_lock_exec == WithoutReplyHandles(<<>>, Good)
read_scope_attachment == NeedsLive({"TRANSFER"})
read_scope_info == Strict(WithoutReplyHandles(<<read_scope_attachment>>, Good))
read_scope_source_info == Strict(WithoutReplyHandles(<<read_scope_attachment>>, Good))
register_launched_child_in_scope ==
  Strict(WithoutReplyHandles(<<read_scope_attachment, NeedsLive({"WAIT"}),
                               NeedsLive({"WAIT", "SIGNAL"})>>, Empty))
register_spawned_child_in_domain ==
  Strict(WithoutReplyHandles(<<NeedsLive({"TRANSFER"}), NeedsLive({"WAIT", "SIGNAL"})>>, Empty))
process_domain_contains ==
  Strict(WithoutReplyHandles(<<NeedsLive({"TRANSFER"}), NeedsLive({"WAIT"})>>, Good))
install_network_endpoint == WithHandles(<<NeedsLive(endpoint_rights)>>, Empty)
install_account_endpoint == WithHandles(<<NeedsLive(ACCOUNT_ENDPOINT_RIGHTS)>>, Empty)
timer_create == timer_request(Good)
\* The caller's thread handle holds WAIT.
timer_create_for_thread == WithoutReplyHandles(<<Needs({"WAIT"})>>, Good)
timer_create_for_process == timer_request(Good)
timer_delete == timer_request(Empty)
timer_wait_callback == timer_request(Good)
timer_value == timer_request(Good)
timer_set == timer_request(Good)
timer_overrun == timer_request(Good)

TerminalRequests ==
  UNION {grant_pty_master, acquire_controlling_terminal, release_controlling_terminal,
         terminal_foreground_process_group, terminal_session_id,
         terminal_process_foreground, process_has_terminal,
         set_terminal_foreground_process_group}
ChildRequests ==
  UNION {register_signal_thread, send_thread_signal, initialize_process,
         register_spawned_child, register_launched_child, abort_launched_child}
TreeRequests ==
  UNION {terminate_launched_tree, reclaim_launched_tree, process_session_info}
FileQueries ==
  UNION {canonical_path_at, stat_at, fstat, record_lock, wait_record_lock_since}
DirectoryRequests ==
  UNION {interrupt_thread_waits, access_at, chdir_at, chroot_at, fchdir}
NodeRequests ==
  UNION {ftruncate, fsync, mkdir_at, mkfifo_at, unlink_at}
LinkRequests ==
  UNION {rename_at, link_at, truncate_at}
SymlinkRequests ==
  UNION {symlink_at, readlink_at, chmod_at}
AttributeRequests ==
  UNION {chown_at, utimens_at, futimens, check_executable, fchmod, fchown}
LimitRequests ==
  UNION {path_limits_at, terminal_limits_at}
VolumeRequests ==
  UNION {volume_status_at, volume_status}
ForkRequests ==
  UNION {prepare_fork, commit_fork, cancel_fork}
LockExecRequests ==
  UNION {prepare_record_lock_exec, cancel_record_lock_exec}
ScopeRequests ==
  UNION {read_scope_info, read_scope_source_info, register_launched_child_in_scope}
DomainRequests ==
  UNION {register_spawned_child_in_domain, process_domain_contains}
TimerRequests ==
  UNION {timer_create, timer_create_for_thread, timer_create_for_process, timer_delete,
         timer_wait_callback, timer_value, timer_set, timer_overrun}

Attaching ==
  UNION {TerminalRequests, ChildRequests, TreeRequests, FileQueries, DirectoryRequests,
         NodeRequests, LinkRequests, SymlinkRequests, AttributeRequests, LimitRequests,
         VolumeRequests, ForkRequests, LockExecRequests, ScopeRequests, DomainRequests,
         TimerRequests, install_network_endpoint, install_account_endpoint}

-----------------------------------------------------------------------------
(* Operations that return handles *)

open_pty_master == WithHandles(<<>>, Object(Unchecked))
open_pty == WithHandles(<<>>, {<<"empty", <<Unchecked, Unchecked>>>>})
open_at ==
  Busy(WithHandles(<<>>, Object(Unchecked)) \cup WithHandles(<<Whole>>, Object(Unchecked)))
read_scope_object(sources, rights) == Strict(WithHandles(sources, Object(rights)))
create_read_scope == read_scope_object(<<>>, TOKEN_RIGHTS)
read_scope_open_options == read_scope_object(<<read_scope_attachment>>, FILE_RIGHTS)
create_process_domain ==
  UNION {Strict(WithHandles([i \in 1..n |-> NeedsLive({"WAIT"})], Object(TOKEN_RIGHTS))) :
           n \in 0..MAX_OBJECT_HANDLES}
resource_policy_handle == WithHandles(<<>>, Object(READER_RIGHTS))
network_endpoint == WithHandles(<<>>, Object(client_endpoint_rights))
fifo_wait ==
  UNION {Strict(WithHandles(<<[NeedsLive({direction, "TRANSFER"}) EXCEPT
                                 !.lacks = {"READ", "WRITE"} \ {direction}]>>,
                            Object(NOTIFICATION_RIGHTS))) :
           direction \in {"READ", "WRITE"}}
begin_cpu_sleep(sources) == WithHandles(sources, {<<"good", <<COMPLETION_RIGHTS>>>>})
begin_process_cpu_sleep == begin_cpu_sleep(<<>>)
begin_thread_cpu_sleep == begin_cpu_sleep(<<NeedsLive({"WAIT"})>>)
wait_socket_receive ==
  WithHandles(<<NeedsLive(receive_wait_socket_rights)>>, Object(receive_wait_job_rights))
\* The two bodies of ConnectReply: Connected (good) and Waiting (bad).
connect_socket ==
  WithHandles(<<NeedsLive(connect_socket_rights)>>,
              {<<"good", <<>>>>, <<"bad", <<connect_job_rights>>>>})
accept_socket ==
  WithHandles(<<NeedsLive(accept_listener_rights)>>, {<<"good", <<socket_descriptor_rights>>>>})
open_socket == WithHandles(<<>>, Object(socket_descriptor_rights))
open_inet_socket ==
  WithHandles(<<NeedsLive(inet_factory_rights)>>, Object(socket_descriptor_rights))
open_inet_datagram == open_inet_socket
open_inet_stream == open_inet_socket
socket_pair ==
  WithHandles(<<>>, {<<"empty", <<socket_descriptor_rights, socket_descriptor_rights>>>>})
execute_shared_memory_namespace(wants) == Strict(WithHandles(<<>>, wants))
open_shared_memory ==
  UNION {execute_shared_memory_namespace(Object(descriptor_rights(rw))) : rw \in BOOLEAN}
unlink_shared_memory == execute_shared_memory_namespace(Empty)
shared_memory_backing ==
  UNION {Strict(WithHandles(<<NeedsLive({"READ", "CONTROL", "TRANSFER"} \cup
                                        (IF writable THEN {"WRITE"} ELSE {}))>>,
                            Object(mapping_rights(writable)))) : writable \in BOOLEAN}

\* The runtime's own request for named semaphores.
semaphore_request(wants) == {[o EXCEPT !.discards = "loop"] : o \in WithHandles(<<>>, wants)}
sem_open == semaphore_request(Object(SEMAPHORE_RIGHTS))
sem_unlink == semaphore_request(Empty)

PtyOpens == UNION {open_pty_master, open_pty}
CpuSleeps == UNION {begin_process_cpu_sleep, begin_thread_cpu_sleep}
SocketWaits == UNION {wait_socket_receive, connect_socket}
SocketOpens == UNION {accept_socket, open_socket}
InetOpens == UNION {open_inet_datagram, open_inet_stream, socket_pair}
SharedMemoryRequests == UNION {open_shared_memory, unlink_shared_memory, shared_memory_backing}

Returning ==
  UNION {PtyOpens, CpuSleeps, SocketWaits, SocketOpens, InetOpens, SharedMemoryRequests,
         open_at, create_read_scope, read_scope_open_options, create_process_domain,
         resource_policy_handle, network_endpoint, fifo_wait, sem_open, sem_unlink}

-----------------------------------------------------------------------------
(* The socket services: frames without the control header *)

Raw(sources, wants) == {Operation("raw", sources, wants)}
\* socket_record's cleanup closes what it received, attached or not.
RawRecord(sources, wants) == {[o EXCEPT !.discards = "cleanup"] : o \in Raw(sources, wants)}
\* attach: the source must also be transferable, which is not passed on.
Lend(rights) == [NeedsLive(rights \cup {"TRANSFER"}) EXCEPT !.give = rights]

socket_record_endpoint ==
  {[o EXCEPT !.discards = "cleanup"] : o \in WithHandles(<<>>, Object(ENDPOINT_RIGHTS))}
exchange_frame(sending) ==
  RawRecord(<<Lend(IF sending THEN {"WRITE"} ELSE {"READ"}),
              Lend(IF sending THEN {"MAP", "READ"} ELSE {"MAP", "WRITE"})>>, Good)
exchange == exchange_frame(TRUE) \cup exchange_frame(FALSE)
send_to == exchange_frame(TRUE)
wait_send == RawRecord(<<Lend({"WRITE"})>>, {<<"good", <<receive_wait_job_rights>>>>})
prepare_route == RawRecord(<<Lend({"WRITE"})>>, {<<"good", <<ROUTE_RIGHTS>>>>})
acquire_factory == Raw(<<>>, {<<"good", <<{"CONTROL", "DUPLICATE", "TRANSFER"}>>>>})
acquire_stream_factory == Raw(<<>>, {<<"good", <<{"CONTROL", "DUPLICATE", "TRANSFER"}>>>>})
transfer_begin == Raw(<<Lend({"WRITE"})>>, {<<"good", <<TRANSFER_RIGHTS>>>>})
BATCH_SIZE == MAX_OBJECT_HANDLES - 1
Apart(operations) == {[o EXCEPT !.apart = TRUE] : o \in operations}
transfer_append ==
  UNION {Apart(Raw(<<Lend({"CONTROL"})>> \o
                   [i \in 1..n |-> [Lend({}) EXCEPT !.give = Unchecked]], Good)) :
           n \in 1..BATCH_SIZE}
commit_prefix == Apart(Raw(<<Lend({"CONTROL"}), Lend({"READ", "MAP"})>>, Good))
\* A message without descriptors, and one with a receipt for them.
receive_using ==
  Apart(Raw(<<Lend({"READ"}), Lend({"WRITE", "MAP"})>>,
            {<<"good", <<>>>>, <<"bad", <<TRANSFER_RIGHTS>>>>}))
transfer_deliver ==
  Raw(<<Lend({"CONTROL"})>>,
      {<<"good", [i \in 1..n |-> Transferable]>> : n \in 1..MAX_OBJECT_HANDLES})

RecordExchanges == UNION {socket_record_endpoint, exchange, send_to}
RecordWaits == UNION {wait_send, prepare_route}
Factories == UNION {acquire_factory, acquire_stream_factory}
TransferSends == UNION {transfer_begin, transfer_append}

Services ==
  UNION {RecordExchanges, RecordWaits, Factories, TransferSends, commit_prefix,
         receive_using, transfer_deliver}

-----------------------------------------------------------------------------
(* Mutations that queue for memory admission: file_admission *)

Queued(sources, wants) == {Operation("queued", sources, wants)}
\* Mutant of mutation_source: attaches what the mutation needs without asking
\* whether the source has it.
mutation_sourceUnasked(rights) == [NeedsLive(rights \cup {"TRANSFER"}) EXCEPT !.need = {}]
mutation_source(rights) == NeedsLive(rights \cup {"TRANSFER"})
prepare_open_at ==
  UNION {Queued(sources, Object(Unchecked)) :
           sources \in {<<>>, <<mutation_source({"READ"})>>}}
\* A blocking open of a FIFO may also answer with its data and a notification.
prepare_open_fifo ==
  {[o EXCEPT !.wants = @ \cup {<<"pending", <<data_rights("READ"), NOTIFICATION_RIGHTS>>>>}] :
     o \in prepare_open_at}
prepare_ftruncate == Queued(<<mutation_source({"WRITE"})>>, Empty)
prepare_truncate_at ==
  Queued(<<>>, Empty) \cup Queued(<<mutation_source({"READ"})>>, Empty)

Mutations ==
  UNION {prepare_open_at, prepare_open_fifo, prepare_ftruncate, prepare_truncate_at}

-----------------------------------------------------------------------------
(* Replies and what becomes of their handles *)

Accepts(want, rights) ==
  \/ want = Unchecked \/ rights = want
  \/ want = Transferable /\ "TRANSFER" \in rights

HandlesOf(items) == {items[i].handle : i \in 1..Len(items)}

\* Mutant of drain_received_handles: a number that occurs twice is closed twice.
drainRepeats(received, borrowed) ==
  SelectSeq([i \in 1..Len(received) |-> received[i].handle],
            LAMBDA h : h # 0 /\ h \notin HandlesOf(borrowed))

\* Received handles to close: each once, and none that was attached.
drain_received_handles(received, borrowed) ==
  LET closes(i) == /\ received[i].handle # 0
                   /\ received[i].handle \notin HandlesOf(borrowed)
                   /\ received[i].handle \notin HandlesOf(SubSeq(received, 1, i - 1))
  IN [k \in 1..Cardinality({i \in 1..Len(received) : closes(i)}) |->
        received[CHOOSE i \in 1..Len(received) :
                   closes(i) /\ Cardinality({j \in 1..i : closes(j)}) = k].handle]

\* socket_record's cleanup.
cleanup(received) == drain_received_handles(received, <<>>)

\* The loop over a delivery the transport cannot take, and over what the request
\* for a named semaphore does not want: whatever is not zero is closed.
close_syscall_attachments(received) ==
  SelectSeq([i \in 1..Len(received) |-> received[i].handle], LAMBDA h : h # 0)

Discard(o, received, borrowed) ==
  CASE o.discards = "drain" -> drain_received_handles(received, borrowed)
    [] o.discards = "cleanup" -> cleanup(received)
    [] o.discards = "loop" -> close_syscall_attachments(received)

\* The handles of a reply are those wanted: as many, with these rights, live,
\* distinct and not attached ones.
Matches(want, received, borrowed) ==
  /\ Len(received) = Len(want)
  /\ \A i \in 1..Len(want) : Accepts(want[i], received[i].rights)
  /\ 0 \notin HandlesOf(received)
  /\ HandlesOf(received) \cap HandlesOf(borrowed) = {}
  /\ Cardinality(HandlesOf(received)) = Len(received)

\* What the client makes of the reply before it looks at the handles it wants.
object_request_frame(o, reply, received) ==
  CASE reply.header \in {"garbled", "opcode", "id"} -> "error"
    [] o.strict /\ reply.header = "flags" -> "error"
    [] reply.status = "busy" ->
         IF o.busy /\ reply.header = "fine" /\ reply.body = "empty" /\ received = <<>>
         THEN "busy" ELSE "error"
    [] reply.status = "failed" \/ reply.body = "long" -> "error"
    [] OTHER -> "ok"

request_frame(o, reply) ==
  IF \/ reply.header \in {"garbled", "opcode", "id"}
     \/ reply.status # "ok" \/ reply.body = "long"
  THEN "error" ELSE "ok"

\* The services' frames carry a status of their own.
raw_reply(reply) ==
  IF reply.header = "garbled" \/ reply.status # "ok" \/ reply.body = "long"
  THEN "error" ELSE "ok"

Understood(o, reply, received) ==
  CASE o.via = "call" -> request_frame(o, reply)
    [] o.via = "client" -> object_request_frame(o, reply, received)
    [] o.via = "raw" -> raw_reply(reply)

\* The call succeeds with the handles received.
Succeeds(o, reply, received, borrowed) ==
  /\ Understood(o, reply, received) = "ok"
  /\ \E w \in o.wants : w[1] = reply.body /\ Matches(w[2], received, borrowed)

-----------------------------------------------------------------------------
(* Calls *)

Init ==
  /\ menu \in Menus /\ table = Initial /\ kept = {}
  /\ pc = [t \in Threads |-> "idle"] /\ op = [t \in Threads |-> {}]
  /\ attached = [t \in Threads |-> <<>>] /\ ticket = [t \in Threads |-> 0]
  /\ opened = [t \in Threads |-> <<>>]
  /\ closing = [t \in Threads |-> <<>>] /\ after = [t \in Threads |-> "idle"]

\* Handles that a caller can pass: its own, and the default handle.
Held == {[handle |-> 0, rights |-> AllRights]} \cup
        {[handle |-> h, rights |-> table[h]] : h \in DOMAIN Initial \cup kept}

\* A call whose request does not encode, or whose handles the operation's
\* check refuses, returns before it changes anything.
Begin(t) ==
  /\ pc[t] = "idle" /\ Cardinality(kept) <= MaxKept
  /\ \E o \in menu[t] : \E source \in [1..Len(o.sources) -> Held] :
       /\ \A i \in DOMAIN source : Attach(o.sources[i], source[i]) # {}
       /\ o.apart => \A i \in DOMAIN source : i > 1 => source[i].handle # source[1].handle
       /\ op' = [op EXCEPT ![t] = {o}]
       /\ attached' = [attached EXCEPT ![t] =
            [i \in 1..Len(o.sources) |->
               CHOOSE a \in Attach(o.sources[i], source[i]) : TRUE]]
  /\ pc' = [pc EXCEPT ![t] = "sent"]
  /\ UNCHANGED <<table, kept, ticket, opened, closing, after>>

\* Close `handles`, hand `returned` to the caller, and go on at `next`.
Settle(t, handles, returned, next) ==
  /\ kept' = kept \cup returned
  /\ closing' = [closing EXCEPT ![t] = handles]
  /\ after' = [after EXCEPT ![t] = next]
  /\ pc' = [pc EXCEPT ![t] = IF handles = <<>> THEN next ELSE "closing"]

\* End the call: its operation and sources are forgotten.
Finish(t, handles, returned) ==
  /\ Settle(t, handles, returned, "idle")
  /\ op' = [op EXCEPT ![t] = {}] /\ attached' = [attached EXCEPT ![t] = <<>>]
  /\ ticket' = [ticket EXCEPT ![t] = 0] /\ opened' = [opened EXCEPT ![t] = <<>>]

Ticket(t) == IF ticket[t] = 0 THEN <<>> ELSE <<ticket[t]>>

\* The handles that go out: the sources, and the ticket of a queued mutation.
Outgoing(t) ==
  attached[t] \o (IF ticket[t] = 0 THEN <<>>
                  ELSE <<[handle |-> ticket[t], rights |-> TICKET_RIGHTS]>>)

\* The kernel refuses the call, or has no room for the reply's handles.
CallFails(t) ==
  /\ pc[t] = "sent" /\ Finish(t, Ticket(t), {}) /\ UNCHANGED table

Ascending(S) == SetToSortSeq(S, LAMBDA a, b : a < b)

Rights(o) ==
  IF o.via = "call" THEN {<<>>}
  ELSE {w[2] : w \in o.wants} \cup {[i \in 1..n |-> {"READ"}] : n \in 1..2} \cup
       {<<>>, <<TICKET_RIGHTS>>}

\* A delivery with these rights; `first` is the number of its first handle, the
\* others are fresh.
Named(rights, free, first) ==
  [i \in 1..Len(rights) |->
     [handle |-> IF i = 1 THEN first ELSE free[i],
      rights |-> IF rights[i] \in {Unchecked, Transferable} THEN AllRights ELSE rights[i]]]

\* What the kernel installs.  The service chooses how many handles there are and
\* their rights; "real kernel replies allocate distinct local slots"
\* (socket_transfer.rs), so each has a fresh number, or is no handle.
Installed(o) ==
  LET free == Ascending(Numbers \ DOMAIN table)
      rights == {r \in Rights(o) : Len(r) <= Len(free)}
  IN {Named(r, free, IF r = <<>> THEN 0 ELSE free[1]) : r \in rights} \cup
     {Named(r, free, 0) : r \in rights \ {<<>>}}

\* What the clean-ups behind the transport interface defend against besides: a
\* number that is repeated, or one that was attached.
Aliased(t, o) ==
  LET free == Ascending(Numbers \ DOMAIN table)
      rights == {r \in Rights(o) \ {<<>>} : Len(r) <= Len(free)}
  IN (IF o.discards # "drain" THEN {}
      ELSE {Named(r, free, h) : r \in rights, h \in HandlesOf(Outgoing(t)) \ {0}}) \cup
     (IF o.discards = "loop" THEN {}
      ELSE {Named(r, free, free[2]) : r \in {r \in rights : Len(r) > 1}})

Replies ==
  [header: {"fine"}, status: {"ok"}, body: {"empty", "good", "bad", "long", "pending"}] \cup
  [header: {"fine"}, status: {"busy", "failed"}, body: {"empty", "good"}] \cup
  [header: {"garbled", "opcode", "id", "flags"}, status: {"ok", "busy"}, body: {"empty", "good"}]

Installs(received) ==
  table' = [h \in DOMAIN table \cup (HandlesOf(received) \ {0}) |->
              IF h \in DOMAIN table THEN table[h]
              ELSE received[CHOOSE i \in 1..Len(received) : received[i].handle = h].rights]

\* call_with_handles of both transports: too many handles, delivery flags, a zero
\* handle or a reserved field end the call with every handle closed.
Malformed(t, received) ==
  /\ received # <<>>
  /\ Installs(received)
  /\ Finish(t, close_syscall_attachments(received) \o Ticket(t), {})

\* A reply longer than the buffer is an error that leaves its handles to the
\* client, like every other reply that does not answer the request.
call_with_handles(t, o, received) ==
  /\ 0 \notin HandlesOf(received)
  /\ Installs(received)
  /\ \E succeeds \in {Succeeds(o, reply, received, attached[t]) : reply \in Replies} :
       IF succeeds THEN Finish(t, <<>>, HandlesOf(received))
       ELSE Finish(t, Discard(o, received, attached[t]), {})

\* What a reply makes of one round of a queued mutation.
Round(o, reply, received, borrowed) ==
  CASE reply.header # "fine" -> "fails"
    [] reply.status = "busy" ->
         IF reply.body = "empty" /\ Matches(<<TICKET_RIGHTS>>, received, borrowed)
         THEN "waiting" ELSE "fails"
    [] reply.status = "ok" /\ \E w \in o.wants : /\ w[1] = reply.body
                                               /\ Matches(w[2], received, borrowed) ->
         IF reply.body = "pending" THEN "pending" ELSE "done"
    [] OTHER -> "fails"

\* The next ticket replaces the last; a FIFO's open gives it up before it waits.
queued_mutation(t, o, received) ==
  /\ 0 \notin HandlesOf(received)
  /\ Installs(received)
  /\ \E round \in {Round(o, reply, received, Outgoing(t)) : reply \in Replies} :
       \/ /\ round = "fails"
          /\ Finish(t, drain_received_handles(received, Outgoing(t)) \o Ticket(t), {})
       \/ round = "done" /\ Finish(t, Ticket(t), HandlesOf(received))
       \/ /\ round = "waiting"
          /\ Settle(t, Ticket(t), {}, "waiting")
          /\ ticket' = [ticket EXCEPT ![t] = received[1].handle]
          /\ UNCHANGED <<op, attached, opened>>
       \/ /\ round = "pending"
          /\ Settle(t, Ticket(t), {}, "pending")
          /\ ticket' = [ticket EXCEPT ![t] = 0]
          /\ opened' = [opened EXCEPT ![t] = <<received[1].handle, received[2].handle>>]
          /\ UNCHANGED <<op, attached>>

Deliver(t) ==
  /\ pc[t] = "sent" /\ 0 \notin HandlesOf(attached[t])
  /\ \E o \in op[t] :
       \/ \E received \in Installed(o) : Malformed(t, received)
       \/ \E received \in Installed(o) \cup Aliased(t, o) :
            \/ o.via # "queued" /\ call_with_handles(t, o, received)
            \/ o.via = "queued" /\ queued_mutation(t, o, received)

\* The wait for the ticket is over: the mutation is sent again with it.
Admitted(t) ==
  /\ pc[t] = "waiting" /\ pc' = [pc EXCEPT ![t] = "sent"]
  /\ UNCHANGED <<table, kept, op, attached, ticket, opened, closing, after>>

AdmissionFails(t) ==
  /\ pc[t] = "waiting" /\ Finish(t, Ticket(t), {}) /\ UNCHANGED table

\* The FIFO's other end is there, or the wait for it failed.
Connected(t) ==
  /\ pc[t] = "pending" /\ Finish(t, <<opened[t][2]>>, {opened[t][1]}) /\ UNCHANGED table

ConnectionFails(t) ==
  /\ pc[t] = "pending" /\ Finish(t, <<opened[t][2], opened[t][1]>>, {}) /\ UNCHANGED table

\* One close.  A number that is not live is refused by the kernel.
Close(t) ==
  /\ pc[t] = "closing"
  /\ table' = [h \in DOMAIN table \ {Head(closing[t])} |-> table[h]]
  /\ closing' = [closing EXCEPT ![t] = Tail(@)]
  /\ pc' = [pc EXCEPT ![t] = IF Tail(closing[t]) = <<>> THEN after[t] ELSE @]
  /\ UNCHANGED <<kept, op, attached, ticket, opened, after>>

\* A caller is done with a handle.
Drop ==
  \E h \in kept :
    /\ \A t \in Threads : h \notin HandlesOf(attached[t])
    /\ kept' = kept \ {h}
    /\ table' = [g \in DOMAIN table \ {h} |-> table[g]]
    /\ UNCHANGED <<pc, op, attached, ticket, opened, closing, after>>

Next ==
  /\ UNCHANGED menu
  /\ \/ \E t \in Threads :
          \/ Begin(t) \/ CallFails(t) \/ Deliver(t) \/ Admitted(t) \/ AdmissionFails(t)
          \/ Connected(t) \/ ConnectionFails(t) \/ Close(t)
     \/ Drop

Spec == Init /\ [][Next]_vars

-----------------------------------------------------------------------------
(* Properties *)

\* Handles that a call in progress still owns.
Owned(t) ==
  Range(closing[t]) \cup Range(opened[t]) \cup (IF ticket[t] = 0 THEN {} ELSE {ticket[t]})

\* Every handle that a reply brought into the process is, at every moment, owned
\* exactly once: by the caller it was returned to or by the call that will close
\* it.  So no reply leaks a handle, closes one that the caller lent to the call, or
\* closes a number twice, which by then may belong to another thread's reply; not
\* even one that repeats a number or names a lent handle, where the clean-up is
\* written to stand that.
HandlesSettled ==
  /\ DOMAIN table = DOMAIN Initial \cup kept \cup UNION {Owned(t) : t \in Threads}
  /\ \A t \in Threads :
       /\ Owned(t) \cap (kept \cup DOMAIN Initial) = {}
       /\ Cardinality(Owned(t)) = Len(closing[t]) + Len(opened[t]) + Len(Ticket(t))
       /\ \A u \in Threads \ {t} : Owned(t) \cap Owned(u) = {}

\* A handle is attached only while it is live and never with rights that the
\* process does not hold on it: the checks before a request attach what the
\* operation needs out of what the source has, in every round of a queued mutation.
AttachedWithinSource ==
  \A t \in Threads : pc[t] = "sent" =>
    \A i \in 1..Len(Outgoing(t)) :
      LET a == Outgoing(t)[i]
      IN a.handle = 0 \/ (a.handle \in DOMAIN table /\ a.rights \subseteq table[a.handle])
=============================================================================
