--------------------------- MODULE CertificateStore ---------------------------
(***************************************************************************)
(* The certificate database (crates/certificate-database): trust and       *)
(* revocation snapshots, each kept in two slot files, and one state file   *)
(* that names the active slot of each kind with the metadata of what it    *)
(* holds.  The process may stop between any two file operations, and a     *)
(* failed or interrupted write leaves the old file, the new one or a torn  *)
(* one.  A torn file fails the validator (slots) or the checksum (state    *)
(* file).  A snapshot is the pair of its version and its time: contents    *)
(* that differ are taken to differ in them, so that what metadata_matches  *)
(* compares and what the read-back compares agree.                         *)
(***************************************************************************)
EXTENDS Integers

CONSTANTS Kinds,          \* SnapshotKind: trust and revocations
          Snapshots,      \* records [version, generated_at]
          Times,          \* values of last_checked_at
          MaxGeneration,  \* stands for u64::MAX
          Nothing,        \* an absent file, no snapshot, no ETag
          Torn            \* the contents of an interrupted write

ASSUME SnapshotsAssumption ==
  Snapshots \subseteq [version: Nat \ {0}, generated_at: Nat]

ASSUME TimesAssumption == 0 \in Times

ASSUME GenerationAssumption == MaxGeneration \in Nat

ASSUME DistinctAssumption == {Nothing, Torn} \cap Snapshots = {} /\ Nothing # Torn

VARIABLES slots,   \* [Kinds -> [Slots -> contents]], the four slot files
          file,    \* the state file: a DatabaseState, Nothing or Torn
          state,   \* the DatabaseState in the process' memory
          pc,      \* where the process is in load, persist or mark_checked
          request, \* persist: the kind and snapshot; Nothing otherwise
          next,    \* the DatabaseState about to be written
          held     \* history: the snapshot last handed to a caller, by kind

vars == <<slots, file, state, pc, request, next, held>>

Slots == {"A", "B"}

inactive(slot) == IF slot = "A" THEN "B" ELSE "A"

Metadata == [snap: Snapshots \cup {Nothing}, last_checked_at: Times,
             etag: Snapshots \cup {Nothing}]

DatabaseState == [generation: 0..MaxGeneration, active: [Kinds -> Slots],
                  meta: [Kinds -> Metadata]]

ASSUME StateFileAssumption == Nothing \notin DatabaseState /\ Torn \notin DatabaseState

NoMetadata == [snap |-> Nothing, last_checked_at |-> 0, etag |-> Nothing]

DefaultState == [generation |-> 0, active |-> [k \in Kinds |-> "A"],
                 meta |-> [k \in Kinds |-> NoMetadata]]

Version(s) == IF s = Nothing THEN 0 ELSE s.version

-----------------------------------------------------------------------------
(* What load_database makes of the files. *)

\* The candidate in a slot: a file that is absent or fails validation is none.
load_candidate(k, slot) ==
  IF slots[k][slot] \in Snapshots THEN slots[k][slot] ELSE Nothing

newer(a, b) == \/ a.version > b.version
               \/ a.version = b.version /\ a.generated_at > b.generated_at

\* Mutant of newest: the first readable candidate wins.
newestFirst(k, first) ==
  IF load_candidate(k, first) # Nothing THEN first ELSE inactive(first)

newest(k, first) ==
  LET a == load_candidate(k, first)
      b == load_candidate(k, inactive(first))
  IN  IF b # Nothing /\ (a = Nothing \/ newer(b, a)) THEN inactive(first) ELSE first

\* The slot load_kind chooses.  The active slot of a readable state file is
\* taken when its contents are what the state file recorded.
load_kind(k) ==
  IF file \in DatabaseState
  THEN LET first == file.active[k]
           found == load_candidate(k, first)
       IN  IF found # Nothing /\ found = file.meta[k].snap
           THEN first ELSE newest(k, first)
  ELSE newest(k, "A")

loaded(k) == load_candidate(k, load_kind(k))

stored_state == IF file \in DatabaseState THEN file ELSE DefaultState

\* Mutant of apply_loaded: the ETag outlives the snapshot it came with.
apply_loadedKeepsEtag(k) ==
  [snap |-> loaded(k), last_checked_at |-> stored_state.meta[k].last_checked_at,
   etag |-> stored_state.meta[k].etag]

\* The metadata after a load; ETag and check time survive only a match.
apply_loaded(k) ==
  IF loaded(k) = Nothing THEN NoMetadata
  ELSE IF loaded(k) = stored_state.meta[k].snap THEN stored_state.meta[k]
  ELSE [NoMetadata EXCEPT !.snap = loaded(k)]

loaded_slot(k) == IF loaded(k) = Nothing THEN "A" ELSE load_kind(k)

loaded_state ==
  [stored_state EXCEPT !.active = [k \in Kinds |-> loaded_slot(k)],
                       !.meta = [k \in Kinds |-> apply_loaded(k)]]

recovered == file \notin DatabaseState \/ loaded_state # stored_state

-----------------------------------------------------------------------------
Init == /\ slots = [k \in Kinds |-> [s \in Slots |-> Nothing]]
        /\ file = Nothing
        /\ state = DefaultState
        /\ pc = "down"
        /\ request = Nothing
        /\ next = DefaultState
        /\ held = [k \in Kinds |-> Nothing]

HandOut(s) == held' = [k \in Kinds |-> s.meta[k].snap]

\* The call is over: the process keeps its state and nothing else.
Return == pc' = "idle" /\ request' = Nothing /\ next' = DefaultState

\* load_database, and load_database_read_only, when nothing has to be repaired;
\* the read-only one also returns a recovered state without writing it.
load_database(repair) ==
  /\ pc = "down"
  /\ repair => ~recovered
  /\ state' = loaded_state
  /\ HandOut(loaded_state)
  /\ Return
  /\ UNCHANGED <<slots, file>>

\* load_database with a state to repair; a generation that cannot be
\* incremented fails the load.
load_and_repair ==
  /\ pc = "down"
  /\ recovered
  /\ loaded_state.generation < MaxGeneration
  /\ next' = [loaded_state EXCEPT !.generation = @ + 1]
  /\ pc' = "repair"
  /\ UNCHANGED <<slots, file, state, request, held>>

\* persist_snapshot up to the write of the slot file.
persist_snapshot(k, s) ==
  /\ pc = "idle"
  /\ s.version > Version(state.meta[k].snap)
  /\ request' = [kind |-> k, snap |-> s]
  /\ pc' = "slot"
  /\ UNCHANGED <<slots, file, state, next, held>>

target == inactive(state.active[request.kind])

\* write_sync of the slot: it succeeds, perhaps with damaged contents, ...
WriteSlot(c) ==
  /\ pc = "slot"
  /\ c \in {request.snap, Torn}
  /\ slots' = [slots EXCEPT ![request.kind][target] = c]
  /\ pc' = "readback"
  /\ UNCHANGED <<file, state, request, next, held>>

\* ... or it fails, leaving the old, the new or a torn file.
WriteSlotFails(c) ==
  /\ pc = "slot"
  /\ c \in {slots[request.kind][target], request.snap, Torn}
  /\ slots' = [slots EXCEPT ![request.kind][target] = c]
  /\ Return
  /\ UNCHANGED <<file, state, held>>

ReadBackMatches == slots[request.kind][target] = request.snap

\* The slot is read back and is what was written: prepare the next state.
ReadBack(etag, checked) ==
  /\ pc = "readback"
  /\ ReadBackMatches
  /\ etag \in {Nothing, request.snap}
  /\ state.generation < MaxGeneration
  /\ next' = [generation |-> state.generation + 1,
              active |-> [state.active EXCEPT ![request.kind] = target],
              meta |-> [state.meta EXCEPT ![request.kind] =
                          [snap |-> request.snap, last_checked_at |-> checked, etag |-> etag]]]
  /\ pc' = "commit"
  /\ UNCHANGED <<slots, file, state, request, held>>

\* The read fails, the contents differ, or the generation is exhausted.
ReadBackFails ==
  /\ pc = "readback"
  /\ Return
  /\ UNCHANGED <<slots, file, state, held>>

mark_checked(k, checked) ==
  /\ pc = "idle"
  /\ state.meta[k].snap # Nothing
  /\ state.generation < MaxGeneration
  /\ next' = [state EXCEPT !.generation = @ + 1, !.meta[k].last_checked_at = checked]
  /\ pc' = "commit"
  /\ UNCHANGED <<slots, file, state, request, held>>

\* write_state succeeds: the caller's state is replaced only now.
write_state ==
  /\ pc \in {"commit", "repair"}
  /\ file' = next
  /\ state' = next
  /\ HandOut(next)
  /\ Return
  /\ UNCHANGED slots

\* write_state fails, leaving the old, the new or a torn state file.  A load
\* that cannot write its repair returns no database.
write_state_fails(c) ==
  /\ pc \in {"commit", "repair"}
  /\ c \in {file, next, Torn}
  /\ file' = c
  /\ pc' = IF pc = "repair" THEN "down" ELSE "idle"
  /\ request' = Nothing
  /\ next' = DefaultState
  /\ UNCHANGED <<slots, state, held>>

\* The process stops; what an interrupted write leaves is what a failed one
\* leaves.
Crash ==
  /\ pc = "idle"
  /\ pc' = "down"
  /\ state' = DefaultState
  /\ UNCHANGED <<slots, file, request, next, held>>

Next ==
  \/ \E repair \in BOOLEAN : load_database(repair)
  \/ load_and_repair
  \/ \E k \in Kinds, s \in Snapshots : persist_snapshot(k, s)
  \/ \E c \in Snapshots \cup {Torn} : WriteSlot(c)
  \/ \E c \in Snapshots \cup {Torn, Nothing} : WriteSlotFails(c)
  \/ \E etag \in Snapshots \cup {Nothing}, checked \in Times : ReadBack(etag, checked)
  \/ ReadBackFails
  \/ \E k \in Kinds, checked \in Times : mark_checked(k, checked)
  \/ write_state
  \/ \E c \in {file, next, Torn} : write_state_fails(c)
  \/ Crash

Spec == Init /\ [][Next]_vars

-----------------------------------------------------------------------------
TypeOK ==
  /\ slots \in [Kinds -> [Slots -> Snapshots \cup {Nothing, Torn}]]
  /\ file \in DatabaseState \cup {Nothing, Torn}
  /\ state \in DatabaseState
  /\ pc \in {"down", "repair", "idle", "slot", "readback", "commit"}
  /\ request \in [kind: Kinds, snap: Snapshots] \cup {Nothing}
  /\ next \in DatabaseState
  /\ held \in [Kinds -> Snapshots \cup {Nothing}]

\* Whatever write is in progress or has failed, a restart at this moment finds
\* for each kind a snapshot at least as new as the one last handed to a caller
\* by a load or a successful persist_snapshot: an interrupted update never
\* loses or rolls back the database.
CommittedSurvives ==
  \A k \in Kinds : Version(loaded(k)) >= Version(held[k])

\* The ETag a running process would send with its next request, and the
\* snapshot it believes to be active, are those of the bytes in the active
\* slot, also after recoveries that chose another slot: a stale ETag would
\* make the server answer "not modified" to a database that was rolled back.
EtagOfActiveSnapshot ==
  pc # "down" /\ pc # "repair" =>
    \A k \in Kinds :
      LET m == state.meta[k]
      IN  /\ m.snap # Nothing => slots[k][state.active[k]] = m.snap
          /\ m.etag \in {Nothing, m.snap}
=============================================================================
