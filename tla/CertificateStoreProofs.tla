------------------------ MODULE CertificateStoreProofs ------------------------
(***************************************************************************)
(* For every set of kinds and snapshots: no crash, failed write or         *)
(* recovery loses or rolls back a snapshot the certificate database        *)
(* handed out, and the ETag in use belongs to the active snapshot.         *)
(***************************************************************************)
EXTENDS CertificateStore, TLAPS

Running == pc \in {"idle", "slot", "readback", "commit"}

\* A database state d describes the files: the active slot of each kind holds
\* the recorded snapshot, and the ETag is that snapshot's.
Describes(d) ==
  \A k \in Kinds :
    /\ d.meta[k].snap # Nothing => slots[k][d.active[k]] = d.meta[k].snap
    /\ d.meta[k].etag \in {Nothing, d.meta[k].snap}

\* Where the state file matches the slot it names, load_kind looks no further:
\* the snapshot there must not be older than the one handed out.
FileIsCurrent ==
  file \in DatabaseState =>
    \A k \in Kinds :
      /\ file.meta[k].etag \in {Nothing, file.meta[k].snap}
      /\ /\ file.meta[k].snap # Nothing
         /\ slots[k][file.active[k]] = file.meta[k].snap
         => Version(file.meta[k].snap) >= Version(held[k])

MemoryIsCurrent ==
  Running => Describes(state) /\ \A k \in Kinds : held[k] = state.meta[k].snap

RequestIsNewer ==
  pc \in {"slot", "readback"} =>
    /\ request \in [kind: Kinds, snap: Snapshots]
    /\ request.snap.version > Version(state.meta[request.kind].snap)

NextIsCurrent ==
  pc \in {"commit", "repair"} =>
    Describes(next) /\ \A k \in Kinds : Version(next.meta[k].snap) >= Version(held[k])

IInv == /\ TypeOK
        /\ CommittedSurvives
        /\ FileIsCurrent
        /\ MemoryIsCurrent
        /\ RequestIsNewer
        /\ NextIsCurrent

-----------------------------------------------------------------------------
(* What load_kind and apply_loaded return. *)

\* The chosen slot and its contents have the types the rest of the load uses.
LEMMA LoadedTypes ==
  ASSUME TypeOK, NEW k \in Kinds
  PROVE  /\ load_kind(k) \in Slots
         /\ loaded(k) \in Snapshots \cup {Nothing}
         /\ loaded(k) # Nothing => slots[k][load_kind(k)] = loaded(k)
  BY DistinctAssumption, Zenon
     DEF TypeOK, load_kind, loaded, load_candidate, newest, inactive, Slots, DatabaseState

\* If one slot holds version v or newer, and the state file cannot steer the
\* load to anything older, the load finds version v or newer.
LEMMA LoadFindsNewest ==
  ASSUME TypeOK, NEW k \in Kinds, NEW slot \in Slots, NEW v \in Nat,
         slots[k][slot] \in Snapshots,
         slots[k][slot].version >= v,
         file \in DatabaseState =>
           (/\ file.meta[k].snap # Nothing
            /\ slots[k][file.active[k]] = file.meta[k].snap
            => Version(file.meta[k].snap) >= v)
  PROVE  Version(loaded(k)) >= v
<1> DEFINE cand(s) == load_candidate(k, s)
<1>1. /\ "A" \in Slots /\ "B" \in Slots
      /\ \A s \in Slots : inactive(s) \in Slots /\ (slot = s \/ slot = inactive(s))
  BY Zenon DEF Slots, inactive
<1>2. \A s \in Slots : /\ cand(s) \in Snapshots \cup {Nothing}
                       /\ cand(s) # Nothing => slots[k][s] = cand(s)
  BY Zenon DEF load_candidate
<1>3. cand(slot) = slots[k][slot] /\ cand(slot) \in Snapshots
  BY Zenon DEF load_candidate
<1>4. \A s \in Snapshots : s # Nothing /\ s.version \in Nat /\ s.generated_at \in Nat
  BY SnapshotsAssumption, DistinctAssumption, Zenon
<1>5. ASSUME NEW first \in Slots
      PROVE  /\ cand(newest(k, first)) \in Snapshots
             /\ cand(newest(k, first)).version >= v
  <2> DEFINE a == cand(first)
             b == cand(inactive(first))
  <2>1. a \in Snapshots \cup {Nothing} /\ b \in Snapshots \cup {Nothing}
    BY <1>1, <1>2, Zenon
  <2>2. \/ a \in Snapshots /\ a.version >= v
        \/ b \in Snapshots /\ b.version >= v
    BY <1>1, <1>3, Zenon
  <2>3. newest(k, first) = IF b # Nothing /\ (a = Nothing \/ newer(b, a))
                           THEN inactive(first) ELSE first
    BY Zenon DEF newest
  <2>4. CASE b # Nothing /\ (a = Nothing \/ newer(b, a))
    <3>1. cand(newest(k, first)) = b
      BY <2>3, <2>4, Zenon
    <3>2. b \in Snapshots /\ b.version >= v
      BY <2>1, <2>2, <2>4, <1>4 DEF newer
    <3> QED
      BY <3>1, <3>2, Zenon
  <2>5. CASE ~(b # Nothing /\ (a = Nothing \/ newer(b, a)))
    <3>1. cand(newest(k, first)) = a
      BY <2>3, <2>5, Zenon
    <3>2. a \in Snapshots /\ a.version >= v
      BY <2>1, <2>2, <2>5, <1>4 DEF newer
    <3> QED
      BY <3>1, <3>2, Zenon
  <2> QED
    BY <2>4, <2>5, Zenon
<1>6. CASE file \in DatabaseState
  <2>1. file.active[k] \in Slots
    BY <1>6, Zenon DEF DatabaseState
  <2>2. CASE cand(file.active[k]) # Nothing /\ cand(file.active[k]) = file.meta[k].snap
    <3>1. loaded(k) = file.meta[k].snap
      BY <1>6, <2>2, Zenon DEF loaded, load_kind
    <3> QED
      BY <3>1, <2>1, <2>2, <1>2, <1>6, Zenon
  <2>3. CASE ~(cand(file.active[k]) # Nothing /\ cand(file.active[k]) = file.meta[k].snap)
    <3>1. loaded(k) = cand(newest(k, file.active[k]))
      BY <1>6, <2>3, Zenon DEF loaded, load_kind
    <3> QED
      BY <3>1, <2>1, <1>4, <1>5, Zenon DEF Version
  <2> QED
    BY <2>2, <2>3, Zenon
<1>7. CASE file \notin DatabaseState
  <2>1. loaded(k) = cand(newest(k, "A"))
    BY <1>7, Zenon DEF loaded, load_kind
  <2> QED
    BY <2>1, <1>1, <1>4, <1>5, Zenon DEF Version
<1> QED
  BY <1>6, <1>7, Zenon

\* A load yields a state that describes the files and names what it loaded.
LEMMA LoadedStateDescribes ==
  ASSUME TypeOK, FileIsCurrent
  PROVE  /\ loaded_state \in DatabaseState
         /\ Describes(loaded_state)
         /\ \A k \in Kinds : loaded_state.meta[k].snap = loaded(k)
<1>1. DefaultState \in DatabaseState /\ NoMetadata \in Metadata
  BY TimesAssumption, GenerationAssumption
     DEF DefaultState, DatabaseState, NoMetadata, Metadata, Slots
<1>2. stored_state \in DatabaseState
  BY <1>1, Zenon DEF stored_state
<1>3. ASSUME NEW k \in Kinds
      PROVE  /\ apply_loaded(k) \in Metadata
             /\ apply_loaded(k).snap = loaded(k)
             /\ apply_loaded(k).etag \in {Nothing, apply_loaded(k).snap}
             /\ loaded_slot(k) \in Slots
             /\ loaded(k) # Nothing => slots[k][loaded_slot(k)] = loaded(k)
  <2>1. /\ load_kind(k) \in Slots
        /\ loaded(k) \in Snapshots \cup {Nothing}
        /\ loaded(k) # Nothing => slots[k][load_kind(k)] = loaded(k)
    BY LoadedTypes, Zenon
  <2>2. /\ stored_state.meta[k] \in Metadata
        /\ stored_state.meta[k].etag \in {Nothing, stored_state.meta[k].snap}
    BY <1>2, Zenon DEF stored_state, FileIsCurrent, DefaultState, NoMetadata, DatabaseState
  <2>3. "A" \in Slots
    BY Zenon DEF Slots
  <2>4. CASE loaded(k) = Nothing
    BY <2>3, <2>4, <1>1, Zenon DEF apply_loaded, loaded_slot, NoMetadata
  <2>5. CASE loaded(k) # Nothing /\ loaded(k) = stored_state.meta[k].snap
    BY <2>1, <2>2, <2>5, Zenon DEF apply_loaded, loaded_slot
  <2>6. CASE loaded(k) # Nothing /\ loaded(k) # stored_state.meta[k].snap
    BY <2>1, <2>6, TimesAssumption, Zenon DEF apply_loaded, loaded_slot, NoMetadata, Metadata
  <2> QED
    BY <2>4, <2>5, <2>6, Zenon
<1>4. /\ loaded_state \in DatabaseState
      /\ \A k \in Kinds : /\ loaded_state.meta[k] = apply_loaded(k)
                          /\ loaded_state.active[k] = loaded_slot(k)
  BY <1>2, <1>3, Zenon DEF loaded_state, DatabaseState
<1> QED
  BY <1>3, <1>4, Zenon DEF Describes

Above(d) == \A k \in Kinds : Version(d.meta[k].snap) >= Version(held[k])

\* As long as some state d describes the files and is not behind what was
\* handed out, and the state file is current, a restart finds enough.
AnchoredStateSurvives ==
  \A d \in DatabaseState :
    TypeOK /\ FileIsCurrent /\ Describes(d) /\ Above(d) => CommittedSurvives

\* The argument from an anchoring state to CommittedSurvives.
LEMMA Anchored == AnchoredStateSurvives
<1> SUFFICES ASSUME NEW d \in DatabaseState, TypeOK, FileIsCurrent, Describes(d), Above(d),
                    NEW k \in Kinds
             PROVE  Version(loaded(k)) >= Version(held[k])
  BY Zenon DEF AnchoredStateSurvives, CommittedSurvives
<1>1. \A s \in Snapshots : s # Nothing /\ s.version \in Nat \ {0}
  BY SnapshotsAssumption, DistinctAssumption, Zenon
<1>2. held[k] \in Snapshots \cup {Nothing} /\ loaded(k) \in Snapshots \cup {Nothing}
  BY LoadedTypes, Zenon DEF TypeOK
<1>3. Version(held[k]) \in Nat /\ Version(loaded(k)) \in Nat
  BY <1>1, <1>2, Zenon DEF Version
<1>4. CASE held[k] = Nothing
  BY <1>3, <1>4 DEF Version
<1>5. CASE held[k] # Nothing
  <2>1. d.meta[k].snap \in Snapshots \cup {Nothing} /\ d.active[k] \in Slots
    BY Zenon DEF DatabaseState, Metadata
  <2>2. d.meta[k].snap \in Snapshots /\ d.meta[k].snap.version >= Version(held[k])
    BY <1>1, <1>2, <1>5, <2>1 DEF Above, Version
  <2>3. slots[k][d.active[k]] = d.meta[k].snap
    BY <1>1, <2>2, Zenon DEF Describes
  <2>4. file \in DatabaseState =>
           (/\ file.meta[k].snap # Nothing
            /\ slots[k][file.active[k]] = file.meta[k].snap
            => Version(file.meta[k].snap) >= Version(held[k]))
    BY Zenon DEF FileIsCurrent
  <2> QED
    BY <1>3, <2>1, <2>2, <2>3, <2>4, LoadFindsNewest, Zenon
<1> QED
  BY <1>4, <1>5, Zenon

\* In a running process the state in memory is the anchor.
LEMMA RunningSurvives ==
  TypeOK /\ FileIsCurrent /\ MemoryIsCurrent /\ Running => CommittedSurvives
<1> SUFFICES ASSUME TypeOK, FileIsCurrent, MemoryIsCurrent, Running
             PROVE  CommittedSurvives
  BY Zenon
<1>1. \A s \in Snapshots \cup {Nothing} : Version(s) \in Nat
  BY SnapshotsAssumption, Zenon DEF Version
<1>2. Above(state) /\ Describes(state) /\ state \in DatabaseState
  BY <1>1 DEF TypeOK, MemoryIsCurrent, Above
<1> QED
  BY <1>2, Anchored, Zenon DEF AnchoredStateSurvives

\* Both facts hold after any step as well.
LEMMA SurvivesNext ==
  /\ AnchoredStateSurvives'
  /\ (TypeOK /\ FileIsCurrent /\ MemoryIsCurrent /\ Running => CommittedSurvives)'
  BY Anchored, RunningSurvives, PTL

-----------------------------------------------------------------------------
\* The files are empty and nothing was handed out.
LEMMA InitIInv == Init => IInv
<1> SUFFICES ASSUME Init PROVE IInv
  BY Zenon
<1>1. DefaultState \in DatabaseState
  BY TimesAssumption, GenerationAssumption
     DEF DefaultState, DatabaseState, NoMetadata, Metadata, Slots
<1>2. file \notin DatabaseState
  BY StateFileAssumption, Zenon DEF Init
<1>3. TypeOK
  BY <1>1, DistinctAssumption, Zenon DEF Init, TypeOK
<1>4. Describes(DefaultState) /\ Above(DefaultState)
  BY DEF Init, Describes, Above, DefaultState, NoMetadata, Version
<1>5. FileIsCurrent
  BY <1>2, Zenon DEF FileIsCurrent
<1>6. CommittedSurvives
  BY <1>1, <1>3, <1>4, <1>5, Anchored, Zenon DEF AnchoredStateSurvives
<1> QED
  BY <1>3, <1>5, <1>6, Zenon
     DEF Init, IInv, MemoryIsCurrent, RequestIsNewer, NextIsCurrent, Running

\* One case per action.  A step of a running process leaves the anchor alone
\* or replaces it by a newer one; a stopping process leaves the files.
LEMMA NextIInv == IInv /\ [Next]_vars => IInv'
<1> SUFFICES ASSUME IInv, [Next]_vars
             PROVE  IInv'
  BY Zenon
<1> USE DEF IInv
<1>v. /\ \A s \in Snapshots \cup {Nothing} : Version(s) \in Nat
      /\ \A s \in Snapshots : s # Nothing /\ s # Torn /\ Version(s) = s.version
  BY SnapshotsAssumption, DistinctAssumption, Zenon DEF Version
<1>d. DefaultState \in DatabaseState
  BY TimesAssumption, GenerationAssumption
     DEF DefaultState, DatabaseState, NoMetadata, Metadata, Slots
<1>s. ASSUME NEW d \in DatabaseState
      PROVE  /\ d.generation \in 0..MaxGeneration
             /\ \A k \in Kinds : /\ d.active[k] \in Slots
                                 /\ d.meta[k] \in Metadata
                                 /\ d.meta[k].snap \in Snapshots \cup {Nothing}
  BY Zenon DEF DatabaseState, Metadata
<1>u. ASSUME UNCHANGED <<slots, file, held>>
      PROVE  CommittedSurvives' /\ FileIsCurrent'
  <2>1. \A k \in Kinds : \A x : load_candidate(k, x)' = load_candidate(k, x)
    BY <1>u, Zenon DEF load_candidate
  <2>2. \A k \in Kinds : \A x : newest(k, x)' = newest(k, x)
    BY <2>1 DEF newest, newer, inactive
  <2>3. \A k \in Kinds : load_kind(k)' = load_kind(k)
    BY <1>u, <2>1, <2>2, Zenon DEF load_kind
  <2>4. \A k \in Kinds : loaded(k)' = loaded(k)
    BY <1>u, <2>3, Zenon DEF loaded, load_candidate
  <2> QED
    BY <1>u, <2>4, Zenon DEF CommittedSurvives, Version, FileIsCurrent
<1>1. ASSUME NEW repair \in BOOLEAN, load_database(repair)
      PROVE  IInv'
  <2>1. /\ loaded_state \in DatabaseState
        /\ Describes(loaded_state)
        /\ \A k \in Kinds : loaded_state.meta[k].snap = loaded(k)
    BY LoadedStateDescribes, Zenon
  <2>2. TypeOK'
    BY <1>1, <1>d, <1>s, <2>1, Zenon DEF TypeOK, load_database, HandOut, Return
  <2>3. MemoryIsCurrent' /\ Running'
    BY <1>1, <2>1, Zenon DEF load_database, HandOut, Return, MemoryIsCurrent, Describes, Running
  <2>4. FileIsCurrent'
    <3> SUFFICES ASSUME file \in DatabaseState, NEW k \in Kinds,
                        file.meta[k].snap # Nothing,
                        slots[k][file.active[k]] = file.meta[k].snap
                 PROVE  file.meta[k].snap = loaded(k)
      BY <1>1, <1>s, <1>v, <2>1 DEF load_database, HandOut, FileIsCurrent
    <3>1. load_candidate(k, file.active[k]) = file.meta[k].snap
      BY <1>s, Zenon DEF load_candidate
    <3> QED
      BY <3>1, Zenon DEF loaded, load_kind
  <2>5. RequestIsNewer' /\ NextIsCurrent'
    BY <1>1, Zenon DEF load_database, Return, RequestIsNewer, NextIsCurrent
  <2> QED
    BY <2>2, <2>3, <2>4, <2>5, SurvivesNext, Zenon
<1>2. CASE load_and_repair
  <2>1. /\ loaded_state \in DatabaseState
        /\ Describes(loaded_state)
        /\ \A k \in Kinds : loaded_state.meta[k].snap = loaded(k)
    BY LoadedStateDescribes, Zenon
  <2>2. /\ next' \in DatabaseState
        /\ next'.meta = loaded_state.meta
        /\ next'.active = loaded_state.active
    BY <1>2, <2>1, GenerationAssumption DEF load_and_repair, DatabaseState
  <2>3. TypeOK'
    BY <1>2, <2>2, Zenon DEF TypeOK, load_and_repair
  <2>4. NextIsCurrent'
    BY <1>2, <2>1, <2>2 DEF load_and_repair, NextIsCurrent, CommittedSurvives, Describes
  <2>5. MemoryIsCurrent' /\ RequestIsNewer'
    BY <1>2, Zenon DEF load_and_repair, MemoryIsCurrent, RequestIsNewer, Running
  <2> QED
    BY <1>2, <1>u, <2>3, <2>4, <2>5, Zenon DEF load_and_repair
<1>3. ASSUME NEW k \in Kinds, NEW s \in Snapshots, persist_snapshot(k, s)
      PROVE  IInv'
  <2>1. TypeOK'
    BY <1>3, Zenon DEF TypeOK, persist_snapshot
  <2>2. RequestIsNewer' /\ NextIsCurrent'
    BY <1>3, Zenon DEF persist_snapshot, RequestIsNewer, NextIsCurrent
  <2>3. MemoryIsCurrent'
    BY <1>3, Zenon DEF persist_snapshot, MemoryIsCurrent, Running, Describes
  <2> QED
    BY <1>3, <1>u, <2>1, <2>2, <2>3, Zenon DEF persist_snapshot
<1>w. ASSUME NEW c, c \in {slots[request.kind][target], request.snap, Torn},
             pc = "slot",
             slots' = [slots EXCEPT ![request.kind][target] = c],
             UNCHANGED <<file, state, held>>, Running'
      PROVE  /\ slots' \in [Kinds -> [Slots -> Snapshots \cup {Nothing, Torn}]]
             /\ FileIsCurrent'
             /\ MemoryIsCurrent'
  <2>1. /\ request.kind \in Kinds /\ request.snap \in Snapshots
        /\ request.snap.version > Version(held[request.kind])
        /\ target \in Slots /\ target # state.active[request.kind]
    BY <1>w, <1>s, Zenon
       DEF RequestIsNewer, MemoryIsCurrent, Running, target, inactive, Slots, TypeOK
  <2>2. \A k \in Kinds, x \in Slots :
           slots'[k][x] = IF k = request.kind /\ x = target THEN c ELSE slots[k][x]
    BY <1>w, <2>1, Zenon DEF TypeOK
  <2>3. slots' \in [Kinds -> [Slots -> Snapshots \cup {Nothing, Torn}]]
    BY <1>w, <2>1 DEF TypeOK
  <2>4. MemoryIsCurrent'
    BY <1>w, <1>s, <2>1, <2>2 DEF MemoryIsCurrent, Running, Describes, TypeOK
  <2>5. FileIsCurrent'
    <3> SUFFICES ASSUME file \in DatabaseState, NEW k \in Kinds,
                        file.meta[k].snap # Nothing,
                        slots'[k][file.active[k]] = file.meta[k].snap
                 PROVE  Version(file.meta[k].snap) >= Version(held[k])
      BY <1>w, Zenon DEF FileIsCurrent
    <3>1. file.active[k] \in Slots /\ file.meta[k].snap \in Snapshots
      BY <1>s, Zenon
    <3>2. CASE slots'[k][file.active[k]] = slots[k][file.active[k]]
      BY <3>2, Zenon DEF FileIsCurrent
    <3>3. CASE k = request.kind /\ c = request.snap /\ file.active[k] = target
      BY <1>v, <2>1, <2>2, <3>1, <3>3 DEF TypeOK
    <3>4. CASE k = request.kind /\ c = Torn /\ file.active[k] = target
      BY <1>v, <2>1, <2>2, <3>1, <3>4
    <3> QED
      BY <1>w, <2>2, <3>1, <3>2, <3>3, <3>4
  <2> QED
    BY <2>3, <2>4, <2>5, Zenon
<1>4. ASSUME NEW c \in Snapshots \cup {Torn}, WriteSlot(c)
      PROVE  IInv'
  <2>1. Running'
    BY <1>4, Zenon DEF WriteSlot, Running
  <2>2. /\ slots' \in [Kinds -> [Slots -> Snapshots \cup {Nothing, Torn}]]
        /\ FileIsCurrent'
        /\ MemoryIsCurrent'
    BY <1>4, <1>w, <2>1, Zenon DEF WriteSlot
  <2>3. TypeOK'
    BY <1>4, <2>2, Zenon DEF WriteSlot, TypeOK
  <2>4. RequestIsNewer' /\ NextIsCurrent'
    BY <1>4, Zenon DEF WriteSlot, RequestIsNewer, NextIsCurrent
  <2> QED
    BY <2>1, <2>2, <2>3, <2>4, SurvivesNext, Zenon
<1>5. ASSUME NEW c \in Snapshots \cup {Torn, Nothing}, WriteSlotFails(c)
      PROVE  IInv'
  <2>1. Running'
    BY <1>5, Zenon DEF WriteSlotFails, Return, Running
  <2>2. /\ slots' \in [Kinds -> [Slots -> Snapshots \cup {Nothing, Torn}]]
        /\ FileIsCurrent'
        /\ MemoryIsCurrent'
    BY <1>5, <1>w, <2>1, Zenon DEF WriteSlotFails
  <2>3. TypeOK'
    BY <1>5, <1>d, <2>2, Zenon DEF WriteSlotFails, Return, TypeOK
  <2>4. RequestIsNewer' /\ NextIsCurrent'
    BY <1>5, Zenon DEF WriteSlotFails, Return, RequestIsNewer, NextIsCurrent
  <2> QED
    BY <2>1, <2>2, <2>3, <2>4, SurvivesNext, Zenon
<1>6. ASSUME NEW etag \in Snapshots \cup {Nothing}, NEW checked \in Times,
             ReadBack(etag, checked)
      PROVE  IInv'
  <2>1. /\ request.kind \in Kinds /\ request.snap \in Snapshots
        /\ request.snap.version > Version(held[request.kind])
        /\ target \in Slots
    BY <1>6, <1>s, Zenon
       DEF ReadBack, RequestIsNewer, MemoryIsCurrent, Running, target, inactive, Slots, TypeOK
  <2> DEFINE m == [snap |-> request.snap, last_checked_at |-> checked, etag |-> etag]
  <2>2. /\ next'.active = [state.active EXCEPT ![request.kind] = target]
        /\ next'.meta = [state.meta EXCEPT ![request.kind] = m]
        /\ next'.generation = state.generation + 1
        /\ next' = [generation |-> next'.generation, active |-> next'.active,
                    meta |-> next'.meta]
    BY <1>6, Zenon DEF ReadBack
  <2>3. m \in Metadata /\ m.snap = request.snap /\ m.etag = etag
    BY <2>1, Zenon DEF Metadata
  <2>4. next' \in DatabaseState
    <3>1. next'.generation \in 0..MaxGeneration
      BY <1>6, <1>s, <2>2, GenerationAssumption DEF ReadBack, TypeOK
    <3>2. next'.active \in [Kinds -> Slots] /\ next'.meta \in [Kinds -> Metadata]
      BY <2>1, <2>2, <2>3 DEF TypeOK, DatabaseState
    <3> QED
      BY <2>2, <3>1, <3>2, Zenon DEF DatabaseState
  <2>5. \A k \in Kinds :
           /\ next'.meta[k] = IF k = request.kind THEN m ELSE state.meta[k]
           /\ next'.active[k] = IF k = request.kind THEN target ELSE state.active[k]
    BY <2>1, <2>2, Zenon DEF TypeOK, DatabaseState
  <2>6. NextIsCurrent'
    <3>1. /\ slots' = slots /\ held' = held
          /\ slots[request.kind][target] = request.snap
          /\ etag \in {Nothing, request.snap}
      BY <1>6, Zenon DEF ReadBack, ReadBackMatches
    <3>2. Describes(state) /\ \A k \in Kinds : held[k] = state.meta[k].snap
      BY <1>6, Zenon DEF ReadBack, MemoryIsCurrent, Running
    <3>3. ASSUME NEW k \in Kinds
          PROVE  /\ next'.meta[k].snap # Nothing
                      => slots[k][next'.active[k]] = next'.meta[k].snap
                 /\ next'.meta[k].etag \in {Nothing, next'.meta[k].snap}
                 /\ Version(next'.meta[k].snap) >= Version(held[k])
      <4>1. CASE k = request.kind
        BY <1>v, <2>1, <2>3, <2>5, <3>1, <4>1 DEF TypeOK
      <4>2. CASE k # request.kind
        BY <1>v, <2>5, <3>2, <4>2 DEF Describes, TypeOK
      <4> QED
        BY <4>1, <4>2, Zenon
    <3> QED
      BY <3>1, <3>3, Zenon DEF NextIsCurrent, Describes
  <2>7. TypeOK'
    BY <1>6, <2>4, Zenon DEF ReadBack, TypeOK
  <2>8. MemoryIsCurrent' /\ RequestIsNewer'
    BY <1>6, Zenon DEF ReadBack, MemoryIsCurrent, RequestIsNewer, Running, Describes
  <2> QED
    BY <1>6, <1>u, <2>6, <2>7, <2>8, Zenon DEF ReadBack
<1>7. CASE ReadBackFails
  <2>1. TypeOK'
    BY <1>7, <1>d, Zenon DEF ReadBackFails, Return, TypeOK
  <2>2. MemoryIsCurrent' /\ RequestIsNewer' /\ NextIsCurrent'
    BY <1>7, Zenon DEF ReadBackFails, Return, MemoryIsCurrent, RequestIsNewer, NextIsCurrent,
                Running, Describes
  <2> QED
    BY <1>7, <1>u, <2>1, <2>2, Zenon DEF ReadBackFails
<1>8. ASSUME NEW k \in Kinds, NEW checked \in Times, mark_checked(k, checked)
      PROVE  IInv'
  <2> DEFINE m == [state.meta[k] EXCEPT !.last_checked_at = checked]
  <2>m. /\ m \in Metadata
        /\ m.snap = state.meta[k].snap /\ m.etag = state.meta[k].etag
    BY <1>s DEF TypeOK, Metadata
  <2>n. /\ next'.active = state.active
        /\ next'.meta = [state.meta EXCEPT ![k] = m]
        /\ next'.generation = state.generation + 1
        /\ next' = [generation |-> next'.generation, active |-> next'.active,
                    meta |-> next'.meta]
    BY <1>8, Zenon DEF mark_checked, TypeOK, DatabaseState
  <2>1. next' \in DatabaseState
    <3>1. next'.generation \in 0..MaxGeneration
      BY <1>8, <1>s, <2>n, GenerationAssumption DEF mark_checked, TypeOK
    <3>2. next'.active \in [Kinds -> Slots] /\ next'.meta \in [Kinds -> Metadata]
      BY <2>m, <2>n DEF TypeOK, DatabaseState
    <3> QED
      BY <2>n, <3>1, <3>2, Zenon DEF DatabaseState
  <2>2. /\ next'.active = state.active
        /\ \A i \in Kinds : /\ next'.meta[i].snap = state.meta[i].snap
                            /\ next'.meta[i].etag = state.meta[i].etag
    BY <2>m, <2>n, Zenon DEF TypeOK, DatabaseState
  <2>3. Describes(state) /\ \A i \in Kinds : held[i] = state.meta[i].snap
    BY <1>8, Zenon DEF mark_checked, MemoryIsCurrent, Running
  <2>4. NextIsCurrent'
    BY <1>8, <1>v, <2>2, <2>3 DEF mark_checked, NextIsCurrent, Describes, TypeOK
  <2>5. TypeOK'
    BY <1>8, <2>1, Zenon DEF mark_checked, TypeOK
  <2>6. MemoryIsCurrent' /\ RequestIsNewer'
    BY <1>8, Zenon DEF mark_checked, MemoryIsCurrent, RequestIsNewer, Running, Describes
  <2> QED
    BY <1>8, <1>u, <2>4, <2>5, <2>6, Zenon DEF mark_checked
<1>9. CASE write_state
  <2>1. Describes(next) /\ next \in DatabaseState
    BY <1>9, Zenon DEF write_state, NextIsCurrent, TypeOK
  <2>2. /\ file' = next /\ state' = next /\ slots' = slots /\ pc' = "idle"
        /\ held' = [k \in Kinds |-> next.meta[k].snap]
    BY <1>9, Zenon DEF write_state, HandOut, Return
  <2>3. TypeOK'
    BY <1>9, <1>d, <1>s, <2>1, <2>2, Zenon DEF write_state, Return, TypeOK
  <2>4. FileIsCurrent'
    BY <1>s, <1>v, <2>1, <2>2 DEF FileIsCurrent, Describes
  <2>5. MemoryIsCurrent' /\ Running' /\ RequestIsNewer' /\ NextIsCurrent'
    BY <2>1, <2>2, Zenon DEF MemoryIsCurrent, RequestIsNewer, NextIsCurrent, Running, Describes
  <2> QED
    BY <2>3, <2>4, <2>5, SurvivesNext, Zenon
<1>10. ASSUME NEW c \in {file, next, Torn}, write_state_fails(c)
       PROVE  IInv'
  <2>1. Describes(next) /\ Above(next) /\ next \in DatabaseState
    BY <1>10, Zenon DEF write_state_fails, NextIsCurrent, TypeOK, Above
  <2>2. /\ file' = c /\ UNCHANGED <<slots, state, held>>
        /\ pc' \in {"down", "idle"} /\ (pc' = "idle" => pc = "commit")
    BY <1>10, Zenon DEF write_state_fails
  <2>3. TypeOK'
    BY <1>10, <1>d, <2>1, <2>2, Zenon DEF write_state_fails, TypeOK
  <2>4. FileIsCurrent'
    <3>1. CASE c = file
      BY <2>2, <3>1, Zenon DEF FileIsCurrent
    <3>2. CASE c = next
      BY <2>1, <2>2, <3>2, Zenon DEF FileIsCurrent, Describes, Above
    <3>3. CASE c = Torn
      BY <2>2, <3>3, StateFileAssumption, Zenon DEF FileIsCurrent
    <3> QED
      BY <3>1, <3>2, <3>3, Zenon
  <2>5. CommittedSurvives'
    <3>1. \A d \in DatabaseState :
             TypeOK' /\ FileIsCurrent'
             /\ (\A k \in Kinds :
                   /\ d.meta[k].snap # Nothing => slots'[k][d.active[k]] = d.meta[k].snap
                   /\ d.meta[k].etag \in {Nothing, d.meta[k].snap})
             /\ (\A k \in Kinds : Version(d.meta[k].snap) >= Version(held'[k]))
             => CommittedSurvives'
      BY SurvivesNext, Zenon DEF AnchoredStateSurvives, Describes, Above
    <3> QED
      BY <2>1, <2>2, <2>3, <2>4, <3>1, Zenon DEF Describes, Above
  <2>6. MemoryIsCurrent' /\ RequestIsNewer' /\ NextIsCurrent'
    BY <2>2, Zenon DEF MemoryIsCurrent, RequestIsNewer, NextIsCurrent, Running, Describes
  <2> QED
    BY <2>3, <2>4, <2>5, <2>6, Zenon
<1>11. CASE Crash
  <2>1. TypeOK'
    BY <1>11, <1>d, Zenon DEF Crash, TypeOK
  <2>2. MemoryIsCurrent' /\ RequestIsNewer' /\ NextIsCurrent'
    BY <1>11, Zenon DEF Crash, MemoryIsCurrent, RequestIsNewer, NextIsCurrent, Running
  <2> QED
    BY <1>11, <1>u, <2>1, <2>2, Zenon DEF Crash
<1>12. CASE UNCHANGED vars
  <2>1. TypeOK' /\ MemoryIsCurrent' /\ RequestIsNewer' /\ NextIsCurrent'
    BY <1>12 DEF vars, TypeOK, MemoryIsCurrent, RequestIsNewer, NextIsCurrent, Running, Describes
  <2> QED
    BY <1>12, <1>u, <2>1, Zenon DEF vars
<1> QED
  BY <1>1, <1>2, <1>3, <1>4, <1>5, <1>6, <1>7, <1>8, <1>9, <1>10, <1>11, <1>12, Zenon DEF Next

\* IInv holds in every reachable state of the certificate store.
THEOREM Invariance == Spec => []IInv
  BY InitIInv, NextIInv, PTL DEF Spec

\* For every set of kinds, snapshots and generations: an interrupted or failed
\* update never loses or rolls back the snapshot a caller was handed.
THEOREM NeverRolledBack == Spec => []CommittedSurvives
  BY Invariance, PTL DEF IInv

\* The active slot holds the snapshot a running process believes active, and
\* the ETag it would send is that snapshot's.
THEOREM EtagMatches == Spec => []EtagOfActiveSnapshot
<1>1. IInv => EtagOfActiveSnapshot
  BY Zenon DEF IInv, TypeOK, MemoryIsCurrent, Running, Describes, EtagOfActiveSnapshot
<1> QED
  BY <1>1, Invariance, PTL
=============================================================================
