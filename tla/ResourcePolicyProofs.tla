------------------------- MODULE ResourcePolicyProofs -------------------------
(***************************************************************************)
(* The sequence lock of the policy page is correct under the weak memory   *)
(* order of ResourcePolicy, for any number of threads, publishers and      *)
(* resources and any number of publications.                               *)
(***************************************************************************)
EXTENDS ResourcePolicy, TLAPS

\* What the theorem assumes of the constants.
Constants == None \notin Threads /\ Limits \subseteq [soft : Nat, hard : Nat]

Limit == [soft : Nat, hard : Nat]
Parts == {"soft", "hard"}
View == [Words -> Nat \ {0}]
Stores == [is : Nat, view : View]
Last == Len(page[Generation])

PublisherPlaces == {"idle", "exchange", "soft", "hard", "even"}
Inside == {"soft", "hard", "even"}
ReadPlaces == {"fence", "soft", "hard", "refence", "after"}
Places == ReadPlaces \cup {"return", "lock", "open", "read", "record_locks", "clone", "reset",
                           "gone"}
CallKinds == {"none", "read", "record_locks", "fork"}

Typed ==
    /\ page \in [Words -> Seq(Stores)]
    /\ \A w \in Words : Len(page[w]) > 0
    /\ decided \in Seq([Resources -> Limit]) /\ Len(decided) > 0
    /\ publishers \in [Publishers -> [at : PublisherPlaces, resource : Resources \cup {None},
                                      limit : Limit, generation : Nat]]
    /\ \A p \in Publishers : publishers[p].at # "idle" => publishers[p].resource \in Resources
    /\ POLICY \in Threads \cup {None}
    /\ mapping \in {"none", "own", "parents"}
    /\ calls \in [Threads -> [at : Places, call : CallKinds, resource : Resources \cup {None}]]
    /\ fetched \in [resource : Resources \cup {None}, before : Nat, soft : Nat, hard : Nat,
                    held : Nat, done : BOOLEAN]
    /\ view \in View /\ heard \in View
    /\ child \in BOOLEAN

-----------------------------------------------------------------------------
\* The service's side.

\* The generation counts its own stores, and every second one decides limits.
Numbered ==
    /\ \A i \in 1..Last : page[Generation][i].is = i - 1
    /\ Len(decided) = (Last + 1) \div 2

\* An even generation carries the positions of the limits it decided ...
Covers ==
    \A i \in 1..Last, r \in Resources, k \in Parts :
        i % 2 = 1 =>
            /\ page[Generation][i].view[<<r, k>>] \in 1..Len(page[<<r, k>>])
            /\ page[<<r, k>>][page[Generation][i].view[<<r, k>>]].is
                  = decided[(i + 1) \div 2][r][k]

\* ... and whatever was stored after them carries a later generation.
Later ==
    \A i \in 1..Last, r \in Resources, k \in Parts :
        \A j \in 1..Len(page[<<r, k>>]) :
            i % 2 = 1 /\ j > page[Generation][i].view[<<r, k>>]
                => page[<<r, k>>][j].view[Generation] > i

\* One publisher at a time is between the exchange and the even generation.
OnePublisher ==
    /\ \A p \in Publishers : publishers[p].at \in Inside =>
           Last % 2 = 0 /\ publishers[p].generation + 2 = Last
    /\ \A p, q \in Publishers :
           publishers[p].at \in Inside /\ publishers[q].at \in Inside => p = q
    /\ \A p \in Publishers :
           publishers[p].at = "exchange" => publishers[p].generation % 2 = 0

\* The newest stores are the limits in force, but for what a publisher has changed.
Stored(p, r, k) ==
    /\ publishers[p].resource = r
    /\ publishers[p].at = "even" \/ (publishers[p].at = "hard" /\ k = "soft")

Current ==
    \A r \in Resources, k \in Parts :
        /\ \A p \in Publishers : Stored(p, r, k) => Newest(<<r, k>>) = publishers[p].limit[k]
        /\ (\A p \in Publishers : ~Stored(p, r, k)) => Newest(<<r, k>>) = InForce[r][k]

Published == Numbered /\ Covers /\ Later /\ OnePublisher /\ Current

-----------------------------------------------------------------------------
\* The reader's side: what the holder of POLICY has fetched so far.

Place == calls[POLICY].at
HolderAt(places) == POLICY # None /\ Place \in places

\* The positions carried by the even generation the reader has seen.
Base(k) == page[Generation][fetched.before + 1].view[<<fetched.resource, k>>]

\* A part was fetched from a store at or after those positions, and the generation
\* which that store carries is known to the bound given.
Fetched(k, bound) ==
    \E j \in 1..Len(page[<<fetched.resource, k>>]) :
        /\ j >= Base(k)
        /\ page[<<fetched.resource, k>>][j].is = fetched[k]
        /\ page[<<fetched.resource, k>>][j].view[Generation] <= bound

Reading ==
    /\ HolderAt(ReadPlaces) =>
          fetched.before % 2 = 0 /\ fetched.before < Last
    /\ HolderAt({"fence"}) => \A k \in Parts : heard[<<fetched.resource, k>>] >= Base(k)
    /\ HolderAt({"soft"}) => view[<<fetched.resource, "soft">>] >= Base("soft")
    /\ HolderAt({"soft", "hard"}) => view[<<fetched.resource, "hard">>] >= Base("hard")
    /\ HolderAt({"hard", "refence"}) => Fetched("soft", heard[Generation])
    /\ HolderAt({"refence"}) => Fetched("hard", heard[Generation])
    /\ HolderAt({"after"}) => \A k \in Parts : Fetched(k, view[Generation])

\* Whose page is read, and for what.
Mapped ==
    /\ ~HolderAt({"reset"}) => mapping # "parents"
    /\ HolderAt(ReadPlaces \cup {"read"}) =>
          /\ mapping = "own" /\ fetched.resource \in Resources
          /\ calls[POLICY].call = "read" /\ calls[POLICY].resource = fetched.resource
    /\ HolderAt({"record_locks"}) => mapping = "own"
    /\ HolderAt({"open"}) =>
          /\ calls[POLICY].call \in {"read", "record_locks"}
          /\ calls[POLICY].call = "read" =>
                fetched.resource \in Resources /\ calls[POLICY].resource = fetched.resource
    /\ \A t \in Threads : calls[t].at = "lock" =>
          /\ calls[t].call # "none"
          /\ calls[t].call = "read" => calls[t].resource \in Resources
    /\ \A t \in Threads : POLICY # t => calls[t].at \in {"return", "lock", "gone"}
    /\ POLICY # None => ~fetched.done /\ Place \notin {"return", "lock", "gone"}

\* NoTornLimits, with the resource known to be one.
Result == fetched.done => NoTornLimits /\ fetched.resource \in Resources

IInv == Typed /\ Published /\ Reading /\ Mapped /\ Result

-----------------------------------------------------------------------------
LEMMA WordFacts ==
    /\ Generation \in Bracketed /\ Bracketed \subseteq Words
    /\ Generation \in Words /\ RecordLocks \in Words /\ RecordLocks \notin Bracketed
    /\ \A r \in Resources, k \in Parts : <<r, k>> \in Bracketed /\ <<r, k>> # Generation
                                         /\ <<r, k>> # RecordLocks /\ <<r, k>> \in Words
    /\ \A r \in Resources : Soft(r) = <<r, "soft">> /\ Hard(r) = <<r, "hard">>
  BY Zenon DEF Generation, RecordLocks, Bracketed, Words, Soft, Hard, Parts

\* What a store adds to the page.
Appends(w, to) ==
    /\ page' \in [Words -> Seq(Stores)]
    /\ Len(page'[w]) = Len(page[w]) + 1
    /\ \A v \in Words : v # w => page'[v] = page[v]
    /\ \A j \in 1..Len(page[w]) : page'[w][j] = page[w][j]
    /\ page'[w][Len(page[w]) + 1].is = to
    /\ w \in Bracketed => \A v \in Bracketed :
           v # w => page'[w][Len(page[w]) + 1].view[v] = Len(page[v])

LEMMA StoreAppends ==
    ASSUME Typed, NEW w \in Words, NEW to \in Nat, page' = Store(w, to)
    PROVE  Appends(w, to)
<1> DEFINE at == [v \in Words |-> CASE v = w -> Len(page[w]) + 1
                                    [] v # w /\ {v, w} \subseteq Bracketed -> Len(page[v])
                                    [] OTHER -> 1]
           new == [is |-> to, view |-> at]
<1>1. page' = [page EXCEPT ![w] = Append(@, new)]  BY Zenon DEF Store
<1>2. \A v \in Words : page[v] \in Seq(Stores) /\ Len(page[v]) \in Nat \ {0}  BY DEF Typed
<1>3. at \in View
  <2> SUFFICES ASSUME NEW v \in Words PROVE at[v] \in Nat \ {0}  BY Zenon DEF View
  <2>1. CASE v = w  BY <1>2, <2>1
  <2>2. CASE v # w /\ {v, w} \subseteq Bracketed  BY <1>2, <2>2, Zenon
  <2>3. CASE v # w /\ ~({v, w} \subseteq Bracketed)  BY <2>3
  <2> QED  BY <2>1, <2>2, <2>3, Zenon
<1>4. new \in Stores  BY <1>3, Zenon DEF Stores
<1>5. w \in Bracketed => \A v \in Bracketed : v # w => at[v] = Len(page[v])
  BY WordFacts, Zenon
<1>6. new.is = to /\ new.view = at  BY Zenon
<1> HIDE DEF at, new
<1>7. page'[w] = Append(page[w], new)  BY <1>1, Zenon DEF Typed
<1>8. \A v \in Words : v # w => page'[v] = page[v]  BY <1>1, Zenon DEF Typed
<1>9. page' \in [Words -> Seq(Stores)]
  <2>1. Append(page[w], new) \in Seq(Stores)  BY <1>2, <1>4
  <2> QED  BY <1>1, <2>1, Zenon DEF Typed
<1>10. /\ Len(page'[w]) = Len(page[w]) + 1
       /\ \A j \in 1..Len(page[w]) : page'[w][j] = page[w][j]
       /\ page'[w][Len(page[w]) + 1] = new
  BY <1>2, <1>4, <1>7
<1> QED  BY <1>5, <1>6, <1>8, <1>9, <1>10, Zenon DEF Appends

-----------------------------------------------------------------------------
\* The page only grows in a step of the service.
Grows ==
    /\ page' \in [Words -> Seq(Stores)]
    /\ \A w \in Words : /\ Len(page'[w]) >= Len(page[w])
                        /\ \A j \in 1..Len(page[w]) : page'[w][j] = page[w][j]

LEMMA AppendsGrows ==
    ASSUME Typed, NEW w \in Words, NEW to, Appends(w, to) PROVE Grows
<1>1. \A v \in Words : Len(page[v]) \in Nat  BY DEF Typed
<1> QED  BY <1>1 DEF Appends, Grows

\* A step that stores no limit and decides none.
LEMMA CurrentKept ==
    ASSUME Current, decided' = decided,
           \A s \in Resources, k \in Parts : page'[<<s, k>>] = page[<<s, k>>],
           \A q \in Publishers, s \in Resources, k \in Parts :
               /\ Stored(q, s, k)' <=> Stored(q, s, k)
               /\ Stored(q, s, k) => publishers'[q].limit = publishers[q].limit
    PROVE  Current'
<1>1. SUFFICES ASSUME NEW s \in Resources, NEW k \in Parts
               PROVE  /\ \A p \in Publishers : Stored(p, s, k)' =>
                             Newest(<<s, k>>)' = publishers'[p].limit[k]
                      /\ (\A p \in Publishers : ~Stored(p, s, k)') =>
                             Newest(<<s, k>>)' = InForce'[s][k]
  BY Zenon DEF Current
<1>2. Newest(<<s, k>>)' = Newest(<<s, k>>) /\ InForce' = InForce  BY Zenon DEF Newest, InForce
<1> QED  BY <1>2 DEF Current

\* A step that leaves the page and the decisions alone.
LEMMA PageKept ==
    ASSUME Published, page' = page, decided' = decided
    PROVE  Numbered' /\ Covers' /\ Later'
<1>1. Last' = Last  BY Zenon DEF Last
<1>2. Numbered'  BY <1>1, Zenon DEF Published, Numbered
<1>3. Covers'  BY <1>1, Zenon DEF Published, Covers
<1>4. Later'  BY <1>1, Zenon DEF Published, Later
<1> QED  BY <1>2, <1>3, <1>4, Zenon

\* publish_load
LEMMA LoadStep ==
    ASSUME Constants, Typed, Published, NEW p \in Publishers, NEW r \in Resources,
           NEW limit \in Limits, publish_load(p, r, limit)
    PROVE  Published'
<1>1. page' = page /\ decided' = decided  BY Zenon DEF publish_load
<1>2. publishers' = [publishers EXCEPT ![p] =
          [at |-> "exchange", resource |-> r, limit |-> limit,
           generation |-> Newest(Generation)]]
      /\ publishers[p].at = "idle" /\ Newest(Generation) % 2 = 0
  BY Zenon DEF publish_load
<1>3. Numbered' /\ Covers' /\ Later'  BY <1>1, PageKept, Zenon
<1>4. OnePublisher'  BY <1>1, <1>2, Zenon DEF Published, OnePublisher, Last, Typed, Inside
<1>5. ASSUME NEW q \in Publishers, NEW s \in Resources, NEW k \in Parts
      PROVE  /\ Stored(q, s, k)' <=> Stored(q, s, k)
             /\ Stored(q, s, k) => publishers'[q].limit = publishers[q].limit
  BY <1>2, Zenon DEF Stored, Typed
<1>6. Current'  BY <1>1, <1>5, CurrentKept, Zenon DEF Published
<1> QED  BY <1>3, <1>4, <1>6, Zenon DEF Published

\* publish_exchange
LEMMA ExchangeStep ==
    ASSUME Constants, Typed, Published, NEW p \in Publishers, publish_exchange(p)
    PROVE  Published'
<1> DEFINE g == publishers[p].generation
<1>1. CASE Newest(Generation) = g
  <2>1. /\ page' = Store(Generation, g + 1) /\ decided' = decided
        /\ publishers' = [publishers EXCEPT ![p].at = "soft"]
        /\ publishers[p].at = "exchange"
    BY <1>1, Zenon DEF publish_exchange
  <2>2. g \in Nat /\ g % 2 = 0 /\ Last \in Nat /\ Last > 0
    BY <2>1, WordFacts DEF Typed, Published, OnePublisher, Last
  <2>3. Last = g + 1  BY <1>1, <2>2 DEF Published, Numbered, Newest, Last
  <2>4. Appends(Generation, g + 1)  BY <2>1, <2>2, WordFacts, StoreAppends
  <2>5. Last' = Last + 1  BY <2>4, Zenon DEF Appends, Last
  <2> HIDE DEF g
  <2>6. \A q \in Publishers : publishers[q].at \notin Inside
    BY <2>2, <2>3 DEF Published, OnePublisher
  <2>7. Numbered'
    <3>1. (Last + 1) \div 2 = (Last' + 1) \div 2  BY <2>2, <2>3, <2>5
    <3>2. \A i \in 1..Last' : i \in 1..Last \/ i = Last + 1  BY <2>2, <2>5
    <3>3. page'[Generation][Last + 1].is = g + 1  BY <2>4, Zenon DEF Appends, Last
    <3>4. \A i \in 1..Last : page'[Generation][i] = page[Generation][i]
      BY <2>4, Zenon DEF Appends, Last
    <3>5. \A i \in 1..Last : page[Generation][i].is = i - 1  BY Zenon DEF Published, Numbered
    <3>6. \A i \in 1..Last' : page'[Generation][i].is = i - 1
      BY <2>2, <2>3, <3>2, <3>3, <3>4, <3>5
    <3> QED  BY <2>1, <3>1, <3>6, Zenon DEF Published, Numbered
  <2>8. \A i \in 1..Last' : i % 2 = 1 => i \in 1..Last  BY <2>2, <2>3, <2>5
  <2>9. \A i \in 1..Last : page'[Generation][i] = page[Generation][i]
    BY <2>4, Zenon DEF Appends, Last
  <2>10. \A s \in Resources, k \in Parts : page'[<<s, k>>] = page[<<s, k>>]
    BY <2>4, WordFacts, Zenon DEF Appends
  <2>11. Covers'
    <3> SUFFICES ASSUME NEW i \in 1..Last', NEW s \in Resources, NEW m \in Parts, i % 2 = 1
                 PROVE  /\ page'[Generation][i].view[<<s, m>>] \in 1..Len(page'[<<s, m>>])
                        /\ page'[<<s, m>>][page'[Generation][i].view[<<s, m>>]].is
                              = decided'[(i + 1) \div 2][s][m]
      BY Zenon DEF Covers
    <3>1. i \in 1..Last  BY <2>8, Zenon
    <3>2. page'[Generation][i] = page[Generation][i] /\ page'[<<s, m>>] = page[<<s, m>>]
      BY <2>9, <2>10, <3>1, Zenon
    <3>3. /\ page[Generation][i].view[<<s, m>>] \in 1..Len(page[<<s, m>>])
          /\ page[<<s, m>>][page[Generation][i].view[<<s, m>>]].is
                = decided[(i + 1) \div 2][s][m]
      BY <3>1, Zenon DEF Published, Covers
    <3> QED  BY <2>1, <3>2, <3>3, Zenon
  <2>12. Later'  BY <2>8, <2>9, <2>10, Zenon DEF Published, Later
  <2>13. OnePublisher'
    <3>1. \A q \in Publishers : q # p => publishers'[q] = publishers[q]
      BY <2>1, Zenon DEF Typed
    <3>2. publishers'[p].at = "soft" /\ publishers'[p].generation = g
      BY <2>1 DEF Typed, g
    <3>3. Last' % 2 = 0 /\ g + 2 = Last'  BY <2>2, <2>3, <2>5
    <3> QED  BY <2>6, <3>1, <3>2, <3>3, Zenon DEF OnePublisher, Published, Inside
  <2>14. ASSUME NEW q \in Publishers, NEW s \in Resources, NEW k \in Parts
         PROVE  /\ Stored(q, s, k)' <=> Stored(q, s, k)
                /\ Stored(q, s, k) => publishers'[q].limit = publishers[q].limit
    BY <2>1, Zenon DEF Stored, Typed
  <2>15. Current'  BY <2>1, <2>10, <2>14, CurrentKept, Zenon DEF Published
  <2> QED  BY <2>7, <2>11, <2>12, <2>13, <2>15, Zenon DEF Published
<1>2. CASE Newest(Generation) # g
  <2>1. /\ page' = page /\ decided' = decided
        /\ publishers' = [publishers EXCEPT ![p] = Idle]
        /\ publishers[p].at = "exchange"
    BY <1>2, Zenon DEF publish_exchange
  <2>2. Numbered' /\ Covers' /\ Later'  BY <2>1, PageKept, Zenon
  <2>3. OnePublisher'  BY <2>1, Zenon DEF Published, OnePublisher, Last, Typed, Inside, Idle
  <2>4. ASSUME NEW q \in Publishers, NEW s \in Resources, NEW k \in Parts
        PROVE  /\ Stored(q, s, k)' <=> Stored(q, s, k)
               /\ Stored(q, s, k) => publishers'[q].limit = publishers[q].limit
    BY <2>1, Zenon DEF Stored, Typed, Idle
  <2>5. Current'  BY <2>1, <2>4, CurrentKept, Zenon DEF Published
  <2> QED  BY <2>2, <2>3, <2>5, Zenon DEF Published
<1> QED  BY <1>1, <1>2, Zenon

\* publish_soft and publish_hard: a publisher stores a part of its limit.
PartStored(p, k) ==
    /\ publishers[p].at = k
    /\ page' = Store(<<publishers[p].resource, k>>, publishers[p].limit[k])
    /\ publishers' = [publishers EXCEPT ![p].at = IF k = "soft" THEN "hard" ELSE "even"]
    /\ decided' = decided

LEMMA PartStep ==
    ASSUME Typed, Published, NEW p \in Publishers, NEW k \in Parts, PartStored(p, k)
    PROVE  Published'
<1> DEFINE r == publishers[p].resource
           w == <<r, k>>
<1>0. publishers[p].at = k /\ decided' = decided  BY Zenon DEF PartStored
<1>1. r \in Resources /\ publishers[p].limit[k] \in Nat  BY <1>0, Zenon DEF Typed, Limit, Parts
<1>2. w \in Words /\ w \in Bracketed /\ w # Generation  BY <1>1, WordFacts, Zenon
<1>3. Appends(w, publishers[p].limit[k])  BY <1>1, <1>2, StoreAppends, Zenon DEF PartStored
<1>4. Last % 2 = 0 /\ Last \in Nat
  BY <1>0, WordFacts DEF Published, OnePublisher, Inside, Parts, Last, Typed
<1>5. page'[Generation] = page[Generation] /\ Last' = Last
  BY <1>2, <1>3, WordFacts, Zenon DEF Appends, Last
<1>6. /\ Len(page'[w]) = Len(page[w]) + 1 /\ Len(page[w]) \in Nat
      /\ \A j \in 1..Len(page[w]) : page'[w][j] = page[w][j]
      /\ page'[w][Len(page[w]) + 1].is = publishers[p].limit[k]
      /\ page'[w][Len(page[w]) + 1].view[Generation] = Last
  <2> HIDE DEF w
  <2>1. page[w] \in Seq(Stores)  BY <1>2, Zenon DEF Typed
  <2>2. page'[w][Len(page[w]) + 1].view[Generation] = Last
    BY <1>2, <1>3, WordFacts, Zenon DEF Appends, Last
  <2>3. Len(page[w]) \in Nat  BY <2>1
  <2>4. /\ Len(page'[w]) = Len(page[w]) + 1
        /\ \A j \in 1..Len(page[w]) : page'[w][j] = page[w][j]
        /\ page'[w][Len(page[w]) + 1].is = publishers[p].limit[k]
    BY <1>3, Zenon DEF Appends
  <2> QED  BY <2>2, <2>3, <2>4, Zenon
<1>7. \A s \in Resources, j \in Parts : <<s, j>> # w => page'[<<s, j>>] = page[<<s, j>>]
  BY <1>3, WordFacts, Zenon DEF Appends
<1> HIDE DEF w, r
<1>8. Numbered'  BY <1>0, <1>5, Zenon DEF Published, Numbered
<1>9. Covers'
  <2> SUFFICES ASSUME NEW i \in 1..Last', NEW s \in Resources, NEW m \in Parts, i % 2 = 1
               PROVE  /\ page'[Generation][i].view[<<s, m>>] \in 1..Len(page'[<<s, m>>])
                      /\ page'[<<s, m>>][page'[Generation][i].view[<<s, m>>]].is
                            = decided'[(i + 1) \div 2][s][m]
    BY Zenon DEF Covers
  <2>1. /\ page[Generation][i].view[<<s, m>>] \in 1..Len(page[<<s, m>>])
        /\ page[<<s, m>>][page[Generation][i].view[<<s, m>>]].is
              = decided[(i + 1) \div 2][s][m]
    BY <1>5, Zenon DEF Published, Covers
  <2>2. CASE <<s, m>> = w
    <3> DEFINE v == page[Generation][i].view[<<s, m>>]
    <3>1. v \in 1..Len(page[w]) /\ page'[Generation][i].view[<<s, m>>] = v
      BY <1>5, <2>1, <2>2, Zenon
    <3> HIDE DEF v
    <3>2. v \in 1..Len(page'[w]) /\ page'[w][v] = page[w][v]  BY <1>6, <3>1
    <3> QED  BY <1>0, <2>1, <2>2, <3>1, <3>2, Zenon DEF v
  <2>3. CASE <<s, m>> # w  BY <1>0, <1>5, <1>7, <2>1, <2>3, Zenon
  <2> QED  BY <2>2, <2>3, Zenon
<1>10. Later'
  <2> SUFFICES ASSUME NEW i \in 1..Last', NEW s \in Resources, NEW m \in Parts, i % 2 = 1,
                      NEW j \in 1..Len(page'[<<s, m>>]),
                      j > page'[Generation][i].view[<<s, m>>]
               PROVE  page'[<<s, m>>][j].view[Generation] > i
    BY Zenon DEF Later
  <2>1. CASE <<s, m>> = w /\ j = Len(page[w]) + 1
    <3>1. i < Last  BY <1>4, <1>5
    <3> QED  BY <1>6, <2>1, <3>1, <1>4, Zenon
  <2>2. CASE <<s, m>> = w /\ j # Len(page[w]) + 1
    <3>1. j \in 1..Len(page[w])
      <4>1. j \in 1..(Len(page[w]) + 1) /\ Len(page[w]) \in Nat  BY <1>6, <2>2, Zenon
      <4> QED  BY <2>2, <4>1
    <3> QED  BY <1>5, <1>6, <2>2, <3>1, Zenon DEF Published, Later
  <2>3. CASE <<s, m>> # w  BY <1>5, <1>7, <2>3, Zenon DEF Published, Later
  <2> QED  BY <2>1, <2>2, <2>3, Zenon
<1>11. /\ \A q \in Publishers : /\ publishers'[q].limit = publishers[q].limit
                                /\ publishers'[q].resource = publishers[q].resource
                                /\ publishers'[q].generation = publishers[q].generation
                                /\ q # p => publishers'[q].at = publishers[q].at
       /\ publishers'[p].at = IF k = "soft" THEN "hard" ELSE "even"
  BY Zenon DEF PartStored, Typed
<1>12. \A q \in Publishers : q # p => publishers[q].at \notin Inside
  BY <1>0, Zenon DEF Published, OnePublisher, Inside, Parts
<1>13. OnePublisher'
  BY <1>0, <1>5, <1>11, <1>12 DEF Published, OnePublisher, Inside, Parts
<1>14. Current'
  <2> SUFFICES ASSUME NEW s \in Resources, NEW m \in Parts
               PROVE  /\ \A q \in Publishers : Stored(q, s, m)' =>
                             Newest(<<s, m>>)' = publishers'[q].limit[m]
                      /\ (\A q \in Publishers : ~Stored(q, s, m)') =>
                             Newest(<<s, m>>)' = InForce'[s][m]
    BY Zenon DEF Current
  <2>2. \A q \in Publishers : Stored(q, s, m)' => q = p
    BY <1>11, <1>12, Zenon DEF Stored, Inside
  <2>3. CASE <<s, m>> = w
    <3>1. s = r /\ m = k  BY <2>3, Zenon DEF w
    <3>2. Newest(<<s, m>>)' = publishers[p].limit[m]  BY <1>6, <2>3, <3>1, Zenon DEF Newest
    <3>3. Stored(p, s, m)'  BY <1>11, <3>1, Zenon DEF Stored, Parts, r
    <3> QED  BY <1>11, <2>2, <3>2, <3>3, Zenon
  <2>4. CASE <<s, m>> # w
    <3>1. Newest(<<s, m>>)' = Newest(<<s, m>>) /\ InForce' = InForce
      BY <1>0, <1>7, <2>4, Zenon DEF Newest, InForce
    <3>2. \A q \in Publishers : Stored(q, s, m)' <=> Stored(q, s, m)
      BY <1>0, <1>11, <1>12, <2>4, Zenon DEF Stored, Parts, Inside, w, r
    <3> QED  BY <1>11, <3>1, <3>2 DEF Published, Current
  <2> QED  BY <2>3, <2>4, Zenon
<1> QED  BY <1>8, <1>9, <1>10, <1>13, <1>14, Zenon DEF Published

\* publish_even
LEMMA EvenStep ==
    ASSUME Constants, Typed, Published, NEW p \in Publishers, publish_even(p)
    PROVE  Published'
<1> DEFINE g == publishers[p].generation
           r == publishers[p].resource
           limit == publishers[p].limit
           i0 == Last + 1
<1>1. /\ page' = Store(Generation, g + 2)
      /\ decided' = Append(decided, [InForce EXCEPT ![r] = limit])
      /\ publishers' = [publishers EXCEPT ![p] = Idle]
      /\ publishers[p].at = "even"
  BY Zenon DEF publish_even
<1>2. g \in Nat /\ Last \in Nat /\ Last > 0 /\ Last % 2 = 0 /\ Last = g + 2
  BY <1>1, WordFacts DEF Typed, Published, OnePublisher, Last, Inside
<1>3. Appends(Generation, g + 2)  BY <1>1, <1>2, WordFacts, StoreAppends, Zenon
<1>4. /\ Last' = i0
      /\ \A i \in 1..Last : page'[Generation][i] = page[Generation][i]
      /\ page'[Generation][i0].is = g + 2
      /\ \A s \in Resources, k \in Parts : page'[Generation][i0].view[<<s, k>>] = Len(page[<<s, k>>])
      /\ \A s \in Resources, k \in Parts : page'[<<s, k>>] = page[<<s, k>>]
  BY <1>3, WordFacts, Zenon DEF Appends, Last
<1>5. \A s \in Resources, k \in Parts : Len(page[<<s, k>>]) \in Nat /\ Len(page[<<s, k>>]) > 0
  <2>1. \A w \in Words : Len(page[w]) \in Nat /\ Len(page[w]) > 0  BY DEF Typed
  <2> QED  BY <2>1, WordFacts, Zenon
<1>6. \A i \in 1..Last' : i \in 1..Last \/ i = i0  BY <1>2, <1>4
<1>7. /\ r \in Resources /\ limit \in Limit
      /\ InForce \in [Resources -> Limit] /\ Len(decided) \in Nat
      /\ decided \in Seq([Resources -> Limit])
  BY <1>1 DEF Typed, InForce
<1>8. [InForce EXCEPT ![r] = limit] \in [Resources -> Limit]  BY <1>7, Zenon
<1>9. /\ Len(decided') = Len(decided) + 1
      /\ \A n \in 1..Len(decided) : decided'[n] = decided[n]
      /\ decided'[Len(decided) + 1] = [InForce EXCEPT ![r] = limit]
  BY <1>1, <1>7, <1>8
<1> HIDE DEF g, r, limit, i0
<1>10. Len(decided) = (Last + 1) \div 2 /\ (i0 + 1) \div 2 = Len(decided) + 1
  BY <1>2 DEF Published, Numbered, i0
<1>11. \A i \in 1..Last : i % 2 = 1 => (i + 1) \div 2 \in 1..Len(decided)
  BY <1>2, <1>10
<1>12. \A q \in Publishers : q # p => publishers[q].at \notin Inside
  BY <1>1, Zenon DEF Published, OnePublisher, Inside
<1>13. \A s \in Resources, k \in Parts : Newest(<<s, k>>) = decided'[Len(decided) + 1][s][k]
  <2> SUFFICES ASSUME NEW s \in Resources, NEW k \in Parts
               PROVE  Newest(<<s, k>>) = [InForce EXCEPT ![r] = limit][s][k]
    BY <1>9, ZenonT(60)
  <2>1. CASE s = r
    <3>1. Stored(p, s, k)  BY <1>1, <2>1, Zenon DEF Stored, r
    <3> QED  BY <1>7, <2>1, <3>1, Zenon DEF Published, Current, limit
  <2>2. CASE s # r
    <3>1. \A q \in Publishers : ~Stored(q, s, k)
      BY <1>12, <2>2, Zenon DEF Stored, r, Inside
    <3> QED  BY <1>7, <2>2, <3>1, Zenon DEF Published, Current
  <2> QED  BY <2>1, <2>2, Zenon
<1>14. Numbered'
  <2>1. \A i \in 1..Last : page[Generation][i].is = i - 1  BY Zenon DEF Published, Numbered
  <2>2. page'[Generation][i0].is = i0 - 1  BY <1>2, <1>4 DEF i0
  <2>4. \A i \in 1..Last : page'[Generation][i].is = i - 1  BY <1>4, <2>1, Zenon
  <2>5. \A i \in 1..Last' : page'[Generation][i].is = i - 1  BY <1>6, <2>2, <2>4, Zenon
  <2>3. Len(decided') = (Last' + 1) \div 2  BY <1>4, <1>9, <1>10, Zenon
  <2> QED  BY <2>3, <2>5, Zenon DEF Numbered
<1>15. Covers'
  <2> SUFFICES ASSUME NEW i \in 1..Last', NEW s \in Resources, NEW m \in Parts, i % 2 = 1
               PROVE  /\ page'[Generation][i].view[<<s, m>>] \in 1..Len(page'[<<s, m>>])
                      /\ page'[<<s, m>>][page'[Generation][i].view[<<s, m>>]].is
                            = decided'[(i + 1) \div 2][s][m]
    BY Zenon DEF Covers
  <2>1. CASE i \in 1..Last
    <3>1. page'[Generation][i] = page[Generation][i] /\ page'[<<s, m>>] = page[<<s, m>>]
      BY <1>4, <2>1, Zenon
    <3>2. decided'[(i + 1) \div 2] = decided[(i + 1) \div 2]  BY <1>9, <1>11, <2>1, Zenon
    <3>3. /\ page[Generation][i].view[<<s, m>>] \in 1..Len(page[<<s, m>>])
          /\ page[<<s, m>>][page[Generation][i].view[<<s, m>>]].is
                = decided[(i + 1) \div 2][s][m]
      BY <2>1, Zenon DEF Published, Covers
    <3> QED  BY <3>1, <3>2, <3>3, Zenon
  <2>2. CASE i = i0
    <3>1. page'[Generation][i].view[<<s, m>>] = Len(page[<<s, m>>])
          /\ page'[<<s, m>>] = page[<<s, m>>]
      BY <1>4, <2>2, Zenon
    <3>2. page[<<s, m>>][Len(page[<<s, m>>])].is = decided'[Len(decided) + 1][s][m]
      BY <1>13, Zenon DEF Newest
    <3> QED  BY <1>5, <1>10, <2>2, <3>1, <3>2
  <2> QED  BY <1>6, <2>1, <2>2, Zenon
<1>16. Later'
  <2> SUFFICES ASSUME NEW i \in 1..Last', NEW s \in Resources, NEW m \in Parts, i % 2 = 1,
                      NEW j \in 1..Len(page'[<<s, m>>]),
                      j > page'[Generation][i].view[<<s, m>>]
               PROVE  page'[<<s, m>>][j].view[Generation] > i
    BY Zenon DEF Later
  <2>1. CASE i \in 1..Last  BY <1>4, <2>1, Zenon DEF Published, Later
  <2>2. CASE i = i0
    <3>1. j <= Len(page[<<s, m>>]) /\ j > Len(page[<<s, m>>])  BY <1>4, <1>5, <2>2
    <3> QED  BY <1>5, <3>1
  <2> QED  BY <1>6, <2>1, <2>2, Zenon
<1>17. OnePublisher'
  BY <1>1, <1>12, Zenon DEF Published, OnePublisher, Typed, Inside, Idle
<1>18. Current'
  <2> SUFFICES ASSUME NEW s \in Resources, NEW m \in Parts
               PROVE  /\ \A q \in Publishers : ~Stored(q, s, m)'
                      /\ Newest(<<s, m>>)' = InForce'[s][m]
    BY Zenon DEF Current
  <2>1. \A q \in Publishers : ~Stored(q, s, m)'
    BY <1>1, <1>12, Zenon DEF Stored, Typed, Inside, Idle
  <2>2. Newest(<<s, m>>)' = Newest(<<s, m>>)  BY <1>4, Zenon DEF Newest
  <2>3. InForce' = decided'[Len(decided) + 1]  BY <1>9, Zenon DEF InForce
  <2> QED  BY <1>13, <2>1, <2>2, <2>3, Zenon
<1> QED  BY <1>14, <1>15, <1>16, <1>17, <1>18, Zenon DEF Published

\* publish_record_locks
LEMMA RecordLocksStep ==
    ASSUME Constants, Typed, Published, NEW held \in {0, 1}, publish_record_locks(held)
    PROVE  Published'
<1>1. page' = Store(RecordLocks, held) /\ decided' = decided /\ publishers' = publishers
  BY Zenon DEF publish_record_locks
<1>2. Appends(RecordLocks, held)  BY <1>1, WordFacts, StoreAppends, Zenon
<1>3. page'[Generation] = page[Generation] /\ Last' = Last
  BY <1>2, WordFacts, Zenon DEF Appends, Last
<1>4. \A s \in Resources, k \in Parts : page'[<<s, k>>] = page[<<s, k>>]
  BY <1>2, WordFacts, Zenon DEF Appends
<1>5. Numbered' /\ Covers' /\ Later' /\ OnePublisher'
  <2>1. Numbered'  BY <1>1, <1>3, Zenon DEF Published, Numbered
  <2>2. Covers'
    <3> SUFFICES ASSUME NEW i \in 1..Last, NEW s \in Resources, NEW m \in Parts, i % 2 = 1
                 PROVE  /\ page'[Generation][i].view[<<s, m>>] \in 1..Len(page'[<<s, m>>])
                        /\ page'[<<s, m>>][page'[Generation][i].view[<<s, m>>]].is
                              = decided'[(i + 1) \div 2][s][m]
      BY <1>3, Zenon DEF Covers
    <3>1. /\ page[Generation][i].view[<<s, m>>] \in 1..Len(page[<<s, m>>])
          /\ page[<<s, m>>][page[Generation][i].view[<<s, m>>]].is
                = decided[(i + 1) \div 2][s][m]
      BY Zenon DEF Published, Covers
    <3>2. page'[<<s, m>>] = page[<<s, m>>]  BY <1>4, Zenon
    <3> QED  BY <1>1, <1>3, <3>1, <3>2, Zenon
  <2>3. Later'  BY <1>3, <1>4, ZenonT(60) DEF Published, Later
  <2>4. OnePublisher'  BY <1>1, <1>3, Zenon DEF Published, OnePublisher
  <2> QED  BY <2>1, <2>2, <2>3, <2>4, Zenon
<1>6. ASSUME NEW q \in Publishers, NEW s \in Resources, NEW k \in Parts
      PROVE  /\ Stored(q, s, k)' <=> Stored(q, s, k)
             /\ Stored(q, s, k) => publishers'[q].limit = publishers[q].limit
  BY <1>1, Zenon DEF Stored
<1>7. Current'  BY <1>1, <1>4, <1>6, CurrentKept, Zenon DEF Published
<1> QED  BY <1>5, <1>7, Zenon DEF Published

\* The page of a process as the service makes it: at first, and for a child.
LEMMA NewPublished ==
    ASSUME Constants, NEW limits \in [Resources -> Limit], page = New(limits),
           decided = <<limits>>, publishers = [p \in Publishers |-> Idle]
    PROVE  Published
<1>1. /\ page[Generation] = <<[is |-> 0, view |-> Oldest]>>
      /\ \A r \in Resources, k \in Parts :
             page[<<r, k>>] = <<[is |-> limits[r][k], view |-> Oldest]>>
  <2>1. page[Generation] = <<[is |-> 0, view |-> Oldest]>>
    <3>1. ASSUME NEW w \in Words, w = Generation
          PROVE  New(limits)[w] = <<[is |-> 0, view |-> Oldest]>>
      <4>1. w[2] # "soft" /\ w \in {Generation, RecordLocks}  BY <3>1, Zenon DEF Generation
      <4> QED  BY <4>1, Zenon DEF New
    <3> QED  BY <3>1, WordFacts, Zenon
  <2>2. ASSUME NEW r \in Resources, NEW k \in Parts
        PROVE  page[<<r, k>>] = <<[is |-> limits[r][k], view |-> Oldest]>>
    <3> DEFINE w == <<r, k>>
    <3>1. w \in Words /\ w \notin {Generation, RecordLocks} /\ w[1] = r /\ w[2] = k
      BY WordFacts, Zenon
    <3> HIDE DEF w
    <3>2. CASE k = "soft"  BY <3>1, <3>2, Zenon DEF New, w
    <3>3. CASE k = "hard"  BY <3>1, <3>3, Zenon DEF New, w
    <3> QED  BY <3>2, <3>3, Zenon DEF Parts
  <2> QED  BY <2>1, <2>2, Zenon
<1>2. Last = 1 /\ page[Generation][1].is = 0 /\ page[Generation][1].view = Oldest
  BY <1>1 DEF Last
<1>3. \A r \in Resources, k \in Parts :
        Len(page[<<r, k>>]) = 1 /\ page[<<r, k>>][1].is = limits[r][k]
        /\ Oldest[<<r, k>>] = 1
  <2> SUFFICES ASSUME NEW r \in Resources, NEW k \in Parts
               PROVE  Len(page[<<r, k>>]) = 1 /\ page[<<r, k>>][1].is = limits[r][k]
                      /\ Oldest[<<r, k>>] = 1
    BY Zenon
  <2>1. Oldest[<<r, k>>] = 1  BY WordFacts, Zenon DEF Oldest
  <2>2. page[<<r, k>>] = <<[is |-> limits[r][k], view |-> Oldest]>>  BY <1>1, Zenon
  <2> QED  BY <2>1, <2>2
<1>4. Len(decided) = 1 /\ decided[1] = limits  BY Zenon
<1>5. Numbered /\ Covers /\ Later
  BY <1>2, <1>3, <1>4 DEF Numbered, Covers, Later
<1>6. OnePublisher /\ Current
  BY <1>2, <1>3, <1>4, ZenonT(60) DEF OnePublisher, Current, Stored, Idle, Inside, Newest, InForce
<1> QED  BY <1>5, <1>6, Zenon DEF Published

\* Every step of the service keeps what it has published.
LEMMA ServiceStep ==
    ASSUME Constants, Typed, Published,
           \/ \E p \in Publishers : publish(p)
           \/ \E held \in {0, 1} : publish_record_locks(held)
    PROVE  Published' /\ Grows /\ Len(decided') >= Len(decided)
           /\ \A n \in 1..Len(decided) : decided'[n] = decided[n]
<1> DEFINE Goal == Published' /\ Grows /\ Len(decided') >= Len(decided)
                   /\ \A n \in 1..Len(decided) : decided'[n] = decided[n]
<1>0. Len(decided) \in Nat /\ \A w \in Words : Len(page[w]) \in Nat  BY DEF Typed
<1>1. page' = page => Grows  BY <1>0 DEF Grows, Typed
<1>2. decided' = decided => Len(decided') >= Len(decided)
                            /\ \A n \in 1..Len(decided) : decided'[n] = decided[n]
  BY <1>0
<1>3. ASSUME NEW w \in Words, NEW to \in Nat, page' = Store(w, to) PROVE Grows
  BY <1>3, StoreAppends, AppendsGrows, Zenon
<1>4. ASSUME NEW p \in Publishers, publish(p) PROVE Goal
  <2>1. ASSUME NEW r \in Resources, NEW limit \in Limits, publish_load(p, r, limit) PROVE Goal
    BY <1>1, <1>2, <2>1, LoadStep, Zenon DEF publish_load
  <2>2. CASE publish_exchange(p)
    <3>1. Published'  BY <2>2, ExchangeStep, Zenon
    <3>2. Grows
      <4>1. publishers[p].generation + 1 \in Nat  BY DEF Typed
      <4> QED  BY <1>1, <1>3, <2>2, <4>1, WordFacts, Zenon DEF publish_exchange
    <3> QED  BY <1>2, <2>2, <3>1, <3>2, Zenon DEF publish_exchange
  <2>3. CASE publish_soft(p)
    <3>1. publishers[p].resource \in Resources /\ publishers[p].limit["soft"] \in Nat
          /\ Soft(publishers[p].resource) = <<publishers[p].resource, "soft">>
          /\ Soft(publishers[p].resource) \in Words
      BY <2>3, WordFacts, Zenon DEF publish_soft, Typed, Limit, Parts
    <3>2. Grows  BY <1>3, <2>3, <3>1, Zenon DEF publish_soft
    <3>3. Published'
      <4>1. "soft" \in Parts  BY Zenon DEF Parts
      <4> QED  BY <2>3, <3>1, <4>1, PartStep, Zenon DEF publish_soft, PartStored
    <3> QED  BY <1>2, <2>3, <3>2, <3>3, Zenon DEF publish_soft
  <2>4. CASE publish_hard(p)
    <3>1. publishers[p].resource \in Resources /\ publishers[p].limit["hard"] \in Nat
          /\ Hard(publishers[p].resource) = <<publishers[p].resource, "hard">>
          /\ Hard(publishers[p].resource) \in Words
      BY <2>4, WordFacts, Zenon DEF publish_hard, Typed, Limit, Parts
    <3>2. Grows  BY <1>3, <2>4, <3>1, Zenon DEF publish_hard
    <3>3. Published'
      <4>1. "hard" \in Parts  BY Zenon DEF Parts
      <4> QED  BY <2>4, <3>1, <4>1, PartStep, Zenon DEF publish_hard, PartStored
    <3> QED  BY <1>2, <2>4, <3>2, <3>3, Zenon DEF publish_hard
  <2>5. CASE publish_even(p)
    <3>1. Published'  BY <2>5, EvenStep, Zenon
    <3>2. Grows
      <4>1. publishers[p].generation + 2 \in Nat  BY DEF Typed
      <4> QED  BY <1>3, <2>5, <4>1, WordFacts, Zenon DEF publish_even
    <3>3. Len(decided') >= Len(decided)
          /\ \A n \in 1..Len(decided) : decided'[n] = decided[n]
      <4>1. publishers[p].limit \in Limit /\ InForce \in [Resources -> Limit]
            /\ decided \in Seq([Resources -> Limit])
        BY <1>0 DEF Typed, InForce
      <4>2. [InForce EXCEPT ![publishers[p].resource] = publishers[p].limit]
                \in [Resources -> Limit]
        BY <4>1, Zenon
      <4> QED  BY <1>0, <2>5, <4>1, <4>2 DEF publish_even
    <3> QED  BY <3>1, <3>2, <3>3, Zenon
  <2> QED  BY <1>4, <2>1, <2>2, <2>3, <2>4, <2>5, Zenon DEF publish
<1>5. ASSUME NEW held \in {0, 1}, publish_record_locks(held) PROVE Goal
  <2>1. Published'  BY <1>5, RecordLocksStep, Zenon
  <2>2. Grows  BY <1>3, <1>5, WordFacts, Zenon DEF publish_record_locks
  <2> QED  BY <1>2, <1>5, <2>1, <2>2, Zenon DEF publish_record_locks
<1> QED  BY <1>4, <1>5, Zenon

-----------------------------------------------------------------------------
LEMMA TypedService ==
    ASSUME Constants, Typed, Grows, UNCHANGED process,
           \/ \E p \in Publishers : publish(p)
           \/ \E held \in {0, 1} : publish_record_locks(held)
    PROVE  Typed'
<1> DEFINE Publisher == [at : PublisherPlaces, resource : Resources \cup {None},
                         limit : Limit, generation : Nat]
           Book == /\ publishers \in [Publishers -> Publisher]
                   /\ \A p \in Publishers : publishers[p].at # "idle" =>
                          publishers[p].resource \in Resources
                   /\ decided \in Seq([Resources -> Limit]) /\ Len(decided) > 0
<1>1. page' \in [Words -> Seq(Stores)] /\ \A w \in Words : Len(page'[w]) > 0
  <2>1. \A w \in Words : Len(page[w]) \in Nat /\ Len(page[w]) > 0  BY DEF Typed
  <2>2. \A w \in Words : Len(page'[w]) \in Nat  BY DEF Grows
  <2> QED  BY <2>1, <2>2 DEF Grows
<1>2. Book'
  <2>0. Book  BY Zenon DEF Typed
  <2>1. ASSUME NEW p \in Publishers, NEW r \in Resources, NEW limit \in Limits,
               publish_load(p, r, limit)
        PROVE  Book'
    <3>1. Newest(Generation) \in Nat
      <4>1. page[Generation] \in Seq(Stores) /\ Len(page[Generation]) > 0
        BY WordFacts, Zenon DEF Typed
      <4>2. page[Generation][Len(page[Generation])] \in Stores  BY <4>1
      <4> QED  BY <4>2, Zenon DEF Newest, Stores
    <3> DEFINE new == [at |-> "exchange", resource |-> r, limit |-> limit,
                       generation |-> Newest(Generation)]
    <3>2. new \in Publisher /\ new.resource \in Resources
      BY <3>1, Zenon DEF Constants, Limit, PublisherPlaces
    <3>3. publishers' = [publishers EXCEPT ![p] = new] /\ decided' = decided
      BY <2>1, Zenon DEF publish_load
    <3> HIDE DEF new
    <3>4. publishers' \in [Publishers -> Publisher]
      <4> HIDE DEF Publisher
      <4> QED  BY <2>0, <3>2, <3>3, Zenon
    <3>5. \A q \in Publishers : publishers'[q] = IF q = p THEN new ELSE publishers[q]
      <4> HIDE DEF Publisher
      <4> QED  BY <2>0, <3>3, Zenon
    <3>6. ASSUME NEW q \in Publishers, publishers'[q].at # "idle"
          PROVE  publishers'[q].resource \in Resources
      <4> HIDE DEF Publisher
      <4>1. CASE q = p  BY <3>2, <3>5, <4>1, Zenon
      <4>2. CASE q # p  BY <2>0, <3>5, <3>6, <4>2, Zenon
      <4> QED  BY <4>1, <4>2, Zenon
    <3>7. decided' \in Seq([Resources -> Limit]) /\ Len(decided') > 0  BY <2>0, <3>3, Zenon
    <3> QED  BY <3>4, <3>6, <3>7, Zenon
  <2>2. ASSUME NEW p \in Publishers, publish_exchange(p)
        PROVE  Book'
    <3>1. Idle \in Publisher  BY Zenon DEF Idle, PublisherPlaces, Limit
    <3>2. CASE publishers' = [publishers EXCEPT ![p].at = "soft"]
      <4>1. publishers[p].at = "exchange" /\ decided' = decided  BY <2>2, Zenon DEF publish_exchange
      <4> QED  BY <2>0, <3>2, <4>1, ZenonT(60) DEF PublisherPlaces
    <3>3. CASE publishers' = [publishers EXCEPT ![p] = Idle]
      <4>1. Idle.at = "idle" /\ decided' = decided  BY <2>2, Zenon DEF Idle, publish_exchange
      <4> QED  BY <2>0, <3>1, <3>3, <4>1, Zenon
    <3> QED  BY <2>2, <3>2, <3>3, Zenon DEF publish_exchange
  <2>3. ASSUME NEW p \in Publishers, publish_soft(p) \/ publish_hard(p)
        PROVE  Book'
    <3>1. PICK next \in {"hard", "even"} : publishers' = [publishers EXCEPT ![p].at = next]
      BY <2>3, Zenon DEF publish_soft, publish_hard
    <3>2. publishers[p].at # "idle" /\ decided' = decided
      BY <2>3, Zenon DEF publish_soft, publish_hard
    <3>3. publishers[p] \in Publisher /\ next \in PublisherPlaces
      BY <2>0, <3>1, Zenon DEF PublisherPlaces
    <3>4. \A q \in Publishers : /\ publishers'[q].resource = publishers[q].resource
                                /\ q # p => publishers'[q] = publishers[q]
      BY <2>0, <3>1, Zenon
    <3>5. publishers' \in [Publishers -> Publisher]
      BY <2>0, <3>1, <3>3, Zenon
    <3>6. ASSUME NEW q \in Publishers, publishers'[q].at # "idle"
          PROVE  publishers'[q].resource \in Resources
      BY <2>0, <3>2, <3>4, <3>6, Zenon
    <3> QED  BY <2>0, <3>2, <3>5, <3>6, Zenon
  <2>4. ASSUME NEW p \in Publishers, publish_even(p)
        PROVE  Book'
    <3>1. Idle \in Publisher  BY Zenon DEF Idle, PublisherPlaces, Limit
    <3>2. publishers[p].limit \in Limit /\ InForce \in [Resources -> Limit]
      BY <2>0 DEF InForce
    <3>3. [InForce EXCEPT ![publishers[p].resource] = publishers[p].limit]
              \in [Resources -> Limit]
      BY <3>2, Zenon
    <3> QED  BY <2>0, <2>4, <3>1, <3>3 DEF publish_even, Idle
  <2>5. ASSUME NEW held \in {0, 1}, publish_record_locks(held)
        PROVE  Book'
    BY <2>0, <2>5, Zenon DEF publish_record_locks
  <2> QED  BY <2>1, <2>2, <2>3, <2>4, <2>5, Zenon DEF publish
<1> QED  BY <1>1, <1>2, Zenon DEF Typed, process

-----------------------------------------------------------------------------
\* A new page, and a service that has begun nothing on it.
Fresh ==
    \E limits \in [Resources -> Limit] :
        page = New(limits) /\ decided = <<limits>> /\ publishers = [p \in Publishers |-> Idle]

ServiceTyped ==
    /\ page \in [Words -> Seq(Stores)]
    /\ \A w \in Words : Len(page[w]) > 0
    /\ decided \in Seq([Resources -> Limit]) /\ Len(decided) > 0
    /\ publishers \in [Publishers -> [at : PublisherPlaces, resource : Resources \cup {None},
                                      limit : Limit, generation : Nat]]
    /\ \A p \in Publishers : publishers[p].at # "idle" => publishers[p].resource \in Resources

LEMMA FreshIsPublished ==
    ASSUME Constants PROVE Fresh => Published /\ ServiceTyped
<1> SUFFICES ASSUME NEW limits \in [Resources -> Limit], page = New(limits),
                    decided = <<limits>>, publishers = [p \in Publishers |-> Idle]
             PROVE  Published /\ ServiceTyped
  BY Zenon DEF Fresh
<1>1. Published  BY NewPublished, Zenon
<1>2. ASSUME NEW w \in Words
      PROVE  page[w] \in Seq(Stores) /\ Len(page[w]) > 0
  <2>1. Oldest \in View  BY DEF Oldest, View
  <2>2. PICK to \in Nat : page[w] = <<[is |-> to, view |-> Oldest]>>
    <3>1. CASE w \in {Generation, RecordLocks}
      <4>1. w[2] # "soft"  BY <3>1 DEF Generation, RecordLocks
      <4>2. New(limits)[w] = <<[is |-> 0, view |-> Oldest]>>  BY <3>1, <4>1, Zenon DEF New
      <4> QED  BY <4>2, Zenon
    <3>2. CASE w \notin {Generation, RecordLocks}
      <4>1. PICK r \in Resources : w = <<r, "soft">> \/ w = <<r, "hard">>
        BY <3>2, Zenon DEF Words, Bracketed, Soft, Hard
      <4>2. limits[r].soft \in Nat /\ limits[r].hard \in Nat  BY Zenon DEF Limit
      <4>3. CASE w = <<r, "soft">>
        <5>1. w[1] = r /\ w[2] = "soft"  BY <4>3, Zenon
        <5>2. New(limits)[w] = <<[is |-> limits[r].soft, view |-> Oldest]>>
          BY <3>2, <5>1, Zenon DEF New
        <5> QED  BY <4>2, <5>2, Zenon
      <4>4. CASE w = <<r, "hard">>
        <5>1. w[1] = r /\ w[2] = "hard"  BY <4>4, Zenon
        <5>2. New(limits)[w] = <<[is |-> limits[r].hard, view |-> Oldest]>>
          BY <3>2, <5>1, Zenon DEF New
        <5> QED  BY <4>2, <5>2, Zenon
      <4> QED  BY <4>1, <4>3, <4>4, Zenon
    <3> QED  BY <3>1, <3>2, Zenon
  <2>3. [is |-> to, view |-> Oldest] \in Stores  BY <2>1, Zenon DEF Stores
  <2> HIDE DEF Stores
  <2> QED  BY <2>2, <2>3
<1>3. page \in [Words -> Seq(Stores)]
  <2>1. page = [w \in Words |-> page[w]]  BY DEF New
  <2> QED  BY <1>2, <2>1, Zenon
<1>4. Idle \in [at : PublisherPlaces, resource : Resources \cup {None}, limit : Limit,
                generation : Nat] /\ Idle.at = "idle"
  BY Zenon DEF Idle, PublisherPlaces, Limit
<1> QED  BY <1>1, <1>2, <1>3, <1>4 DEF ServiceTyped

LEMMA FreshIsPublishedNext ==
    ASSUME Constants PROVE Fresh' => Published' /\ ServiceTyped'
  BY FreshIsPublished, PTL

-----------------------------------------------------------------------------
\* The process's side.

LEMMA JoinFacts ==
    ASSUME NEW a \in View, NEW b \in View
    PROVE  Join(a, b) \in View
           /\ \A w \in Words : Join(a, b)[w] >= a[w] /\ Join(a, b)[w] >= b[w]
  BY DEF Join, View

\* What the reader knows stays true while the service stores.
LEMMA ReadingKept ==
    ASSUME Typed, Reading, Mapped, Grows, UNCHANGED process
    PROVE  Reading'
<1>1. \A places : HolderAt(places)' <=> HolderAt(places)  BY Zenon DEF HolderAt, Place, process
<1>2. CASE ~HolderAt(ReadPlaces)
  BY <1>1, <1>2, Zenon DEF Reading, HolderAt, ReadPlaces
<1>3. CASE HolderAt(ReadPlaces)
  <2>1. /\ fetched.resource \in Resources
        /\ fetched.before % 2 = 0 /\ fetched.before < Last /\ fetched.before \in Nat
    BY <1>3, Zenon DEF Mapped, Reading, HolderAt, Typed
  <2>2. Last' >= Last /\ Last \in Nat /\ Last' \in Nat
        /\ page'[Generation][fetched.before + 1] = page[Generation][fetched.before + 1]
    <3>1. Last \in Nat /\ Last' \in Nat  BY WordFacts DEF Grows, Last, Typed
    <3>2. Last' >= Last /\ \A j \in 1..Last : page'[Generation][j] = page[Generation][j]
      BY WordFacts, Zenon DEF Grows, Last
    <3>3. fetched.before + 1 \in 1..Last  BY <2>1, <3>1
    <3> QED  BY <3>1, <3>2, <3>3, Zenon
  <2>3. fetched' = fetched /\ view' = view /\ heard' = heard  BY Zenon DEF process
  <2>4. \A k \in Parts : Base(k)' = Base(k)  BY <2>2, <2>3, Zenon DEF Base
  <2>5. ASSUME NEW k \in Parts, NEW bound, Fetched(k, bound) PROVE Fetched(k, bound)'
    <3> DEFINE w == <<fetched.resource, k>>
    <3>1. w \in Words  BY <2>1, WordFacts, Zenon
    <3>2. PICK j \in 1..Len(page[w]) : /\ j >= Base(k) /\ page[w][j].is = fetched[k]
                                       /\ page[w][j].view[Generation] <= bound
      BY <2>5, Zenon DEF Fetched
    <3>3. <<fetched'.resource, k>> = w  BY <2>3, Zenon
    <3> HIDE DEF w
    <3>4. page[w] \in Seq(Stores) /\ page'[w] \in Seq(Stores)  BY <3>1, Zenon DEF Typed, Grows
    <3>5. Len(page[w]) \in Nat /\ Len(page'[w]) \in Nat  BY <3>4
    <3>6. Len(page'[w]) >= Len(page[w]) /\ page'[w][j] = page[w][j]  BY <3>1, Zenon DEF Grows
    <3>7. j \in 1..Len(page'[w])  BY <3>5, <3>6
    <3>8. \E i \in 1..Len(page'[w]) : /\ i >= Base(k)' /\ page'[w][i].is = fetched'[k]
                                      /\ page'[w][i].view[Generation] <= bound
      BY <2>3, <2>4, <3>2, <3>6, <3>7, Zenon
    <3> QED  BY <3>3, <3>8, Zenon DEF Fetched
  <2> QED  BY <1>1, <2>1, <2>2, <2>3, <2>4, <2>5 DEF Reading, Parts
<1> QED  BY <1>2, <1>3, Zenon

FieldNames == {"resource", "before", "soft", "hard", "held", "done"}

\* A load fetches a store of the word, no older than the view.
LEMMA LoadFacts ==
    ASSUME Typed, NEW w \in Words, NEW i \in Visible(w),
           NEW name \in {"before", "soft", "hard"}, Load(w, i, name)
    PROVE  /\ i \in 1..Len(page[w]) /\ i >= view[w]
           /\ page[w][i] \in Stores
           /\ fetched'[name] = page[w][i].is
           /\ \A other \in FieldNames : other # name => fetched'[other] = fetched[other]
           /\ fetched' \in [resource : Resources \cup {None}, before : Nat, soft : Nat,
                            hard : Nat, held : Nat, done : BOOLEAN]
           /\ view' \in View /\ \A v \in Words : v # w => view'[v] = view[v]
           /\ heard' \in View
           /\ \A v \in Words : heard'[v] >= heard[v] /\ heard'[v] >= page[w][i].view[v]
<1>1. view[w] \in Nat \ {0} /\ Len(page[w]) \in Nat  BY DEF Typed, View
<1>2. i \in Nat /\ i >= view[w] /\ i \in 1..Len(page[w])  BY <1>1 DEF Visible
<1>3. page[w][i] \in Stores  BY <1>2 DEF Typed
<1>4. page[w][i].view \in View /\ page[w][i].is \in Nat  BY <1>3, Zenon DEF Stores
<1>5. heard' \in View
      /\ \A v \in Words : heard'[v] >= heard[v] /\ heard'[v] >= page[w][i].view[v]
  BY <1>4, JoinFacts, Zenon DEF Load, Typed
<1>6. view' \in View /\ \A v \in Words : v # w => view'[v] = view[v]
  BY <1>1, <1>2 DEF Load, Typed, View
<1>7. /\ fetched' \in [resource : Resources \cup {None}, before : Nat, soft : Nat,
                       hard : Nat, held : Nat, done : BOOLEAN]
      /\ fetched'[name] = page[w][i].is
  <2>1. CASE name = "before"  BY <1>4, <2>1, Zenon DEF Load, Typed
  <2>2. CASE name = "soft"  BY <1>4, <2>2, Zenon DEF Load, Typed
  <2>3. CASE name = "hard"  BY <1>4, <2>3, Zenon DEF Load, Typed
  <2> QED  BY <2>1, <2>2, <2>3, Zenon
<1>8. \A other \in FieldNames : other # name => fetched'[other] = fetched[other]
  BY Zenon DEF Load, Typed, FieldNames
<1> QED  BY <1>2, <1>3, <1>5, <1>6, <1>7, <1>8, Zenon

\* A holder of POLICY outside the read knows nothing yet.
LEMMA ReadingNothing ==
    ASSUME ~HolderAt(ReadPlaces)' PROVE Reading'
  BY Zenon DEF Reading, HolderAt, ReadPlaces

\* A step of the holder within the read: only its place and what it fetched change.
ReadStep(t, from, to) ==
    /\ t \in Threads /\ POLICY = t /\ calls[t].at = from /\ from \in ReadPlaces \cup {"read"}
    /\ to \in ReadPlaces
    /\ calls' = [calls EXCEPT ![t].at = to]
    /\ fetched' \in [resource : Resources \cup {None}, before : Nat, soft : Nat, hard : Nat,
                     held : Nat, done : BOOLEAN]
    /\ fetched'.resource = fetched.resource /\ fetched'.done = fetched.done
    /\ view' \in View /\ heard' \in View
    /\ UNCHANGED <<page, decided, publishers, POLICY, mapping, child>>

LEMMA ReadStepKeeps ==
    ASSUME Constants, Typed, Mapped, NEW t, NEW from, NEW to, ReadStep(t, from, to)
    PROVE  /\ Typed' /\ Mapped' /\ Result'
           /\ POLICY' = t /\ POLICY' # None /\ Place' = to /\ fetched.resource \in Resources
<1>1. calls \in [Threads -> [at : Places, call : CallKinds, resource : Resources \cup {None}]]
  BY Zenon DEF Typed
<1>2. t \in Threads /\ POLICY = t /\ POLICY' = t /\ t # None  BY Zenon DEF ReadStep, Constants
<1>3. calls'[t].at = to /\ calls'[t].call = calls[t].call
      /\ calls'[t].resource = calls[t].resource
      /\ \A s \in Threads : s # t => calls'[s] = calls[s]
  BY <1>1, <1>2, Zenon DEF ReadStep
<1>4. HolderAt(ReadPlaces \cup {"read"})  BY <1>2, Zenon DEF ReadStep, HolderAt, Place
<1>5. /\ mapping = "own" /\ fetched.resource \in Resources
      /\ calls[t].call = "read" /\ calls[t].resource = fetched.resource
      /\ ~fetched.done
  BY <1>2, <1>4, Zenon DEF Mapped
<1>6. Place' = to /\ to \in ReadPlaces  BY <1>2, <1>3, Zenon DEF Place, ReadStep
<1>7. Typed'
  <2>1. to \in Places  BY <1>6, Zenon DEF Places
  <2>2. calls' \in [Threads -> [at : Places, call : CallKinds, resource : Resources \cup {None}]]
    BY <1>1, <1>2, <2>1, ZenonT(60) DEF ReadStep
  <2> QED  BY <2>2, Zenon DEF Typed, ReadStep
<1>8. Mapped'
  <2>1. \A s \in Threads : calls'[s].at = "lock" => s # t
    BY <1>3, <1>6, Zenon DEF ReadPlaces
  <2>2. mapping' = mapping /\ fetched'.resource = fetched.resource /\ fetched'.done = fetched.done
    BY Zenon DEF ReadStep
  <2>3. to \notin {"reset", "record_locks", "open", "return", "lock", "gone"}
    BY <1>6, Zenon DEF ReadPlaces
  <2>4. \A s \in Threads : calls[s].at = "lock" =>
          /\ calls[s].call # "none"
          /\ calls[s].call = "read" => calls[s].resource \in Resources
    BY Zenon DEF Mapped
  <2>5. \A s \in Threads : s # t => calls[s].at \in {"return", "lock", "gone"}
    BY <1>2, Zenon DEF Mapped
  <2> QED  BY <1>2, <1>3, <1>5, <1>6, <2>1, <2>2, <2>3, <2>4, <2>5 DEF Mapped, HolderAt
<1>9. Result'  BY <1>5, Zenon DEF Result, ReadStep
<1> QED  BY <1>2, <1>5, <1>6, <1>7, <1>8, <1>9, Zenon

-----------------------------------------------------------------------------
\* The steps of a read that keep the lock.

LEMMA BeforeStep ==
    ASSUME Constants, Typed, Published, Mapped, NEW t \in Threads,
           At(t, "read"), NEW i \in Visible(Generation), page[Generation][i].is % 2 = 0,
           Load(Generation, i, "before"), Goto(t, "fence"),
           UNCHANGED <<page, decided, publishers, POLICY, mapping, child>>
    PROVE  Typed' /\ Reading' /\ Mapped' /\ Result'
<1>1. /\ i \in 1..Last
      /\ fetched'.before = page[Generation][i].is
      /\ fetched'.resource = fetched.resource /\ fetched'.done = fetched.done
      /\ \A v \in Words : heard'[v] >= page[Generation][i].view[v]
  BY LoadFacts, WordFacts, Zenon DEF Last, FieldNames
<1>2. ReadStep(t, "read", "fence")
  BY <1>1, LoadFacts, WordFacts, Zenon DEF ReadStep, At, Goto, ReadPlaces
<1>3. /\ Typed' /\ Mapped' /\ Result'
      /\ Place' = "fence" /\ fetched.resource \in Resources
  BY <1>2, ReadStepKeeps, Zenon
<1>4. page[Generation][i].is = i - 1 /\ Last \in Nat
  <2>1. page[Generation] \in Seq(Stores)  BY WordFacts, Zenon DEF Typed
  <2>2. Last \in Nat  BY <2>1 DEF Last
  <2> QED  BY <1>1, <2>2, Zenon DEF Published, Numbered
<1>5. fetched'.before % 2 = 0 /\ fetched'.before < Last' /\ fetched'.before + 1 = i
  BY <1>1, <1>4 DEF Last
<1>6. ASSUME NEW k \in Parts PROVE heard'[<<fetched'.resource, k>>] >= Base(k)'
  BY <1>1, <1>3, <1>5, WordFacts, Zenon DEF Base
<1> QED  BY <1>3, <1>5, <1>6, Zenon DEF Reading, HolderAt

LEMMA FenceStep ==
    ASSUME Constants, Typed, Published, Mapped, Reading, NEW t \in Threads, read_fence(t),
           UNCHANGED <<page, decided, publishers>>
    PROVE  Typed' /\ Reading' /\ Mapped' /\ Result'
<1>1. /\ view' \in View
      /\ \A v \in Words : view'[v] >= view[v] /\ view'[v] >= heard[v]
  BY JoinFacts, Zenon DEF read_fence, Acquire, Typed
<1>2. ReadStep(t, "fence", "soft")
  BY <1>1, Zenon DEF ReadStep, read_fence, Acquire, At, Goto, ReadPlaces, Typed
<1>3. /\ Typed' /\ Mapped' /\ Result'
      /\ Place' = "soft" /\ fetched.resource \in Resources
  BY <1>2, ReadStepKeeps, Zenon
<1>4. HolderAt({"fence"}) /\ HolderAt(ReadPlaces)
  BY Zenon DEF read_fence, At, HolderAt, Place, Constants, ReadPlaces
<1>5. fetched' = fetched /\ page' = page  BY Zenon DEF read_fence, Acquire
<1>6. fetched'.before % 2 = 0 /\ fetched'.before < Last'
  BY <1>4, <1>5, Zenon DEF Reading, Last
<1>7. ASSUME NEW k \in Parts PROVE view'[<<fetched'.resource, k>>] >= Base(k)'
  <2>1. heard[<<fetched.resource, k>>] >= Base(k)  BY <1>4, Zenon DEF Reading
  <2>2. Base(k)' = Base(k)  BY <1>5, Zenon DEF Base
  <2>3. <<fetched.resource, k>> \in Words  BY <1>3, WordFacts, Zenon
  <2>4. view'[<<fetched.resource, k>>] >= heard[<<fetched.resource, k>>]  BY <1>1, <2>3, Zenon
  <2>5. Base(k) \in Nat
    <3>1. fetched.before + 1 \in 1..Last
      BY <1>4, WordFacts DEF Reading, Typed, Last
    <3>2. page[Generation][fetched.before + 1] \in Stores
      BY <3>1, WordFacts DEF Typed, Last
    <3> QED  BY <2>3, <3>2, Zenon DEF Base, Stores, View
  <2>6. view'[<<fetched.resource, k>>] \in Nat /\ heard[<<fetched.resource, k>>] \in Nat
    BY <1>1, <2>3, Zenon DEF Typed, View
  <2> QED  BY <1>5, <2>1, <2>2, <2>4, <2>5, <2>6
<1> QED  BY <1>3, <1>6, <1>7, Zenon DEF Reading, HolderAt, Parts

LEMMA SoftStep ==
    ASSUME Constants, Typed, Published, Mapped, Reading, NEW t \in Threads, read_soft(t),
           UNCHANGED <<page, decided, publishers>>
    PROVE  Typed' /\ Reading' /\ Mapped' /\ Result'
<1> DEFINE w == <<fetched.resource, "soft">>
<1>1. HolderAt({"soft"}) /\ HolderAt({"soft", "hard"}) /\ HolderAt(ReadPlaces)
      /\ HolderAt(ReadPlaces \cup {"read"})
  BY Zenon DEF read_soft, At, HolderAt, Place, Constants, ReadPlaces
<1>2. fetched.resource \in Resources /\ w \in Words /\ Soft(fetched.resource) = w
      /\ <<fetched.resource, "hard">> \in Words /\ <<fetched.resource, "hard">> # w
  BY <1>1, WordFacts, Zenon DEF Mapped, Parts
<1>3. PICK i \in Visible(w) : Load(w, i, "soft")  BY <1>2, Zenon DEF read_soft
<1> HIDE DEF w
<1>4. /\ i \in 1..Len(page[w]) /\ i >= view[w] /\ page[w][i] \in Stores
      /\ fetched'.soft = page[w][i].is
      /\ fetched'.resource = fetched.resource /\ fetched'.done = fetched.done
      /\ fetched'.before = fetched.before
      /\ view'[<<fetched.resource, "hard">>] = view[<<fetched.resource, "hard">>]
      /\ heard'[Generation] >= page[w][i].view[Generation]
  BY <1>2, <1>3, LoadFacts, WordFacts, Zenon DEF FieldNames
<1>5. ReadStep(t, "soft", "hard")
  BY <1>2, <1>3, <1>4, LoadFacts, Zenon DEF ReadStep, read_soft, At, Goto, ReadPlaces
<1>6. Typed' /\ Mapped' /\ Result' /\ Place' = "hard"
  BY <1>5, ReadStepKeeps, Zenon
<1>7. fetched'.before % 2 = 0 /\ fetched'.before < Last'
  BY <1>1, <1>4, Zenon DEF Reading, Last
<1>8. Base("soft")' = Base("soft") /\ Base("hard")' = Base("hard")  BY <1>4, Zenon DEF Base
<1>9. view'[<<fetched'.resource, "hard">>] >= Base("hard")'
  BY <1>1, <1>4, <1>8, Zenon DEF Reading
<1>10. Fetched("soft", heard[Generation])'
  <2>1. view[w] >= Base("soft")  BY <1>1, Zenon DEF Reading, w
  <2>2. Base("soft") \in Nat /\ view[w] \in Nat /\ i \in Nat
    <3>1. fetched.before + 1 \in 1..Last
      BY <1>1, WordFacts DEF Reading, Typed, Last
    <3>2. page[Generation][fetched.before + 1] \in Stores
      BY <3>1, WordFacts DEF Typed, Last
    <3>3. Base("soft") \in Nat  BY <1>2, <3>2, Zenon DEF Base, Stores, View, w
    <3> QED  BY <1>2, <1>4, <3>3 DEF Typed, View
  <2>3. i >= Base("soft")'  BY <1>4, <1>8, <2>1, <2>2
  <2>4. <<fetched'.resource, "soft">> = w  BY <1>4, Zenon DEF w
  <2> QED  BY <1>4, <2>3, <2>4, Zenon DEF Fetched
<1> QED  BY <1>6, <1>7, <1>9, <1>10, Zenon DEF Reading, HolderAt

LEMMA CarriesGeneration ==
    ASSUME Typed, NEW w \in Words, NEW j \in 1..Len(page[w])
    PROVE  page[w][j].view[Generation] \in Nat
<1>1. page[w][j] \in Stores  BY DEF Typed
<1> QED  BY <1>1, WordFacts, Zenon DEF Stores, View

LEMMA HardStep ==
    ASSUME Constants, Typed, Published, Mapped, Reading, NEW t \in Threads, read_hard(t),
           UNCHANGED <<page, decided, publishers>>
    PROVE  Typed' /\ Reading' /\ Mapped' /\ Result'
<1> DEFINE w == <<fetched.resource, "hard">>
<1>1. HolderAt({"hard", "refence"}) /\ HolderAt({"soft", "hard"}) /\ HolderAt(ReadPlaces)
      /\ HolderAt(ReadPlaces \cup {"read"})
  BY Zenon DEF read_hard, At, HolderAt, Place, Constants, ReadPlaces
<1>2. fetched.resource \in Resources /\ w \in Words /\ Hard(fetched.resource) = w
      /\ <<fetched.resource, "soft">> \in Words
  BY <1>1, WordFacts, Zenon DEF Mapped, Parts
<1>3. PICK i \in Visible(w) : Load(w, i, "hard")  BY <1>2, Zenon DEF read_hard
<1> HIDE DEF w
<1>4. /\ i \in 1..Len(page[w]) /\ i >= view[w] /\ page[w][i] \in Stores
      /\ fetched'.hard = page[w][i].is /\ fetched'.soft = fetched.soft
      /\ fetched'.resource = fetched.resource /\ fetched'.done = fetched.done
      /\ fetched'.before = fetched.before
      /\ heard'[Generation] >= page[w][i].view[Generation]
      /\ heard'[Generation] >= heard[Generation] /\ heard' \in View
  BY <1>2, <1>3, LoadFacts, WordFacts, Zenon DEF FieldNames
<1>5. ReadStep(t, "hard", "refence")
  BY <1>2, <1>3, <1>4, LoadFacts, Zenon DEF ReadStep, read_hard, At, Goto, ReadPlaces
<1>6. Typed' /\ Mapped' /\ Result' /\ Place' = "refence"
  BY <1>5, ReadStepKeeps, Zenon
<1>7. fetched'.before % 2 = 0 /\ fetched'.before < Last'
  BY <1>1, <1>4, Zenon DEF Reading, Last
<1>8. Base("soft")' = Base("soft") /\ Base("hard")' = Base("hard")  BY <1>4, Zenon DEF Base
<1>9. Fetched("hard", heard[Generation])'
  <2>1. view[w] >= Base("hard")  BY <1>1, Zenon DEF Reading, w
  <2>2. Base("hard") \in Nat /\ view[w] \in Nat /\ i \in Nat
    <3>1. fetched.before + 1 \in 1..Last
      BY <1>1, WordFacts DEF Reading, Typed, Last
    <3>2. page[Generation][fetched.before + 1] \in Stores
      BY <3>1, WordFacts DEF Typed, Last
    <3>3. Base("hard") \in Nat  BY <1>2, <3>2, Zenon DEF Base, Stores, View, w
    <3> QED  BY <1>2, <1>4, <3>3 DEF Typed, View
  <2>3. i >= Base("hard")'  BY <1>4, <1>8, <2>1, <2>2
  <2>4. <<fetched'.resource, "hard">> = w  BY <1>4, Zenon DEF w
  <2> QED  BY <1>4, <2>3, <2>4, Zenon DEF Fetched
<1>10. Fetched("soft", heard[Generation])'
  <2> DEFINE v == <<fetched.resource, "soft">>
  <2>1. Fetched("soft", heard[Generation])  BY <1>1, Zenon DEF Reading
  <2>2. PICK j \in 1..Len(page[v]) :
          /\ j >= Base("soft") /\ page[v][j].is = fetched.soft
          /\ page[v][j].view[Generation] <= heard[Generation]
    BY <2>1, Zenon DEF Fetched
  <2>3. page[v][j].view[Generation] \in Nat /\ heard[Generation] \in Nat
        /\ heard'[Generation] \in Nat
    <3>1. heard[Generation] \in Nat /\ heard'[Generation] \in Nat
      BY <1>4, WordFacts, Zenon DEF Typed, View
    <3> QED  BY <1>2, <3>1, CarriesGeneration, Zenon
  <2>4. page[v][j].view[Generation] <= heard'[Generation]
    <3>1. heard[Generation] <= heard'[Generation] /\ page[v][j].view[Generation] <= heard[Generation]
      BY <1>4, <2>2, WordFacts
    <3> QED  BY <2>3, <3>1
  <2> QED  BY <1>4, <1>8, <2>2, <2>4, Zenon DEF Fetched
<1> QED  BY <1>6, <1>7, <1>9, <1>10, Zenon DEF Reading, HolderAt

LEMMA RefenceStep ==
    ASSUME Constants, Typed, Published, Mapped, Reading, NEW t \in Threads, read_refence(t),
           UNCHANGED <<page, decided, publishers>>
    PROVE  Typed' /\ Reading' /\ Mapped' /\ Result'
<1>1. /\ view' \in View
      /\ \A v \in Words : view'[v] >= heard[v]
  BY JoinFacts, Zenon DEF read_refence, Acquire, Typed
<1>2. ReadStep(t, "refence", "after")
  BY <1>1, Zenon DEF ReadStep, read_refence, Acquire, At, Goto, ReadPlaces, Typed
<1>3. /\ Typed' /\ Mapped' /\ Result'
      /\ Place' = "after" /\ fetched.resource \in Resources
  BY <1>2, ReadStepKeeps, Zenon
<1>4. HolderAt({"refence"}) /\ HolderAt({"hard", "refence"}) /\ HolderAt(ReadPlaces)
  BY Zenon DEF read_refence, At, HolderAt, Place, Constants, ReadPlaces
<1>5. fetched' = fetched /\ page' = page  BY Zenon DEF read_refence, Acquire
<1>6. fetched'.before % 2 = 0 /\ fetched'.before < Last'
  BY <1>4, <1>5, Zenon DEF Reading, Last
<1>7. ASSUME NEW k \in Parts PROVE Fetched(k, view[Generation])'
  <2> DEFINE v == <<fetched.resource, k>>
  <2>1. Fetched(k, heard[Generation])  BY <1>4, Zenon DEF Reading, Parts
  <2>2. PICK j \in 1..Len(page[v]) :
          /\ j >= Base(k) /\ page[v][j].is = fetched[k]
          /\ page[v][j].view[Generation] <= heard[Generation]
    BY <2>1, Zenon DEF Fetched
  <2>3. v \in Words  BY <1>3, WordFacts, Zenon
  <2>4. page[v][j].view[Generation] \in Nat /\ heard[Generation] \in Nat
        /\ view'[Generation] \in Nat /\ view'[Generation] >= heard[Generation]
    <3>1. heard[Generation] \in Nat /\ view'[Generation] \in Nat
      BY <1>1, WordFacts, Zenon DEF Typed, View
    <3> QED  BY <1>1, <2>3, <3>1, CarriesGeneration, WordFacts, Zenon
  <2>5. page[v][j].view[Generation] <= view'[Generation]  BY <2>2, <2>4
  <2>6. Base(k)' = Base(k)  BY <1>5, Zenon DEF Base
  <2> QED  BY <1>5, <2>2, <2>5, <2>6, Zenon DEF Fetched
<1> QED  BY <1>3, <1>6, <1>7, Zenon DEF Reading, HolderAt

\* What a read that finds its generation unchanged has fetched was decided together.
LEMMA WhatIsFetchedWasDecided ==
    ASSUME Constants, Typed, Published, Mapped, Reading, HolderAt({"after"}),
           NEW i \in Visible(Generation), page[Generation][i].is = fetched.before
    PROVE  /\ mapping = "own" /\ fetched.resource \in Resources
           /\ fetched.before \div 2 + 1 <= Len(decided)
           /\ [soft |-> fetched.soft, hard |-> fetched.hard]
                 = decided[fetched.before \div 2 + 1][fetched.resource]
<1>1. /\ fetched.before % 2 = 0 /\ fetched.before < Last /\ fetched.before \in Nat
      /\ mapping = "own" /\ fetched.resource \in Resources
  <2>1. HolderAt(ReadPlaces) /\ HolderAt(ReadPlaces \cup {"read"})
    BY Zenon DEF HolderAt, ReadPlaces
  <2> QED  BY <2>1, Zenon DEF Reading, Mapped, Typed
<1>2. view[Generation] \in Nat \ {0} /\ Last \in Nat  BY WordFacts DEF Typed, View, Last
<1>3. i \in 1..Last /\ i >= view[Generation]  BY <1>2 DEF Visible, Last
<1>4. i = fetched.before + 1 /\ i % 2 = 1 /\ (i + 1) \div 2 = fetched.before \div 2 + 1
  <2>1. page[Generation][i].is = i - 1  BY <1>3, Zenon DEF Published, Numbered
  <2> QED  BY <1>1, <1>2, <1>3, <2>1
<1>5. (i + 1) \div 2 <= Len(decided)  BY <1>2, <1>3 DEF Published, Numbered
<1>6. ASSUME NEW k \in Parts
      PROVE  fetched[k] = decided[(i + 1) \div 2][fetched.resource][k]
  <2> DEFINE w == <<fetched.resource, k>>
  <2>1. PICK j \in 1..Len(page[w]) :
          /\ j >= Base(k) /\ page[w][j].is = fetched[k]
          /\ page[w][j].view[Generation] <= view[Generation]
    BY Zenon DEF Reading, Fetched
  <2>2. w \in Words /\ Len(page[w]) \in Nat  BY <1>1, WordFacts DEF Typed
  <2>3. page[w][j].view[Generation] \in Nat  BY <2>2, CarriesGeneration, Zenon
  <2>4. Base(k) = page[Generation][i].view[w]  BY <1>4, Zenon DEF Base
  <2>5. /\ Base(k) \in 1..Len(page[w])
        /\ page[w][Base(k)].is = decided[(i + 1) \div 2][fetched.resource][k]
    BY <1>1, <1>3, <1>4, <2>4, ZenonT(60) DEF Published, Covers
  <2>6. ~(page[w][j].view[Generation] > i)  BY <1>2, <1>3, <2>1, <2>3
  <2>7. ~(j > Base(k))  BY <1>1, <1>3, <1>4, <2>1, <2>4, <2>6, Zenon DEF Published, Later
  <2>8. j = Base(k)  BY <2>1, <2>2, <2>5, <2>7
  <2> QED  BY <2>1, <2>5, <2>8, Zenon
<1>7. decided[(i + 1) \div 2][fetched.resource] \in Limit
  <2>1. (i + 1) \div 2 \in Nat /\ (i + 1) \div 2 >= 1 /\ Len(decided) \in Nat
    <3>1. i \in Nat /\ i >= 1  BY <1>2, <1>3
    <3>2. (i + 1) \div 2 \in Nat /\ (i + 1) \div 2 >= 1  BY <3>1
    <3>3. Len(decided) \in Nat  BY DEF Typed
    <3> QED  BY <3>2, <3>3, Zenon
  <2>2. (i + 1) \div 2 \in 1..Len(decided)  BY <1>5, <2>1
  <2> QED  BY <1>1, <2>2 DEF Typed
<1> QED  BY <1>1, <1>4, <1>5, <1>6, <1>7, Zenon DEF Limit, Parts

-----------------------------------------------------------------------------
\* The steps that leave the lock.

FetchedType == [resource : Resources \cup {None}, before : Nat, soft : Nat, hard : Nat,
                held : Nat, done : BOOLEAN]

LEMMA LeaveStep ==
    ASSUME Constants, Typed, Mapped, NEW t \in Threads, POLICY = t,
           NEW place \in {"return", "lock"}, NEW result \in FetchedType, Leave(t, place, result),
           place = "lock" => calls[t].call = "read" /\ calls[t].resource \in Resources,
           mapping' \in {"none", "own"},
           UNCHANGED <<page, decided, publishers, child>>
    PROVE  Typed' /\ Reading' /\ Mapped'
<1> DEFINE Call == [at : Places, call : CallKinds, resource : Resources \cup {None}]
           new == IF place = "return" THEN Resting ELSE [calls[t] EXCEPT !.at = place]
<1>1. POLICY' = None /\ fetched' = result /\ view' = Oldest /\ heard' = Oldest
      /\ calls' = [calls EXCEPT ![t] = new]
  BY Zenon DEF Leave
<1>2. /\ new \in Call /\ new.at = place
      /\ place = "lock" => new.call = "read" /\ new.resource \in Resources
  <2>1. calls[t] \in Call  BY Zenon DEF Typed
  <2>2. CASE place = "return"  BY <2>2, Zenon DEF Resting, Places, CallKinds
  <2>3. CASE place = "lock"  BY <2>1, <2>3, Zenon DEF Places, CallKinds
  <2> QED  BY <2>2, <2>3, Zenon
<1> HIDE DEF new
<1>3. Typed'
  <2>1. calls' \in [Threads -> Call]
    <3> HIDE DEF Call
    <3>1. calls \in [Threads -> Call]  BY Zenon DEF Typed, Call
    <3> QED  BY <1>1, <1>2, <3>1, Zenon
  <2>2. Oldest \in View  BY DEF Oldest, View
  <2> QED  BY <1>1, <2>1, <2>2, Zenon DEF Typed, FetchedType
<1>4. Reading'
  BY <1>1, ReadingNothing, Zenon DEF HolderAt
<1>5. Mapped'
  <2>1. ASSUME NEW s \in Threads PROVE calls'[s] = IF s = t THEN new ELSE calls[s]
    BY <1>1, Zenon DEF Typed
  <2>2. ~HolderAt({"reset"})' /\ ~HolderAt(ReadPlaces \cup {"read"})'
        /\ ~HolderAt({"record_locks"})' /\ ~HolderAt({"open"})'
    BY <1>1, Zenon DEF HolderAt
  <2>3. ASSUME NEW s \in Threads, calls'[s].at = "lock"
        PROVE  calls'[s].call # "none"
               /\ (calls'[s].call = "read" => calls'[s].resource \in Resources)
    <3>1. CASE s = t  BY <1>2, <2>1, <2>3, <3>1, Zenon
    <3>2. CASE s # t  BY <2>1, <2>3, <3>2, Zenon DEF Mapped
    <3> QED  BY <3>1, <3>2, Zenon
  <2>4. ASSUME NEW s \in Threads PROVE calls'[s].at \in {"return", "lock", "gone"}
    <3>1. CASE s = t  BY <1>2, <2>1, <3>1, Zenon
    <3>2. CASE s # t  BY <2>1, <3>2, Zenon DEF Mapped
    <3> QED  BY <3>1, <3>2, Zenon
  <2> QED  BY <1>1, <2>2, <2>3, <2>4, Zenon DEF Mapped
<1> QED  BY <1>3, <1>4, <1>5, Zenon

\* An attempt given up leaves nothing fetched.
LEMMA NothingFetched ==
    ASSUME fetched'.done = FALSE PROVE Result'
  BY Zenon DEF Result

LEMMA BusyStep ==
    ASSUME Constants, Typed, Mapped, NEW t \in Threads, POLICY = t,
           calls[t].at \in ReadPlaces \cup {"read"}, Busy(t),
           UNCHANGED <<page, decided, publishers, mapping, child>>
    PROVE  Typed' /\ Reading' /\ Mapped' /\ Result'
<1>1. HolderAt(ReadPlaces \cup {"read"})  BY Zenon DEF HolderAt, Place, Constants
<1>2. /\ calls[t].call = "read" /\ calls[t].resource \in Resources /\ mapping' \in {"none", "own"}
  BY <1>1, Zenon DEF Mapped
<1>3. PICK place \in {"lock", "return"} : Leave(t, place, Nothing)  BY Zenon DEF Busy
<1>4. Nothing \in FetchedType /\ Nothing.done = FALSE  BY Zenon DEF Nothing, FetchedType
<1>5. Typed' /\ Reading' /\ Mapped'  BY <1>2, <1>3, <1>4, LeaveStep, Zenon
<1>6. fetched'.done = FALSE  BY <1>3, <1>4, Zenon DEF Leave
<1> QED  BY <1>5, <1>6, NothingFetched, Zenon

LEMMA AfterStep ==
    ASSUME Constants, Typed, Published, Mapped, Reading, NEW t \in Threads, read_after(t),
           UNCHANGED <<page, decided, publishers>>
    PROVE  Typed' /\ Reading' /\ Mapped' /\ Result'
<1>1. HolderAt({"after"}) /\ POLICY = t /\ calls[t].at = "after"
      /\ HolderAt(ReadPlaces \cup {"read"})
  BY Zenon DEF read_after, At, HolderAt, Place, Constants, ReadPlaces
<1>2. CASE Busy(t)
  BY <1>1, <1>2, BusyStep, Zenon DEF read_after, ReadPlaces
<1>3. ASSUME NEW i \in Visible(Generation), page[Generation][i].is = fetched.before,
             Leave(t, "return", [fetched EXCEPT !.done = TRUE])
      PROVE  Typed' /\ Reading' /\ Mapped' /\ Result'
  <2> DEFINE result == [fetched EXCEPT !.done = TRUE]
  <2>1. /\ result \in FetchedType /\ result.before = fetched.before
        /\ result.soft = fetched.soft /\ result.hard = fetched.hard
        /\ result.resource = fetched.resource
    BY Zenon DEF Typed, FetchedType
  <2>2. fetched' = result  BY <1>3, Zenon DEF Leave
  <2>3. mapping' = mapping /\ decided' = decided  BY Zenon DEF read_after
  <2>4. mapping = "own" /\ fetched.resource \in Resources
        /\ fetched.before \div 2 + 1 <= Len(decided)
        /\ [soft |-> fetched.soft, hard |-> fetched.hard]
              = decided[fetched.before \div 2 + 1][fetched.resource]
    BY <1>1, <1>3, WhatIsFetchedWasDecided, Zenon
  <2> HIDE DEF result
  <2>5. Result'  BY <2>1, <2>2, <2>3, <2>4, Zenon DEF Result, NoTornLimits
  <2>6. Typed' /\ Reading' /\ Mapped'
    <3>1. child' = child  BY Zenon DEF read_after
    <3>2. Leave(t, "return", result)  BY <1>3, Zenon DEF result
    <3> QED  BY <1>1, <2>1, <2>3, <2>4, <3>1, <3>2, LeaveStep, Zenon
  <2> QED  BY <2>5, <2>6, Zenon
<1> QED  BY <1>2, <1>3, Zenon DEF read_after

LEMMA ReadSteps ==
    ASSUME Constants, Typed, Published, Mapped, Reading, NEW t \in Threads, read(t),
           UNCHANGED service
    PROVE  Typed' /\ Reading' /\ Mapped' /\ Result'
<1>1. page' = page /\ decided' = decided /\ publishers' = publishers  BY Zenon DEF service
<1>2. CASE read_before(t)
  <2>1. PICK i \in Visible(Generation) :
          IF page[Generation][i].is % 2 # 0
          THEN Busy(t)
          ELSE Load(Generation, i, "before") /\ Goto(t, "fence") /\ UNCHANGED POLICY
    BY <1>2, Zenon DEF read_before
  <2>2. At(t, "read") /\ mapping' = mapping /\ child' = child  BY <1>2, Zenon DEF read_before
  <2>3. CASE page[Generation][i].is % 2 # 0
    BY <1>1, <2>1, <2>2, <2>3, BusyStep, Zenon DEF At
  <2>4. CASE page[Generation][i].is % 2 = 0
    BY <1>1, <2>1, <2>2, <2>4, BeforeStep, Zenon
  <2> QED  BY <2>3, <2>4, Zenon
<1>3. CASE read_fence(t)  BY <1>1, <1>3, FenceStep, Zenon
<1>4. CASE read_soft(t)  BY <1>1, <1>4, SoftStep, Zenon
<1>5. CASE read_hard(t)  BY <1>1, <1>5, HardStep, Zenon
<1>6. CASE read_refence(t)  BY <1>1, <1>6, RefenceStep, Zenon
<1>7. CASE read_after(t)  BY <1>1, <1>7, AfterStep, Zenon
<1> QED  BY <1>2, <1>3, <1>4, <1>5, <1>6, <1>7, Zenon DEF read

-----------------------------------------------------------------------------
\* The other steps of the process.

LEMMA CallStep ==
    ASSUME Constants, Typed, Mapped, Reading, Result, NEW t \in Threads,
           NEW what \in CallKinds \ {"none"}, NEW r \in Resources \cup {None},
           what = "read" => r \in Resources, call(t, what, r), UNCHANGED service
    PROVE  Typed' /\ Reading' /\ Mapped' /\ Result'
<1> DEFINE Call == [at : Places, call : CallKinds, resource : Resources \cup {None}]
           new == [at |-> "lock", call |-> what, resource |-> r]
<1>1. /\ calls[t].at = "return" /\ calls' = [calls EXCEPT ![t] = new]
      /\ UNCHANGED <<page, decided, publishers, POLICY, mapping, fetched, view, heard, child>>
  BY Zenon DEF call, service, memory
<1>2. new \in Call /\ new.at = "lock" /\ new.call # "none"
      /\ (new.call = "read" => new.resource \in Resources)
  BY Zenon DEF Places, CallKinds
<1> HIDE DEF new
<1>3. POLICY # t  BY <1>1, Zenon DEF Mapped, Place, Constants
<1>4. ASSUME NEW s \in Threads PROVE calls'[s] = IF s = t THEN new ELSE calls[s]
  BY <1>1, Zenon DEF Typed
<1>5. Typed'
  <2>1. calls' \in [Threads -> Call]
    <3> HIDE DEF Call
    <3>1. calls \in [Threads -> Call]  BY Zenon DEF Typed, Call
    <3> QED  BY <1>1, <1>2, <3>1, Zenon
  <2> QED  BY <1>1, <2>1, Zenon DEF Typed
<1>6. POLICY # None => calls'[POLICY] = calls[POLICY]  BY <1>3, <1>4, Zenon DEF Typed
<1>7. \A places : HolderAt(places)' <=> HolderAt(places)  BY <1>1, <1>6, Zenon DEF HolderAt, Place
<1>8. Reading'
  <2>1. \A k \in Parts : Base(k)' = Base(k)  BY <1>1, Zenon DEF Base
  <2>2. \A k \in Parts : /\ Fetched(k, heard[Generation])' <=> Fetched(k, heard[Generation])
                         /\ Fetched(k, view[Generation])' <=> Fetched(k, view[Generation])
    BY <1>1, <2>1, Zenon DEF Fetched
  <2>3. "soft" \in Parts /\ "hard" \in Parts  BY Zenon DEF Parts
  <2> QED  BY <1>1, <1>7, <2>1, <2>2, <2>3, Zenon DEF Reading, Last
<1>9. Mapped'
  <2>1. ASSUME NEW s \in Threads, calls'[s].at = "lock"
        PROVE  calls'[s].call # "none"
               /\ (calls'[s].call = "read" => calls'[s].resource \in Resources)
    <3>1. CASE s = t  BY <1>2, <1>4, <2>1, <3>1, Zenon
    <3>2. CASE s # t  BY <1>4, <2>1, <3>2, Zenon DEF Mapped
    <3> QED  BY <3>1, <3>2, Zenon
  <2>2. ASSUME NEW s \in Threads, POLICY # s PROVE calls'[s].at \in {"return", "lock", "gone"}
    <3>1. CASE s = t  BY <1>2, <1>4, <2>2, <3>1, Zenon
    <3>2. CASE s # t  BY <1>4, <2>2, <3>2, Zenon DEF Mapped
    <3> QED  BY <3>1, <3>2, Zenon
  <2>3. \A places : HolderAt(places) => POLICY # None  BY Zenon DEF HolderAt
  <2>4. POLICY # None => Place' = Place  BY <1>1, <1>6, Zenon DEF Place
  <2> QED  BY <1>1, <1>6, <1>7, <2>1, <2>2, <2>3, <2>4, Zenon DEF Mapped
<1>10. Result'  BY <1>1, Zenon DEF Result, NoTornLimits
<1> QED  BY <1>5, <1>8, <1>9, <1>10, Zenon

\* The holder of POLICY goes to a place outside the brackets of the generation.
LEMMA HolderMoves ==
    ASSUME Constants, Typed, Mapped, NEW t \in Threads, POLICY \in {None, t},
           NEW place \in {"clone", "open", "read", "record_locks"},
           calls' = [calls EXCEPT ![t].at = place], POLICY' = t,
           fetched' \in FetchedType, fetched'.done = FALSE, view' \in View, heard' \in View,
           mapping' \in {"none", "own"},
           place \in {"read", "record_locks"} => mapping' = "own",
           place \in {"open", "read"} =>
               /\ calls[t].call \in {"read", "record_locks"}
               /\ calls[t].call = "read" => calls[t].resource \in Resources
                                            /\ fetched'.resource = calls[t].resource,
           place = "read" => calls[t].call = "read",
           UNCHANGED <<page, decided, publishers, child>>
    PROVE  Typed' /\ Reading' /\ Mapped' /\ Result'
<1> DEFINE Call == [at : Places, call : CallKinds, resource : Resources \cup {None}]
<1>1. calls \in [Threads -> Call]  BY Zenon DEF Typed
<1>2. /\ calls'[t].at = place /\ calls'[t].call = calls[t].call
      /\ calls'[t].resource = calls[t].resource
      /\ \A s \in Threads : s # t => calls'[s] = calls[s]
  BY <1>1, Zenon
<1>3. Typed'
  <2>1. place \in Places  BY Zenon DEF Places
  <2>2. calls' \in [Threads -> Call]  BY <1>1, <2>1, Zenon
  <2> QED  BY <2>2, Zenon DEF Typed, FetchedType
<1>4. Place' = place /\ t # None  BY <1>2, Zenon DEF Place, Constants
<1>5. Reading'  BY <1>4, ReadingNothing, Zenon DEF HolderAt, ReadPlaces
<1>6. Mapped'
  <2>1. /\ HolderAt(ReadPlaces \cup {"read"})' <=> place = "read"
        /\ HolderAt({"record_locks"})' <=> place = "record_locks"
        /\ HolderAt({"open"})' <=> place = "open"
    BY <1>4, Zenon DEF HolderAt, ReadPlaces
  <2>2. ASSUME NEW s \in Threads, calls'[s].at = "lock"
        PROVE  calls'[s].call # "none"
               /\ (calls'[s].call = "read" => calls'[s].resource \in Resources)
    <3>1. s # t  BY <1>2, <2>2, Zenon
    <3> QED  BY <1>2, <2>2, <3>1 DEF Mapped
  <2>3. ASSUME NEW s \in Threads, t # s PROVE calls'[s].at \in {"return", "lock", "gone"}
    <3>1. POLICY # s  BY <2>3, Zenon DEF Constants
    <3> QED  BY <1>2, <2>3, <3>1, Zenon DEF Mapped
  <2> QED  BY <1>2, <1>4, <2>1, <2>2, <2>3, Zenon DEF Mapped
<1>7. Result'  BY NothingFetched, Zenon
<1> QED  BY <1>3, <1>5, <1>6, <1>7, Zenon

LEMMA LockStep ==
    ASSUME Constants, Typed, Mapped, NEW t \in Threads, lock(t), UNCHANGED service
    PROVE  Typed' /\ Reading' /\ Mapped' /\ Result'
<1> DEFINE place == IF calls[t].call = "fork" THEN "clone"
                    ELSE IF mapping = "none" THEN "open" ELSE calls[t].call
<1>1. /\ calls[t].at = "lock" /\ POLICY = None /\ POLICY' = t
      /\ calls' = [calls EXCEPT ![t].at = place]
      /\ fetched' = [Nothing EXCEPT !.resource = calls[t].resource]
      /\ UNCHANGED <<page, decided, publishers, mapping, view, heard, child>>
  BY Zenon DEF lock, Goto, service
<1>2. /\ calls[t].call \in CallKinds \ {"none"} /\ calls[t].resource \in Resources \cup {None}
      /\ calls[t].call = "read" => calls[t].resource \in Resources
  BY <1>1, Zenon DEF Mapped, Typed
<1>3. mapping \in {"none", "own"}  BY <1>1, Zenon DEF Mapped, HolderAt, Typed
<1>4. /\ place \in {"clone", "open", "read", "record_locks"}
      /\ place \in {"read", "record_locks"} => mapping = "own"
      /\ place \in {"open", "read"} => calls[t].call \in {"read", "record_locks"}
      /\ place = "read" => calls[t].call = "read"
  BY <1>2, <1>3, Zenon DEF CallKinds
<1>5. fetched' \in FetchedType /\ fetched'.done = FALSE
      /\ fetched'.resource = calls[t].resource
  BY <1>1, <1>2, Zenon DEF Nothing, FetchedType
<1>6. view' \in View /\ heard' \in View  BY <1>1, Zenon DEF Typed
<1> HIDE DEF place
<1> QED  BY <1>1, <1>2, <1>3, <1>4, <1>5, <1>6, HolderMoves, Zenon

LEMMA NothingTyped == Nothing \in FetchedType /\ Nothing.done = FALSE
  BY Zenon DEF Nothing, FetchedType

LEMMA OpenStep ==
    ASSUME Constants, Typed, Mapped, NEW t \in Threads, open(t), UNCHANGED service
    PROVE  Typed' /\ Reading' /\ Mapped' /\ Result'
<1>1. /\ POLICY = t /\ calls[t].at = "open" /\ HolderAt({"open"}) /\ ~HolderAt({"reset"})
      /\ UNCHANGED <<page, decided, publishers, child>>
  BY Zenon DEF open, At, HolderAt, Place, Constants, service
<1>2. /\ calls[t].call \in {"read", "record_locks"}
      /\ calls[t].call = "read" => fetched.resource \in Resources
                                   /\ calls[t].resource = fetched.resource
      /\ fetched.done = FALSE /\ mapping \in {"none", "own"}
  BY <1>1, Zenon DEF Mapped, Typed, HolderAt
<1>3. CASE mapping' = "own" /\ Goto(t, calls[t].call) /\ UNCHANGED <<POLICY, memory>>
  <2>1. /\ fetched' = fetched /\ view' = view /\ heard' = heard /\ POLICY' = t
        /\ calls' = [calls EXCEPT ![t].at = calls[t].call]
    BY <1>1, <1>3, Zenon DEF memory, Goto
  <2>2. fetched' \in FetchedType /\ view' \in View /\ heard' \in View
    BY <2>1, Zenon DEF Typed, FetchedType
  <2> QED  BY <1>1, <1>2, <1>3, <2>1, <2>2, HolderMoves, Zenon
<1>4. CASE Leave(t, "return", Nothing) /\ UNCHANGED mapping
  <2>1. Typed' /\ Reading' /\ Mapped'  BY <1>1, <1>2, <1>4, NothingTyped, LeaveStep, Zenon
  <2>2. fetched'.done = FALSE  BY <1>4, NothingTyped, Zenon DEF Leave
  <2> QED  BY <2>1, <2>2, NothingFetched, Zenon
<1> QED  BY <1>3, <1>4, Zenon DEF open

LEMMA LeavingSteps ==
    ASSUME Constants, Typed, Mapped, NEW t \in Threads, UNCHANGED service,
           read_record_locks(t) \/ resume_parent(t) \/ reset_child(t)
    PROVE  Typed' /\ Reading' /\ Mapped' /\ Result'
<1>1. POLICY = t /\ UNCHANGED <<page, decided, publishers, child>>
  BY Zenon DEF service, read_record_locks, resume_parent, reset_child, At
<1>2. mapping' \in {"none", "own"}
  <2>1. CASE reset_child(t)  BY <2>1, Zenon DEF reset_child
  <2>2. CASE read_record_locks(t) \/ resume_parent(t)
    <3>1. ~HolderAt({"reset"}) /\ mapping' = mapping
      BY <2>2, Zenon DEF read_record_locks, resume_parent, At, HolderAt, Place
    <3> QED  BY <3>1, Zenon DEF Mapped, Typed
  <2> QED  BY <2>1, <2>2, Zenon
<1>3. PICK result \in FetchedType : result.done = FALSE /\ Leave(t, "return", result)
  <2>1. CASE read_record_locks(t)
    <3>1. PICK i \in Visible(RecordLocks) :
            Leave(t, "return", [Nothing EXCEPT !.held = page[RecordLocks][i].is])
      BY <2>1, Zenon DEF read_record_locks
    <3>2. page[RecordLocks][i].is \in Nat
      <4>1. view[RecordLocks] \in Nat \ {0} /\ Len(page[RecordLocks]) \in Nat
        BY WordFacts DEF Typed, View
      <4>2. i \in 1..Len(page[RecordLocks])  BY <4>1 DEF Visible
      <4>3. page[RecordLocks][i] \in Stores  BY <4>2, WordFacts DEF Typed
      <4> QED  BY <4>3, Zenon DEF Stores
    <3>3. /\ [Nothing EXCEPT !.held = page[RecordLocks][i].is] \in FetchedType
          /\ [Nothing EXCEPT !.held = page[RecordLocks][i].is].done = FALSE
      BY <3>2, Zenon DEF Nothing, FetchedType
    <3> QED  BY <3>1, <3>3, Zenon
  <2>2. CASE resume_parent(t) \/ reset_child(t)
    BY <2>2, NothingTyped, Zenon DEF resume_parent, reset_child
  <2> QED  BY <2>1, <2>2, Zenon
<1>4. Typed' /\ Reading' /\ Mapped'  BY <1>1, <1>2, <1>3, LeaveStep, Zenon
<1>5. fetched'.done = FALSE  BY <1>3, Zenon DEF Leave
<1> QED  BY <1>4, <1>5, NothingFetched, Zenon

LEMMA ChildStep ==
    ASSUME Constants, Typed, Mapped, NEW t \in Threads, resume_child(t)
    PROVE  IInv'
<1>1. Fresh'
  <2>1. InForce \in [Resources -> Limit]  BY DEF Typed, InForce
  <2>2. page' = New(InForce) /\ decided' = <<InForce>>
        /\ publishers' = [p \in Publishers |-> Idle]
    BY Zenon DEF resume_child
  <2> QED  BY <2>1, <2>2, Zenon DEF Fresh, New
<1>2. Published' /\ ServiceTyped'  BY <1>1, FreshIsPublishedNext, Zenon
<1>3. /\ POLICY = t /\ t # None /\ POLICY' = t /\ fetched' = fetched /\ view' = view
      /\ heard' = heard /\ child' = TRUE
      /\ mapping' = IF mapping = "own" THEN "parents" ELSE mapping
      /\ calls' = [s \in Threads |-> [Resting EXCEPT !.at = IF s = t THEN "reset" ELSE "gone"]]
  BY Zenon DEF resume_child, memory, At, Constants
<1>4. \A s \in Threads :
        /\ calls'[s] \in [at : Places, call : CallKinds, resource : Resources \cup {None}]
        /\ calls'[s].at = IF s = t THEN "reset" ELSE "gone"
  BY <1>3, Zenon DEF Resting, Places, CallKinds
<1>5. Typed'
  <2>1. calls' \in [Threads -> [at : Places, call : CallKinds, resource : Resources \cup {None}]]
    BY <1>3, <1>4, Zenon
  <2>2. mapping' \in {"none", "own", "parents"}  BY <1>3, Zenon DEF Typed
  <2> QED  BY <1>2, <1>3, <2>1, <2>2, Zenon DEF Typed, ServiceTyped
<1>6. Place' = "reset"  BY <1>3, <1>4, Zenon DEF Place
<1>7. Reading'  BY <1>6, ReadingNothing, Zenon DEF HolderAt, ReadPlaces
<1>8. fetched.done = FALSE  BY <1>3, Zenon DEF Mapped, Typed
<1>9. Mapped'
  <2>1. /\ HolderAt({"reset"})' /\ ~HolderAt(ReadPlaces \cup {"read"})'
        /\ ~HolderAt({"record_locks"})' /\ ~HolderAt({"open"})'
    BY <1>3, <1>6, Zenon DEF HolderAt, ReadPlaces
  <2> QED  BY <1>3, <1>4, <1>6, <1>8, <2>1, Zenon DEF Mapped
<1>10. Result'  BY <1>3, <1>8, NothingFetched, Zenon
<1> QED  BY <1>2, <1>5, <1>7, <1>9, <1>10, Zenon DEF IInv

LEMMA InitIInv ==
    ASSUME Constants, Init PROVE IInv
<1>1. Fresh
  <2>1. PICK limits \in [Resources -> {l \in Limits : l.soft <= l.hard}] :
          page = New(limits) /\ decided = <<limits>>
    BY Zenon DEF Init
  <2>2. limits \in [Resources -> Limit]  BY Zenon DEF Constants, Limit
  <2> QED  BY <2>1, <2>2, Zenon DEF Init, Fresh
<1>2. Published /\ ServiceTyped  BY <1>1, FreshIsPublished, Zenon
<1>3. Typed
  <2>1. Resting \in [at : Places, call : CallKinds, resource : Resources \cup {None}]
    BY Zenon DEF Resting, Places, CallKinds
  <2>2. Oldest \in View  BY DEF Oldest, View
  <2> QED  BY <1>2, <2>1, <2>2, NothingTyped, Zenon DEF Init, Typed, ServiceTyped, FetchedType
<1>4. Reading  BY Zenon DEF Init, Reading, HolderAt
<1>5. Mapped  BY Zenon DEF Init, Mapped, HolderAt, Resting
<1>6. Result  BY NothingTyped, Zenon DEF Init, Result
<1> QED  BY <1>2, <1>3, <1>4, <1>5, <1>6, Zenon DEF IInv

\* A step that leaves the service alone.
LEMMA PublishedKept ==
    ASSUME Published, UNCHANGED service PROVE Published'
<1>1. page' = page /\ decided' = decided /\ publishers' = publishers /\ Last' = Last
  BY Zenon DEF service, Last
<1>2. Numbered' /\ OnePublisher'  BY <1>1, Zenon DEF Published, Numbered, OnePublisher
<1>3. Covers'  BY <1>1, Zenon DEF Published, Covers
<1>4. Later'  BY <1>1, Zenon DEF Published, Later
<1>5. Current'  BY <1>1, Zenon DEF Published, Current, Stored, Newest, InForce
<1> QED  BY <1>2, <1>3, <1>4, <1>5, Zenon DEF Published

\* What was read stays the answer: decisions are only added while no lock is held.
LEMMA NextIInv ==
    ASSUME Constants, IInv, [Next]_vars PROVE IInv'
<1> USE DEF IInv
<1>1. CASE UNCHANGED vars
  <2>1. Published'  BY <1>1, PublishedKept, Zenon DEF vars, service
  <2>2. Typed' /\ Result'  BY <1>1, Zenon DEF vars, Typed, Result, NoTornLimits
  <2>3. Reading'
    BY <1>1, Zenon DEF vars, Reading, HolderAt, Place, Fetched, Base, Last
  <2>4. Mapped'  BY <1>1, Zenon DEF vars, Mapped, HolderAt, Place
  <2> QED  BY <2>1, <2>2, <2>3, <2>4, Zenon
<1>2. CASE /\ \/ \E p \in Publishers : publish(p)
              \/ \E held \in {0, 1} : publish_record_locks(held)
           /\ UNCHANGED process
  <2>1. /\ Published' /\ Grows /\ Len(decided') >= Len(decided)
        /\ \A n \in 1..Len(decided) : decided'[n] = decided[n]
    BY <1>2, ServiceStep, Zenon
  <2>2. Typed'  BY <1>2, <2>1, TypedService, Zenon
  <2>3. Reading'  BY <1>2, <2>1, ReadingKept, Zenon
  <2>4. Mapped'  BY <1>2, Zenon DEF Mapped, HolderAt, Place, process
  <2>5. Result'
    <3> SUFFICES ASSUME fetched.done
                 PROVE  NoTornLimits' /\ fetched'.resource \in Resources
      BY <1>2, Zenon DEF Result, process
    <3> DEFINE n == fetched.before \div 2 + 1
    <3>0. fetched.before \in Nat /\ decided \in Seq([Resources -> Limit])
          /\ decided' \in Seq([Resources -> Limit])
      BY <2>2 DEF Typed
    <3>1. n \in Nat /\ n >= 1 /\ Len(decided) \in Nat /\ Len(decided') \in Nat
      BY <3>0
    <3>2. n <= Len(decided)  BY Zenon DEF Result, NoTornLimits
    <3>3. n \in 1..Len(decided)  BY <3>1, <3>2
    <3>4. n <= Len(decided') /\ decided'[n] = decided[n]  BY <2>1, <3>1, <3>2, <3>3
    <3>5. fetched' = fetched /\ mapping' = mapping  BY <1>2, Zenon DEF process
    <3> QED  BY <3>4, <3>5, Zenon DEF Result, NoTornLimits
  <2> QED  BY <2>1, <2>2, <2>3, <2>4, <2>5, Zenon
<1>3. ASSUME NEW t \in Threads, UNCHANGED service,
             \/ \E r \in Resources : call(t, "read", r)
             \/ call(t, "record_locks", None)
             \/ call(t, "fork", None)
             \/ lock(t) \/ open(t) \/ read(t) \/ read_record_locks(t)
             \/ resume_parent(t) \/ reset_child(t)
      PROVE  IInv'
  <2>1. Published'  BY <1>3, PublishedKept, Zenon
  <2>2. Typed' /\ Reading' /\ Mapped' /\ Result'
    <3>1. ASSUME NEW r \in Resources, call(t, "read", r)
          PROVE  Typed' /\ Reading' /\ Mapped' /\ Result'
      <4>1. "read" \in CallKinds \ {"none"}  BY Zenon DEF CallKinds
      <4> QED  BY <1>3, <3>1, <4>1, CallStep, Zenon
    <3>2. CASE call(t, "record_locks", None) \/ call(t, "fork", None)
      <4>1. {"record_locks", "fork"} \subseteq CallKinds \ {"none"}  BY Zenon DEF CallKinds
      <4> QED  BY <1>3, <3>2, <4>1, CallStep, Zenon
    <3>3. CASE lock(t)  BY <1>3, <3>3, LockStep, Zenon
    <3>4. CASE open(t)  BY <1>3, <3>4, OpenStep, Zenon
    <3>5. CASE read(t)  BY <1>3, <3>5, ReadSteps, Zenon
    <3>6. CASE read_record_locks(t) \/ resume_parent(t) \/ reset_child(t)
      BY <1>3, <3>6, LeavingSteps, Zenon
    <3> QED  BY <1>3, <3>1, <3>2, <3>3, <3>4, <3>5, <3>6, Zenon
  <2> QED  BY <2>1, <2>2, Zenon
<1>4. ASSUME NEW t \in Threads, resume_child(t) PROVE IInv'  BY <1>4, ChildStep, Zenon
<1> QED  BY <1>1, <1>2, <1>3, <1>4, Zenon DEF Next

\* Every reachable state satisfies the inductive invariant.
THEOREM Invariance == ASSUME Constants PROVE Spec => []IInv
<1>1. Init => IInv  BY InitIInv, Zenon
<1>2. IInv /\ [Next]_vars => IInv'  BY NextIInv, Zenon
<1> QED  BY <1>1, <1>2, PTL DEF Spec

\* resource_policy.rs: whatever the threads, the publishers, the resources and
\* the number of publications, a read that finds the generation unchanged returns
\* a soft and a hard limit of one and the same publication, from the process's
\* own page, although its loads are relaxed and only two fences order them.
THEOREM LimitsAreNeverTorn == ASSUME Constants PROVE Spec => []NoTornLimits
<1>1. IInv => NoTornLimits  BY Zenon DEF IInv, Result, NoTornLimits
<1> QED  BY <1>1, Invariance, PTL
=============================================================================
