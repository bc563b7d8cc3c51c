-------------------------------- MODULE Dns --------------------------------
\* The resolver's share of the network stack: what a DNS response is decoded
\* into, how the answer to a CNAME-only response is joined to it, the retry
\* timer, and the positive and negative cache.
\*
\* A response is its code and its records; names are sequences of labels, a
\* TTL is a u32 read as signed (negative: its top bit is set), and the bytes of
\* a message are left out.  Time runs in ticks, Second of them to a second, and
\* every instant is kept as the time left until it.  The service that sends
\* queries and feeds answers back is outside the repository: `resolve`,
\* `receive` and `give_up` are its use of these types.
EXTENDS Integers, Sequences, SequencesExt, FiniteSets, FiniteSetsExt

CONSTANTS
    Names,              \* the names asked for
    Zones,              \* the owners of SOA records
    Kinds,              \* the record types asked for
    Ttls,               \* the TTLs records carry
    Capacities,         \* the capacities of the cache
    Timeout, BaseDelay, MaxAttempts,    \* the arguments of DnsRetry::new
    DNS_MAX_ALIAS_DEPTH,
    Nothing, Error      \* no value; a decoding that failed

VARIABLES
    capacity,
    entries,            \* the cache, oldest first
    query               \* the resolution under way, or Nothing

vars == <<capacity, entries, query>>

Second == 2

-----------------------------------------------------------------------------
\* Records and responses.

normalize_ttl(ttl) == IF ttl < 0 THEN 0 ELSE ttl

\* The data of a record, RecordData: a value of a kind, an alias, or another
\* type, which is one of DNSSEC's companions of an alias or not.
Data == [is : {"value"}, kind : Kinds] \cup [is : {"alias"}, target : Names]
           \cup [is : {"other"}, dnssec : BOOLEAN]
Records == [owner : Names, data : Data, ttl : Ttls]
Record == {r \in Records :
              r.data.is = "other" => r.ttl = Min(Ttls)}
Companion(data) == data.is = "other" /\ data.dnssec

\* An SOA record of the authority section: its TTL and its MINIMUM field.
DnsSoa == [owner : Zones, ttl : Ttls, minimum : Ttls]
DnsSoa_decode(soa) ==
    [owner |-> soa.owner, minimum |-> soa.minimum,
     ttl |-> Min({normalize_ttl(soa.ttl), normalize_ttl(soa.minimum)})]

covers(zone, name) == IsSuffix(zone, name)

\* The SOA of the closest enclosing zone; two that differ beyond their TTL
\* make the response invalid.
closest(soas, name) ==
    LET covering == {s \in soas : covers(s.owner, name)}
        found == {s \in covering : \A o \in covering : Len(o.owner) <= Len(s.owner)}
    IN  CASE covering = {} -> Nothing
          [] Cardinality({s.minimum : s \in found}) > 1 -> Error
          [] OTHER -> [(CHOOSE s \in found : TRUE) EXCEPT !.ttl = Min({s.ttl : s \in found})]

\* The alias path from name: the names on it with their TTLs, or Error.
AliasPath[records \in SUBSET Records, visited \in Seq(Names)] ==
    LET name == Last(visited)
        own == {r \in records : r.owner = name}
        aliases == {r \in own : r.data.is = "alias"}
        target == (CHOOSE r \in aliases : TRUE).data.target
    IN  CASE aliases = {} -> [names |-> visited, ttls |-> {}]
          [] Cardinality({r.data.target : r \in aliases}) > 1 -> Error
          [] \E r \in own \ aliases : ~Companion(r.data) -> Error
          [] Len(visited) > DNS_MAX_ALIAS_DEPTH -> Error
          [] target \in ToSet(visited) -> Error
          [] OTHER ->
               LET rest == AliasPath[records, Append(visited, target)]
               IN  IF rest = Error THEN Error
                   ELSE [rest EXCEPT !.ttls = @ \cup {normalize_ttl(r.ttl) : r \in aliases}]

MinOr(ttls, default) == IF ttls = {} THEN default ELSE Min(ttls)

\* A response with a matching question: code, answer records and authority
\* SOAs.  What it is decoded into, a DnsRecordSet, or Error.
decode_dns_answer(name, kind, code, records, authority) ==
    LET path == AliasPath[records, <<name>>]
        canonical == Last(path.names)
        own == {r \in records : r.owner = canonical}
        values == {r \in own : r.data.is = "value" /\ r.data.kind = kind}
        soa == closest({DnsSoa_decode(s) : s \in authority}, canonical)
        negative == CASE code = "NameError" -> "NameError"
                      [] code # "NameError" /\ values = {} /\ (soa # Nothing \/ Len(path.names) = 1) -> "NoData"
                      [] OTHER -> Nothing
        ttls == path.ttls \cup {normalize_ttl(r.ttl) : r \in values}
                  \cup (IF negative = Nothing THEN {} ELSE {IF soa = Nothing THEN 0 ELSE soa.ttl})
    IN  IF \/ code \notin {"NoError", "NameError"}
           \/ path = Error
           \/ soa = Error
           \/ code = "NameError" /\ \E r \in own : ~Companion(r.data)
        THEN Error
        ELSE [question |-> name, kind |-> kind, canonical_name |-> canonical,
              values |-> values # {}, aliases |-> Front(path.names),
              ttl_seconds |-> MinOr(ttls, 0), negative |-> negative,
              soa |-> IF negative # Nothing /\ soa # Nothing THEN soa.ttl ELSE Nothing]

\* Mutant of follow_answer: the aliases' TTL is not aged while the next query
\* was outstanding, and does not bound the joined answer.
follow_answerUnaged(first, answer, elapsed) ==
    LET aliases == first.aliases \o answer.aliases
    IN  IF \/ first.values \/ first.negative # Nothing
           \/ first.canonical_name = first.question
           \/ first.canonical_name # answer.question \/ first.kind # answer.kind
           \/ ~IsInjective(aliases) \/ answer.canonical_name \in ToSet(aliases)
           \/ Len(aliases) > DNS_MAX_ALIAS_DEPTH
        THEN Error
        ELSE [answer EXCEPT !.question = first.question, !.aliases = aliases]

\* The answer to a CNAME-only response, joined to it after `elapsed` ticks.
follow_answer(first, answer, elapsed) ==
    LET aliases == first.aliases \o answer.aliases
        remaining == Max({first.ttl_seconds * Second - elapsed, 0}) \div Second
    IN  IF \/ first.values \/ first.negative # Nothing
           \/ first.canonical_name = first.question
           \/ first.canonical_name # answer.question \/ first.kind # answer.kind
           \/ ~IsInjective(aliases) \/ answer.canonical_name \in ToSet(aliases)
           \/ Len(aliases) > DNS_MAX_ALIAS_DEPTH
        THEN Error
        ELSE [answer EXCEPT !.question = first.question, !.aliases = aliases,
                            !.ttl_seconds = Min({@, remaining})]

\* The responses to a query, at most two answer records and two SOAs, and how
\* long the records an answer rests on live: every alias on the path and every
\* value or, for a negative answer, the SOA (zero without one).
Responses ==
    [code : {"NoError", "NameError", "ServerFailure"},
     records : {{}} \cup {{r, s} : r, s \in Record},
     authority : {{}} \cup {{r, s} : r, s \in DnsSoa}]

RestsOn(set, response) ==
    LET used == {r \in response.records :
                    \/ r.owner \in ToSet(set.aliases) /\ r.data.is = "alias"
                    \/ r.owner = set.canonical_name /\ r.data = [is |-> "value", kind |-> set.kind]}
    IN  MinOr({normalize_ttl(r.ttl) : r \in used}
                \cup (IF set.soa = Nothing THEN {} ELSE {set.soa}), 0)

\* What a response to a question may be decoded into, errors left out.
Decoded(name, kind, r) ==
    LET set == decode_dns_answer(name, kind, r.code, r.records, r.authority)
    IN  IF set = Error THEN Error ELSE [set |-> set, rests |-> RestsOn(set, r)]
Answers ==
    [name \in Names, kind \in Kinds |->
        {a \in {Decoded(name, kind, r) : r \in Responses} : a # Error}]

-----------------------------------------------------------------------------
\* DnsRetry.

DnsRetry_new == [deadline |-> Timeout, next_send |-> 0, attempts |-> 0]

\* poll, for a timer that has neither run out nor must wait.
CanSend(retry) == retry.deadline > 0 /\ retry.next_send = 0 /\ retry.attempts < MaxAttempts
Failed(retry) == retry.deadline = 0 \/ (retry.next_send = 0 /\ retry.attempts >= MaxAttempts)
Sent(retry) ==
    [retry EXCEPT !.attempts = @ + 1, !.next_send = BaseDelay * 2^(Min({retry.attempts, 20}))]

-----------------------------------------------------------------------------
\* DnsCache.

name_error(set) == set.aliases = <<>> /\ set.negative = "NameError"

Live == SelectSeq(entries, LAMBDA e : e.expires > 0)

\* Whether a set being inserted drives out a cached one.
Conflict(old, set) ==
    \/ /\ old.question = set.question
       /\ old.kind = set.kind \/ name_error(old) \/ name_error(set)
    \/ /\ set.negative # Nothing /\ set.question = set.canonical_name
       /\ old.canonical_name = set.question
       /\ old.kind = set.kind \/ name_error(set)
    \/ /\ name_error(old) /\ old.question = set.canonical_name
       /\ set.negative # "NameError"

\* insert_one: what the cache becomes.  `rests` is the time the records the
\* set was built from still live.
insert_one(cache, set, rests) ==
    LET kept == SelectSeq(cache, LAMBDA e : e.expires > 0 /\ ~Conflict(e.set, set))
        room == IF Len(kept) < capacity THEN kept
                ELSE SubSeq(kept, Len(kept) - capacity + 2, Len(kept))
    IN  IF set.ttl_seconds = 0 \/ (~set.values /\ set.soa = Nothing) \/ capacity = 0
        THEN kept
        ELSE Append(room, [set |-> set, expires |-> set.ttl_seconds * Second, rests |-> rests,
                           soa_expires |-> IF set.soa = Nothing THEN 0 ELSE set.soa * Second])

\* A negative answer behind aliases also proves its terminal name.
insert_records(cache, set, rests) ==
    LET terminal == [set EXCEPT !.question = set.canonical_name, !.aliases = <<>>, !.ttl_seconds = set.soa]
        proven == insert_one(cache, terminal, set.soa * Second)
    IN  IF set.soa = Nothing \/ set.canonical_name = set.question THEN insert_one(cache, set, rests)
        ELSE IF capacity = 1 THEN proven
        ELSE insert_one(proven, set, rests)

\* lookup_records: the answer the cache gives, with what is left of its TTL.
Found(name, kind) ==
    SelectSeq(Live, LAMBDA e : e.set.question = name /\ (e.set.kind = kind \/ name_error(e.set)))
lookup_records(name, kind) ==
    LET e == Head(Found(name, kind))
    IN  IF Found(name, kind) = <<>> THEN Nothing
        ELSE [e.set EXCEPT !.kind = kind, !.ttl_seconds = e.expires \div Second,
                           !.soa = IF @ = Nothing THEN Nothing ELSE e.soa_expires \div Second]

-----------------------------------------------------------------------------
Init ==
    /\ capacity \in Capacities
    /\ entries = <<>>
    /\ query = Nothing

\* A name is looked up; expired entries are dropped, and a miss starts a query.
resolve(name, kind) ==
    /\ query = Nothing
    /\ entries' = Live
    /\ query' = IF lookup_records(name, kind) # Nothing THEN Nothing
                ELSE [name |-> name, kind |-> kind, retry |-> DnsRetry_new,
                      first |-> Nothing, rests |-> 0, elapsed |-> 0]
    /\ UNCHANGED capacity

poll ==
    /\ query # Nothing /\ CanSend(query.retry)
    /\ query' = [query EXCEPT !.retry = Sent(@)]
    /\ UNCHANGED <<capacity, entries>>

give_up ==
    /\ query # Nothing /\ Failed(query.retry)
    /\ query' = Nothing
    /\ UNCHANGED <<capacity, entries>>

\* A response arrives.  One that ends at an alias is followed by a query for
\* the alias's target; the joined answer is cached under the first question.
receive(answer) ==
    LET rests == IF query.first = Nothing THEN answer.rests * Second
                 ELSE Min({answer.rests * Second, query.rests})
        set == IF query.first = Nothing THEN answer.set
               ELSE follow_answer(query.first, answer.set, query.elapsed)
    IN  /\ query.retry.attempts > 0
        /\ IF set # Error /\ ~set.values /\ set.negative = Nothing
           THEN /\ query' = [query EXCEPT !.name = set.canonical_name, !.retry = DnsRetry_new,
                                          !.first = set, !.rests = rests, !.elapsed = 0]
                /\ UNCHANGED entries
           ELSE /\ query' = Nothing
                /\ entries' = IF set = Error THEN entries ELSE insert_records(entries, set, rests)
        /\ UNCHANGED capacity

Down(n) == IF n = 0 THEN 0 ELSE n - 1

tick ==
    /\ \/ query # Nothing /\ query.retry.deadline > 0
       \/ \E i \in DOMAIN entries : entries[i].expires > 0
    /\ entries' = [i \in DOMAIN entries |->
          [entries[i] EXCEPT !.expires = Down(@), !.soa_expires = Down(@), !.rests = Down(@)]]
    /\ query' = IF query = Nothing THEN Nothing
                ELSE [query EXCEPT !.retry.deadline = Down(@), !.retry.next_send = Down(@),
                                   !.rests = Down(@), !.elapsed = IF query.first = Nothing THEN 0 ELSE @ + 1]
    /\ UNCHANGED capacity

clear ==
    /\ query = Nothing /\ entries # <<>>
    /\ entries' = <<>>
    /\ UNCHANGED <<capacity, query>>

Next ==
    \/ \E name \in Names, kind \in Kinds : resolve(name, kind)
    \/ poll
    \/ give_up
    \/ query # Nothing /\ \E answer \in Answers[query.name, query.kind] : receive(answer)
    \/ tick
    \/ clear

Spec == Init /\ [][Next]_vars

-----------------------------------------------------------------------------
\* What the cache would answer holds.  No answer outlives a record it rests on,
\* aliases of an earlier response included ("Minimum TTL of the alias path and
\* terminal RRset or negative SOA proof"); a name is cached as not existing for
\* every type or with answers, never both; one entry answers a question; and no
\* alias path comes back to a name it passed.
AnswersHold ==
    /\ Len(entries) <= capacity
    /\ \A i \in DOMAIN entries :
          LET e == entries[i]
          IN  /\ e.expires <= e.rests
              /\ e.set.soa # Nothing => e.expires <= e.soa_expires
              /\ IsInjective(Append(e.set.aliases, e.set.canonical_name))
              /\ Head(Append(e.set.aliases, e.set.canonical_name)) = e.set.question
    /\ \A i, j \in {k \in DOMAIN entries : entries[k].expires > 0} :
          LET a == entries[i].set
              b == entries[j].set
          IN  i # j =>
              /\ ~(a.question = b.question /\ a.kind = b.kind)
              /\ ~(name_error(a) /\ a.question \in {b.question} \cup (IF b.negative = "NameError" THEN {} ELSE {b.canonical_name}))
=============================================================================
