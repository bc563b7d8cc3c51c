----------------------------- MODULE TcpListener -----------------------------
(***************************************************************************)
(* The connection table of crates/network-stack (tcp.rs, tcp/passive.rs):  *)
(* listeners with their backlog of embryonic and completed connections,    *)
(* the shared capacity, and the reaping of dead connections.  The protocol *)
(* of one connection is module Tcp; here a connection is opening, open or  *)
(* dead (closed or reset).                                                 *)
(***************************************************************************)
EXTENDS Integers, Sequences, FiniteSets, SequencesExt

CONSTANTS Handles,   \* handles of connections and listeners, one namespace
          Backlogs,  \* backlog arguments
          Capacity   \* rows of the table

VARIABLES conns,      \* [handle -> state], the retained connections
          listeners,  \* [handle -> [backlog, pending, ready]]
          accepted    \* history: handles returned by accept and not removed

vars == <<conns, listeners, accepted>>

States == {"opening", "open", "dead"}

Rows == Cardinality(DOMAIN conns) + Cardinality(DOMAIN listeners)

Free(h) == h \notin DOMAIN conns /\ h \notin DOMAIN listeners

With(f, h, v) == [x \in DOMAIN f \cup {h} |-> IF x = h THEN v ELSE f[x]]

Only(f, S) == [x \in DOMAIN f \cap S |-> f[x]]

Pending == UNION {listeners[l].pending : l \in DOMAIN listeners}

-----------------------------------------------------------------------------
Init == /\ conns = <<>>
        /\ listeners = <<>>
        /\ accepted = {}

\* prune_pending: dead connections nobody accepted leave the table, and the
\* queues keep what is left.
Pruned(cs, ls) ==
  LET keep == {h \in DOMAIN cs : cs[h] # "dead" \/ \A l \in DOMAIN ls : h \notin ls[l].pending}
      live == {h \in keep : cs[h] # "dead"}
  IN  [conns |-> Only(cs, keep),
       listeners |-> [l \in DOMAIN ls |->
         [ls[l] EXCEPT !.pending = @ \cap live,
                       !.ready = SelectSeq(@, LAMBDA h : h \in ls[l].pending \cap live)]]]

Store(t) == conns' = t.conns /\ listeners' = t.listeners

listen(l, backlog) ==
  /\ Rows < Capacity
  /\ Free(l)
  /\ listeners' = With(listeners, l, [backlog |-> backlog, pending |-> {}, ready |-> <<>>])
  /\ UNCHANGED <<conns, accepted>>

\* An active open, inserted by its owner.
insert(h) ==
  /\ Rows < Capacity
  /\ Free(h)
  /\ conns' = With(conns, h, "opening")
  /\ accepted' = accepted \cup {h}
  /\ UNCHANGED listeners

\* A SYN for listener l: pruning, the limits, then a connection in the backlog.
receive_syn(l, h) ==
  LET t == Pruned(conns, listeners) IN
  /\ l \in DOMAIN listeners
  /\ IF /\ Cardinality(t.listeners[l].pending) < t.listeners[l].backlog
        /\ Cardinality(DOMAIN t.conns) + Cardinality(DOMAIN t.listeners) < Capacity
     THEN /\ h \notin DOMAIN t.conns /\ h \notin DOMAIN t.listeners
          /\ Store([conns |-> With(t.conns, h, "opening"),
                    listeners |-> [t.listeners EXCEPT ![l].pending = @ \cup {h}]])
     ELSE Store(t)
  /\ accepted' = accepted \cap DOMAIN conns'

\* receive_segment: a connection that became established enters the ready
\* queue of its listener, once.
receive_segment(h) ==
  /\ h \in DOMAIN conns /\ conns[h] = "opening"
  /\ conns' = [conns EXCEPT ![h] = "open"]
  /\ listeners' = [l \in DOMAIN listeners |->
       IF h \in listeners[l].pending /\ ~Contains(listeners[l].ready, h)
       THEN [listeners[l] EXCEPT !.ready = Append(@, h)] ELSE listeners[l]]
  /\ UNCHANGED accepted

\* A reset, the last acknowledgment, the end of TIME-WAIT or the retry limit.
Die(h) ==
  /\ h \in DOMAIN conns /\ conns[h] # "dead"
  /\ conns' = [conns EXCEPT ![h] = "dead"]
  /\ UNCHANGED <<listeners, accepted>>

\* Mutant of accept: the accepted handle stays in the backlog.
acceptKeepsPending(l) ==
  LET t == Pruned(conns, listeners) IN
  /\ l \in DOMAIN listeners
  /\ IF t.listeners[l].ready = <<>> THEN Store(t) /\ UNCHANGED accepted
     ELSE LET h == Head(t.listeners[l].ready) IN
          /\ Store([t EXCEPT !.listeners[l].ready = Tail(@)])
          /\ accepted' = accepted \cup {h}

\* accept: the oldest completed connection leaves both queues.
accept(l) ==
  LET t == Pruned(conns, listeners) IN
  /\ l \in DOMAIN listeners
  /\ IF t.listeners[l].ready = <<>> THEN Store(t) /\ UNCHANGED accepted
     ELSE LET h == Head(t.listeners[l].ready) IN
          /\ Store([t EXCEPT !.listeners[l].ready = Tail(@),
                             !.listeners[l].pending = @ \ {h}])
          /\ accepted' = accepted \cup {h}

set_backlog(l, backlog) ==
  /\ l \in DOMAIN listeners
  /\ listeners' = [listeners EXCEPT ![l].backlog = backlog]
  /\ UNCHANGED <<conns, accepted>>

\* The listener goes with every connection still in its backlog.
close_listener(l) ==
  /\ l \in DOMAIN listeners
  /\ conns' = Only(conns, Handles \ listeners[l].pending)
  /\ listeners' = Only(listeners, Handles \ {l})
  /\ UNCHANGED accepted

\* remove, by the owner of a connection it accepted or opened.
remove(h) ==
  /\ h \in accepted
  /\ Store(Pruned(Only(conns, Handles \ {h}), listeners))
  /\ accepted' = accepted \ {h}

\* remove_closed: every dead connection goes.
remove_closed ==
  /\ Store(Pruned(Only(conns, {h \in DOMAIN conns : conns[h] # "dead"}), listeners))
  /\ accepted' = accepted \cap DOMAIN conns'

Next ==
  \/ \E l \in Handles, b \in Backlogs : listen(l, b) \/ set_backlog(l, b)
  \/ \E h \in Handles : insert(h) \/ receive_segment(h) \/ Die(h) \/ remove(h)
  \/ \E l, h \in Handles : receive_syn(l, h)
  \/ \E l \in Handles : accept(l) \/ close_listener(l)
  \/ remove_closed

Spec == Init /\ [][Next]_vars

-----------------------------------------------------------------------------
\* Every connection is in exactly one place: accepted (or opened) by its owner,
\* or in the backlog of one listener, where, as long as it lives, it is ready
\* exactly when its handshake has completed, and once; the table never exceeds
\* its capacity.
\* Nothing that completed is forgotten, handed out twice or leaked when its
\* listener closes, and the lookup accept makes for the head of the ready
\* queue after pruning succeeds.
BacklogAccountsForAll ==
  /\ Rows <= Capacity
  /\ \A h \in DOMAIN conns : (h \in accepted) # (h \in Pending)
  /\ \A l \in DOMAIN listeners :
       LET r == listeners[l].ready IN
       /\ IsInjective(r)
       /\ Range(r) \subseteq listeners[l].pending
       /\ listeners[l].pending \cap accepted = {}
       /\ \A k \in DOMAIN listeners \ {l} :
            listeners[l].pending \cap listeners[k].pending = {}
       /\ \A h \in listeners[l].pending \cap DOMAIN conns :
            conns[h] # "dead" => (conns[h] = "open" <=> h \in Range(r))
       /\ LET t == Pruned(conns, listeners)
          IN  Range(t.listeners[l].ready) \subseteq DOMAIN t.conns
=============================================================================
