---------------------------- MODULE AbstractLock ----------------------------
(***************************************************************************)
(* What a mutex promises its callers: a thread asks, enters when nobody is *)
(* in, may give up asking (a failed or timed wait, a trylock), and leaves. *)
(***************************************************************************)
CONSTANT Threads

VARIABLE phase      \* "out", "asking" or "in", for each thread

Init == phase = [t \in Threads |-> "out"]

Ask(t) == phase[t] = "out" /\ phase' = [phase EXCEPT ![t] = "asking"]

Enter(t) ==
    /\ phase[t] = "asking"
    /\ \A u \in Threads : phase[u] # "in"
    /\ phase' = [phase EXCEPT ![t] = "in"]

GiveUp(t) == phase[t] = "asking" /\ phase' = [phase EXCEPT ![t] = "out"]

Leave(t) == phase[t] = "in" /\ phase' = [phase EXCEPT ![t] = "out"]

Next == \E t \in Threads : Ask(t) \/ Enter(t) \/ GiveUp(t) \/ Leave(t)

Spec == Init /\ [][Next]_phase
=============================================================================
