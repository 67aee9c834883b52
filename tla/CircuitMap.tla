----------------------------- MODULE CircuitMap -----------------------------
(***************************************************************************)
(* The switch's circuit map (htlcswitch/circuit_map.go): for every HTLC    *)
(* that is being forwarded, a circuit from its incoming key to, once a     *)
(* keystone is written, its outgoing one.                                  *)
(*                                                                         *)
(* Each operation is one step: memory is guarded by a mutex, a crash       *)
(* between its memory and its disk half leaves what a crash before or      *)
(* after it leaves, and no two operations of the links on the same         *)
(* circuit overlap.  The payment hash index serves no caller outside of    *)
(* tests, and circuits of closed channels do not arise here: both are left *)
(* out.                                                                    *)
(***************************************************************************)
EXTENDS Naturals, Sequences, FiniteSetsExt

CONSTANTS
    InKeys,     \* incoming circuit keys: the HTLCs of the incoming channel
    MaxHtlcs,   \* bound on the HTLC ids of the outgoing channel
    none        \* no circuit, no key, no answer

VARIABLES
    circuitBkt,     \* on disk: the circuits that were committed
    keystoneBkt,    \* on disk: the circuit of each outgoing key, or none
    pending,        \* the circuits in memory, see Circuit
    opened,         \* the circuit of each outgoing key in memory, or none
    closed          \* circuits a response has been found for

cmVars == <<circuitBkt, keystoneBkt, pending, opened, closed>>

OutKeys == 0 .. MaxHtlcs
Circuit == [out : OutKeys \cup {none}, loadedFromDisk : BOOLEAN]

ASSUME CircuitAssumption ==
    /\ MaxHtlcs \in Nat
    /\ none \notin InKeys /\ none \notin OutKeys /\ none \notin Circuit

InitCircuits ==
    /\ circuitBkt = {} /\ keystoneBkt = [o \in OutKeys |-> none]
    /\ pending = [k \in InKeys |-> none] /\ opened = [o \in OutKeys |-> none]
    /\ closed = {}

HasKeystone(k) == pending[k] # none /\ pending[k].out # none

\* What CommitCircuits makes of a packet's circuit: new ones are added, those
\* whose packet must still be around are dropped, those whose packet was lost
\* in a restart are failed.
\* Mutant: a circuit without a keystone is not dropped.
Dropped_KeystoneOnly(k) == HasKeystone(k)
Dropped(k) == pending[k] # none /\ (HasKeystone(k) \/ ~ pending[k].loadedFromDisk)
Failed(k) == pending[k] # none /\ ~ Dropped(k)

CommitCircuits(k) ==
    /\ pending[k] = none
    /\ pending' = [pending EXCEPT ![k] = [out |-> none, loadedFromDisk |-> FALSE]]
    /\ circuitBkt' = circuitBkt \cup {k}
    /\ UNCHANGED <<keystoneBkt, opened, closed>>

\* The keystones of a batch: its i-th HTLC has id first + i - 1.  None may be
\* in use (ErrDuplicateKeystone), every circuit is known (ErrUnknownCircuit).
Openable(batch, first) ==
    \A i \in 1 .. Len(batch) : opened[first + i - 1] = none /\ pending[batch[i]] # none

OpenCircuits(batch, first) ==
    LET At(o) == o - first + 1
        New(o) == At(o) \in 1 .. Len(batch)
        Open(m) == [o \in OutKeys |-> IF New(o) THEN batch[At(o)] ELSE m[o]]
    IN  /\ Openable(batch, first)
        /\ keystoneBkt' = Open(keystoneBkt) /\ opened' = Open(opened)
        /\ pending' = [k \in InKeys |->
                IF \E o \in OutKeys : New(o) /\ batch[At(o)] = k
                THEN [pending[k] EXCEPT !.out =
                         CHOOSE o \in OutKeys : New(o) /\ batch[At(o)] = k]
                ELSE pending[k]]
        /\ UNCHANGED <<circuitBkt, closed>>

\* The consecutive opened keys from start on: what TrimOpenCircuits reverts.
\* It stops at the first key that is not open, whatever lies beyond.
\* Mutant: the last committed HTLC's keystone is trimmed as well.
Trimmed_Inclusive(o1, start) ==
    {o \in OutKeys : /\ o + 1 >= start
                     /\ \A p \in OutKeys : p + 1 >= start /\ p <= o => o1[p] # none}
Trimmed(o1, start) == {o \in OutKeys : /\ o >= start
                                       /\ \A p \in start .. o : o1[p] # none}

Untrimmed(m, trimmed) == [o \in OutKeys |-> IF o \in trimmed THEN none ELSE m[o]]
\* Circuit c of key k returns to the half-open state when m has it under a
\* trimmed key, whichever outgoing key it has on record itself.
HalfOpen(c, k, m, trimmed) ==
    IF c # none /\ \E o \in trimmed : m[o] = k THEN [c EXCEPT !.out = none] ELSE c

TrimOpenCircuits(start) ==
    LET trimmed == Trimmed(opened, start)
    IN  /\ opened' = Untrimmed(opened, trimmed)
        /\ keystoneBkt' = Untrimmed(keystoneBkt, trimmed)
        /\ pending' = [k \in InKeys |-> HalfOpen(pending[k], k, opened, trimmed)]
        /\ UNCHANGED <<circuitBkt, closed>>

\* A response closes its circuit once: a second one finds it closing.
Closable(k) == pending[k] # none /\ k \notin closed

CloseCircuit(k) ==
    /\ k \notin closed
    /\ closed' = closed \cup {k}
    /\ UNCHANGED <<circuitBkt, keystoneBkt, pending, opened>>

FailCircuit(k) == Closable(k) /\ CloseCircuit(k)

\* Mutant: the circuits stay on disk.
DeleteCircuits_MemoryOnly(keys) ==
    LET found == {k \in keys : pending[k] # none}
        outs == {pending[k].out : k \in found}
    IN  /\ pending' = [k \in InKeys |-> IF k \in found THEN none ELSE pending[k]]
        /\ closed' = closed \ found
        /\ opened' = Untrimmed(opened, outs)
        /\ UNCHANGED <<keystoneBkt, circuitBkt>>

\* A circuit goes with its keystone; unknown keys are ignored.
DeleteCircuits(keys) ==
    LET found == {k \in keys : pending[k] # none}
        outs == {pending[k].out : k \in found}
    IN  /\ pending' = [k \in InKeys |-> IF k \in found THEN none ELSE pending[k]]
        /\ closed' = closed \ found
        /\ opened' = Untrimmed(opened, outs)
        /\ keystoneBkt' = Untrimmed(keystoneBkt, outs)
        /\ circuitBkt' = circuitBkt \ found

\* NewCircuitMap: memory is restored from the buckets, the last keystone of a
\* circuit giving its outgoing key, then keystones at or above the outgoing
\* channel's next HTLC index are trimmed.
NewCircuitMap(start) ==
    LET restored == [o \in OutKeys |-> IF keystoneBkt[o] \in circuitBkt
                                       THEN keystoneBkt[o] ELSE none]
        trimmed == Trimmed(restored, start)
        Outs(k) == {o \in OutKeys : restored[o] = k}
        Out(k) == IF Outs(k) = {} THEN none ELSE Max(Outs(k))
    IN  /\ opened' = Untrimmed(restored, trimmed)
        /\ keystoneBkt' = Untrimmed(keystoneBkt, trimmed)
        /\ pending' = [k \in InKeys |->
              IF k \in circuitBkt
              THEN HalfOpen([out |-> Out(k), loadedFromDisk |-> TRUE], k, restored, trimmed)
              ELSE none]
        /\ closed' = {}
        /\ UNCHANGED circuitBkt

CircuitsOK ==
    /\ circuitBkt \subseteq InKeys
    /\ keystoneBkt \in [OutKeys -> InKeys \cup {none}]
    /\ pending \in [InKeys -> Circuit \cup {none}]
    /\ opened \in [OutKeys -> InKeys \cup {none}]
    /\ closed \subseteq InKeys
=============================================================================
