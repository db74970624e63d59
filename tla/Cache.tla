------------------------------- MODULE Cache -------------------------------
(***************************************************************************)
(* EncodeCached32 (cache.go): a fixed-size, direct-mapped intern table of  *)
(* atomic pointers to immutable entries, shared by every goroutine without *)
(* a lock.  Between any two steps of one call the other goroutines may     *)
(* load, publish and overwrite the same slot.                              *)
(*                                                                         *)
(* Entries live in a heap and are reached through pointers, as in the Go   *)
(* program, because the hazards of this code are those of shared pointers: *)
(* an entry is compared some time after it was loaded, when its slot may   *)
(* already hold another entry, and the memory of an entry that nobody      *)
(* refers to any more is given to the next allocation.                     *)
(***************************************************************************)

CONSTANTS
    Callers,    \* goroutines that call EncodeCached32
    Keys,       \* the 32-byte inputs
    Strings,    \* the strings Encode32 can return
    Encode32,   \* Encode32[k]: the string Encode32 returns for key k
    Slots,      \* the indices of enc32Cache
    Index,      \* Index[k]: the slot of key k, hashed from its first 8 bytes
    Addrs,      \* addresses an entry can be allocated at
    Nil         \* the nil pointer, and the value of a variable that is not live

ASSUME CacheAssumption ==
    /\ Encode32 \in [Keys -> Strings]
    /\ Index \in [Keys -> Slots]
    /\ Nil \notin Addrs \cup Keys \cup Strings

VARIABLES
    slot,       \* enc32Cache: slot[i] is the atomic pointer of slot i
    heap,       \* heap[a]: the enc32Entry at address a
    pc,         \* where each goroutine is in EncodeCached32
    src,        \* the key of its call
    e,          \* its local entry pointer
    ret         \* the string its call returned

vars == <<slot, heap, pc, src, e, ret>>

enc32Entry == [key : Keys, val : Strings]

\* Slots and locals hold addresses or nil, and an allocated address a key and a string.
TypeOK ==
    /\ slot \in [Slots -> Addrs \cup {Nil}]
    /\ heap \in [Addrs -> enc32Entry \cup {Nil}]
    /\ pc \in [Callers -> {"idle", "load", "check", "miss", "store", "return", "done"}]
    /\ src \in [Callers -> Keys \cup {Nil}]
    /\ e \in [Callers -> Addrs \cup {Nil}]
    /\ ret \in [Callers -> Strings \cup {Nil}]

\* Every slot starts as a nil pointer and nothing is allocated.
Init ==
    /\ slot = [i \in Slots |-> Nil]
    /\ heap = [a \in Addrs |-> Nil]
    /\ pc = [c \in Callers |-> "idle"]
    /\ src = [c \in Callers |-> Nil]
    /\ e = [c \in Callers |-> Nil]
    /\ ret = [c \in Callers |-> Nil]

\* The addresses some goroutine or some slot still refers to.
Held(c)     == {e[c]} \ {Nil}
Published   == {slot[i] : i \in Slots} \ {Nil}
Reachable   == Published \cup UNION {Held(c) : c \in Callers}

-----------------------------------------------------------------------------
Call(c, k) ==
    /\ pc[c] = "idle"
    /\ src' = [src EXCEPT ![c] = k]
    /\ pc' = [pc EXCEPT ![c] = "load"]
    /\ UNCHANGED <<slot, heap, e, ret>>

\* slot.Load()
Load(c) ==
    /\ pc[c] = "load"
    /\ e' = [e EXCEPT ![c] = slot[Index[src[c]]]]
    /\ pc' = [pc EXCEPT ![c] = "check"]
    /\ UNCHANGED <<slot, heap, src, ret>>

\* Mutant: trusts the slot without comparing the key.
IsHit_SlotOnly(c) == e[c] # Nil

\* The full key decides: the slot's entry may belong to another key.
IsHit(c) == e[c] # Nil /\ heap[e[c]].key = src[c]

Hit(c) ==
    /\ pc[c] = "check"
    /\ IsHit(c)
    /\ ret' = [ret EXCEPT ![c] = heap[e[c]].val]
    /\ e' = [e EXCEPT ![c] = Nil]
    /\ pc' = [pc EXCEPT ![c] = "done"]
    /\ UNCHANGED <<slot, heap, src>>

\* Mutant: waits for another goroutine to fill the slot.
Miss_Retry(c) ==
    /\ pc[c] = "check"
    /\ ~IsHit(c)
    /\ e' = [e EXCEPT ![c] = Nil]
    /\ pc' = [pc EXCEPT ![c] = "load"]
    /\ UNCHANGED <<slot, heap, src, ret>>

Miss(c) ==
    /\ pc[c] = "check"
    /\ ~IsHit(c)
    /\ e' = [e EXCEPT ![c] = Nil]
    /\ pc' = [pc EXCEPT ![c] = "miss"]
    /\ UNCHANGED <<slot, heap, src, ret>>

\* Mutant: recycles the entry that the slot still publishes.
NewEntry_InPlace(c, a) ==
    /\ \/ a = slot[Index[src[c]]]
       \/ slot[Index[src[c]]] = Nil /\ a \notin Reachable
    /\ heap' = [heap EXCEPT ![a] = [key |-> src[c], val |-> Encode32[src[c]]]]
    /\ e' = [e EXCEPT ![c] = a]

\* Mutant: takes an evicted entry from a free list, overlooking the goroutines
\* that loaded it before it was evicted.
NewEntry_FreeList(c, a) ==
    /\ a \notin Published \cup {e[d] : d \in {x \in Callers : pc[x] = "store"}}
    /\ heap' = [heap EXCEPT ![a] = [key |-> src[c], val |-> Encode32[src[c]]]]
    /\ e' = [e EXCEPT ![c] = a]

\* &enc32Entry{...}: the runtime hands out memory nothing refers to any more.
NewEntry(c, a) ==
    /\ a \notin Reachable
    /\ heap' = [heap EXCEPT ![a] = [key |-> src[c], val |-> Encode32[src[c]]]]
    /\ e' = [e EXCEPT ![c] = a]

Build(c, a) ==
    /\ pc[c] = "miss"
    /\ NewEntry(c, a)
    /\ pc' = [pc EXCEPT ![c] = "store"]
    /\ UNCHANGED <<slot, src, ret>>

\* Mutant: puts the entry into any slot that is still empty.
Store_Probe(c) ==
    /\ pc[c] = "store"
    /\ \E i \in Slots :
          /\ slot[i] = Nil \/ i = Index[src[c]]
          /\ slot' = [slot EXCEPT ![i] = e[c]]
    /\ pc' = [pc EXCEPT ![c] = "return"]
    /\ UNCHANGED <<heap, src, e, ret>>

\* slot.Store(e): whatever the slot holds by now is replaced.
Store(c) ==
    /\ pc[c] = "store"
    /\ slot' = [slot EXCEPT ![Index[src[c]]] = e[c]]
    /\ pc' = [pc EXCEPT ![c] = "return"]
    /\ UNCHANGED <<heap, src, e, ret>>

\* return e.val, read from the entry after it was published.
Return(c) ==
    /\ pc[c] = "return"
    /\ ret' = [ret EXCEPT ![c] = heap[e[c]].val]
    /\ e' = [e EXCEPT ![c] = Nil]
    /\ pc' = [pc EXCEPT ![c] = "done"]
    /\ UNCHANGED <<slot, heap, src>>

\* The caller goes on with the string it got; the call's locals are gone.
Finish(c) ==
    /\ pc[c] = "done"
    /\ src' = [src EXCEPT ![c] = Nil]
    /\ ret' = [ret EXCEPT ![c] = Nil]
    /\ pc' = [pc EXCEPT ![c] = "idle"]
    /\ UNCHANGED <<slot, heap, e>>

EncodeCached32(c) ==
    \/ Load(c)
    \/ Hit(c)
    \/ Miss(c)
    \/ \E a \in Addrs : Build(c, a)
    \/ Store(c)
    \/ Return(c)

Next ==
    \E c \in Callers :
        \/ \E k \in Keys : Call(c, k)
        \/ EncodeCached32(c)
        \/ Finish(c)

\* A running goroutine is scheduled; nobody has to make another call.
Fairness == \A c \in Callers : WF_vars(EncodeCached32(c))

Spec == Init /\ [][Next]_vars /\ Fairness

-----------------------------------------------------------------------------
(* Properties *)

\* Whatever other goroutines published or replaced in the meantime, a call
\* returns the encoding of its own key ("readers ... verify the full 32-byte
\* key before trusting the value", cache.go:19-21).
ResultCorrect ==
    \A c \in Callers : pc[c] = "done" => ret[c] = Encode32[src[c]]

\* A slot only ever holds a complete entry of a key that hashes to it, so that
\* a colliding key can make a lookup miss but never answer wrongly.
SlotHoldsOwnKeys ==
    \A i \in Slots :
        slot[i] # Nil =>
            LET x == heap[slot[i]]
            IN  Index[x.key] = i /\ x.val = Encode32[x.key]

\* Until slot.Store (cache.go:41) an entry belongs to the goroutine that builds
\* it: no slot and no other goroutine refers to it, so that the plain writes of
\* its key and of its string (cache.go:40) are seen by nobody, not even by one
\* that loaded the same slot earlier and has yet to compare.
BuiltInPrivate ==
    \A c \in Callers :
        pc[c] = "store" =>
            e[c] \notin Published \cup UNION {Held(d) : d \in Callers \ {c}}

\* "Entries are immutable once published" (cache.go:18): no step changes an
\* entry that a slot, or a goroutine that loaded it earlier, can still reach.
EntriesImmutable ==
    [][\A a \in Reachable : heap'[a] = heap[a]]_vars

\* The cache is invisible: seen from the callers it is the stateless service
\* of EncodeService, and every call that starts returns.
callState(c) ==
    CASE pc[c] = "idle" -> [state |-> "idle"]
      [] pc[c] = "done" -> [state |-> "done", key |-> src[c], result |-> ret[c]]
      [] OTHER          -> [state |-> "busy", key |-> src[c]]

Service == INSTANCE EncodeService WITH call <- [c \in Callers |-> callState(c)]

\* EncodeCached32 behaves like the service without a cache, and every call returns.
ImplementsService == Service!Spec
=============================================================================
