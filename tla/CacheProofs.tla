---------------------------- MODULE CacheProofs ----------------------------
(***************************************************************************)
(* Proofs about Cache, for any number of goroutines, keys, slots and       *)
(* addresses, and for every hash function.                                 *)
(***************************************************************************)
EXTENDS Cache, TLAPS

\* An entry that was built completely.
Complete(a) ==
    /\ heap[a] \in enc32Entry
    /\ heap[a].val = Encode32[heap[a].key]

\* During a call src is the caller's key.
SrcInv == \A c \in Callers : pc[c] # "idle" => src[c] \in Keys

\* What a slot publishes is complete and belongs there.
SlotInv ==
    \A i \in Slots :
        slot[i] # Nil => Complete(slot[i]) /\ Index[heap[slot[i]].key] = i

\* What a goroutine loaded stays complete, also once its slot was overwritten.
LoadedInv ==
    \A c \in Callers : pc[c] = "check" /\ e[c] # Nil => Complete(e[c])

\* What a goroutine built is its own answer, before and after it is published.
BuiltInv ==
    \A c \in Callers :
        pc[c] \in {"store", "return"} =>
            /\ e[c] \in Addrs
            /\ heap[e[c]] = [key |-> src[c], val |-> Encode32[src[c]]]

IInv == TypeOK /\ SrcInv /\ SlotInv /\ LoadedInv /\ BuiltInv /\ ResultCorrect

-----------------------------------------------------------------------------
LEMMA InitIInv == Init => IInv
  BY CacheAssumption
     DEF Init, IInv, TypeOK, SrcInv, SlotInv, LoadedInv, BuiltInv, ResultCorrect

\* An allocation leaves every entry that can still be reached as it was.
LEMMA BuildKeepsReachable ==
    ASSUME TypeOK, NEW c \in Callers, NEW a \in Addrs, Build(c, a)
    PROVE  /\ \A b \in Reachable : b \in Addrs => heap'[b] = heap[b]
           /\ \A i \in Slots : slot[i] # Nil => slot[i] # a
           /\ \A d \in Callers : e[d] # Nil => e[d] # a
  BY DEF TypeOK, Build, NewEntry, Reachable, Published, Held

\* One step preserves the inductive invariant: one step per action, with the
\* conjuncts the action disturbs apart from those it leaves alone.
LEMMA StepIInv == IInv /\ [Next]_vars => IInv'
<1> SUFFICES ASSUME IInv, [Next]_vars PROVE IInv'
  OBVIOUS
<1> USE CacheAssumption DEF IInv
<1>1. ASSUME NEW c \in Callers, NEW k \in Keys, Call(c, k)
      PROVE  IInv'
  <2>1. TypeOK' /\ SrcInv'
    BY <1>1 DEF TypeOK, SrcInv, Call
  <2>2. SlotInv' /\ LoadedInv'
    BY <1>1 DEF TypeOK, SlotInv, LoadedInv, Complete, Call
  <2>3. BuiltInv' /\ ResultCorrect'
    BY <1>1 DEF TypeOK, BuiltInv, ResultCorrect, Call
  <2> QED
    BY <2>1, <2>2, <2>3
<1>2. ASSUME NEW c \in Callers, Load(c)
      PROVE  IInv'
  <2>1. TypeOK' /\ SrcInv'
    BY <1>2 DEF TypeOK, SrcInv, Load
  <2>2. SlotInv'
    BY <1>2 DEF SlotInv, Complete, Load
  <2>3. LoadedInv'
    <3>1. src[c] \in Keys /\ Index[src[c]] \in Slots
      BY <1>2 DEF SrcInv, Load
    <3>2. slot[Index[src[c]]] # Nil => Complete(slot[Index[src[c]]])
      BY <3>1 DEF SlotInv
    <3> QED
      BY <1>2, <3>2 DEF TypeOK, LoadedInv, Complete, Load
  <2>4. BuiltInv' /\ ResultCorrect'
    BY <1>2 DEF TypeOK, BuiltInv, ResultCorrect, Load
  <2> QED
    BY <2>1, <2>2, <2>3, <2>4
<1>3. ASSUME NEW c \in Callers, Hit(c)
      PROVE  IInv'
  <2>1. Complete(e[c]) /\ heap[e[c]].key = src[c]
    BY <1>3 DEF LoadedInv, Hit, IsHit
  <2>2. TypeOK' /\ SrcInv'
    BY <1>3, <2>1 DEF TypeOK, SrcInv, Complete, enc32Entry, Hit
  <2>3. SlotInv' /\ LoadedInv'
    BY <1>3 DEF TypeOK, SlotInv, LoadedInv, Complete, Hit
  <2>4. BuiltInv'
    BY <1>3 DEF TypeOK, BuiltInv, Hit
  <2>5. ResultCorrect'
    BY <1>3, <2>1 DEF TypeOK, ResultCorrect, Complete, Hit
  <2> QED
    BY <2>2, <2>3, <2>4, <2>5
<1>4. ASSUME NEW c \in Callers, Miss(c)
      PROVE  IInv'
  <2>1. TypeOK' /\ SrcInv'
    BY <1>4 DEF TypeOK, SrcInv, Miss
  <2>2. SlotInv' /\ LoadedInv'
    BY <1>4 DEF TypeOK, SlotInv, LoadedInv, Complete, Miss
  <2>3. BuiltInv' /\ ResultCorrect'
    BY <1>4 DEF TypeOK, BuiltInv, ResultCorrect, Miss
  <2> QED
    BY <2>1, <2>2, <2>3
<1>5. ASSUME NEW c \in Callers, NEW a \in Addrs, Build(c, a)
      PROVE  IInv'
  <2>1. src[c] \in Keys
    BY <1>5 DEF SrcInv, Build
  <2>2. \A b \in Addrs : b # a => heap'[b] = heap[b]
    BY <1>5 DEF TypeOK, Build, NewEntry
  <2>3. /\ \A i \in Slots : slot[i] # Nil => slot[i] \in Addrs \ {a}
        /\ \A d \in Callers : e[d] # Nil => e[d] \in Addrs \ {a}
    BY <1>5, BuildKeepsReachable DEF TypeOK
  <2>4. TypeOK' /\ SrcInv'
    BY <1>5, <2>1 DEF TypeOK, SrcInv, enc32Entry, Build, NewEntry
  <2>5. SlotInv'
    BY <1>5, <2>2, <2>3 DEF SlotInv, Complete, Build
  <2>6. LoadedInv'
    BY <1>5, <2>2, <2>3 DEF TypeOK, LoadedInv, Complete, Build, NewEntry
  <2>7. BuiltInv'
    <3> SUFFICES ASSUME NEW d \in Callers, pc'[d] \in {"store", "return"}
                 PROVE  /\ e'[d] \in Addrs
                        /\ heap'[e'[d]] = [key |-> src'[d], val |-> Encode32[src'[d]]]
      BY DEF BuiltInv
    <3>1. CASE d = c
      BY <1>5, <3>1 DEF TypeOK, Build, NewEntry
    <3>2. CASE d # c
      <4>1. e'[d] = e[d] /\ src'[d] = src[d] /\ pc'[d] = pc[d]
        BY <1>5, <3>2 DEF TypeOK, Build, NewEntry
      <4> QED
        BY <2>2, <2>3, <4>1 DEF BuiltInv
    <3> QED
      BY <3>1, <3>2
  <2>8. ResultCorrect'
    BY <1>5 DEF TypeOK, ResultCorrect, Build
  <2> QED
    BY <2>4, <2>5, <2>6, <2>7, <2>8
<1>6. ASSUME NEW c \in Callers, Store(c)
      PROVE  IInv'
  <2>1. /\ src[c] \in Keys
        /\ e[c] \in Addrs
        /\ heap[e[c]] = [key |-> src[c], val |-> Encode32[src[c]]]
    BY <1>6 DEF SrcInv, BuiltInv, Store
  <2>2. TypeOK' /\ SrcInv'
    BY <1>6, <2>1 DEF TypeOK, SrcInv, Store
  <2>3. SlotInv'
    <3>1. Complete(e[c]) /\ heap[e[c]].key = src[c]
      BY <2>1 DEF Complete, enc32Entry
    <3>2. heap' = heap /\ \A a : Complete(a)' <=> Complete(a)
      BY <1>6 DEF Complete, Store
    <3>3. \A i \in Slots : slot'[i] = IF i = Index[src[c]] THEN e[c] ELSE slot[i]
      BY <1>6 DEF TypeOK, Store
    <3> QED
      BY <3>1, <3>2, <3>3 DEF SlotInv
  <2>4. LoadedInv'
    BY <1>6 DEF TypeOK, LoadedInv, Complete, Store
  <2>5. BuiltInv' /\ ResultCorrect'
    BY <1>6, <2>1 DEF TypeOK, BuiltInv, ResultCorrect, Store
  <2> QED
    BY <2>2, <2>3, <2>4, <2>5
<1>7. ASSUME NEW c \in Callers, Return(c)
      PROVE  IInv'
  <2>1. src[c] \in Keys /\ heap[e[c]].val = Encode32[src[c]]
    <3>1. /\ src[c] \in Keys
          /\ heap[e[c]] = [key |-> src[c], val |-> Encode32[src[c]]]
      BY <1>7 DEF SrcInv, BuiltInv, Return
    <3> QED
      BY <3>1
  <2>2. TypeOK' /\ SrcInv'
    BY <1>7, <2>1 DEF TypeOK, SrcInv, Return
  <2>3. SlotInv' /\ LoadedInv'
    BY <1>7 DEF TypeOK, SlotInv, LoadedInv, Complete, Return
  <2>4. BuiltInv' /\ ResultCorrect'
    BY <1>7, <2>1 DEF TypeOK, BuiltInv, ResultCorrect, Return
  <2> QED
    BY <2>2, <2>3, <2>4
<1>8. ASSUME NEW c \in Callers, Finish(c)
      PROVE  IInv'
  <2>1. TypeOK' /\ SrcInv'
    BY <1>8 DEF TypeOK, SrcInv, Finish
  <2>2. SlotInv' /\ LoadedInv'
    BY <1>8 DEF TypeOK, SlotInv, LoadedInv, Complete, Finish
  <2>3. BuiltInv' /\ ResultCorrect'
    BY <1>8 DEF TypeOK, BuiltInv, ResultCorrect, Finish
  <2> QED
    BY <2>1, <2>2, <2>3
<1>9. CASE UNCHANGED vars
  BY <1>9 DEF vars, TypeOK, SrcInv, SlotInv, LoadedInv, BuiltInv, ResultCorrect, Complete
<1> QED
  BY <1>1, <1>2, <1>3, <1>4, <1>5, <1>6, <1>7, <1>8, <1>9 DEF Next, EncodeCached32

LEMMA Inductive == Spec => []IInv
  BY InitIInv, StepIInv, PTL DEF Spec

-----------------------------------------------------------------------------
\* Every variable of EncodeCached32 keeps its type.
LEMMA TypeCorrect == Spec => []TypeOK
<1>1. IInv => TypeOK
  BY DEF IInv
<1> QED
  BY <1>1, Inductive, PTL

\* A call of EncodeCached32 returns Encode32 of its own key, however many
\* goroutines share the table and however their keys collide.
THEOREM CachedResultCorrect == Spec => []ResultCorrect
<1>1. IInv => ResultCorrect
  BY DEF IInv
<1> QED
  BY <1>1, Inductive, PTL

\* A slot of enc32Cache only ever publishes a complete entry of its own keys.
THEOREM SlotsHoldOwnKeys == Spec => []SlotHoldsOwnKeys
<1>1. IInv => SlotHoldsOwnKeys
  BY DEF IInv, SlotInv, SlotHoldsOwnKeys, Complete
<1> QED
  BY <1>1, Inductive, PTL

\* An entry is out of everybody else's reach until it is stored: a goroutine
\* can only load what a slot publishes, a slot only gets what its goroutine
\* built, and an allocation takes nothing that is still referred to.
THEOREM EntriesBuiltInPrivate == Spec => []BuiltInPrivate
<1>1. Init => BuiltInPrivate
  BY DEF Init, BuiltInPrivate
<1>2. ASSUME IInv, BuiltInPrivate, [Next]_vars PROVE BuiltInPrivate'
  <2> USE CacheAssumption, <1>2 DEF IInv
  <2> SUFFICES ASSUME NEW c \in Callers, pc'[c] = "store"
               PROVE  /\ \A i \in Slots : slot'[i] # Nil => slot'[i] # e'[c]
                      /\ \A d \in Callers \ {c} : e'[d] # Nil => e'[d] # e'[c]
    BY DEF BuiltInPrivate, Published, Held
  <2>1. ASSUME NEW b \in Callers, pc[b] = "store"
        PROVE  /\ \A i \in Slots : slot[i] # e[b]
               /\ \A d \in Callers \ {b} : e[d] # e[b]
               /\ e[b] \in Addrs
    <3>1. e[b] \in Addrs /\ e[b] # Nil
      BY <2>1 DEF BuiltInv
    <3>2. e[b] \notin Published /\ \A d \in Callers \ {b} : e[b] \notin Held(d)
      BY <2>1 DEF BuiltInPrivate
    <3>3. \A i \in Slots : slot[i] # e[b]
      BY <3>1, <3>2 DEF Published
    <3>4. \A d \in Callers \ {b} : e[d] # e[b]
      BY <3>1, <3>2 DEF Held
    <3> QED
      BY <3>1, <3>3, <3>4
  <2>2. ASSUME NEW g \in Callers, NEW a \in Addrs, Build(g, a)
        PROVE  /\ \A i \in Slots : slot'[i] # Nil => slot'[i] # e'[c]
               /\ \A d \in Callers \ {c} : e'[d] # Nil => e'[d] # e'[c]
    <3>1. /\ \A i \in Slots : slot[i] # Nil => slot[i] # a
          /\ \A d \in Callers : e[d] # Nil => e[d] # a
      BY <2>2, BuildKeepsReachable
    <3>2. slot' = slot /\ e' = [e EXCEPT ![g] = a] /\ pc' = [pc EXCEPT ![g] = "store"]
      BY <2>2 DEF Build, NewEntry
    <3>3. CASE c = g
      BY <3>1, <3>2, <3>3 DEF TypeOK
    <3>4. CASE c # g
      BY <2>1, <3>1, <3>2, <3>4 DEF TypeOK
    <3> QED
      BY <3>3, <3>4
  <2>3. ASSUME NEW g \in Callers, Load(g)
        PROVE  /\ \A i \in Slots : slot'[i] # Nil => slot'[i] # e'[c]
               /\ \A d \in Callers \ {c} : e'[d] # Nil => e'[d] # e'[c]
    <3>1. Index[src[g]] \in Slots
      BY <2>3 DEF Load, SrcInv
    <3>2. c # g /\ pc[c] = "store"
      BY <2>3 DEF Load, TypeOK
    <3> QED
      BY <2>1, <2>3, <3>1, <3>2 DEF Load, TypeOK
  <2>4. ASSUME NEW g \in Callers, Store(g)
        PROVE  /\ \A i \in Slots : slot'[i] # Nil => slot'[i] # e'[c]
               /\ \A d \in Callers \ {c} : e'[d] # Nil => e'[d] # e'[c]
    <3>1. c # g /\ pc[c] = "store"
      BY <2>4 DEF Store, TypeOK
    <3> QED
      BY <2>1, <2>4, <3>1 DEF Store, TypeOK
  <2>5. ASSUME NEW g \in Callers, Hit(g) \/ Miss(g) \/ Return(g)
        PROVE  /\ \A i \in Slots : slot'[i] # Nil => slot'[i] # e'[c]
               /\ \A d \in Callers \ {c} : e'[d] # Nil => e'[d] # e'[c]
    <3>1. c # g /\ pc[c] = "store"
      BY <2>5 DEF Hit, Miss, Return, TypeOK
    <3>2. slot' = slot /\ e' = [e EXCEPT ![g] = Nil]
      BY <2>5 DEF Hit, Miss, Return
    <3> QED
      BY <2>1, <3>1, <3>2 DEF TypeOK
  <2>6. ASSUME \/ \E g \in Callers : Finish(g) \/ \E k \in Keys : Call(g, k)
               \/ UNCHANGED vars
        PROVE  /\ \A i \in Slots : slot'[i] # Nil => slot'[i] # e'[c]
               /\ \A d \in Callers \ {c} : e'[d] # Nil => e'[d] # e'[c]
    <3>1. slot' = slot /\ e' = e /\ pc[c] = "store"
      BY <2>6 DEF Finish, Call, vars, TypeOK
    <3> QED
      BY <2>1, <3>1
  <2> QED
    BY <2>2, <2>3, <2>4, <2>5, <2>6 DEF Next, EncodeCached32
<1> QED
  BY <1>1, <1>2, Inductive, PTL DEF Spec

\* No step changes an entry of enc32Cache that can still be reached.
THEOREM PublishedEntriesImmutable == Spec => EntriesImmutable
<1>1. ASSUME TypeOK, [Next]_vars
      PROVE  [\A a \in Reachable : heap'[a] = heap[a]]_vars
  <2>1. ASSUME NEW c \in Callers, NEW a \in Addrs, Build(c, a)
        PROVE  \A b \in Reachable : heap'[b] = heap[b]
    <3>1. Reachable \subseteq Addrs
      BY <1>1 DEF TypeOK, Reachable, Published, Held
    <3> QED
      BY <1>1, <2>1, <3>1, BuildKeepsReachable
  <2>2. ASSUME NEW c \in Callers,
               \/ \E k \in Keys : Call(c, k)
               \/ Load(c) \/ Hit(c) \/ Miss(c) \/ Store(c) \/ Return(c) \/ Finish(c)
        PROVE  heap' = heap
    BY <2>2 DEF Call, Load, Hit, Miss, Store, Return, Finish
  <2> QED
    BY <1>1, <2>1, <2>2 DEF Next, EncodeCached32
<1> QED
  BY <1>1, TypeCorrect, PTL DEF Spec, EntriesImmutable

\* The initial states and the steps of Cache are those of EncodeService: to
\* its callers the cache is a stateless encoder.  (That every call returns is
\* checked by TLC, see ImplementsService.)
ServiceSafety ==
    /\ Service!Init
    /\ [][Service!Next]_[c \in Callers |-> callState(c)]

\* EncodeCached32 implements the safety part of EncodeService.
THEOREM CacheImplementsService == Spec => ServiceSafety
<1> DEFINE call == [c \in Callers |-> callState(c)]
<1>1. Init => Service!Init
  BY DEF Init, callState, Service!Init, Service!Idle
<1>2. ASSUME IInv, [Next]_vars PROVE [Service!Next]_call
  <2> SUFFICES ASSUME Next PROVE Service!Next \/ call' = call
    BY <1>2 DEF vars, callState
  <2> USE CacheAssumption
  <2> USE <1>2 DEF IInv
  <2>1. ASSUME NEW c \in Callers, NEW k \in Keys, Call(c, k)
        PROVE  Service!Invoke(c, k)
    BY <2>1 DEF TypeOK, Call, callState, Service!Invoke, Service!Idle, Service!Busy
  <2>2. ASSUME NEW c \in Callers,
               Load(c) \/ Miss(c) \/ (\E a \in Addrs : Build(c, a)) \/ Store(c)
        PROVE  call' = call
    BY <2>2 DEF TypeOK, Load, Miss, Build, Store, callState
  <2>3. ASSUME NEW c \in Callers, Hit(c) \/ Return(c)
        PROVE  \E k \in Keys : Service!Respond(c, k)
    <3>1. src[c] \in Keys /\ pc[c] # "idle" /\ pc[c] # "done"
      BY <2>3 DEF SrcInv, Hit, Return
    <3>2. ret' = [ret EXCEPT ![c] = Encode32[src[c]]]
      <4>1. CASE Hit(c)
        BY <4>1 DEF Hit, IsHit, LoadedInv, Complete
      <4>2. CASE Return(c)
        <5>1. heap[e[c]] = [key |-> src[c], val |-> Encode32[src[c]]]
          BY <4>2 DEF Return, BuiltInv
        <5> QED
          BY <4>2, <5>1 DEF Return
      <4> QED
        BY <2>3, <4>1, <4>2
    <3>3. src' = src /\ pc' = [pc EXCEPT ![c] = "done"]
      BY <2>3 DEF Hit, Return
    <3>4. Service!Respond(c, src[c])
      BY <3>1, <3>2, <3>3 DEF TypeOK, callState, Service!Respond, Service!Busy, Service!Done
    <3> QED
      BY <3>1, <3>4
  <2>4. ASSUME NEW c \in Callers, Finish(c)
        PROVE  \E k \in Keys, s \in Strings : Service!Finish(c, k, s)
    <3>1. src[c] \in Keys /\ ret[c] \in Strings
      BY <2>4 DEF SrcInv, ResultCorrect, Finish
    <3>2. Service!Finish(c, src[c], ret[c])
      BY <2>4 DEF TypeOK, Finish, callState, Service!Finish, Service!Done, Service!Idle
    <3> QED
      BY <3>1, <3>2
  <2> QED
    BY <2>1, <2>2, <2>3, <2>4 DEF Next, EncodeCached32, Service!Next
<1> QED
  BY <1>1, <1>2, Inductive, PTL DEF Spec, ServiceSafety
=============================================================================
