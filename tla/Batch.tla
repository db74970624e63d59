------------------------------- MODULE Batch -------------------------------
(***************************************************************************)
(* Encode32Batch and Encode64Batch (batch.go).  All strings of a batch     *)
(* share one backing buffer: every key has a fixed slot in it, keys are    *)
(* rendered four at a time, and as soon as a group is rendered its strings *)
(* are published (unsafe.String) while later keys still go into the same   *)
(* buffer.  The AVX2 kernels store 16 bytes for every 10 characters: each  *)
(* store spills 6 bytes of junk over what follows, which at the end of a   *)
(* group is the next key's slot, and at the end of the batch the tail.     *)
(*                                                                         *)
(* Characters are abstracted to where they belong: the cell at offset x is *)
(* right iff it holds x.  Which digits they are is the business of the     *)
(* fixed-size encoder; all that matters of them here is which are '1'.     *)
(***************************************************************************)
EXTENDS Integers

CONSTANTS
    Limbs,          \* base-58^5 elements per key: 9 (32 bytes) or 18 (64 bytes)
    RawBuf,         \* bytes the array conversion of a single key asks for
    SingleVec,      \* elements of a single key that AVX2 renders: 0 or 16
    Inputs,         \* the batches that are encoded, see InputsAssumption
    Junk            \* what a cell holds that is not the character meant for it

LimbChars == 5      \* characters of one element
VecLimbs  == 2      \* elements rendered by one 16-byte store
VecWidth  == 16
Group     == 4      \* keys rendered by one kernel call
Tail      == 6      \* bytes behind the last slot
Slot      == LimbChars * Limbs      \* raw58Sz32 = 45, raw58Sz64 = 90

\* A batch has n keys.  ones are the offsets, in the n slots, of the characters
\* that are '1'.  Key k starts with zeros[k] zero bytes, and each of them makes
\* a leading '1' of its slot.
ASSUME InputsAssumption ==
    \A b \in Inputs :
        /\ b.n \in Nat
        /\ b.zeros \in [0..(b.n - 1) -> 0..Slot]
        /\ \A k \in 0..(b.n - 1) :
             \A d \in 0..(b.zeros[k] - 1) : k * Slot + d \in b.ones

ASSUME SizesAssumption ==
    /\ Limbs \in Nat \ {0}
    /\ SingleVec \in 0..Limbs /\ SingleVec % VecLimbs = 0
    /\ RawBuf \in Slot..(Slot + Tail)
    /\ Junk \notin Nat

VARIABLES
    in,             \* the batch
    useAVX2,        \* whether the machine runs the AVX2 kernels
    pc,
    i,              \* the first key that is not finished
    l,              \* elements the running kernel has rendered
    j,              \* strings of the current group that are published
    backing,        \* the shared buffer
    out             \* out[k]: the range of backing that string k consists of

vars == <<in, useAVX2, pc, i, l, j, backing, out>>

\* Mutant: forgets the bytes behind the last slot.
Size_NoTail == in.n * Slot

\* make([]byte, n*raw58Sz32+6)
Size     == in.n * Slot + Tail
NoString == [from |-> 0, to |-> 0]

Init ==
    /\ in \in Inputs
    /\ useAVX2 \in BOOLEAN
    /\ pc = "loop"
    /\ i = 0 /\ l = 0 /\ j = 0
    /\ backing = [x \in 0..(Size - 1) |-> Junk]
    /\ out = [k \in 0..(in.n - 1) |-> NoString]

-----------------------------------------------------------------------------
\* Mutants: every group is rendered at the start of the buffer; the elements
\* of a slot are stored last one first.
At_NoBase     == LimbChars * l
At_Descending == i * Slot +
    IF pc = "group"
    THEN LimbChars * (Group * Limbs - l - IF useAVX2 THEN VecLimbs ELSE 1)
    ELSE LimbChars * l

\* The next elements go to offset At: m of them, in one store of width bytes.
At == i * Slot + LimbChars * l

Store(m, width) ==
    /\ backing' = [x \in 0..(Size - 1) |->
                     IF x \in At..(At + LimbChars * m - 1) THEN x
                     ELSE IF x \in At..(At + width - 1) THEN Junk
                     ELSE backing[x]]
    /\ l' = l + m
    /\ UNCHANGED <<in, useAVX2, pc, i, j, out>>

\* digitsToChars36: two elements per 16-byte store, in ascending order.
StoreVector == Store(VecLimbs, VecWidth)

\* extractChars5
StoreScalar == Store(1, LimbChars)

BeginGroup ==
    /\ pc = "loop"
    /\ i + Group <= in.n
    /\ pc' = "group"
    /\ UNCHANGED <<in, useAVX2, i, l, j, backing, out>>

\* Mutant: renders past the last element.
RenderGroup_OffByOne ==
    /\ pc = "group"
    /\ l <= Group * Limbs
    /\ IF useAVX2 THEN StoreVector ELSE StoreScalar

\* encodeRaw32x4 / encodeRaw64x4, one store at a time.
RenderGroup ==
    /\ pc = "group"
    /\ l < Group * Limbs
    /\ IF useAVX2 THEN StoreVector ELSE StoreScalar

\* Leading '1's of the slot at lo, as found in the buffer.
IsOne(v) == v \in in.ones

LeadingCount(buf, lo, m) ==
    /\ \A d \in 0..(m - 1) : IsOne(buf[lo + d])
    /\ m < Slot => ~IsOne(buf[lo + m])

rawLeading0s(buf, lo) == CHOOSE m \in 0..Slot : LeadingCount(buf, lo, m)

\* rawSkip32 / rawSkip64
rawSkip(k) == rawLeading0s(backing, k * Slot) - in.zeros[k]

Publish(k) ==
    out' = [out EXCEPT ![k] = [from |-> k * Slot + rawSkip(k), to |-> k * Slot + Slot]]

PublishGroup ==
    /\ pc = "group"
    /\ l = Group * Limbs
    /\ j < Group
    /\ Publish(i + j)
    /\ j' = j + 1
    /\ UNCHANGED <<in, useAVX2, pc, i, l, backing>>

\* Mutant: the loop does not move to the next group.
EndGroup_Stuck ==
    /\ pc = "group"
    /\ j = Group
    /\ l' = 0 /\ j' = 0
    /\ pc' = "loop"
    /\ UNCHANGED <<in, useAVX2, i, backing, out>>

EndGroup ==
    /\ pc = "group"
    /\ j = Group
    /\ i' = i + Group
    /\ l' = 0 /\ j' = 0
    /\ pc' = "loop"
    /\ UNCHANGED <<in, useAVX2, backing, out>>

BeginSingle ==
    /\ pc = "loop"
    /\ i + Group > in.n
    /\ i < in.n
    /\ pc' = "single"
    /\ UNCHANGED <<in, useAVX2, i, l, j, backing, out>>

\* encodeRaw32 / encodeRaw64: AVX2 renders the first SingleVec elements, then
\* scalar code the rest.
RenderSingle ==
    /\ pc = "single"
    /\ l < Limbs
    /\ IF useAVX2 /\ l < SingleVec THEN StoreVector ELSE StoreScalar

PublishSingle ==
    /\ pc = "single"
    /\ l = Limbs
    /\ Publish(i)
    /\ i' = i + 1
    /\ l' = 0
    /\ pc' = "loop"
    /\ UNCHANGED <<in, useAVX2, j, backing>>

Return ==
    /\ pc = "loop"
    /\ i = in.n
    /\ pc' = "done"
    /\ UNCHANGED <<in, useAVX2, i, l, j, backing, out>>

\* The strings are with the caller: nothing writes to the buffer any more.
Terminated == pc = "done" /\ UNCHANGED vars

Next ==
    \/ BeginGroup \/ RenderGroup \/ PublishGroup \/ EndGroup
    \/ BeginSingle \/ RenderSingle \/ PublishSingle
    \/ Return \/ Terminated

Spec == Init /\ [][Next]_vars /\ WF_vars(Next)

-----------------------------------------------------------------------------
(* Properties *)

\* The position in the loops, the buffer and the published strings have their types.
TypeOK ==
    /\ in \in Inputs
    /\ useAVX2 \in BOOLEAN
    /\ pc \in {"loop", "group", "single", "done"}
    /\ i \in 0..in.n
    /\ l \in 0..(Group * Limbs)
    /\ j \in 0..Group
    /\ backing \in [0..(Size - 1) -> Nat \cup {Junk}]
    /\ out \in [0..(in.n - 1) -> [from : Int, to : Int]]

\* The kernels never store behind the buffer, although the stores of the last
\* group overhang its last slot, and the bounds that extractCharsFlat36 and the
\* array conversion of a single key check up front always hold (no panic).
StoresInBounds ==
    /\ pc = "group" =>
         /\ l < Group * Limbs => At + (IF useAVX2 THEN VecWidth ELSE LimbChars) <= Size
         /\ Size - i * Slot >= Group * Slot + Tail
    /\ pc = "single" =>
         /\ l < Limbs =>
              At + (IF useAVX2 /\ l < SingleVec THEN VecWidth ELSE LimbChars) <= Size
         /\ Size - i * Slot >= RawBuf

\* A published string is immutable although its bytes stay inside a buffer that
\* the following keys are rendered into: no store reaches a published range.
PublishedStable ==
    [][\A k \in 0..(in.n - 1) :
         out[k] # NoString =>
            /\ out'[k] = out[k]
            /\ \A x \in out[k].from..(out[k].to - 1) : backing'[x] = backing[x]]_vars

\* The skip the key's own characters call for: its leading '1's beyond one per
\* leading zero byte.
Skip(k) == rawLeading0s([x \in 0..(Size - 1) |-> x], k * Slot) - in.zeros[k]

\* When the batch returns, string k is key k's encoding: it starts after the
\* skip, ends with the slot, and holds the right character everywhere, with
\* none of the junk the neighbouring stores spilled.
ResultsCorrect ==
    pc = "done" =>
        \A k \in 0..(in.n - 1) :
            /\ out[k] = [from |-> k * Slot + Skip(k), to |-> k * Slot + Slot]
            /\ \A x \in out[k].from..(out[k].to - 1) : backing[x] = x

\* Every batch is finished.
Termination == <>(pc = "done")
=============================================================================
