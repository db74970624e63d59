---------------------------- MODULE AppendEncode ----------------------------
(***************************************************************************)
(* AppendEncode32, AppendEncode64 and AppendEncode (encode.go,             *)
(* append32_amd64.go, chars_amd64.go), and Encode64: where the             *)
(* characters go.  With enough spare capacity the AVX2 kernels store       *)
(* straight into the caller's array, with vector stores that overlap and   *)
(* whose last one ends exactly with the result; otherwise the result is    *)
(* rendered aside and copied, into a larger array if it must be.           *)
(*                                                                         *)
(* All sizes are the real ones.  The characters are those FixedEncode is   *)
(* about; here character x of the result is the number x.                  *)
(***************************************************************************)
EXTENDS Integers

CONSTANTS
    Inputs,         \* see InputsAssumption
    Kept, Dirty,    \* what the caller's array holds, below and above the length
    Junk,           \* anything a kernel writes that is no character of the result
    GrowBound       \* bounds the capacity that append picks

EncodedMaxLen32 == 44
EncodedMaxLen64 == 88
Raw64           == 90
OwnedSize       == 96       \* new([96]byte)
VecWidth        == 32

MaxLen(kind) == IF kind = "32" THEN EncodedMaxLen32 ELSE EncodedMaxLen64

encodeVariableSize(nz) == ((((nz * 138) \div 100) + 1 + 19) \div 20) * 20

\* A call of one kind, with a slice dst, for an input whose encoding has outLen
\* characters, zeros of them for leading zero bytes; nz bytes follow the zeros.
\* That nz bytes have no more digits than encodeVariableSize says is a theorem,
\* SizeSuffices of AppendEncodeProofs.
ASSUME InputsAssumption ==
    \A x \in Inputs :
        /\ x.kind \in {"32", "64", "variable", "owned"}
        /\ x.len \in Nat /\ x.cap \in Nat /\ x.len <= x.cap
        /\ x.outLen \in Nat /\ x.zeros \in 0..x.outLen
        /\ x.kind = "32" => x.outLen \in 32..EncodedMaxLen32
        /\ x.kind \in {"64", "owned"} => x.outLen \in 64..EncodedMaxLen64
        /\ x.kind = "owned" => x.len = 0 /\ x.cap = 0
        /\ x.kind = "variable" => /\ x.nz \in Nat
                                  /\ x.nz = 0 => x.outLen = x.zeros
                                  /\ x.outLen - x.zeros <= encodeVariableSize(x.nz)

ASSUME MarksAssumption == {Kept, Dirty, Junk} \cap Int = {}

ASSUME GrowAssumption == GrowBound \in Nat

VARIABLES
    in,
    useAVX2,
    pc,
    mem,            \* mem["dst"]: the caller's array; mem["new"]: one we allocated
    cur,            \* the slice that is returned in the end
    j               \* stores done, or zero characters appended

vars == <<in, useAVX2, pc, mem, cur, j>>

start == in.len
n     == in.outLen

Init ==
    /\ in \in Inputs
    /\ useAVX2 \in BOOLEAN
    /\ pc = "begin"
    /\ mem = [dst |-> [x \in 0..(in.cap - 1) |-> IF x < in.len THEN Kept ELSE Dirty],
              new |-> [x \in {} |-> 0]]
    /\ cur = [arr |-> "dst", from |-> 0, len |-> in.len, cap |-> in.cap]
    /\ j = 0

-----------------------------------------------------------------------------
(* Arrays *)

Grown(c) == [x \in 0..(c - 1) |-> IF x < cur.len THEN mem[cur.arr][x] ELSE Junk]

\* A store of the characters chr[0..width-1] at offset at of array a.  Cells
\* behind the array are written too: that is what StoresInBounds is about.
Put(a, at, width, chr) ==
    [x \in DOMAIN a \cup at..(at + width - 1) |->
        IF x >= at /\ x < at + width THEN chr[x - at] ELSE a[x]]

\* width characters of the result, from character from on.
Chars(from, width) ==
    [x \in 0..(width - 1) |-> IF from + x \in 0..(n - 1) THEN from + x ELSE Junk]

-----------------------------------------------------------------------------
(* The AVX2 kernels: 32 and 64 bytes *)

\* Mutant: looks at the capacity of the whole slice.
Roomy_Cap == in.cap >= MaxLen(in.kind)

\* cap(dst)-len(dst) < EncodedMaxLen32 is left to the portable code.
Roomy == in.cap - in.len >= MaxLen(in.kind)

BeginKernel ==
    /\ pc = "begin"
    /\ in.kind \in {"32", "64"}
    /\ useAVX2 /\ Roomy
    /\ pc' = "kernel"
    /\ UNCHANGED <<in, useAVX2, mem, cur, j>>

\* Mutant: whole vectors one behind the other.
KernelStores_Ascending ==
    IF in.kind = "32" THEN << <<0, 32>>, <<32, 16>> >>
    ELSE << <<0, 32>>, <<32, 32>>, <<64, 32>> >>

\* Offset and width of each store; the last ends with the result.
KernelStores ==
    IF in.kind = "32" THEN << <<0, 32>>, <<n - 16, 16>> >>
    ELSE << <<0, 32>>, <<32, 32>>, <<n - 32, 32>> >>

Stores == IF in.kind = "32" THEN 2 ELSE 3

StoreVector ==
    /\ pc = "kernel"
    /\ j < Stores
    /\ LET s == KernelStores[j + 1]
       IN  mem' = [mem EXCEPT !["dst"] = Put(@, start + s[1], s[2], Chars(s[1], s[2]))]
    /\ j' = j + 1
    /\ UNCHANGED <<in, useAVX2, pc, cur>>

KernelReturn ==
    /\ pc = "kernel"
    /\ j = Stores
    /\ cur' = [cur EXCEPT !.len = start + n]
    /\ pc' = "done"
    /\ UNCHANGED <<in, useAVX2, mem, j>>

-----------------------------------------------------------------------------
(* The portable code, and too little room for the kernels *)

\* AppendEncode32 asks for room for the next call as well when it grows with AVX2.
minEncodedCap == IF in.kind = "32" /\ useAVX2 THEN EncodedMaxLen32 ELSE 0

\* Mutant: reallocates whenever the kernels do not apply.
CopyResult_AlwaysGrow ==
    /\ pc = "begin"
    /\ in.kind \in {"32", "64"}
    /\ ~(useAVX2 /\ Roomy)
    /\ mem' = [mem EXCEPT !["new"] = Put(Grown(start + n), start, n, Chars(0, n))]
    /\ cur' = [arr |-> "new", from |-> 0, len |-> start + n, cap |-> start + n]
    /\ pc' = "done"
    /\ UNCHANGED <<in, useAVX2, j>>

\* appendEncode32GenericCapacity, AppendEncode64: outLen is known first, then
\* exactly that many characters are copied behind the slice.
CopyResult ==
    /\ pc = "begin"
    /\ in.kind \in {"32", "64"}
    /\ ~(useAVX2 /\ Roomy)
    /\ IF in.cap < start + n
       THEN LET c == start + IF n > minEncodedCap THEN n ELSE minEncodedCap
            IN  /\ mem' = [mem EXCEPT !["new"] = Put(Grown(c), start, n, Chars(0, n))]
                /\ cur' = [arr |-> "new", from |-> 0, len |-> start + n, cap |-> c]
       ELSE /\ mem' = [mem EXCEPT !["dst"] = Put(@, start, n, Chars(0, n))]
            /\ cur' = [cur EXCEPT !.len = start + n]
    /\ pc' = "done"
    /\ UNCHANGED <<in, useAVX2, j>>

-----------------------------------------------------------------------------
(* AppendEncode of other lengths *)

BeginVariable ==
    /\ pc = "begin"
    /\ in.kind = "variable"
    /\ pc' = "zeros"
    /\ UNCHANGED <<in, useAVX2, mem, cur, j>>

\* for range zcount { dst = append(dst, '1') }
AppendOne ==
    /\ pc = "zeros"
    /\ j < in.zeros
    /\ LET chr == [x \in {0} |-> j]
       IN  IF cur.len < cur.cap
           THEN /\ mem' = [mem EXCEPT ![cur.arr] = Put(@, cur.len, 1, chr)]
                /\ cur' = [cur EXCEPT !.len = @ + 1]
           ELSE \E c \in (cur.len + 1)..(cur.len + 1 + GrowBound) :
                  /\ mem' = [mem EXCEPT !["new"] = Put(Grown(c), cur.len, 1, chr)]
                  /\ cur' = [arr |-> "new", from |-> 0, len |-> cur.len + 1, cap |-> c]
    /\ j' = j + 1
    /\ UNCHANGED <<in, useAVX2, pc>>

tail == n - in.zeros        \* characters behind the zeros

\* Room for the estimate; encodeTail leaves the characters at its end, with
\* nothing to rely on in front of them.
EncodeTail ==
    LET size == encodeVariableSize(in.nz)
        p    == size - tail
        at   == start + in.zeros
        chr  == [x \in 0..(size - 1) |-> IF x < p THEN Junk ELSE in.zeros + x - p]
    IN  /\ pc = "zeros"
        /\ j = in.zeros
        /\ IF in.nz = 0
           THEN pc' = "done" /\ UNCHANGED <<mem, cur>>
           ELSE /\ pc' = "shift"
                /\ IF cur.cap < at + size
                   THEN /\ mem' = [mem EXCEPT !["new"] = Put(Grown(at + size), at, size, chr)]
                        /\ cur' = [arr |-> "new", from |-> 0, len |-> at + size, cap |-> at + size]
                   ELSE /\ mem' = [mem EXCEPT ![cur.arr] = Put(@, at, size, chr)]
                        /\ cur' = [cur EXCEPT !.len = at + size]
        /\ UNCHANGED <<in, useAVX2, j>>

\* Mutant: moves one character too few.
ShiftDown_Short ==
    LET p  == encodeVariableSize(in.nz) - tail
        at == start + in.zeros
        chr == [x \in 0..(tail - 1) |-> mem[cur.arr][at + p + x]]
    IN  /\ pc = "shift"
        /\ mem' = [mem EXCEPT ![cur.arr] = Put(@, at, tail - 1, chr)]
        /\ cur' = [cur EXCEPT !.len = @ - p]
        /\ pc' = "done"
        /\ UNCHANGED <<in, useAVX2, j>>

\* copy(dst[start:], dst[start+p:]); return dst[:len(dst)-p]
ShiftDown ==
    LET p  == encodeVariableSize(in.nz) - tail
        at == start + in.zeros
        chr == [x \in 0..(tail - 1) |-> mem[cur.arr][at + p + x]]
    IN  /\ pc = "shift"
        /\ mem' = [mem EXCEPT ![cur.arr] = Put(@, at, tail, chr)]
        /\ cur' = [cur EXCEPT !.len = @ - p]
        /\ pc' = "done"
        /\ UNCHANGED <<in, useAVX2, j>>

-----------------------------------------------------------------------------
(* Encode64: the string points into an array it owns *)

\* Without a leading zero byte the raw form is stored whole and the string
\* starts behind its surplus digits; with one, the trimmed form is stored and
\* the last vector runs past its end.
OwnedStores ==
    LET shift == IF in.zeros = 0 THEN Raw64 - n ELSE 0
    IN  /\ pc = "begin"
        /\ in.kind = "owned"
        /\ useAVX2
        /\ mem' = [mem EXCEPT !["new"] = Put(<<>>, 0, 3 * VecWidth, Chars(-shift, 3 * VecWidth))]
        /\ cur' = [arr |-> "new", from |-> shift, len |-> n, cap |-> OwnedSize]
        /\ pc' = "done"
        /\ UNCHANGED <<in, useAVX2, j>>

\* encode64Generic: an array of exactly the result's length.
OwnedGeneric ==
    /\ pc = "begin"
    /\ in.kind = "owned"
    /\ ~useAVX2
    /\ mem' = [mem EXCEPT !["new"] = Put(<<>>, 0, n, Chars(0, n))]
    /\ cur' = [arr |-> "new", from |-> 0, len |-> n, cap |-> n]
    /\ pc' = "done"
    /\ UNCHANGED <<in, useAVX2, j>>

Terminated == pc = "done" /\ UNCHANGED vars

Next ==
    \/ BeginKernel \/ StoreVector \/ KernelReturn
    \/ CopyResult
    \/ BeginVariable \/ AppendOne \/ EncodeTail \/ ShiftDown
    \/ OwnedStores \/ OwnedGeneric
    \/ Terminated

Spec == Init /\ [][Next]_vars

-----------------------------------------------------------------------------
(* Properties *)

\* No store of a kernel, and no estimate of a size, reaches behind the array.
StoresInBounds ==
    /\ DOMAIN mem["dst"] \subseteq 0..(in.cap - 1)
    /\ cur.arr = "new" => DOMAIN mem["new"] \subseteq 0..(cur.cap - 1)

\* The result is the old contents followed by the characters in order, although
\* they come in overlapping stores, from the right end, or at an offset.
ResultExact ==
    pc = "done" =>
        /\ cur.len = start + n
        /\ \A x \in 0..(cur.len - 1) :
             mem[cur.arr][cur.from + x] = IF x < start THEN Kept ELSE x - start

\* The caller's bytes stay as they are all along; of the spare capacity,
\* AppendEncode32 and AppendEncode64 write only the encoded bytes.
CallerBytesKept ==
    /\ \A x \in 0..(start - 1) : mem["dst"][x] = Kept
    /\ in.kind \in {"32", "64"} =>
         \A x \in (start + n)..(in.cap - 1) : mem["dst"][x] = Dirty

\* They allocate only if dst has insufficient capacity for the actual result,
\* also when there is not enough for the kernels; AppendEncode when it has
\* none for the estimate.
ReusesCapacity ==
    pc = "done" /\ in.kind # "owned" =>
        (cur.arr = "dst" <=>
            in.cap >= IF in.kind = "variable" /\ in.nz > 0
                      THEN start + in.zeros + encodeVariableSize(in.nz) ELSE start + n)
=============================================================================
