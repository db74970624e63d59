---------------------------- MODULE LargeDecode ----------------------------
(***************************************************************************)
(* The value of a very long base58 string (large.go: decodeLargeTree,      *)
(* largePower58, decodeLargeLeaf, decodeLargeGroup).  A string is split in *)
(* two until its parts are leaves, a leaf is folded group by group, and    *)
(* two parts are joined by left * 58^len(right) + right.                   *)
(*                                                                         *)
(* big.Int values are updated in place and passed by pointer: the powers   *)
(* that a join multiplies by are entries of the package's table or of the  *)
(* call's memo, shared by every later join and, the table, by every later  *)
(* call.  The module therefore keeps a heap, addresses and a call stack.   *)
(*                                                                         *)
(* appendDecodeLarge has validated every character before it calls the     *)
(* tree, so src holds digits here, and the paths for invalid characters in *)
(* the tree are never taken.  AppendDecode models the caller's side.       *)
(***************************************************************************)
EXTENDS Radix, SequencesExt

CONSTANTS
    Base,       \* 58
    Group,      \* characters per group, and the last entry of the table: 10
    LeafChars,  \* largeDecodeLeafChars
    Wrap,       \* 2^64
    Inputs      \* digit strings

\* A string longer than a leaf splits in two parts that are both shorter.
ASSUME LargeAssumption ==
    /\ {Base, Group, LeafChars, Wrap} \subseteq Nat \ {0}
    /\ LeafChars + 1 >= 2 * Group
    /\ Pow(Base, Group) <= Wrap
    /\ \A s \in Inputs : s \in Seq(0..(Base - 1))

VARIABLES
    src,
    heap,       \* the big.Int at each address
    powers,     \* the memo: exponent -> address
    stack,      \* the frames of the calls under way, the last one running
    ret         \* the address the last call returned

vars == <<src, heap, powers, stack, ret>>

Tree(from, len) == [fn |-> "tree", at |-> "enter", from |-> from, len |-> len, left |-> -1, right |-> -1]
Leaf(from, len, group, value) == [fn |-> "leaf", from |-> from, len |-> len, group |-> group, value |-> value]
Power(exponent) == [fn |-> "power", at |-> "enter", exponent |-> exponent, first |-> -1]

\* largePow58, at the addresses of its exponents.
largePow58 == [e \in 0..Group |-> Pow(Base, e)]

Init ==
    /\ src \in Inputs
    /\ heap = largePow58
    /\ powers = [e \in {} |-> 0]
    /\ stack = <<Tree(0, Len(src))>>
    /\ ret = -1

uint64(x) == x % Wrap

top == Last(stack)

Running(fn, at) == stack # <<>> /\ top.fn = fn /\ top.at = at

\* new(big.Int) with a value.
fresh == Cardinality(DOMAIN heap)
Alloc(value) == heap' = [a \in DOMAIN heap \cup {fresh} |-> IF a = fresh THEN value ELSE heap[a]]

Return(address) == stack' = Front(stack) /\ ret' = address

\* The running frame becomes frame and calls callee.
Call(frame, callee) == stack' = Append(Front(stack), frame) \o <<callee>> /\ UNCHANGED ret

-----------------------------------------------------------------------------
(* decodeLargeTree *)

\* split := len(src) / 2; split -= split % 10
split(n) == (n \div 2) - ((n \div 2) % Group)

\* Mutant: the halves are taken to be of the same length.
rightLen_Split(n) == split(n)

rightLen(n) == n - split(n)

\* The remainder comes first, a full group when there is none.
EnterLeaf ==
    /\ Running("tree", "enter")
    /\ top.len <= LeafChars
    /\ Alloc(0)
    /\ stack' = Append(Front(stack),
                  Leaf(top.from, top.len, IF top.len % Group = 0 THEN Group ELSE top.len % Group, fresh))
    /\ UNCHANGED <<src, powers, ret>>

Left ==
    /\ Running("tree", "enter")
    /\ top.len > LeafChars
    /\ Call([top EXCEPT !.at = "left"], Tree(top.from, split(top.len)))
    /\ UNCHANGED <<src, heap, powers>>

Right ==
    /\ Running("tree", "left")
    /\ Call([top EXCEPT !.at = "right", !.left = ret],
            Tree(top.from + split(top.len), top.len - split(top.len)))
    /\ UNCHANGED <<src, heap, powers>>

RightPower ==
    /\ Running("tree", "right")
    /\ Call([top EXCEPT !.at = "power", !.right = ret], Power(rightLen(top.len)))
    /\ UNCHANGED <<src, heap, powers>>

\* Mutant: the product is computed in the power.
Combine_IntoPower ==
    /\ Running("tree", "power")
    /\ heap' = [heap EXCEPT ![ret] = heap[top.left] * @ + heap[top.right]]
    /\ Return(ret)
    /\ UNCHANGED <<src, powers>>

\* left.Mul(left, power); left.Add(left, right)
Combine ==
    /\ Running("tree", "power")
    /\ heap' = [heap EXCEPT ![top.left] = @ * heap[ret] + heap[top.right]]
    /\ Return(top.left)
    /\ UNCHANGED <<src, powers>>

-----------------------------------------------------------------------------
(* largePower58 *)

PowerKnown ==
    /\ Running("power", "enter")
    /\ \/ top.exponent <= Group /\ Return(top.exponent)
       \/ top.exponent > Group /\ top.exponent \in DOMAIN powers /\ Return(powers[top.exponent])
    /\ UNCHANGED <<src, heap, powers>>

PowerFirst ==
    /\ Running("power", "enter")
    /\ top.exponent > Group /\ top.exponent \notin DOMAIN powers
    /\ Call([top EXCEPT !.at = "first"], Power(top.exponent \div 2))
    /\ UNCHANGED <<src, heap, powers>>

PowerSecond ==
    /\ Running("power", "first")
    /\ Call([top EXCEPT !.at = "second", !.first = ret], Power(top.exponent - top.exponent \div 2))
    /\ UNCHANGED <<src, heap, powers>>

PowerStore ==
    /\ Running("power", "second")
    /\ Alloc(heap[top.first] * heap[ret])
    /\ powers' = [e \in DOMAIN powers \cup {top.exponent} |->
                    IF e = top.exponent THEN fresh ELSE powers[e]]
    /\ Return(fresh)
    /\ UNCHANGED src

-----------------------------------------------------------------------------
(* decodeLargeLeaf *)

decodeLargeGroup(from, n) ==
    LET value[k \in 0..n] == IF k = 0 THEN 0 ELSE uint64(value[k - 1] * Base + src[from + k])
    IN  value[n]

LeafGroup ==
    /\ stack # <<>> /\ top.fn = "leaf"
    /\ top.len > 0
    /\ heap' = [heap EXCEPT ![top.value] =
                  @ * heap[top.group] + decodeLargeGroup(top.from, top.group)]
    /\ stack' = Append(Front(stack), Leaf(top.from + top.group, top.len - top.group, Group, top.value))
    /\ UNCHANGED <<src, powers, ret>>

LeafReturn ==
    /\ stack # <<>> /\ top.fn = "leaf"
    /\ top.len = 0
    /\ Return(top.value)
    /\ UNCHANGED <<src, heap, powers>>

Terminated == stack = <<>> /\ UNCHANGED vars

Next ==
    \/ EnterLeaf \/ Left \/ Right \/ RightPower \/ Combine
    \/ PowerKnown \/ PowerFirst \/ PowerSecond \/ PowerStore
    \/ LeafGroup \/ LeafReturn
    \/ Terminated

Spec == Init /\ [][Next]_vars

-----------------------------------------------------------------------------
(* Properties *)

\* No join writes into what it shares: the table of powers that all calls use
\* and every power memoised by this call keep the exact value that their
\* exponent stands for, however often a later join takes them as an operand.
PowersExact ==
    /\ \A e \in 0..Group : heap[e] = Pow(Base, e)
    /\ \A e \in DOMAIN powers : heap[powers[e]] = Pow(Base, e)

\* The tree returns the value of the whole string: parts of unequal length are
\* joined with the power of the right one, and groups of unequal length with
\* their own power, whatever the length of the string.
ResultExact ==
    stack = <<>> => heap[ret] = Value([k \in 0..(Len(src) - 1) |-> src[k + 1]], Len(src), Base)
=============================================================================
