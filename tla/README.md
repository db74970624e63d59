# TLA+ specification of fluxrpc/base58

This directory holds the formal model of the package: TLA+ modules for its
components, TLC configurations that check them on small instances, and TLAPS
proofs that remove the bounds: for the cache, the batch encoders, the fixed-size
encoders and decoders, the appending encoders and the large decoder every safety
property that a run checks is also a theorem. `PROJECT.json` maps every definition to the source lines it stands for.

    tlc -config MCCache.cfg MCCache            # one run
    tlapm CacheProofs.tla                      # the proofs of one module

## 1. The system

base58 converts byte strings to base58 text and back. Its core is arithmetic on
numbers in two radices, and its difficulty is that the arithmetic is done
without carries until the very end, in machine words that almost overflow, by
half a dozen hand-scheduled kernels that store past the end of what they mean
to write.

| component | state | operations | interacts with |
|---|---|---|---|
| interning cache (`cache.go`) | 2^14 atomic pointers to immutable entries, shared by all goroutines | `EncodeCached32` | calls `Encode32` on a miss |
| batch encoders (`batch.go`) | one backing buffer that all result strings point into | `Encode32Batch`, `Encode64Batch` | the character kernels, `encodeRaw32/64` |
| fixed-size encoders (`encode.go`, `matmul*`, `encode_full*`) | column sums, then limbs in base 58^5, a carry | `Encode32`, `Encode64`, `encodeRaw..`, `encode32Render`, `encode64Parts`, the AVX2 kernels | tables |
| fixed-size decoders (`decode.go`, `decode_f*`, `matmul*`) | limbs, column sums in base 2^32, a carry, the output array | `Decode32`, `Decode64` | tables |
| variable decoder (`decode.go`, `large.go`) | a little-endian limb array, the caller's buffer | `Decode`, `AppendDecode` | tries `Decode32`, `Decode64` first |
| appending encoders (`encode.go`, `append32_*`, `chars_*`, `encode64_*`) | the caller's buffer with length and capacity | `AppendEncode`, `AppendEncode32`, `AppendEncode64`, the owned array of `Encode64` | the fixed-size kernels, the variable encoders |
| variable encoders (`encode.go`, `encode_block*`, `large.go`) | base 58^5 digits, column sums | small, matrix, block/Horner, large | fixed-size matrix kernels |
| tables (`tables.go`), CPU detection (`cpu_amd64.*`) | written once by `init` | – | everyone |

There is no I/O, no timeout and nothing persistent: concurrency is confined to
the cache, and failure means refusing a string. What is hard here:

* **interleavings** of lookups, misses and slot swaps in the lock-free cache;
* **order of overlapping stores**: vector stores overhang into the next slot,
  or into what has already been handed out as a string;
* **sums at the edge of a word**: column 16 of the 64-byte encoder really
  exceeds 2^64 without the mini-reduction (1.447 * 2^64 at worst), and the
  columns of the 64-byte decoder reach 0.998 * 2^64;
* **rare carries**: the full AVX2 kernel cuts its carry chain in two and takes
  its repair branch only when two limbs are at their maximum at once;
* **lengths at a boundary**: leading zeros, surplus digits, estimates of sizes,
  capacities that are just enough, five encoders that take over from one another;
* **scratch that is used again**: column sums and limbs of the previous block,
  big integers that are operands of several products;
* **arithmetic in disguise**: quotients by rounded reciprocals, characters by
  nibble tables and thresholds, chunks that overlap by a varying amount;
* **reused buffers** that hold old data, and **refusals** that must leave them
  alone.

`PROJECT.json` lists these as hazards, each at its line, with the properties
that would catch it.

What makes each component correct:

* cache: every call returns what `Encode32` returns for its own key; entries
  are out of everybody's reach while they are built and never change once a slot
  or a goroutine refers to them; every call returns;
* batch: no store outside the buffer; each string is its own key's, trimmed
  right; a string that was handed out never changes; the loop ends;
* encoders: nothing is lost on the way from words to limbs; every limb that is
  rendered is below 58^5; the text is *the* encoding of the input;
* decoders: nothing is lost on the way from limbs to words; the outcome, with
  its error, is exactly determined by the string; only encodings are accepted;
* variable encoders: the digits are worth the bytes consumed at every step, all
  stores stay in arrays of estimated size, all generators give the one encoding;
* large decoder: shared powers are never written to, the value is exact;
* character kernels: no load outside the string, every character is checked and
  ends up in its place, every digit is exact;
* appending functions: the result is the old contents followed by the right
  characters or bytes; the caller's bytes, and on failure the whole buffer, are
  left alone; a buffer that is large enough is used.

## 2. Modules

| module | models |
|---|---|
| `EncodeService` | abstract: what `EncodeCached32` promises, without a cache |
| `Cache` | `cache.go`, one action per atomic step of a call |
| `CacheProofs` | theorems about `Cache` |
| `Batch` | `batch.go` and the stores of the character kernels, real sizes |
| `BatchProofs` | theorems about `Batch` |
| `Radix` | positional notation and the definition of what an encoding is |
| `RadixProofs` | lemmas about `Radix`: induction, division, values, powers, digits |
| `FixedEncode` | the encoders of 32 and 64 bytes, all five paths |
| `FixedEncodeProofs` | theorems about `FixedEncode`, and the reciprocals of the kernels |
| `FixedDecode` | `Decode32`, `Decode64`, portable, assembly and fused |
| `FixedDecodeProofs` | theorems about `FixedDecode` |
| `AppendDecode` | `Decode`, `AppendDecode`, the limb decoder, buffers |
| `AppendDecodeProofs` | theorems about `AppendDecode`, and that its constants suffice |
| `AppendEncode` | where the appending encoders and `Encode64` store what |
| `AppendEncodeProofs` | theorems about `AppendEncode`, and that the size estimate suffices |
| `VariableEncode` | `encodeVariable`: the small, matrix, block and large generators |
| `LargeDecode` | the product tree of `large.go`, with heap and call stack |
| `LargeDecodeProofs` | theorems about `LargeDecode` |
| `Alphabet` | the alphabet, its lookup tables, and three vector instructions |
| `CharReaders` | characters to elements: `decode*Generic`, the fused kernels, real constants |
| `CharWriters` | elements to characters: seven renderers, real constants |
| `MC*` | the instances for TLC |

Definitions that end in `_Something` (for example `CarryStep_OffByOne`) are
deliberately wrong versions of the definition before the underscore. Nothing
refers to them; substituted for the original they make a property fail, and
that documents what the property is sensitive to.

### Cache

`slot` is `enc32Cache`, `heap` the entries, `pc`, `src`, `e`, `ret` the locals
of each goroutine. `Call`, `Load`, `Hit` or `Miss`, `Build`, `Store`, `Return`
are the steps of `EncodeCached32` between which another goroutine can run:
`slot.Load()`, the comparison of the key, building the entry, `slot.Store(e)`.
The slot function `Index` and the encoder `Encode32` are constants, so the
model covers every hash and every collision. Entries are allocated from `Addrs`;
an address may be used again only when neither a slot nor a goroutine refers to
it, which is what the garbage collector guarantees. `Build` is one step although
the code fills the entry in by several plain writes; `BuiltInPrivate` is why that
is sound: nobody else can reach the entry before `Store`. A free list of evicted
entries, say, would break it, because a goroutine may have loaded an entry
before it was evicted.

`ImplementsService` maps a goroutine's locals to the state of its call in
`EncodeService` (`INSTANCE EncodeService WITH call <- ...`). Fairness is weak
fairness of each goroutine's own steps: the Go scheduler does not stop a
runnable goroutine forever, and none of the steps blocks. Starting a call and
taking its result is up to the caller, and is not fair.

### Batch

`backing` is the shared buffer, and a cell holds the name of the character that
was last stored there: the position it belongs to, or `Junk` for the bytes a
vector store writes beyond its own characters. `RenderGroup` and
`RenderSingle` take one store each: with AVX2, a vector of 16 bytes that holds
the ten characters of two elements; otherwise the five characters of one element.
`PublishGroup` and `PublishSingle` are the creation of a string, with the skip
computed from the buffer as `rawSkip32` / `rawSkip64` / `encodeRaw..` do.
Fairness is weak fairness of the one sequential process.

### FixedEncode and FixedDecode

The state is the code's: `im` is `intermediate`, `bin` the words, `carry` the
register of the chain, `row` and `i` the loop variables. `MulRow` adds one row
of the matrix product to all columns, modulo `Wrap` (2^64 in the code), so a sum
that overflows is wrong in the model too. `FixedEncode` has one path for each
way the code takes:

| path | code | carry chain | trimming |
|---|---|---|---|
| `raw` | `encodeRaw32`, `encodeRaw64`, `encode64DirectAVX2` | serial | scan |
| `render` | `encode32Render`; `encode64Parts` + AVX2 `encode64Write` | serial | by digit count |
| `write` | `encode64Parts` + `encode64WriteGeneric` | serial | written in place |
| `append` | `encode32AppendAVX2` | serial | one digit, or scan |
| `full` | `encode64Full*AVX2` | two halves, `Patch`, `Ripple` | one digit, or scan |

`encode64DirectAVX2` is called for inputs with a leading zero byte, where it
scans. The portable and AVX2 decoders differ in when bytes are stored and in
how a carry is represented; `fused` selects the kernels that keep the high
halves of the columns and add with a carry flag.

TLC's integers have 32 bits, so the runs use *scaled radices* (base 3 with two
digits a limb, base 4 with three bytes a word). They are chosen so that the
relations the code depends on are the same as for 58, 5, 256 and 4:

* the table has one column less than there are limbs, so the first limb gets
  nothing but the last carry;
* in the 64-byte form exactly one column, the last but one limb, exceeds
  `Wrap` without the mini-reduction; in the 32-byte form none does;
* an input whose first byte is not zero has one of exactly two lengths
  (`LengthAssumption`), and the raw form has surplus digits;
* in decoding, the largest column sum and the largest carry fit `Wrap` with
  nothing to spare (1886 in `MCFixedDecode64.cfg`);
* the largest string value exceeds the largest byte value, so that too large a
  value exists.

The assumptions of the modules state these relations and TLC evaluates them.

`ValuePreserved` is the core: at *every* step, limbs, second sum and carries in
flight are worth exactly the words read so far. `ResultCorrect` and
`AcceptsOnlyEncodings` compare with `Radix!IsEncoding`, which does not compute an
encoding but says what one is.

### AppendDecode and AppendEncode

Both have a model of Go slices: `mem` holds the caller's array and the one the
call allocated, `cur` the slice as it is reassigned. The caller's cells are
`Kept` below the length and `Dirty` above it, so that a result with a stale byte
in it is visible. `append` chooses any capacity up to `GrowBound` more than it
needs. In `AppendDecode` the strings are real (scaled radices again, and a rational
scaled to them); in `AppendEncode` the sizes are real and character `x` is the number `x`. The fixed
decoders are used in `AppendDecode` by the contract that `FixedDecode` checks;
the variable encoders are used in `AppendEncode` by theirs: the characters end
at the right end of the buffer, with anything in front of them.

### VariableEncode

The state is that of `encodeVariable` and the generator it picks: `out` and `p`
are the buffer and the cursor, `pos` counts the bytes consumed, `digits`,
`count` and `tmp` are the scratch of `encodeBlockTailScratch`. The three forms of
`digits * 2^512 + block` are three actions (`ConvolveAVX2`, `ConvolveRows`,
`ConvolveColumns`), each with its own idea of which columns it writes and what
it clears; `encodeReduceColumns` follows. Arrays are functions that a store may
extend, so an index out of range is seen by `StoresInBounds` and not hidden. The
matrix kernels are used by their contract, which `FixedEncode` checks. The run
scales the radices (base 2 with three digits a limb, base 3 with two bytes a
word, blocks of eight bytes) and sets `Wrap` to 140, which the largest column of
a product just fits.

### LargeDecode

`big.Int` values are mutable and shared, so the module has a heap of values with
addresses, the memo of powers by address, and a stack of frames for the
recursion of `decodeLargeTree` and `largePower58`. The addresses 0 to 10 are the
package's table. `Combine` is the pair `left.Mul(left, power)`,
`left.Add(left, right)`. `appendDecodeLarge` validates the whole string before
it calls the tree, so the tree's own error paths are never taken.

### CharReaders and CharWriters

These two modules have the code's own constants and no scaling. `CharReaders`
starts at the string and ends with the elements that `FixedDecode` starts from:
`loads` are the offsets of the 16-byte chunks, `lanes` their contents through
classification, shuffle and Horner step. `CharWriters` starts at the reduced
elements that `FixedEncode` renders. Reciprocals are multiplied in base 2^15
because a product has 64 bits; `VPSHUFB`, `VPAND`, `VPOR` and the byte shifts
are modelled from the instructions' definition and marked external.

## 3. Runs

| run | instance | shows |
|---|---|---|
| `cache` | 2 goroutines, 3 keys (two share a slot), 2 slots, 4 addresses | right strings, own keys in slots, entries built in private, immutable entries, refinement of `EncodeService` with liveness |
| `batch` | the sizes of `Encode64Batch`, 0 to 9 keys, with and without AVX2 | bounds, order of stores, stability, termination |
| `encode32` | all 4096 inputs of 2 words | `raw`, `render`, `append` |
| `encode64` | 5 words from extreme values, and edges of lengths | `raw`, `render`, `write`, `full` |
| `decode32` | all strings up to one character too long, invalid characters in strings up to 5 | exact outcome on the portable, assembly and fused path |
| `decode64` | strings at the edges, word with almost no room | the same, and no column wraps |
| `append_decode` | all strings up to 6 characters, invalid ones up to 4, long ones of 11; several buffers | every route gives the same result in the right place |
| `variable_encode` | every length up to 19 scaled bytes, sizes and leading zeros at all thresholds, largest and smallest values | digits worth the bytes at every step, stores in bounds, one encoding whatever the generator |
| `large_decode` | base 3, groups of 2, leaves of 5, strings of up to 18 digits | shared powers unchanged, exact value |
| `char_readers` | every length the fused kernels accept (32 to 45, 64 to 90) and shorter ones, all 256 byte values, an invalid byte at every position | loads in bounds, refusal and elements exact |
| `char_writers` | elements on both sides of multiples of every divisor, and the extremes | characters exact in seven renderers |
| `append_encode` | result lengths at both ends, spare capacity around every threshold | placement of all stores |

Why the bounds are enough. The cache step relation treats goroutines, keys and
slots alike, two goroutines give every interleaving of two calls, and three keys
a collision and a bystander; the proofs remove the bound. Nine keys are two
groups of four and a single key, and 0 to 9 covers every remainder with and
without a group before it. The encoder and decoder instances are discussed
above. For buffers, the values just below, at and just above each comparison are
the ones that can differ. In `variable_encode` the lengths reach two blocks
behind a head, so that the second product finds the columns of the first, and
each of the five generators; in `large_decode` eighteen digits are split three
times, unequally. A reader treats the bytes of a string alike except for their
position, so all bytes are tried in four strings of each size, at varying
positions, and one invalid byte at all positions. A rounded reciprocal first
fails next to a multiple of its divisor at the top of the range, which is where
the elements of `char_writers` are taken. `batch` has the sizes of 64 bytes,
where a single key is rendered by vector and by scalar stores; for 32 bytes,
where single keys are all scalar, the proofs hold as well. No run uses symmetry.
Every run checks deadlock; finished sequential processes stutter in an action
`Terminated`.

## 4. Proofs

All theorems hold for every value of the constants that satisfies the named
assumptions.

**CacheProofs**, for any number of goroutines, keys, slots and addresses, any
slot function and any encoding: `CachedResultCorrect`, `SlotsHoldOwnKeys`,
`EntriesBuiltInPrivate`, `PublishedEntriesImmutable`, and
`CacheImplementsService`, the safety part of the refinement. `ResultCorrect` alone is not inductive: that
a hit is right depends on the entry being right when it was loaded and still
being the same. The inductive invariant says that every entry a slot refers to
has its own key's string and a key that maps to the slot, that the entry a
goroutine built or loaded is live, and what its locals hold at each step. The
immutability theorem follows from it: an address that is written is not
referred to. `BuiltInPrivate` is inductive together with it: a load only returns
what a slot publishes, and a slot only gets what its goroutine built.

**BatchProofs**, for any number of keys, any number of elements per key
and any inputs the assumptions allow: `TypeCorrect`, `BatchStoresInBounds`,
`BatchPublishedStable`, `BatchResultsCorrect`. The inductive invariant is the
statement about a half-rendered buffer: everything left of the store position is
final, whatever overhangs lie to the right of it. A store begins at the
position, so it cannot touch what is final, and it makes the next elements
final. What is published lies to the left. Stability of published strings is an
action property and follows from the same invariant.

**RadixProofs** is the toolbox of the remaining proofs. What `Value`, `Pow`,
`Digit` and `LeadingZeros` compute is a statement about every length, and the
library's induction theorems take an operator that the provers cannot
instantiate. The module therefore derives induction in a form they can use,
over a *set*: every nonempty set of naturals has a least element
(`LeastNumber`), so a set with 0 and closed under successor is all of them
(`NatInduct`, `BoundedInduct`). From there: uniqueness of quotient and
remainder, a value as a linear function of its digits (`ValueLinear`,
`ValueChange`), joining and regrouping digits (`ValueJoin`, `ValueGroup`),
bounds (`ValueBound`, `ValueLower`), that digits determine the value and the
value the digits (`ValueDigits`, `DigitsUnique`), and when a rounded reciprocal
divides exactly (`Reciprocal`).

**FixedEncodeProofs**, for any radices, sizes and inputs that the assumptions of
`FixedEncode` allow, and all five paths: `ValueAlwaysPreserved`,
`LimbsAlwaysReduced`, `ResultAlwaysCorrect`, `TypesAlwaysOK`. Value preservation
alone is not inductive, since a sum that wraps loses value: the invariant bounds
every column by what its rows can add up to, so that nothing wraps as long as
`ColumnsAssumption` holds. It then follows the carry chain through its phases:
serial, or cut in two with the patch and the ripple. There it says which limbs
are reduced, and that a ripple ends because the value is too small for a carry
out of the first limb. For the result it says how many digits the value has,
hence that the fixed skip, the digit count and the scan all find the first one.

The same module proves the division the kernels do not do: with the code's own
constants, `CarryQuotientExact` says that the high word of the product with the
64-bit reciprocal, shifted, is the quotient by 58^5 for *every* 64-bit dividend
(in the two forms the assembly uses), and `DigitQuotientsExact` that the seven
reciprocals that extract digits are exact for every element below 58^5. The
prover folds integer literals in machine arithmetic, so numbers of 2^62 and more
are written as powers and products that it leaves symbolic.

**FixedDecodeProofs**, again for any radices, sizes and strings:
`ValueAlwaysPreserved`, `OutcomeAlwaysExact`, `OnlyEncodingsAccepted`,
`EveryEncodingAccepted`, `TypesAlwaysOK`. The invariant pads the string on the left to all digits; that
determines the limbs, and while groups are read exactly those limbs are present
that end at or before the position read. This makes the grouped reader and the
fused one meet. Columns are bounded as in the encoder. The carry chain has two
forms with one sum each: words, carry and columns for the serial chain; bytes
already stored, the flag, the high half that waits and columns for the fused
one. The overflow test of the fused kernels looks at 32 bits only; that nothing
is above them follows from the bound on a string of all digits
(`Pow(R1div, Limbs) <= Pow(WordBase, Words + 1)`). `EveryEncodingAccepted` is the
round trip: a leading one costs a whole byte, so an encoding is never longer than
the length check allows, and two encodings of the same bytes are the same string.

Encoder and decoder proofs together say: whatever `FixedEncode` returns is *the*
encoding, and exactly the strings that are encodings are accepted by
`FixedDecode` and decoded to what they encode.

*The assumptions and the real constants.* `RadixAssumption`, `LengthAssumption`
and `ColumnsAssumption` of the two modules are evaluated by TLC on the scaled
instances. For the code's constants they were checked with exact integers
outside TLC. In encoding, the largest column sum of both forms is
16803551296732646175 < 2^64 = 18446744073709551616, except column 16 of the
64-byte form (`Hot`), which exceeds 2^64 and is the one that the code splits.
In decoding, the largest column sum is 18415967188905455829, 0.998 * 2^64, and
a carry of 2^32 - 1 still fits on top of it.

**AppendEncodeProofs**, for all lengths and capacities: `AlwaysInBounds`,
`AppendedExactly`, `CallerBytesAlwaysKept`, `AllocatesOnlyWhenFull`. The
invariant locates the window of the result in the array at hand, and says which
characters in it are final after each store, whatever overhangs.
`InputsAssumption` asks that the estimate `encodeVariableSize` is no smaller than
the result; `SizeSuffices` proves this of the code's formula for bytes of any
length and value, from 256^8 <= 58^11.

**AppendDecodeProofs**, for every string, every buffer and all constants that the
assumptions of `AppendDecode` allow: `DecodedExactly`, `CallerBufferAlwaysKept`,
`AllocatesOnlyWhenFull`, `LimbsAlwaysSuffice`, `FixedSizesAlwaysFast`,
`TypesAlwaysOK`. None of the properties is inductive. The invariant (`Inv`) adds
to them

* what the limbs are: limb `j` is digit `j`, in base 2^64, of the value of the
  characters folded in, the limbs from `top` on are zero, and the limb below `top`
  is not (`Folding`). With that, the carry into limb `j` is a quotient by
  2^(64 j) (`CarryFacts`), one or two new limbs are exactly those the last carry
  needs (`MoreLimbs`), and a group more keeps the invariant (`FoldFacts`);
* that the first group takes the remainder and all later ones are full, so that
  multiplying by 58^20 is right although the first may be shorter: the number
  before it is zero (`GroupFacts`, `GroupValue`);
* which cells of the slice's array are final: none until all characters are
  checked (`Fresh`), then the prefix, then all of them (`Written`);
* that the slice is the caller's array exactly as long as it fits there (`Live`),
  which every way of extending it preserves (`StoreFacts`);
* that a size whose decoder was tried in vain is not the size of the result
  (`Refused`).

`ByteAtFacts` and `PayloadFacts` turn limbs into bytes: a byte of a limb is the
byte of the number, and the count from the top limb is the number's. That the limb
array suffices for *any* length is `EstimateHolds`: it follows, by taking a root,
from `EstimateAssumption`, which says it for `SizeDen` characters only. The
assumptions hold for the code: `ConstantsOfTheCode` proves 58^1000 <= 256^733
(from 58^71 <= 256^52), 256^32 <= 58^44, 256^64 <= 58^88 and 58^20 < 2^128.
`Decode32`, `Decode64` and `math/big` are used by their contracts, which
`FixedDecodeProofs` and `LargeDecodeProofs` establish.

**LargeDecodeProofs**, for every string and all sizes of groups and leaves:
`PowersAlwaysExact`, `LargeResultExact`. The invariant is about ownership. What
the table and the memo refer to is never what a frame writes in place, no two
frames write to the same address, and `Combine` writes only to an address its
frame owns; so shared powers keep their value. Each frame has a claim on what its
callee returns, as the value of its part of the string.

Only model-checked:

* liveness (`ImplementsService` with its fairness, `Termination`), and `ENABLED`:
  out of the prover's reach;
* `VariableEncode`, which uses the contract of the matrix kernels that the theorems
  about `FixedEncode` establish;
* `CharReaders` and `CharWriters`: their data are real characters, tables and
  shuffles, which TLC evaluates completely for every position and every byte.
  The arithmetic in `CharWriters` is covered by `DigitQuotientsExact`.

## 5. Not modelled

* The instructions by which the assembly multiplies with the 64-bit reciprocal of
  58^5: `FixedEncode` divides, and `CarryQuotientExact` proves that the product
  gives the quotient.
* `digitsToChars8` and `digitsToChars16`, older kernels that only tests call, and
  `encodeVariableTail`, the sweep encoder that tests compare with.
* That the literals of `encTable..`, `decTable..` and `pow2_512_base58_5` satisfy
  the identity in their comments: the model defines the tables by it.
* The internals of `math/big`: its values are integers.
* CPU detection; both values of `useAVX2` are checked everywhere.
* A caller that changes the input while a call runs: the API takes pointers and
  leaves that to the caller.

Observations made on the way, none of them a disagreement that a run shows:
`AppendEncode` of other lengths than 32 and 64 needs capacity for its estimate,
not only for the result, to avoid an allocation (`ReusesCapacity` states the
exact condition); `Encode32` with AVX2 allocates 44 bytes also for shorter
results.

## 6. Plan

Done: cache, batch, fixed-size codecs, buffers, variable encoders, large
decoder, character kernels. That what the encoders write is accepted and returned
by the decoders needs no module of its own: both are compared with
`Radix!IsEncoding`, which determines text and bytes from each other.

Proved: `Cache`, `Batch`, `FixedEncode`, `FixedDecode`, `AppendEncode`,
`AppendDecode`, `LargeDecode`, the reciprocals of the kernels, the estimates of
the sizes of results and scratch.

Left, both of them proofs:

1. `VariableEncode`: `ValuePreserved` of the block product, with the bound on its
   columns, from the lemmas of `RadixProofs`.
2. `CharReaders`: `LoadsInBounds` for strings of any contents.
