------------------------- MODULE AppendEncodeProofs -------------------------
(***************************************************************************)
(* The appending encoders return the caller's bytes and the characters in  *)
(* order, store inside their arrays and allocate only when they have to:   *)
(* for slices of every length and capacity, and results of every length.   *)
(***************************************************************************)
EXTENDS AppendEncode, RadixProofs

-----------------------------------------------------------------------------
(* The inductive invariant *)

Shape ==
    /\ in \in Inputs /\ useAVX2 \in BOOLEAN
    /\ mem = [a \in {"dst", "new"} |-> mem[a]]
    /\ cur \in [arr : {"dst", "new"}, from : Nat, len : Nat, cap : Nat]
    /\ pc \in {"begin", "kernel", "zeros", "shift", "done"}
    /\ j \in Nat

\* The arrays end where their slices say.
Arrays ==
    /\ DOMAIN mem["dst"] = 0..(in.cap - 1)
    /\ cur.arr = "dst" => cur.cap = in.cap
    /\ cur.arr = "new" => DOMAIN mem["new"] = 0..(cur.cap - 1)

Whole == [arr |-> "dst", from |-> 0, len |-> start, cap |-> in.cap]

\* The first m bytes of array a are those of the result for a slice of length st.
Bytes(a, m, st) == \A x \in 0..(m - 1) : a[x] = IF x < st THEN Kept ELSE x - st

Begun ==
    pc = "begin" => /\ cur = Whole /\ j = 0
                    /\ \A x \in start..(in.cap - 1) : mem["dst"][x] = Dirty

\* The characters that the stores so far have put in place.
Covered(x) == (j >= 1 /\ x < 32) \/ (in.kind = "64" /\ j >= 2 /\ x < 64) \/ j = Stores

Storing ==
    pc = "kernel" => /\ in.kind \in {"32", "64"} /\ Roomy /\ cur = Whole /\ j <= Stores
                     /\ \A x \in 0..(n - 1) : Covered(x) => mem["dst"][start + x] = x

\* append moves to a new array as soon as the old one is full.
Zeros ==
    pc = "zeros" => /\ in.kind = "variable" /\ j <= in.zeros
                    /\ cur.from = 0 /\ cur.len = start + j /\ cur.len <= cur.cap
                    /\ cur.arr = "dst" <=> in.cap >= start + j
                    /\ Bytes(mem[cur.arr], start + j, start)

\* The characters are at the right end of the room made for them.
Shifting ==
    LET size == encodeVariableSize(in.nz)
        at   == start + in.zeros
    IN  pc = "shift" => /\ in.kind = "variable" /\ in.nz > 0
                        /\ cur.from = 0 /\ cur.len = at + size /\ cur.len <= cur.cap
                        /\ cur.arr = "dst" <=> in.cap >= at + size
                        /\ Bytes(mem[cur.arr], at, start)
                        /\ \A x \in 0..(tail - 1) : mem[cur.arr][at + (size - tail) + x] = in.zeros + x

Inv ==
    /\ Shape /\ Arrays /\ Begun /\ Storing /\ Zeros /\ Shifting
    /\ ResultExact /\ CallerBytesKept /\ ReusesCapacity

-----------------------------------------------------------------------------
(* The operators *)

\* A store writes the cells from at to at + width.
LEMMA PutDomain ==
    ASSUME NEW a, NEW at \in Nat, NEW width \in Nat, NEW chr
    PROVE  DOMAIN Put(a, at, width, chr) = DOMAIN a \cup at..(at + width - 1)
BY DEF Put

\* A store that ends inside the array.
LEMMA Within ==
    ASSUME NEW c \in Nat, NEW at \in Nat, NEW width \in Nat, at + width <= c
    PROVE  (0..(c - 1)) \cup at..(at + width - 1) = 0..(c - 1)
OBVIOUS

\* They get the characters.
LEMMA PutNew ==
    ASSUME NEW a, NEW at \in Nat, NEW width \in Nat, NEW chr, NEW x \in 0..(width - 1)
    PROVE  Put(a, at, width, chr)[at + x] = chr[x]
<1>1. at + x \in at..(at + width - 1) /\ (at + x) - at = x
  OBVIOUS
<1> QED  BY <1>1 DEF Put

\* All others stay as they are.
LEMMA PutOld ==
    ASSUME NEW a, NEW at \in Nat, NEW width \in Nat, NEW chr, NEW x \in DOMAIN a, x \in Int,
           x < at \/ x >= at + width
    PROVE  Put(a, at, width, chr)[x] = a[x]
BY DEF Put

\* What a call is given.
LEMMA InputFacts ==
    ASSUME in \in Inputs
    PROVE  /\ in.kind \in {"32", "64", "variable", "owned"}
           /\ start \in Nat /\ in.cap \in Nat /\ start <= in.cap
           /\ n \in Nat /\ in.zeros \in Nat /\ in.zeros <= n
           /\ in.kind = "32" => n >= 32 /\ n <= 44
           /\ in.kind \in {"64", "owned"} => n >= 64 /\ n <= 88
           /\ in.kind = "owned" => start = 0 /\ in.cap = 0
           /\ in.kind = "variable" => /\ in.nz \in Nat /\ (in.nz = 0 => n = in.zeros)
                                      /\ tail <= encodeVariableSize(in.nz)
BY InputsAssumption DEF start, n, tail, EncodedMaxLen32, EncodedMaxLen64

\* The estimate is a number of characters.
LEMMA SizeNat ==
    ASSUME NEW nz \in Nat
    PROVE  encodeVariableSize(nz) \in Nat
<1>1. (nz * 138) \div 100 \in Nat
  OBVIOUS
<1> DEFINE q == (nz * 138) \div 100
<1> HIDE DEF q
<1>2. q \in Nat
  BY <1>1 DEF q
<1>3. (q + 1 + 19) \div 20 \in Nat
  BY <1>2
<1> QED  BY <1>3 DEF encodeVariableSize, q

\* Storing the next characters of the result behind those that are there.
LEMMA PutBytes ==
    ASSUME NEW st \in Nat, NEW m \in Nat, st <= m, NEW width \in Nat,
           NEW a, 0..(m - 1) \subseteq DOMAIN a, Bytes(a, m, st),
           NEW chr, \A x \in 0..(width - 1) : chr[x] = (m + x) - st
    PROVE  Bytes(Put(a, m, width, chr), m + width, st)
<1> DEFINE p == Put(a, m, width, chr)
<1> SUFFICES ASSUME NEW x \in 0..(m + width - 1)
             PROVE  p[x] = IF x < st THEN Kept ELSE x - st
  BY DEF Bytes
<1>1. CASE x < m
  <2>1. x \in 0..(m - 1) /\ x \in Int
    BY <1>1
  <2>2. p[x] = a[x]
    BY <1>1, <2>1, PutOld
  <2> QED  BY <2>1, <2>2 DEF Bytes
<1>2. CASE x >= m
  <2> DEFINE y == x - m
  <2>1. y \in 0..(width - 1) /\ m + y = x /\ ~(x < st)
    BY <1>2
  <2> HIDE DEF y
  <2>2. p[m + y] = chr[y]
    BY <2>1, PutNew
  <2> QED  BY <2>1, <2>2
<1> QED  BY <1>1, <1>2

\* The larger array begins with the bytes of the slice.
LEMMA GrownBytes ==
    ASSUME NEW c \in Nat, cur.len \in Nat, cur.len <= c, Bytes(mem[cur.arr], cur.len, start)
    PROVE  /\ DOMAIN Grown(c) = 0..(c - 1) /\ 0..(cur.len - 1) \subseteq DOMAIN Grown(c)
           /\ Bytes(Grown(c), cur.len, start)
<1>1. \A x \in 0..(cur.len - 1) : x \in 0..(c - 1) /\ x < cur.len
  OBVIOUS
<1>2. DOMAIN Grown(c) = 0..(c - 1)
  BY DEF Grown
<1>3. \A x \in 0..(cur.len - 1) : Grown(c)[x] = mem[cur.arr][x]
  BY <1>1 DEF Grown
<1> QED  BY <1>1, <1>2, <1>3 DEF Bytes

\* A step that writes one of the arrays leaves the other alone.
LEMMA MemSet ==
    ASSUME Shape, NEW b \in {"dst", "new"}, NEW v, mem' = [mem EXCEPT ![b] = v]
    PROVE  /\ mem' = [a \in {"dst", "new"} |-> mem'[a]]
           /\ mem'[b] = v
           /\ b = "new" => mem'["dst"] = mem["dst"]
<1>1. mem = [a \in {"dst", "new"} |-> mem[a]]
  BY DEF Shape
<1> QED  BY <1>1

-----------------------------------------------------------------------------
(* The estimate of encodeVariableSize *)

\* The powers of 58 up to the first that exceeds 256^8.
LEMMA Powers58 ==
    /\ Pow(58, 0) = 1 /\ Pow(58, 1) = 58 /\ Pow(58, 2) = 3364
    /\ Pow(58, 3) = 195112 /\ Pow(58, 4) = 11316496 /\ Pow(58, 5) = 656356768
    /\ Pow(58, 6) = 38068692544 /\ Pow(58, 7) = 2207984167552 /\ Pow(58, 8) = 128063081718016
    /\ Pow(58, 9) = 7427658739644928 /\ Pow(58, 10) = 430804206899405824 /\ Pow(58, 11) = 24986644000165537792
<1>1. Pow(58, 0) = 1
  BY PowZero
<1>2. \A e \in Nat : Pow(58, e + 1) = Pow(58, e) * 58
  BY PowStep
<1>3. Pow(58, 1) = 58
  <2>1. Pow(58, 0 + 1) = Pow(58, 0) * 58
    BY <1>2
  <2> QED  BY <1>1, <2>1
<1>4. Pow(58, 2) = 3364
  <2>1. Pow(58, 1 + 1) = Pow(58, 1) * 58
    BY <1>2
  <2> QED  BY <1>3, <2>1
<1>5. Pow(58, 3) = 195112
  <2>1. Pow(58, 2 + 1) = Pow(58, 2) * 58
    BY <1>2
  <2> QED  BY <1>4, <2>1
<1>6. Pow(58, 4) = 11316496
  <2>1. Pow(58, 3 + 1) = Pow(58, 3) * 58
    BY <1>2
  <2> QED  BY <1>5, <2>1
<1>7. Pow(58, 5) = 656356768
  <2>1. Pow(58, 4 + 1) = Pow(58, 4) * 58
    BY <1>2
  <2> QED  BY <1>6, <2>1
<1>8. Pow(58, 6) = 38068692544
  <2>1. Pow(58, 5 + 1) = Pow(58, 5) * 58
    BY <1>2
  <2> QED  BY <1>7, <2>1
<1>9. Pow(58, 7) = 2207984167552
  <2>1. Pow(58, 6 + 1) = Pow(58, 6) * 58
    BY <1>2
  <2> QED  BY <1>8, <2>1
<1>10. Pow(58, 8) = 128063081718016
  <2>1. Pow(58, 7 + 1) = Pow(58, 7) * 58
    BY <1>2
  <2> QED  BY <1>9, <2>1
<1>11. Pow(58, 9) = 7427658739644928
  <2>1. Pow(58, 8 + 1) = Pow(58, 8) * 58
    BY <1>2
  <2> QED  BY <1>10, <2>1
<1>12. Pow(58, 10) = 430804206899405824
  <2>1. Pow(58, 9 + 1) = Pow(58, 9) * 58
    BY <1>2
  <2> QED  BY <1>11, <2>1
<1>13. Pow(58, 11) = 24986644000165537792
  <2>1. Pow(58, 10 + 1) = Pow(58, 10) * 58
    BY <1>2
  <2> QED  BY <1>12, <2>1
<1> QED  BY <1>1, <1>3, <1>4, <1>5, <1>6, <1>7, <1>8, <1>9, <1>10, <1>11, <1>12, <1>13

\* The powers of 256 up to 256^8.
LEMMA Powers256 ==
    /\ Pow(256, 0) = 1 /\ Pow(256, 1) = 256 /\ Pow(256, 2) = 65536
    /\ Pow(256, 3) = 16777216 /\ Pow(256, 4) = 4294967296 /\ Pow(256, 5) = 1099511627776
    /\ Pow(256, 6) = 281474976710656 /\ Pow(256, 7) = 72057594037927936 /\ Pow(256, 8) = 18446744073709551616
<1>1. Pow(256, 0) = 1
  BY PowZero
<1>2. \A e \in Nat : Pow(256, e + 1) = Pow(256, e) * 256
  BY PowStep
<1>3. Pow(256, 1) = 256
  <2>1. Pow(256, 0 + 1) = Pow(256, 0) * 256
    BY <1>2
  <2> QED  BY <1>1, <2>1
<1>4. Pow(256, 2) = 65536
  <2>1. Pow(256, 1 + 1) = Pow(256, 1) * 256
    BY <1>2
  <2> QED  BY <1>3, <2>1
<1>5. Pow(256, 3) = 16777216
  <2>1. Pow(256, 2 + 1) = Pow(256, 2) * 256
    BY <1>2
  <2> QED  BY <1>4, <2>1
<1>6. Pow(256, 4) = 4294967296
  <2>1. Pow(256, 3 + 1) = Pow(256, 3) * 256
    BY <1>2
  <2> QED  BY <1>5, <2>1
<1>7. Pow(256, 5) = 1099511627776
  <2>1. Pow(256, 4 + 1) = Pow(256, 4) * 256
    BY <1>2
  <2> QED  BY <1>6, <2>1
<1>8. Pow(256, 6) = 281474976710656
  <2>1. Pow(256, 5 + 1) = Pow(256, 5) * 256
    BY <1>2
  <2> QED  BY <1>7, <2>1
<1>9. Pow(256, 7) = 72057594037927936
  <2>1. Pow(256, 6 + 1) = Pow(256, 6) * 256
    BY <1>2
  <2> QED  BY <1>8, <2>1
<1>10. Pow(256, 8) = 18446744073709551616
  <2>1. Pow(256, 7 + 1) = Pow(256, 7) * 256
    BY <1>2
  <2> QED  BY <1>9, <2>1
<1> QED  BY <1>1, <1>3, <1>4, <1>5, <1>6, <1>7, <1>8, <1>9, <1>10

\* Eight bytes take at most eleven digits, and so on.
LEMMA EightBytes ==
    ASSUME NEW q \in Nat
    PROVE  Pow(256, 8 * q) <= Pow(58, 11 * q)
<1> DEFINE S == {k \in Nat : Pow(256, 8 * k) <= Pow(58, 11 * k)}
<1>1. 0 \in S
  BY Powers58, Powers256
<1>2. ASSUME NEW k \in Nat, k \in S PROVE k + 1 \in S
  <2>1. 8 * k \in Nat /\ 11 * k \in Nat /\ 8 * (k + 1) = 8 * k + 8 /\ 11 * (k + 1) = 11 * k + 11
    OBVIOUS
  <2> DEFINE a == Pow(256, 8 * k)
             b == Pow(58, 11 * k)
  <2>2. a \in Nat /\ b \in Nat /\ a <= b
    BY <1>2, <2>1, PowPos
  <2>3. Pow(256, 8 * k + 8) = a * Pow(256, 8)
    BY <2>1, PowAdd
  <2>4. Pow(58, 11 * k + 11) = b * Pow(58, 11)
    BY <2>1, PowAdd
  <2> HIDE DEF a, b
  <2>5. a * 18446744073709551616 <= b * 24986644000165537792
    BY <2>2
  <2>6. Pow(256, 8 * k + 8) <= Pow(58, 11 * k + 11)
    BY <2>3, <2>4, <2>5, Powers58, Powers256
  <2> QED  BY <2>1, <2>6
<1> HIDE DEF S
<1>3. \A k \in Nat : k \in S
  BY <1>1, <1>2, NatInduct
<1> QED  BY <1>3 DEF S

\* 1.38 digits per byte and one more are enough for fewer than eight bytes too.
LEMMA FewBytes ==
    ASSUME NEW r \in 0..7
    PROVE  Pow(256, r) <= Pow(58, (138 * r) \div 100 + 1)
<1>1. r \in {0, 1, 2, 3, 4, 5, 6, 7}
  OBVIOUS
<1>2. /\ (138 * 0) \div 100 + 1 = 1 /\ (138 * 1) \div 100 + 1 = 2 /\ (138 * 2) \div 100 + 1 = 3
      /\ (138 * 3) \div 100 + 1 = 5 /\ (138 * 4) \div 100 + 1 = 6 /\ (138 * 5) \div 100 + 1 = 7
      /\ (138 * 6) \div 100 + 1 = 9 /\ (138 * 7) \div 100 + 1 = 10
  OBVIOUS
<1> QED  BY <1>1, <1>2, Powers58, Powers256

\* Eleven digits for every eight bytes are within 1.38 digits per byte.
LEMMA SizeSplit ==
    ASSUME NEW q \in Nat, NEW r \in 0..7, NEW nz \in Nat, nz = 8 * q + r
    PROVE  11 * q + ((138 * r) \div 100 + 1) <= encodeVariableSize(nz)
<1> DEFINE d == (nz * 138) \div 100
           c == (138 * r) \div 100
           e == (d + 1 + 19) \div 20
<1>1. d \in Int /\ 100 * d <= 138 * nz /\ 138 * nz < 100 * d + 100
  <2>1. nz * 138 \in Int /\ nz * 138 = 138 * nz
    OBVIOUS
  <2> QED  BY <2>1
<1>2. c \in Int /\ 100 * c <= 138 * r /\ 138 * r < 100 * c + 100
  BY DivMod
<1>3. encodeVariableSize(nz) = e * 20
  BY DEF encodeVariableSize
<1> HIDE DEF c, d
<1>4. e \in Int /\ e * 20 >= d + 1
  BY <1>1
<1> HIDE DEF e
<1>5. 11 * q + c <= d
  BY <1>1, <1>2
<1> QED  BY <1>2, <1>3, <1>4, <1>5, <1>1 DEF c

\* As many digits as the estimate says hold every number of nz bytes.
LEMMA EstimateHolds ==
    ASSUME NEW nz \in Nat
    PROVE  Pow(256, nz) <= Pow(58, encodeVariableSize(nz))
<1> DEFINE q == nz \div 8
           r == nz % 8
           c == (138 * r) \div 100 + 1
<1>1. q \in Nat /\ r \in 0..7 /\ nz = 8 * q + r
  OBVIOUS
<1> HIDE DEF q, r
<1>2. c \in Nat /\ 11 * q + c <= encodeVariableSize(nz) /\ Pow(256, r) <= Pow(58, c)
  <2>1. c \in Nat
    BY <1>1
  <2>2. 11 * q + c <= encodeVariableSize(nz)
    BY <1>1, SizeSplit
  <2>3. Pow(256, r) <= Pow(58, c)
    BY <1>1, FewBytes
  <2> QED  BY <2>1, <2>2, <2>3
<1> HIDE DEF c
<1>3. 8 * q \in Nat /\ 11 * q \in Nat /\ r \in Nat /\ 11 * q + c \in Nat
  BY <1>1, <1>2
<1>4. Pow(256, nz) = Pow(256, 8 * q) * Pow(256, r) /\ Pow(58, 11 * q + c) = Pow(58, 11 * q) * Pow(58, c)
  <2>1. \A x, y \in Nat : Pow(256, x + y) = Pow(256, x) * Pow(256, y) /\ Pow(58, x + y) = Pow(58, x) * Pow(58, y)
    BY PowAdd
  <2>2. Pow(256, 8 * q + r) = Pow(256, 8 * q) * Pow(256, r)
    BY <1>3, <2>1
  <2>3. Pow(58, 11 * q + c) = Pow(58, 11 * q) * Pow(58, c)
    BY <1>2, <1>3, <2>1
  <2> QED  BY <1>1, <2>2, <2>3
<1> DEFINE a1 == Pow(256, 8 * q)
           b1 == Pow(58, 11 * q)
           a2 == Pow(256, r)
           b2 == Pow(58, c)
<1>5. a1 \in Nat /\ b1 \in Nat /\ a2 \in Nat /\ b2 \in Nat /\ a1 <= b1 /\ a2 <= b2
  BY <1>1, <1>2, <1>3, PowPos, EightBytes
<1> HIDE DEF a1, b1, a2, b2
<1>6. a1 * a2 <= b1 * b2
  <2>1. a1 * a2 <= b1 * a2
    BY <1>5
  <2>2. b1 * a2 <= b1 * b2
    BY <1>5
  <2>3. a1 * a2 \in Int /\ b1 * a2 \in Int /\ b1 * b2 \in Int
    BY <1>5
  <2> QED  BY <2>1, <2>2, <2>3
<1>7. Pow(58, 11 * q + c) <= Pow(58, encodeVariableSize(nz))
  BY <1>2, <1>3, SizeNat, PowMonotone
<1>8. Pow(256, nz) \in Int /\ Pow(58, 11 * q + c) \in Int /\ Pow(58, encodeVariableSize(nz)) \in Int
  <2>1. \A e \in Nat : Pow(256, e) \in Int /\ Pow(58, e) \in Int
    BY PowInt
  <2> QED  BY <1>3, <2>1, SizeNat
<1>9. Pow(256, nz) <= Pow(58, 11 * q + c)
  BY <1>4, <1>6 DEF a1, a2, b1, b2
<1> QED  BY <1>7, <1>8, <1>9

\* What InputsAssumption says of a variable-length input is true of every input:
\* if nz bytes are worth as much as m digits and the first digit is not zero,
\* then m is at most encodeVariableSize(nz), whatever the bytes and however many.
THEOREM SizeSuffices ==
    ASSUME NEW nz \in Nat, NEW bytes, \A k \in 0..(nz - 1) : bytes[k] \in 0..255,
           NEW m \in Nat, NEW digits, \A k \in 0..(m - 1) : digits[k] \in 0..57,
           m > 0 => digits[0] # 0,
           Value(digits, m, 58) = Value(bytes, nz, 256)
    PROVE  m <= encodeVariableSize(nz)
<1> DEFINE size == encodeVariableSize(nz)
<1>1. size \in Nat
  BY SizeNat
<1> HIDE DEF size
<1> SUFFICES ASSUME m > size PROVE FALSE
  BY <1>1 DEF size
<1>2. m - 1 \in Nat /\ size <= m - 1 /\ m > 0 /\ 0 \in 0..(m - 1)
  BY <1>1
<1>3. Value(bytes, nz, 256) < Pow(256, nz) /\ Value(bytes, nz, 256) \in Int
  <2>1. \A k \in 0..(nz - 1) : bytes[k] \in 0..(256 - 1)
    OBVIOUS
  <2>2. Value(bytes, nz, 256) \in 0..(Pow(256, nz) - 1)
    <3>1. 256 \in Nat \ {0}
      OBVIOUS
    <3> QED  BY <2>1, <3>1, ValueBound, ZenonT(60)
  <2> QED  BY <2>2, PowInt
<1>4. Pow(256, nz) <= Pow(58, size)
  BY EstimateHolds DEF size
<1>5. Pow(58, size) <= Pow(58, m - 1)
  BY <1>1, <1>2, PowMonotone
<1>6. Pow(58, m - 1) <= Value(digits, m, 58)
  <2>1. \A k \in 0..(m - 1) : digits[k] \in 0..(58 - 1)
    OBVIOUS
  <2>2. digits[0] >= 1
    BY <1>2
  <2>3. 58 \in Nat \ {0} /\ m \in Nat \ {0}
    BY <1>2
  <2> QED  BY <2>1, <2>2, <2>3, ValueLower, ZenonT(60)
<1>7. Pow(256, nz) \in Int /\ Pow(58, size) \in Int /\ Pow(58, m - 1) \in Int
  <2>1. 256 \in Int /\ 58 \in Int /\ m - 1 \in Nat
    BY <1>2
  <2> QED  BY <1>1, <2>1, PowInt, Zenon
<1> QED  BY <1>3, <1>4, <1>5, <1>6, <1>7

-----------------------------------------------------------------------------
(* The steps *)

\* The invariant holds when the call starts.
LEMMA InitInv == Init => Inv
<1> SUFFICES ASSUME Init PROVE Inv
  OBVIOUS
<1>1. in \in Inputs /\ pc = "begin" /\ j = 0 /\ useAVX2 \in BOOLEAN
  BY DEF Init
<1>2. start \in Nat /\ in.cap \in Nat /\ n \in Nat
  BY <1>1, InputFacts
<1>3. /\ cur = Whole /\ mem = [a \in {"dst", "new"} |-> mem[a]]
      /\ mem["dst"] = [x \in 0..(in.cap - 1) |-> IF x < start THEN Kept ELSE Dirty]
  BY DEF Init, Whole, start
<1>4. Shape
  BY <1>1, <1>2, <1>3 DEF Shape, Whole
<1>5. Arrays /\ Begun
  BY <1>1, <1>2, <1>3 DEF Arrays, Begun, Whole
<1>6. Storing /\ Zeros /\ Shifting /\ ResultExact /\ ReusesCapacity
  BY <1>1 DEF Storing, Zeros, Shifting, ResultExact, ReusesCapacity
<1>7. CallerBytesKept
  <2>1. start <= in.cap
    BY <1>1, InputFacts
  <2> QED  BY <1>2, <1>3, <2>1 DEF CallerBytesKept
<1> QED  BY <1>4, <1>5, <1>6, <1>7 DEF Inv

\* The kernels are chosen, nothing is stored yet.
LEMMA BeginKernelStep ==
    ASSUME Inv, BeginKernel
    PROVE  Inv'
<1>1. /\ pc = "begin" /\ pc' = "kernel" /\ in.kind \in {"32", "64"} /\ Roomy
      /\ in' = in /\ useAVX2' = useAVX2 /\ mem' = mem /\ cur' = cur /\ j' = j
  BY DEF BeginKernel
<1>2. cur = Whole /\ j = 0 /\ Stores \in {2, 3}
  BY <1>1 DEF Inv, Begun, Stores
<1>3. Shape' /\ Arrays' /\ CallerBytesKept'
  BY <1>1 DEF Inv, Shape, Arrays, CallerBytesKept, start, n
<1>4. Storing'
  <2>1. cur' = Whole' /\ Roomy' /\ Stores' = Stores
    BY <1>1, <1>2 DEF Whole, Roomy, Stores, start
  <2>2. j <= Stores /\ \A x : ~Covered(x)
    BY <1>2 DEF Covered
  <2>3. \A x : ~Covered(x)'
    BY <1>1, <2>1, <2>2 DEF Covered
  <2> QED  BY <1>1, <1>2, <2>1, <2>3 DEF Storing
<1>5. Begun' /\ Zeros' /\ Shifting' /\ ResultExact' /\ ReusesCapacity'
  BY <1>1 DEF Begun, Zeros, Shifting, ResultExact, ReusesCapacity
<1> QED  BY <1>3, <1>4, <1>5 DEF Inv

\* Offset and width of the next store, and what is in place after it.
LEMMA NextStore ==
    ASSUME in \in Inputs, in.kind \in {"32", "64"}, Roomy, j \in Nat, j < Stores
    PROVE  LET s == KernelStores[j + 1]
           IN  /\ s[1] \in Nat /\ s[2] \in Nat /\ s[1] + s[2] <= n /\ start + n <= in.cap
               /\ \A x \in 0..(n - 1) :
                    (j + 1 >= 1 /\ x < 32) \/ (in.kind = "64" /\ j + 1 >= 2 /\ x < 64) \/ j + 1 = Stores
                        => Covered(x) \/ (s[1] <= x /\ x < s[1] + s[2])
<1>1. start \in Nat /\ in.cap \in Nat /\ n \in Nat
  BY InputFacts
<1>2. CASE in.kind = "32"
  <2>1. n >= 32 /\ n <= 44 /\ Stores = 2 /\ KernelStores = << <<0, 32>>, <<n - 16, 16>> >> /\ start + n <= in.cap
    BY <1>1, <1>2, InputFacts DEF Stores, KernelStores, Roomy, MaxLen, EncodedMaxLen32, start
  <2>2. CASE j = 0
    BY <1>1, <1>2, <2>1, <2>2 DEF Covered
  <2>3. CASE j = 1
    BY <1>1, <1>2, <2>1, <2>3 DEF Covered
  <2> QED  BY <2>1, <2>2, <2>3
<1>3. CASE in.kind = "64"
  <2>1. /\ n >= 64 /\ n <= 88 /\ Stores = 3 /\ start + n <= in.cap
        /\ KernelStores = << <<0, 32>>, <<32, 32>>, <<n - 32, 32>> >>
    BY <1>1, <1>3, InputFacts DEF Stores, KernelStores, Roomy, MaxLen, EncodedMaxLen64, start
  <2>2. CASE j = 0
    BY <1>1, <1>3, <2>1, <2>2 DEF Covered
  <2>3. CASE j = 1
    BY <1>1, <1>3, <2>1, <2>3 DEF Covered
  <2>4. CASE j = 2
    BY <1>1, <1>3, <2>1, <2>4 DEF Covered
  <2> QED  BY <2>1, <2>2, <2>3, <2>4
<1> QED  BY <1>2, <1>3

\* A store of a kernel stays inside the result, and adds the characters it covers.
LEMMA StoreVectorStep ==
    ASSUME Inv, StoreVector
    PROVE  Inv'
<1> DEFINE s == KernelStores[j + 1]
           at == start + s[1]
           chr == Chars(s[1], s[2])
           D == mem["dst"]
<1>1. /\ pc = "kernel" /\ pc' = "kernel" /\ j < Stores /\ j' = j + 1
      /\ mem' = [mem EXCEPT !["dst"] = Put(D, at, s[2], chr)]
      /\ in' = in /\ useAVX2' = useAVX2 /\ cur' = cur
  BY DEF StoreVector
<1>2. /\ in \in Inputs /\ in.kind \in {"32", "64"} /\ Roomy /\ cur = Whole /\ j \in Nat
      /\ \A x \in 0..(n - 1) : Covered(x) => D[start + x] = x
      /\ DOMAIN D = 0..(in.cap - 1)
  BY <1>1 DEF Inv, Shape, Storing, Arrays
<1>3. start \in Nat /\ in.cap \in Nat /\ n \in Nat
  BY <1>2, InputFacts
<1>4. /\ s[1] \in Nat /\ s[2] \in Nat /\ s[1] + s[2] <= n /\ start + n <= in.cap
      /\ \A x \in 0..(n - 1) : Covered(x)' => Covered(x) \/ (s[1] <= x /\ x < s[1] + s[2])
  <2>1. \A x : Covered(x)' <=>
               (j + 1 >= 1 /\ x < 32) \/ (in.kind = "64" /\ j + 1 >= 2 /\ x < 64) \/ j + 1 = Stores
    BY <1>1 DEF Covered, Stores
  <2> QED  BY <1>1, <1>2, <2>1, NextStore
<1> DEFINE from == s[1]
           width == s[2]
<1>5. from \in Nat /\ width \in Nat /\ from + width <= n /\ at = start + from /\ at \in Nat
  BY <1>3, <1>4
<1>6. \A x \in 0..(width - 1) : chr[x] = from + x
  BY <1>3, <1>5, SMTT(30) DEF Chars
<1> DEFINE P == Put(D, at, width, chr)
<1>7. mem' = [a \in {"dst", "new"} |-> mem'[a]] /\ mem'["dst"] = P
  BY <1>1, MemSet DEF Inv
<1> HIDE DEF from, width, chr, at, s, D
<1>8. /\ DOMAIN P = DOMAIN D \cup at..(at + width - 1)
      /\ \A x \in 0..(width - 1) : P[at + x] = chr[x]
      /\ \A x \in DOMAIN D : x \in Int /\ (x < at \/ x >= at + width) => P[x] = D[x]
  <2>1. at \in Nat /\ width \in Nat
    BY <1>5
  <2>2. DOMAIN P = DOMAIN D \cup at..(at + width - 1)
    BY <2>1, PutDomain
  <2>3. \A x \in 0..(width - 1) : P[at + x] = chr[x]
    BY <2>1, PutNew
  <2>4. \A x \in DOMAIN D : x \in Int /\ (x < at \/ x >= at + width) => P[x] = D[x]
    BY <2>1, PutOld
  <2> QED  BY <2>2, <2>3, <2>4
<1> HIDE DEF P
<1>9. DOMAIN P = 0..(in.cap - 1)
  BY <1>2, <1>3, <1>4, <1>5, <1>8
<1>10. \A x \in DOMAIN D : x < start \/ x >= start + n => P[x] = D[x]
  BY <1>2, <1>3, <1>4, <1>5, <1>8
<1>11. ASSUME NEW x \in 0..(n - 1), Covered(x)' PROVE P[start + x] = x
  <2>1. CASE from <= x /\ x < from + width
    <3>1. x - from \in 0..(width - 1) /\ at + (x - from) = start + x /\ from + (x - from) = x
      BY <1>3, <1>5, <2>1
    <3> QED  BY <1>6, <1>8, <3>1
  <2>2. CASE ~(from <= x /\ x < from + width)
    <3>1. D[start + x] = x
      BY <1>2, <1>4, <1>11, <2>2 DEF from, width
    <3>2. start + x \in DOMAIN D /\ (start + x < at \/ start + x >= at + width) /\ start + x \in Int
      BY <1>2, <1>3, <1>4, <1>5, <2>2
    <3> QED  BY <1>8, <3>1, <3>2
  <2> QED  BY <2>1, <2>2
<1>12. Shape' /\ Arrays'
  BY <1>1, <1>2, <1>7, <1>9 DEF Inv, Shape, Arrays, Whole
<1>13. CallerBytesKept'
  <2>1. \A x \in 0..(start - 1) : x \in DOMAIN D /\ x < start
    BY <1>2, <1>3, <1>4
  <2>2. \A x \in (start + n)..(in.cap - 1) : x \in DOMAIN D /\ x >= start + n
    BY <1>2, <1>3
  <2> QED  BY <1>1, <1>7, <1>10, <2>1, <2>2 DEF Inv, CallerBytesKept, start, n, D
<1>14. Storing'
  <2>1. cur' = Whole' /\ Roomy' /\ Stores' = Stores
    BY <1>1, <1>2 DEF Whole, Roomy, Stores, start
  <2>2. j' <= Stores'
    BY <1>1, <1>2, <2>1 DEF Stores
  <2> QED  BY <1>1, <1>2, <1>7, <1>11, <2>1, <2>2 DEF Storing, start, n
<1>15. Begun' /\ Zeros' /\ Shifting' /\ ResultExact' /\ ReusesCapacity'
  BY <1>1 DEF Begun, Zeros, Shifting, ResultExact, ReusesCapacity
<1> QED  BY <1>12, <1>13, <1>14, <1>15 DEF Inv

\* After the last store every character is in place.
LEMMA KernelReturnStep ==
    ASSUME Inv, KernelReturn
    PROVE  Inv'
<1>1. /\ pc = "kernel" /\ pc' = "done" /\ j = Stores /\ cur' = [cur EXCEPT !.len = start + n]
      /\ in' = in /\ useAVX2' = useAVX2 /\ mem' = mem /\ j' = j
  BY DEF KernelReturn
<1>2. /\ in \in Inputs /\ in.kind \in {"32", "64"} /\ Roomy /\ cur = Whole
      /\ \A x \in 0..(n - 1) : Covered(x) => mem["dst"][start + x] = x
  BY <1>1 DEF Inv, Shape, Storing
<1>3. start \in Nat /\ in.cap \in Nat /\ n \in Nat /\ start <= in.cap
  BY <1>2, InputFacts
<1>4. cur' = [arr |-> "dst", from |-> 0, len |-> start + n, cap |-> in.cap]
  BY <1>1, <1>2 DEF Whole
<1>5. in.cap >= start + n
  BY <1>2, <1>3, InputFacts DEF Roomy, MaxLen, EncodedMaxLen32, EncodedMaxLen64, start
<1>6. Shape' /\ Arrays' /\ CallerBytesKept'
  BY <1>1, <1>3, <1>4 DEF Inv, Shape, Arrays, CallerBytesKept, start, n
<1>7. ResultExact'
  <2>1. ASSUME NEW x \in 0..(start + n - 1)
        PROVE  mem["dst"][0 + x] = IF x < start THEN Kept ELSE x - start
    <3>1. CASE x < start
      <4>1. x \in 0..(start - 1) /\ 0 + x = x
        BY <1>3, <3>1
      <4> QED  BY <3>1, <4>1 DEF Inv, CallerBytesKept
    <3>2. CASE ~(x < start)
      <4>1. x - start \in 0..(n - 1) /\ start + (x - start) = 0 + x
        BY <1>3, <3>2
      <4>2. Covered(x - start)
        BY <1>1 DEF Covered
      <4> QED  BY <1>2, <3>2, <4>1, <4>2
    <3> QED  BY <3>1, <3>2
  <2>2. /\ cur'.arr = "dst" /\ cur'.from = 0 /\ cur'.len = start + n
        /\ start' = start /\ n' = n
    BY <1>1, <1>4 DEF start, n
  <2> QED  BY <1>1, <1>3, <2>1, <2>2 DEF ResultExact
<1>8. ReusesCapacity'
  BY <1>1, <1>2, <1>4, <1>5 DEF ReusesCapacity, start, n
<1>9. Begun' /\ Storing' /\ Zeros' /\ Shifting'
  BY <1>1 DEF Begun, Storing, Zeros, Shifting
<1> QED  BY <1>6, <1>7, <1>8, <1>9 DEF Inv

\* A step that does not write the caller's array keeps what is true of it.
LEMMA CallerSame ==
    ASSUME Inv, in' = in, mem'["dst"] = mem["dst"]
    PROVE  CallerBytesKept' /\ DOMAIN mem'["dst"] = 0..(in'.cap - 1)
BY DEF Inv, Arrays, CallerBytesKept, start, n

\* A step that stores behind the caller's bytes keeps them, and an encoder for a
\* fixed size keeps what is behind its result as well.
LEMMA CallerStore ==
    ASSUME Inv, in' = in, NEW at \in Nat, NEW width \in Nat, NEW chr, start <= at, at + width <= in.cap,
           in.kind \in {"32", "64"} => at + width <= start + n,
           mem'["dst"] = Put(mem["dst"], at, width, chr)
    PROVE  CallerBytesKept' /\ DOMAIN mem'["dst"] = 0..(in'.cap - 1)
<1> DEFINE D == mem["dst"]
           P == Put(D, at, width, chr)
<1>1. start \in Nat /\ in.cap \in Nat /\ n \in Nat /\ start <= in.cap
  BY InputFacts DEF Inv, Shape
<1>2. DOMAIN D = 0..(in.cap - 1)
  BY DEF Inv, Arrays
<1>3. DOMAIN P = DOMAIN D \cup at..(at + width - 1)
  BY PutDomain
<1>4. \A x \in DOMAIN D : x \in Int /\ (x < at \/ x >= at + width) => P[x] = D[x]
  BY PutOld
<1> HIDE DEF D, P
<1>5. \A x \in 0..(start - 1) : P[x] = D[x]
  BY <1>1, <1>2, <1>4
<1>6. in.kind \in {"32", "64"} => \A x \in (start + n)..(in.cap - 1) : P[x] = D[x]
  BY <1>1, <1>2, <1>4
<1>7. DOMAIN P = 0..(in.cap - 1)
  BY <1>1, <1>2, <1>3
<1> QED  BY <1>5, <1>6, <1>7 DEF Inv, CallerBytesKept, start, n, D, P

\* The last step of a call whose result starts its array.
LEMMA LastStep ==
    ASSUME Inv, in' = in, useAVX2' = useAVX2, j' = j, pc' = "done",
           mem' = [a \in {"dst", "new"} |-> mem'[a]],
           CallerBytesKept', Arrays',
           NEW arr \in {"dst", "new"}, NEW cap \in Nat,
           cur' = [arr |-> arr, from |-> 0, len |-> start + n, cap |-> cap],
           Bytes(mem'[arr], start + n, start), ReusesCapacity'
    PROVE  Inv'
<1>1. start \in Nat /\ n \in Nat
  BY InputFacts DEF Inv, Shape
<1>2. Shape'
  BY <1>1 DEF Inv, Shape
<1>3. ResultExact'
  <2>1. /\ cur'.arr = arr /\ cur'.from = 0 /\ cur'.len = start + n
        /\ start' = start /\ n' = n
    BY DEF start, n
  <2>2. \A x \in 0..(start + n - 1) : mem'[arr][0 + x] = IF x < start THEN Kept ELSE x - start
    <3>1. \A x \in 0..(start + n - 1) : 0 + x = x
      OBVIOUS
    <3>2. \A x \in 0..((start + n) - 1) : mem'[arr][x] = IF x < start THEN Kept ELSE x - start
      BY DEF Bytes
    <3> QED  BY <1>1, <3>1, <3>2
  <2> QED  BY <1>1, <2>1, <2>2 DEF ResultExact
<1>4. Begun' /\ Storing' /\ Zeros' /\ Shifting'
  BY DEF Begun, Storing, Zeros, Shifting
<1> QED  BY <1>2, <1>3, <1>4 DEF Inv

\* The result is copied behind the slice, in a larger array only when it must be.
LEMMA CopyResultStep ==
    ASSUME Inv, CopyResult
    PROVE  Inv'
<1> DEFINE chr == Chars(0, n)
<1>1. /\ pc = "begin" /\ pc' = "done" /\ in.kind \in {"32", "64"}
      /\ in' = in /\ useAVX2' = useAVX2 /\ j' = j
  BY DEF CopyResult
<1>2. /\ cur = Whole /\ in \in Inputs /\ DOMAIN mem["dst"] = 0..(in.cap - 1)
  BY <1>1 DEF Inv, Begun, Shape, Arrays
<1>3. start \in Nat /\ in.cap \in Nat /\ n \in Nat /\ start <= in.cap
  BY <1>2, InputFacts
<1>4. \A x \in 0..(n - 1) : chr[x] = (start + x) - start
  BY <1>3 DEF Chars
<1> HIDE DEF chr
<1>5. cur.arr = "dst" /\ cur.len = start /\ cur.cap = in.cap /\ cur.from = 0
  BY <1>2 DEF Whole
<1>6. Bytes(mem["dst"], start, start) /\ 0..(start - 1) \subseteq DOMAIN mem["dst"]
  <2>1. \A x \in 0..(start - 1) : x < start /\ x \in 0..(in.cap - 1)
    BY <1>3
  <2> QED  BY <1>2, <2>1 DEF Inv, CallerBytesKept, Bytes
<1>7. CASE in.cap < start + n
  <2> DEFINE c == start + IF n > minEncodedCap THEN n ELSE minEncodedCap
             G == Grown(c)
  <2>1. /\ mem' = [mem EXCEPT !["new"] = Put(G, start, n, chr)]
        /\ cur' = [arr |-> "new", from |-> 0, len |-> start + n, cap |-> c]
    BY <1>7 DEF CopyResult, chr
  <2>2. c \in Nat /\ start + n <= c /\ start <= c
    BY <1>3 DEF minEncodedCap, EncodedMaxLen32
  <2> HIDE DEF c
  <2>3. DOMAIN G = 0..(c - 1) /\ 0..(start - 1) \subseteq DOMAIN G /\ Bytes(G, start, start)
    BY <1>3, <1>5, <1>6, <2>2, GrownBytes
  <2>4. mem' = [a \in {"dst", "new"} |-> mem'[a]] /\ mem'["new"] = Put(G, start, n, chr) /\ mem'["dst"] = mem["dst"]
    BY <2>1, MemSet DEF Inv
  <2> HIDE DEF G
  <2>5. Bytes(mem'["new"], start + n, start)
    <3>1. Bytes(Put(G, start, n, chr), start + n, start)
      <4>1. start \in Nat /\ n \in Nat /\ start <= start /\ 0..(start - 1) \subseteq DOMAIN G /\ Bytes(G, start, start)
        BY <1>3, <2>3
      <4> QED  BY <1>4, <4>1, PutBytes
    <3> QED  BY <2>4, <3>1
  <2>6. DOMAIN mem'["new"] = 0..(c - 1)
    <3>1. DOMAIN Put(G, start, n, chr) = DOMAIN G \cup start..(start + n - 1)
      BY <1>3, PutDomain, ZenonT(60)
    <3> QED  BY <1>3, <2>2, <2>3, <2>4, <3>1
  <2>7. CallerBytesKept' /\ DOMAIN mem'["dst"] = 0..(in'.cap - 1)
    BY <1>1, <2>4, CallerSame
  <2>8. Arrays'
    BY <2>1, <2>6, <2>7 DEF Arrays
  <2>9. ReusesCapacity'
    BY <1>1, <1>3, <1>7, <2>1 DEF ReusesCapacity, start, n
  <2> QED  BY <1>1, <2>1, <2>2, <2>4, <2>5, <2>7, <2>8, <2>9, LastStep
<1>8. CASE ~(in.cap < start + n)
  <2>1. /\ mem' = [mem EXCEPT !["dst"] = Put(mem["dst"], start, n, chr)]
        /\ cur' = [cur EXCEPT !.len = start + n]
    BY <1>8 DEF CopyResult, chr
  <2>2. mem' = [a \in {"dst", "new"} |-> mem'[a]] /\ mem'["dst"] = Put(mem["dst"], start, n, chr)
    BY <2>1, MemSet DEF Inv
  <2>3. cur' = [arr |-> "dst", from |-> 0, len |-> start + n, cap |-> in.cap]
    BY <1>2, <2>1 DEF Whole
  <2>4. Bytes(mem'["dst"], start + n, start)
    BY <1>3, <1>4, <1>6, <2>2, PutBytes
  <2>5. CallerBytesKept' /\ DOMAIN mem'["dst"] = 0..(in'.cap - 1)
    <3>1. start <= start /\ start + n <= in.cap /\ start + n <= start + n
      BY <1>3, <1>8
    <3> QED  BY <1>1, <1>3, <2>2, <3>1, CallerStore
  <2>6. Arrays'
    BY <1>1, <2>3, <2>5 DEF Arrays
  <2>7. ReusesCapacity'
    BY <1>1, <1>3, <1>8, <2>3 DEF ReusesCapacity, start, n
  <2> QED  BY <1>1, <1>3, <2>2, <2>3, <2>4, <2>5, <2>6, <2>7, LastStep
<1> QED  BY <1>7, <1>8

\* The zeros of a slice of any length come first.
LEMMA BeginVariableStep ==
    ASSUME Inv, BeginVariable
    PROVE  Inv'
<1>1. /\ pc = "begin" /\ pc' = "zeros" /\ in.kind = "variable"
      /\ in' = in /\ useAVX2' = useAVX2 /\ mem' = mem /\ cur' = cur /\ j' = j
  BY DEF BeginVariable
<1>2. cur = Whole /\ j = 0 /\ in \in Inputs
  BY <1>1 DEF Inv, Begun, Shape
<1>3. start \in Nat /\ in.cap \in Nat /\ start <= in.cap /\ in.zeros \in Nat
  BY <1>2, InputFacts
<1>4. Shape' /\ Arrays' /\ CallerBytesKept'
  BY <1>1 DEF Inv, Shape, Arrays, CallerBytesKept, start, n
<1>5. Bytes(mem["dst"], start, start)
  <2>1. \A x \in 0..(start - 1) : x < start
    BY <1>3
  <2> QED  BY <2>1 DEF Inv, CallerBytesKept, Bytes
<1>6. Zeros'
  <2>1. start + 0 = start
    BY <1>3
  <2> QED  BY <1>1, <1>2, <1>3, <1>5, <2>1 DEF Zeros, Whole, start
<1>7. Begun' /\ Storing' /\ Shifting' /\ ResultExact' /\ ReusesCapacity'
  BY <1>1 DEF Begun, Storing, Shifting, ResultExact, ReusesCapacity
<1> QED  BY <1>4, <1>6, <1>7 DEF Inv

\* One zero character is appended, in a larger array when the slice is full.
LEMMA AppendOneStep ==
    ASSUME Inv, AppendOne
    PROVE  Inv'
<1> DEFINE chr == [x \in {0} |-> j]
           A == mem[cur.arr]
<1>1. /\ pc = "zeros" /\ pc' = "zeros" /\ j < in.zeros /\ j' = j + 1
      /\ in' = in /\ useAVX2' = useAVX2
  BY DEF AppendOne
<1>2. /\ in.kind = "variable" /\ in \in Inputs /\ j \in Nat
      /\ cur.from = 0 /\ cur.len = start + j /\ cur.len <= cur.cap /\ cur.cap \in Nat
      /\ (cur.arr = "dst" <=> in.cap >= start + j)
      /\ Bytes(A, start + j, start)
      /\ cur.arr \in {"dst", "new"}
  BY <1>1 DEF Inv, Zeros, Shape
<1>3. start \in Nat /\ in.cap \in Nat /\ start <= in.cap /\ in.zeros \in Nat /\ n \in Nat
  BY <1>2, InputFacts
<1>4. DOMAIN A = 0..(cur.cap - 1) /\ (cur.arr = "dst" => cur.cap = in.cap)
  BY <1>2 DEF Inv, Arrays
<1> DEFINE m == start + j
<1>5. m \in Nat /\ start <= m /\ \A x \in 0..(1 - 1) : chr[x] = (m + x) - start
  BY <1>2, <1>3
<1> HIDE DEF chr, A
<1>6. \E c \in Nat, arr \in {"dst", "new"} :
         /\ cur' = [arr |-> arr, from |-> 0, len |-> m + 1, cap |-> c] /\ m + 1 <= c
         /\ mem' = [a \in {"dst", "new"} |-> mem'[a]]
         /\ Bytes(mem'[arr], m + 1, start)
         /\ DOMAIN mem'[arr] = 0..(c - 1)
         /\ CallerBytesKept' /\ DOMAIN mem'["dst"] = 0..(in'.cap - 1)
         /\ arr = "dst" => c = in.cap
         /\ arr = "dst" <=> in.cap >= m + 1
  <2>1. CASE cur.len < cur.cap
    <3>1. mem' = [mem EXCEPT ![cur.arr] = Put(A, m, 1, chr)] /\ cur' = [cur EXCEPT !.len = cur.len + 1]
      BY <1>2, <2>1 DEF AppendOne, chr, A
    <3>2. cur' = [arr |-> cur.arr, from |-> 0, len |-> m + 1, cap |-> cur.cap]
      BY <1>2, <3>1 DEF Inv, Shape
    <3>3. /\ mem' = [a \in {"dst", "new"} |-> mem'[a]] /\ mem'[cur.arr] = Put(A, m, 1, chr)
          /\ cur.arr = "new" => mem'["dst"] = mem["dst"]
      BY <1>2, <3>1, MemSet DEF Inv
    <3>4. m + 1 <= cur.cap /\ 0..(m - 1) \subseteq DOMAIN A
      BY <1>2, <1>4, <1>5, <2>1
    <3>5. Bytes(mem'[cur.arr], m + 1, start)
      BY <1>2, <1>3, <1>5, <3>3, <3>4, PutBytes
    <3>6. DOMAIN mem'[cur.arr] = 0..(cur.cap - 1)
      <4>1. DOMAIN Put(A, m, 1, chr) = DOMAIN A \cup m..(m + 1 - 1)
        BY <1>5, PutDomain
      <4>2. (0..(cur.cap - 1)) \cup m..(m + 1 - 1) = 0..(cur.cap - 1)
        BY <1>2, <1>5, <3>4, Within
      <4> HIDE DEF m
      <4> QED  BY <1>4, <3>3, <4>1, <4>2
    <3>7. CallerBytesKept' /\ DOMAIN mem'["dst"] = 0..(in'.cap - 1)
      <4>1. CASE cur.arr = "new"
        BY <1>1, <3>3, <4>1, CallerSame
      <4>2. CASE cur.arr = "dst"
        <5>1. mem'["dst"] = Put(mem["dst"], m, 1, chr) /\ m + 1 <= in.cap
          BY <1>4, <3>3, <3>4, <4>2 DEF A
        <5> QED  BY <1>1, <1>2, <1>5, <5>1, CallerStore
      <4> QED  BY <1>2, <4>1, <4>2
    <3>8. cur.arr = "dst" <=> in.cap >= m + 1
      BY <1>2, <1>3, <1>4, <1>5, <3>4
    <3> QED  BY <1>2, <1>4, <3>2, <3>3, <3>4, <3>5, <3>6, <3>7, <3>8
  <2>2. CASE ~(cur.len < cur.cap)
    <3>1. PICK c \in (cur.len + 1)..(cur.len + 1 + GrowBound) :
             /\ mem' = [mem EXCEPT !["new"] = Put(Grown(c), m, 1, chr)]
             /\ cur' = [arr |-> "new", from |-> 0, len |-> m + 1, cap |-> c]
      BY <1>2, <2>2 DEF AppendOne, chr
    <3>2. c \in Nat /\ m + 1 <= c /\ m <= c
      BY <1>2, <1>3, <1>5, GrowAssumption
    <3>3. DOMAIN Grown(c) = 0..(c - 1) /\ 0..(m - 1) \subseteq DOMAIN Grown(c) /\ Bytes(Grown(c), m, start)
      BY <1>2, <1>5, <3>2, GrownBytes DEF A
    <3> DEFINE G == Grown(c)
    <3>4. /\ mem' = [a \in {"dst", "new"} |-> mem'[a]] /\ mem'["new"] = Put(G, m, 1, chr)
          /\ mem'["dst"] = mem["dst"]
      BY <3>1, MemSet DEF Inv
    <3> HIDE DEF G
    <3>5. Bytes(mem'["new"], m + 1, start)
      BY <1>3, <1>5, <3>3, <3>4, PutBytes, ZenonT(60) DEF G
    <3>6. DOMAIN mem'["new"] = 0..(c - 1)
      <4>1. DOMAIN Put(G, m, 1, chr) = DOMAIN G \cup m..(m + 1 - 1)
        BY <1>5, PutDomain
      <4>2. DOMAIN G = 0..(c - 1)
        BY <3>3 DEF G
      <4>3. (0..(c - 1)) \cup m..(m + 1 - 1) = 0..(c - 1)
        BY <1>5, <3>2, Within
      <4> HIDE DEF m
      <4> QED  BY <3>4, <4>1, <4>2, <4>3
    <3>7. CallerBytesKept' /\ DOMAIN mem'["dst"] = 0..(in'.cap - 1)
      BY <1>1, <3>4, CallerSame
    <3>8. ~(in.cap >= m + 1)
      BY <1>2, <1>3, <1>4, <1>5, <2>2
    <3> QED  BY <3>1, <3>2, <3>4, <3>5, <3>6, <3>7, <3>8
  <2> QED  BY <2>1, <2>2
<1>7. PICK c \in Nat, arr \in {"dst", "new"} :
         /\ cur' = [arr |-> arr, from |-> 0, len |-> m + 1, cap |-> c] /\ m + 1 <= c
         /\ mem' = [a \in {"dst", "new"} |-> mem'[a]]
         /\ Bytes(mem'[arr], m + 1, start)
         /\ DOMAIN mem'[arr] = 0..(c - 1)
         /\ CallerBytesKept' /\ DOMAIN mem'["dst"] = 0..(in'.cap - 1)
         /\ arr = "dst" => c = in.cap
         /\ arr = "dst" <=> in.cap >= m + 1
  BY <1>6
<1>8. m + 1 = start + (j + 1) /\ m + 1 \in Nat /\ j + 1 <= in.zeros /\ j + 1 \in Nat
  BY <1>1, <1>2, <1>3
<1> HIDE DEF m
<1>9. Shape'
  BY <1>1, <1>2, <1>7, <1>8 DEF Inv, Shape
<1>10. Arrays'
  BY <1>1, <1>7 DEF Arrays
<1>11. Zeros'
  <2>1. cur'.arr = arr /\ cur'.from = 0 /\ cur'.len = m + 1 /\ cur'.cap = c /\ start' = start
    BY <1>1, <1>7 DEF start
  <2> QED  BY <1>1, <1>2, <1>7, <1>8, <2>1 DEF Zeros
<1>12. Begun' /\ Storing' /\ Shifting' /\ ResultExact' /\ ReusesCapacity'
  BY <1>1 DEF Begun, Storing, Shifting, ResultExact, ReusesCapacity
<1> QED  BY <1>7, <1>9, <1>10, <1>11, <1>12 DEF Inv

\* The rest of the input is encoded into room for the estimate.
LEMMA EncodeTailStep ==
    ASSUME Inv, EncodeTail
    PROVE  Inv'
<1> DEFINE size == encodeVariableSize(in.nz)
           at == start + in.zeros
           p == size - tail
           chr == [x \in 0..(size - 1) |-> IF x < p THEN Junk ELSE in.zeros + x - p]
           A == mem[cur.arr]
<1>1. /\ pc = "zeros" /\ j = in.zeros
      /\ in' = in /\ useAVX2' = useAVX2 /\ j' = j
  BY DEF EncodeTail
<1>2. /\ in.kind = "variable" /\ in \in Inputs
      /\ cur.from = 0 /\ cur.len = at /\ cur.len <= cur.cap /\ cur.cap \in Nat
      /\ (cur.arr = "dst" <=> in.cap >= at)
      /\ Bytes(A, at, start)
      /\ cur.arr \in {"dst", "new"}
  BY <1>1 DEF Inv, Zeros, Shape
<1>3. /\ start \in Nat /\ in.cap \in Nat /\ start <= in.cap /\ in.zeros \in Nat /\ n \in Nat
      /\ in.zeros <= n /\ in.nz \in Nat /\ (in.nz = 0 => n = in.zeros) /\ tail <= size
  BY <1>2, InputFacts
<1>4. size \in Nat
  BY <1>3, SizeNat
<1>5. DOMAIN A = 0..(cur.cap - 1) /\ (cur.arr = "dst" => cur.cap = in.cap)
  BY <1>2 DEF Inv, Arrays
<1>6. at \in Nat /\ start <= at /\ tail \in Nat /\ p \in Nat
  BY <1>3, <1>4 DEF tail
<1>7. CASE in.nz = 0
  <2>1. pc' = "done" /\ mem' = mem /\ cur' = cur
    BY <1>7 DEF EncodeTail
  <2>2. at = start + n
    BY <1>3, <1>7
  <2>3. cur' = [arr |-> cur.arr, from |-> 0, len |-> start + n, cap |-> cur.cap]
    BY <1>2, <2>1, <2>2 DEF Inv, Shape
  <2>4. mem' = [a \in {"dst", "new"} |-> mem'[a]] /\ Bytes(mem'[cur.arr], start + n, start)
    BY <1>2, <2>1, <2>2 DEF Inv, Shape
  <2>5. CallerBytesKept' /\ Arrays'
    BY <1>1, <2>1 DEF Inv, CallerBytesKept, Arrays, start, n
  <2>6. ReusesCapacity'
    BY <1>1, <1>2, <1>7, <2>1, <2>2 DEF ReusesCapacity, start, n
  <2> HIDE DEF at
  <2> QED  BY <1>1, <1>2, <2>1, <2>3, <2>4, <2>5, <2>6, LastStep
<1>8. CASE in.nz # 0
  <2>1. /\ pc' = "shift"
        /\ IF cur.cap < at + size
           THEN /\ mem' = [mem EXCEPT !["new"] = Put(Grown(at + size), at, size, chr)]
                /\ cur' = [arr |-> "new", from |-> 0, len |-> at + size, cap |-> at + size]
           ELSE /\ mem' = [mem EXCEPT ![cur.arr] = Put(mem[cur.arr], at, size, chr)]
                /\ cur' = [cur EXCEPT !.len = at + size]
    BY <1>8 DEF EncodeTail
  <2>2. \A x \in 0..(tail - 1) : p + x \in 0..(size - 1) /\ chr[p + x] = in.zeros + x
    <3>1. \A x \in 0..(tail - 1) : p + x \in 0..(size - 1) /\ ~(p + x < p) /\ in.zeros + (p + x) - p = in.zeros + x
      BY <1>3, <1>4, <1>6
    <3> HIDE DEF p
    <3> QED  BY <3>1
  <2>3. ASSUME NEW a, 0..(at - 1) \subseteq DOMAIN a, Bytes(a, at, start)
        PROVE  /\ Bytes(Put(a, at, size, chr), at, start)
               /\ \A x \in 0..(tail - 1) : Put(a, at, size, chr)[at + p + x] = in.zeros + x
    <3> HIDE DEF at, size, chr, p
    <3>1. Bytes(Put(a, at, size, chr), at, start)
      <4>1. \A x \in 0..(at - 1) : x \in DOMAIN a /\ x \in Int /\ x < at
        BY <1>6, <2>3
      <4>2. \A x \in 0..(at - 1) : Put(a, at, size, chr)[x] = a[x]
        BY <1>4, <1>6, <4>1, PutOld
      <4> QED  BY <2>3, <4>2 DEF Bytes
    <3>2. ASSUME NEW x \in 0..(tail - 1) PROVE Put(a, at, size, chr)[at + p + x] = in.zeros + x
      <4> DEFINE y == p + x
      <4>1. y \in 0..(size - 1) /\ chr[y] = in.zeros + x
        BY <2>2
      <4>2. at + p + x = at + y
        BY <1>6
      <4> HIDE DEF y
      <4>3. Put(a, at, size, chr)[at + y] = chr[y]
        BY <1>4, <1>6, <4>1, PutNew
      <4> QED  BY <4>1, <4>2, <4>3
    <3> QED  BY <3>1, <3>2
  <2> HIDE DEF at, size, chr, p
  <2>4. \E c \in Nat, arr \in {"dst", "new"} :
           /\ cur' = [arr |-> arr, from |-> 0, len |-> at + size, cap |-> c] /\ at + size <= c
           /\ mem' = [a \in {"dst", "new"} |-> mem'[a]]
           /\ Bytes(mem'[arr], at, start)
           /\ \A x \in 0..(tail - 1) : mem'[arr][at + p + x] = in.zeros + x
           /\ DOMAIN mem'[arr] = 0..(c - 1)
           /\ CallerBytesKept' /\ DOMAIN mem'["dst"] = 0..(in'.cap - 1)
           /\ arr = "dst" => c = in.cap
           /\ arr = "dst" <=> in.cap >= at + size
    <3>1. CASE cur.cap < at + size
      <4> DEFINE c == at + size
                 G == Grown(c)
      <4>1. /\ mem' = [mem EXCEPT !["new"] = Put(G, at, size, chr)]
            /\ cur' = [arr |-> "new", from |-> 0, len |-> at + size, cap |-> c]
        BY <2>1, <3>1
      <4>2. c \in Nat /\ at <= c /\ at + size <= c
        BY <1>4, <1>6
      <4> HIDE DEF c
      <4>3. DOMAIN G = 0..(c - 1) /\ 0..(at - 1) \subseteq DOMAIN G /\ Bytes(G, at, start)
        BY <1>2, <1>6, <4>2, GrownBytes
      <4>4. /\ mem' = [a \in {"dst", "new"} |-> mem'[a]] /\ mem'["new"] = Put(G, at, size, chr)
            /\ mem'["dst"] = mem["dst"]
        BY <4>1, MemSet DEF Inv
      <4> HIDE DEF G
      <4>5. /\ Bytes(mem'["new"], at, start)
            /\ \A x \in 0..(tail - 1) : mem'["new"][at + p + x] = in.zeros + x
        BY <2>3, <4>3, <4>4
      <4>6. DOMAIN mem'["new"] = 0..(c - 1)
        <5>1. DOMAIN Put(G, at, size, chr) = DOMAIN G \cup at..(at + size - 1)
          <6>1. at \in Nat /\ size \in Nat
            BY <1>4, <1>6
          <6> QED  BY <6>1, PutDomain
        <5>2. (0..(c - 1)) \cup at..(at + size - 1) = 0..(c - 1)
          BY <1>4, <1>6, <4>2, Within
        <5> QED  BY <4>3, <4>4, <5>1, <5>2
      <4>7. CallerBytesKept' /\ DOMAIN mem'["dst"] = 0..(in'.cap - 1)
        BY <1>1, <4>4, CallerSame
      <4>8. ~(in.cap >= at + size)
        BY <1>2, <1>3, <1>4, <1>5, <1>6, <3>1
      <4> QED  BY <4>1, <4>2, <4>4, <4>5, <4>6, <4>7, <4>8
    <3>2. CASE ~(cur.cap < at + size)
      <4>1. /\ mem' = [mem EXCEPT ![cur.arr] = Put(A, at, size, chr)]
            /\ cur' = [cur EXCEPT !.len = at + size]
        BY <2>1, <3>2
      <4>2. cur' = [arr |-> cur.arr, from |-> 0, len |-> at + size, cap |-> cur.cap]
        BY <1>2, <4>1 DEF Inv, Shape
      <4>3. /\ mem' = [a \in {"dst", "new"} |-> mem'[a]] /\ mem'[cur.arr] = Put(A, at, size, chr)
            /\ cur.arr = "new" => mem'["dst"] = mem["dst"]
        BY <1>2, <4>1, MemSet DEF Inv
      <4> HIDE DEF A
      <4>4. at + size <= cur.cap /\ 0..(at - 1) \subseteq DOMAIN A
        BY <1>2, <1>4, <1>5, <1>6, <3>2
      <4>5. /\ Bytes(mem'[cur.arr], at, start)
            /\ \A x \in 0..(tail - 1) : mem'[cur.arr][at + p + x] = in.zeros + x
        BY <1>2, <2>3, <4>3, <4>4
      <4>6. DOMAIN mem'[cur.arr] = 0..(cur.cap - 1)
        <5>1. DOMAIN Put(A, at, size, chr) = DOMAIN A \cup at..(at + size - 1)
          <6>1. at \in Nat /\ size \in Nat
            BY <1>4, <1>6
          <6> QED  BY <6>1, PutDomain
        <5>2. (0..(cur.cap - 1)) \cup at..(at + size - 1) = 0..(cur.cap - 1)
          BY <1>2, <1>4, <1>6, <4>4, Within
        <5> QED  BY <1>5, <4>3, <5>1, <5>2
      <4>7. CallerBytesKept' /\ DOMAIN mem'["dst"] = 0..(in'.cap - 1)
        <5>1. CASE cur.arr = "new"
          BY <1>1, <4>3, <5>1, CallerSame
        <5>2. CASE cur.arr = "dst"
          <6>1. mem'["dst"] = Put(mem["dst"], at, size, chr) /\ at + size <= in.cap
            BY <1>5, <4>3, <4>4, <5>2 DEF A
          <6> QED  BY <1>1, <1>2, <1>4, <1>6, <6>1, CallerStore
        <5> QED  BY <1>2, <5>1, <5>2
      <4>8. cur.arr = "dst" <=> in.cap >= at + size
        BY <1>2, <1>3, <1>4, <1>5, <1>6, <4>4
      <4> QED  BY <1>2, <1>5, <4>2, <4>3, <4>4, <4>5, <4>6, <4>7, <4>8
    <3> QED  BY <3>1, <3>2
  <2>5. PICK c \in Nat, arr \in {"dst", "new"} :
           /\ cur' = [arr |-> arr, from |-> 0, len |-> at + size, cap |-> c] /\ at + size <= c
           /\ mem' = [a \in {"dst", "new"} |-> mem'[a]]
           /\ Bytes(mem'[arr], at, start)
           /\ \A x \in 0..(tail - 1) : mem'[arr][at + p + x] = in.zeros + x
           /\ DOMAIN mem'[arr] = 0..(c - 1)
           /\ CallerBytesKept' /\ DOMAIN mem'["dst"] = 0..(in'.cap - 1)
           /\ arr = "dst" => c = in.cap
           /\ arr = "dst" <=> in.cap >= at + size
    BY <2>4
  <2>6. Shape'
    BY <1>1, <1>4, <1>6, <2>1, <2>5 DEF Inv, Shape
  <2>7. Arrays'
    BY <1>1, <2>5 DEF Arrays
  <2>8. Shifting'
    <3>1. /\ cur'.arr = arr /\ cur'.from = 0 /\ cur'.len = at + size /\ cur'.cap = c
          /\ start' = start /\ n' = n /\ tail' = tail
      BY <1>1, <2>5 DEF start, n, tail
    <3>2. in.nz > 0
      BY <1>3, <1>8
    <3>3. /\ cur'.len = (start + in.zeros) + encodeVariableSize(in.nz) /\ cur'.len <= cur'.cap
          /\ cur'.arr = "dst" <=> in.cap >= (start + in.zeros) + encodeVariableSize(in.nz)
          /\ Bytes(mem'[arr], start + in.zeros, start)
          /\ \A x \in 0..(tail - 1) :
                 mem'[arr][(start + in.zeros) + (encodeVariableSize(in.nz) - tail) + x] = in.zeros + x
      BY <2>5, <3>1 DEF at, size, p
    <3> QED  BY <1>1, <1>2, <3>1, <3>2, <3>3 DEF Shifting
  <2>9. Begun' /\ Storing' /\ Zeros' /\ ResultExact' /\ ReusesCapacity'
    BY <2>1 DEF Begun, Storing, Zeros, ResultExact, ReusesCapacity
  <2> QED  BY <2>5, <2>6, <2>7, <2>8, <2>9 DEF Inv
<1> QED  BY <1>7, <1>8

\* The characters are moved to the front of the room made for them.
LEMMA ShiftDownStep ==
    ASSUME Inv, ShiftDown
    PROVE  Inv'
<1> DEFINE size == encodeVariableSize(in.nz)
           at == start + in.zeros
           p == size - tail
           A == mem[cur.arr]
           chr == [x \in 0..(tail - 1) |-> A[at + p + x]]
<1>1. /\ pc = "shift" /\ pc' = "done"
      /\ mem' = [mem EXCEPT ![cur.arr] = Put(A, at, tail, chr)]
      /\ cur' = [cur EXCEPT !.len = cur.len - p]
      /\ in' = in /\ useAVX2' = useAVX2 /\ j' = j
  BY DEF ShiftDown
<1>2. /\ in.kind = "variable" /\ in.nz > 0 /\ in \in Inputs
      /\ cur.from = 0 /\ cur.len = at + size /\ cur.len <= cur.cap /\ cur.cap \in Nat
      /\ (cur.arr = "dst" <=> in.cap >= at + size)
      /\ Bytes(A, at, start)
      /\ \A x \in 0..(tail - 1) : A[at + (size - tail) + x] = in.zeros + x
      /\ cur.arr \in {"dst", "new"}
  BY <1>1 DEF Inv, Shifting, Shape
<1>3. /\ start \in Nat /\ in.cap \in Nat /\ start <= in.cap /\ in.zeros \in Nat /\ n \in Nat
      /\ in.zeros <= n /\ in.nz \in Nat /\ tail <= size
  BY <1>2, InputFacts
<1>4. size \in Nat
  BY <1>3, SizeNat
<1>5. DOMAIN A = 0..(cur.cap - 1) /\ (cur.arr = "dst" => cur.cap = in.cap)
  BY <1>2 DEF Inv, Arrays
<1>6. at \in Nat /\ start <= at /\ tail \in Nat /\ at + tail = start + n /\ (at + size) - p = start + n
  BY <1>3, <1>4 DEF tail
<1>7. \A x \in 0..(tail - 1) : chr[x] = (at + x) - start
  <2>1. \A x \in 0..(tail - 1) : chr[x] = in.zeros + x
    BY <1>2
  <2>2. \A x \in 0..(tail - 1) : in.zeros + x = (at + x) - start
    BY <1>3
  <2> QED  BY <2>1, <2>2
<1>8. cur' = [arr |-> cur.arr, from |-> 0, len |-> start + n, cap |-> cur.cap]
  BY <1>1, <1>2, <1>6 DEF Inv, Shape
<1>9. /\ mem' = [a \in {"dst", "new"} |-> mem'[a]] /\ mem'[cur.arr] = Put(A, at, tail, chr)
      /\ cur.arr = "new" => mem'["dst"] = mem["dst"]
  BY <1>1, <1>2, MemSet DEF Inv
<1>10. at + tail <= cur.cap /\ 0..(at - 1) \subseteq DOMAIN A
  <2>1. at \in Nat /\ tail \in Nat /\ tail <= size /\ at + size <= cur.cap
    BY <1>2, <1>3, <1>6
  <2> HIDE DEF A, at, size
  <2>2. at + tail <= cur.cap /\ at <= cur.cap
    BY <1>2, <1>4, <2>1
  <2> QED  BY <1>2, <1>5, <2>1, <2>2
<1>11. ReusesCapacity'
  <2>1. cur'.arr = cur.arr
    BY <1>8
  <2> QED  BY <1>1, <1>2, <2>1 DEF ReusesCapacity, start
<1> HIDE DEF A, at, size, chr, p
<1>12. Bytes(mem'[cur.arr], start + n, start)
  <2>1. Bytes(Put(A, at, tail, chr), at + tail, start)
    <3>1. start \in Nat /\ at \in Nat /\ start <= at /\ tail \in Nat /\ 0..(at - 1) \subseteq DOMAIN A /\ Bytes(A, at, start)
      BY <1>2, <1>3, <1>6, <1>10
    <3> QED  BY <1>7, <3>1, PutBytes
  <2> QED  BY <1>6, <1>9, <2>1
<1>13. DOMAIN mem'[cur.arr] = 0..(cur.cap - 1)
  <2>1. at \in Nat /\ tail \in Nat
    BY <1>6
  <2>2. DOMAIN Put(A, at, tail, chr) = DOMAIN A \cup at..(at + tail - 1)
    BY <2>1, PutDomain
  <2>3. (0..(cur.cap - 1)) \cup at..(at + tail - 1) = 0..(cur.cap - 1)
    BY <1>2, <1>10, <2>1, Within
  <2> QED  BY <1>5, <1>9, <2>2, <2>3
<1>14. CallerBytesKept' /\ DOMAIN mem'["dst"] = 0..(in'.cap - 1)
  <2>1. CASE cur.arr = "new"
    BY <1>1, <1>9, <2>1, CallerSame
  <2>2. CASE cur.arr = "dst"
    <3>1. mem'["dst"] = Put(mem["dst"], at, tail, chr) /\ at + tail <= in.cap
      BY <1>5, <1>9, <1>10, <2>2 DEF A
    <3> QED  BY <1>1, <1>2, <1>6, <3>1, CallerStore
  <2> QED  BY <1>2, <2>1, <2>2
<1>15. Arrays'
  BY <1>1, <1>5, <1>8, <1>13, <1>14 DEF Arrays
<1> QED  BY <1>1, <1>2, <1>8, <1>9, <1>11, <1>12, <1>14, <1>15, LastStep

\* What Encode64 starts from: an empty slice.
LEMMA OwnedFacts ==
    ASSUME Inv, pc = "begin", in.kind = "owned"
    PROVE  start = 0 /\ in.cap = 0 /\ n \in Nat /\ n >= 64 /\ n <= 88 /\ in.zeros \in Nat /\ start \in Nat
BY InputFacts DEF Inv, Shape

\* Encode64 with AVX2: three whole vectors, and the string somewhere in them.
LEMMA OwnedStoresStep ==
    ASSUME Inv, OwnedStores
    PROVE  Inv'
<1> DEFINE shift == IF in.zeros = 0 THEN Raw64 - n ELSE 0
           chr == Chars(-shift, 3 * VecWidth)
           P == Put(<<>>, 0, 3 * VecWidth, chr)
<1>1. /\ pc = "begin" /\ pc' = "done" /\ in.kind = "owned"
      /\ mem' = [mem EXCEPT !["new"] = P]
      /\ cur' = [arr |-> "new", from |-> shift, len |-> n, cap |-> OwnedSize]
      /\ in' = in /\ useAVX2' = useAVX2 /\ j' = j
  BY DEF OwnedStores
<1>2. start = 0 /\ in.cap = 0 /\ n \in Nat /\ n >= 64 /\ n <= 88
  BY <1>1, OwnedFacts
<1>3. shift \in Nat /\ shift + n <= 96
  BY <1>2 DEF Raw64
<1> HIDE DEF shift
<1>4. ASSUME NEW x \in 0..(n - 1) PROVE P[shift + x] = x
  <2> DEFINE y == shift + x
  <2>1. y \in 0..(96 - 1) /\ -shift + y = x
    BY <1>2, <1>3
  <2> HIDE DEF y
  <2>2. chr[y] = x
    BY <2>1 DEF Chars, VecWidth
  <2>3. 3 * VecWidth = 96
    BY DEF VecWidth
  <2>4. Put(<<>>, 0, 96, chr)[y] = chr[y]
    <3> HIDE DEF chr
    <3>1. y \in 0..95 /\ y - 0 = y
      BY <2>1
    <3> QED  BY <3>1 DEF Put
  <2> QED  BY <2>1, <2>2, <2>3, <2>4 DEF y
<1>5. DOMAIN P = 0..95
  BY DEF Put, VecWidth
<1>6. mem' = [a \in {"dst", "new"} |-> mem'[a]] /\ mem'["new"] = P /\ mem'["dst"] = mem["dst"]
  BY <1>1, MemSet DEF Inv
<1> HIDE DEF P
<1>7. CallerBytesKept' /\ DOMAIN mem'["dst"] = 0..(in'.cap - 1)
  BY <1>1, <1>6, CallerSame
<1>8. Shape' /\ Arrays'
  BY <1>1, <1>2, <1>3, <1>5, <1>6, <1>7 DEF Inv, Shape, Arrays, OwnedSize
<1>9. ResultExact'
  <2>1. /\ cur'.arr = "new" /\ cur'.from = shift /\ cur'.len = n /\ start' = 0 /\ n' = n
    BY <1>1, <1>2 DEF start, n
  <2>2. \A x \in 0..(n - 1) : ~(x < 0) /\ x - 0 = x
    BY <1>2
  <2> QED  BY <1>2, <1>4, <1>6, <2>1, <2>2 DEF ResultExact
<1>10. Begun' /\ Storing' /\ Zeros' /\ Shifting' /\ ReusesCapacity'
  BY <1>1 DEF Begun, Storing, Zeros, Shifting, ReusesCapacity
<1> QED  BY <1>7, <1>8, <1>9, <1>10 DEF Inv

\* Encode64 without AVX2.
LEMMA OwnedGenericStep ==
    ASSUME Inv, OwnedGeneric
    PROVE  Inv'
<1> DEFINE chr == Chars(0, n)
           P == Put(<<>>, 0, n, chr)
<1>1. /\ pc = "begin" /\ pc' = "done" /\ in.kind = "owned"
      /\ mem' = [mem EXCEPT !["new"] = P]
      /\ cur' = [arr |-> "new", from |-> 0, len |-> n, cap |-> n]
      /\ in' = in /\ useAVX2' = useAVX2 /\ j' = j
  BY DEF OwnedGeneric
<1>2. start = 0 /\ n \in Nat /\ start + n = n
  BY <1>1, OwnedFacts
<1>3. Bytes(P, n, 0) /\ DOMAIN P = 0..(n - 1)
  <2>1. \A x \in 0..(n - 1) : chr[x] = x
    BY <1>2 DEF Chars
  <2> HIDE DEF chr
  <2>2. DOMAIN P = 0..(n - 1)
    BY <1>2 DEF Put
  <2>3. \A x \in 0..(n - 1) : P[x] = x /\ ~(x < 0) /\ x - 0 = x
    BY <1>2, <2>1 DEF Put
  <2> QED  BY <2>2, <2>3 DEF Bytes
<1>4. mem' = [a \in {"dst", "new"} |-> mem'[a]] /\ mem'["new"] = P /\ mem'["dst"] = mem["dst"]
  BY <1>1, MemSet DEF Inv
<1> HIDE DEF P
<1>5. CallerBytesKept' /\ DOMAIN mem'["dst"] = 0..(in'.cap - 1)
  BY <1>1, <1>4, CallerSame
<1>6. Arrays'
  BY <1>1, <1>3, <1>4, <1>5 DEF Arrays
<1>7. ReusesCapacity'
  BY <1>1 DEF ReusesCapacity
<1> QED  BY <1>1, <1>2, <1>3, <1>4, <1>5, <1>6, <1>7, LastStep

-----------------------------------------------------------------------------
(* The theorems *)

\* Every step keeps the invariant.
LEMMA InvStep ==
    ASSUME Inv, [Next]_vars
    PROVE  Inv'
<1>1. CASE UNCHANGED vars
  <2>1. in' = in /\ useAVX2' = useAVX2 /\ pc' = pc /\ mem' = mem /\ cur' = cur /\ j' = j
    BY <1>1 DEF vars
  <2>2. Shape' /\ Arrays' /\ Begun' /\ Storing' /\ Zeros' /\ Shifting'
    <3>1. /\ start' = start /\ n' = n /\ tail' = tail /\ Whole' = Whole /\ Stores' = Stores /\ Roomy' = Roomy
          /\ \A x : Covered(x)' = Covered(x)
      BY <2>1 DEF start, n, tail, Whole, Stores, Roomy, Covered
    <3> QED  BY <2>1, <3>1 DEF Inv, Shape, Arrays, Begun, Storing, Zeros, Shifting
  <2>3. ResultExact' /\ CallerBytesKept' /\ ReusesCapacity'
    BY <2>1 DEF Inv, ResultExact, CallerBytesKept, ReusesCapacity, start, n
  <2> QED  BY <2>2, <2>3 DEF Inv
<1> QED
  BY <1>1, BeginKernelStep, StoreVectorStep, KernelReturnStep, CopyResultStep, BeginVariableStep, AppendOneStep,
     EncodeTailStep, ShiftDownStep, OwnedStoresStep, OwnedGenericStep DEF Next, Terminated

\* The invariant holds throughout.
THEOREM Invariance == Spec => []Inv
BY InitInv, InvStep, PTL DEF Spec

\* For slices of every length and capacity and results of every length: no
\* vector store of the kernels, no append and no estimate of
\* encodeVariableSize leaves the array it is meant for.
THEOREM AlwaysInBounds == Spec => []StoresInBounds
<1>1. Inv => StoresInBounds
  BY DEF Inv, Arrays, StoresInBounds
<1> QED  BY <1>1, Invariance, PTL

\* The slice returned by AppendEncode, AppendEncode32 and AppendEncode64, and
\* the string of Encode64, is the old contents followed by the characters.
THEOREM AppendedExactly == Spec => []ResultExact
<1>1. Inv => ResultExact
  BY DEF Inv
<1> QED  BY <1>1, Invariance, PTL

\* The caller's bytes stay, and what is behind the result of a fixed size.
THEOREM CallerBytesAlwaysKept == Spec => []CallerBytesKept
<1>1. Inv => CallerBytesKept
  BY DEF Inv
<1> QED  BY <1>1, Invariance, PTL

\* A new array is allocated exactly when the old one has too little room.
THEOREM AllocatesOnlyWhenFull == Spec => []ReusesCapacity
<1>1. Inv => ReusesCapacity
  BY DEF Inv
<1> QED  BY <1>1, Invariance, PTL
=============================================================================
