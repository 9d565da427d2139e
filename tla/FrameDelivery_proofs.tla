------------------------ MODULE FrameDelivery_proofs ------------------------
(***************************************************************************)
(* The way of a frame out of an SDK buffer and into a graphics frame, for  *)
(* every word size, number of parts, dimensions and answers of the SDK,    *)
(* and every frame a caller builds.                                        *)
(*                                                                         *)
(* What a copied part is (Copied) follows from arithmetic on the sizes the *)
(* SDK reports: the product of its dimensions, by induction over them, the *)
(* whole samples of a byte count, and the bound of a uint32 in the middle. *)
(* What a graphics frame says then follows from what its parts are.        *)
(***************************************************************************)
EXTENDS FrameDelivery, SequenceTheorems, WellFoundedInduction, TLAPS

------------------------------------------------------------------------------
(* Numbers *)

LEMMA LeastNumber ==
  ASSUME NEW S \in SUBSET Nat, S # {}
  PROVE  \E n \in S : \A m \in S : n <= m
<1> DEFINE R == OpToRel(<, Nat)
<1>1. IsWellFoundedOn(R, Nat)
  BY NatLessThanWellFounded
<1>2. \A m, n \in Nat : <<m, n>> \in R <=> m < n
  BY DEF OpToRel
<1> HIDE DEF R
<1>3. PICK n \in S : \A m \in S : <<m, n>> \notin R
  BY <1>1, WFMin
<1>4. \A m \in S : n <= m
  <2> SUFFICES ASSUME NEW m \in S PROVE n <= m
    OBVIOUS
  <2>1. m \in Nat /\ n \in Nat
    OBVIOUS
  <2>2. ~(m < n)
    BY <1>2, <1>3, <2>1
  <2>3. QED
    BY <2>1, <2>2
<1>5. QED
  BY <1>4

LEMMA GreatestNumber ==
  ASSUME NEW b \in Nat, NEW S \in SUBSET (0..b), S # {}
  PROVE  \E n \in S : \A m \in S : m <= n
<1> DEFINE Left == {b - n : n \in S}
<1>1. Left \in SUBSET Nat /\ Left # {}
  <2>1. \A n \in S : b - n \in Nat
    OBVIOUS
  <2>2. QED
    BY <2>1
<1>2. PICK l \in Left : \A m \in Left : l <= m
  BY <1>1, LeastNumber
<1>3. PICK n \in S : l = b - n
  BY <1>2
<1>4. \A m \in S : m <= n
  <2> SUFFICES ASSUME NEW m \in S PROVE m <= n
    OBVIOUS
  <2>1. l <= b - m
    BY <1>2
  <2>2. QED
    BY <1>3, <2>1
<1>5. QED
  BY <1>4

(* Induction over the natural numbers, for a set. *)
LEMMA Reaches ==
  ASSUME NEW S, 0 \in S, \A n \in Nat : n \in S => n + 1 \in S
  PROVE  Nat \subseteq S
<1> SUFFICES ASSUME Nat \ S # {} PROVE FALSE
  OBVIOUS
<1>1. PICK n \in Nat \ S : \A m \in Nat \ S : n <= m
  BY LeastNumber
<1>2. n # 0 /\ n - 1 \in Nat
  BY <1>1
<1>3. n - 1 \in S
  BY <1>1, <1>2
<1>4. (n - 1) + 1 \in S
  BY <1>2, <1>3
<1>5. QED
  BY <1>2, <1>4

LEMMA FirstIs ==
  ASSUME NEW S \in SUBSET (Nat \ {0})
  PROVE  /\ S = {} => First(S) = 0
         /\ S # {} => First(S) \in S /\ First(S) # 0
<1>1. ASSUME S # {} PROVE First(S) \in S
  <2>1. \E n \in S : \A m \in S : n <= m
    BY <1>1, LeastNumber
  <2>2. QED
    BY <1>1, <2>1 DEF First
<1>2. QED
  BY <1>1 DEF First

LEMMA QuotientFits ==
  ASSUME NEW n \in Nat, NEW d \in Nat \ {0}
  PROVE  n \div d \in Nat /\ (n \div d) * d <= n
OBVIOUS

LEMMA FactorsFit ==
  ASSUME NEW a \in Nat, NEW b \in Nat, a # 0, b # 0
  PROVE  a * b \in Nat /\ a <= a * b /\ b <= a * b /\ a * b # 0
OBVIOUS

LEMMA QuotientOfProduct ==
  ASSUME NEW a \in Nat \ {0}, NEW b \in Nat
  PROVE  (a * b) \div a = b
OBVIOUS

LEMMA ProductBound ==
  ASSUME NEW q \in Nat, NEW d \in Nat \ {0}, NEW n \in Nat, q <= n \div d
  PROVE  q * d <= n
<1>1. q * d <= (n \div d) * d
  BY QuotientFits
<1>2. QED
  BY <1>1, QuotientFits

LEMMA Associates ==
  ASSUME NEW a \in Nat, NEW b \in Nat, NEW c \in Nat
  PROVE  (a * b) * c = a * (b * c)
OBVIOUS

(* Whole samples of two or eight bytes. *)
LEMMA WholeSamples ==
  ASSUME NEW n \in Nat, NEW s \in {2, 8}
  PROVE  /\ n \div s \in Nat
         /\ n % s = 0 => (n \div s) * s = n
         /\ n <= Word => n \div s <= IntMax
<1>1. s = 2 \/ s = 8
  OBVIOUS
<1>2. Word \in Nat
  BY WordAssumption
<1>3. QED
  BY <1>1, <1>2 DEF IntMax

LEMMA IntMaxIs == IntMax \in Nat /\ IntMax <= Word /\ Word \in Nat
BY WordAssumption DEF IntMax

------------------------------------------------------------------------------
(* The product of dimensions *)

Times(q, x) ==
  IF \/ q = 0 \/ x \notin 1..Word
     \/ q > Word \div x
    THEN 0 ELSE q * x

IsProduct(p, d, n) == p = [i \in 0..n |-> IF i = 0 THEN 1 ELSE Times(p[i - 1], d[i])]

(* The recursion over the dimensions has a solution of every length. *)
LEMMA ProductExists ==
  ASSUME NEW d
  PROVE  \A n \in Nat : \E p : IsProduct(p, d, n)
<1> DEFINE S == {n \in Nat : \E p : IsProduct(p, d, n)}
<1>1. 0 \in S
  <2>1. IsProduct([i \in 0..0 |-> 1], d, 0)
    <3> DEFINE p == [i \in 0..0 |-> 1]
    <3>1. \A i \in 0..0 : p[i] = IF i = 0 THEN 1 ELSE Times(p[i - 1], d[i])
      OBVIOUS
    <3>2. p = [i \in 0..0 |-> p[i]]
      OBVIOUS
    <3> HIDE DEF p
    <3>3. p = [i \in 0..0 |-> IF i = 0 THEN 1 ELSE Times(p[i - 1], d[i])]
      BY <3>1, <3>2
    <3>4. QED
      BY <3>3 DEF IsProduct, p
  <2>2. \E p : IsProduct(p, d, 0)
    BY <2>1
  <2>3. QED
    BY <2>2
<1>2. ASSUME NEW n \in Nat, n \in S PROVE n + 1 \in S
  <2>1. PICK p : IsProduct(p, d, n)
    BY <1>2
  <2>2. \A i \in 0..n : p[i] = IF i = 0 THEN 1 ELSE Times(p[i - 1], d[i])
    BY <2>1 DEF IsProduct
  <2> DEFINE q == [i \in 0..(n + 1) |-> IF i <= n THEN p[i] ELSE Times(p[n], d[n + 1])]
  <2>3. ASSUME NEW i \in 0..(n + 1)
        PROVE  q[i] = IF i = 0 THEN 1 ELSE Times(q[i - 1], d[i])
    <3>1. CASE i = 0
      BY <2>2, <3>1
    <3>2. CASE i \in 1..n
      <4>1. q[i] = p[i] /\ q[i - 1] = p[i - 1]
        BY <3>2
      <4>2. p[i] = Times(p[i - 1], d[i])
        BY <2>2, <3>2
      <4>3. QED
        BY <3>2, <4>1, <4>2
    <3>3. CASE i = n + 1
      <4>1. q[i] = Times(p[n], d[n + 1]) /\ q[i - 1] = p[n]
        BY <3>3
      <4>2. QED
        BY <3>3, <4>1
    <3>4. QED
      BY <3>1, <3>2, <3>3
  <2>4. q = [i \in 0..(n + 1) |-> q[i]]
    OBVIOUS
  <2> HIDE DEF q
  <2>5. q = [i \in 0..(n + 1) |-> IF i = 0 THEN 1 ELSE Times(q[i - 1], d[i])]
    BY <2>3, <2>4
  <2>6. \E r : IsProduct(r, d, n + 1)
    BY <2>5 DEF IsProduct
  <2>7. QED
    BY <2>6
<1> HIDE DEF S
<1>3. Nat \subseteq S
  BY <1>1, <1>2, Reaches
<1>4. QED
  BY <1>3 DEF S

(* A product that is not zero fits the word and is a multiple of the first    *)
(* dimension, the length of a row.                                            *)
LEMMA ProductOfDimensions ==
  ASSUME NEW d \in Seq(Int), Product(d) # 0
  PROVE  /\ Product(d) \in 1..Word /\ d[1] \in 1..Word
         /\ d[1] * (Product(d) \div d[1]) = Product(d)
<1>1. d # <<>> /\ Len(d) \in Nat /\ Len(d) # 0
  <2>1. d # <<>>
    BY DEF Product
  <2>2. QED
    BY <2>1, EmptySeq, LenProperties
<1>2. Product(d) = (CHOOSE p : IsProduct(p, d, Len(d)))[Len(d)]
  BY <1>1, Zenon DEF Product, IsProduct, Times
<1>3. PICK p : IsProduct(p, d, Len(d)) /\ Product(d) = p[Len(d)]
  BY <1>1, <1>2, ProductExists
<1>4. \A i \in 0..Len(d) : p[i] = IF i = 0 THEN 1 ELSE Times(p[i - 1], d[i])
  BY <1>3 DEF IsProduct
<1> DEFINE Fits(i) == /\ p[i] \in 1..Word /\ d[1] \in 1..Word
                      /\ \E k \in Nat : p[i] = d[1] * k
           S == {i \in Nat : i + 1 \in 1..Len(d) /\ p[i + 1] # 0 => Fits(i + 1)}
<1>5. 0 \in S
  <2> SUFFICES ASSUME p[1] # 0, 1 \in 1..Len(d) PROVE Fits(1)
    OBVIOUS
  <2>1. p[0] = 1 /\ p[1] = Times(p[0], d[1])
    BY <1>1, <1>4
  <2>2. d[1] \in 1..Word /\ p[1] = d[1]
    BY <2>1 DEF Times
  <2>3. p[1] = d[1] * 1
    BY <2>2
  <2>4. QED
    BY <2>2, <2>3
<1>6. ASSUME NEW i \in Nat, i \in S PROVE i + 1 \in S
  <2> SUFFICES ASSUME i + 2 \in 1..Len(d), p[i + 2] # 0 PROVE Fits(i + 2)
    OBVIOUS
  <2>1. p[i + 2] = Times(p[i + 1], d[i + 2]) /\ i + 1 \in 1..Len(d)
    BY <1>1, <1>4
  <2>2. p[i + 1] # 0 /\ d[i + 2] \in 1..Word /\ ~(p[i + 1] > Word \div d[i + 2])
        /\ p[i + 2] = p[i + 1] * d[i + 2]
    BY <2>1 DEF Times
  <2>3. Fits(i + 1)
    BY <1>6, <2>1, <2>2
  <2>4. PICK k \in Nat : p[i + 1] = d[1] * k
    BY <2>3
  <2>5. p[i + 1] \in Nat /\ d[i + 2] \in Nat \ {0} /\ d[1] \in Nat /\ Word \in Nat
    BY <2>2, <2>3, IntMaxIs
  <2>6. p[i + 2] \in 1..Word
    <3>1. p[i + 1] <= Word \div d[i + 2]
      BY <2>2, <2>5, QuotientFits
    <3>2. p[i + 2] <= Word
      BY <2>2, <2>5, <3>1, ProductBound
    <3>3. p[i + 1] * d[i + 2] \in Nat /\ p[i + 1] * d[i + 2] # 0
      BY <2>2, <2>5, FactorsFit
    <3>4. QED
      BY <2>2, <2>5, <3>2, <3>3
  <2>7. p[i + 2] = d[1] * (k * d[i + 2]) /\ k * d[i + 2] \in Nat
    <3>1. p[i + 2] = (d[1] * k) * d[i + 2]
      BY <2>2, <2>4
    <3>2. QED
      BY <2>5, <3>1, Associates
  <2>8. QED
    BY <2>3, <2>6, <2>7
<1> HIDE DEF S
<1>7. Nat \subseteq S
  BY <1>5, <1>6, Reaches
<1>8. Len(d) - 1 \in S
  BY <1>1, <1>7
<1>9. Fits(Len(d))
  <2>1. (Len(d) - 1) + 1 = Len(d) /\ Len(d) \in 1..Len(d)
    BY <1>1
  <2>2. QED
    BY <1>3, <1>8, <2>1 DEF S
<1>10. PICK k \in Nat : Product(d) = d[1] * k
  BY <1>3, <1>9
<1>11. Product(d) \div d[1] = k
  BY <1>9, <1>10, QuotientOfProduct, IntMaxIs
<1>12. QED
  BY <1>3, <1>9, <1>10, <1>11

------------------------------------------------------------------------------
(* What the helpers of copyFrame return *)

LEMMA Trimmed ==
  ASSUME NEW d \in Seq(Int), d # <<>>
  PROVE  WithoutTrailingZeros(d) \in Seq(Int)
<1> DEFINE filled == {i \in DOMAIN d : d[i] > 0}
           last == IF filled = {} THEN 1 ELSE CHOOSE i \in filled : \A j \in filled : j <= i
<1>1. Len(d) \in Nat /\ Len(d) # 0 /\ DOMAIN d = 1..Len(d)
  BY EmptySeq, LenProperties
<1>2. last \in 1..Len(d)
  <2>1. CASE filled = {}
    BY <1>1, <2>1
  <2>2. CASE filled # {}
    <3>1. filled \in SUBSET (0..Len(d))
      BY <1>1
    <3>2. \E i \in filled : \A j \in filled : j <= i
      BY <1>1, <2>2, <3>1, GreatestNumber
    <3>3. last \in filled
      BY <2>2, <3>2
    <3>4. QED
      BY <1>1, <3>3
  <2>3. QED
    BY <2>1, <2>2
<1> HIDE DEF last
<1>3. SubSeq(d, 1, last) \in Seq(Int)
  BY <1>1, <1>2, SubSeqProperties
<1>4. WithoutTrailingZeros(d) = SubSeq(d, 1, last)
  BY Zenon DEF WithoutTrailingZeros, last
<1>5. QED
  BY <1>3, <1>4

LEMMA DimensionsTyped == \A d \in DimensionsRead : d \in Seq(Int)
<1> SUFFICES ASSUME NEW v \in DimensionVectors,
                    NEW first \in Answers(DimensionBytes), NEW second \in Answers(DimensionBytes)
             PROVE  ReadDimensions(v, first, second) \in Seq(Int)
  BY DEF DimensionsRead
<1> DEFINE retry == first.code = "small" /\ first.bytes # 0
           last == IF retry THEN second ELSE first
           count == CeilDiv(last.bytes, DimensionSize)
           s == [i \in 1..count |-> IF i \in DOMAIN v THEN v[i] ELSE 0]
<1>1. CASE ReadDimensions(v, first, second) = <<>>
  BY <1>1
<1>2. CASE ReadDimensions(v, first, second) # <<>>
  <2>1. last.bytes # 0 /\ ReadDimensions(v, first, second) = WithoutTrailingZeros(s)
    BY <1>2, Zenon DEF ReadDimensions
  <2>2. last.bytes \in Nat
    <3>1. first.bytes \in 0..Word /\ second.bytes \in 0..Word
      BY BytesAssumption DEF Answers
    <3>2. last.bytes \in 0..Word
      BY <3>1
    <3>3. QED
      BY <3>2
  <2> HIDE DEF last
  <2>3. count \in Nat /\ count # 0
    BY <2>1, <2>2 DEF CeilDiv, DimensionSize
  <2> HIDE DEF count
  <2>4. v \in Seq(Int)
    BY DimensionsAssumption
  <2>5. s \in [1..count -> Int]
    BY <2>4
  <2>6. s \in Seq(Int) /\ Len(s) = count
    BY <2>3, <2>5
  <2> HIDE DEF s
  <2>7. s # <<>>
    BY <2>3, <2>6
  <2>8. QED
    BY <2>1, <2>6, <2>7, Trimmed
<1>3. QED
  BY <1>1, <1>2

LEMMA SampleSizes == \A s \in Storages : SampleSize[s] \in {2, 8}
BY DEF Storages, SampleSize

LEMMA ProbesTyped ==
  ASSUME NEW s \in Storages, NEW n \in Probes[s]
  PROVE  n \in 0..Word
<1>1. PICK a \in Answers(DataBytes) : n = SampleCount(s, a)
  BY DEF Probes
<1>2. a.bytes \in 0..Word
  BY BytesAssumption DEF Answers
<1>3. SampleSize[s] \in {2, 8}
  BY SampleSizes
<1> DEFINE size == SampleSize[s]
<1>4. n = 0 \/ n = a.bytes \div size
  BY <1>1 DEF SampleCount
<1> HIDE DEF size
<1>5. size \in {2, 8}
  BY <1>3 DEF size
<1>6. QED
  BY <1>2, <1>4, <1>5, WholeSamples, IntMaxIs

(* What a part keeps fits an int and is what the SDK wrote. *)
GoodCopy(c) == c.samples # 0 => c.samples \in 1..IntMax /\ c.exact

LEMMA ReceivedIsGood ==
  ASSUME NEW s \in Storages, NEW capacity, NEW answer \in Answers(DataBytes)
  PROVE  GoodCopy(Received(s, capacity, answer))
<1> DEFINE size == SampleSize[s]
           room == CeilDiv(capacity, size) * size
           kept == SamplesOf(s, answer.bytes)
           r == Received(s, capacity, answer)
<1>1. CASE answer.code = "ok" /\ Acceptable(s, room, answer.bytes)
  <2>1. r = [samples |-> kept, exact |-> kept * size = answer.bytes /\ answer.bytes <= room]
    BY <1>1, Zenon DEF Received
  <2>2. r.samples = kept /\ (kept * size = answer.bytes /\ answer.bytes <= room => r.exact)
    <3> DEFINE written == kept * size = answer.bytes /\ answer.bytes <= room
    <3> HIDE DEF written, kept
    <3>1. r = [samples |-> kept, exact |-> written]
      BY <2>1, Zenon DEF written
    <3> HIDE DEF r
    <3>2. r.samples = kept /\ r.exact = written
      BY <3>1
    <3>3. QED
      BY <3>2, Zenon DEF written
  <2>3. answer.bytes <= room /\ answer.bytes % size = 0
    BY <1>1 DEF Acceptable
  <2>4. answer.bytes \in Nat /\ answer.bytes <= Word
    <3>1. answer.bytes \in 0..Word
      BY BytesAssumption DEF Answers
    <3>2. QED
      BY <3>1, IntMaxIs
  <2>5. kept = answer.bytes \div size
    BY DEF SamplesOf
  <2>6. size \in {2, 8}
    BY SampleSizes
  <2> HIDE DEF size
  <2>7. kept \in Nat /\ kept <= IntMax /\ kept * size = answer.bytes
    BY <2>3, <2>4, <2>5, <2>6, WholeSamples
  <2> HIDE DEF kept, room, r
  <2>8. r.exact
    BY <2>2, <2>3, <2>7, Zenon
  <2>9. r.samples # 0 => r.samples \in 1..IntMax
    BY <2>2, <2>7, IntMaxIs
  <2>10. QED
    BY <2>8, <2>9, Zenon DEF GoodCopy, r
<1>2. CASE ~(answer.code = "ok" /\ Acceptable(s, room, answer.bytes))
  <2>1. r = NotCopied
    BY <1>2, Zenon DEF Received
  <2>2. r.samples = 0
    BY <2>1 DEF NotCopied
  <2>3. QED
    BY <2>2 DEF GoodCopy
<1>3. QED
  BY <1>1, <1>2

LEMMA CopiesAreGood ==
  ASSUME NEW s \in Storages, NEW expected \in 0..Word, NEW c \in Copies[s][expected]
  PROVE  GoodCopy(c)
<1>1. PICK first \in Answers(DataBytes), second \in Answers(DataBytes) :
        c = CopySamples(s, expected, first, second)
  BY DEF Copies
<1>2. \/ c = NotCopied
      \/ c = Received(s, first.bytes, second)
      \/ c = Received(s, expected * SampleSize[s], first)
  BY <1>1, Zenon DEF CopySamples
<1>3. GoodCopy(NotCopied)
  BY DEF GoodCopy, NotCopied
<1>4. QED
  BY <1>2, <1>3, ReceivedIsGood

LEMMA GeometriesTyped == GeometriesRead \subseteq Geometries
<1> SUFFICES ASSUME NEW c \in Chunks PROVE ReadScan3dGeometry(c) \in Geometries
  BY DEF GeometriesRead
<1>1. c.mode \in {"rectifiedC", "calibratedC", "other"}
  BY DEF Chunks
<1>2. \/ ReadScan3dGeometry(c) \in {"absent", "unusable"}
      \/ c.mode # "other" /\ ReadScan3dGeometry(c) = c.mode
  BY Zenon DEF ReadScan3dGeometry
<1>3. QED
  BY <1>1, <1>2 DEF Geometries

------------------------------------------------------------------------------
(* What a conversion makes of typed parts *)

PartTyped(p) ==
  /\ p.kind \in Kinds /\ p.storage \in Storages
  /\ p.width \in 0..Word /\ p.height \in 0..Word /\ p.samples \in Nat

PartsTyped(parts) ==
  DOMAIN parts \subseteq Nat \ {0} /\ \A i \in DOMAIN parts : PartTyped(parts[i])

(* A part with samples an int can count has a width and a height it can hold. *)
LEMMA RepresentableShape ==
  ASSUME NEW p, PartTyped(p), RepresentableSamples(p)
  PROVE  /\ p.width \in 1..IntMax /\ p.height \in 1..IntMax /\ p.samples \in 1..IntMax
         /\ p.samples = p.width * p.height
         /\ RepresentableDimensions(p)
<1> DEFINE w == p.width
           h == p.height
           n == p.samples
<1>1. w \in Nat /\ h \in Nat /\ w # 0 /\ h # 0 /\ n = w * h /\ n <= IntMax
  BY IntMaxIs DEF PartTyped, RepresentableSamples, PartValid
<1> HIDE DEF w, h, n
<1>2. w <= w * h /\ h <= w * h /\ w * h \in Nat /\ w * h # 0
  BY <1>1, FactorsFit
<1>3. w \in 1..IntMax /\ h \in 1..IntMax /\ n \in 1..IntMax
  BY <1>1, <1>2, IntMaxIs
<1>4. QED
  BY <1>1, <1>3 DEF w, h, n, RepresentableDimensions

LEMMA IndexIs ==
  ASSUME NEW parts, PartsTyped(parts)
  PROVE  /\ RangeIndex(parts) = 0 =>
              \A i \in DOMAIN parts : ~RepresentableSamples(parts[i])
         /\ RangeIndex(parts) # 0 =>
              /\ RangeIndex(parts) \in DOMAIN parts
              /\ RepresentableSamples(parts[RangeIndex(parts)])
<1> DEFINE typed == First(OfKind(parts, "Range"))
           shown == {i \in DOMAIN parts : RepresentableSamples(parts[i])}
<1>1. /\ OfKind(parts, "Range") \in SUBSET (Nat \ {0}) /\ OfKind(parts, "Range") \subseteq DOMAIN parts
      /\ shown \in SUBSET (Nat \ {0})
  BY DEF OfKind, PartsTyped
<1>2. typed # 0 => typed \in DOMAIN parts
  BY <1>1, FirstIs
<1>3. (shown = {} => First(shown) = 0) /\ (shown # {} => First(shown) \in shown /\ First(shown) # 0)
  BY <1>1, FirstIs
<1>4. \/ typed # 0 /\ RepresentableSamples(parts[typed]) /\ RangeIndex(parts) = typed
      \/ RangeIndex(parts) = First(shown)
  BY Zenon DEF RangeIndex
<1> HIDE DEF typed
<1>5. CASE typed # 0 /\ RepresentableSamples(parts[typed]) /\ RangeIndex(parts) = typed
  BY <1>2, <1>5
<1>6. CASE RangeIndex(parts) = First(shown)
  <2>1. CASE shown = {}
    BY <1>3, <1>6, <2>1
  <2>2. CASE shown # {}
    BY <1>3, <1>6, <2>2
  <2>3. QED
    BY <2>1, <2>2
<1>7. QED
  BY <1>4, <1>5, <1>6

(* The range of a frame whose part i is the one to show. *)
(* r shows part i of the frame: its shape, its samples, and what is claimed of them. *)
IsSelection(f, i, r) ==
  /\ r # NoRange /\ r.index = i
  /\ i \in DOMAIN f.parts /\ RepresentableSamples(f.parts[i])
  /\ r.width = f.parts[i].width /\ r.height = f.parts[i].height
  /\ r.values = f.parts[i].samples
  /\ r.domain = IF RawPartPreview(f, i) THEN "Native" ELSE "Calibrated"
  /\ r.grid = Grid(RawPartPreview(f, i), FALSE, f.geometry)
  /\ r.pitch <=> (~RawPartPreview(f, i) /\ f.geometry = "rectifiedC")
  /\ r.intensity \in {0, Channel(f.parts, "Intensity", r.width, r.height)}
  /\ r.confidence \in {0, Channel(f.parts, "Confidence", r.width, r.height)}

LEMMA Selected ==
  ASSUME NEW f, PartsTyped(f.parts), NEW auxiliary, NEW i, i = RangeIndex(f.parts), i # 0,
         NEW r, r = SelectRange(f, auxiliary)
  PROVE  IsSelection(f, i, r)
<1> DEFINE p == f.parts[i]
           raw == RawPartPreview(f, i)
           w == p.width
           h == p.height
           n == p.samples
           pitch == ~raw /\ f.geometry = "rectifiedC"
           intensity == IF auxiliary THEN Channel(f.parts, "Intensity", w, h) ELSE 0
           confidence == IF auxiliary THEN Channel(f.parts, "Confidence", w, h) ELSE 0
           range == [index |-> i, width |-> w, height |-> h, values |-> n,
                     domain |-> IF raw THEN "Native" ELSE "Calibrated",
                     grid |-> Grid(raw, FALSE, f.geometry), pitch |-> pitch,
                     intensity |-> intensity, confidence |-> confidence]
<1>1. i \in DOMAIN f.parts /\ RepresentableSamples(p) /\ PartTyped(p)
  BY IndexIs DEF PartsTyped
<1>2. n \in 1..IntMax /\ n = w * h /\ RepresentableDimensions(p)
  BY <1>1, RepresentableShape
<1>3. OneRowPreview(p) <=> FALSE
  BY <1>2 DEF OneRowPreview
<1>4. RangeValid(range)
  <2>1. range.values = n /\ range.width = w /\ range.height = h
    BY Zenon
  <2> HIDE DEF range
  <2>2. QED
    BY <1>2, <2>1 DEF RangeValid
<1>5. r = range
  <2> DEFINE oneRow == OneRowPreview(p)
             width == IF oneRow THEN n ELSE w
             height == IF oneRow THEN 1 ELSE h
             made == [index |-> i, width |-> width, height |-> height, values |-> n,
                      domain |-> IF raw THEN "Native" ELSE "Calibrated",
                      grid |-> Grid(raw, oneRow, f.geometry), pitch |-> pitch,
                      intensity |-> IF auxiliary THEN Channel(f.parts, "Intensity", width, height)
                                    ELSE 0,
                      confidence |-> IF auxiliary
                                       THEN Channel(f.parts, "Confidence", width, height) ELSE 0]
  <2>1. SelectRange(f, auxiliary) = IF i # 0 /\ RangeValid(made) THEN made ELSE NoRange
    BY ZenonT(60) DEF SelectRange
  <2>2. width = w /\ height = h
    BY <1>3
  <2>3. Grid(raw, oneRow, f.geometry) = Grid(raw, FALSE, f.geometry)
    BY <1>3, Zenon DEF Grid
  <2> HIDE DEF oneRow, width, height
  <2>4. made = range
    BY <2>2, <2>3, Zenon
  <2>5. QED
    BY <1>4, <2>1, <2>4, Zenon
<1> HIDE DEF raw, w, h, n, p, intensity, confidence, pitch
<1>6. /\ r.index = i /\ r.width = w /\ r.height = h /\ r.values = n
      /\ r.domain = (IF raw THEN "Native" ELSE "Calibrated")
      /\ r.grid = Grid(raw, FALSE, f.geometry)
      /\ r.pitch = pitch
      /\ r.intensity = intensity /\ r.confidence = confidence
  BY <1>5
<1> HIDE DEF range
<1>7. r # NoRange
  BY <1>6 DEF NoRange
<1>8. r.pitch <=> ~raw /\ f.geometry = "rectifiedC"
  BY <1>6, Zenon DEF pitch
<1>9. /\ r.intensity \in {0, Channel(f.parts, "Intensity", w, h)}
      /\ r.confidence \in {0, Channel(f.parts, "Confidence", w, h)}
  BY <1>6 DEF intensity, confidence
<1>10. /\ r.width = f.parts[i].width /\ r.height = f.parts[i].height
       /\ r.values = f.parts[i].samples
  BY <1>6 DEF w, h, n, p
<1>11. QED
  BY <1>1, <1>6, <1>7, <1>8, <1>9, <1>10, Zenon DEF raw, p, w, h, IsSelection

LEMMA NothingSelected ==
  ASSUME NEW f, NEW auxiliary, RangeIndex(f.parts) = 0
  PROVE  SelectRange(f, auxiliary) = NoRange
BY Zenon DEF SelectRange

LEMMA ConvertedRange ==
  ASSUME NEW f, NEW q, NEW r, r = ConvertGraphicsFrame(f, q).range, r # NoRange
  PROVE  q.range /\ RangeIndex(f.parts) # 0 /\ r = SelectRange(f, q.auxiliary)
<1> DEFINE shown == SelectRange(f, q.auxiliary)
           ranges == IF q.range THEN shown ELSE NoRange
           images == IF q.image THEN Images(f.parts) ELSE {}
<1>1. CASE f.parts = <<>>
  <2>1. r = NoGraphicsFrame.range
    BY <1>1, Zenon DEF ConvertGraphicsFrame
  <2>2. QED
    BY <2>1 DEF NoGraphicsFrame
<1>2. CASE f.parts # <<>>
  <2>1. ConvertGraphicsFrame(f, q) = [range |-> ranges, images |-> images]
    BY <1>2, Zenon DEF ConvertGraphicsFrame
  <2> HIDE DEF ranges, images
  <2>2. r = ranges
    BY <2>1
  <2>3. q.range /\ r = shown
    BY <2>2, Zenon DEF ranges
  <2>4. RangeIndex(f.parts) # 0
    BY <2>3, NothingSelected
  <2>5. QED
    BY <2>3, <2>4
<1>3. QED
  BY <1>1, <1>2

LEMMA RangeConverted ==
  ASSUME NEW f, NEW q, q.range, f.parts # <<>>
  PROVE  ConvertGraphicsFrame(f, q).range = SelectRange(f, q.auxiliary)
<1> DEFINE shown == SelectRange(f, q.auxiliary)
           images == IF q.image THEN Images(f.parts) ELSE {}
<1>1. ConvertGraphicsFrame(f, q) = [range |-> shown, images |-> images]
  BY Zenon DEF ConvertGraphicsFrame
<1> HIDE DEF shown, images
<1>2. ConvertGraphicsFrame(f, q).range = shown
  BY <1>1
<1>3. QED
  BY <1>2 DEF shown

LEMMA ConvertedImages ==
  ASSUME NEW f, NEW q, NEW image \in ConvertGraphicsFrame(f, q).images
  PROVE  \E i \in DOMAIN f.parts : HasImage(f.parts[i]) /\ image = Image(f.parts, i)
<1> DEFINE ranges == IF q.range THEN SelectRange(f, q.auxiliary) ELSE NoRange
           images == IF q.image THEN Images(f.parts) ELSE {}
<1>1. CASE f.parts = <<>>
  <2>1. image \in NoGraphicsFrame.images
    BY <1>1, Zenon DEF ConvertGraphicsFrame
  <2>2. QED
    BY <2>1 DEF NoGraphicsFrame
<1>2. CASE f.parts # <<>>
  <2>1. ConvertGraphicsFrame(f, q) = [range |-> ranges, images |-> images]
    BY <1>2, Zenon DEF ConvertGraphicsFrame
  <2> HIDE DEF ranges, images
  <2>2. image \in images
    BY <2>1
  <2>3. image \in Images(f.parts)
    BY <2>2, Zenon DEF images
  <2>4. QED
    BY <2>3, Zenon DEF Images
<1>3. QED
  BY <1>1, <1>2

(* An image has the bytes of its samples, and its rows fit an int. *)
LEMMA ImageFits ==
  ASSUME NEW parts, NEW i \in DOMAIN parts, PartTyped(parts[i]), HasImage(parts[i]),
         NEW image, image = Image(parts, i)
  PROVE  /\ image.bytes = image.size
         /\ image.stride <= IntMax /\ image.stride * image.height = image.size
<1> DEFINE p == parts[i]
           w == p.width
           h == p.height
           n == p.samples
           b == BytesPerSample(p)
<1>1. w \in 1..IntMax /\ h \in 1..IntMax /\ n = w * h
  BY RepresentableShape DEF HasImage
<1>2. b \in {1, 2} /\ w <= IntMax \div b
  BY DEF HasImage, RowFits, BytesPerSample
<1>3. image.height = h /\ image.stride = w * b /\ image.size = w * b * h /\ image.bytes = n * b
  BY DEF Image
<1> HIDE DEF p, w, h, n, b
<1>4. w * b <= IntMax
  BY <1>1, <1>2, ProductBound, IntMaxIs
<1>5. (w * h) * b = w * b * h
  <2>1. b = 1 \/ b = 2
    BY <1>2
  <2>2. w \in Nat /\ h \in Nat
    BY <1>1, IntMaxIs
  <2>3. QED
    BY <2>1, <2>2
<1>6. QED
  BY <1>1, <1>3, <1>4, <1>5

------------------------------------------------------------------------------
(* The invariant *)

IsSequence(s) == s \in Seq({s[i] : i \in DOMAIN s})

(* A part that was copied from a buffer. *)
Copied(p) ==
  /\ p.kind \in Kinds /\ p.storage \in Storages
  /\ p.width \in 1..IntMax /\ p.height \in 1..IntMax /\ p.samples \in 1..IntMax
  /\ p.samples = p.width * p.height
  /\ p.finiteScale /\ p.exact
  /\ p.kind = "Range" => p.calibrated

Reading == {"measure", "copy"}

PlaceOK ==
  /\ step \in {"buffer", "part", "measure", "copy", "convert", "done"}
  /\ left \in 0..MaxParts
  /\ step = "buffer" => left = 0
  /\ Len(frame.parts) + left + (IF step \in Reading THEN 1 ELSE 0) <= MaxParts
  /\ request \in Requests

FrameOK ==
  /\ frame = [geometry |-> frame.geometry, parts |-> frame.parts]
  /\ frame.geometry \in Geometries
  /\ IsSequence(frame.parts)
  /\ \A i \in DOMAIN frame.parts : PartTyped(frame.parts[i])
  /\ FromBuffer => \A i \in DOMAIN frame.parts : Copied(frame.parts[i])

(* The sample count of a part is that of whole rows. *)
PartOK ==
  /\ step \in Reading => part.kind \in Kinds
  /\ step = "measure" => part.storage \in Storages \cup {"unreliable"}
  /\ step = "copy" =>
       /\ part.storage \in Storages
       /\ part.expected \in 1..Word /\ part.row \in 1..Word
       /\ part.row * (part.expected \div part.row) = part.expected

OutcomeOK ==
  /\ copied \in {"none", "ok", "failed", "selector failed"}
  /\ copied = "ok" => step \in {"convert", "done"}
  /\ copied \in {"failed", "selector failed"} => step = "done"
  /\ copied = "failed" => frame.parts = <<>>

GraphicsOK ==
  graphics = IF step = "done" /\ copied \in {"none", "ok"}
               THEN ConvertGraphicsFrame(frame, request) ELSE NoGraphicsFrame

FrameInv == PlaceOK /\ FrameOK /\ PartOK /\ OutcomeOK /\ GraphicsOK

LEMMA SequenceIs ==
  ASSUME NEW s, IsSequence(s)
  PROVE  Len(s) \in Nat /\ DOMAIN s = 1..Len(s)
BY LenProperties DEF IsSequence

LEMMA SequenceFrom ==
  ASSUME NEW S, NEW s \in Seq(S)
  PROVE  IsSequence(s)
<1>1. Len(s) \in Nat /\ DOMAIN s = 1..Len(s) /\ s = [i \in 1..Len(s) |-> s[i]]
  BY LenProperties
<1> DEFINE T == {s[i] : i \in DOMAIN s}
<1>2. \A i \in 1..Len(s) : s[i] \in T
  BY <1>1
<1> HIDE DEF T
<1>3. s \in [1..Len(s) -> T]
  BY <1>1, <1>2
<1>4. s \in Seq(T)
  BY <1>1, <1>3
<1>5. QED
  BY <1>4 DEF IsSequence, T

LEMMA SequenceAppend ==
  ASSUME NEW s, IsSequence(s), NEW e
  PROVE  /\ IsSequence(Append(s, e))
         /\ Len(Append(s, e)) = Len(s) + 1
         /\ \A i \in DOMAIN Append(s, e) :
              (i \in DOMAIN s /\ Append(s, e)[i] = s[i]) \/ Append(s, e)[i] = e
<1> DEFINE S == {s[i] : i \in DOMAIN s}
           T == S \cup {e}
<1>1. s \in Seq(S)
  BY DEF IsSequence
<1> HIDE DEF S
<1>2. Len(s) \in Nat /\ DOMAIN s = 1..Len(s) /\ s \in [1..Len(s) -> S]
  BY <1>1, LenProperties
<1>3. s \in [1..Len(s) -> T] /\ e \in T
  BY <1>2
<1> HIDE DEF T
<1>4. s \in Seq(T)
  BY <1>2, <1>3
<1>5. /\ Append(s, e) \in Seq(T) /\ Len(Append(s, e)) = Len(s) + 1
      /\ \A i \in 1..Len(s) : Append(s, e)[i] = s[i]
      /\ Append(s, e)[Len(s) + 1] = e
  BY <1>3, <1>4, AppendProperties
<1>6. DOMAIN Append(s, e) = 1..(Len(s) + 1)
  BY <1>2, <1>5, LenProperties
<1>7. ASSUME NEW i \in DOMAIN Append(s, e)
      PROVE  (i \in DOMAIN s /\ Append(s, e)[i] = s[i]) \/ Append(s, e)[i] = e
  <2>1. i \in 1..Len(s) \/ i = Len(s) + 1
    BY <1>2, <1>6
  <2>2. QED
    BY <1>2, <1>5, <2>1
<1>8. QED
  BY <1>5, <1>7, SequenceFrom

LEMMA CopiedTyped ==
  ASSUME NEW p, Copied(p)
  PROVE  PartTyped(p) /\ PartValid(p) /\ RepresentableSamples(p) /\ RepresentableDimensions(p)
<1>1. PartTyped(p)
  BY IntMaxIs DEF Copied, PartTyped
<1>2. PartValid(p)
  BY DEF Copied, PartValid
<1>3. RepresentableSamples(p) /\ RepresentableDimensions(p)
  BY <1>2, IntMaxIs DEF Copied, RepresentableSamples, RepresentableDimensions
<1>4. QED
  BY <1>1, <1>2, <1>3

LEMMA FrameInit == Init => FrameInv
<1> SUFFICES ASSUME Init PROVE FrameInv
  OBVIOUS
<1>1. /\ step = "buffer" /\ left = 0 /\ copied = "none" /\ graphics = NoGraphicsFrame
      /\ frame = [geometry |-> "absent", parts |-> <<>>]
      /\ request = [range |-> FALSE, image |-> FALSE, auxiliary |-> FALSE]
  BY DEF Init, NoFrame, NoRequest
<1>2. frame.parts = <<>> /\ frame.geometry = "absent" /\ Len(frame.parts) = 0
      /\ DOMAIN frame.parts = {}
  BY <1>1
<1>3. MaxParts \in Nat
  BY PartsAssumption
<1>4. PlaceOK
  BY <1>1, <1>2, <1>3 DEF PlaceOK, Reading, Requests
<1>5. FrameOK
  <2>1. IsSequence(frame.parts)
    <3>1. <<>> \in Seq({})
      OBVIOUS
    <3>2. IsSequence(<<>>)
      BY <3>1, SequenceFrom
    <3>3. QED
      BY <1>2, <3>2
  <2>2. QED
    BY <1>1, <1>2, <2>1 DEF FrameOK, Geometries
<1>6. PartOK /\ OutcomeOK /\ GraphicsOK
  BY <1>1, <1>2 DEF PartOK, OutcomeOK, GraphicsOK, Reading
<1>7. QED
  BY <1>4, <1>5, <1>6 DEF FrameInv

(* A step of the copy that leaves the frame and its conversion alone. *)
LEMMA SameFrame ==
  ASSUME FrameInv, UNCHANGED <<frame, copied, request, graphics>>,
         step \in {"part", "measure", "copy"}, step' \in {"part", "measure", "copy"}
  PROVE  FrameOK' /\ OutcomeOK' /\ GraphicsOK'
<1>1. FromBuffer /\ FromBuffer'
  BY DEF FromBuffer
<1>2. FrameOK'
  BY <1>1 DEF FrameInv, FrameOK
<1>3. OutcomeOK'
  BY DEF FrameInv, OutcomeOK
<1>4. GraphicsOK'
  BY DEF FrameInv, GraphicsOK
<1>5. QED
  BY <1>2, <1>3, <1>4

LEMMA ReceiveInv ==
  ASSUME FrameInv, ReceiveBuffer
  PROVE  FrameInv'
<1>1. PICK parts \in 0..MaxParts, geometry \in GeometriesRead :
        /\ left' = parts
        /\ frame' = [NoFrame EXCEPT !.geometry = geometry]
        /\ IF parts = 0 THEN copied' = "failed" /\ step' = "done"
           ELSE step' = "part" /\ UNCHANGED copied
  BY DEF ReceiveBuffer
<1>2. step = "buffer" /\ UNCHANGED <<part, request, graphics>>
  BY DEF ReceiveBuffer
<1>3. frame' = [geometry |-> geometry, parts |-> <<>>]
  BY <1>1 DEF NoFrame
<1>4. /\ frame'.parts = <<>> /\ frame'.geometry = geometry /\ geometry \in Geometries
      /\ Len(frame'.parts) = 0 /\ DOMAIN frame'.parts = {}
  BY <1>3, GeometriesTyped
<1>5. IsSequence(<<>>)
  <2>1. <<>> \in Seq({})
    OBVIOUS
  <2>2. QED
    BY <2>1, SequenceFrom
<1>6. MaxParts \in Nat
  BY PartsAssumption
<1>7. PlaceOK'
  BY <1>1, <1>2, <1>4, <1>6 DEF FrameInv, PlaceOK, Reading
<1>8. FrameOK'
  BY <1>3, <1>4, <1>5 DEF FrameOK
<1>9. copied = "none" /\ graphics = NoGraphicsFrame
  BY <1>2 DEF FrameInv, OutcomeOK, GraphicsOK
<1>10. PartOK' /\ OutcomeOK' /\ GraphicsOK'
  BY <1>1, <1>2, <1>4, <1>9 DEF PartOK, OutcomeOK, GraphicsOK, Reading
<1>11. QED
  BY <1>7, <1>8, <1>10 DEF FrameInv

LEMMA SelectorInv ==
  ASSUME FrameInv, SelectorFails
  PROVE  FrameInv'
<1>1. /\ step = "part" /\ step' = "done" /\ copied' = "selector failed"
      /\ UNCHANGED <<left, part, frame, request, graphics>>
  BY DEF SelectorFails
<1>2. FromBuffer
  BY <1>1 DEF FromBuffer
<1>3. PlaceOK'
  BY <1>1 DEF FrameInv, PlaceOK, Reading
<1>4. FrameOK'
  BY <1>1, <1>2 DEF FrameInv, FrameOK
<1>5. PartOK' /\ OutcomeOK' /\ GraphicsOK'
  BY <1>1 DEF FrameInv, PartOK, OutcomeOK, GraphicsOK, Reading
<1>6. QED
  BY <1>3, <1>4, <1>5 DEF FrameInv

LEMMA DescribeInv ==
  ASSUME FrameInv, DescribePart
  PROVE  FrameInv'
<1>1. PICK kind \in PartKinds, format \in Formats :
        part' = [kind |-> kind, storage |-> format.storage, bits |-> format.bits]
  BY DEF DescribePart
<1>2. /\ step = "part" /\ left > 0 /\ left' = left - 1 /\ step' = "measure"
      /\ UNCHANGED <<frame, copied, request, graphics>>
  BY DEF DescribePart
<1>3. part'.kind \in Kinds /\ part'.storage \in Storages \cup {"unreliable"}
  <2>1. format.storage \in Storages \cup {"unreliable"}
    BY DEF Formats, Storages
  <2>2. QED
    BY <1>1, <2>1, PartsAssumption
<1>4. PartOK'
  BY <1>2, <1>3 DEF PartOK
<1>5. PlaceOK'
  <2>1. Len(frame.parts) \in Nat /\ MaxParts \in Nat
    BY SequenceIs, PartsAssumption DEF FrameInv, FrameOK
  <2>2. QED
    BY <1>2, <2>1 DEF FrameInv, PlaceOK, Reading
<1>6. QED
  BY <1>2, <1>4, <1>5, SameFrame DEF FrameInv

LEMMA SkipInv ==
  ASSUME FrameInv, step \in Reading, SkipPart, UNCHANGED <<left, frame, copied, request, graphics>>
  PROVE  FrameInv'
<1>1. step' = "part"
  BY DEF SkipPart
<1>2. PartOK'
  BY <1>1 DEF PartOK, Reading
<1>3. PlaceOK'
  <2>1. Len(frame.parts) \in Nat /\ MaxParts \in Nat
    BY SequenceIs, PartsAssumption DEF FrameInv, FrameOK
  <2>2. QED
    BY <1>1, <2>1 DEF FrameInv, PlaceOK, Reading
<1>4. QED
  BY <1>1, <1>2, <1>3, SameFrame DEF FrameInv, Reading

(* The storage a part is measured with, and what the probe of it answered. *)
LEMMA MeasuredStorage ==
  ASSUME FrameInv, step = "measure", NEW product, NEW probes \in ProbeResults(product),
         NEW s, s \in IF part.storage = "unreliable" THEN ProbedStorages(probes) ELSE {part.storage}
  PROVE  s \in Storages /\ (probes[s] # 0 => probes[s] \in 1..Word)
<1>1. s \in Storages
  <2>1. CASE part.storage = "unreliable"
    BY <2>1 DEF ProbedStorages
  <2>2. CASE part.storage # "unreliable"
    BY <2>2 DEF FrameInv, PartOK
  <2>3. QED
    BY <2>1, <2>2
<1>2. probes[s] \in IF s \in Probed(product) THEN Probes[s] ELSE {0}
  BY <1>1 DEF ProbeResults
<1>3. probes[s] # 0 => probes[s] \in Probes[s]
  BY <1>2
<1>4. probes[s] # 0 => probes[s] \in 0..Word
  BY <1>1, <1>3, ProbesTyped
<1>5. QED
  BY <1>1, <1>4

(* A step of MeasurePart once the dimensions and the probes are answered. *)
MeasuredAs(d, probes) ==
  LET product  == Product(d)
      storages == IF part.storage = "unreliable" THEN ProbedStorages(probes)
                  ELSE {part.storage}
      counted  == {s \in storages : product # 0 \/ probes[s] # 0}
  IN \/ counted = {} /\ SkipPart
     \/ \E s \in counted :
          /\ part' = [kind |-> part.kind, bits |-> part.bits, storage |-> s,
                      expected |-> IF product # 0 THEN product ELSE probes[s],
                      row      |-> IF product # 0 THEN d[1] ELSE probes[s],
                      probed   |-> product = 0]
          /\ step' = "copy"

LEMMA MeasureInv ==
  ASSUME FrameInv, MeasurePart
  PROVE  FrameInv'
<1>1. step = "measure" /\ UNCHANGED <<left, frame, copied, request, graphics>>
  BY DEF MeasurePart
<1>2. PICK d \in DimensionsRead : \E probes \in ProbeResults(Product(d)) : MeasuredAs(d, probes)
  BY Zenon DEF MeasurePart, MeasuredAs
<1>3. PICK probes \in ProbeResults(Product(d)) : MeasuredAs(d, probes)
  BY <1>2
<1> DEFINE product == Product(d)
           storages == IF part.storage = "unreliable" THEN ProbedStorages(probes)
                       ELSE {part.storage}
<1>4. CASE SkipPart
  BY <1>1, <1>4, SkipInv DEF Reading
<1>5. ASSUME NEW s \in storages, product # 0 \/ probes[s] # 0,
             part' = [kind |-> part.kind, bits |-> part.bits, storage |-> s,
                      expected |-> IF product # 0 THEN product ELSE probes[s],
                      row      |-> IF product # 0 THEN d[1] ELSE probes[s],
                      probed   |-> product = 0],
             step' = "copy"
      PROVE  FrameInv'
  <2>1. s \in Storages /\ (probes[s] # 0 => probes[s] \in 1..Word)
    BY <1>1, MeasuredStorage
  <2> DEFINE expected == IF product # 0 THEN product ELSE probes[s]
             row == IF product # 0 THEN d[1] ELSE probes[s]
             probed == product = 0
  <2>2. expected \in 1..Word /\ row \in 1..Word /\ row * (expected \div row) = expected
    <3>1. CASE product # 0
      BY <3>1, DimensionsTyped, ProductOfDimensions
    <3>2. CASE product = 0
      <4>1. expected = probes[s] /\ row = probes[s] /\ probes[s] \in 1..Word
        BY <1>5, <2>1, <3>2
      <4> HIDE DEF expected, row
      <4>2. expected \div row = 1
        BY <4>1, IntMaxIs
      <4>3. QED
        BY <4>1, <4>2, IntMaxIs
    <3>3. QED
      BY <3>1, <3>2
  <2> HIDE DEF expected, row, probed
  <2>3. part' = [kind |-> part.kind, bits |-> part.bits, storage |-> s,
                 expected |-> expected, row |-> row, probed |-> probed]
    BY <1>5, Zenon DEF expected, row, probed
  <2>4. part'.kind = part.kind /\ part'.storage = s /\ part'.expected = expected /\ part'.row = row
    BY <2>3
  <2>5. PartOK'
    BY <1>1, <1>5, <2>1, <2>2, <2>4 DEF FrameInv, PartOK, Reading
  <2>6. PlaceOK'
    BY <1>1, <1>5 DEF FrameInv, PlaceOK, Reading
  <2>7. QED
    BY <1>1, <1>5, <2>5, <2>6, SameFrame DEF FrameInv
<1>6. QED
  <2>1. \/ SkipPart
        \/ \E s \in {x \in storages : product # 0 \/ probes[x] # 0} :
                /\ part' = [kind |-> part.kind, bits |-> part.bits, storage |-> s,
                            expected |-> IF product # 0 THEN product ELSE probes[s],
                            row      |-> IF product # 0 THEN d[1] ELSE probes[s],
                            probed   |-> product = 0]
                /\ step' = "copy"
    BY <1>3, Zenon DEF MeasuredAs
  <2> HIDE DEF product, storages
  <2>2. QED
    BY <1>4, <1>5, <2>1, Zenon

(* The shape of the samples that were copied covers them. *)
LEMMA ShapeCovers ==
  ASSUME FrameInv, step = "copy", NEW n \in 1..IntMax
  PROVE  /\ Shape(n)[1] \in 1..IntMax /\ Shape(n)[2] \in 1..IntMax
         /\ n = Shape(n)[1] * Shape(n)[2]
<1> DEFINE row == part.row
           expected == part.expected
           height == expected \div row
<1>1. expected \in 1..Word /\ row \in 1..Word /\ row * height = expected
  BY DEF FrameInv, PartOK
<1>2. n \in Nat /\ n # 0 /\ n <= IntMax
  BY IntMaxIs
<1>3. CASE n = expected
  <2>1. Shape(n) = <<row, height>>
    BY <1>3, Zenon DEF Shape
  <2>2. height \in Nat
    BY <1>1, QuotientFits, IntMaxIs
  <2> HIDE DEF row, expected, height
  <2>3. Shape(n)[1] = row /\ Shape(n)[2] = height
    BY <2>1
  <2>4. row \in Nat /\ row # 0 /\ height # 0
    BY <1>1, <1>2, <1>3, <2>2, IntMaxIs
  <2>5. row <= n /\ height <= n
    BY <1>1, <1>3, <2>2, <2>4, FactorsFit
  <2>6. QED
    BY <1>1, <1>2, <1>3, <2>2, <2>3, <2>4, <2>5, IntMaxIs
<1>4. CASE n # expected
  <2>1. Shape(n) = <<n, 1>>
    BY <1>4 DEF Shape
  <2>2. Shape(n)[1] = n /\ Shape(n)[2] = 1
    BY <2>1
  <2>3. QED
    BY <1>2, <2>2, IntMaxIs
<1>5. QED
  BY <1>3, <1>4

(* A step of CopyPart with that scale and that copy. *)
CopiedAs(scale, copy) ==
  IF copy.samples = 0 THEN SkipPart /\ UNCHANGED frame
  ELSE /\ frame' = [frame EXCEPT !.parts = Append(@,
            [kind        |-> KindWithScale(part.kind, scale),
             storage     |-> part.storage,
             bits        |-> part.bits,
             width       |-> Shape(copy.samples)[1],
             height      |-> Shape(copy.samples)[2],
             samples     |-> copy.samples,
             finiteScale |-> TRUE,
             exact       |-> copy.exact,
             reshaped    |-> part.probed \/ copy.samples # part.expected,
             calibrated  |-> part.kind = "Range" /\ scale # "not finite"])]
       /\ SkipPart

LEMMA CopyInv ==
  ASSUME FrameInv, CopyPart
  PROVE  FrameInv'
<1>1. step = "copy" /\ UNCHANGED <<left, copied, request, graphics>>
  BY DEF CopyPart
<1>2. PICK scale : \E copy \in Copies[part.storage][part.expected] : CopiedAs(scale, copy)
  BY Zenon DEF CopyPart, CopiedAs
<1>3. PICK copy \in Copies[part.storage][part.expected] : CopiedAs(scale, copy)
  BY <1>2
<1>4. CASE copy.samples = 0
  <2>1. SkipPart /\ UNCHANGED frame
    BY <1>3, <1>4, Zenon DEF CopiedAs
  <2>2. QED
    BY <1>1, <2>1, SkipInv DEF Reading
<1>5. CASE copy.samples # 0
  <2> DEFINE reshaped == part.probed \/ copy.samples # part.expected
             calibrated == part.kind = "Range" /\ scale # "not finite"
             kind == KindWithScale(part.kind, scale)
             n == copy.samples
             w == Shape(n)[1]
             h == Shape(n)[2]
             new == [kind |-> kind, storage |-> part.storage, bits |-> part.bits,
                     width |-> w, height |-> h, samples |-> n, finiteScale |-> TRUE,
                     exact |-> copy.exact, reshaped |-> reshaped, calibrated |-> calibrated]
             parts == Append(frame.parts, new)
  <2>1. frame' = [frame EXCEPT !.parts = Append(@, new)] /\ SkipPart
    BY <1>3, <1>5, Zenon DEF CopiedAs
  <2>2. part.kind \in Kinds /\ part.storage \in Storages /\ part.expected \in 0..Word
    BY <1>1 DEF FrameInv, PartOK, Reading
  <2>3. n \in 1..IntMax /\ copy.exact
    BY <1>5, <2>2, CopiesAreGood, Zenon DEF GoodCopy
  <2>4. w \in 1..IntMax /\ h \in 1..IntMax /\ n = w * h
    BY <1>1, <2>3, ShapeCovers
  <2>5. kind \in Kinds /\ (kind = "Range" => calibrated)
    <3>1. kind = IF part.kind = "Range" /\ scale = "not finite" THEN "Unknown" ELSE part.kind
      BY Zenon DEF KindWithScale
    <3> HIDE DEF kind
    <3>2. kind \in Kinds
      BY <2>2, <3>1 DEF Kinds
    <3>3. kind = "Range" => part.kind = "Range" /\ scale # "not finite"
      BY <3>1
    <3>4. QED
      BY <3>2, <3>3
  <2> HIDE DEF reshaped, calibrated, kind, n, w, h
  <2>6. /\ new.kind = kind /\ new.storage = part.storage /\ new.width = w /\ new.height = h
        /\ new.samples = n
    OBVIOUS
  <2>7. new.finiteScale
    OBVIOUS
  <2>8. new.exact
    <3>1. new.exact = copy.exact
      OBVIOUS
    <3>2. QED
      BY <2>3, <3>1, Zenon
  <2>9. new.kind = "Range" => new.calibrated
    <3>1. new.calibrated = calibrated
      OBVIOUS
    <3> HIDE DEF new
    <3>2. QED
      BY <2>5, <2>6, <3>1, Zenon
  <2> HIDE DEF new
  <2>10. Copied(new)
    <3>1. new.kind \in Kinds /\ new.storage \in Storages
      BY <2>2, <2>5, <2>6
    <3>2. /\ new.width \in 1..IntMax /\ new.height \in 1..IntMax /\ new.samples \in 1..IntMax
          /\ new.samples = new.width * new.height
      BY <2>3, <2>4, <2>6
    <3>3. QED
      BY <2>7, <2>8, <2>9, <3>1, <3>2, Zenon DEF Copied
  <2>11. frame = [geometry |-> frame.geometry, parts |-> frame.parts] /\ IsSequence(frame.parts)
    BY DEF FrameInv, FrameOK
  <2>12. /\ IsSequence(parts) /\ Len(parts) = Len(frame.parts) + 1
         /\ \A i \in DOMAIN parts :
              (i \in DOMAIN frame.parts /\ parts[i] = frame.parts[i]) \/ parts[i] = new
    BY <2>11, SequenceAppend
  <2> HIDE DEF parts
  <2>13. frame' = [geometry |-> frame.geometry, parts |-> parts]
    BY <2>1, <2>11 DEF parts
  <2>14. frame'.geometry = frame.geometry /\ frame'.parts = parts
    BY <2>13
  <2>15. FromBuffer
    BY <1>1 DEF FromBuffer
  <2>16. \A i \in DOMAIN parts : Copied(parts[i])
    BY <2>10, <2>12, <2>15, Zenon DEF FrameInv, FrameOK
  <2>17. FrameOK'
    BY <2>12, <2>13, <2>14, <2>16, CopiedTyped DEF FrameInv, FrameOK
  <2>18. step' = "part"
    BY <2>1 DEF SkipPart
  <2>19. PlaceOK'
    <3>1. Len(frame.parts) \in Nat /\ MaxParts \in Nat
      BY <2>11, SequenceIs, PartsAssumption
    <3>2. QED
      BY <1>1, <2>12, <2>14, <2>18, <3>1 DEF FrameInv, PlaceOK, Reading
  <2>20. PartOK'
    BY <2>18 DEF PartOK, Reading
  <2>21. copied = "none" /\ graphics = NoGraphicsFrame
    BY <1>1 DEF FrameInv, OutcomeOK, GraphicsOK
  <2>22. OutcomeOK' /\ GraphicsOK'
    BY <1>1, <2>18, <2>21 DEF OutcomeOK, GraphicsOK
  <2>23. QED
    BY <2>17, <2>19, <2>20, <2>22 DEF FrameInv
<1>6. QED
  BY <1>4, <1>5

LEMMA FinishInv ==
  ASSUME FrameInv, FinishCopy
  PROVE  FrameInv'
<1>1. /\ step = "part" /\ left = 0 /\ UNCHANGED <<left, part, frame, request, graphics>>
      /\ IF FrameValid(frame) THEN copied' = "ok" /\ step' = "convert"
         ELSE copied' = "failed" /\ step' = "done"
  BY DEF FinishCopy
<1>2. FromBuffer
  BY <1>1 DEF FromBuffer
<1>3. \A i \in DOMAIN frame.parts : Copied(frame.parts[i])
  BY <1>2 DEF FrameInv, FrameOK
<1>4. frame.parts # <<>> => FrameValid(frame)
  BY <1>3, CopiedTyped DEF FrameValid
<1>5. /\ \/ copied' = "ok" /\ step' = "convert"
         \/ copied' = "failed" /\ step' = "done"
      /\ copied' = "failed" => frame.parts = <<>>
  BY <1>1, <1>4
<1>6. PlaceOK'
  BY <1>1, <1>5 DEF FrameInv, PlaceOK, Reading
<1>7. FrameOK'
  BY <1>1, <1>3 DEF FrameInv, FrameOK
<1>8. PartOK' /\ OutcomeOK'
  BY <1>1, <1>5 DEF PartOK, OutcomeOK, Reading
<1>9. GraphicsOK'
  <2>1. graphics = NoGraphicsFrame
    BY <1>1 DEF FrameInv, GraphicsOK
  <2>2. ~(step' = "done" /\ copied' \in {"none", "ok"})
    BY <1>5
  <2>3. QED
    BY <1>1, <2>1, <2>2 DEF GraphicsOK
<1>10. QED
  BY <1>6, <1>7, <1>8, <1>9 DEF FrameInv

LEMMA ForeignInv ==
  ASSUME FrameInv, ForeignFrame
  PROVE  FrameInv'
<1>1. PICK geometry \in Geometries :
        \E parts \in UNION {[1..n -> ForeignParts] : n \in 0..MaxParts} :
          frame' = [geometry |-> geometry, parts |-> parts]
  BY DEF ForeignFrame
<1>2. PICK n \in 0..MaxParts : \E parts \in [1..n -> ForeignParts] :
        frame' = [geometry |-> geometry, parts |-> parts]
  BY <1>1
<1>3. PICK parts \in [1..n -> ForeignParts] : frame' = [geometry |-> geometry, parts |-> parts]
  BY <1>2
<1>4. step = "buffer" /\ step' = "convert" /\ UNCHANGED <<left, part, copied, request, graphics>>
  BY DEF ForeignFrame
<1>5. copied = "none" /\ graphics = NoGraphicsFrame
  BY <1>4 DEF FrameInv, OutcomeOK, GraphicsOK
<1>6. frame'.geometry = geometry /\ frame'.parts = parts
  BY <1>3
<1>7. MaxParts \in Nat /\ n \in Nat
  BY PartsAssumption
<1>8. parts \in Seq(ForeignParts) /\ Len(parts) = n /\ DOMAIN parts = 1..n
  BY <1>7
<1>9. ASSUME NEW i \in DOMAIN parts PROVE PartTyped(parts[i])
  <2>1. parts[i] \in ForeignParts
    BY <1>8
  <2>2. QED
    BY <2>1, ForeignAssumption DEF PartTyped
<1>10. ~FromBuffer'
  BY <1>4, <1>5 DEF FromBuffer
<1>11. FrameOK'
  BY <1>3, <1>6, <1>8, <1>9, <1>10, SequenceFrom DEF FrameOK
<1>12. left = 0
  BY <1>4 DEF FrameInv, PlaceOK
<1>13. PlaceOK'
  BY <1>4, <1>6, <1>7, <1>8, <1>12 DEF FrameInv, PlaceOK, Reading
<1>14. PartOK' /\ OutcomeOK' /\ GraphicsOK'
  BY <1>4, <1>5 DEF PartOK, OutcomeOK, GraphicsOK, Reading
<1>15. QED
  BY <1>11, <1>13, <1>14 DEF FrameInv

LEMMA ConvertInv ==
  ASSUME FrameInv, Convert
  PROVE  FrameInv'
<1>1. /\ step = "convert" /\ step' = "done" /\ request' \in Requests
      /\ graphics' = ConvertGraphicsFrame(frame, request')
      /\ UNCHANGED <<left, part, frame, copied>>
  BY DEF Convert
<1>2. FromBuffer' <=> FromBuffer
  BY <1>1 DEF FromBuffer
<1>3. PlaceOK'
  BY <1>1 DEF FrameInv, PlaceOK, Reading
<1>4. FrameOK'
  BY <1>1, <1>2 DEF FrameInv, FrameOK
<1>5. PartOK' /\ OutcomeOK'
  BY <1>1 DEF FrameInv, PartOK, OutcomeOK, Reading
<1>6. copied' \in {"none", "ok"}
  BY <1>1 DEF FrameInv, OutcomeOK
<1>7. GraphicsOK'
  BY <1>1, <1>6 DEF GraphicsOK
<1>8. QED
  BY <1>3, <1>4, <1>5, <1>7 DEF FrameInv

LEMMA FrameNext == FrameInv /\ [Next]_vars => FrameInv'
<1> SUFFICES ASSUME FrameInv, [Next]_vars PROVE FrameInv'
  OBVIOUS
<1>1. CASE UNCHANGED vars
  BY <1>1 DEF vars, FrameInv, PlaceOK, FrameOK, FromBuffer, PartOK, OutcomeOK, GraphicsOK
<1>2. QED
  BY <1>1, ReceiveInv, SelectorInv, DescribeInv, MeasureInv, CopyInv, FinishInv, ForeignInv,
     ConvertInv DEF Next

LEMMA FrameInvariant == Spec => []FrameInv
BY FrameInit, FrameNext, PTL DEF Spec

LEMMA PartsAreTyped == FrameInv => PartsTyped(frame.parts)
<1> SUFFICES ASSUME FrameInv PROVE PartsTyped(frame.parts)
  OBVIOUS
<1>1. DOMAIN frame.parts = 1..Len(frame.parts) /\ Len(frame.parts) \in Nat
  BY SequenceIs DEF FrameInv, FrameOK
<1>2. QED
  BY <1>1 DEF FrameInv, FrameOK, PartsTyped

(* What a graphics frame with a range was converted from. *)
LEMMA RangeShown ==
  ASSUME FrameInv, graphics.range # NoRange
  PROVE  /\ RangeIndex(frame.parts) # 0
         /\ graphics.range = SelectRange(frame, request.auxiliary)
<1>1. graphics = ConvertGraphicsFrame(frame, request) \/ graphics = NoGraphicsFrame
  BY DEF FrameInv, GraphicsOK
<1>2. NoGraphicsFrame.range = NoRange
  BY DEF NoGraphicsFrame
<1>3. QED
  BY <1>1, <1>2, ConvertedRange

------------------------------------------------------------------------------
(* What is delivered *)

(***************************************************************************)
(* Sizes stay in their range on the way from the buffer to the frame, for  *)
(* every dimension and byte count the SDK may answer.                      *)
(***************************************************************************)
THEOREM FramesTyped == Spec => []TypeOK
<1>1. FrameInv => TypeOK
  <2> SUFFICES ASSUME FrameInv PROVE TypeOK
    OBVIOUS
  <2>1. Len(frame.parts) \in Nat /\ MaxParts \in Nat
    BY SequenceIs, PartsAssumption DEF FrameInv, FrameOK
  <2>2. Len(frame.parts) <= MaxParts
    <3>1. left \in Nat /\ Len(frame.parts) + left <= MaxParts
      <4>1. left \in Nat
        BY <2>1 DEF FrameInv, PlaceOK
      <4>2. CASE step \in Reading
        BY <2>1, <4>1, <4>2 DEF FrameInv, PlaceOK
      <4>3. CASE step \notin Reading
        BY <2>1, <4>1, <4>3 DEF FrameInv, PlaceOK
      <4>4. QED
        BY <4>1, <4>2, <4>3
    <3>2. QED
      BY <2>1, <3>1
  <2>3. ASSUME NEW i \in DOMAIN frame.parts
        PROVE  /\ frame.parts[i].kind \in Kinds /\ frame.parts[i].storage \in Storages
               /\ {frame.parts[i].width, frame.parts[i].height} \subseteq 0..Word
               /\ frame.parts[i].samples \in Nat
    BY DEF FrameInv, FrameOK, PartTyped
  <2>4. QED
    BY <2>2, <2>3 DEF FrameInv, PlaceOK, FrameOK, PartOK, OutcomeOK, TypeOK
<1>2. QED
  BY FrameInvariant, <1>1, PTL

(***************************************************************************)
(* What is delivered of a buffer is what the SDK wrote of it, in sizes an  *)
(* int can hold.                                                           *)
(***************************************************************************)
THEOREM CopiesAreSound == Spec => []CopyIsSound
<1>1. FrameInv => CopyIsSound
  <2> SUFFICES ASSUME FrameInv PROVE CopyIsSound
    OBVIOUS
  <2>1. SamplesAreReceived
    BY DEF FrameInv, FrameOK, Copied, SamplesAreReceived
  <2>2. CopiedPartsAreRepresentable
    BY CopiedTyped DEF FrameInv, FrameOK, FromBuffer, CopiedPartsAreRepresentable
  <2>3. QED
    BY <2>1, <2>2 DEF CopyIsSound
<1>2. QED
  BY FrameInvariant, <1>1, PTL

(***************************************************************************)
(* A frame with one safely copied part is delivered.                       *)
(***************************************************************************)
THEOREM PartsAreKept == Spec => []NoPartDiscardsOthers
<1>1. FrameInv => NoPartDiscardsOthers
  BY DEF FrameInv, OutcomeOK, NoPartDiscardsOthers
<1>2. QED
  BY FrameInvariant, <1>1, PTL

LEMMA DeclaredCalibration == FrameInv => CalibrationIsDeclared
<1> SUFFICES ASSUME FrameInv, graphics.range # NoRange
             PROVE  /\ graphics.range.domain = "Calibrated" =>
                         /\ frame.parts[graphics.range.index].kind = "Range"
                         /\ FromBuffer => frame.parts[graphics.range.index].calibrated
                         /\ frame.geometry # "unusable"
                    /\ graphics.range.grid = "UniformPhysical" <=> graphics.range.pitch
                    /\ graphics.range.pitch => frame.geometry = "rectifiedC"
  BY DEF CalibrationIsDeclared, CalibratedRangeIsTyped, PhysicalGridHasPitch
<1> DEFINE i == RangeIndex(frame.parts)
           r == graphics.range
           raw == RawPartPreview(frame, i)
<1>1. PartsTyped(frame.parts) /\ i # 0 /\ r = SelectRange(frame, request.auxiliary)
  BY PartsAreTyped, RangeShown
<1>0. IsSelection(frame, i, r)
  BY <1>1, Selected
<1>2. /\ r.index = i /\ i \in DOMAIN frame.parts
      /\ r.domain = IF raw THEN "Native" ELSE "Calibrated"
      /\ r.grid = Grid(raw, FALSE, frame.geometry)
      /\ r.pitch <=> (~raw /\ frame.geometry = "rectifiedC")
  BY <1>0, Zenon DEF IsSelection
<1>3. ~raw => frame.parts[i].kind = "Range" /\ frame.geometry # "unusable"
  <2>1. ~raw => i = First(OfKind(frame.parts, "Range")) /\ frame.geometry # "unusable"
    BY DEF RawPartPreview
  <2>2. OfKind(frame.parts, "Range") \in SUBSET (Nat \ {0})
    BY <1>1 DEF PartsTyped, OfKind
  <2>3. i = First(OfKind(frame.parts, "Range")) => i \in OfKind(frame.parts, "Range")
    BY <1>1, <2>2, FirstIs
  <2>4. QED
    BY <2>1, <2>3 DEF OfKind
<1>4. FromBuffer /\ frame.parts[i].kind = "Range" => frame.parts[i].calibrated
  BY <1>2, Zenon DEF FrameInv, FrameOK, Copied
<1> HIDE DEF raw, i
<1>5. r.domain = "Calibrated" => ~raw
  BY <1>2
<1>6. r.grid = "UniformPhysical" <=> ~raw /\ frame.geometry = "rectifiedC"
  <2>1. r.grid = IF ~raw /\ frame.geometry = "rectifiedC" THEN "UniformPhysical" ELSE "PixelGrid"
    BY <1>2, Zenon DEF Grid
  <2>2. QED
    BY <2>1
<1>7. QED
  BY <1>2, <1>3, <1>4, <1>5, <1>6, Zenon

(***************************************************************************)
(* A range is labelled calibrated only if the device typed its part as     *)
(* Range, gave it a finite scale and a geometry the adapter can interpret, *)
(* and physical exactly when it has the pitch of a RectifiedC geometry;    *)
(* the shape of the copy is not part of it.                                *)
(***************************************************************************)
THEOREM CalibrationsAreDeclared == Spec => []CalibrationIsDeclared
BY FrameInvariant, DeclaredCalibration, PTL

(* A channel has the samples of a part with the shape of the range. *)
LEMMA ChannelFits ==
  ASSUME NEW parts, PartsTyped(parts), NEW kind, NEW w, NEW h,
         \A i \in DOMAIN parts : Copied(parts[i]), Channel(parts, kind, w, h) # 0
  PROVE  Channel(parts, kind, w, h) = w * h
<1> DEFINE i == First(OfKind(parts, kind))
<1>1. i # 0 /\ CompatibleDimensions(parts[i], w, h) /\ Channel(parts, kind, w, h) = parts[i].samples
  BY Zenon DEF Channel
<1>2. OfKind(parts, kind) \in SUBSET (Nat \ {0}) /\ OfKind(parts, kind) \subseteq DOMAIN parts
  BY DEF PartsTyped, OfKind
<1>3. i \in DOMAIN parts
  BY <1>1, <1>2, FirstIs
<1>4. parts[i].samples = parts[i].width * parts[i].height
  BY <1>3 DEF Copied
<1>5. QED
  BY <1>1, <1>4 DEF CompatibleDimensions

LEMMA ChannelsFit == FrameInv => ChannelsMatchRange
<1> SUFFICES ASSUME FrameInv, FromBuffer, graphics.range # NoRange
             PROVE  {graphics.range.intensity, graphics.range.confidence}
                      \subseteq {0, graphics.range.values}
  BY DEF ChannelsMatchRange
<1> DEFINE i == RangeIndex(frame.parts)
           r == graphics.range
           p == frame.parts[i]
<1>1. PartsTyped(frame.parts) /\ i # 0 /\ r = SelectRange(frame, request.auxiliary)
  BY PartsAreTyped, RangeShown
<1>0. IsSelection(frame, i, r)
  BY <1>1, Selected
<1>2. /\ i \in DOMAIN frame.parts
      /\ r.width = p.width /\ r.height = p.height /\ r.values = p.samples
      /\ r.intensity \in {0, Channel(frame.parts, "Intensity", r.width, r.height)}
      /\ r.confidence \in {0, Channel(frame.parts, "Confidence", r.width, r.height)}
  BY <1>0, Zenon DEF IsSelection
<1>3. \A j \in DOMAIN frame.parts : Copied(frame.parts[j])
  BY DEF FrameInv, FrameOK
<1>4. r.values = r.width * r.height
  BY <1>2, <1>3 DEF Copied
<1> HIDE DEF i, r, p
<1>5. r.intensity # 0 => r.intensity = r.width * r.height
  BY <1>1, <1>2, <1>3, ChannelFits
<1>6. r.confidence # 0 => r.confidence = r.width * r.height
  BY <1>1, <1>2, <1>3, ChannelFits
<1>7. {r.intensity, r.confidence} \subseteq {0, r.values}
  BY <1>4, <1>5, <1>6
<1>8. QED
  BY <1>7 DEF r

LEMMA ImagesAllFit == FrameInv => ImagesFit
<1> SUFFICES ASSUME FrameInv, NEW image \in graphics.images
             PROVE  /\ image.bytes = image.size
                    /\ image.stride <= IntMax /\ image.stride * image.height = image.size
  BY DEF ImagesFit
<1>1. graphics = ConvertGraphicsFrame(frame, request)
  <2>1. NoGraphicsFrame.images = {}
    BY DEF NoGraphicsFrame
  <2>2. QED
    BY <2>1 DEF FrameInv, GraphicsOK
<1>2. PICK i \in DOMAIN frame.parts :
        HasImage(frame.parts[i]) /\ image = Image(frame.parts, i)
  BY <1>1, ConvertedImages
<1>3. PartTyped(frame.parts[i])
  BY DEF FrameInv, FrameOK
<1>4. QED
  BY <1>2, <1>3, ImageFits

(***************************************************************************)
(* Nothing of a graphics frame contradicts its own size.                   *)
(***************************************************************************)
THEOREM ConversionsFit == Spec => []ConvertedDataFit
<1>1. FrameInv => ConvertedDataFit
  BY ChannelsFit, ImagesAllFit DEF ConvertedDataFit
<1>2. QED
  BY FrameInvariant, <1>1, PTL

LEMMA PartsShown == FrameInv => NoPartHidesOthers
<1> SUFFICES ASSUME FrameInv, step = "done", copied \in {"none", "ok"}, request.range,
                    NEW j \in DOMAIN frame.parts, RepresentableSamples(frame.parts[j])
             PROVE  graphics.range # NoRange
  BY DEF NoPartHidesOthers
<1>1. PartsTyped(frame.parts)
  BY PartsAreTyped
<1>2. RangeIndex(frame.parts) # 0
  BY <1>1, IndexIs
<1>3. graphics = ConvertGraphicsFrame(frame, request)
  BY DEF FrameInv, GraphicsOK
<1>4. frame.parts # <<>>
  OBVIOUS
<1>5. graphics.range = SelectRange(frame, request.auxiliary)
  BY <1>3, <1>4, RangeConverted
<1>6. IsSelection(frame, RangeIndex(frame.parts), graphics.range)
  BY <1>1, <1>2, <1>5, Selected
<1>7. QED
  BY <1>6, Zenon DEF IsSelection

(***************************************************************************)
(* A part that cannot be displayed hides no displayable one.               *)
(***************************************************************************)
THEOREM PartsAreShown == Spec => []NoPartHidesOthers
BY FrameInvariant, PartsShown, PTL

=============================================================================
