---------------------------- MODULE Sizing_proofs ---------------------------
(***************************************************************************)
(* Proofs about Sizing, for integers of any width, units of any factor and *)
(* any configurations.                                                     *)
(***************************************************************************)
EXTENDS Sizing, TLAPS

(***************************************************************************)
(* Arithmetic.                                                             *)
(***************************************************************************)

\* Naturals are closed under the product.
LEMMA ProductOfNaturals ==
    ASSUME NEW a \in Nat, NEW b \in Nat
    PROVE  /\ a * b \in Nat
           /\ a > 0 /\ b > 0 => a * b > 0
PROOF OBVIOUS

\* The product with a number that is not negative is monotonic.
LEMMA ProductMonotonic ==
    ASSUME NEW a \in Int, NEW b \in Int, NEW c \in Nat, a <= b
    PROVE  /\ a * c \in Int
           /\ b * c \in Int
           /\ a * c <= b * c
           /\ c * a <= c * b
<1>1. (b - a) * c >= 0
  <2>1. b - a \in Nat
    OBVIOUS
  <2> QED
    BY <2>1, ProductOfNaturals
<1>2. (b - a) * c = b * c - a * c
  OBVIOUS
<1>3. a * c \in Int /\ b * c \in Int /\ c * a = a * c /\ c * b = b * c
  OBVIOUS
<1> QED
  BY <1>1, <1>2, <1>3

\* Integer division, from below and from above.
LEMMA DivisionBounds ==
    ASSUME NEW x \in Nat, NEW d \in Nat \ {0}
    PROVE  /\ x \div d \in Nat
           /\ x % d \in 0..(d - 1)
           /\ x = d * (x \div d) + (x % d)
           /\ d * (x \div d) <= x
           /\ x < d * (x \div d) + d
           /\ x % d <= x
PROOF OBVIOUS

LEMMA ProductAssociates ==
    ASSUME NEW a \in Int, NEW b \in Int, NEW c \in Int
    PROVE  a * (b * c) = b * (a * c)
PROOF OBVIOUS

\* The units are positive, and the sizes wrap at a word that has room for two
\* terabytes.
LEMMA UnitsPositive ==
    /\ Kilo \in Nat /\ Kilo > 1
    /\ MB \in Nat /\ MB > 1
    /\ GB \in Nat /\ GB > 1
    /\ TB \in Nat /\ TB >= GB
    /\ Half \in Nat /\ Half >= 2 * GB
    /\ Word \in Nat /\ Word = Half + Half
<1>1. Kilo \in Nat /\ Kilo > 1
  BY SizingAssumption
<1>2. MB \in Nat /\ MB > 1
  BY <1>1 DEF MB
<1>3. GB \in Nat /\ GB > 1
  BY <1>1, <1>2 DEF GB
<1>4. TB \in Nat /\ TB >= GB
  BY <1>1, <1>3 DEF TB
<1>5. Word \in Nat /\ Half \in Nat /\ Half + Half = Word
  BY SizingAssumption DEF Half
<1>6. Half >= 2 * GB
  BY <1>3, <1>4, <1>5, SizingAssumption
<1> QED
  BY <1>1, <1>2, <1>3, <1>4, <1>5, <1>6

\* A number wraps to a 64-bit number, and only a large one changes.
LEMMA WrapBounds ==
    ASSUME NEW x \in Nat
    PROVE  /\ x % Word \in 0..(Word - 1)
           /\ x % Word <= x
           /\ x < Word => x % Word = x
<1>1. Word \in Nat \ {0}
  BY UnitsPositive
<1>2. x % Word \in 0..(Word - 1) /\ x % Word <= x
  BY <1>1, DivisionBounds
<1>3. x < Word => x % Word = x
  BY <1>1
<1> QED
  BY <1>2, <1>3

\* The signed reading of a number is a 64-bit number, and never larger.
LEMMA SignedBounds ==
    ASSUME NEW x \in Nat
    PROVE  /\ Signed(x) \in (-Half)..(Half - 1)
           /\ Signed(x) <= x
           /\ x < Half => Signed(x) = x
<1>1. /\ x % Word \in 0..(Word - 1)
      /\ x % Word <= x
      /\ x < Word => x % Word = x
  BY WrapBounds
<1> DEFINE w == x % Word
<1> HIDE DEF w
<1>2. Signed(x) = IF w < Half THEN w ELSE w - Word
  BY DEF Signed, w
<1> QED
  BY <1>1, <1>2, UnitsPositive DEF w

(***************************************************************************)
(* ComputeBackendSize.                                                     *)
(***************************************************************************)

\* The data backends of an erasure code with these shards never hold more
\* than asked for; they hold more than half of it, but for a byte per shard,
\* and all of it but that when minimal divides expected.
LEMMA BackendSizeBounds ==
    ASSUME NEW total \in Nat, NEW expected \in Nat \ {0}, NEW minimal \in Nat \ {0},
           minimal <= expected
    PROVE  /\ BackendSize(total, expected, minimal) \in Nat
           /\ minimal * BackendSize(total, expected, minimal) <= total
           /\ 2 * (minimal * BackendSize(total, expected, minimal)) > total - expected
           /\ expected % minimal = 0 =>
                 minimal * BackendSize(total, expected, minimal) > total - expected
<1> DEFINE per == total \div expected
           overhead == expected \div minimal
           held == minimal * overhead
<1>1. /\ per \in Nat
      /\ expected * per <= total
      /\ total < expected * per + expected
  BY DivisionBounds
<1>2. /\ overhead \in Nat
      /\ held \in Nat
      /\ held <= expected
      /\ expected < held + minimal
      /\ expected = held + (expected % minimal)
  BY DivisionBounds, ProductOfNaturals
<1>3. overhead >= 1
  BY <1>2, overhead = 0 => held = 0
<1>4. held >= minimal
  BY <1>3, <1>2, ProductMonotonic
<1>5. expected < 2 * held
  BY <1>2, <1>4
<1>6. BackendSize(total, expected, minimal) = per * overhead
  BY DEF BackendSize
<1> HIDE DEF per, overhead
<1>7. /\ BackendSize(total, expected, minimal) \in Nat
      /\ minimal * BackendSize(total, expected, minimal) = per * held
  BY <1>1, <1>2, <1>6, ProductOfNaturals, ProductAssociates
<1> HIDE DEF held
<1>8. per * held <= per * expected
  BY <1>1, <1>2, ProductMonotonic
<1>9. per * expected <= 2 * (per * held)
  <2>1. per * expected <= per * (2 * held)
    BY <1>1, <1>2, <1>5, ProductMonotonic
  <2>2. per * (2 * held) = 2 * (per * held)
    BY <1>1, <1>2, ProductAssociates
  <2> QED
    BY <2>1, <2>2
<1>10. per * expected = expected * per /\ per * held \in Nat
  BY <1>1, <1>2, ProductOfNaturals
<1>11. expected % minimal = 0 => per * held = per * expected
  BY <1>2
<1> QED
  BY <1>1, <1>6, <1>7, <1>8, <1>9, <1>10, <1>11

(***************************************************************************)
(* The sizes of a configuration.                                           *)
(***************************************************************************)

\* A parsed size is a 64-bit number, at most what is asked for, and that
\* unless it wraps.
LEMMA ParseSizeBounds ==
    ASSUME NEW size \in SizeStrings
    PROVE  /\ Asked(size) \in Nat
           /\ ParseSize(size) \in 0..(Word - 1)
           /\ ParseSize(size) <= Asked(size)
           /\ Asked(size) < Word => ParseSize(size) = Asked(size)
<1>1. size.num \in Nat
  BY DEF SizeStrings
<1>2. ASSUME size.unit \in Units PROVE Multiplier[size.unit] \in Nat
  BY <1>2, UnitsPositive DEF Units, Multiplier
<1>3. Asked(size) \in Nat
  BY <1>1, <1>2, ProductOfNaturals DEF Asked
<1> HIDE DEF Asked
<1> QED
  BY <1>3, WrapBounds DEF ParseSize

\* The gigabytes of a number of bytes: less than one more than needed, and
\* enough unless the sum wraps.
LEMMA GigabytesBounds ==
    ASSUME NEW bytes \in Nat
    PROVE  /\ Gigabytes(bytes) \in 0..Half
           /\ Gigabytes(bytes) * GB < bytes + GB
           /\ bytes + GB <= Word => Gigabytes(bytes) * GB >= bytes
<1> DEFINE raw == bytes + GB - 1
           sum == raw % Word
           gb == sum \div GB
<1>1. /\ Word \in Nat \ {0} /\ GB \in Nat \ {0} /\ GB > 1
      /\ raw \in Nat
      /\ Word = Half + Half /\ Half \in Nat
  BY UnitsPositive
<1> HIDE DEF raw
<1>2. /\ sum \in 0..(Word - 1)
      /\ sum <= raw
      /\ raw < Word => sum = raw
  BY <1>1, WrapBounds
<1> HIDE DEF sum
<1>3. /\ gb \in Nat
      /\ GB * gb <= sum
      /\ sum < GB * gb + GB
  BY <1>1, <1>2, DivisionBounds
<1>4. Gigabytes(bytes) = gb
  BY DEF Gigabytes, sum, raw
<1> HIDE DEF gb
<1>5. gb * GB = GB * gb /\ GB * gb \in Nat /\ 2 * gb <= GB * gb
  BY <1>1, <1>3, ProductOfNaturals, ProductMonotonic
<1> QED
  BY <1>1, <1>2, <1>3, <1>4, <1>5 DEF raw

\* Division that truncates a signed number.
LEMMA QuotientBounds ==
    ASSUME NEW x \in (-Half)..Half
    PROVE  /\ Quotient(x, GB) \in (-Half)..Half
           /\ x >= 0 => /\ Quotient(x, GB) \in Nat
                        /\ Quotient(x, GB) * GB <= x
                        /\ Quotient(x, GB) * GB > x - GB
           /\ x < 0 => Quotient(x, GB) <= 0
<1>1. GB \in Nat \ {0} /\ GB > 1 /\ Half \in Nat
  BY UnitsPositive
<1>2. ASSUME NEW y \in Nat
      PROVE  /\ y \div GB \in 0..y
             /\ (y \div GB) * GB <= y
             /\ (y \div GB) * GB > y - GB
  <2>1. /\ y \div GB \in Nat /\ GB * (y \div GB) <= y
        /\ y < GB * (y \div GB) + GB
    BY <1>1, DivisionBounds
  <2> DEFINE q == y \div GB
  <2> HIDE DEF q
  <2>2. q \in Nat => q * GB = GB * q /\ GB * q \in Nat /\ q <= GB * q
    <3> SUFFICES ASSUME q \in Nat
                 PROVE  q * GB = GB * q /\ GB * q \in Nat /\ q <= GB * q
      OBVIOUS
    <3>1. GB * q \in Nat /\ 1 * q <= GB * q
      BY <1>1, ProductOfNaturals, ProductMonotonic
    <3> QED
      BY <1>1, <3>1
  <2> QED
    BY <1>1, <2>1, <2>2 DEF q
<1>3. CASE x >= 0
  <2>1. x \in Nat
    BY <1>1, <1>3
  <2> QED
    BY <1>1, <1>2, <1>3, <2>1 DEF Quotient
<1>4. CASE x < 0
  <2>1. -x \in Nat /\ -x <= Half
    BY <1>1, <1>4
  <2>2. (-x) \div GB \in 0..(-x)
    BY <1>2, <2>1
  <2> QED
    BY <1>1, <1>4, <2>1, <2>2 DEF Quotient
<1> QED
  BY <1>1, <1>3, <1>4

(***************************************************************************)
(* LoadConfig.                                                             *)
(***************************************************************************)

\* The size of the data backends is an error or a number of gigabytes.
\* If data_size is given, that many gigabytes hold it, and less than one
\* more; otherwise the shards together hold the total, but for rounding.
LEMMA DataSizeBounds ==
    ASSUME NEW c \in Configs, DataSizeGb(c) # Error
    PROVE  /\ DataSizeGb(c) \in (-Half)..Half
           /\ Given(c.data_size) =>
                 /\ DataSizeGb(c) \in Nat
                 /\ DataSizeGb(c) * GB < Asked(c.data_size) + GB
                 /\ Asked(c.data_size) + GB <= Half =>
                       DataSizeGb(c) * GB >= Asked(c.data_size)
           /\ ~ Given(c.data_size) /\ Given(c.total_storage_size) =>
                 /\ c.min_shards \in Nat \ {0}
                 /\ c.expected_shards \in Nat \ {0}
                 /\ c.min_shards <= c.expected_shards
                 /\ c.min_shards * (DataSizeGb(c) * GB)
                       < Asked(c.total_storage_size) + c.min_shards * GB
                 /\ Asked(c.total_storage_size) + GB <= Half =>
                       c.min_shards * (DataSizeGb(c) * GB) >=
                          c.min_shards * BackendSize(Asked(c.total_storage_size),
                                                     c.expected_shards, c.min_shards)
           /\ ~ Given(c.data_size) /\ ~ Given(c.total_storage_size) =>
                 DataSizeGb(c) = 0
<1>1. /\ c.data_size \in SizeStrings /\ c.total_storage_size \in SizeStrings
      /\ c.min_shards \in Int /\ c.expected_shards \in Int
  BY SizingAssumption DEF Configs
<1>2. /\ Half \in Nat /\ GB \in Nat \ {0} /\ GB > 1 /\ Word = Half + Half
  BY UnitsPositive
<1>3. CASE Given(c.data_size)
  <2>1. DataSizeGb(c) = Gigabytes(ParseSize(c.data_size))
    BY <1>3 DEF DataSizeGb
  <2>2. /\ ParseSize(c.data_size) \in Nat
        /\ Asked(c.data_size) \in Nat
        /\ ParseSize(c.data_size) <= Asked(c.data_size)
        /\ Asked(c.data_size) < Word => ParseSize(c.data_size) = Asked(c.data_size)
    BY <1>1, <1>2, ParseSizeBounds
  <2>3. /\ Gigabytes(ParseSize(c.data_size)) \in 0..Half
        /\ Gigabytes(ParseSize(c.data_size)) * GB < ParseSize(c.data_size) + GB
        /\ ParseSize(c.data_size) + GB <= Word =>
              Gigabytes(ParseSize(c.data_size)) * GB >= ParseSize(c.data_size)
    BY <2>2, GigabytesBounds
  <2>4. Gigabytes(ParseSize(c.data_size)) * GB \in Int
    BY <1>2, <2>3, ProductMonotonic
  <2> QED
    BY <1>2, <1>3, <2>1, <2>2, <2>3, <2>4
<1>4. CASE ~ Given(c.data_size) /\ ~ Given(c.total_storage_size)
  BY <1>2, <1>4 DEF DataSizeGb
<1>5. CASE ~ Given(c.data_size) /\ Given(c.total_storage_size)
  <2> DEFINE parsed == ParseSize(c.total_storage_size)
             total == Signed(parsed)
             asked == Asked(c.total_storage_size)
             E == c.expected_shards
             M == c.min_shards
             size == BackendSize(total, E, M)
             padded == Signed(size + GB - 1)
             gb == Quotient(padded, GB)
  <2>1. total > 0 /\ ShardsValid(E, M) /\ DataSizeGb(c) = gb
    BY <1>5 DEF DataSizeGb
  <2>2. /\ parsed \in Nat /\ asked \in Nat /\ parsed <= asked
        /\ asked < Word => parsed = asked
    BY <1>1, <1>2, ParseSizeBounds
  <2> HIDE DEF parsed, asked
  <2>3. /\ total \in Nat \ {0} /\ total <= parsed
        /\ parsed < Half => total = parsed
    BY <1>2, <2>1, <2>2, SignedBounds
  <2>4. E \in Nat \ {0} /\ M \in Nat \ {0} /\ M <= E
    BY <1>1, <2>1 DEF ShardsValid
  <2> HIDE DEF total, E, M
  <2>5. size \in Nat /\ M * size <= total
    BY <2>3, <2>4, BackendSizeBounds
  <2>6. asked + GB <= Half => size = BackendSize(asked, E, M)
    BY <1>2, <2>2, <2>3
  <2> HIDE DEF size
  <2>7. M * size \in Nat /\ size <= M * size
    <3>1. 1 * size <= M * size
      BY <2>4, <2>5, ProductMonotonic
    <3> QED
      BY <2>4, <2>5, <3>1, ProductOfNaturals
  <2>8. /\ size + GB - 1 \in Nat
        /\ padded \in (-Half)..(Half - 1) /\ padded <= size + GB - 1
        /\ size + GB - 1 < Half => padded = size + GB - 1
    <3>1. size + GB - 1 \in Nat
      BY <1>2, <2>5
    <3> QED
      BY <3>1, SignedBounds
  <2> HIDE DEF padded
  <2>9. /\ gb \in (-Half)..Half
        /\ padded >= 0 => /\ gb \in Nat
                          /\ gb * GB <= padded
                          /\ gb * GB > padded - GB
        /\ padded < 0 => gb <= 0
    BY <1>2, <2>8, QuotientBounds
  <2> HIDE DEF gb
  <2>10. gb * GB \in Int /\ gb * GB <= size + GB - 1
    <3>1. gb * GB \in Int /\ (gb <= 0 => gb * GB <= 0)
      <4>1. gb \in Int /\ gb * GB \in Int
        BY <1>2, <2>9, ProductMonotonic
      <4>2. gb <= 0 => gb * GB <= 0 * GB
        BY <1>2, <4>1, ProductMonotonic
      <4> QED
        BY <1>2, <4>1, <4>2
    <3> QED
      BY <1>2, <2>5, <2>8, <2>9, <3>1
  <2>11. M * (gb * GB) < asked + M * GB
    <3>1. M * (gb * GB) <= M * (size + GB - 1)
      BY <1>2, <2>4, <2>5, <2>10, ProductMonotonic
    <3>2. M * (size + GB - 1) = M * size + M * GB - M
      BY <1>2, <2>4, <2>5
    <3>3. M * (gb * GB) \in Int /\ M * GB \in Nat
      BY <1>2, <2>4, <2>10, ProductOfNaturals, ProductMonotonic
    <3> QED
      BY <2>2, <2>3, <2>4, <2>5, <2>7, <3>1, <3>2, <3>3
  <2>12. asked + GB <= Half => M * (gb * GB) >= M * size
    <3> SUFFICES ASSUME asked + GB <= Half
                 PROVE  M * (gb * GB) >= M * size
      OBVIOUS
    <3>1. padded = size + GB - 1
      BY <1>2, <2>2, <2>3, <2>5, <2>7, <2>8
    <3>2. gb * GB >= size
      BY <1>2, <2>5, <2>9, <2>10, <3>1
    <3> QED
      BY <2>4, <2>5, <2>10, <3>2, ProductMonotonic
  <2>13. DataSizeGb(c) = gb
    BY <2>1
  <2> QED
    BY <1>5, <2>4, <2>6, <2>9, <2>11, <2>12, <2>13 DEF asked, E, M
<1> QED
  BY <1>3, <1>4, <1>5

\* The file system has the size that total_storage_size names, unless that
\* wraps, or holds what the data backends hold.
LEMMA ZdbfsSizeBounds ==
    ASSUME NEW c \in Configs, DataSizeGb(c) # Error, ZdbfsSize(c) # Error
    PROVE  /\ ZdbfsSize(c) \in (-Half)..Word
           /\ Given(c.total_storage_size) =>
                 ZdbfsSize(c) <= Asked(c.total_storage_size)
           /\ ~ Given(c.total_storage_size) =>
                 /\ Given(c.data_size)
                 /\ c.min_shards \in Nat \ {0}
                 /\ c.min_shards <= c.expected_shards
                 /\ ZdbfsSize(c) <= c.min_shards * (DataSizeGb(c) * GB)
                 /\ /\ Asked(c.data_size) + GB <= Half
                    /\ c.min_shards * (Asked(c.data_size) + GB) <= Half
                    => ZdbfsSize(c) = c.min_shards * (DataSizeGb(c) * GB)
<1>1. /\ c.data_size \in SizeStrings /\ c.total_storage_size \in SizeStrings
      /\ c.min_shards \in Int /\ c.expected_shards \in Int
  BY SizingAssumption DEF Configs
<1>2. /\ Half \in Nat /\ GB \in Nat \ {0} /\ Word = Half + Half
  BY UnitsPositive
<1>3. CASE Given(c.total_storage_size)
  <2>1. ZdbfsSize(c) = ParseSize(c.total_storage_size)
    BY <1>3 DEF ZdbfsSize
  <2> QED
    BY <1>1, <1>2, <1>3, <2>1, ParseSizeBounds
<1>4. CASE ~ Given(c.total_storage_size)
  <2> DEFINE gb == DataSizeGb(c)
             bytes == gb * GB
             backend == Signed(bytes)
             M == c.min_shards
             asked == Asked(c.data_size)
  <2>1. /\ gb > 0 /\ backend > 0 /\ ShardsValid(c.expected_shards, M)
        /\ ZdbfsSize(c) = Signed(backend * M)
    BY <1>4 DEF ZdbfsSize, TotalStorage
  <2>2. Given(c.data_size)
    BY <1>4, <2>1, DataSizeBounds
  <2>3. gb \in Nat /\ gb * GB < asked + GB
    BY <2>2, DataSizeBounds
  <2>4. asked \in Nat
    BY <1>1, ParseSizeBounds
  <2>5. M \in Nat \ {0} /\ M <= c.expected_shards
    BY <1>1, <2>1 DEF ShardsValid
  <2> HIDE DEF gb, M, asked
  <2>6. bytes \in Nat
    BY <1>2, <2>3, ProductOfNaturals
  <2>7. bytes < asked + GB
    BY <2>3
  <2> HIDE DEF bytes
  <2>8. /\ backend \in Nat /\ backend <= bytes
        /\ bytes < Half => backend = bytes
    BY <1>2, <2>1, <2>6, SignedBounds
  <2> HIDE DEF backend
  <2>9. /\ backend * M \in Nat /\ M * bytes \in Nat /\ backend * M = M * backend
        /\ M * backend <= M * bytes
    BY <2>5, <2>6, <2>8, ProductOfNaturals, ProductMonotonic
  <2>10. /\ Signed(backend * M) \in (-Half)..(Half - 1)
         /\ Signed(backend * M) <= backend * M
         /\ backend * M < Half => Signed(backend * M) = backend * M
    BY <2>9, SignedBounds
  <2>11. ASSUME asked + GB <= Half, M * (asked + GB) <= Half
         PROVE  Signed(backend * M) = M * bytes
    <3>1. backend = bytes
      BY <1>2, <2>4, <2>6, <2>7, <2>8, <2>11
    <3>2. M * (bytes + 1) <= M * (asked + GB)
      BY <1>2, <2>4, <2>5, <2>6, <2>7, ProductMonotonic
    <3>3. M * (bytes + 1) = M * bytes + M
      BY <2>5, <2>6
    <3>4. M * (asked + GB) \in Nat
      BY <1>2, <2>4, <2>5, ProductOfNaturals
    <3> QED
      BY <1>2, <2>5, <2>9, <2>10, <2>11, <3>1, <3>2, <3>3, <3>4
  <2>12. /\ Signed(backend * M) \in (-Half)..Word
         /\ Signed(backend * M) <= M * bytes
    BY <1>2, <2>9, <2>10
  <2> QED
    BY <1>4, <2>1, <2>2, <2>5, <2>11, <2>12 DEF asked, M, bytes, gb
<1> QED
  BY <1>3, <1>4

(***************************************************************************)
(* The specification.                                                      *)
(***************************************************************************)

\* What is loaded is what LoadConfig makes of the configuration.
LoadedInv ==
    /\ config \in Configs
    /\ loaded \in {NotLoaded, LoadConfig(config)}

THEOREM Loading == Spec => []LoadedInv
<1>1. Init => LoadedInv
  BY DEF Init, LoadedInv
<1>2. LoadedInv /\ [Load]_vars => LoadedInv'
  BY DEF LoadedInv, Load, vars
<1> QED
  BY <1>1, <1>2, PTL DEF Spec

\* What the sizes of an accepted configuration are.
LEMMA AcceptedSizes ==
    ASSUME LoadedInv, Accepted
    PROVE  /\ config \in Configs
           /\ DataSizeGb(config) # Error /\ ZdbfsSize(config) # Error
           /\ loaded = [status |-> "accepted", metaSizeGb |-> MetaSizeGb(config),
                        dataSizeGb |-> DataSizeGb(config),
                        zdbfsSize |-> ZdbfsSize(config)]
<1>1. loaded = LoadConfig(config)
  BY DEF LoadedInv, Accepted, NotLoaded
<1>2. LoadConfig(config) # Refused
  BY <1>1 DEF Accepted, Refused
<1> QED
  BY <1>1, <1>2 DEF LoadedInv, LoadConfig

\* What LoadConfig loads has its type: TypeOK.
THEOREM TypeCorrect == Spec => []TypeOK
<1>1. LoadedInv => TypeOK
  <2> SUFFICES ASSUME LoadedInv PROVE TypeOK
    OBVIOUS
  <2>1. CASE ~ Accepted
    BY <2>1 DEF LoadedInv, LoadConfig, Accepted, TypeOK
  <2>2. CASE Accepted
    <3>1. DataSizeGb(config) \in (-Half)..Half
      BY <2>2, AcceptedSizes, DataSizeBounds
    <3>2. ZdbfsSize(config) \in (-Half)..Word
      BY <2>2, AcceptedSizes, ZdbfsSizeBounds
    <3>3. MetaSizeGb(config) \in Nat
      <4>1. config.meta_size \in SizeStrings
        BY <2>2, AcceptedSizes, SizingAssumption DEF Configs
      <4>2. ParseSize(config.meta_size) \in Nat
        BY <4>1, UnitsPositive, ParseSizeBounds
      <4>3. Gigabytes(ParseSize(config.meta_size)) \in Nat
        BY <4>2, UnitsPositive, GigabytesBounds
      <4> QED
        BY <4>3 DEF MetaSizeGb
    <3> QED
      BY <2>2, <3>1, <3>2, <3>3, AcceptedSizes DEF TypeOK
  <2> QED
    BY <2>1, <2>2
<1> QED
  BY <1>1, Loading, PTL

\* Nothing larger than asked for is rented or mounted: NeverMoreThanAsked.
THEOREM NotMoreThanAsked == Spec => []NeverMoreThanAsked
<1>1. LoadedInv => NeverMoreThanAsked
  <2> SUFFICES ASSUME LoadedInv, Accepted
               PROVE  NeverMoreThanAsked
    BY DEF NeverMoreThanAsked
  <2>1. /\ config \in Configs
        /\ DataSizeGb(config) # Error /\ ZdbfsSize(config) # Error
        /\ loaded.dataSizeGb = DataSizeGb(config)
        /\ loaded.zdbfsSize = ZdbfsSize(config)
    BY AcceptedSizes
  <2>2. Given(config.data_size) \/ Given(config.total_storage_size)
    BY <2>1, ZdbfsSizeBounds
  <2> QED
    BY <2>1, <2>2, DataSizeBounds, ZdbfsSizeBounds DEF NeverMoreThanAsked, Usable, BothGiven
<1> QED
  BY <1>1, Loading, PTL

\* Where nothing wraps, what is rented falls short of what is asked for by
\* less than half: ShortfallBounded.
THEOREM ShortfallIsBounded == Spec => []ShortfallBounded
<1>1. LoadedInv => ShortfallBounded
  <2> SUFFICES ASSUME LoadedInv, Accepted, Moderate
               PROVE  ShortfallBounded
    BY DEF ShortfallBounded
  <2> DEFINE asked == Asked(config.total_storage_size)
             M == config.min_shards
             E == config.expected_shards
             size == BackendSize(asked, E, M)
  <2>1. /\ config \in Configs
        /\ DataSizeGb(config) # Error /\ ZdbfsSize(config) # Error
        /\ loaded.dataSizeGb = DataSizeGb(config)
        /\ loaded.zdbfsSize = ZdbfsSize(config)
    BY AcceptedSizes
  <2>2. Given(config.data_size) =>
           loaded.dataSizeGb * GB >= Asked(config.data_size)
    BY <2>1, DataSizeBounds DEF Moderate
  <2>3. ~ Given(config.total_storage_size) => loaded.zdbfsSize = Usable
    BY <2>1, ZdbfsSizeBounds DEF Moderate, Usable
  <2>4. ASSUME ~ Given(config.data_size)
        PROVE  /\ 2 * Usable > asked - E
               /\ E % M = 0 => Usable > asked - E
    <3>1. Given(config.total_storage_size)
      BY <2>1, <2>4, ZdbfsSizeBounds
    <3>2. /\ M \in Nat \ {0} /\ E \in Nat \ {0} /\ M <= E
          /\ Usable >= M * size
      BY <2>1, <2>4, <3>1, DataSizeBounds DEF Moderate, Usable
    <3>3. asked \in Nat
      <4>1. config.total_storage_size \in SizeStrings
        BY <2>1, SizingAssumption DEF Configs
      <4> QED
        BY <4>1, ParseSizeBounds
    <3>4. Usable \in Int
      <4>1. loaded.dataSizeGb \in Int /\ GB \in Nat
        BY <2>1, DataSizeBounds, UnitsPositive
      <4> QED
        BY <3>2, <4>1, ProductMonotonic DEF Usable
    <3> HIDE DEF asked, M, E
    <3>5. /\ size \in Nat
          /\ 2 * (M * size) > asked - E
          /\ E % M = 0 => M * size > asked - E
      BY <3>2, <3>3, BackendSizeBounds
    <3> HIDE DEF size
    <3>6. M * size \in Nat
      BY <3>2, <3>5, ProductOfNaturals
    <3> QED
      BY <3>2, <3>3, <3>4, <3>5, <3>6
  <2> QED
    BY <2>2, <2>3, <2>4 DEF ShortfallBounded
<1> QED
  BY <1>1, Loading, PTL

\* A configuration that gives one of the sizes has usable shards.
THEOREM ShardsAreChecked == Spec => []ShardsChecked
<1>1. LoadedInv => ShardsChecked
  <2> SUFFICES ASSUME LoadedInv, Accepted,
                      ~ (Given(config.data_size) /\ Given(config.total_storage_size))
               PROVE  0 < config.min_shards /\ config.min_shards <= config.expected_shards
    BY DEF ShardsChecked, BothGiven
  <2>1. /\ config \in Configs
        /\ DataSizeGb(config) # Error /\ ZdbfsSize(config) # Error
    BY AcceptedSizes
  <2>2. CASE ~ Given(config.total_storage_size)
    BY <2>1, <2>2, ZdbfsSizeBounds
  <2>3. CASE ~ Given(config.data_size) /\ Given(config.total_storage_size)
    BY <2>1, <2>3, DataSizeBounds
  <2> QED
    BY <2>2, <2>3
<1> QED
  BY <1>1, Loading, PTL
=============================================================================
