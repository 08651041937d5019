------------------------------- MODULE Sizing -------------------------------
(***************************************************************************)
(* How quantumd turns the sizes of its configuration into the size of the  *)
(* data backends it rents and the size of the file system it mounts        *)
(* (internal/util/storage.go, internal/config/config.go).                  *)
(*                                                                         *)
(* Sizes are 64-bit integers, signed in some places and unsigned in        *)
(* others, and wrap.  Word is the number of values of such an integer and  *)
(* Kilo the factor between units, so that a small instance wraps as well.  *)
(***************************************************************************)
EXTENDS Integers

CONSTANTS
    Error,          \* the result of a function that returns an error
    Word,           \* 2^64
    Kilo,           \* 1024
    Sizes,          \* bound: the sizes that a configuration may name
    ZdbDataSizes,   \* bound: those it may name for zdb_data_size
    MetaSizes,      \* bound: those it may name for meta_size
    Shards          \* bound: the values of min_shards and expected_shards

MB == Kilo * Kilo
GB == Kilo * MB
TB == Kilo * GB

Half == Word \div 2

Multiplier == [B |-> 1, K |-> Kilo, M |-> MB, G |-> GB, T |-> TB]
Units == DOMAIN Multiplier

\* A size is a number of units, or no number: the key is absent, the string
\* is blank, or it is malformed.
SizeStrings == [num : Nat, unit : Units \cup {"absent", "blank", "malformed"}]

ASSUME SizingAssumption ==
    /\ Error \notin Int
    /\ Kilo \in Nat \ {0, 1}
    /\ Word \in Nat
    /\ Half + Half = Word
    /\ 2 * TB <= Half
    /\ Sizes \cup ZdbDataSizes \cup MetaSizes \subseteq SizeStrings
    /\ Shards \subseteq Int

VARIABLES
    config,         \* what the configuration file says
    loaded          \* what LoadConfig makes of it

vars == <<config, loaded>>

Given(size) == size.unit # "absent"

Configs ==
    [data_size : Sizes, total_storage_size : Sizes, meta_size : MetaSizes,
     zdb_data_size : ZdbDataSizes, min_shards : Shards, expected_shards : Shards,
     identified : BOOLEAN]    \* deployment_name and mnemonic are given

-----------------------------------------------------------------------------
(***************************************************************************)
(* 64-bit integers.                                                        *)
(***************************************************************************)

\* The signed reading of a number, after it wrapped.
Signed(x) == IF x % Word < Half THEN x % Word ELSE (x % Word) - Word

\* The division of Go, which truncates towards zero.
Quotient(x, d) == IF x >= 0 THEN x \div d ELSE -((-x) \div d)

(***************************************************************************)
(* internal/util/storage.go.                                               *)
(***************************************************************************)

\* The suffix must leave a number that 64 bits can hold; blanks are a size.
Parses(size) ==
    size.unit # "malformed" /\ size.num < Word

Asked(size) == IF size.unit \in Units THEN size.num * Multiplier[size.unit] ELSE 0

\* Mutant: the unit G is taken for the next one.
ParseSizeNextUnit(size) == (Asked(size) * (IF size.unit = "G" THEN Kilo ELSE 1)) % Word

\* ParseSize, of a size that parses: the product wraps.
ParseSize(size) == Asked(size) % Word

\* Mutant: rounds down.
GigabytesDown(bytes) == bytes \div GB

\* ParseSizeToGB rounds up; the sum wraps.
Gigabytes(bytes) == ((bytes + GB - 1) % Word) \div GB

\* Mutant: a minimum above the expected number of shards passes.
ShardsPositive(expected, minimal) == minimal > 0 /\ expected > 0

ShardsValid(expected, minimal) == 0 < minimal /\ minimal <= expected

\* ComputeBackendSize, of valid arguments: both divisions are of integers.
BackendSize(total, expected, minimal) ==
    (total \div expected) * (expected \div minimal)

\* ComputeTotalStorage, of valid arguments.
TotalStorage(backend, expected, minimal) == Signed(backend * minimal)

(***************************************************************************)
(* internal/config/config.go.                                              *)
(***************************************************************************)

\* The size of a data backend in GB: data_size if it is given, otherwise
\* computed from total_storage_size, otherwise 0.
DataSizeGb(c) ==
    LET total == Signed(ParseSize(c.total_storage_size))
    IN  IF Given(c.data_size)
        THEN IF Parses(c.data_size) THEN Gigabytes(ParseSize(c.data_size)) ELSE Error
        ELSE IF ~ Given(c.total_storage_size) THEN 0
        ELSE IF /\ Parses(c.total_storage_size)
                /\ total > 0
                /\ ShardsValid(c.expected_shards, c.min_shards)
             THEN Quotient(Signed(BackendSize(total, c.expected_shards, c.min_shards)
                                      + GB - 1), GB)
             ELSE Error

\* The size of the file system in bytes: total_storage_size if it is given,
\* otherwise computed from the size of the data backends.
ZdbfsSize(c) ==
    LET backend == Signed(DataSizeGb(c) * GB)
    IN  IF Given(c.total_storage_size)
        THEN IF Parses(c.total_storage_size)
             THEN ParseSize(c.total_storage_size) ELSE Error
        ELSE IF /\ DataSizeGb(c) > 0
                /\ backend > 0
                /\ ShardsValid(c.expected_shards, c.min_shards)
             THEN TotalStorage(backend, c.expected_shards, c.min_shards)
             ELSE Error

\* The smallest segment of 0-db that is accepted; by default it has 64 MB.
ZdbDataSizeValid(c) ==
    \/ ~ Given(c.zdb_data_size)
    \/ Parses(c.zdb_data_size) /\ ParseSize(c.zdb_data_size) >= MB \div 2

\* The checks that precede the sizes of data.
ConfigValid(c) ==
    /\ c.identified
    /\ ZdbDataSizeValid(c)
    /\ Parses(c.meta_size)

\* 1 GB by default.
MetaSizeGb(c) == IF Given(c.meta_size) THEN Gigabytes(ParseSize(c.meta_size)) ELSE 1

NotLoaded == [status |-> "none"]
Refused == [status |-> "refused"]

\* Mutant: a data_size that does not parse is noticed when it is needed.
LoadConfigUnchecked(c) ==
    IF /\ ConfigValid(c)
       /\ DataSizeGb(c) # Error \/ Given(c.total_storage_size)
       /\ ZdbfsSize(c) # Error
    THEN [status |-> "accepted", metaSizeGb |-> MetaSizeGb(c),
          dataSizeGb |-> DataSizeGb(c), zdbfsSize |-> ZdbfsSize(c)]
    ELSE Refused

LoadConfig(c) ==
    IF ConfigValid(c) /\ DataSizeGb(c) # Error /\ ZdbfsSize(c) # Error
    THEN [status |-> "accepted", metaSizeGb |-> MetaSizeGb(c),
          dataSizeGb |-> DataSizeGb(c), zdbfsSize |-> ZdbfsSize(c)]
    ELSE Refused

Init ==
    /\ config \in Configs
    /\ loaded = NotLoaded

Load ==
    /\ loaded = NotLoaded
    /\ loaded' = LoadConfig(config)
    /\ UNCHANGED config

Spec == Init /\ [][Load]_vars

-----------------------------------------------------------------------------
Accepted == loaded.status = "accepted"

BothGiven == Given(config.data_size) /\ Given(config.total_storage_size)

\* What the data backends hold when each file is cut into min_shards shards.
Usable == config.min_shards * (loaded.dataSizeGb * GB)

\* The sizes, with a gigabyte to round up to, are far from wrapping.
Moderate ==
    /\ Asked(config.total_storage_size) + GB <= Half
    /\ Asked(config.data_size) + GB <= Half
    /\ config.min_shards * (Asked(config.data_size) + GB) <= Half

\* What is loaded has its type; a size that is computed may be negative.
TypeOK ==
    /\ config \in Configs
    /\ loaded \in {NotLoaded, Refused}
          \cup [status : {"accepted"}, metaSizeGb : Nat,
                dataSizeGb : (-Half)..Half, zdbfsSize : (-Half)..Word]

\* Nothing larger than asked for is rented or mounted, whatever wraps: the
\* data backends together exceed the total by the rounding to gigabytes only.
\* What is mounted when both sizes are given is left out: total_storage_size
\* then, which config.example.yaml says is ignored.
NeverMoreThanAsked ==
    Accepted =>
        /\ Given(config.data_size) =>
              loaded.dataSizeGb * GB < Asked(config.data_size) + GB
        /\ ~ Given(config.data_size) =>
              Usable < Asked(config.total_storage_size) + config.min_shards * GB
        /\ ~ BothGiven =>
              loaded.zdbfsSize <= IF Given(config.data_size)
                                  THEN Usable
                                  ELSE Asked(config.total_storage_size)

\* A configuration that gives one size has shards that zstor can use, and
\* what is rented is short of what is asked for by less than half; by less
\* than a byte per shard when min_shards divides expected_shards.
ShortfallBounded ==
    Accepted /\ Moderate =>
        /\ Given(config.data_size) =>
              loaded.dataSizeGb * GB >= Asked(config.data_size)
        /\ ~ Given(config.total_storage_size) => loaded.zdbfsSize = Usable
        /\ ~ Given(config.data_size) =>
              /\ 2 * Usable > Asked(config.total_storage_size) - config.expected_shards
              /\ config.expected_shards % config.min_shards = 0 =>
                    Usable > Asked(config.total_storage_size) - config.expected_shards

\* Unless both sizes are given, the shards of an accepted configuration are
\* such that a file can be cut and reconstructed.
ShardsChecked ==
    Accepted /\ ~ BothGiven =>
        0 < config.min_shards /\ config.min_shards <= config.expected_shards

\* The file system that is mounted fits in the data backends.
FitsBackends == Accepted => loaded.zdbfsSize <= Usable
=============================================================================
