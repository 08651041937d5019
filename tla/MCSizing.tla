----------------------------- MODULE MCSizing -------------------------------
(***************************************************************************)
(* Instances of Sizing for TLC: units of 2, integers of 8 bits.            *)
(***************************************************************************)
EXTENDS Sizing

NoNumbers == [num : {0}, unit : {"absent", "blank", "malformed"}]

\* Around every boundary: zero, one, a gigabyte, the sign, the word.
Numbers == {0, 1, 2, 5, 9, 27, 127, 128, 255, 256}
SomeSizes == NoNumbers \cup [num : Numbers, unit : Units]
SegmentSizes == {[num |-> 0, unit |-> "absent"], [num |-> 0, unit |-> "blank"],
                 [num |-> 1, unit |-> "B"], [num |-> 1, unit |-> "M"]}
SomeMetaSizes == {[num |-> 0, unit |-> "absent"], [num |-> 1, unit |-> "malformed"],
                  [num |-> 9, unit |-> "B"]}
SomeShards == {-1, 0, 1, 2, 3, 4, 5}

\* A total in bytes of some gigabytes, and no data_size.
TotalOnly == {[num |-> 0, unit |-> "absent"], [num |-> 40, unit |-> "B"]}
NoSegmentSize == {[num |-> 0, unit |-> "absent"]}
LargeShards == {4, 5}
=============================================================================
