--------------------------- MODULE Services_proofs ---------------------------
(***************************************************************************)
(* Proof that what setup, stop and uninstall report is what they leave     *)
(* behind, for any commands of the operator in any order, any number of    *)
(* failures, and whatever ends, is restarted or boots meanwhile.           *)
(***************************************************************************)
EXTENDS Services, SequenceTheorems, TLAPS

(***************************************************************************)
(* The steps of a command as a set, and their order.                       *)
(***************************************************************************)

\* The elements of a sequence are its head and those of its tail.
LEMMA ToSetTail ==
    ASSUME NEW S, NEW q \in Seq(S), q # <<>>
    PROVE  /\ Head(q) \in S /\ Tail(q) \in Seq(S) /\ Len(Tail(q)) = Len(q) - 1
           /\ ToSet(q) = {Head(q)} \cup ToSet(Tail(q))
<1>1. /\ Head(q) \in S /\ Tail(q) \in Seq(S) /\ Len(Tail(q)) = Len(q) - 1
      /\ \A i \in 1..Len(Tail(q)) : Tail(q)[i] = q[i + 1]
      /\ Len(q) \in Nat /\ Len(q) # 0
      /\ Head(q) = q[1]
  BY HeadTailProperties, LenProperties
<1>2. DOMAIN q = 1..Len(q) /\ DOMAIN Tail(q) = 1..Len(Tail(q))
  BY <1>1
<1>3. ASSUME NEW i \in 1..Len(q) PROVE q[i] \in {Head(q)} \cup ToSet(Tail(q))
  <2>1. CASE i = 1
    BY <1>1, <2>1
  <2>2. CASE i # 1
    <3>1. i - 1 \in 1..Len(Tail(q)) /\ Tail(q)[i - 1] = q[i]
      BY <1>1, <2>2
    <3> QED
      BY <1>2, <3>1 DEF ToSet
  <2> QED
    BY <2>1, <2>2
<1>4. ASSUME NEW i \in 1..Len(Tail(q)) PROVE Tail(q)[i] \in ToSet(q)
  <2>1. i + 1 \in 1..Len(q) /\ Tail(q)[i] = q[i + 1]
    BY <1>1
  <2> QED
    BY <1>2, <2>1 DEF ToSet
<1>5. Head(q) \in ToSet(q)
  BY <1>1, <1>2 DEF ToSet
<1> QED
  BY <1>1, <1>2, <1>3, <1>4, <1>5 DEF ToSet

\* The elements of a concatenation are those of its parts.
LEMMA ToSetConcat ==
    ASSUME NEW S, NEW p \in Seq(S), NEW q \in Seq(S)
    PROVE  /\ p \o q \in Seq(S) /\ Len(p \o q) = Len(p) + Len(q)
           /\ ToSet(p \o q) = ToSet(p) \cup ToSet(q)
<1>1. ToSet(p) = Range(p) /\ ToSet(q) = Range(q) /\ ToSet(p \o q) = Range(p \o q)
  BY DEF ToSet, Range
<1> QED
  BY <1>1, ConcatProperties, RangeConcatenation

\* The empty sequence has none.
LEMMA ToSetEmpty == ToSet(<<>>) = {}
PROOF BY DEF ToSet

\* Steps that are done leave those that follow in order.
LEMMA BeforeTail ==
    ASSUME NEW S, NEW A, NEW B, NEW q \in Seq(S), q # <<>>, Before(A, B, q)
    PROVE  /\ Before(A, B, Tail(q))
           /\ Head(q) \in B => ToSet(Tail(q)) \cap A = {}
<1>1. /\ Len(Tail(q)) = Len(q) - 1 /\ Len(q) \in Nat /\ Len(q) # 0
      /\ \A i \in 1..Len(Tail(q)) : Tail(q)[i] = q[i + 1]
      /\ Head(q) = q[1]
      /\ DOMAIN Tail(q) = 1..Len(Tail(q))
  BY HeadTailProperties, LenProperties
<1>2. \A i \in 1..Len(Tail(q)) : i + 1 \in 1..Len(q) /\ 1 \in 1..Len(q) /\ 1 < i + 1
  BY <1>1
<1>3. Before(A, B, Tail(q))
  BY <1>1, <1>2 DEF Before
<1>4. Head(q) \in B => ToSet(Tail(q)) \cap A = {}
  BY <1>1, <1>2 DEF Before, ToSet
<1> QED
  BY <1>3, <1>4

\* Two parts in order make a whole in order, if the first has none of B or the
\* second none of A.
LEMMA BeforeConcat ==
    ASSUME NEW S, NEW A, NEW B, NEW p \in Seq(S), NEW q \in Seq(S),
           Before(A, B, p), Before(A, B, q),
           ToSet(p) \cap B = {} \/ ToSet(q) \cap A = {}
    PROVE  Before(A, B, p \o q)
<1>1. /\ Len(p) \in Nat /\ Len(q) \in Nat /\ Len(p \o q) = Len(p) + Len(q)
      /\ \A i \in 1..Len(p) + Len(q) :
            (p \o q)[i] = IF i <= Len(p) THEN p[i] ELSE q[i - Len(p)]
      /\ DOMAIN p = 1..Len(p) /\ DOMAIN q = 1..Len(q)
  BY ConcatProperties, LenProperties
<1> SUFFICES ASSUME NEW i \in 1..Len(p) + Len(q), NEW j \in 1..Len(p) + Len(q),
                    i < j, (p \o q)[i] \in B
             PROVE  (p \o q)[j] \notin A
  BY <1>1 DEF Before
<1>2. CASE j <= Len(p)
  BY <1>1, <1>2 DEF Before
<1>3. CASE Len(p) < i
  <2>1. i - Len(p) \in 1..Len(q) /\ j - Len(p) \in 1..Len(q) /\ i - Len(p) < j - Len(p)
    BY <1>1, <1>3
  <2>2. (p \o q)[i] = q[i - Len(p)] /\ (p \o q)[j] = q[j - Len(p)]
    BY <1>1, <1>3
  <2> QED
    BY <2>1, <2>2 DEF Before
<1>4. CASE i <= Len(p) /\ Len(p) < j
  <2>1. i \in 1..Len(p) /\ j - Len(p) \in 1..Len(q)
    BY <1>1, <1>4
  <2>2. (p \o q)[i] = p[i] /\ (p \o q)[j] = q[j - Len(p)]
    BY <1>1, <1>4
  <2>3. (p \o q)[i] \in ToSet(p) /\ (p \o q)[j] \in ToSet(q)
    BY <1>1, <2>1, <2>2 DEF ToSet
  <2> QED
    BY <2>3
<1> QED
  BY <1>1, <1>2, <1>3, <1>4

\* Where there is none of A, or none of B, there is nothing to order.
LEMMA BeforeNone ==
    ASSUME NEW S, NEW A, NEW B, NEW q \in Seq(S),
           ToSet(q) \cap A = {} \/ ToSet(q) \cap B = {}
    PROVE  Before(A, B, q)
PROOF BY DEF Before, ToSet

-----------------------------------------------------------------------------
(***************************************************************************)
(* What the commands consist of.                                           *)
(***************************************************************************)

\* Concatenation, kept opaque: the provers do not instantiate a fact with \o.
Cat(p, q) == p \o q

\* Four sequences, one after the other.
LEMMA FlattenFour ==
    ASSUME NEW a, NEW b, NEW c, NEW d
    PROVE  FlattenSeq(<<a, b, c, d>>) = Cat(Cat(Cat(a, b), c), d)
<1> DEFINE s == <<a, b, c, d>>
           Def(fl) == fl = [i \in 1..Len(s) |-> IF i = 1 THEN s[i] ELSE fl[i - 1] \o s[i]]
           w == [i \in 1..4 |-> IF i = 1 THEN a ELSE IF i = 2 THEN a \o b
                                ELSE IF i = 3 THEN (a \o b) \o c
                                ELSE ((a \o b) \o c) \o d]
           fl == CHOOSE f : Def(f)
<1>1. Len(s) = 4 /\ s[1] = a /\ s[2] = b /\ s[3] = c /\ s[4] = d
  OBVIOUS
<1>2. FlattenSeq(s) = fl[4]
  BY <1>1 DEF FlattenSeq
<1> HIDE DEF s
<1>3. Def(w)
  <2>1. \A i \in 1..4 : w[i] = IF i = 1 THEN s[i] ELSE w[i - 1] \o s[i]
    <3> SUFFICES ASSUME NEW i \in 1..4
                 PROVE  w[i] = IF i = 1 THEN s[i] ELSE w[i - 1] \o s[i]
      OBVIOUS
    <3>1. i = 1 \/ i = 2 \/ i = 3 \/ i = 4
      OBVIOUS
    <3> QED
      BY <1>1, <3>1
  <2> QED
    BY <1>1, <2>1
<1>4. Def(fl)
  BY <1>3
<1> HIDE DEF fl
<1>5. \A i \in 1..4 : fl[i] = IF i = 1 THEN s[i] ELSE Cat(fl[i - 1], s[i])
  BY <1>1, <1>4 DEF Cat
<1>6. fl[1] = a /\ fl[2] = Cat(fl[1], b) /\ fl[3] = Cat(fl[2], c) /\ fl[4] = Cat(fl[3], d)
  <2>1. 1 \in 1..4 /\ 2 \in 1..4 /\ 3 \in 1..4 /\ 4 \in 1..4
    OBVIOUS
  <2>2. fl[1] = s[1] /\ fl[2] = Cat(fl[2 - 1], s[2])
    BY <1>5, <2>1
  <2>3. fl[3] = Cat(fl[3 - 1], s[3]) /\ fl[4] = Cat(fl[4 - 1], s[4])
    BY <1>5, <2>1
  <2> QED
    BY <1>1, <2>2, <2>3
<1> QED
  BY <1>2, <1>6 DEF s

\* Four elements, one after the other.
LEMMA ConcatFour ==
    ASSUME NEW a, NEW b, NEW c, NEW d
    PROVE  Cat(Cat(Cat(<<a>>, <<b>>), <<c>>), <<d>>) = <<a, b, c, d>>
<1> DEFINE S == {a, b, c, d}
<1>1. /\ <<a>> \in Seq(S) /\ <<b>> \in Seq(S) /\ <<c>> \in Seq(S) /\ <<d>> \in Seq(S)
      /\ Len(<<a>>) = 1 /\ Len(<<b>>) = 1 /\ Len(<<c>>) = 1 /\ Len(<<d>>) = 1
  OBVIOUS
<1>2. <<a>> \o <<b>> = <<a, b>>
  <2>1. <<a>> \o <<b>> \in Seq(S) /\ Len(<<a>> \o <<b>>) = 2
    BY <1>1, ConcatProperties
  <2>2. (<<a>> \o <<b>>)[1] = a /\ (<<a>> \o <<b>>)[2] = b
    BY <1>1, ConcatProperties
  <2>3. <<a, b>> \in Seq(S) /\ Len(<<a, b>>) = 2
    OBVIOUS
  <2>4. \A i \in 1..2 : (<<a>> \o <<b>>)[i] = <<a, b>>[i]
    BY <2>2
  <2> QED
    BY <2>1, <2>3, <2>4, SeqEqual
<1>3. <<a, b>> \o <<c>> = <<a, b, c>>
  <2>3. <<a, b>> \in Seq(S) /\ Len(<<a, b>>) = 2
        /\ <<a, b, c>> \in Seq(S) /\ Len(<<a, b, c>>) = 3
    OBVIOUS
  <2>1. <<a, b>> \o <<c>> \in Seq(S) /\ Len(<<a, b>> \o <<c>>) = 3
    BY <1>1, <2>3, ConcatProperties
  <2>2. \A i \in 1..3 : (<<a, b>> \o <<c>>)[i] = <<a, b, c>>[i]
    BY <1>1, <2>3, ConcatProperties
  <2> QED
    BY <2>1, <2>3, <2>2, SeqEqual
<1>4. <<a, b, c>> \o <<d>> = <<a, b, c, d>>
  <2>3. <<a, b, c>> \in Seq(S) /\ Len(<<a, b, c>>) = 3
        /\ <<a, b, c, d>> \in Seq(S) /\ Len(<<a, b, c, d>>) = 4
    OBVIOUS
  <2>1. <<a, b, c>> \o <<d>> \in Seq(S) /\ Len(<<a, b, c>> \o <<d>>) = 4
    BY <1>1, <2>3, ConcatProperties
  <2>2. \A i \in 1..4 : (<<a, b, c>> \o <<d>>)[i] = <<a, b, c, d>>[i]
    BY <1>1, <2>3, ConcatProperties
  <2> QED
    BY <2>1, <2>3, <2>2, SeqEqual
<1> QED
  BY <1>2, <1>3, <1>4 DEF Cat

\* A step for each service, in order.
LEMMA ForEachService ==
    ASSUME NEW x
    PROVE  ForEach(ManagedServices, <<x>>)
              = << <<x, "zdb">>, <<x, "zstor">>, <<x, "zdbfs">>, <<x, "quantumd">> >>
<1> DEFINE Row(i) == [j \in 1..Len(<<x>>) |-> << <<x>>[j], ManagedServices[i]>>]
<1>1. [i \in 1..Len(ManagedServices) |-> Row(i)] = <<Row(1), Row(2), Row(3), Row(4)>>
  BY DEF ManagedServices
<1>2. /\ Row(1) = << <<x, "zdb">> >> /\ Row(2) = << <<x, "zstor">> >>
      /\ Row(3) = << <<x, "zdbfs">> >> /\ Row(4) = << <<x, "quantumd">> >>
  BY DEF ManagedServices
<1>3. ForEach(ManagedServices, <<x>>) = FlattenSeq([i \in 1..Len(ManagedServices) |-> Row(i)])
  BY DEF ForEach
<1>4. ForEach(ManagedServices, <<x>>) = FlattenSeq(<<Row(1), Row(2), Row(3), Row(4)>>)
  BY <1>1, <1>3, Zenon
<1> HIDE DEF Row
<1>5. ForEach(ManagedServices, <<x>>) = Cat(Cat(Cat(Row(1), Row(2)), Row(3)), Row(4))
  BY <1>4, FlattenFour
<1> QED
  BY <1>2, <1>5, ConcatFour

\* Two steps for each service.
LEMMA ForEachTwo ==
    ASSUME NEW x, NEW y
    PROVE  ForEach(ManagedServices, <<x, y>>)
              = Cat(Cat(Cat(<< <<x, "zdb">>, <<y, "zdb">> >>,
                            << <<x, "zstor">>, <<y, "zstor">> >>),
                        << <<x, "zdbfs">>, <<y, "zdbfs">> >>),
                    << <<x, "quantumd">>, <<y, "quantumd">> >>)
<1> DEFINE Row(i) == [j \in 1..Len(<<x, y>>) |-> << <<x, y>>[j], ManagedServices[i]>>]
<1>1. [i \in 1..Len(ManagedServices) |-> Row(i)] = <<Row(1), Row(2), Row(3), Row(4)>>
  BY DEF ManagedServices
<1>2. /\ Row(1) = << <<x, "zdb">>, <<y, "zdb">> >>
      /\ Row(2) = << <<x, "zstor">>, <<y, "zstor">> >>
      /\ Row(3) = << <<x, "zdbfs">>, <<y, "zdbfs">> >>
      /\ Row(4) = << <<x, "quantumd">>, <<y, "quantumd">> >>
  BY DEF ManagedServices
<1>3. ForEach(ManagedServices, <<x, y>>)
        = FlattenSeq([i \in 1..Len(ManagedServices) |-> Row(i)])
  BY DEF ForEach
<1>4. ForEach(ManagedServices, <<x, y>>) = FlattenSeq(<<Row(1), Row(2), Row(3), Row(4)>>)
  BY <1>1, <1>3, Zenon
<1> HIDE DEF Row
<1>5. ForEach(ManagedServices, <<x, y>>) = Cat(Cat(Cat(Row(1), Row(2)), Row(3)), Row(4))
  BY <1>4, FlattenFour
<1> QED
  BY <1>2, <1>5

\* The steps of one kind: one for each service, the daemon's last.
LEMMA OneEach ==
    ASSUME NEW x, NEW S, \A s \in Service : <<x, s>> \in S
    PROVE  LET q == ForEach(ManagedServices, <<x>>)
           IN  /\ q \in Seq(S) /\ Len(q) = 4
               /\ ToSet(q) = {x} \X Service
               /\ Before({<<x, "zdb">>}, {<<x, "quantumd">>}, q)
<1> DEFINE a == <<x, "zdb">>
           b == <<x, "zstor">>
           c == <<x, "zdbfs">>
           d == <<x, "quantumd">>
           q == <<a, b, c, d>>
<1>1. ForEach(ManagedServices, <<x>>) = q
  BY ForEachService
<1>2. a \in S /\ b \in S /\ c \in S /\ d \in S /\ a # d
  BY DEF Service
<1>3. {a, b, c, d} = {x} \X Service
  BY DEF Service
<1> HIDE DEF a, b, c, d
<1>4. q \in Seq(S) /\ Len(q) = 4
  BY <1>2
<1>5. ToSet(q) = {a, b, c, d}
  BY DEF ToSet
<1>6. Before({a}, {d}, q)
  <2> SUFFICES ASSUME NEW i \in 1..4, NEW j \in 1..4, i < j, q[i] \in {d} PROVE q[j] \notin {a}
    BY <1>4 DEF Before
  <2>1. j # 1
    OBVIOUS
  <2>2. q[j] = a => b = a \/ c = a \/ d = a \/ j = 1
    OBVIOUS
  <2>3. a # b /\ a # c /\ a # d
    BY DEF a, b, c, d
  <2> QED
    BY <2>1, <2>2, <2>3
<1> QED
  BY <1>1, <1>3, <1>4, <1>5, <1>6 DEF a, d

\* The steps of two kinds.
LEMMA TwoEach ==
    ASSUME NEW x, NEW y, NEW S, \A s \in Service : <<x, s>> \in S /\ <<y, s>> \in S
    PROVE  LET q == ForEach(ManagedServices, <<x, y>>)
           IN  q \in Seq(S) /\ ToSet(q) = {x, y} \X Service
<1> DEFINE Row(s) == << <<x, s>>, <<y, s>> >>
<1>1. ForEach(ManagedServices, <<x, y>>)
        = Cat(Cat(Cat(Row("zdb"), Row("zstor")), Row("zdbfs")), Row("quantumd"))
  BY ForEachTwo
<1>2. \A s \in Service : Row(s) \in Seq(S) /\ ToSet(Row(s)) = {<<x, s>>, <<y, s>>}
  <2> SUFFICES ASSUME NEW s \in Service
               PROVE  Row(s) \in Seq(S) /\ ToSet(Row(s)) = {<<x, s>>, <<y, s>>}
    OBVIOUS
  <2> DEFINE u == <<x, s>>
             v == <<y, s>>
  <2>1. u \in S /\ v \in S
    OBVIOUS
  <2> HIDE DEF u, v
  <2>2. <<u, v>> \in Seq(S) /\ ToSet(<<u, v>>) = {u, v}
    BY <2>1 DEF ToSet
  <2> QED
    BY <2>2 DEF u, v
<1> HIDE DEF Row
<1> DEFINE p == Cat(Row("zdb"), Row("zstor"))
           q == Cat(p, Row("zdbfs"))
           r == Cat(q, Row("quantumd"))
<1>3. p \in Seq(S) /\ ToSet(p) = {<<x, "zdb">>, <<y, "zdb">>} \cup {<<x, "zstor">>, <<y, "zstor">>}
  BY <1>2, ToSetConcat DEF Cat, Service
<1> HIDE DEF p
<1>4. q \in Seq(S) /\ ToSet(q) = ToSet(p) \cup {<<x, "zdbfs">>, <<y, "zdbfs">>}
  BY <1>2, <1>3, ToSetConcat DEF Cat, Service
<1> HIDE DEF q
<1>5. r \in Seq(S) /\ ToSet(r) = ToSet(q) \cup {<<x, "quantumd">>, <<y, "quantumd">>}
  BY <1>2, <1>4, ToSetConcat DEF Cat, Service
<1>6. ToSet(r) = {x, y} \X Service
  BY <1>3, <1>4, <1>5 DEF Service
<1> QED
  BY <1>1, <1>5, <1>6 DEF p, q

\* One step that is about no service.
LEMMA OneForAll ==
    ASSUME NEW x, <<x, "all">> \in Steps
    PROVE  LET q == << <<x, "all">> >>
           IN  q \in Seq(Steps) /\ Len(q) = 1 /\ ToSet(q) = {<<x, "all">>}
<1> DEFINE a == <<x, "all">>
<1>1. a \in Steps
  OBVIOUS
<1> HIDE DEF a
<1>2. <<a>> \in Seq(Steps) /\ Len(<<a>>) = 1 /\ ToSet(<<a>>) = {a}
  BY <1>1 DEF ToSet
<1> QED
  BY <1>2 DEF a

\* Setup prepares, writes the units, reloads, and enables and starts.
LEMMA SetupProgram ==
    ASSUME NEW s
    PROVE  /\ Program("setup", s) \in Seq(Steps)
           /\ ToSet(Program("setup", s))
                 = {<<"prepare", "all">>, <<"reload", "all">>}
                   \cup ({"write", "enable", "start"} \X Service)
<1> DEFINE p == << <<"prepare", "all">> >>
           w == ForEach(ManagedServices, <<"write">>)
           r == << <<"reload", "all">> >>
           e == ForEach(ManagedServices, <<"enable", "start">>)
<1>1. Program("setup", s) = Cat(Cat(Cat(p, w), r), e)
  BY DEF Program, StartOrder, Cat
<1>2. p \in Seq(Steps) /\ ToSet(p) = {<<"prepare", "all">>}
  BY OneForAll DEF Steps
<1>3. w \in Seq(Steps) /\ ToSet(w) = {"write"} \X Service
  <2>1. \A t \in Service : <<"write", t>> \in Steps
    BY DEF Steps
  <2> QED
    BY <2>1, OneEach
<1>4. r \in Seq(Steps) /\ ToSet(r) = {<<"reload", "all">>}
  BY OneForAll DEF Steps
<1>5. e \in Seq(Steps) /\ ToSet(e) = {"enable", "start"} \X Service
  BY TwoEach DEF Steps
<1> HIDE DEF p, w, r, e
<1>6. Cat(p, w) \in Seq(Steps) /\ ToSet(Cat(p, w)) = ToSet(p) \cup ToSet(w)
  BY <1>2, <1>3, ToSetConcat DEF Cat
<1>7. /\ Cat(Cat(p, w), r) \in Seq(Steps)
      /\ ToSet(Cat(Cat(p, w), r)) = ToSet(p) \cup ToSet(w) \cup ToSet(r)
  <2> DEFINE pw == Cat(p, w)
  <2>1. pw \in Seq(Steps) /\ ToSet(pw) = ToSet(p) \cup ToSet(w)
    BY <1>6
  <2> HIDE DEF pw
  <2>2. Cat(pw, r) \in Seq(Steps) /\ ToSet(Cat(pw, r)) = ToSet(pw) \cup ToSet(r)
    BY <1>4, <2>1, ToSetConcat DEF Cat
  <2> QED
    BY <2>1, <2>2 DEF pw
<1>8. /\ Cat(Cat(Cat(p, w), r), e) \in Seq(Steps)
      /\ ToSet(Cat(Cat(Cat(p, w), r), e))
            = ToSet(p) \cup ToSet(w) \cup ToSet(r) \cup ToSet(e)
  <2> DEFINE pwr == Cat(Cat(p, w), r)
  <2>1. pwr \in Seq(Steps) /\ ToSet(pwr) = ToSet(p) \cup ToSet(w) \cup ToSet(r)
    BY <1>7
  <2> HIDE DEF pwr
  <2>2. Cat(pwr, e) \in Seq(Steps) /\ ToSet(Cat(pwr, e)) = ToSet(pwr) \cup ToSet(e)
    BY <1>5, <2>1, ToSetConcat DEF Cat
  <2> QED
    BY <2>1, <2>2 DEF pwr
<1>9. ToSet(p) \cup ToSet(w) \cup ToSet(r) \cup ToSet(e)
        = {<<"prepare", "all">>, <<"reload", "all">>}
          \cup ({"write", "enable", "start"} \X Service)
  BY <1>2, <1>3, <1>4, <1>5
<1> QED
  BY <1>1, <1>8, <1>9

\* Uninstallation dismantles the services, zdb first and quantumd last, before
\* it removes any of them.
LEMMA UninstallProgram ==
    ASSUME NEW s
    PROVE  LET q == Program("uninstall", s)
           IN  /\ q \in Seq(Steps)
               /\ ToSet(q) = {<<"reload", "all">>, <<"remove-binaries", "all">>}
                             \cup ({"exists", "remove"} \X Service)
               /\ Before(Dismantles, Removes, q)
               /\ Before(Stops("zdb"), {<<"exists", "quantumd">>}, q)
<1> DEFINE x == ForEach(ManagedServices, <<"exists">>)
           l == << <<"reload", "all">> >>
           r == ForEach(ManagedServices, <<"remove">>)
           b == << <<"remove-binaries", "all">> >>
           A == Stops("zdb")
           B == {<<"exists", "quantumd">>}
<1>1. Program("uninstall", s) = Cat(Cat(Cat(x, l), r), b)
  BY DEF Program, UninstallOrder, Cat
<1>2. /\ x \in Seq(Steps) /\ ToSet(x) = {"exists"} \X Service
      /\ Before({<<"exists", "zdb">>}, B, x)
  <2>1. \A t \in Service : <<"exists", t>> \in Steps
    BY DEF Steps
  <2> QED
    BY <2>1, OneEach
<1>3. l \in Seq(Steps) /\ ToSet(l) = {<<"reload", "all">>}
  BY OneForAll DEF Steps
<1>4. r \in Seq(Steps) /\ ToSet(r) = {"remove"} \X Service
  <2>1. \A t \in Service : <<"remove", t>> \in Steps
    BY DEF Steps
  <2> QED
    BY <2>1, OneEach
<1>5. b \in Seq(Steps) /\ ToSet(b) = {<<"remove-binaries", "all">>}
  BY OneForAll DEF Steps
<1>6. Before(A, B, x)
  <2>1. ASSUME NEW i \in 1..Len(x) PROVE x[i] # <<"stop", "zdb">>
    BY <1>2 DEF ToSet
  <2> QED
    BY <1>2, <2>1 DEF Before, Stops
<1> HIDE DEF x, l, r, b
<1> DEFINE xl == Cat(x, l)
           xlr == Cat(xl, r)
           xlrb == Cat(xlr, b)
<1>7. /\ xl \in Seq(Steps) /\ ToSet(xl) = ToSet(x) \cup ToSet(l)
      /\ Before(Dismantles, Removes, xl) /\ Before(A, B, xl)
  <2>1. xl \in Seq(Steps) /\ ToSet(xl) = ToSet(x) \cup ToSet(l)
    BY <1>2, <1>3, ToSetConcat DEF Cat
  <2>2. ToSet(xl) \cap Removes = {} /\ ToSet(l) \cap A = {}
    BY <1>2, <1>3, <2>1 DEF Removes, Stops
  <2>3. Before(Dismantles, Removes, xl)
    BY <2>1, <2>2, BeforeNone
  <2>4. Before(A, B, l)
    BY <1>3, <2>2, BeforeNone
  <2>5. Before(A, B, Cat(x, l))
    BY <1>2, <1>3, <1>6, <2>2, <2>4, BeforeConcat DEF Cat
  <2> QED
    BY <2>1, <2>3, <2>5
<1> HIDE DEF xl
<1>8. /\ xlr \in Seq(Steps) /\ ToSet(xlr) = ToSet(x) \cup ToSet(l) \cup ToSet(r)
      /\ Before(Dismantles, Removes, xlr) /\ Before(A, B, xlr)
  <2>1. xlr \in Seq(Steps) /\ ToSet(xlr) = ToSet(x) \cup ToSet(l) \cup ToSet(r)
    BY <1>4, <1>7, ToSetConcat DEF Cat
  <2>2. ToSet(r) \cap Dismantles = {} /\ ToSet(r) \cap A = {}
    BY <1>4 DEF Dismantles, Stops, Disables
  <2>3. Before(Dismantles, Removes, r) /\ Before(A, B, r)
    BY <1>4, <2>2, BeforeNone
  <2> QED
    BY <1>4, <1>7, <2>1, <2>2, <2>3, BeforeConcat DEF Cat
<1> HIDE DEF xlr
<1>9. /\ xlrb \in Seq(Steps)
      /\ ToSet(xlrb) = ToSet(x) \cup ToSet(l) \cup ToSet(r) \cup ToSet(b)
      /\ Before(Dismantles, Removes, xlrb) /\ Before(A, B, xlrb)
  <2>1. xlrb \in Seq(Steps) /\ ToSet(xlrb) = ToSet(x) \cup ToSet(l) \cup ToSet(r) \cup ToSet(b)
    BY <1>5, <1>8, ToSetConcat DEF Cat
  <2>2. ToSet(b) \cap Dismantles = {} /\ ToSet(b) \cap A = {}
    BY <1>5 DEF Dismantles, Stops, Disables
  <2>3. Before(Dismantles, Removes, b) /\ Before(A, B, b)
    BY <1>5, <2>2, BeforeNone
  <2> QED
    BY <1>5, <1>8, <2>1, <2>2, <2>3, BeforeConcat DEF Cat
<1>10. ToSet(x) \cup ToSet(l) \cup ToSet(r) \cup ToSet(b)
         = {<<"reload", "all">>, <<"remove-binaries", "all">>}
           \cup ({"exists", "remove"} \X Service)
  BY <1>2, <1>3, <1>4, <1>5
<1> QED
  BY <1>1, <1>9, <1>10 DEF xl, xlr

\* The commands about one service.
LEMMA OneProgram ==
    ASSUME NEW s \in Service, NEW x \in {"start", "is-active"},
           NEW q, q = << <<x, s>> >>
    PROVE  q \in Seq(Steps) /\ Len(q) = 1 /\ ToSet(q) = {<<x, s>>}
<1> DEFINE a == <<x, s>>
<1>1. a \in Steps
  BY DEF Steps
<1> HIDE DEF a
<1>2. <<a>> \in Seq(Steps) /\ Len(<<a>>) = 1 /\ ToSet(<<a>>) = {a}
  BY <1>1 DEF ToSet
<1> QED
  BY <1>2 DEF a

\* Those about all services.
LEMMA AllProgram ==
    ASSUME NEW x \in {"start", "is-active"},
           NEW q, q = ForEach(ManagedServices, <<x>>)
    PROVE  q \in Seq(Steps) /\ Len(q) = 4 /\ ToSet(q) = {x} \X Service
<1>1. \A t \in Service : <<x, t>> \in Steps
  BY DEF Steps
<1> QED
  BY <1>1, OneEach

\* What the four commands that start or stop consist of.
LEMMA StartPrograms ==
    ASSUME NEW s
    PROVE  /\ Program("start", s) = << <<"start", s>> >>
           /\ Program("start-all", s) = ForEach(ManagedServices, <<"start">>)
           /\ Program("stop", s) = << <<"is-active", s>> >>
           /\ Program("stop-all", s) = ForEach(ManagedServices, <<"is-active">>)
PROOF BY DEF Program, StartOrder, StopOrder

-----------------------------------------------------------------------------
(***************************************************************************)
(* A command begins.                                                       *)
(***************************************************************************)

CmdType ==
    [op : Operations \cup {"none"}, todo : Seq(Steps),
     failures : 0..(MaxFailures + Len(ManagedServices)),
     aborted : BOOLEAN, disturbed : BOOLEAN, orphans : BOOLEAN]

ServiceTypeOK ==
    /\ unit \subseteq Service /\ enabled \subseteq Service
    /\ state \in [Service -> {"stopped", "running", "waiting"}]
    /\ binaries \subseteq Installed

\* The type invariant is that of the services and of the command.
LEMMA TypeParts == ServicesTypeOK <=> ServiceTypeOK /\ cmd \in CmdType
PROOF BY DEF ServicesTypeOK, ServiceTypeOK, CmdType

\* The bound on failures is a number.
LEMMA Bounds == MaxFailures \in Nat /\ Len(ManagedServices) = 4
PROOF BY ServicesAssumption DEF ManagedServices

\* No command has nothing left, and owes nothing.
LEMMA NoCommandInv == ServiceTypeOK /\ cmd = NoCommand => ServicesInv
<1> SUFFICES ASSUME ServiceTypeOK, cmd = NoCommand PROVE ServicesInv
  OBVIOUS
<1>1. /\ cmd.op = "none" /\ cmd.todo = <<>> /\ cmd.failures = 0
      /\ cmd.aborted = FALSE /\ cmd.disturbed = FALSE /\ cmd.orphans = FALSE
  BY DEF NoCommand
<1>2. cmd \in CmdType
  BY Bounds DEF NoCommand, CmdType
<1>3. Left = {}
  BY <1>1, ToSetEmpty DEF Left
<1>4. CommandFits
  BY <1>1, <1>3, Bounds DEF CommandFits
<1>5. SetupProgress /\ StopProgress /\ UninstallOrdered /\ UninstallProgress
  BY <1>1 DEF SetupProgress, StopProgress, UninstallOrdered, UninstallProgress
<1> QED
  BY <1>2, <1>4, <1>5, TypeParts DEF ServicesInv

\* There is no command to begin with.
LEMMA InitInv == Init => ServicesInv
PROOF BY NoCommandInv DEF Init, ServiceTypeOK

\* What a command that begins may say of itself.
LEMMA BeginCommand ==
    ASSUME NEW op \in Operations, NEW s \in Service, Begin(op, s)
    PROVE  /\ cmd' = [op |-> op, todo |-> Program(op, s), failures |-> 0,
                      aborted |-> FALSE, disturbed |-> cmd'.disturbed,
                      orphans |-> cmd'.orphans]
           /\ cmd'.disturbed \in BOOLEAN /\ cmd'.orphans \in BOOLEAN
           /\ ~ cmd'.disturbed => \A t \in Service : state[t] # "waiting"
           /\ ~ cmd'.orphans =>
                 \A t \in Service \ unit : t \notin enabled /\ state[t] = "stopped"
<1> DEFINE d == \E t \in Service : state[t] = "waiting"
           o == \E t \in Service \ unit : t \in enabled \/ state[t] # "stopped"
           p == Program(op, s)
<1>1. cmd' = [NoCommand EXCEPT !.op = op, !.todo = p, !.disturbed = d, !.orphans = o]
  BY DEF Begin
<1>2. d \in BOOLEAN /\ o \in BOOLEAN
  OBVIOUS
<1> HIDE DEF d, o, p
<1>3. cmd' = [op |-> op, todo |-> p, failures |-> 0, aborted |-> FALSE,
              disturbed |-> d, orphans |-> o]
  BY <1>1 DEF NoCommand
<1>4. cmd'.disturbed = d /\ cmd'.orphans = o
  BY <1>3
<1>5. cmd' = [op |-> op, todo |-> p, failures |-> 0, aborted |-> FALSE,
              disturbed |-> cmd'.disturbed, orphans |-> cmd'.orphans]
  BY <1>3, <1>4
<1> QED
  BY <1>2, <1>4, <1>5 DEF d, o, p

\* What is left of a command that begins are the steps of its program.
LEMMA BeginInv ==
    ASSUME ServicesInv, NEW op \in Operations, NEW s \in Service, Begin(op, s)
    PROVE  ServicesInv'
<1> DEFINE p == Program(op, s)
<1>1. /\ cmd'.op = op /\ cmd'.todo = p /\ cmd'.failures = 0 /\ ~ cmd'.aborted
      /\ Left' = ToSet(p)
      /\ ~ cmd'.disturbed => \A t \in Service : state[t] # "waiting"
      /\ ~ cmd'.orphans =>
            \A t \in Service \ unit : t \notin enabled /\ state[t] = "stopped"
  BY BeginCommand DEF Left
<1>2. UNCHANGED <<unit, enabled, state, binaries>>
  BY DEF Begin
<1>3. /\ ServiceTypeOK
      /\ op \in {"setup", "start", "start-all", "stop", "stop-all", "uninstall"}
  BY ServicesAssumption, TypeParts DEF ServicesInv
<1>4. ServiceTypeOK'
  BY <1>2, <1>3 DEF ServiceTypeOK
<1> DEFINE Goal == /\ p \in Seq(Steps) /\ CommandFits' /\ SetupProgress' /\ StopProgress'
                   /\ UninstallOrdered' /\ UninstallProgress'
<1>5. ASSUME op = "setup" PROVE Goal
  <2>1. /\ p \in Seq(Steps)
        /\ ToSet(p) = {<<"prepare", "all">>, <<"reload", "all">>}
                      \cup ({"write", "enable", "start"} \X Service)
    BY <1>5, SetupProgram
  <2>2. CommandFits'
    BY <1>1, <1>5, <2>1, Bounds DEF CommandFits, Kinds
  <2>3. SetupProgress'
    BY <1>1, <1>5, <2>1 DEF SetupProgress
  <2> QED
    BY <1>1, <1>5, <2>1, <2>2, <2>3 DEF StopProgress, UninstallOrdered, UninstallProgress
<1>6. ASSUME op = "uninstall" PROVE Goal
  <2>1. /\ p \in Seq(Steps)
        /\ ToSet(p) = {<<"reload", "all">>, <<"remove-binaries", "all">>}
                      \cup ({"exists", "remove"} \X Service)
        /\ Before(Dismantles, Removes, p)
        /\ Before(Stops("zdb"), {<<"exists", "quantumd">>}, p)
    BY <1>6, UninstallProgram
  <2>2. CommandFits'
    BY <1>1, <1>6, <2>1, Bounds DEF CommandFits, Kinds
  <2>3. UninstallOrdered'
    BY <1>1, <1>6, <2>1 DEF UninstallOrdered
  <2>4. UninstallProgress'
    <3> SUFFICES ASSUME ~ cmd'.orphans
                 PROVE  /\ <<"remove-binaries", "all">> \in Left'
                        /\ <<"exists", "quantumd">> \in Left'
                        /\ \A t \in Service :
                              /\ <<"remove", t>> \in Left'
                              /\ Disables(t) \cap Left' # {}
                              /\ Stops(t) \cap Left' # {}
                              /\ t \notin unit' => t \notin enabled' /\ state'[t] = "stopped"
      BY DEF UninstallProgress
    <3>1. \A t \in Service : <<"exists", t>> \in Left' /\ <<"remove", t>> \in Left'
      BY <1>1, <2>1
    <3>2. \A t \in Service : Disables(t) \cap Left' # {} /\ Stops(t) \cap Left' # {}
      BY <3>1 DEF Disables, Stops
    <3> QED
      BY <1>1, <1>2, <2>1, <3>1, <3>2 DEF Service
  <2> QED
    BY <1>1, <1>6, <2>1, <2>2, <2>3, <2>4 DEF SetupProgress, StopProgress
<1>7. ASSUME op \in {"start", "start-all"} PROVE Goal
  <2>1. p \in Seq(Steps) /\ Len(p) <= 4 /\ Len(p) \in Nat /\ ToSet(p) \subseteq {"start"} \X Service
    <3>1. CASE op = "start"
      <4>1. p = << <<"start", s>> >>
        BY <3>1, StartPrograms
      <4>2. p \in Seq(Steps) /\ Len(p) = 1 /\ ToSet(p) = {<<"start", s>>}
        BY <4>1, OneProgram
      <4> QED
        BY <4>2
    <3>2. CASE op = "start-all"
      <4>1. p = ForEach(ManagedServices, <<"start">>)
        BY <3>2, StartPrograms
      <4>2. p \in Seq(Steps) /\ Len(p) = 4 /\ ToSet(p) = {"start"} \X Service
        BY <4>1, AllProgram
      <4> QED
        BY <4>2
    <3> QED
      BY <1>7, <3>1, <3>2
  <2>2. CommandFits'
    BY <1>1, <1>7, <2>1, Bounds DEF CommandFits, Kinds
  <2> QED
    BY <1>1, <1>7, <2>1, <2>2
       DEF SetupProgress, StopProgress, UninstallOrdered, UninstallProgress
<1>8. ASSUME op \in {"stop", "stop-all"} PROVE Goal
  <2>1. /\ p \in Seq(Steps) /\ ToSet(p) \subseteq {"is-active"} \X Service
        /\ op = "stop-all" => ToSet(p) = {"is-active"} \X Service
    BY <1>8, StartPrograms, OneProgram, AllProgram
  <2>2. CommandFits'
    BY <1>1, <1>8, <2>1, Bounds DEF CommandFits, Kinds
  <2>3. StopProgress'
    BY <1>1, <1>2, <1>8, <2>1 DEF StopProgress
  <2> QED
    BY <1>1, <1>8, <2>1, <2>2, <2>3 DEF SetupProgress, UninstallOrdered, UninstallProgress
<1>9. Goal
  BY <1>3, <1>5, <1>6, <1>7, <1>8
<1>10. cmd' \in CmdType
  <2> DEFINE d == cmd'.disturbed
             o == cmd'.orphans
  <2>1. /\ cmd' = [op |-> op, todo |-> p, failures |-> 0, aborted |-> FALSE,
                   disturbed |-> d, orphans |-> o]
        /\ d \in BOOLEAN /\ o \in BOOLEAN /\ p \in Seq(Steps)
    BY <1>9, BeginCommand
  <2> HIDE DEF d, o, p
  <2> QED
    BY <2>1, Bounds DEF CmdType
<1> QED
  BY <1>4, <1>9, <1>10, TypeParts DEF ServicesInv, ServicesTypeOK, ServiceTypeOK, CmdType

-----------------------------------------------------------------------------
(***************************************************************************)
(* A step is done, or fails.                                               *)
(***************************************************************************)

\* What is left after the step that is executed.
Rest == ToSet(Tail(cmd.todo))

SameCommand ==
    /\ cmd'.op = cmd.op /\ cmd'.failures = cmd.failures
    /\ cmd'.aborted = cmd.aborted /\ cmd'.disturbed = cmd.disturbed
    /\ cmd'.orphans = cmd.orphans

\* The step that is executed is of the command, and in its order.
LEMMA HeadStep ==
    ASSUME ServicesInv, NEW k, NEW s, At(k, s)
    PROVE  /\ cmd \in CmdType /\ ~ cmd.aborted
           /\ cmd.todo \in Seq(Steps) /\ Tail(cmd.todo) \in Seq(Steps)
           /\ Len(cmd.todo) \in Nat /\ Len(Tail(cmd.todo)) = Len(cmd.todo) - 1
           /\ k \in Kinds(cmd.op)
           /\ Left = {<<k, s>>} \cup Rest
           /\ Left \subseteq Kinds(cmd.op) \X (Service \cup {"all"})
           /\ cmd.op = "uninstall" =>
                 /\ Before(Dismantles, Removes, Tail(cmd.todo))
                 /\ Before(Stops("zdb"), {<<"exists", "quantumd">>}, Tail(cmd.todo))
                 /\ <<k, s>> \in Removes => Rest \cap Dismantles = {}
                 /\ <<k, s>> = <<"exists", "quantumd">> => Rest \cap Stops("zdb") = {}
<1> DEFINE q == cmd.todo
<1>1. cmd \in CmdType /\ q \in Seq(Steps) /\ q # <<>> /\ Head(q) = <<k, s>>
  BY TypeParts DEF ServicesInv, At, CmdType
<1>2. ~ cmd.aborted
  BY <1>1 DEF ServicesInv, CommandFits
<1>3. /\ Tail(q) \in Seq(Steps) /\ Len(Tail(q)) = Len(q) - 1
      /\ ToSet(q) = {<<k, s>>} \cup ToSet(Tail(q))
  BY <1>1, ToSetTail
<1>4. Left = {<<k, s>>} \cup Rest /\ Left \subseteq Kinds(cmd.op) \X (Service \cup {"all"})
  BY <1>3 DEF Left, Rest, ServicesInv, CommandFits
<1>5. <<k, s>> \in Kinds(cmd.op) \X (Service \cup {"all"})
  BY <1>4
<1>6. k \in Kinds(cmd.op)
  BY <1>5
<1>7. ASSUME cmd.op = "uninstall"
      PROVE  /\ Before(Dismantles, Removes, Tail(q))
             /\ <<k, s>> \in Removes => Rest \cap Dismantles = {}
             /\ Before(Stops("zdb"), {<<"exists", "quantumd">>}, Tail(q))
             /\ <<k, s>> = <<"exists", "quantumd">> => Rest \cap Stops("zdb") = {}
  <2>1. Before(Dismantles, Removes, q) /\ Before(Stops("zdb"), {<<"exists", "quantumd">>}, q)
    BY <1>7 DEF ServicesInv, UninstallOrdered
  <2> HIDE DEF q
  <2>2. /\ Before(Dismantles, Removes, Tail(q))
        /\ Head(q) \in Removes => ToSet(Tail(q)) \cap Dismantles = {}
    BY <1>1, <2>1, BeforeTail
  <2>3. /\ Before(Stops("zdb"), {<<"exists", "quantumd">>}, Tail(q))
        /\ Head(q) \in {<<"exists", "quantumd">>} => ToSet(Tail(q)) \cap Stops("zdb") = {}
    BY <1>1, <2>1, BeforeTail
  <2> QED
    BY <1>1, <2>2, <2>3 DEF Rest, q
<1> QED
  BY <1>1, <1>2, <1>3, <1>4, <1>6, <1>7, LenProperties

\* The record of the command after a step that is done.
LEMMA ThenFields ==
    ASSUME cmd \in CmdType, NEW p, Then(p), p \o Tail(cmd.todo) \in Seq(Steps)
    PROVE  SameCommand /\ cmd'.todo = p \o Tail(cmd.todo) /\ cmd' \in CmdType
<1> DEFINE q == p \o Tail(cmd.todo)
<1>1. cmd' = [cmd EXCEPT !.todo = q] /\ q \in Seq(Steps)
  BY DEF Then
<1> HIDE DEF q
<1>2. cmd'.todo = q /\ cmd' \in CmdType /\ SameCommand
  BY <1>1 DEF CmdType, SameCommand
<1> QED
  BY <1>2 DEF q

\* A step that is done may be followed by others of the command, which come
\* before what is left.
LEMMA ThenInv ==
    ASSUME ServicesInv, NEW k, NEW s, At(k, s), NEW p \in Seq(Steps), Then(p),
           ToSet(p) \subseteq Kinds(cmd.op) \X (Service \cup {"all"}),
           ToSet(p) \cap (Removes \cup {<<"exists", "quantumd">>}) = {},
           cmd.op \in {"start", "start-all"} => Len(p) = 0
    PROVE  /\ SameCommand /\ cmd' \in CmdType
           /\ CommandFits' /\ UninstallOrdered'
           /\ Left' = ToSet(p) \cup Rest
<1> DEFINE q == Tail(cmd.todo)
<1>1. /\ cmd \in CmdType /\ ~ cmd.aborted /\ q \in Seq(Steps)
      /\ Len(q) = Len(cmd.todo) - 1 /\ Len(cmd.todo) \in Nat
      /\ Left = {<<k, s>>} \cup Rest
      /\ Left \subseteq Kinds(cmd.op) \X (Service \cup {"all"})
      /\ cmd.op = "uninstall" =>
            /\ Before(Dismantles, Removes, q)
            /\ Before(Stops("zdb"), {<<"exists", "quantumd">>}, q)
  BY HeadStep
<1>2. Rest = ToSet(q)
  BY DEF Rest
<1> HIDE DEF q
<1>3. p \o q \in Seq(Steps) /\ Len(p \o q) = Len(p) + Len(q) /\ ToSet(p \o q) = ToSet(p) \cup ToSet(q)
  BY <1>1, ToSetConcat
<1>4. SameCommand /\ cmd'.todo = p \o q /\ cmd' \in CmdType
  BY <1>1, <1>3, ThenFields DEF q
<1>5. Left' = ToSet(p) \cup Rest
  BY <1>2, <1>3, <1>4 DEF Left
<1>6. CommandFits'
  <2>1. Left' \subseteq Kinds(cmd'.op) \X (Service \cup {"all"})
    BY <1>1, <1>4, <1>5 DEF SameCommand
  <2>2. /\ ~ cmd'.aborted /\ cmd'.failures = cmd.failures /\ cmd'.op = cmd.op
        /\ cmd.failures \in Nat
    BY <1>1, <1>4, Bounds DEF SameCommand, CmdType
  <2>3. cmd.op \in {"start", "start-all"} => Len(cmd'.todo) <= Len(cmd.todo) /\ Len(cmd'.todo) \in Nat
    BY <1>1, <1>3, <1>4
  <2>4. IF cmd.op \in {"start", "start-all"}
        THEN cmd.failures + Len(cmd.todo) <= MaxFailures + Len(ManagedServices)
        ELSE cmd.failures <= MaxFailures
    BY <1>1, Bounds DEF ServicesInv, CommandFits
  <2> QED
    BY <1>1, <2>1, <2>2, <2>3, <2>4, Bounds DEF CommandFits
<1>7. UninstallOrdered'
  <2> SUFFICES ASSUME cmd.op = "uninstall"
               PROVE  /\ Before(Dismantles, Removes, p \o q)
                      /\ Before(Stops("zdb"), {<<"exists", "quantumd">>}, p \o q)
    BY <1>4 DEF UninstallOrdered, SameCommand
  <2>1. Before(Dismantles, Removes, p) /\ ToSet(p) \cap Removes = {}
    BY BeforeNone
  <2>2. /\ ToSet(p) \cap {<<"exists", "quantumd">>} = {}
        /\ Before(Stops("zdb"), {<<"exists", "quantumd">>}, p)
    BY BeforeNone
  <2>3. Before(Dismantles, Removes, p \o q)
    BY <1>1, <2>1, BeforeConcat
  <2>4. Before(Stops("zdb"), {<<"exists", "quantumd">>}, p \o q)
    BY <1>1, <2>2, BeforeConcat
  <2> QED
    BY <2>3, <2>4
<1> QED
  BY <1>4, <1>5, <1>6, <1>7

\* A step that has nothing to be followed by.
LEMMA ThenNothing ==
    ASSUME ServicesInv, NEW k, NEW s, At(k, s), Then(<<>>)
    PROVE  /\ SameCommand /\ cmd' \in CmdType
           /\ CommandFits' /\ UninstallOrdered'
           /\ Left' = Rest
<1>1. <<>> \in Seq(Steps) /\ Len(<<>>) = 0 /\ ToSet(<<>>) = {}
  BY ToSetEmpty
<1> QED
  BY <1>1, ThenInv

\* A failure is counted.  It ends setup, unless the step was to enable a
\* service; another command goes on.
LEMMA FailedInv ==
    ASSUME ServicesInv, NEW k, NEW s, At(k, s), NEW j, Failed(j),
           cmd.failures < MaxFailures \/ (k = "start" /\ j = "start")
    PROVE  /\ cmd'.op = cmd.op /\ cmd'.disturbed = cmd.disturbed
           /\ cmd'.failures # 0 /\ cmd' \in CmdType
           /\ CommandFits' /\ UninstallOrdered'
           /\ cmd.op = "setup" /\ j # "enable" => cmd'.aborted
           /\ ~ cmd'.aborted => Left' = Rest
<1> DEFINE q == Tail(cmd.todo)
<1>1. /\ cmd \in CmdType /\ ~ cmd.aborted /\ q \in Seq(Steps) /\ k \in Kinds(cmd.op)
      /\ Len(q) = Len(cmd.todo) - 1 /\ Len(cmd.todo) \in Nat
      /\ Left = {<<k, s>>} \cup Rest
      /\ Left \subseteq Kinds(cmd.op) \X (Service \cup {"all"})
      /\ cmd.op = "uninstall" =>
            /\ Before(Dismantles, Removes, q)
            /\ Before(Stops("zdb"), {<<"exists", "quantumd">>}, q)
  BY HeadStep
<1>2. Rest = ToSet(q)
  BY DEF Rest
<1>3. IF cmd.op \in {"start", "start-all"}
      THEN cmd.failures + Len(cmd.todo) <= MaxFailures + Len(ManagedServices)
      ELSE cmd.failures <= MaxFailures
  BY <1>1, Bounds DEF ServicesInv, CommandFits
<1>4. cmd.failures \in Nat /\ cmd.failures + 1 \in 0..(MaxFailures + Len(ManagedServices))
  <2>1. cmd.failures \in Nat
    BY <1>1, Bounds DEF CmdType
  <2>2. Len(cmd.todo) # 0
    BY <1>1, LenProperties
  <2> QED
    BY <1>1, <1>3, <2>1, <2>2, Bounds
<1>5. CASE EndsCommand(cmd.op, j)
  <2>1. cmd' = [cmd EXCEPT !.todo = <<>>, !.failures = @ + 1, !.aborted = TRUE]
    BY <1>5 DEF Failed
  <2>2. <<>> \in Seq(Steps) /\ ToSet(<<>>) = {}
    BY ToSetEmpty
  <2>3. /\ cmd' \in CmdType /\ cmd'.op = cmd.op /\ cmd'.disturbed = cmd.disturbed
        /\ cmd'.todo = <<>> /\ cmd'.failures = cmd.failures + 1 /\ cmd'.aborted
    BY <1>1, <1>4, <2>1, <2>2 DEF CmdType
  <2>4. cmd.op = "setup"
    BY <1>5 DEF EndsCommand
  <2>5. CommandFits'
    <3>1. Left' = {}
      BY <2>2, <2>3 DEF Left
    <3>2. cmd'.failures <= MaxFailures + 1
      BY <1>3, <1>4, <2>3, <2>4, Bounds
    <3> QED
      BY <2>3, <2>4, <3>1, <3>2, Bounds DEF CommandFits
  <2>6. UninstallOrdered'
    BY <2>3, <2>4 DEF UninstallOrdered
  <2> QED
    BY <1>4, <2>3, <2>5, <2>6
<1>6. CASE ~ EndsCommand(cmd.op, j)
  <2>1. cmd' = [cmd EXCEPT !.todo = q, !.failures = @ + 1]
    BY <1>6 DEF Failed
  <2> HIDE DEF q
  <2>2. /\ cmd' \in CmdType /\ cmd'.op = cmd.op /\ cmd'.disturbed = cmd.disturbed
        /\ cmd'.todo = q /\ cmd'.failures = cmd.failures + 1
        /\ cmd'.aborted = cmd.aborted
    BY <1>1, <1>4, <2>1 DEF CmdType
  <2>3. Left' = Rest
    BY <1>2, <2>2 DEF Left
  <2>4. CommandFits'
    <3>1. cmd.op = "setup" => j = "enable"
      BY <1>6 DEF EndsCommand
    <3>2. cmd.op \notin {"start", "start-all"} => cmd.failures < MaxFailures
      BY <1>1, <3>1 DEF Kinds
    <3>3. /\ ~ cmd'.aborted
          /\ Left' \subseteq Kinds(cmd'.op) \X (Service \cup {"all"})
      BY <1>1, <2>2, <2>3
    <3>4. IF cmd'.op \in {"start", "start-all"}
          THEN cmd'.failures + Len(cmd'.todo) <= MaxFailures + Len(ManagedServices)
          ELSE cmd'.failures <= MaxFailures
      BY <1>1, <1>3, <1>4, <2>2, <3>2, Bounds
    <3> QED
      BY <3>3, <3>4, Bounds DEF CommandFits
  <2>5. UninstallOrdered'
    BY <1>1, <2>2 DEF UninstallOrdered
  <2>6. cmd.op = "setup" /\ j # "enable" => cmd'.aborted
    BY <1>6 DEF EndsCommand
  <2> QED
    BY <1>4, <2>2, <2>3, <2>4, <2>5, <2>6
<1> QED
  BY <1>5, <1>6

\* Which commands a step is of.
LEMMA CommandOf ==
    ASSUME NEW op, NEW k \in Kinds(op)
    PROVE  /\ k \in {"prepare", "write", "enable"} => op = "setup"
           /\ k = "reload" => op \in {"setup", "uninstall"}
           /\ k = "start" => op \in {"setup", "start", "start-all"}
           /\ k = "is-active" => op \in {"stop", "stop-all"}
           /\ k = "stop" => op \in {"stop", "stop-all", "uninstall"}
           /\ k \in {"exists", "disable", "disable-again", "remove", "remove-binaries"} =>
                 op = "uninstall"
PROOF BY DEF Kinds

\* A step that fails changes nothing that the command owes: setup ends, what
\* setup warns about and what the others report is counted.
LEMMA FailedStep ==
    ASSUME ServicesInv, NEW k, NEW s, At(k, s), NEW j, Failed(j),
           cmd.failures < MaxFailures \/ (k = "start" /\ j = "start"),
           j = "enable" => k = "enable" /\ UNCHANGED <<unit, binaries>>,
           UNCHANGED state, ServiceTypeOK'
    PROVE  ServicesInv'
<1>1. /\ cmd'.op = cmd.op /\ cmd'.disturbed = cmd.disturbed
      /\ cmd'.failures # 0 /\ cmd' \in CmdType
      /\ CommandFits' /\ UninstallOrdered'
      /\ cmd.op = "setup" /\ j # "enable" => cmd'.aborted
      /\ ~ cmd'.aborted => Left' = Rest
  BY FailedInv
<1>2. ~ cmd.aborted /\ Left = {<<k, s>>} \cup Rest
  BY HeadStep
<1>3. SetupProgress'
  <2> SUFFICES ASSUME cmd.op = "setup", ~ cmd'.aborted
               PROVE  /\ binaries' = Installed \/ <<"prepare", "all">> \in Left'
                      /\ \A t \in Service :
                            /\ t \in unit' \/ <<"write", t>> \in Left'
                            /\ state'[t] # "stopped" \/ <<"start", t>> \in Left'
    BY <1>1 DEF SetupProgress
  <2>1. k = "enable" /\ UNCHANGED <<unit, binaries>> /\ Left' = Rest
    BY <1>1
  <2>2. SetupProgress
    BY DEF ServicesInv
  <2> QED
    BY <1>2, <2>1, <2>2 DEF SetupProgress
<1>4. StopProgress'
  BY <1>1 DEF StopProgress, ServicesInv
<1>5. UninstallProgress'
  BY <1>1 DEF UninstallProgress
<1> QED
  BY <1>1, <1>3, <1>4, <1>5, TypeParts DEF ServicesInv, ServicesTypeOK, ServiceTypeOK, CmdType

\* What is known after a step that is done.
LEMMA DoneStep ==
    ASSUME ServiceTypeOK', cmd' \in CmdType, CommandFits', UninstallOrdered',
           SetupProgress', StopProgress', UninstallProgress'
    PROVE  ServicesInv'
PROOF BY DEF ServicesInv, ServicesTypeOK, ServiceTypeOK, CmdType

-----------------------------------------------------------------------------
(***************************************************************************)
(* The steps of setup and of start.                                        *)
(***************************************************************************)

\* A start only starts.
LEMMA StartedType ==
    ASSUME ServiceTypeOK, NEW S \in SUBSET Service
    PROVE  /\ Started(S) \in [Service -> {"stopped", "running", "waiting"}]
           /\ \A t \in S : Started(S)[t] = "running"
           /\ \A t \in Service : Started(S)[t] # state[t] => Started(S)[t] = "running"
PROOF BY DEF Started, ServiceTypeOK

\* The configuration, the downloads and the link.
LEMMA PrepareInv == ServicesInv /\ Prepare => ServicesInv'
<1> SUFFICES ASSUME ServicesInv, Prepare PROVE ServicesInv'
  OBVIOUS
<1>1. At("prepare", "all") /\ UNCHANGED <<unit, enabled, state>> /\ ServiceTypeOK
  BY TypeParts DEF Prepare, ServicesInv
<1>2. cmd.op = "setup" /\ Left = {<<"prepare", "all">>} \cup Rest
  BY <1>1, HeadStep, CommandOf
<1>3. CASE binaries' = binaries \cup Installed /\ Then(<<>>)
  <2>1. binaries' = Installed /\ ServiceTypeOK'
    BY <1>1, <1>3 DEF ServiceTypeOK
  <2>2. SameCommand /\ cmd' \in CmdType /\ CommandFits' /\ UninstallOrdered' /\ Left' = Rest
    BY <1>1, <1>3, ThenNothing
  <2>3. SetupProgress'
    BY <1>1, <1>2, <2>1, <2>2 DEF SetupProgress, ServicesInv, SameCommand
  <2> QED
    BY <1>2, <2>1, <2>2, <2>3, DoneStep DEF SameCommand, StopProgress, UninstallProgress
<1>4. CASE binaries' \in PartlyPrepared /\ Fails("prepare")
  <2>1. ServiceTypeOK'
    BY <1>1, <1>4 DEF ServiceTypeOK, PartlyPrepared
  <2> QED
    BY <1>1, <1>4, <2>1, FailedStep DEF Fails
<1> QED
  BY <1>3, <1>4 DEF Prepare

\* The unit file of a service.
LEMMA WriteInv == ASSUME NEW s \in Service PROVE ServicesInv /\ WriteUnit(s) => ServicesInv'
<1> SUFFICES ASSUME ServicesInv, WriteUnit(s) PROVE ServicesInv'
  OBVIOUS
<1>1. At("write", s) /\ UNCHANGED <<enabled, state, binaries>> /\ ServiceTypeOK
  BY TypeParts DEF WriteUnit, ServicesInv
<1>2. cmd.op = "setup" /\ Left = {<<"write", s>>} \cup Rest
  BY <1>1, HeadStep, CommandOf
<1>3. CASE unit' = unit \cup {s} /\ Then(<<>>)
  <2>1. ServiceTypeOK'
    BY <1>1, <1>3 DEF ServiceTypeOK
  <2>2. SameCommand /\ cmd' \in CmdType /\ CommandFits' /\ UninstallOrdered' /\ Left' = Rest
    BY <1>1, <1>3, ThenNothing
  <2>3. SetupProgress'
    BY <1>1, <1>2, <1>3, <2>2 DEF SetupProgress, ServicesInv, SameCommand
  <2> QED
    BY <1>2, <2>1, <2>2, <2>3, DoneStep DEF SameCommand, StopProgress, UninstallProgress
<1>4. CASE unit' = unit /\ Fails("write")
  <2>1. ServiceTypeOK'
    BY <1>1, <1>4 DEF ServiceTypeOK
  <2> QED
    BY <1>1, <1>4, <2>1, FailedStep DEF Fails
<1> QED
  BY <1>3, <1>4 DEF WriteUnit

\* systemd reads the unit files, in setup and in uninstallation.
LEMMA ReloadInv == ServicesInv /\ DaemonReload => ServicesInv'
<1> SUFFICES ASSUME ServicesInv, DaemonReload PROVE ServicesInv'
  OBVIOUS
<1>1. At("reload", "all") /\ UNCHANGED <<unit, enabled, state, binaries>> /\ ServiceTypeOK
  BY TypeParts DEF DaemonReload, ServicesInv
<1>2. ServiceTypeOK'
  BY <1>1 DEF ServiceTypeOK
<1>3. CASE Then(<<>>)
  <2>1. cmd.op \in {"setup", "uninstall"} /\ Left = {<<"reload", "all">>} \cup Rest
    BY <1>1, HeadStep, CommandOf
  <2>2. SameCommand /\ cmd' \in CmdType /\ CommandFits' /\ UninstallOrdered' /\ Left' = Rest
    BY <1>1, <1>3, ThenNothing
  <2>3. SetupProgress'
    BY <1>1, <2>1, <2>2 DEF SetupProgress, ServicesInv, SameCommand
  <2>4. UninstallProgress'
    <3> SUFFICES ASSUME UninstallProgress PROVE UninstallProgress'
      BY DEF ServicesInv
    <3>1. \A t \in Service : /\ (Stops(t) \cap Left') = (Stops(t) \cap Left)
                             /\ (Disables(t) \cap Left') = (Disables(t) \cap Left)
      BY <2>1, <2>2 DEF Stops, Disables
    <3> QED
      BY <1>1, <2>1, <2>2, <3>1 DEF UninstallProgress, SameCommand, Service
  <2> QED
    BY <1>2, <2>1, <2>2, <2>3, <2>4, DoneStep DEF SameCommand, StopProgress
<1>4. CASE Fails("reload")
  BY <1>1, <1>2, <1>4, FailedStep DEF Fails
<1> QED
  BY <1>3, <1>4 DEF DaemonReload

\* systemctl enable --now.
LEMMA EnableInv == ASSUME NEW s \in Service PROVE ServicesInv /\ EnableService(s) => ServicesInv'
<1> SUFFICES ASSUME ServicesInv, EnableService(s) PROVE ServicesInv'
  OBVIOUS
<1>1. At("enable", s) /\ UNCHANGED <<unit, binaries>> /\ ServiceTypeOK
  BY TypeParts DEF EnableService, ServicesInv
<1>2. cmd.op = "setup" /\ Left = {<<"enable", s>>} \cup Rest
  BY <1>1, HeadStep, CommandOf
<1>3. CASE enabled' = enabled \cup {s} /\ state' = Started({s}) /\ Then(<<>>)
  <2>1. \A t \in Service : state'[t] = state[t] \/ state'[t] = "running"
    BY <1>1, <1>3, StartedType
  <2>2. ServiceTypeOK'
    BY <1>1, <1>3, StartedType DEF ServiceTypeOK
  <2>3. SameCommand /\ cmd' \in CmdType /\ CommandFits' /\ UninstallOrdered' /\ Left' = Rest
    BY <1>1, <1>3, ThenNothing
  <2>4. SetupProgress'
    BY <1>1, <1>2, <1>3, <2>1, <2>3 DEF SetupProgress, ServicesInv, SameCommand
  <2> QED
    BY <1>2, <2>2, <2>3, <2>4, DoneStep DEF SameCommand, StopProgress, UninstallProgress
<1>4. CASE (enabled' = enabled \cup {s} \/ enabled' = enabled) /\ UNCHANGED state /\ Fails("enable")
  <2>1. ServiceTypeOK'
    BY <1>1, <1>4 DEF ServiceTypeOK
  <2> QED
    BY <1>1, <1>4, <2>1, FailedStep DEF Fails
<1> QED
  BY <1>3, <1>4 DEF EnableService

\* systemctl start, which fails for a service without a unit file.
LEMMA StartInv == ASSUME NEW s \in Service PROVE ServicesInv /\ StartService(s) => ServicesInv'
<1> SUFFICES ASSUME ServicesInv, StartService(s) PROVE ServicesInv'
  OBVIOUS
<1>1. At("start", s) /\ UNCHANGED <<unit, enabled, binaries>> /\ ServiceTypeOK
  BY TypeParts DEF StartService, ServicesInv
<1>2. cmd.op \in {"setup", "start", "start-all"} /\ Left = {<<"start", s>>} \cup Rest
  BY <1>1, HeadStep, CommandOf
<1>3. CASE state' = Started({s}) /\ Then(<<>>)
  <2>1. /\ state'[s] = "running"
        /\ \A t \in Service : state'[t] = state[t] \/ state'[t] = "running"
    BY <1>1, <1>3, StartedType
  <2>2. ServiceTypeOK'
    BY <1>1, <1>3, StartedType DEF ServiceTypeOK
  <2>3. SameCommand /\ cmd' \in CmdType /\ CommandFits' /\ UninstallOrdered' /\ Left' = Rest
    BY <1>1, <1>3, ThenNothing
  <2>4. SetupProgress'
    BY <1>1, <1>2, <2>1, <2>3 DEF SetupProgress, ServicesInv, SameCommand
  <2> QED
    BY <1>2, <2>2, <2>3, <2>4, DoneStep DEF SameCommand, StopProgress, UninstallProgress
<1>4. CASE UNCHANGED state /\ (Fails("start") \/ Failed("start"))
  <2>1. ServiceTypeOK'
    BY <1>1, <1>4 DEF ServiceTypeOK
  <2> QED
    BY <1>1, <1>4, <2>1, FailedStep DEF Fails
<1> QED
  BY <1>3, <1>4 DEF StartService

-----------------------------------------------------------------------------
(***************************************************************************)
(* The steps of stop and of uninstallation.                                *)
(***************************************************************************)

\* A step of a command may be followed by the next about the same service.
LEMMA FollowUp ==
    ASSUME NEW k \in {"stop", "disable-again"}, NEW s \in Service, NEW p, p = << <<k, s>> >>
    PROVE  p \in Seq(Steps) /\ Len(p) = 1 /\ ToSet(p) = {<<k, s>>}
<1> DEFINE a == <<k, s>>
<1>1. a \in Steps
  BY DEF Steps
<1> HIDE DEF a
<1>2. <<a>> \in Seq(Steps) /\ Len(<<a>>) = 1 /\ ToSet(<<a>>) = {a}
  BY <1>1 DEF ToSet
<1> QED
  BY <1>2 DEF a

\* Stop tests whether a service runs; if not, there is nothing to stop.
LEMMA TestActiveInv == ASSUME NEW s \in Service PROVE ServicesInv /\ TestActive(s) => ServicesInv'
<1> SUFFICES ASSUME ServicesInv, TestActive(s) PROVE ServicesInv'
  OBVIOUS
<1>1. At("is-active", s) /\ UNCHANGED <<unit, enabled, state, binaries>> /\ ServiceTypeOK
  BY TypeParts DEF TestActive, ServicesInv
<1>2. /\ cmd.op \in {"stop", "stop-all"} /\ Left = {<<"is-active", s>>} \cup Rest
      /\ cmd.op = "stop-all" \/ cmd.op # "stop-all"
  BY <1>1, HeadStep, CommandOf
<1>3. ServiceTypeOK'
  BY <1>1 DEF ServiceTypeOK
<1>4. CASE ServiceIsRunning(s) /\ Then(<< <<"stop", s>> >>)
  <2> DEFINE p == << <<"stop", s>> >>
  <2>1. p \in Seq(Steps) /\ Len(p) = 1 /\ ToSet(p) = {<<"stop", s>>}
    BY FollowUp
  <2>2. Then(p)
    BY <1>4
  <2> HIDE DEF p
  <2>3. /\ ToSet(p) \subseteq Kinds(cmd.op) \X (Service \cup {"all"})
        /\ ToSet(p) \cap (Removes \cup {<<"exists", "quantumd">>}) = {}
        /\ cmd.op \notin {"start", "start-all"}
    BY <1>2, <2>1 DEF Kinds, Removes
  <2>4. /\ SameCommand /\ cmd' \in CmdType /\ CommandFits' /\ UninstallOrdered'
        /\ Left' = {<<"stop", s>>} \cup Rest
    BY <1>1, <2>1, <2>2, <2>3, ThenInv
  <2>5. StopProgress'
    <3>1. ASSUME NEW t \in Service, {<<"is-active", t>>, <<"stop", t>>} \cap Left # {}
          PROVE  {<<"is-active", t>>, <<"stop", t>>} \cap Left' # {}
      <4>1. CASE t = s
        BY <2>4, <4>1
      <4>2. CASE t # s
        BY <1>2, <2>4, <3>1, <4>2
      <4> QED
        BY <4>1, <4>2
    <3> QED
      BY <1>1, <2>4, <3>1 DEF StopProgress, ServicesInv, SameCommand
  <2> QED
    BY <1>2, <1>3, <2>4, <2>5, DoneStep DEF SameCommand, SetupProgress, UninstallProgress
<1>5. CASE ~ ServiceIsRunning(s) /\ Then(<<>>)
  <2>1. SameCommand /\ cmd' \in CmdType /\ CommandFits' /\ UninstallOrdered' /\ Left' = Rest
    BY <1>1, <1>5, ThenNothing
  <2>2. StopProgress'
    BY <1>1, <1>2, <1>5, <2>1 DEF StopProgress, ServicesInv, SameCommand, ServiceIsRunning
  <2> QED
    BY <1>2, <1>3, <2>1, <2>2, DoneStep DEF SameCommand, SetupProgress, UninstallProgress
<1>6. CASE Fails("is-active")
  BY <1>1, <1>3, <1>6, FailedStep DEF Fails
<1> QED
  BY <1>4, <1>5, <1>6 DEF TestActive

\* Both stop a service.
LEMMA StopInv == ASSUME NEW s \in Service PROVE ServicesInv /\ StopService(s) => ServicesInv'
<1> SUFFICES ASSUME ServicesInv, StopService(s) PROVE ServicesInv'
  OBVIOUS
<1>1. At("stop", s) /\ UNCHANGED <<unit, enabled, binaries>> /\ ServiceTypeOK
  BY TypeParts DEF StopService, ServicesInv
<1>2. cmd.op \in {"stop", "stop-all", "uninstall"} /\ Left = {<<"stop", s>>} \cup Rest
  BY <1>1, HeadStep, CommandOf
<1>3. CASE state' = [state EXCEPT ![s] = "stopped"] /\ Then(<<>>)
  <2>1. \A t \in Service : state'[t] = IF t = s THEN "stopped" ELSE state[t]
    BY <1>1, <1>3 DEF ServiceTypeOK
  <2>2. ServiceTypeOK'
    BY <1>1, <1>3 DEF ServiceTypeOK
  <2>3. SameCommand /\ cmd' \in CmdType /\ CommandFits' /\ UninstallOrdered' /\ Left' = Rest
    BY <1>1, <1>3, ThenNothing
  <2>4. StopProgress'
    BY <1>1, <1>2, <2>1, <2>3 DEF StopProgress, ServicesInv, SameCommand
  <2>5. UninstallProgress'
    <3> SUFFICES ASSUME UninstallProgress PROVE UninstallProgress'
      BY DEF ServicesInv
    <3>1. \A t \in Service \ {s} : Stops(t) \cap Left' = Stops(t) \cap Left
      BY <1>2, <2>3 DEF Stops
    <3>2. \A t \in Service : Disables(t) \cap Left' = Disables(t) \cap Left
      BY <1>2, <2>3 DEF Disables
    <3>3. Stops("zdb") \cap Left' # {} => Stops("zdb") \cap Left # {}
      BY <1>2, <2>3
    <3> QED
      BY <1>1, <1>2, <2>1, <2>3, <3>1, <3>2, <3>3 DEF UninstallProgress, SameCommand
  <2> QED
    BY <1>2, <2>2, <2>3, <2>4, <2>5, DoneStep DEF SameCommand, SetupProgress
<1>4. CASE UNCHANGED state /\ Fails("stop")
  <2>1. ServiceTypeOK'
    BY <1>1, <1>4 DEF ServiceTypeOK
  <2> QED
    BY <1>1, <1>4, <2>1, FailedStep DEF Fails
<1> QED
  BY <1>3, <1>4 DEF StopService

\* Uninstallation stops and disables a service that has a unit file.  zdb, which
\* wants quantumd, is stopped by the time that is tested.
LEMMA TestExistsInv == ASSUME NEW s \in Service PROVE ServicesInv /\ TestExists(s) => ServicesInv'
<1> SUFFICES ASSUME ServicesInv, TestExists(s) PROVE ServicesInv'
  OBVIOUS
<1> DEFINE u == <<"stop", s>>
           v == <<"disable", s>>
           p == IF s \in unit THEN <<u, v>> ELSE <<>>
<1>1. /\ At("exists", s) /\ UNCHANGED <<unit, enabled, state, binaries>> /\ ServiceTypeOK
      /\ Then(p)
  BY TypeParts DEF TestExists, ServicesInv
<1>2. /\ cmd.op = "uninstall" /\ Left = {<<"exists", s>>} \cup Rest
      /\ <<"exists", s>> = <<"exists", "quantumd">> => Rest \cap Stops("zdb") = {}
  BY <1>1, HeadStep, CommandOf
<1>3. ServiceTypeOK'
  BY <1>1 DEF ServiceTypeOK
<1>4. /\ u \in Steps /\ v \in Steps
      /\ {u, v} \subseteq Kinds(cmd.op) \X (Service \cup {"all"})
      /\ {u, v} \cap (Removes \cup {<<"exists", "quantumd">>}) = {}
  BY <1>2 DEF Steps, Kinds, Removes
<1> HIDE DEF u, v
<1>5. p \in Seq(Steps) /\ ToSet(p) = IF s \in unit THEN {u, v} ELSE {}
  <2>1. CASE s \in unit
    BY <1>4, <2>1 DEF ToSet
  <2>2. CASE s \notin unit
    BY <2>2, ToSetEmpty
  <2> QED
    BY <2>1, <2>2
<1> HIDE DEF p
<1>6. /\ ToSet(p) \subseteq Kinds(cmd.op) \X (Service \cup {"all"})
      /\ ToSet(p) \cap (Removes \cup {<<"exists", "quantumd">>}) = {}
  BY <1>4, <1>5
<1>7. /\ SameCommand /\ cmd' \in CmdType /\ CommandFits' /\ UninstallOrdered'
      /\ Left' = ToSet(p) \cup Rest
  BY <1>1, <1>2, <1>5, <1>6, ThenInv
<1>8. UninstallProgress'
  <2> SUFFICES ASSUME UninstallProgress, cmd.failures = 0, ~ cmd.orphans
               PROVE  UninstallProgress'
    BY <1>7 DEF ServicesInv, UninstallProgress, SameCommand
  <2>1. binaries' \subseteq {"decoder"} \/ <<"remove-binaries", "all">> \in Left'
    BY <1>1, <1>2, <1>7 DEF UninstallProgress
  <2>2. Stops("zdb") \cap Left' # {} => <<"exists", "quantumd">> \in Left'
    <3>1. CASE s = "quantumd"
      BY <1>2, <1>5, <1>7, <3>1 DEF u, v, Stops
    <3>2. CASE s # "quantumd"
      <4>1. Stops("zdb") \cap Left' # {} => Stops("zdb") \cap Left # {}
        <5>1. CASE s = "zdb"
          BY <1>2, <5>1 DEF Stops
        <5>2. CASE s # "zdb"
          BY <1>2, <1>5, <1>7, <5>2 DEF u, v, Stops
        <5> QED
          BY <5>1, <5>2
      <4> QED
        BY <1>2, <1>7, <3>2, <4>1 DEF UninstallProgress
    <3> QED
      BY <3>1, <3>2
  <2>3. ASSUME NEW t \in Service
        PROVE  /\ t \in unit => <<"remove", t>> \in Left'
               /\ t \in enabled => Disables(t) \cap Left' # {}
               /\ state[t] # "stopped" =>
                     Stops(t) \cap Left' # {} \/ (t = "zstor" /\ cmd.disturbed)
               /\ t \notin unit /\ <<"exists", t>> \in Left' =>
                     t \notin enabled /\ state[t] = "stopped"
    <3>1. t \in unit => <<"remove", t>> \in Left'
      BY <1>2, <1>7 DEF UninstallProgress
    <3>2. <<"exists", t>> \in Left' => <<"exists", t>> \in Left
      BY <1>2, <1>5, <1>7 DEF u, v
    <3>3. CASE t = s /\ s \in unit
      <4>1. u \in Left' /\ v \in Left'
        BY <1>5, <1>7, <3>3
      <4> QED
        BY <3>1, <3>3, <4>1 DEF u, v, Stops, Disables
    <3>4. CASE t = s /\ s \notin unit
      BY <1>2, <3>4 DEF UninstallProgress
    <3>5. CASE t # s
      <4>1. Stops(t) \cap Left # {} => Stops(t) \cap Left' # {}
        BY <1>2, <1>7, <3>5 DEF Stops
      <4>2. Disables(t) \cap Left # {} => Disables(t) \cap Left' # {}
        BY <1>2, <1>7, <3>5 DEF Disables
      <4> QED
        BY <1>2, <3>1, <3>2, <4>1, <4>2 DEF UninstallProgress
    <3> QED
      BY <3>3, <3>4, <3>5
  <2> QED
    BY <1>1, <1>7, <2>1, <2>2, <2>3 DEF UninstallProgress, SameCommand
<1> QED
  BY <1>2, <1>3, <1>7, <1>8, DoneStep DEF SameCommand, SetupProgress, StopProgress

\* It tries twice to disable a service.
LEMMA DisableInv ==
    ASSUME NEW s \in Service PROVE ServicesInv /\ DisableService(s) => ServicesInv'
<1> SUFFICES ASSUME ServicesInv, DisableService(s) PROVE ServicesInv'
  OBVIOUS
<1>1. /\ At("disable", s) \/ At("disable-again", s)
      /\ UNCHANGED <<unit, state, binaries>> /\ ServiceTypeOK
  BY TypeParts DEF DisableService, ServicesInv
<1>2. PICK k \in {"disable", "disable-again"} : At(k, s)
  BY <1>1
<1>3. cmd.op = "uninstall" /\ Left = {<<k, s>>} \cup Rest
  BY <1>2, HeadStep, CommandOf
<1>4. CASE enabled' = enabled \ {s} /\ Then(<<>>)
  <2>1. ServiceTypeOK'
    BY <1>1, <1>4 DEF ServiceTypeOK
  <2>2. SameCommand /\ cmd' \in CmdType /\ CommandFits' /\ UninstallOrdered' /\ Left' = Rest
    BY <1>2, <1>4, ThenNothing
  <2>3. UninstallProgress'
    <3> SUFFICES ASSUME UninstallProgress PROVE UninstallProgress'
      BY DEF ServicesInv
    <3>1. \A t \in Service \ {s} : Disables(t) \cap Left' = Disables(t) \cap Left
      BY <1>3, <2>2 DEF Disables
    <3>2. \A t \in Service : Stops(t) \cap Left' = Stops(t) \cap Left
      BY <1>3, <2>2 DEF Stops
    <3> QED
      BY <1>1, <1>3, <1>4, <2>2, <3>1, <3>2 DEF UninstallProgress, SameCommand, Service
  <2> QED
    BY <1>3, <2>1, <2>2, <2>3, DoneStep DEF SameCommand, SetupProgress, StopProgress
<1>5. CASE UNCHANGED enabled /\ Then(<< <<"disable-again", s>> >>)
  <2> DEFINE p == << <<"disable-again", s>> >>
  <2>1. p \in Seq(Steps) /\ Len(p) = 1 /\ ToSet(p) = {<<"disable-again", s>>}
    BY FollowUp
  <2>2. Then(p)
    BY <1>5
  <2> HIDE DEF p
  <2>3. /\ ToSet(p) \subseteq Kinds(cmd.op) \X (Service \cup {"all"})
        /\ ToSet(p) \cap (Removes \cup {<<"exists", "quantumd">>}) = {}
        /\ cmd.op \notin {"start", "start-all"}
    BY <1>3, <2>1 DEF Kinds, Removes
  <2>4. /\ SameCommand /\ cmd' \in CmdType /\ CommandFits' /\ UninstallOrdered'
        /\ Left' = {<<"disable-again", s>>} \cup Rest
    BY <1>2, <2>1, <2>2, <2>3, ThenInv
  <2>5. ServiceTypeOK'
    BY <1>1, <1>5 DEF ServiceTypeOK
  <2>6. UninstallProgress'
    <3> SUFFICES ASSUME UninstallProgress PROVE UninstallProgress'
      BY DEF ServicesInv
    <3>1. ASSUME NEW t \in Service PROVE Disables(t) \cap Left # {} => Disables(t) \cap Left' # {}
      <4>1. CASE t = s
        BY <2>4, <4>1 DEF Disables
      <4>2. CASE t # s
        BY <1>3, <2>4, <4>2 DEF Disables
      <4> QED
        BY <4>1, <4>2
    <3>2. \A t \in Service : Stops(t) \cap Left' = Stops(t) \cap Left
      BY <1>3, <2>4 DEF Stops
    <3>3. \A t \in Service : /\ <<"remove", t>> \in Left => <<"remove", t>> \in Left'
                             /\ <<"exists", t>> \in Left <=> <<"exists", t>> \in Left'
      BY <1>3, <2>4
    <3>4. <<"remove-binaries", "all">> \in Left => <<"remove-binaries", "all">> \in Left'
      BY <1>3, <2>4
    <3> QED
      BY <1>1, <1>5, <2>4, <3>1, <3>2, <3>3, <3>4 DEF UninstallProgress, SameCommand, Service
  <2> QED
    BY <1>3, <2>4, <2>5, <2>6, DoneStep DEF SameCommand, SetupProgress, StopProgress
<1>6. CASE UNCHANGED enabled /\ Fails("disable")
  <2>1. ServiceTypeOK'
    BY <1>1, <1>6 DEF ServiceTypeOK
  <2> QED
    BY <1>1, <1>2, <1>6, <2>1, FailedStep DEF Fails
<1> QED
  BY <1>4, <1>5, <1>6 DEF DisableService

\* The unit files go when nothing is left to stop or to disable.
LEMMA RemoveInv == ASSUME NEW s \in Service PROVE ServicesInv /\ RemoveUnit(s) => ServicesInv'
<1> SUFFICES ASSUME ServicesInv, RemoveUnit(s) PROVE ServicesInv'
  OBVIOUS
<1>1. At("remove", s) /\ UNCHANGED <<enabled, state, binaries>> /\ ServiceTypeOK
  BY TypeParts DEF RemoveUnit, ServicesInv
<1>2. /\ cmd.op = "uninstall" /\ Left = {<<"remove", s>>} \cup Rest
      /\ <<"remove", s>> \in Removes => Rest \cap Dismantles = {}
  BY <1>1, HeadStep, CommandOf
<1>3. Rest \cap Dismantles = {}
  BY <1>2 DEF Removes
<1>4. CASE unit' = unit \ {s} /\ Then(<<>>)
  <2>1. ServiceTypeOK'
    BY <1>1, <1>4 DEF ServiceTypeOK
  <2>2. SameCommand /\ cmd' \in CmdType /\ CommandFits' /\ UninstallOrdered' /\ Left' = Rest
    BY <1>1, <1>4, ThenNothing
  <2>3. UninstallProgress'
    <3> SUFFICES ASSUME UninstallProgress PROVE UninstallProgress'
      BY DEF ServicesInv
    <3>1. \A t \in Service : Disables(t) \cap Left' = Disables(t) \cap Left
      BY <1>2, <2>2 DEF Disables
    <3>2. \A t \in Service : Stops(t) \cap Left' = Stops(t) \cap Left
      BY <1>2, <2>2 DEF Stops
    <3>3. \A t \in Service : <<"exists", t>> \notin Left'
      BY <1>3, <2>2 DEF Dismantles, Stops
    <3> QED
      BY <1>1, <1>2, <1>4, <2>2, <3>1, <3>2, <3>3 DEF UninstallProgress, SameCommand, Service
  <2> QED
    BY <1>2, <2>1, <2>2, <2>3, DoneStep DEF SameCommand, SetupProgress, StopProgress
<1>5. CASE UNCHANGED unit /\ Fails("remove")
  <2>1. ServiceTypeOK'
    BY <1>1, <1>5 DEF ServiceTypeOK
  <2> QED
    BY <1>1, <1>5, <2>1, FailedStep DEF Fails
<1> QED
  BY <1>4, <1>5 DEF RemoveUnit

\* The programs and the link go, the decoder stays.
LEMMA RemoveBinariesInv == ServicesInv /\ RemoveBinaries => ServicesInv'
<1> SUFFICES ASSUME ServicesInv, RemoveBinaries PROVE ServicesInv'
  OBVIOUS
<1>1. At("remove-binaries", "all") /\ UNCHANGED <<unit, enabled, state>> /\ ServiceTypeOK
  BY TypeParts DEF RemoveBinaries, ServicesInv
<1>2. cmd.op = "uninstall" /\ Left = {<<"remove-binaries", "all">>} \cup Rest
  BY <1>1, HeadStep, CommandOf
<1>3. CASE binaries' = binaries \cap {"decoder"} /\ Then(<<>>)
  <2>1. ServiceTypeOK'
    BY <1>1, <1>3 DEF ServiceTypeOK
  <2>2. SameCommand /\ cmd' \in CmdType /\ CommandFits' /\ UninstallOrdered' /\ Left' = Rest
    BY <1>1, <1>3, ThenNothing
  <2>3. UninstallProgress'
    <3> SUFFICES ASSUME UninstallProgress PROVE UninstallProgress'
      BY DEF ServicesInv
    <3>1. \A t \in Service : Disables(t) \cap Left' = Disables(t) \cap Left
      BY <1>2, <2>2 DEF Disables
    <3>2. \A t \in Service : Stops(t) \cap Left' = Stops(t) \cap Left
      BY <1>2, <2>2 DEF Stops
    <3> QED
      BY <1>1, <1>2, <1>3, <2>2, <3>1, <3>2 DEF UninstallProgress, SameCommand, Service
  <2> QED
    BY <1>2, <2>1, <2>2, <2>3, DoneStep DEF SameCommand, SetupProgress, StopProgress
<1>4. CASE /\ \E b \in binaries \ {"decoder"} : binaries' = binaries \cap {"decoder", b}
           /\ Fails("remove-binaries")
  <2>1. ServiceTypeOK'
    BY <1>1, <1>4 DEF ServiceTypeOK
  <2> QED
    BY <1>1, <1>4, <2>1, FailedStep DEF Fails
<1> QED
  BY <1>3, <1>4 DEF RemoveBinaries

-----------------------------------------------------------------------------
(***************************************************************************)
(* systemd and the machine.                                                *)
(***************************************************************************)

\* A command that is disturbed is the same otherwise.
LEMMA DisturbedFields ==
    ASSUME cmd \in CmdType, cmd' = Disturbed
    PROVE  /\ cmd' \in CmdType /\ cmd'.op = cmd.op /\ cmd'.todo = cmd.todo
           /\ cmd'.failures = cmd.failures /\ cmd'.aborted = cmd.aborted
           /\ cmd'.disturbed /\ cmd'.orphans = cmd.orphans
PROOF BY DEF Disturbed, CmdType

\* What systemd does to a service while a command is in progress.
LEMMA DisturbedInv ==
    ASSUME ServicesInv, cmd' = Disturbed, UNCHANGED <<unit, enabled, binaries>>,
           state' \in [Service -> {"stopped", "running", "waiting"}],
           \A t \in Service : state[t] # "stopped" => state'[t] # "stopped",
           \A t \in Service : state'[t] # "stopped" /\ state[t] = "stopped" =>
               t \in unit /\ (t = "zstor" \/ (t = "quantumd" /\ state["zdb"] # "stopped"))
    PROVE  ServicesInv'
<1>1. /\ ServiceTypeOK /\ cmd \in CmdType /\ CommandFits /\ SetupProgress
      /\ UninstallOrdered /\ UninstallProgress
  BY TypeParts DEF ServicesInv
<1>2. /\ cmd' \in CmdType /\ cmd'.op = cmd.op /\ cmd'.todo = cmd.todo
      /\ cmd'.failures = cmd.failures /\ cmd'.aborted = cmd.aborted
      /\ cmd'.disturbed /\ cmd'.orphans = cmd.orphans
  BY <1>1, DisturbedFields
<1>3. ServiceTypeOK' /\ Left' = Left
  BY <1>1, <1>2 DEF ServiceTypeOK, Left
<1>4. CommandFits' /\ UninstallOrdered'
  BY <1>1, <1>2, <1>3 DEF CommandFits, UninstallOrdered
<1>5. SetupProgress'
  BY <1>1, <1>2, <1>3 DEF SetupProgress
<1>6. StopProgress'
  BY <1>2 DEF StopProgress
<1>7. UninstallProgress'
  <2> SUFFICES ASSUME cmd.op = "uninstall", cmd.failures = 0, ~ cmd.orphans
               PROVE  UninstallProgress'
    BY <1>2 DEF UninstallProgress
  <2>1. ASSUME NEW t \in Service
        PROVE  /\ state'[t] # "stopped" => Stops(t) \cap Left # {} \/ t = "zstor"
               /\ t \notin unit /\ <<"exists", t>> \in Left => state'[t] = "stopped"
    <3>1. CASE state[t] # "stopped"
      BY <1>1, <3>1 DEF UninstallProgress
    <3>2. CASE state[t] = "stopped" /\ t = "quantumd" /\ state'[t] # "stopped"
      <4>1. state["zdb"] # "stopped" /\ t \in unit
        BY <3>2
      <4>2. Stops("zdb") \cap Left # {}
        BY <1>1, <4>1 DEF UninstallProgress, Service
      <4>3. <<"exists", "quantumd">> \in Left
        BY <1>1, <4>2 DEF UninstallProgress
      <4> QED
        BY <3>2, <4>1, <4>3 DEF Stops
    <3> QED
      BY <3>1, <3>2
  <2> QED
    BY <1>1, <1>2, <1>3, <2>1 DEF UninstallProgress
<1> QED
  BY <1>2, <1>3, <1>4, <1>5, <1>6, <1>7, DoneStep

\* zstor and quantumd are wanted, quantumd by zdb only.
LEMMA WantedBy ==
    ASSUME NEW t \in Service, NEW s \in Wants(t)
    PROVE  s = "zstor" \/ (s = "quantumd" /\ t = "zdb")
<1>1. Wants("zdb") = {"zstor", "quantumd"}
  BY DEF Wants
<1>2. Wants("zdbfs") = {"zstor"}
  BY DEF Wants
<1>3. Wants("zstor") = {}
  BY DEF Wants
<1>4. Wants("quantumd") = {}
  BY DEF Wants
<1> QED
  BY <1>1, <1>2, <1>3, <1>4 DEF Service

\* A service ends, or is restarted with those it wants.
LEMMA SystemdInv ==
    ASSUME ServicesInv, NEW s \in Service, ServiceEnds(s) \/ AutoRestart(s)
    PROVE  ServicesInv'
<1>1. ServiceTypeOK
  BY TypeParts DEF ServicesInv
<1>2. CASE ServiceEnds(s)
  <2>1. state' = [state EXCEPT ![s] = "waiting"] /\ state[s] = "running"
    BY <1>2 DEF ServiceEnds
  <2>2. state' \in [Service -> {"stopped", "running", "waiting"}]
    BY <1>1, <2>1 DEF ServiceTypeOK
  <2>3. \A t \in Service : state[t] # "stopped" <=> state'[t] # "stopped"
    BY <1>1, <2>1 DEF ServiceTypeOK
  <2> QED
    BY <1>2, <2>2, <2>3, DisturbedInv DEF ServiceEnds
<1>3. CASE AutoRestart(s)
  <2>1. state' = Started({s}) /\ state[s] = "waiting"
    BY <1>3 DEF AutoRestart
  <2>2. /\ state' \in [Service -> {"stopped", "running", "waiting"}]
        /\ \A t \in Service : state[t] # "stopped" => state'[t] # "stopped"
    BY <1>1, <2>1, StartedType
  <2>3. ASSUME NEW t \in Service, state'[t] # "stopped", state[t] = "stopped"
        PROVE  t \in unit /\ (t = "zstor" \/ (t = "quantumd" /\ state["zdb"] # "stopped"))
    <3>1. t \in unit /\ t \in Wants(s)
      BY <2>1, <2>3 DEF Started
    <3> QED
      BY <2>1, <3>1, WantedBy
  <2> QED
    BY <1>3, <2>2, <2>3, DisturbedInv DEF AutoRestart
<1> QED
  BY <1>2, <1>3

\* The machine boots.
LEMMA RebootInv == ServicesInv /\ Reboot => ServicesInv'
<1> SUFFICES ASSUME ServicesInv, Reboot PROVE ServicesInv'
  OBVIOUS
<1>1. ServiceTypeOK
  BY TypeParts DEF ServicesInv
<1>2. cmd' = NoCommand /\ UNCHANGED <<unit, enabled, binaries>>
  BY DEF Reboot
<1>3. state' \in [Service -> {"stopped", "running", "waiting"}]
  BY DEF Reboot
<1>4. ServiceTypeOK'
  BY <1>1, <1>2, <1>3 DEF ServiceTypeOK
<1>5. ServiceTypeOK' /\ (cmd = NoCommand)' => ServicesInv'
  BY NoCommandInv, PTL
<1> QED
  BY <1>2, <1>4, <1>5

-----------------------------------------------------------------------------
(***************************************************************************)
(* The theorems.                                                           *)
(***************************************************************************)

\* Every step of a command keeps what the command owes among what is left.
LEMMA ExecuteInv == ServicesInv /\ Execute => ServicesInv'
PROOF BY PrepareInv, ReloadInv, RemoveBinariesInv, WriteInv, EnableInv, StartInv,
         TestActiveInv, StopInv, TestExistsInv, DisableInv, RemoveInv DEF Execute

\* Where nothing changes there is nothing to show.
LEMMA StutterInv == ServicesInv /\ UNCHANGED vars => ServicesInv'
<1> SUFFICES ASSUME ServicesInv, UNCHANGED vars PROVE ServicesInv'
  OBVIOUS
<1>1. UNCHANGED <<unit, enabled, state, binaries, cmd>>
  BY DEF vars
<1> QED
  BY <1>1 DEF ServicesInv, ServicesTypeOK, CommandFits, SetupProgress, StopProgress,
              UninstallOrdered, UninstallProgress, Left

\* So does everything else that happens.
LEMMA NextInv == ServicesInv /\ [Next]_vars => ServicesInv'
<1> SUFFICES ASSUME ServicesInv, [Next]_vars PROVE ServicesInv'
  OBVIOUS
<1>1. ASSUME NEW op \in Operations, NEW s \in Service, Begin(op, s) PROVE ServicesInv'
  BY <1>1, BeginInv
<1>2. CASE Execute
  BY <1>2, ExecuteInv
<1>3. CASE Systemd
  BY <1>3, SystemdInv DEF Systemd
<1>4. CASE Reboot
  BY <1>4, RebootInv
<1>5. CASE UNCHANGED vars
  BY <1>5, StutterInv
<1> QED
  BY <1>1, <1>2, <1>3, <1>4, <1>5 DEF Next

\* Whatever a command still owes is among the steps that are left of it, and
\* the steps of an uninstallation are in the order that it needs.
THEOREM Invariance == Spec => []ServicesInv
PROOF BY InitInv, NextInv, PTL DEF Spec

\* Units, states, programs and the command in progress are of their types.  The
\* failures of a command stay within their bound, and beyond it only for the
\* services without a unit.
THEOREM TypeCorrect == Spec => []ServicesTypeOK
<1>1. ServicesInv => ServicesTypeOK
  BY DEF ServicesInv
<1> QED
  BY Invariance, <1>1, PTL

\* What is owed by a command of which nothing is left is done.
LEMMA NothingLeft == ServicesInv /\ cmd.todo = <<>> => Left = {}
PROOF BY ToSetEmpty DEF Left

\* After a setup that says it completed every service runs or is about to be
\* restarted, and all that it did not warn about start at boot.
LEMMA SetupDone == ServicesInv => SetupComplete
<1> SUFFICES ASSUME ServicesInv, Complete("setup") PROVE SetupComplete
  BY DEF SetupComplete
<1>1. Left = {} /\ cmd.op = "setup" /\ ~ cmd.aborted
  BY NothingLeft DEF Complete
<1>2. SetupProgress /\ unit \subseteq Service /\ enabled \subseteq Service
  BY DEF ServicesInv, ServicesTypeOK
<1> QED
  BY <1>1, <1>2 DEF SetupProgress, SetupComplete

\* After a stop of all services that reported no failure all are stopped, if
\* none was waiting for its restart and none ended by itself meanwhile.
LEMMA StopDone == ServicesInv => StopComplete
<1> SUFFICES ASSUME ServicesInv, Complete("stop-all"), cmd.failures = 0, ~ cmd.disturbed
             PROVE  StopComplete
  BY DEF StopComplete
<1>1. Left = {} /\ cmd.op = "stop-all"
  BY NothingLeft DEF Complete
<1>2. StopProgress /\ state \in [Service -> {"stopped", "running", "waiting"}]
  BY DEF ServicesInv, ServicesTypeOK
<1> QED
  BY <1>1, <1>2 DEF StopProgress, StopComplete

\* After an uninstallation that reported no failure nothing is left.
LEMMA UninstallDone == ServicesInv => UninstallComplete
<1> SUFFICES ASSUME ServicesInv, Complete("uninstall"), cmd.failures = 0, ~ cmd.orphans
             PROVE  UninstallComplete
  BY DEF UninstallComplete
<1>1. Left = {} /\ cmd.op = "uninstall"
  BY NothingLeft DEF Complete
<1>2. UninstallProgress /\ unit \subseteq Service /\ enabled \subseteq Service
  BY DEF ServicesInv, ServicesTypeOK
<1> QED
  BY <1>1, <1>2 DEF UninstallProgress, UninstallComplete

\* A setup that says it completed did: every service has its unit and runs or
\* is about to be restarted, for any number of earlier commands, failures and
\* ends of services.
THEOREM SetupIsComplete == Spec => []SetupComplete
PROOF BY Invariance, SetupDone, PTL

\* A stop of all services that reported no failure stopped them, unless systemd
\* was about to restart one or one ended meanwhile.
THEOREM StopIsComplete == Spec => []StopComplete
PROOF BY Invariance, StopDone, PTL

\* An uninstallation that reported no failure left no unit, no service that
\* starts at boot, no program but the decoder, and nothing that runs but zstor.
THEOREM UninstallIsComplete == Spec => []UninstallComplete
PROOF BY Invariance, UninstallDone, PTL
=============================================================================
