------------------------- MODULE HealthMetrics_proofs -------------------------
(***************************************************************************)
(* Proof that the scraper counts what it has read, and that neither        *)
(* goroutine counts a file twice, for any backends, files and placements,  *)
(* and however often the surroundings change.                              *)
(***************************************************************************)
EXTENDS HealthMetrics, FiniteSetTheorems, TLAPS

\* What the rest needs of the types.
ProcRecord ==
    [pc : {"idle", "process", "count", "set"}, map : Partial(Files, Placements),
     shared : BOOLEAN, left : SUBSET Files, good : SUBSET (Files \X Placements),
     bad : SUBSET (Files \X Placements)]

\* What a goroutine has left is in the map it iterates over, and the scraper
\* shares the map that is in metadataStore.
Sound(g, r, store) ==
    /\ r \in ProcRecord
    /\ r.left \subseteq DOMAIN r.map
    /\ g = "scraper" /\ r.shared => r.map = store

Shape ==
    /\ metadataStore \in Partial(Files, Placements)
    /\ proc = [g \in Goroutines |-> proc[g]]
    /\ \A g \in Goroutines : Sound(g, proc[g], metadataStore)

\* The status of a backend is the one that was read, once it is processed; it
\* stays until the next scrape, which follows the count.
Processed(b) == b \in DOMAIN backendStatus /\ backendStatus[b] = read[b]

StatusIsRead ==
    /\ proc["scraper"].pc = "process" => \A b \in DOMAIN read \ todo : Processed(b)
    /\ proc["scraper"].pc \in {"count", "set"} => \A b \in DOMAIN read : Processed(b)

GoodIsHealthy ==
    proc["scraper"].pc \in {"count", "set"} =>
        \A c \in proc["scraper"].good : Healthy(backendStatus, c[2])

HealthInv == Shape /\ StatusIsRead /\ GoodIsHealthy

-----------------------------------------------------------------------------
\* A new entry leaves a partial function one.
LEMMA PutPartial ==
    ASSUME NEW S, NEW T, NEW h \in Partial(S, T), NEW x \in S, NEW y \in T
    PROVE  /\ Put(h, x, y) \in Partial(S, T)
           /\ DOMAIN Put(h, x, y) = DOMAIN h \cup {x}
<1>1. PICK D \in SUBSET S : h \in [D -> T]
  BY DEF Partial
<1>2. Put(h, x, y) \in [D \cup {x} -> T]
  BY <1>1 DEF Put
<1>3. D \cup {x} \in SUBSET S
  BY <1>1
<1> QED
  BY <1>1, <1>2, <1>3 DEF Put, Partial

\* Two partial functions with values in T.
LEMMA PartialValues ==
    ASSUME NEW S, NEW T, NEW h \in Partial(S, T)
    PROVE  DOMAIN h \subseteq S /\ \A x \in DOMAIN h : h[x] \in T
PROOF BY DEF Partial

\* The empty function is partial on any sets.
LEMMA EmptyPartial == ASSUME NEW S, NEW T PROVE Empty \in Partial(S, T)
<1>1. Empty \in [{} -> T]
  BY DEF Empty
<1> QED
  BY <1>1 DEF Partial

\* Idle goroutines hold nothing.
LEMMA IdleSound ==
    ASSUME NEW g, NEW store
    PROVE  Sound(g, Idle, store) /\ Idle.pc = "idle"
PROOF BY EmptyPartial DEF Idle, Sound, ProcRecord

\* One that begins to count has counted nothing.
LEMMA CountingSound ==
    ASSUME NEW g, NEW store \in Partial(Files, Placements)
    PROVE  /\ Sound(g, Counting(store), store)
           /\ Counting(store).pc = "count"
           /\ Counting(store).good = {}
<1>1. DOMAIN store \in SUBSET Files
  BY PartialValues
<1>2. Idle \in ProcRecord /\ Idle.good = {}
  BY EmptyPartial DEF Idle, ProcRecord
<1>3. /\ Counting(store) \in ProcRecord
      /\ Counting(store).pc = "count"
      /\ Counting(store).good = {}
      /\ Counting(store).map = store
      /\ Counting(store).left = DOMAIN store
  BY <1>1, <1>2 DEF Counting, ProcRecord
<1> QED
  BY <1>1, <1>3 DEF Sound

\* Statuses that agree make the same files healthy.
LEMMA HealthyCongruence ==
    ASSUME NEW s, NEW t, NEW p, DOMAIN s = DOMAIN t,
           \A b \in DOMAIN t : s[b] = t[b], Healthy(s, p)
    PROVE  Healthy(t, p)
<1>1. LiveIn(s, p) = LiveIn(t, p)
  BY DEF LiveIn
<1> QED
  BY <1>1 DEF Healthy

-----------------------------------------------------------------------------
\* One goroutine takes a step on what it holds.
LEMMA OneProc ==
    ASSUME Shape, NEW g \in Goroutines, NEW r,
           metadataStore' = metadataStore,
           Sound(g, r, metadataStore),
           proc' = [proc EXCEPT ![g] = r]
    PROVE  /\ Shape'
           /\ proc'[g] = r
           /\ \A h \in Goroutines : h # g => proc'[h] = proc[h]
<1>1. proc' = [h \in Goroutines |-> IF h = g THEN r ELSE proc[h]]
  BY DEF Shape
<1> QED
  BY <1>1 DEF Shape

\* Nothing is counted, and nothing read, in the beginning.
LEMMA InitHealth == Init => HealthInv
<1> SUFFICES ASSUME Init PROVE HealthInv
  OBVIOUS
<1>1. \A g \in Goroutines : proc[g] = Idle
  BY DEF Init
<1>2. Shape
  BY <1>1, IdleSound, EmptyPartial DEF Init, Shape
<1> QED
  BY <1>1, <1>2, IdleSound DEF HealthInv, StatusIsRead, GoodIsHealthy, Goroutines

\* A step that leaves the scraper's phase and count, and what it read, alone.
LEMMA ScraperUnchanged ==
    ASSUME HealthInv, Shape',
           proc'["scraper"].pc = proc["scraper"].pc,
           proc'["scraper"].good = proc["scraper"].good,
           UNCHANGED <<backendStatus, read, todo>>
    PROVE  HealthInv'
PROOF BY DEF HealthInv, StatusIsRead, GoodIsHealthy, Processed, Healthy, LiveIn

\* Where none of it changes there is nothing to show; an ended process keeps
\* its memory until the next one starts.
LEMMA MemoryUnchanged ==
    ASSUME HealthInv, UNCHANGED <<backendStatus, metadataStore, read, todo, proc>>
    PROVE  HealthInv'
<1>1. Shape'
  BY DEF HealthInv, Shape, Sound
<1> QED
  BY <1>1, ScraperUnchanged

\* A goroutine that counts, whatever the other one does meanwhile.
LEMMA StepHealth ==
    ASSUME HealthInv, NEW g \in Goroutines, Step(g)
    PROVE  HealthInv'
<1> DEFINE r == proc[g]
<1>1. /\ UNCHANGED <<backendStatus, metadataStore, read, todo>>
      /\ Shape
      /\ Sound(g, r, metadataStore)
      /\ "scraper" \in Goroutines
  BY DEF Step, CountFile, SetHealthy, SetUnhealthy, HealthInv, Shape, Goroutines
<1>2. CASE CountFile(g)
  <2>1. PICK f \in r.left :
           LET p == r.map[f]
           IN  proc' = IF Healthy(backendStatus, p)
                       THEN [proc EXCEPT ![g].left = @ \ {f}, ![g].good = @ \cup {<<f, p>>}]
                       ELSE [proc EXCEPT ![g].left = @ \ {f}, ![g].bad = @ \cup {<<f, p>>}]
    BY <1>2 DEF CountFile
  <2> DEFINE p == r.map[f]
  <2>2. f \in Files /\ p \in Placements
    BY <1>1, <2>1, PartialValues DEF Sound, ProcRecord
  <2>3. CASE Healthy(backendStatus, p)
    <3> DEFINE s == [r EXCEPT !.left = @ \ {f}, !.good = @ \cup {<<f, p>>}]
    <3>1. proc' = [proc EXCEPT ![g] = s]
      <4>1. proc' = [proc EXCEPT ![g].left = @ \ {f}, ![g].good = @ \cup {<<f, p>>}]
        BY <2>1, <2>3
      <4>2. /\ proc = [h \in Goroutines |-> proc[h]]
            /\ r \in ProcRecord
        BY <1>1 DEF Shape, Sound
      <4> HIDE DEF p
      <4>3. proc' = [h \in Goroutines |-> IF h = g THEN s ELSE proc[h]]
        BY <1>1, <4>1 DEF Shape
      <4> HIDE DEF s
      <4> QED
        BY <4>2, <4>3
    <3>2. /\ Sound(g, s, metadataStore)
          /\ s.pc = r.pc
          /\ s.good = r.good \cup {<<f, p>>}
      <4>1. <<f, p>> \in Files \X Placements
        BY <2>2
      <4> HIDE DEF p
      <4>2. /\ s \in ProcRecord /\ s.pc = r.pc /\ s.map = r.map
            /\ s.shared = r.shared /\ s.left = r.left \ {f}
            /\ s.good = r.good \cup {<<f, p>>}
        BY <1>1, <4>1 DEF Sound, ProcRecord
      <4> QED
        BY <1>1, <4>2 DEF Sound
    <3> HIDE DEF s
    <3>3. /\ Shape' /\ proc'[g] = s
          /\ \A h \in Goroutines : h # g => proc'[h] = proc[h]
      BY <1>1, <3>1, <3>2, OneProc
    <3> HIDE DEF p
    <3>4. /\ proc'["scraper"].pc = proc["scraper"].pc
          /\ \A c \in proc'["scraper"].good :
                c \in proc["scraper"].good \/ c = <<f, p>>
      BY <1>1, <3>2, <3>3
    <3>5. GoodIsHealthy'
      <4> SUFFICES ASSUME proc["scraper"].pc \in {"count", "set"},
                          NEW c \in proc'["scraper"].good
                   PROVE  Healthy(backendStatus, c[2])
        BY <1>1, <3>4 DEF GoodIsHealthy, Healthy, LiveIn
      <4>1. CASE c \in proc["scraper"].good
        BY <4>1 DEF HealthInv, GoodIsHealthy
      <4>2. CASE c = <<f, p>>
        BY <2>3, <4>2 DEF p
      <4> QED
        BY <3>4, <4>1, <4>2
    <3>6. StatusIsRead'
      BY <1>1, <3>4 DEF HealthInv, StatusIsRead, Processed
    <3> QED
      BY <3>3, <3>5, <3>6 DEF HealthInv
  <2>4. CASE ~ Healthy(backendStatus, p)
    <3> DEFINE s == [r EXCEPT !.left = @ \ {f}, !.bad = @ \cup {<<f, p>>}]
    <3>1. proc' = [proc EXCEPT ![g] = s]
      <4>1. proc' = [proc EXCEPT ![g].left = @ \ {f}, ![g].bad = @ \cup {<<f, p>>}]
        BY <2>1, <2>4
      <4>2. /\ proc = [h \in Goroutines |-> proc[h]]
            /\ r \in ProcRecord
        BY <1>1 DEF Shape, Sound
      <4> HIDE DEF p
      <4>3. proc' = [h \in Goroutines |-> IF h = g THEN s ELSE proc[h]]
        BY <1>1, <4>1 DEF Shape
      <4> HIDE DEF s
      <4> QED
        BY <4>2, <4>3
    <3>2. Sound(g, s, metadataStore) /\ s.pc = r.pc /\ s.good = r.good
      <4>1. <<f, p>> \in Files \X Placements
        BY <2>2
      <4> HIDE DEF p
      <4>2. /\ s \in ProcRecord /\ s.pc = r.pc /\ s.map = r.map
            /\ s.shared = r.shared /\ s.left = r.left \ {f}
            /\ s.good = r.good
        BY <1>1, <4>1 DEF Sound, ProcRecord
      <4> QED
        BY <1>1, <4>2 DEF Sound
    <3> HIDE DEF s
    <3>3. /\ Shape' /\ proc'[g] = s
          /\ \A h \in Goroutines : h # g => proc'[h] = proc[h]
      BY <1>1, <3>1, <3>2, OneProc
    <3> QED
      BY <1>1, <3>2, <3>3, ScraperUnchanged
  <2> QED
    BY <2>3, <2>4
<1>3. CASE SetHealthy(g)
  <2> DEFINE s == [r EXCEPT !.pc = "set", !.shared = FALSE]
  <2>1. r.pc = "count" /\ proc' = [proc EXCEPT ![g] = s]
    BY <1>1, <1>3 DEF SetHealthy, Shape
  <2>2. Sound(g, s, metadataStore) /\ s.pc = "set" /\ s.good = r.good
    BY <1>1 DEF Sound, ProcRecord
  <2> HIDE DEF s
  <2>3. /\ Shape' /\ proc'[g] = s
        /\ \A h \in Goroutines : h # g => proc'[h] = proc[h]
    BY <1>1, <2>1, <2>2, OneProc
  <2>4. /\ proc'["scraper"].good = proc["scraper"].good
        /\ \/ proc'["scraper"].pc = proc["scraper"].pc
           \/ proc["scraper"].pc = "count" /\ proc'["scraper"].pc = "set"
    BY <1>1, <2>1, <2>2, <2>3
  <2>5. StatusIsRead'
    BY <1>1, <2>4 DEF HealthInv, StatusIsRead, Processed
  <2>6. GoodIsHealthy'
    BY <1>1, <2>4 DEF HealthInv, GoodIsHealthy, Healthy, LiveIn
  <2> QED
    BY <2>3, <2>5, <2>6 DEF HealthInv
<1>4. CASE SetUnhealthy(g)
  <2>1. proc' = [proc EXCEPT ![g] = Idle]
    BY <1>4 DEF SetUnhealthy
  <2>2. /\ Shape' /\ proc'[g] = Idle
        /\ \A h \in Goroutines : h # g => proc'[h] = proc[h]
    BY <1>1, <2>1, IdleSound, OneProc
  <2>3. CASE g = "scraper"
    BY <2>2, <2>3, IdleSound DEF HealthInv, StatusIsRead, GoodIsHealthy
  <2>4. CASE g # "scraper"
    BY <1>1, <2>2, <2>4, ScraperUnchanged
  <2> QED
    BY <2>3, <2>4
<1> QED
  BY <1>2, <1>3, <1>4 DEF Step

\* The main loop takes note of an upload: the scraper may see the new entry.
LEMMA UploadResultHealth ==
    ASSUME HealthInv, UNCHANGED <<backendStatus, read, todo>>,
           NEW f \in Files, NEW p \in Placements,
           metadataStore' = Put(metadataStore, f, p),
           IF proc["scraper"].shared
           THEN \E seen \in {{}, {f} \ DOMAIN metadataStore} :
                   proc' = [proc EXCEPT !["scraper"].map = metadataStore',
                                        !["scraper"].left = @ \cup seen]
           ELSE UNCHANGED proc
    PROVE  HealthInv'
<1> DEFINE r == proc["scraper"]
<1>1. /\ Shape /\ "scraper" \in Goroutines
      /\ \A g \in Goroutines : Sound(g, proc[g], metadataStore)
      /\ metadataStore' \in Partial(Files, Placements)
      /\ DOMAIN metadataStore' = DOMAIN metadataStore \cup {f}
  <2>1. metadataStore \in Partial(Files, Placements)
    BY DEF HealthInv, Shape
  <2>2. /\ Put(metadataStore, f, p) \in Partial(Files, Placements)
        /\ DOMAIN Put(metadataStore, f, p) = DOMAIN metadataStore \cup {f}
    BY <2>1, PutPartial
  <2> QED
    BY <2>2 DEF HealthInv, Shape, Goroutines
<1>2. CASE r.shared
  <2>1. PICK seen \in {{}, {f} \ DOMAIN metadataStore} :
           proc' = [proc EXCEPT !["scraper"].map = metadataStore',
                                !["scraper"].left = @ \cup seen]
    BY <1>2
  <2> DEFINE s == [r EXCEPT !.map = metadataStore', !.left = @ \cup seen]
  <2>2. proc' = [g \in Goroutines |-> IF g = "scraper" THEN s ELSE proc[g]]
    BY <1>1, <2>1 DEF Shape
  <2>3. r.left \subseteq DOMAIN metadataStore /\ r \in ProcRecord
    BY <1>1, <1>2 DEF Sound
  <2>4. /\ s \in ProcRecord /\ s.map = metadataStore'
        /\ s.left = r.left \cup seen /\ s.pc = r.pc /\ s.good = r.good
    BY <1>1, <2>3 DEF ProcRecord
  <2>5. Sound("scraper", s, metadataStore')
    BY <1>1, <2>3, <2>4 DEF Sound
  <2> HIDE DEF s
  <2>6. \A g \in Goroutines : Sound(g, proc'[g], metadataStore')
    BY <1>1, <2>2, <2>5 DEF Sound
  <2>7. Shape'
    BY <1>1, <2>2, <2>6 DEF Shape
  <2> QED
    BY <1>1, <2>2, <2>4, <2>7, ScraperUnchanged
<1>3. CASE ~ r.shared
  <2>1. proc' = proc
    BY <1>3
  <2>2. \A g \in Goroutines : Sound(g, proc[g], metadataStore')
    BY <1>1, <1>3 DEF Sound
  <2>3. Shape'
    BY <1>1, <2>1, <2>2 DEF Shape
  <2> QED
    BY <2>1, <2>3, ScraperUnchanged
<1> QED
  BY <1>2, <1>3

\* It replaces the map, and the scraper goes on with the former one.
LEMMA MetadataUpdateHealth == HealthInv /\ HandleMetadataUpdate => HealthInv'
<1> SUFFICES ASSUME HealthInv, HandleMetadataUpdate PROVE HealthInv'
  OBVIOUS
<1> DEFINE r == proc["scraper"]
           s == [r EXCEPT !.shared = FALSE]
           m == Counting(metadataStore')
<1>1. /\ UNCHANGED <<backendStatus, read, todo>>
      /\ metadataStore' \in Partial(Files, Placements)
      /\ proc' = [proc EXCEPT !["main"] = m, !["scraper"].shared = FALSE]
      /\ Shape /\ "scraper" \in Goroutines
      /\ Sound("scraper", r, metadataStore)
  BY DEF HandleMetadataUpdate, HealthInv, Shape, Goroutines
<1>2. Sound("main", m, metadataStore')
  BY <1>1, CountingSound
<1>3. Sound("scraper", s, metadataStore') /\ s.pc = r.pc /\ s.good = r.good
  BY <1>1 DEF Sound, ProcRecord
<1> HIDE DEF m
<1>4. proc' = [g \in Goroutines |-> IF g = "main" THEN m ELSE s]
  BY <1>1 DEF Shape, Goroutines
<1> HIDE DEF s
<1>5. Shape'
  BY <1>1, <1>2, <1>3, <1>4 DEF Shape, Goroutines
<1> QED
  BY <1>1, <1>3, <1>4, <1>5, ScraperUnchanged

\* The scraper enters what it read, backend by backend, and then counts.
LEMMA ScraperHealth ==
    HealthInv /\ (Scrape \/ ProcessMetric \/ UpdateGauges) => HealthInv'
<1> SUFFICES ASSUME HealthInv, Scrape \/ ProcessMetric \/ UpdateGauges
             PROVE  HealthInv'
  OBVIOUS
<1> DEFINE r == proc["scraper"]
<1>1. /\ Shape /\ "scraper" \in Goroutines
      /\ Sound("scraper", r, metadataStore)
  BY DEF HealthInv, Shape, Goroutines
<1>2. CASE Scrape
  <2> DEFINE s == [r EXCEPT !.pc = "process"]
  <2>1. /\ proc' = [proc EXCEPT !["scraper"] = s] /\ metadataStore' = metadataStore
        /\ read' = report /\ todo' = DOMAIN report
    BY <1>1, <1>2 DEF Scrape, Shape
  <2>2. Sound("scraper", s, metadataStore) /\ s.pc = "process"
    BY <1>1 DEF Sound, ProcRecord
  <2> HIDE DEF s
  <2>3. Shape' /\ proc'["scraper"] = s
    BY <1>1, <2>1, <2>2, OneProc
  <2> QED
    BY <2>1, <2>2, <2>3 DEF HealthInv, StatusIsRead, GoodIsHealthy
<1>3. CASE ProcessMetric
  <2>1. CASE Fatal
    BY <2>1, MemoryUnchanged DEF Fatal
  <2>2. CASE ~ Fatal
    <3>1. PICK b \in todo : /\ backendStatus' = Put(backendStatus, b, NewStatus(b))
                            /\ todo' = todo \ {b}
                            /\ UNCHANGED <<metadataStore, read, proc>>
      BY <1>3, <2>2 DEF ProcessMetric
    <3>2. r.pc = "process"
      BY <1>3 DEF ProcessMetric
    <3>3. Shape'
      BY <1>1, <3>1 DEF Shape, Sound
    <3>4. StatusIsRead'
      BY <3>1, <3>2 DEF HealthInv, StatusIsRead, Processed, Put, NewStatus
    <3> QED
      BY <3>1, <3>2, <3>3, <3>4 DEF HealthInv, GoodIsHealthy
  <2> QED
    BY <2>1, <2>2
<1>4. CASE UpdateGauges
  <2> DEFINE s == Counting(metadataStore)
  <2>1. /\ proc' = [proc EXCEPT !["scraper"] = s]
        /\ UNCHANGED <<metadataStore, backendStatus, read, todo>>
        /\ r.pc = "process" /\ todo = {}
    BY <1>4 DEF UpdateGauges, AfterScrape
  <2>2. Sound("scraper", s, metadataStore) /\ s.pc = "count" /\ s.good = {}
    BY <1>1, CountingSound DEF Shape
  <2> HIDE DEF s
  <2>3. Shape' /\ proc'["scraper"] = s
    BY <1>1, <2>1, <2>2, OneProc
  <2> QED
    BY <2>1, <2>2, <2>3 DEF HealthInv, StatusIsRead, GoodIsHealthy, Processed
<1> QED
  BY <1>2, <1>3, <1>4

\* The main loop counts the map as it is, when a retry cycle ends.
LEMMA RetryHealth == HealthInv /\ HandleRetry => HealthInv'
<1> SUFFICES ASSUME HealthInv, HandleRetry PROVE HealthInv'
  OBVIOUS
<1> DEFINE m == Counting(metadataStore)
<1>1. /\ UNCHANGED <<backendStatus, metadataStore, read, todo>>
      /\ proc' = [proc EXCEPT !["main"] = m]
      /\ Shape /\ "main" \in Goroutines /\ "scraper" \in Goroutines
  BY DEF HandleRetry, HealthInv, Goroutines
<1>2. Sound("main", m, metadataStore)
  BY <1>1, CountingSound DEF Shape
<1> HIDE DEF m
<1>3. Shape' /\ \A h \in Goroutines : h # "main" => proc'[h] = proc[h]
  BY <1>1, <1>2, OneProc
<1> QED
  BY <1>1, <1>3, ScraperUnchanged

\* A new process has counted nothing, whether or not its Init succeeds.
LEMMA StartHealth == HealthInv /\ (Start \/ StartFails) => HealthInv'
<1> SUFFICES ASSUME HealthInv, Start \/ StartFails PROVE HealthInv'
  OBVIOUS
<1>1. /\ proc' = [g \in Goroutines |-> Idle]
      /\ metadataStore' \in Partial(Files, Placements)
  BY EmptyPartial DEF Start, StartFails, NewProcess
<1>2. Shape'
  BY <1>1, IdleSound DEF Shape
<1> QED
  BY <1>1, <1>2, IdleSound DEF HealthInv, StatusIsRead, GoodIsHealthy, Goroutines

\* Every step of either goroutine, of zstor and of the service manager.
LEMMA NextHealth == HealthInv /\ [Next]_vars => HealthInv'
<1> SUFFICES ASSUME HealthInv, [Next]_vars PROVE HealthInv'
  OBVIOUS
<1>1. CASE Environment
  BY <1>1, MemoryUnchanged DEF Environment
<1>2. CASE HandleUploadResult
  <2>1. CASE Fatal
    BY <2>1, MemoryUnchanged DEF Fatal
  <2>2. CASE ~ Fatal
    BY <1>2, <2>2, UploadResultHealth DEF HandleUploadResult
  <2> QED
    BY <2>1, <2>2
<1>3. CASE HandleMetadataUpdate
  BY <1>3, MetadataUpdateHealth
<1>4. CASE Scrape \/ ProcessMetric \/ UpdateGauges
  BY <1>4, ScraperHealth
<1>5. CASE \E g \in Goroutines : Step(g)
  BY <1>5, StepHealth
<1>6. CASE HandleRetry
  BY <1>6, RetryHealth
<1>7. CASE Start \/ StartFails
  BY <1>7, StartHealth
<1>8. CASE EndMute
  BY <1>8, MemoryUnchanged DEF EndMute, Fatal
<1>9. CASE UNCHANGED vars
  BY <1>9, MemoryUnchanged DEF vars
<1> QED
  BY <1>1, <1>2, <1>3, <1>4, <1>5, <1>6, <1>7, <1>8, <1>9 DEF Next

\* The statuses that are counted with are those that were read, if zstor has
\* reported every backend it ever did.
LEMMA HealthCounts == HealthInv => CountsWhatItRead
<1> SUFFICES ASSUME HealthInv, proc["scraper"].pc \in {"count", "set"},
                    DOMAIN backendStatus = DOMAIN read,
                    NEW c \in proc["scraper"].good
             PROVE  Healthy(read, c[2])
  BY DEF CountsWhatItRead
<1>1. \A b \in DOMAIN read : backendStatus[b] = read[b]
  BY DEF HealthInv, StatusIsRead, Processed
<1>2. Healthy(backendStatus, c[2])
  BY DEF HealthInv, GoodIsHealthy
<1> QED
  BY <1>1, <1>2, HealthyCongruence

\* Every file that the scraper counts as healthy is so in what it has just
\* read, whatever the main loop does to the metadata meanwhile.
THEOREM CountsRead == Spec => []CountsWhatItRead
PROOF BY InitHealth, NextHealth, HealthCounts, PTL DEF Spec

-----------------------------------------------------------------------------
(***************************************************************************)
(* No iteration counts a file twice, so the gauges stay within the number  *)
(* of files.                                                               *)
(***************************************************************************)

\* A set of files and placements that has no file twice.
Functional(C) == \A c, d \in C : c[1] = d[1] => c = d

\* What is counted is in the map, and not left to be counted.
Once(r) ==
    /\ Functional(r.good) /\ Functional(r.bad)
    /\ \A c \in r.good \cup r.bad : c[1] \in DOMAIN r.map /\ c[1] \notin r.left
    /\ \A c \in r.good, d \in r.bad : c[1] # d[1]

\* Only the scraper processes a scrape.
OnceInv ==
    /\ \A g \in Goroutines : Once(proc[g])
    /\ proc["main"].pc # "process"

\* Nothing is counted by one that is idle or begins to count.
LEMMA OnceEmpty ==
    ASSUME NEW r, r.good = {}, r.bad = {}
    PROVE  Once(r)
PROOF BY DEF Once, Functional

\* What is counted stays where the map grows and what is left does not have it.
LEMMA OnceKept ==
    ASSUME NEW r, NEW s, Once(r), s.good = r.good, s.bad = r.bad,
           DOMAIN r.map \subseteq DOMAIN s.map,
           s.left \cap DOMAIN r.map \subseteq r.left
    PROVE  Once(s)
PROOF BY DEF Once, Functional

\* The next file that is left is counted.
LEMMA OnceNext ==
    ASSUME NEW r, NEW s, Once(r), NEW f \in r.left, NEW p,
           f \in DOMAIN r.map, s.map = r.map, s.left = r.left \ {f},
           \/ s.good = r.good \cup {<<f, p>>} /\ s.bad = r.bad
           \/ s.bad = r.bad \cup {<<f, p>>} /\ s.good = r.good
    PROVE  Once(s)
PROOF BY DEF Once, Functional

\* The first members of such pairs are as many.
LEMMA CountIsBounded ==
    ASSUME NEW C \in SUBSET (Files \X Placements), Functional(C)
    PROVE  Cardinality(C) \in 0..Cardinality(Files)
<1> DEFINE first == [c \in C |-> c[1]]
<1>1. first \in Injection(C, Files)
  <2>1. first \in [C -> Files]
    OBVIOUS
  <2>2. \A c, d \in C : first[c] = first[d] => c = d
    BY DEF Functional
  <2> QED
    BY <2>1, <2>2 DEF Injection, IsInjective
<1>2. IsFiniteSet(Files)
  BY HealthAssumption
<1>3. IsFiniteSet(C) /\ Cardinality(C) <= Cardinality(Files)
  BY <1>1, <1>2, FS_Injection
<1>4. Cardinality(C) \in Nat /\ Cardinality(Files) \in Nat
  BY <1>2, <1>3, FS_CardinalityType
<1> QED
  BY <1>3, <1>4

\* One goroutine takes a step on what it has counted.
LEMMA OneOnce ==
    ASSUME OnceInv, Shape, NEW g \in Goroutines, NEW s, Once(s),
           g = "main" => s.pc # "process",
           proc' = [proc EXCEPT ![g] = s]
    PROVE  OnceInv'
<1>1. proc' = [h \in Goroutines |-> IF h = g THEN s ELSE proc[h]]
  BY DEF Shape
<1>2. "main" \in Goroutines
  BY DEF Goroutines
<1> QED
  BY <1>1, <1>2 DEF OnceInv

\* A file is counted, and is not left to be counted.
LEMMA CountFileOnce ==
    ASSUME OnceInv, Shape, NEW g \in Goroutines, CountFile(g)
    PROVE  OnceInv'
<1> DEFINE r == proc[g]
<1>1. PICK f \in r.left :
         LET p == r.map[f]
         IN  proc' = IF Healthy(backendStatus, p)
                     THEN [proc EXCEPT ![g].left = @ \ {f}, ![g].good = @ \cup {<<f, p>>}]
                     ELSE [proc EXCEPT ![g].left = @ \ {f}, ![g].bad = @ \cup {<<f, p>>}]
  BY DEF CountFile
<1>2. /\ r \in ProcRecord /\ Once(r) /\ f \in DOMAIN r.map /\ r.pc = "count"
  BY DEF Shape, Sound, OnceInv, CountFile
<1> DEFINE p == r.map[f]
           s == IF Healthy(backendStatus, p)
                THEN [r EXCEPT !.left = @ \ {f}, !.good = @ \cup {<<f, p>>}]
                ELSE [r EXCEPT !.left = @ \ {f}, !.bad = @ \cup {<<f, p>>}]
<1>3. proc' = [proc EXCEPT ![g] = s]
  <2>1. CASE Healthy(backendStatus, p)
    <3>1. proc' = [proc EXCEPT ![g].left = @ \ {f}, ![g].good = @ \cup {<<f, p>>}]
      BY <1>1, <2>1
    <3> HIDE DEF p
    <3>2. proc' = [h \in Goroutines |-> IF h = g THEN s ELSE proc[h]]
      BY <2>1, <3>1 DEF Shape
    <3> HIDE DEF s
    <3> QED
      BY <3>2 DEF Shape
  <2>2. CASE ~ Healthy(backendStatus, p)
    <3>1. proc' = [proc EXCEPT ![g].left = @ \ {f}, ![g].bad = @ \cup {<<f, p>>}]
      BY <1>1, <2>2
    <3> HIDE DEF p
    <3>2. proc' = [h \in Goroutines |-> IF h = g THEN s ELSE proc[h]]
      BY <2>2, <3>1 DEF Shape
    <3> HIDE DEF s
    <3> QED
      BY <3>2 DEF Shape
  <2> QED
    BY <2>1, <2>2
<1> HIDE DEF p
<1>4. /\ s.map = r.map /\ s.left = r.left \ {f} /\ s.pc = r.pc
      /\ \/ s.good = r.good \cup {<<f, p>>} /\ s.bad = r.bad
         \/ s.bad = r.bad \cup {<<f, p>>} /\ s.good = r.good
  BY <1>2 DEF ProcRecord
<1> HIDE DEF s
<1>5. Once(s) /\ s.pc # "process"
  BY <1>2, <1>4, OnceNext
<1> QED
  BY <1>3, <1>5, OneOnce

\* The gauges are set, or a goroutine is idle again.
LEMMA SetOnce ==
    ASSUME OnceInv, Shape, NEW g \in Goroutines, SetHealthy(g) \/ SetUnhealthy(g)
    PROVE  OnceInv'
<1> DEFINE r == proc[g]
           s == [r EXCEPT !.pc = "set", !.shared = FALSE]
<1>1. r \in ProcRecord /\ Once(r)
  BY DEF Shape, Sound, OnceInv
<1>2. CASE SetHealthy(g)
  <2>1. proc' = [proc EXCEPT ![g] = s]
    BY <1>2 DEF SetHealthy, Shape
  <2>2. /\ s.good = r.good /\ s.bad = r.bad /\ s.map = r.map /\ s.left = r.left
        /\ s.pc = "set"
    BY <1>1 DEF ProcRecord
  <2> HIDE DEF s
  <2>3. Once(s)
    BY <1>1, <2>2, OnceKept
  <2> QED
    BY <2>1, <2>2, <2>3, OneOnce
<1>3. CASE SetUnhealthy(g)
  <2>1. proc' = [proc EXCEPT ![g] = Idle]
    BY <1>3 DEF SetUnhealthy
  <2>2. Once(Idle) /\ Idle.pc = "idle"
    BY OnceEmpty DEF Idle
  <2> QED
    BY <2>1, <2>2, OneOnce
<1> QED
  BY <1>2, <1>3

\* One that begins to count has counted nothing.
LEMMA CountingOnce ==
    ASSUME NEW store
    PROVE  Once(Counting(store)) /\ Counting(store).pc = "count"
<1>1. Counting(store).good = {} /\ Counting(store).bad = {} /\ Counting(store).pc = "count"
  BY DEF Counting, Idle
<1> QED
  BY <1>1, OnceEmpty

\* The map may grow under the scraper, which may see the new entry.
LEMMA UploadResultOnce ==
    ASSUME OnceInv, Shape,
           NEW f \in Files, NEW p \in Placements,
           metadataStore' = Put(metadataStore, f, p),
           IF proc["scraper"].shared
           THEN \E seen \in {{}, {f} \ DOMAIN metadataStore} :
                   proc' = [proc EXCEPT !["scraper"].map = metadataStore',
                                        !["scraper"].left = @ \cup seen]
           ELSE UNCHANGED proc
    PROVE  OnceInv'
<1> DEFINE r == proc["scraper"]
<1>1. CASE r.shared
  <2>1. PICK seen \in {{}, {f} \ DOMAIN metadataStore} :
           proc' = [proc EXCEPT !["scraper"].map = metadataStore',
                                !["scraper"].left = @ \cup seen]
    BY <1>1
  <2>2. /\ "scraper" \in Goroutines /\ r \in ProcRecord /\ Once(r)
        /\ r.map = metadataStore /\ metadataStore \in Partial(Files, Placements)
    BY <1>1 DEF Shape, Sound, OnceInv, Goroutines
  <2>3. DOMAIN metadataStore' = DOMAIN metadataStore \cup {f}
    BY <2>2, PutPartial
  <2> DEFINE s == [r EXCEPT !.map = metadataStore', !.left = @ \cup seen]
  <2>4. proc' = [h \in Goroutines |-> IF h = "scraper" THEN s ELSE proc[h]]
    BY <2>1, <2>2 DEF Shape
  <2>5. /\ s.good = r.good /\ s.bad = r.bad /\ s.map = metadataStore'
        /\ s.left = r.left \cup seen /\ s.pc = r.pc
    BY <2>2 DEF ProcRecord
  <2> HIDE DEF s
  <2>6. Once(s)
    BY <2>2, <2>3, <2>5, OnceKept
  <2> QED
    BY <2>2, <2>4, <2>6 DEF OnceInv, Goroutines
<1>2. CASE ~ r.shared
  BY <1>2 DEF OnceInv
<1> QED
  BY <1>1, <1>2

\* The main loop counts anew; the scraper goes on with the former map.
LEMMA MetadataUpdateOnce == OnceInv /\ Shape /\ HandleMetadataUpdate => OnceInv'
<1> SUFFICES ASSUME OnceInv, Shape, HandleMetadataUpdate PROVE OnceInv'
  OBVIOUS
<1> DEFINE r == proc["scraper"]
           s == [r EXCEPT !.shared = FALSE]
           m == Counting(metadataStore')
<1>1. /\ proc' = [proc EXCEPT !["main"] = m, !["scraper"].shared = FALSE]
      /\ r \in ProcRecord /\ Once(r)
  BY DEF HandleMetadataUpdate, Shape, Sound, OnceInv, Goroutines
<1>2. Once(m) /\ m.pc = "count"
  BY CountingOnce
<1> HIDE DEF m
<1>3. proc' = [g \in Goroutines |-> IF g = "main" THEN m ELSE s]
  BY <1>1 DEF Shape, Goroutines
<1>4. s.good = r.good /\ s.bad = r.bad /\ s.map = r.map /\ s.left = r.left
  BY <1>1 DEF ProcRecord
<1> HIDE DEF s
<1>5. Once(s)
  BY <1>1, <1>4, OnceKept
<1> QED
  BY <1>2, <1>3, <1>5 DEF OnceInv, Goroutines

\* The scraper reads, and then counts.
LEMMA ScraperOnce == OnceInv /\ Shape /\ (Scrape \/ UpdateGauges) => OnceInv'
<1> SUFFICES ASSUME OnceInv, Shape, Scrape \/ UpdateGauges PROVE OnceInv'
  OBVIOUS
<1> DEFINE r == proc["scraper"]
           s == [r EXCEPT !.pc = "process"]
<1>1. "scraper" \in Goroutines /\ r \in ProcRecord /\ Once(r)
  BY DEF Shape, Sound, OnceInv, Goroutines
<1>2. CASE Scrape
  <2>1. proc' = [proc EXCEPT !["scraper"] = s]
    BY <1>1, <1>2 DEF Scrape, Shape
  <2>2. s.good = r.good /\ s.bad = r.bad /\ s.map = r.map /\ s.left = r.left
    BY <1>1 DEF ProcRecord
  <2> HIDE DEF s
  <2>3. Once(s)
    BY <1>1, <2>2, OnceKept
  <2> QED
    BY <1>1, <2>1, <2>3, OneOnce
<1>3. CASE UpdateGauges
  <2>1. proc' = [proc EXCEPT !["scraper"] = Counting(metadataStore)]
    BY <1>3 DEF UpdateGauges, AfterScrape
  <2> QED
    BY <1>1, <2>1, CountingOnce, OneOnce
<1> QED
  BY <1>2, <1>3

\* Nothing is counted to begin with.
LEMMA InitOnce == Init => OnceInv
<1>1. Once(Idle) /\ Idle.pc = "idle"
  BY OnceEmpty DEF Idle
<1> QED
  BY <1>1 DEF Init, OnceInv, Goroutines

\* Every step counts a file once or not at all.
LEMMA NextOnce == OnceInv /\ HealthInv /\ [Next]_vars => OnceInv'
<1> SUFFICES ASSUME OnceInv, HealthInv, [Next]_vars PROVE OnceInv'
  OBVIOUS
<1>1. Shape
  BY DEF HealthInv
<1>2. ASSUME UNCHANGED proc PROVE OnceInv'
  BY <1>2 DEF OnceInv
<1>3. CASE Environment
  BY <1>2, <1>3 DEF Environment
<1>4. CASE HandleUploadResult
  <2>1. CASE Fatal
    BY <1>2, <2>1 DEF Fatal
  <2>2. CASE ~ Fatal
    BY <1>1, <1>4, <2>2, UploadResultOnce DEF HandleUploadResult
  <2> QED
    BY <2>1, <2>2
<1>5. CASE HandleMetadataUpdate
  BY <1>1, <1>5, MetadataUpdateOnce
<1>6. CASE Scrape \/ UpdateGauges
  BY <1>1, <1>6, ScraperOnce
<1>7. CASE ProcessMetric
  BY <1>2, <1>7 DEF ProcessMetric, Fatal
<1>8. ASSUME NEW g \in Goroutines, Step(g) PROVE OnceInv'
  BY <1>1, <1>8, CountFileOnce, SetOnce DEF Step
<1>9. CASE Start \/ StartFails
  <2>1. proc' = [g \in Goroutines |-> Idle]
    BY <1>9 DEF Start, StartFails, NewProcess
  <2>2. Once(Idle) /\ Idle.pc = "idle"
    BY OnceEmpty DEF Idle
  <2> QED
    BY <2>1, <2>2 DEF OnceInv, Goroutines
<1>10. CASE HandleRetry
  <2>1. /\ proc' = [proc EXCEPT !["main"] = Counting(metadataStore)]
        /\ "main" \in Goroutines
    BY <1>10 DEF HandleRetry, Goroutines
  <2>2. Once(Counting(metadataStore)) /\ Counting(metadataStore).pc # "process"
    BY CountingOnce
  <2> QED
    BY <1>1, <2>1, <2>2, OneOnce
<1>11. CASE EndMute
  BY <1>2, <1>11 DEF EndMute, Fatal
<1>12. CASE UNCHANGED vars
  BY <1>2, <1>12 DEF vars
<1> QED
  BY <1>3, <1>4, <1>5, <1>6, <1>7, <1>8, <1>9, <1>10, <1>11, <1>12 DEF Next

\* What the two goroutines share, and what is published.
SharedTypeOK ==
    /\ report \in Partial(Backends, BOOLEAN)
    /\ endpoint \in BOOLEAN
    /\ daemon \in {"ended", "running", "mute"}
    /\ backendStatus \in Partial(Backends, BOOLEAN)
    /\ read \in Partial(Backends, BOOLEAN)
    /\ todo \subseteq DOMAIN read
    /\ statusGauge \in Partial(Backends, BOOLEAN)
    /\ healthyFileConfigs \in 0..Cardinality(Files)
    /\ unhealthyFileConfigs \in 0..Cardinality(Files)
    /\ changes \in 0..MaxChanges /\ fatals \in 0..MaxFatal

\* The gauges are 0 to begin with.
LEMMA InitShared == Init => SharedTypeOK
<1>1. Cardinality(Files) \in Nat
  BY HealthAssumption, FS_CardinalityType
<1>2. MaxChanges \in Nat /\ MaxFatal \in Nat
  BY HealthAssumption
<1>3. Empty \in Partial(Backends, BOOLEAN)
  BY EmptyPartial
<1> QED
  BY <1>1, <1>2, <1>3 DEF Init, SharedTypeOK

\* A race that is noticed ends the process, and the bound says how often.
LEMMA FatalShared == SharedTypeOK /\ Fatal => SharedTypeOK'
<1> SUFFICES ASSUME SharedTypeOK, Fatal PROVE SharedTypeOK'
  OBVIOUS
<1>1. fatals' \in 0..MaxFatal
  BY HealthAssumption DEF SharedTypeOK, Fatal
<1>2. daemon' = "ended"
  BY DEF Fatal
<1> QED
  BY <1>1, <1>2 DEF SharedTypeOK, Fatal, environment, gauges

\* What is set is what has been counted, which is within the number of files.
LEMMA StepShared ==
    ASSUME SharedTypeOK, OnceInv, Shape, NEW g \in Goroutines, Step(g)
    PROVE  SharedTypeOK'
<1>1. /\ Cardinality(proc[g].good) \in 0..Cardinality(Files)
      /\ Cardinality(proc[g].bad) \in 0..Cardinality(Files)
  <2>1. proc[g] \in ProcRecord /\ Once(proc[g])
    BY DEF Shape, Sound, OnceInv
  <2>2. /\ proc[g].good \in SUBSET (Files \X Placements) /\ Functional(proc[g].good)
        /\ proc[g].bad \in SUBSET (Files \X Placements) /\ Functional(proc[g].bad)
    BY <2>1 DEF ProcRecord, Once
  <2> QED
    BY <2>2, CountIsBounded
<1>2. CASE CountFile(g)
  BY <1>2 DEF CountFile, SharedTypeOK, environment, gauges
<1>3. CASE SetHealthy(g)
  BY <1>1, <1>3 DEF SetHealthy, GaugeSet, SharedTypeOK, environment
<1>4. CASE SetUnhealthy(g)
  BY <1>1, <1>4 DEF SetUnhealthy, GaugeSet, SharedTypeOK, environment
<1> QED
  BY <1>2, <1>3, <1>4 DEF Step

\* A backend that is processed has been read.
LEMMA ProcessMetricShared == SharedTypeOK /\ ProcessMetric => SharedTypeOK'
<1> SUFFICES ASSUME SharedTypeOK, ProcessMetric PROVE SharedTypeOK'
  OBVIOUS
<1>1. CASE Fatal
  BY <1>1, FatalShared
<1>2. CASE ~ Fatal
  <2>1. PICK b \in todo : /\ backendStatus' = Put(backendStatus, b, NewStatus(b))
                          /\ todo' = todo \ {b}
                          /\ UNCHANGED <<environment, daemon, metadataStore, read, proc,
                                         gauges, fatals>>
    BY <1>2 DEF ProcessMetric
  <2>2. b \in Backends /\ NewStatus(b) \in BOOLEAN
    BY <2>1, PartialValues DEF SharedTypeOK, NewStatus
  <2>3. backendStatus' \in Partial(Backends, BOOLEAN)
    BY <2>1, <2>2, PutPartial DEF SharedTypeOK
  <2> QED
    BY <2>1, <2>3 DEF SharedTypeOK, environment, gauges
<1> QED
  BY <1>1, <1>2

\* Every step keeps the types of what is shared and published.
LEMMA NextShared ==
    SharedTypeOK /\ OnceInv /\ HealthInv /\ [Next]_vars => SharedTypeOK'
<1> SUFFICES ASSUME SharedTypeOK, OnceInv, HealthInv, [Next]_vars PROVE SharedTypeOK'
  OBVIOUS
<1>1. MaxChanges \in Nat /\ MaxFatal \in Nat /\ Cardinality(Files) \in Nat
  BY HealthAssumption, FS_CardinalityType
<1>2. CASE Environment
  <2>1. changes' \in 0..MaxChanges
    BY <1>1, <1>2 DEF Environment, SharedTypeOK
  <2>2. report' \in Partial(Backends, BOOLEAN) /\ endpoint' \in BOOLEAN
    BY <1>2 DEF Environment, SharedTypeOK
  <2> QED
    BY <1>2, <2>1, <2>2 DEF Environment, SharedTypeOK, gauges
<1>3. CASE HandleUploadResult
  <2>1. CASE Fatal
    BY <2>1, FatalShared
  <2>2. CASE ~ Fatal
    <3>1. changes' \in 0..MaxChanges
      <4>1. changes < MaxChanges /\ changes' = changes + 1
        BY <1>3, <2>2, Zenon DEF HandleUploadResult
      <4>2. changes \in 0..MaxChanges
        BY DEF SharedTypeOK
      <4> QED
        BY <1>1, <4>1, <4>2
    <3> QED
      BY <1>3, <2>2, <3>1 DEF HandleUploadResult, SharedTypeOK, gauges
  <2> QED
    BY <2>1, <2>2
<1>4. CASE HandleMetadataUpdate
  BY <1>1, <1>4 DEF HandleMetadataUpdate, SharedTypeOK, gauges
<1>5. CASE Scrape
  BY <1>5 DEF Scrape, SharedTypeOK, environment, gauges
<1>6. CASE UpdateGauges
  BY <1>6 DEF UpdateGauges, SharedTypeOK, environment
<1>7. CASE ProcessMetric
  BY <1>7, ProcessMetricShared
<1>8. ASSUME NEW g \in Goroutines, Step(g) PROVE SharedTypeOK'
  BY <1>8, StepShared DEF HealthInv
<1>9. CASE Start \/ StartFails
  <2>1. Empty \in Partial(Backends, BOOLEAN) /\ DOMAIN Empty = {}
    BY EmptyPartial DEF Empty
  <2> QED
    BY <1>1, <1>9, <2>1 DEF Start, StartFails, NewProcess, SharedTypeOK, environment
<1>10. CASE HandleRetry
  BY <1>10 DEF HandleRetry, SharedTypeOK, environment, gauges
<1>11. CASE EndMute
  BY <1>11, FatalShared DEF EndMute
<1>12. CASE UNCHANGED vars
  BY <1>12 DEF vars, SharedTypeOK, environment, gauges
<1> QED
  BY <1>2, <1>3, <1>4, <1>5, <1>6, <1>7, <1>8, <1>9, <1>10, <1>11, <1>12 DEF Next

\* The maps are partial functions on backends and files, what is left to count
\* is in the map, and both gauges stay within the number of files, whatever the
\* main loop and the scraper do to each other's maps.
THEOREM TypeCorrect == Spec => []TypeOK
<1>1. SharedTypeOK /\ OnceInv /\ HealthInv => TypeOK
  <2> SUFFICES ASSUME SharedTypeOK, OnceInv, HealthInv PROVE TypeOK
    OBVIOUS
  <2>1. ASSUME NEW g \in Goroutines
        PROVE  /\ proc[g].pc \in {"idle", "count", "set"}
                                     \cup IF g = "scraper" THEN {"process"} ELSE {}
               /\ proc[g].map \in Partial(Files, Placements)
               /\ proc[g].shared \in BOOLEAN
               /\ proc[g].left \subseteq DOMAIN proc[g].map
               /\ proc[g].good \cup proc[g].bad \subseteq Files \X Placements
    <3>1. proc[g] \in ProcRecord /\ proc[g].left \subseteq DOMAIN proc[g].map
      BY DEF HealthInv, Shape, Sound
    <3>2. g = "main" \/ g = "scraper"
      BY DEF Goroutines
    <3> QED
      BY <3>1, <3>2 DEF ProcRecord, OnceInv
  <2> QED
    BY <2>1 DEF TypeOK, SharedTypeOK, HealthInv, Shape
<1> QED
  BY InitHealth, NextHealth, InitOnce, NextOnce, InitShared, NextShared, <1>1, PTL DEF Spec
=============================================================================
