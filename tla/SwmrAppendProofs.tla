-------------------------- MODULE SwmrAppendProofs --------------------------
(***************************************************************************)
(* Proofs about SWMR appends (SwmrAppend), for every number of chunks,     *)
(* units and crashes and every size of the index block.                    *)
(*                                                                         *)
(* The inductive invariant says of the file as written that it holds every *)
(* chunk of the log (Sound), of the durable file that it is an image of    *)
(* the written one with the same chunks (Durable), and of the reader that  *)
(* what its pass has read is the log up to the dimension it read           *)
(* (Reading).  BatchInv, BlockInv and SyncInv follow the phases of         *)
(* apply_ea_append: which part of the batch is written, recorded and, by   *)
(* the barriers, durable.                                                  *)
(***************************************************************************)
EXTENDS SwmrAppend, WellFoundedInduction, TLAPS

Places == 0 .. MaxUnits
Kinds  == {"absent", "chunk", "block"}
Tables == [Slots -> Places]
Stored == [kind : Kinds, record : Tables]
Files  == [eof : Places, dim : 0 .. MaxDim, count : 0 .. MaxDim, pointer : Places,
           record : Tables, unit : [Units -> Stored]]

Steps == {"idle", "allocated", "eof", "eof_written", "insert", "pointer", "statistics",
          "statistics_written", "dimension", "dimension_written", "stopped"}

\* The values of the variables: a file has its regions and its units, a chunk is named by a unit.
TypeOK ==
    /\ policy \in {"Always", "OnClose"}
    /\ layout \in {"header_first", "index_first"}
    /\ os \in Files
    /\ disk \in Files
    /\ pc \in Steps
    /\ return \in {"insert", "pointer"}
    /\ current \in 0 .. MaxDim
    /\ batch \in Seq(Units)
    /\ log \in Seq(Units)
    /\ returned \in Nat
    /\ at \in Nat
    /\ seen \in Files

(***************************************************************************)
(* The inductive invariant.                                                *)
(***************************************************************************)
\* A unit that was not written is empty.
Shaped(file) == \A u \in Units : file.unit[u].kind = "absent" => file.unit[u] = Absent

\* The file has content at place n or above.
Reaches(file, n) == n = 0 \/ \E u \in Units : u >= n /\ file.unit[u].kind # "absent"

\* Everything the file refers to, from live and from orphaned blocks, lies within n.
Within(file, n) ==
    /\ file.pointer <= n
    /\ \A s \in Slots : file.record[s] <= n
    /\ \A u \in Units : \A s \in Slots : file.unit[u].record[s] <= n

\* The file holds every chunk of the log.
Holds(file, lg) ==
    \A s \in 1 .. Len(lg) : Record(file, s) = lg[s] /\ file.unit[lg[s]].kind = "chunk"

\* The file as written.
Sound(file, lg) ==
    /\ Shaped(file)
    /\ file.pointer # None => file.unit[file.pointer].kind = "block"
    /\ Reaches(file, file.eof)
    /\ Within(file, file.eof)
    /\ Holds(file, lg)

\* The durable image d of the written file o: any mix of old and new pages still holds the log.
Durable(o, d, lg) ==
    /\ Shaped(d)
    /\ \A u \in Units : d.unit[u].kind \in {"absent", o.unit[u].kind}
    /\ d.pointer \in {None, o.pointer}
    /\ o.pointer # None => d.unit[o.pointer].kind = "block"
    /\ Reaches(d, o.eof)
    /\ d.eof <= o.eof
    /\ Within(o, d.eof)
    /\ Within(d, d.eof)
    /\ Holds(d, lg)
    /\ d.dim <= o.dim

\* The two files hold the same units and the same index.
SameContent(f, g) == f.unit = g.unit /\ f.record = g.record /\ f.pointer = g.pointer

FilesInv ==
    /\ Sound(os, log)
    /\ Len(log) = os.dim
    /\ returned <= os.dim
    /\ policy = "Always" => Durable(os, disk, log) /\ returned <= disk.dim

Allocating == pc \in {"allocated", "eof", "eof_written", "pointer"} /\ return = "pointer"
Recorded   == pc \in {"statistics", "statistics_written", "dimension"}
Barred     == pc \in {"eof", "eof_written", "pointer", "statistics", "statistics_written",
                      "dimension", "dimension_written"}

\* The batch: its chunks are written, within the end of file when records name them, then recorded.
BatchInv ==
    /\ pc \notin {"idle", "stopped"} =>
          /\ current + Len(batch) <= MaxDim
          /\ \A i \in 1 .. Len(batch) : os.unit[batch[i]].kind = "chunk"
    /\ pc \notin {"stopped", "dimension_written"} => current = os.dim
    /\ pc = "dimension_written" => current + Len(batch) = os.dim
    /\ pc = "insert" \/ Allocating =>
          \A i \in 1 .. Len(batch) : batch[i] <= os.eof /\ (policy = "Always" => batch[i] <= disk.eof)
    /\ Recorded => \A i \in 1 .. Len(batch) : Record(os, current + i) = batch[i]

\* The data block: last in the file until the pointer to it is published, within the end of file.
BlockInv ==
    /\ pc = "pointer" => return = "pointer"
    /\ Allocating => os.pointer = None /\ Length(os) \in Units /\ os.unit[Length(os)] = NewBlock
    /\ pc \in {"eof_written", "pointer"} => os.eof = Length(os)

\* What the barriers have made durable.
SyncInv ==
    policy = "Always" =>
        /\ Barred => SameContent(disk, os)
        /\ pc = "pointer" => disk.eof = os.eof

\* The reader's pass over a file with index pointer p and log lg, header before index.
Reading(sn, a, lg, p) ==
    /\ a <= 2 => sn.dim = 0
    /\ sn.dim <= Len(lg)
    /\ a >= 4 => \A s \in 1 .. sn.dim :
          /\ s <= Inline => sn.record[s] = lg[s]
          /\ s > Inline => sn.pointer = p /\ p # None
          /\ lg[s] < a - 3 => sn.unit[lg[s]].kind = "chunk"
          /\ s > Inline /\ p < a - 3 => sn.unit[p].record[s] = lg[s]

ReaderInv ==
    layout = "header_first" =>
        /\ Reading(seen, at, log, os.pointer)
        /\ \E n \in 0 .. Len(log) : view = SubSeq(log, 1, n)

IInv == TypeOK /\ FilesInv /\ BatchInv /\ BlockInv /\ SyncInv /\ ReaderInv

(***************************************************************************)
(* Lemmas about the operators.                                             *)
(***************************************************************************)
LEMMA Bounds ==
    /\ Inline \in Nat /\ MaxBatch \in Nat /\ MaxDim \in Nat /\ MaxUnits \in Nat
    /\ 1 <= Inline /\ Inline <= MaxDim /\ MaxDim <= MaxUnits
  BY SwmrAppendAssumption, Zenon

\* A nonempty set of natural numbers has a least element,
LEMMA LeastNat ==
    ASSUME NEW T \in SUBSET Nat, T # {}
    PROVE  \E m \in T : \A y \in T : m <= y
  <1> DEFINE Below == {p \in Nat \X Nat : p[1] < p[2]}
  <1>1. IsWellFoundedOn(Below, Nat)
    <2>1. OpToRel(<, Nat) = Below
      BY Zenon DEF OpToRel
    <2> QED BY <2>1, NatLessThanWellFounded, Zenon
  <1> HIDE DEF Below
  <1>2. PICK m \in T : \A y \in T : ~(<<y, m>> \in Below)
    BY <1>1, WFMin, Zenon
  <1>3. ASSUME NEW y \in T, y < m PROVE FALSE
    <2>1. <<y, m>> \in Nat \X Nat /\ <<y, m>>[1] = y /\ <<y, m>>[2] = m
      BY Zenon
    <2>2. <<y, m>> \in Below
      BY <2>1, <1>3, Zenon DEF Below
    <2> QED BY <2>2, <1>2, Zenon
  <1> QED BY <1>3

\* and a bounded one a greatest.
LEMMA GreatestNat ==
    ASSUME NEW T \in SUBSET Nat, T # {}, NEW bound \in Nat, \A y \in T : y <= bound
    PROVE  \E m \in T : \A y \in T : y <= m
  <1> DEFINE above == {n \in Nat : \A y \in T : y <= n}
  <1>1. above \in SUBSET Nat /\ above # {}
    BY Zenon
  <1>2. PICK m \in above : \A n \in above : m <= n
    BY <1>1, LeastNat, Zenon
  <1>3. m \in T
    <2>1. SUFFICES ASSUME m \notin T PROVE FALSE
      BY Zenon
    <2>2. m > 0
      <3>1. PICK y \in T : TRUE
        BY Zenon
      <3>2. y \in Nat /\ y <= m /\ y # m
        BY <2>1, <1>2, Zenon
      <3> QED BY <3>2
    <2>3. m - 1 \in above
      BY <2>1, <2>2, <1>2
    <2> QED BY <2>2, <2>3, <1>2
  <1> QED BY <1>2, <1>3, Zenon

\* The file ends with its last unit that was written.
LEMMA LengthFacts ==
    ASSUME NEW file
    PROVE  /\ Length(file) \in Places
           /\ \A u \in Units : file.unit[u] # Absent => u <= Length(file)
           /\ Length(file) # 0 => file.unit[Length(file)] # Absent
  <1> DEFINE used == {u \in Units : file.unit[u] # Absent}
  <1>1. CASE used = {}
    BY <1>1, Bounds DEF Length, Places
  <1>2. CASE used # {}
    <2>1. used \in SUBSET Nat /\ \A y \in used : y <= MaxUnits
      BY Bounds DEF Units
    <2>2. \E m \in used : \A y \in used : y <= m
      BY <1>2, <2>1, Bounds, GreatestNat, Zenon
    <2>3. Length(file) \in used /\ \A y \in used : y <= Length(file)
      BY <1>2, <2>2, Zenon DEF Length
    <2> QED BY <2>3, Bounds DEF Units, Places
  <1> QED BY <1>1, <1>2, Zenon

LEMMA LengthIs ==
    ASSUME NEW file, NEW n \in Units, file.unit[n] # Absent,
           \A u \in Units : file.unit[u] # Absent => u <= n
    PROVE  Length(file) = n
  <1>1. n <= Length(file) /\ Length(file) \in Places
    BY LengthFacts, Zenon
  <1>2. Length(file) \in Units
    BY <1>1, Bounds DEF Units, Places
  <1>3. Length(file) <= n
    BY <1>1, <1>2, LengthFacts, Bounds DEF Units
  <1> QED BY <1>1, <1>2, <1>3, Bounds DEF Units

\* The file does not end below a place its content reaches.
LEMMA ReachesLength ==
    ASSUME NEW file, NEW n \in Places, Reaches(file, n)
    PROVE  n <= Length(file)
  <1>1. CASE n = 0
    BY <1>1, LengthFacts, Bounds DEF Places
  <1>2. CASE \E u \in Units : u >= n /\ file.unit[u].kind # "absent"
    <2>1. PICK u \in Units : u >= n /\ file.unit[u].kind # "absent"
      BY <1>2, Zenon
    <2>2. file.unit[u] # Absent
      BY <2>1 DEF Absent
    <2> QED BY <2>1, <2>2, LengthFacts, Bounds DEF Units, Places
  <1> QED BY <1>1, <1>2, Zenon DEF Reaches

\* It reaches its end.
LEMMA LengthReached ==
    ASSUME NEW file, Shaped(file)
    PROVE  Reaches(file, Length(file))
  <1>1. CASE Length(file) = 0
    BY <1>1, Zenon DEF Reaches
  <1>2. CASE Length(file) # 0
    <2>1. Length(file) \in Units /\ file.unit[Length(file)] # Absent
      BY <1>2, LengthFacts, Bounds DEF Units, Places
    <2>2. Length(file) >= Length(file)
      BY <2>1, Bounds DEF Units
    <2> QED BY <2>1, <2>2, Zenon DEF Reaches, Shaped
  <1> QED BY <1>1, <1>2, Zenon

LEMMA FileFacts ==
    ASSUME NEW file \in Files
    PROVE  /\ file.eof \in Nat /\ file.eof <= MaxUnits
           /\ file.dim \in Nat /\ file.dim <= MaxDim
           /\ file.pointer = None \/ file.pointer \in Units
           /\ \A s \in Slots : file.record[s] \in Nat
           /\ \A u \in Units : file.unit[u] \in Stored
           /\ \A u \in Units : \A s \in Slots : file.unit[u].record[s] \in Nat
  BY Bounds, SMTT(30) DEF Files, Stored, Tables, Places, Units, None

\* A log: a sequence of units, no longer than the dataset may be.
LEMMA LogFacts ==
    ASSUME NEW lg \in Seq(Units)
    PROVE  /\ Len(lg) \in Nat
           /\ \A s \in 1 .. Len(lg) : lg[s] \in Units /\ lg[s] # None
  BY Bounds, SMTT(30) DEF Units, None

LEMMA WithinMore ==
    ASSUME NEW file \in Files, NEW n \in Nat, NEW m \in Nat, Within(file, n), n <= m
    PROVE  Within(file, m)
  <1>1. file.pointer <= m
    BY FileFacts, Bounds DEF Within, Units, None
  <1>2. \A s \in Slots : file.record[s] <= m
    BY FileFacts DEF Within
  <1>3. \A u \in Units : \A s \in Slots : file.unit[u].record[s] <= m
    BY FileFacts DEF Within
  <1> QED BY <1>1, <1>2, <1>3, Zenon DEF Within

LEMMA ReachesLess ==
    ASSUME NEW file, NEW n \in Nat, NEW m \in Nat, Reaches(file, n), m <= n
    PROVE  Reaches(file, m)
  BY Bounds DEF Reaches, Units

\* What the index of a file refers to is within whatever bounds all its references.
LEMMA RecordWithin ==
    ASSUME NEW file \in Files, NEW n \in Nat, NEW s \in Slots, Within(file, n)
    PROVE  Record(file, s) \in Nat /\ Record(file, s) <= n
  <1>1. CASE s <= Inline
    BY <1>1, FileFacts, Zenon DEF Record, Within
  <1>2. CASE ~(s <= Inline) /\ file.pointer = None
    BY <1>2 DEF Record, None
  <1>3. CASE ~(s <= Inline) /\ file.pointer \in Units /\ file.pointer # None
    BY <1>3, FileFacts, Zenon DEF Record, Within
  <1> QED BY <1>1, <1>2, <1>3, FileFacts, Zenon

\* A file that holds a chunk of the log at each slot of its dimension shows them.
LEMMA HoldsShows ==
    ASSUME NEW file \in Files, NEW lg \in Seq(Units), file.dim <= Len(lg),
           \A s \in 1 .. file.dim : Record(file, s) = lg[s] /\ file.unit[lg[s]].kind = "chunk"
    PROVE  Shown(file) = SubSeq(lg, 1, file.dim)
  <1> DEFINE n == file.dim
             part == SubSeq(lg, 1, n)
  <1>1. n \in Nat /\ n <= Len(lg)
    BY FileFacts, Zenon
  <1>2. part = [i \in 1 .. n |-> lg[i]]
    BY <1>1, LogFacts
  <1>3. ASSUME NEW s \in 1 .. n PROVE Shown(file)[s] = lg[s]
    <2>1. s \in 1 .. Len(lg)
      BY <1>1, LogFacts
    <2>2. lg[s] # None
      BY <2>1, LogFacts, Zenon
    <2> QED BY <2>2, Zenon DEF Shown
  <1>4. Shown(file) = [i \in 1 .. n |-> lg[i]]
    BY <1>3, Zenon DEF Shown
  <1> QED BY <1>2, <1>4, Zenon

LEMMA SameHolds ==
    ASSUME NEW f, NEW g, NEW lg, SameContent(f, g), Holds(g, lg)
    PROVE  Holds(f, lg)
  BY Zenon DEF SameContent, Holds, Record

(***************************************************************************)
(* What the writer's writes do to the written file o and its durable image *)
(* d.                                                                      *)
(***************************************************************************)
\* A barrier: the file is its own durable image.
LEMMA Synced ==
    ASSUME NEW o \in Files, NEW lg, Sound(o, lg)
    PROVE  Durable(o, o, lg)
  <1>1. o.eof <= o.eof /\ o.dim <= o.dim
    BY FileFacts
  <1> QED BY <1>1, Zenon DEF Sound, Durable

\* The superblock, the statistics or the dimension is written, over a log lg2 the file holds already.
LEMMA RegionWritten ==
    ASSUME NEW o \in Files, NEW f \in Files, NEW lg, NEW lg2, Sound(o, lg), SameContent(f, o),
           o.eof <= f.eof, Reaches(o, f.eof), Holds(o, lg2)
    PROVE  Sound(f, lg2)
  <1>1. Within(o, f.eof)
    BY WithinMore, FileFacts, Zenon DEF Sound
  <1>2. Within(f, f.eof) /\ Reaches(f, f.eof)
    BY <1>1, Zenon DEF SameContent, Within, Reaches
  <1>3. Holds(f, lg2)
    BY SameHolds, Zenon
  <1>4. Shaped(f) /\ (f.pointer # None => f.unit[f.pointer].kind = "block")
    BY Zenon DEF Sound, SameContent, Shaped
  <1> QED BY <1>2, <1>3, <1>4, Zenon DEF Sound

LEMMA RegionDurable ==
    ASSUME NEW o \in Files, NEW f \in Files, NEW d \in Files, NEW lg, NEW lg2,
           Durable(o, d, lg), SameContent(f, o), o.eof <= f.eof, o.dim <= f.dim,
           Reaches(d, f.eof), Holds(d, lg2)
    PROVE  Durable(f, d, lg2)
  <1>1. d.eof <= f.eof /\ d.dim <= f.dim
    BY FileFacts DEF Durable
  <1>2. Within(f, d.eof)
    BY Zenon DEF Durable, SameContent, Within
  <1>3. /\ \A u \in Units : d.unit[u].kind \in {"absent", f.unit[u].kind}
        /\ d.pointer \in {None, f.pointer}
        /\ f.pointer # None => d.unit[f.pointer].kind = "block"
    BY Zenon DEF Durable, SameContent
  <1> QED BY <1>1, <1>2, <1>3, Zenon DEF Durable

\* Units are appended: chunks or a data block, where the file o had nothing.
Appends(o, f) ==
    /\ f.eof = o.eof /\ f.dim = o.dim /\ f.record = o.record /\ f.pointer = o.pointer
    /\ \A u \in Units : f.unit[u] = o.unit[u] \/ (o.unit[u] = Absent /\ f.unit[u] \in {Chunk, NewBlock})

LEMMA AppendedUnit ==
    ASSUME NEW o, NEW f, Appends(o, f), NEW u \in Units, o.unit[u].kind # "absent"
    PROVE  f.unit[u] = o.unit[u]
  BY DEF Appends, Absent

LEMMA EmptyRecord ==
    \A s \in Slots : /\ Undefined[s] = 0
                     /\ Chunk.record[s] = 0 /\ NewBlock.record[s] = 0 /\ Absent.record[s] = 0
  BY Zenon DEF Undefined, Chunk, NewBlock, Absent, None

LEMMA AppendsWithin ==
    ASSUME NEW o \in Files, NEW f \in Files, NEW n \in Nat, Appends(o, f), Within(o, n)
    PROVE  Within(f, n)
  <1>1. ASSUME NEW u \in Units, NEW s \in Slots PROVE f.unit[u].record[s] <= n
    <2>1. CASE f.unit[u] = o.unit[u]
      BY <2>1, Zenon DEF Within
    <2>2. CASE f.unit[u] \in {Chunk, NewBlock}
      <3>1. f.unit[u].record[s] = 0
        BY <2>2, EmptyRecord, Zenon
      <3> QED BY <3>1
    <2> QED BY <2>1, <2>2, Zenon DEF Appends
  <1> QED BY <1>1, Zenon DEF Appends, Within

LEMMA AppendsHolds ==
    ASSUME NEW o \in Files, NEW f \in Files, NEW lg \in Seq(Units), Appends(o, f),
           o.pointer # None => o.unit[o.pointer].kind = "block", Holds(o, lg)
    PROVE  Holds(f, lg)
  <1> SUFFICES ASSUME NEW s \in 1 .. Len(lg)
               PROVE  Record(f, s) = lg[s] /\ f.unit[lg[s]].kind = "chunk"
    BY Zenon DEF Holds
  <1>1. Record(o, s) = lg[s] /\ o.unit[lg[s]].kind = "chunk" /\ lg[s] \in Units
    BY LogFacts, Zenon DEF Holds
  <1>2. f.unit[lg[s]].kind = "chunk"
    <2>1. o.unit[lg[s]].kind # "absent"
      BY <1>1, Zenon
    <2> QED BY <1>1, <2>1, AppendedUnit, Zenon
  <1>3. o.pointer # None => f.unit[o.pointer] = o.unit[o.pointer]
    <2>1. "block" # "absent"
      BY Zenon
    <2> QED BY <2>1, AppendedUnit, FileFacts, Zenon
  <1>4. Record(f, s) = Record(o, s)
    BY <1>3, Zenon DEF Record, Appends
  <1> QED BY <1>1, <1>2, <1>4, Zenon

LEMMA UnitsWritten ==
    ASSUME NEW o \in Files, NEW f \in Files, NEW lg \in Seq(Units), Appends(o, f), Sound(o, lg)
    PROVE  Sound(f, lg)
  <1>1. Shaped(f)
    <2>1. ASSUME NEW u \in Units, f.unit[u].kind = "absent" PROVE f.unit[u] = Absent
      <3>1. f.unit[u] \notin {Chunk, NewBlock}
        BY <2>1, SMTT(30) DEF Chunk, NewBlock
      <3> QED BY <2>1, <3>1, Zenon DEF Appends, Sound, Shaped
    <2> QED BY <2>1, Zenon DEF Shaped
  <1>2. f.pointer # None => f.unit[f.pointer].kind = "block"
    <2>1. "block" # "absent"
      BY Zenon
    <2>2. o.pointer # None => f.unit[o.pointer] = o.unit[o.pointer]
      BY <2>1, AppendedUnit, FileFacts, Zenon DEF Sound
    <2> QED BY <2>2, Zenon DEF Appends, Sound
  <1>3. Reaches(f, f.eof)
    <2>1. Reaches(o, o.eof) /\ f.eof = o.eof
      BY Zenon DEF Sound, Appends
    <2> QED BY <2>1, AppendedUnit, Zenon DEF Reaches
  <1>4. Within(f, f.eof)
    <2>1. Within(o, o.eof) /\ f.eof = o.eof /\ o.eof \in Nat
      BY FileFacts, Zenon DEF Sound, Appends
    <2> QED BY <2>1, AppendsWithin, Zenon
  <1>5. Holds(f, lg)
    BY AppendsHolds, Zenon DEF Sound
  <1> QED BY <1>1, <1>2, <1>3, <1>4, <1>5, Zenon DEF Sound

LEMMA UnitsDurable ==
    ASSUME NEW o \in Files, NEW f \in Files, NEW d \in Files, NEW lg \in Seq(Units),
           Appends(o, f), Durable(o, d, lg)
    PROVE  Durable(f, d, lg)
  <1>1. ASSUME NEW u \in Units PROVE d.unit[u].kind \in {"absent", f.unit[u].kind}
    <2>1. CASE o.unit[u].kind = "absent"
      BY <2>1, Zenon DEF Durable
    <2>2. CASE o.unit[u].kind # "absent"
      <3>1. f.unit[u] = o.unit[u]
        BY <2>2, AppendedUnit, Zenon
      <3> QED BY <3>1, Zenon DEF Durable
    <2> QED BY <2>1, <2>2, Zenon
  <1>2. Within(f, d.eof)
    BY AppendsWithin, FileFacts, Zenon DEF Durable
  <1>3. f.eof = o.eof /\ f.dim = o.dim /\ f.pointer = o.pointer
    BY Zenon DEF Appends
  <1> QED BY <1>1, <1>2, <1>3, Zenon DEF Durable

\* A record v is written at slot s, of the index block or of a data block.
Records(o, f, s, v) ==
    /\ f.eof = o.eof /\ f.dim = o.dim /\ f.pointer = o.pointer
    /\ \A t \in Slots : f.record[t] = o.record[t] \/ (t = s /\ f.record[t] = v)
    /\ \A u \in Units :
          /\ f.unit[u].kind = o.unit[u].kind
          /\ o.unit[u].kind = "block" \/ f.unit[u] = o.unit[u]
          /\ \A t \in Slots : f.unit[u].record[t] = o.unit[u].record[t]
                              \/ (t = s /\ f.unit[u].record[t] = v)

LEMMA RecordsWithin ==
    ASSUME NEW o \in Files, NEW f \in Files, NEW n \in Nat, NEW s \in Slots, NEW v \in Nat, v <= n,
           Records(o, f, s, v), Within(o, n)
    PROVE  Within(f, n)
  <1>1. ASSUME NEW t \in Slots PROVE f.record[t] <= n
    BY Zenon DEF Records, Within
  <1>2. ASSUME NEW u \in Units, NEW t \in Slots PROVE f.unit[u].record[t] <= n
    BY Zenon DEF Records, Within
  <1> QED BY <1>1, <1>2, Zenon DEF Records, Within

\* A slot above the log is not one of the log's.
LEMMA RecordsHolds ==
    ASSUME NEW o \in Files, NEW f \in Files, NEW lg \in Seq(Units), Len(lg) <= MaxDim,
           NEW s \in Slots, NEW v, s > Len(lg), Records(o, f, s, v), Holds(o, lg)
    PROVE  Holds(f, lg)
  <1> SUFFICES ASSUME NEW t \in 1 .. Len(lg)
               PROVE  Record(f, t) = lg[t] /\ f.unit[lg[t]].kind = "chunk"
    BY Zenon DEF Holds
  <1>1. Record(o, t) = lg[t] /\ o.unit[lg[t]].kind = "chunk" /\ lg[t] \in Units
    BY LogFacts, Zenon DEF Holds
  <1>2. t \in Slots /\ t # s
    BY LogFacts, Bounds DEF Slots
  <1>3. f.record[t] = o.record[t]
    BY <1>2, Zenon DEF Records
  <1>4. f.pointer = o.pointer
    BY Zenon DEF Records
  <1>5. o.pointer # None => f.unit[o.pointer].record[t] = o.unit[o.pointer].record[t]
    BY <1>2, FileFacts, Zenon DEF Records
  <1>6. Record(f, t) = Record(o, t)
    BY <1>3, <1>4, <1>5, Zenon DEF Record
  <1>7. f.unit[lg[t]].kind = "chunk"
    BY <1>1, Zenon DEF Records
  <1> QED BY <1>1, <1>6, <1>7, Zenon

LEMMA RecordWritten ==
    ASSUME NEW o \in Files, NEW f \in Files, NEW lg \in Seq(Units), Len(lg) <= MaxDim,
           NEW s \in Slots, NEW v \in Nat, s > Len(lg), v <= o.eof, Records(o, f, s, v), Sound(o, lg)
    PROVE  Sound(f, lg)
  <1>1. Holds(f, lg)
    BY RecordsHolds, Zenon DEF Sound
  <1>2. Within(f, f.eof)
    <2>1. Within(o, o.eof) /\ f.eof = o.eof /\ o.eof \in Nat
      BY FileFacts, Zenon DEF Sound, Records
    <2> QED BY <2>1, RecordsWithin, Zenon
  <1>3. Reaches(f, f.eof)
    BY Zenon DEF Sound, Records, Reaches
  <1>4. Shaped(f)
    <2>1. "block" # "absent"
      BY Zenon
    <2> QED BY <2>1, Zenon DEF Sound, Records, Shaped
  <1>5. f.pointer # None => f.unit[f.pointer].kind = "block"
    BY FileFacts, Zenon DEF Sound, Records
  <1> QED BY <1>1, <1>2, <1>3, <1>4, <1>5, Zenon DEF Sound

LEMMA RecordDurable ==
    ASSUME NEW o \in Files, NEW f \in Files, NEW d \in Files, NEW lg,
           NEW s \in Slots, NEW v \in Nat, v <= d.eof, Records(o, f, s, v), Durable(o, d, lg)
    PROVE  Durable(f, d, lg)
  <1>1. Within(f, d.eof)
    BY RecordsWithin, FileFacts, Zenon DEF Durable
  <1>2. f.eof = o.eof /\ f.dim = o.dim /\ f.pointer = o.pointer
    BY Zenon DEF Records
  <1>3. \A u \in Units : f.unit[u].kind = o.unit[u].kind
    BY Zenon DEF Records
  <1> QED BY <1>1, <1>2, <1>3, Zenon DEF Durable

\* The index block of a file that has no data block yet is pointed to unit n.
Points(o, f, n) ==
    /\ o.pointer = None /\ f.pointer = n
    /\ f.eof = o.eof /\ f.dim = o.dim /\ f.record = o.record /\ f.unit = o.unit

\* Without a data block the log is no longer than the index block.
LEMMA ShortLog ==
    ASSUME NEW o, NEW lg \in Seq(Units), o.pointer = None, Holds(o, lg), NEW s \in 1 .. Len(lg)
    PROVE  s <= Inline
  <1>1. Record(o, s) = lg[s] /\ lg[s] # None
    BY LogFacts, Zenon DEF Holds
  <1> QED BY <1>1, Zenon DEF Record

LEMMA PointerWritten ==
    ASSUME NEW o \in Files, NEW f \in Files, NEW lg \in Seq(Units), NEW n \in Units,
           Points(o, f, n), n <= o.eof, o.unit[n].kind = "block", Sound(o, lg)
    PROVE  Sound(f, lg)
  <1>1. Holds(f, lg)
    <2> SUFFICES ASSUME NEW s \in 1 .. Len(lg)
                 PROVE  Record(f, s) = lg[s] /\ f.unit[lg[s]].kind = "chunk"
      BY Zenon DEF Holds
    <2>1. s <= Inline
      BY ShortLog, Zenon DEF Sound, Points
    <2>2. Record(o, s) = lg[s] /\ o.unit[lg[s]].kind = "chunk"
      BY Zenon DEF Sound, Holds
    <2> QED BY <2>1, <2>2, Zenon DEF Record, Points
  <1>2. Within(f, f.eof)
    BY Zenon DEF Sound, Points, Within
  <1>3. Reaches(f, f.eof) /\ Shaped(f)
    BY Zenon DEF Sound, Points, Reaches, Shaped
  <1>4. f.unit[f.pointer].kind = "block"
    BY Zenon DEF Points
  <1> QED BY <1>1, <1>2, <1>3, <1>4, Zenon DEF Sound

LEMMA PointerDurable ==
    ASSUME NEW o \in Files, NEW f \in Files, NEW d \in Files, NEW lg, NEW n \in Units,
           Points(o, f, n), n <= d.eof, d.unit[n].kind = "block", Durable(o, d, lg)
    PROVE  Durable(f, d, lg)
  <1>1. Within(f, d.eof)
    BY Zenon DEF Durable, Points, Within
  <1>2. \A u \in Units : d.unit[u].kind \in {"absent", f.unit[u].kind}
    BY Zenon DEF Durable, Points
  <1>3. d.pointer \in {None, f.pointer} /\ d.unit[f.pointer].kind = "block"
    BY Zenon DEF Durable, Points
  <1>4. f.eof = o.eof /\ f.dim = o.dim
    BY Zenon DEF Points
  <1> QED BY <1>1, <1>2, <1>3, <1>4, Zenon DEF Durable

(***************************************************************************)
(* What writing back a page does to the durable image d, and what a loss   *)
(* of power leaves.                                                        *)
(***************************************************************************)
LEMMA RegionWrittenBack ==
    ASSUME NEW o \in Files, NEW d \in Files, NEW e \in Files, NEW lg, Durable(o, d, lg),
           SameContent(e, d), e.eof \in {d.eof, o.eof}, e.dim \in {d.dim, o.dim}
    PROVE  Durable(o, e, lg)
  <1>1. d.eof <= e.eof /\ e.eof <= o.eof /\ e.dim <= o.dim
    BY FileFacts, SMTT(30) DEF Durable
  <1>2. Within(o, e.eof) /\ Within(d, e.eof)
    BY <1>1, WithinMore, FileFacts, Zenon DEF Durable
  <1>3. Within(e, e.eof) /\ Reaches(e, o.eof) /\ Shaped(e)
    BY <1>2, Zenon DEF Durable, SameContent, Within, Reaches, Shaped
  <1>4. Holds(e, lg)
    BY SameHolds, Zenon DEF Durable
  <1>5. /\ \A u \in Units : e.unit[u].kind \in {"absent", o.unit[u].kind}
        /\ e.pointer \in {None, o.pointer}
        /\ o.pointer # None => e.unit[o.pointer].kind = "block"
    BY Zenon DEF Durable, SameContent
  <1> QED BY <1>1, <1>2, <1>3, <1>4, <1>5, Zenon DEF Durable

LEMMA IndexWrittenBack ==
    ASSUME NEW o \in Files, NEW d \in Files, NEW e \in Files, NEW lg \in Seq(Units),
           Sound(o, lg), Durable(o, d, lg),
           e.eof = d.eof, e.dim = d.dim, e.unit = d.unit, e.pointer = o.pointer, e.record = o.record
    PROVE  Durable(o, e, lg)
  <1>1. Holds(e, lg)
    <2> SUFFICES ASSUME NEW s \in 1 .. Len(lg)
                 PROVE  Record(e, s) = lg[s] /\ e.unit[lg[s]].kind = "chunk"
      BY Zenon DEF Holds
    <2>1. Record(d, s) = lg[s] /\ d.unit[lg[s]].kind = "chunk" /\ Record(o, s) = lg[s]
      BY Zenon DEF Sound, Durable, Holds
    <2>2. CASE s <= Inline
      BY <2>1, <2>2, Zenon DEF Record
    <2>3. CASE ~(s <= Inline)
      <3>1. d.pointer # None
        BY <2>3, ShortLog, Zenon DEF Durable
      <3>2. e.pointer = d.pointer
        BY <3>1, Zenon DEF Durable
      <3> QED BY <2>1, <2>3, <3>2, Zenon DEF Record
    <2> QED BY <2>2, <2>3, Zenon
  <1>2. Within(e, e.eof)
    BY Zenon DEF Durable, Within
  <1>3. Shaped(e) /\ Reaches(e, o.eof)
    BY Zenon DEF Durable, Shaped, Reaches
  <1> QED BY <1>1, <1>2, <1>3, Zenon DEF Durable

LEMMA UnitWrittenBack ==
    ASSUME NEW o \in Files, NEW d \in Files, NEW e \in Files, NEW lg \in Seq(Units), Len(lg) <= MaxDim,
           Sound(o, lg), Durable(o, d, lg),
           e.eof = d.eof, e.dim = d.dim, e.pointer = d.pointer, e.record = d.record,
           \A u \in Units : e.unit[u] \in {d.unit[u], o.unit[u]}
    PROVE  Durable(o, e, lg)
  <1>1. \A u \in Units : d.unit[u].kind \in {"absent", o.unit[u].kind}
    BY Zenon DEF Durable
  <1>2. \A u \in Units : e.unit[u].kind \in {"absent", o.unit[u].kind}
    BY <1>1, Zenon
  <1>3. \A u \in Units : d.unit[u].kind # "absent" => e.unit[u].kind = d.unit[u].kind
    BY <1>1, Zenon
  <1>4. Shaped(e)
    BY Zenon DEF Sound, Durable, Shaped
  <1>5. o.pointer # None => e.unit[o.pointer].kind = "block"
    <2>1. "block" # "absent"
      BY Zenon
    <2> QED BY <1>3, <2>1, FileFacts, Zenon DEF Durable
  <1>6. Reaches(e, o.eof)
    BY <1>3, Zenon DEF Durable, Reaches
  <1>7. Within(e, e.eof)
    <2>1. \A u \in Units : \A s \in Slots : e.unit[u].record[s] <= e.eof
      BY Zenon DEF Durable, Within
    <2> QED BY <2>1, Zenon DEF Durable, Within
  <1>8. Holds(e, lg)
    <2> SUFFICES ASSUME NEW s \in 1 .. Len(lg)
                 PROVE  Record(e, s) = lg[s] /\ e.unit[lg[s]].kind = "chunk"
      BY Zenon DEF Holds
    <2>1. /\ Record(d, s) = lg[s] /\ d.unit[lg[s]].kind = "chunk"
          /\ Record(o, s) = lg[s] /\ lg[s] \in Units /\ lg[s] # None
      BY LogFacts, Zenon DEF Sound, Durable, Holds
    <2>2. e.unit[lg[s]].kind = "chunk"
      <3>1. "chunk" # "absent"
        BY Zenon
      <3> QED BY <3>1, <2>1, <1>3, Zenon
    <2>3. CASE s <= Inline
      BY <2>1, <2>2, <2>3, Zenon DEF Record
    <2>4. CASE ~(s <= Inline)
      <3>1. d.pointer # None /\ d.pointer = o.pointer /\ d.pointer \in Units
        BY <2>4, ShortLog, FileFacts, Zenon DEF Durable
      <3>2. d.unit[d.pointer].record[s] = lg[s] /\ o.unit[d.pointer].record[s] = lg[s]
        BY <2>1, <2>4, <3>1, Zenon DEF Record
      <3>3. e.unit[d.pointer].record[s] = lg[s]
        BY <3>1, <3>2, Zenon
      <3> QED BY <2>2, <2>4, <3>1, <3>3, Zenon DEF Record
    <2> QED BY <2>3, <2>4, Zenon
  <1>9. e.pointer \in {None, o.pointer} /\ e.eof <= o.eof /\ Within(o, e.eof) /\ e.dim <= o.dim
    BY Zenon DEF Durable
  <1> QED BY <1>2, <1>4, <1>5, <1>6, <1>7, <1>8, <1>9, Zenon DEF Durable

\* The file that a loss of power leaves holds the log up to its dimension.
LEMMA PowerLost ==
    ASSUME NEW o \in Files, NEW d \in Files, NEW lg \in Seq(Units), NEW lg2,
           Durable(o, d, lg), Len(lg2) <= Len(lg), Len(lg2) \in Nat,
           \A s \in 1 .. Len(lg2) : lg2[s] = lg[s]
    PROVE  Sound(d, lg2)
  <1>1. Reaches(d, d.eof)
    BY ReachesLess, FileFacts, Zenon DEF Durable
  <1>2. \A s \in 1 .. Len(lg2) : s \in 1 .. Len(lg)
    BY LogFacts, SMTT(30)
  <1>3. Holds(d, lg2)
    BY <1>2, Zenon DEF Durable, Holds
  <1>4. d.pointer # None => d.unit[d.pointer].kind = "block"
    BY Zenon DEF Durable
  <1> QED BY <1>1, <1>3, <1>4, Zenon DEF Durable, Sound

(***************************************************************************)
(* The reader's pass.                                                      *)
(***************************************************************************)
\* The writer goes on: the log grows, and the index gets its data block.
LEMMA ReadingStays ==
    ASSUME NEW sn \in Files, NEW a \in Nat, NEW lg \in Seq(Units), NEW lg2 \in Seq(Units), NEW p, NEW p2,
           Reading(sn, a, lg, p), Len(lg) <= Len(lg2), \A s \in 1 .. Len(lg) : lg2[s] = lg[s],
           p = None \/ p2 = p
    PROVE  Reading(sn, a, lg2, p2)
  <1>1. sn.dim \in Nat /\ sn.dim <= Len(lg)
    BY FileFacts, Zenon DEF Reading
  <1>2. sn.dim <= Len(lg2)
    BY <1>1, LogFacts
  <1>3. ASSUME NEW s \in 1 .. sn.dim PROVE lg2[s] = lg[s]
    <2>1. s \in 1 .. Len(lg)
      BY <1>1, LogFacts
    <2> QED BY <2>1, Zenon
  <1>4. ASSUME a >= 4, NEW s \in 1 .. sn.dim
        PROVE  /\ s <= Inline => sn.record[s] = lg2[s]
               /\ s > Inline => sn.pointer = p2 /\ p2 # None
               /\ lg2[s] < a - 3 => sn.unit[lg2[s]].kind = "chunk"
               /\ s > Inline /\ p2 < a - 3 => sn.unit[p2].record[s] = lg2[s]
    BY <1>3, <1>4, Zenon DEF Reading
  <1> QED BY <1>2, <1>4, Zenon DEF Reading

\* The pass reads the index after the header: its records are those of the log.
LEMMA ReadingIndex ==
    ASSUME NEW o \in Files, NEW sn \in Files, NEW lg \in Seq(Units), Holds(o, lg),
           sn.dim <= Len(lg), sn.pointer = o.pointer, sn.record = o.record
    PROVE  Reading(sn, 4, lg, o.pointer)
  <1> SUFFICES ASSUME NEW s \in 1 .. sn.dim
               PROVE  /\ s <= Inline => sn.record[s] = lg[s]
                      /\ s > Inline => sn.pointer = o.pointer /\ o.pointer # None
                      /\ lg[s] < 4 - 3 => sn.unit[lg[s]].kind = "chunk"
                      /\ s > Inline /\ o.pointer < 4 - 3 => sn.unit[o.pointer].record[s] = lg[s]
    BY DEF Reading
  <1>1. s \in 1 .. Len(lg)
    BY FileFacts, LogFacts
  <1>2. Record(o, s) = lg[s] /\ lg[s] \in Units
    BY <1>1, LogFacts, Zenon DEF Holds
  <1>3. ~(lg[s] < 4 - 3)
    BY <1>2, Bounds DEF Units
  <1>4. CASE s <= Inline
    <2>1. ~(s > Inline)
      BY <1>4, <1>1, Bounds, LogFacts, SMTT(30)
    <2> QED BY <1>2, <1>3, <1>4, <2>1, Zenon DEF Record
  <1>5. CASE ~(s <= Inline)
    <2>1. o.pointer # None
      BY <1>1, <1>5, ShortLog, Zenon
    <2>2. ~(o.pointer < 4 - 3)
      BY <2>1, FileFacts, Bounds, SMTT(30) DEF Units
    <2> QED BY <1>3, <1>5, <2>1, <2>2, Zenon
  <1> QED BY <1>4, <1>5, Zenon

\* It reads unit u: a chunk of the log is there, or the data block with the records of the log.
ReadsUnit(o, sn, r, u) ==
    /\ r.dim = sn.dim /\ r.record = sn.record /\ r.pointer = sn.pointer
    /\ r.unit[u] = o.unit[u]
    /\ \A v \in Units : v # u => r.unit[v] = sn.unit[v]

LEMMA ReadingUnit ==
    ASSUME NEW o \in Files, NEW sn \in Files, NEW r \in Files, NEW lg \in Seq(Units), NEW a \in Nat, a >= 4,
           NEW u \in Units, u = a - 3, Holds(o, lg), Reading(sn, a, lg, o.pointer), ReadsUnit(o, sn, r, u)
    PROVE  Reading(r, a + 1, lg, o.pointer)
  <1>0. /\ r.dim = sn.dim /\ r.record = sn.record /\ r.pointer = sn.pointer /\ r.unit[u] = o.unit[u]
        /\ \A v \in Units : v # u => r.unit[v] = sn.unit[v]
    BY Zenon DEF ReadsUnit
  <1>1. ~(a + 1 <= 2) /\ r.dim <= Len(lg)
    BY <1>0, SMTT(30) DEF Reading
  <1> SUFFICES ASSUME NEW s \in 1 .. r.dim
               PROVE  /\ s <= Inline => r.record[s] = lg[s]
                      /\ s > Inline => r.pointer = o.pointer /\ o.pointer # None
                      /\ lg[s] < a + 1 - 3 => r.unit[lg[s]].kind = "chunk"
                      /\ s > Inline /\ o.pointer < a + 1 - 3 => r.unit[o.pointer].record[s] = lg[s]
    BY <1>1, SMTT(30) DEF Reading
  <1>2. s \in 1 .. Len(lg)
    BY <1>1, FileFacts, LogFacts, SMTT(30)
  <1>3. Record(o, s) = lg[s] /\ lg[s] \in Units /\ o.unit[lg[s]].kind = "chunk"
    BY <1>2, LogFacts, Zenon DEF Holds
  <1>4. /\ s <= Inline => sn.record[s] = lg[s]
        /\ s > Inline => sn.pointer = o.pointer /\ o.pointer # None
        /\ lg[s] < a - 3 => sn.unit[lg[s]].kind = "chunk"
        /\ s > Inline /\ o.pointer < a - 3 => sn.unit[o.pointer].record[s] = lg[s]
    <2>1. s \in 1 .. sn.dim
      BY <1>0, Zenon
    <2> QED BY <2>1, Zenon DEF Reading
  <1>5. ASSUME lg[s] < a + 1 - 3 PROVE r.unit[lg[s]].kind = "chunk"
    <2>1. lg[s] = u \/ (lg[s] # u /\ lg[s] < a - 3)
      BY <1>3, <1>5, Bounds, SMTT(30) DEF Units
    <2> QED BY <1>0, <2>1, <1>3, <1>4, Zenon
  <1>6. ASSUME s > Inline, o.pointer < a + 1 - 3 PROVE r.unit[o.pointer].record[s] = lg[s]
    <2>1. o.pointer # None /\ o.pointer \in Units
      BY <1>4, <1>6, FileFacts, Zenon
    <2>2. o.unit[o.pointer].record[s] = lg[s]
      <3>1. ~(s <= Inline)
        BY <1>6, Bounds, SMTT(30)
      <3> QED BY <1>3, <2>1, <3>1, Zenon DEF Record
    <2>3. o.pointer = u \/ (o.pointer # u /\ o.pointer < a - 3)
      BY <2>1, <1>6, Bounds, SMTT(30) DEF Units
    <2> QED BY <1>0, <2>1, <2>2, <2>3, <1>4, <1>6, Zenon
  <1> QED BY <1>0, <1>4, <1>5, <1>6, Zenon

\* At the end of the file the pass has read every chunk of the dimension it started from.
LEMMA ReadingEnds ==
    ASSUME NEW o \in Files, NEW sn \in Files, NEW lg \in Seq(Units), NEW a \in Nat, a >= 4,
           Length(o) < a - 3, Sound(o, lg), Reading(sn, a, lg, o.pointer)
    PROVE  sn.dim \in 0 .. Len(lg) /\ Shown(sn) = SubSeq(lg, 1, sn.dim)
  <1>1. sn.dim \in Nat /\ sn.dim <= Len(lg)
    BY FileFacts, Zenon DEF Reading
  <1>2. ASSUME NEW v \in Units, o.unit[v].kind # "absent" PROVE v < a - 3
    <2>1. o.unit[v] # Absent
      BY <1>2 DEF Absent
    <2> QED BY <2>1, LengthFacts, Bounds, SMTT(30) DEF Units, Places
  <1>3. ASSUME NEW s \in 1 .. sn.dim
        PROVE  Record(sn, s) = lg[s] /\ sn.unit[lg[s]].kind = "chunk"
    <2>1. s \in 1 .. Len(lg)
      BY <1>1, LogFacts
    <2>2. lg[s] \in Units /\ o.unit[lg[s]].kind = "chunk"
      BY <2>1, LogFacts, Zenon DEF Holds, Sound
    <2>3. lg[s] < a - 3
      BY <2>2, <1>2, Zenon
    <2>4. sn.unit[lg[s]].kind = "chunk"
      BY <2>3, Zenon DEF Reading
    <2>5. CASE s <= Inline
      BY <2>4, <2>5, Zenon DEF Reading, Record
    <2>6. CASE s > Inline
      <3>1. sn.pointer = o.pointer /\ o.pointer # None /\ o.pointer \in Units
        BY <2>6, FileFacts, Zenon DEF Reading
      <3>2. o.pointer < a - 3
        BY <3>1, <1>2, Zenon DEF Sound
      <3>3. sn.unit[o.pointer].record[s] = lg[s]
        BY <2>6, <3>2, Zenon DEF Reading
      <3>4. ~(s <= Inline)
        BY <2>6, Bounds, SMTT(30)
      <3> QED BY <2>4, <3>1, <3>3, <3>4, Zenon DEF Record
    <2> QED BY <2>1, <2>5, <2>6, Bounds, SMTT(30)
  <1> QED BY <1>1, <1>3, HoldsShows, SMTT(30)

(***************************************************************************)
(* Initially.                                                              *)
(***************************************************************************)
LEMMA FirstFile ==
    ASSUME Init
    PROVE  /\ os \in Files
           /\ os.eof = 1 /\ os.dim = 1 /\ os.pointer = None
           /\ \A s \in Slots : os.record[s] = IF s = 1 THEN 1 ELSE None
           /\ \A u \in Units : os.unit[u] = IF u = 1 THEN Chunk ELSE Absent
           /\ 1 \in Units /\ 1 \in Slots
  <1>1. Undefined \in Tables
    BY Bounds DEF Undefined, Tables, Places, None
  <1>2. Chunk \in Stored /\ Absent \in Stored
    BY <1>1, Zenon DEF Chunk, Absent, Stored, Kinds
  <1>3. 1 \in Units /\ 1 \in Slots /\ 1 \in Places /\ 1 \in 0 .. MaxDim /\ None \in Places
    BY Bounds DEF Units, Slots, Places, None
  <1> DEFINE index == [s \in Slots |-> IF s = 1 THEN 1 ELSE None]
             units == [u \in Units |-> IF u = 1 THEN Chunk ELSE Absent]
  <1>4. index \in Tables
    BY <1>3, Zenon DEF Tables
  <1>5. units \in [Units -> Stored]
    BY <1>2, Zenon
  <1>6. os = [eof |-> 1, dim |-> 1, count |-> 1, pointer |-> None, record |-> index, unit |-> units]
    BY Zenon DEF Init
  <1> HIDE DEF index, units
  <1>7. os \in Files
    BY <1>3, <1>4, <1>5, <1>6, Zenon DEF Files
  <1>8. os.eof = 1 /\ os.dim = 1 /\ os.pointer = None /\ os.record = index /\ os.unit = units
    BY <1>6, Zenon
  <1> QED BY <1>3, <1>7, <1>8, Zenon DEF index, units

LEMMA NoFileType == NoFile \in Files /\ NoFile.dim = 0
  <1>1. Undefined \in Tables
    BY Bounds DEF Undefined, Tables, Places, None
  <1>2. Absent \in Stored
    BY <1>1, Zenon DEF Absent, Stored, Kinds
  <1>3. 0 \in Places /\ 0 \in 0 .. MaxDim /\ None \in Places
    BY Bounds DEF Places, None
  <1>4. [u \in Units |-> Absent] \in [Units -> Stored]
    BY <1>2, Zenon
  <1> QED BY <1>1, <1>3, <1>4, Zenon DEF NoFile, Files

LEMMA FirstLog ==
    ASSUME Init
    PROVE  log \in Seq(Units) /\ Len(log) = 1 /\ log[1] = 1
  BY Bounds DEF Init, Units

LEMMA FirstValues ==
    ASSUME Init
    PROVE  /\ disk = os /\ pc = "idle" /\ current = 1 /\ returned = 1
           /\ at = 0 /\ seen = NoFile /\ view = Shown(os)
  BY Zenon DEF Init

LEMMA FirstSound ==
    ASSUME Init
    PROVE  Sound(os, log)
  <1>1. Shaped(os)
    <2>1. "chunk" # "absent"
      BY Zenon
    <2>2. Chunk.kind = "chunk"
      BY Zenon DEF Chunk
    <2> QED BY <2>1, <2>2, FirstFile, Zenon DEF Shaped
  <1>2. Reaches(os, os.eof)
    <2>1. os.unit[1].kind # "absent" /\ os.eof = 1 /\ 1 \in Units
      BY FirstFile DEF Chunk
    <2> QED BY <2>1 DEF Reaches
  <1>3. Within(os, os.eof)
    <2>1. os.eof = 1 /\ os.pointer <= 1
      BY FirstFile DEF None
    <2>2. \A s \in Slots : os.record[s] <= 1
      BY FirstFile DEF None
    <2>3. ASSUME NEW u \in Units, NEW s \in Slots PROVE os.unit[u].record[s] <= 1
      <3>1. os.unit[u] \in {Chunk, Absent}
        BY FirstFile, Zenon
      <3>2. os.unit[u].record[s] = 0
        BY <3>1, EmptyRecord, Zenon
      <3> QED BY <3>2
    <2> QED BY <2>1, <2>2, <2>3, Zenon DEF Within
  <1>4. Holds(os, log)
    <2>1. ASSUME NEW s \in 1 .. Len(log)
          PROVE  Record(os, s) = log[s] /\ os.unit[log[s]].kind = "chunk"
      <3>1. s = 1 /\ log[s] = 1 /\ 1 <= Inline
        BY FirstLog, Bounds
      <3>2. os.record[1] = 1 /\ os.unit[1] = Chunk
        BY FirstFile, Zenon
      <3> QED BY <3>1, <3>2 DEF Record, Chunk
    <2> QED BY <2>1, Zenon DEF Holds
  <1> QED BY <1>1, <1>2, <1>3, <1>4, FirstFile, Zenon DEF Sound

LEMMA Initially ==
    ASSUME Init
    PROVE  IInv
  <1>1. TypeOK
    <2>1. layout \in {"header_first", "index_first"}
      BY SwmrAppendAssumption, Zenon DEF Init
    <2>2. current \in 0 .. MaxDim /\ batch \in Seq(Units) /\ returned \in Nat /\ at \in Nat
      BY Bounds DEF Init
    <2>3. pc \in Steps /\ return \in {"insert", "pointer"} /\ policy \in {"Always", "OnClose"}
      BY Zenon DEF Init, Steps
    <2>4. disk \in Files /\ seen \in Files
      BY FirstFile, NoFileType, Zenon DEF Init
    <2> QED BY <2>1, <2>2, <2>3, <2>4, FirstFile, FirstLog, Zenon DEF TypeOK
  <1>2. FilesInv
    <2>1. Durable(os, os, log)
      BY FirstSound, FirstFile, Synced, Zenon
    <2>2. Len(log) = os.dim /\ returned <= os.dim
      BY FirstFile, FirstLog, FirstValues, SMTT(30)
    <2> QED BY <2>1, <2>2, FirstValues, FirstSound, Zenon DEF FilesInv
  <1>3. BatchInv
    <2>1. pc = "idle" /\ current = os.dim
      BY FirstFile, FirstValues, Zenon
    <2> QED BY <2>1, Zenon DEF BatchInv, Allocating, Recorded
  <1>4. BlockInv /\ SyncInv
    BY FirstValues, Zenon DEF BlockInv, SyncInv, Allocating, Barred
  <1>5. ReaderInv
    <2>1. Reading(seen, at, log, os.pointer)
      <3>1. at = 0 /\ seen.dim = 0 /\ Len(log) = 1
        BY NoFileType, FirstLog, FirstValues, Zenon
      <3> QED BY <3>1 DEF Reading
    <2>2. os.dim = 1 /\ Len(log) = 1 /\ os \in Files /\ log \in Seq(Units)
      BY FirstFile, FirstLog, Zenon
    <2>3. os.dim <= Len(log) /\ os.dim \in 0 .. Len(log)
      BY <2>2
    <2>4. view = SubSeq(log, 1, os.dim)
      <3>1. \A s \in 1 .. os.dim : Record(os, s) = log[s] /\ os.unit[log[s]].kind = "chunk"
        BY FirstSound, FirstFile, FirstLog, Zenon DEF Sound, Holds
      <3> QED BY <2>2, <2>3, <3>1, HoldsShows, FirstValues, Zenon
    <2> QED BY <2>1, <2>3, <2>4, Zenon DEF ReaderInv
  <1> QED BY <1>1, <1>2, <1>3, <1>4, <1>5, Zenon DEF IInv

(***************************************************************************)
(* The steps.                                                              *)
(***************************************************************************)
LEMMA InvFacts ==
    ASSUME IInv
    PROVE  /\ os \in Files /\ disk \in Files /\ seen \in Files
           /\ log \in Seq(Units) /\ batch \in Seq(Units)
           /\ current \in Nat /\ current <= MaxDim /\ at \in Nat /\ returned \in Nat
           /\ Sound(os, log) /\ Len(log) = os.dim /\ returned <= os.dim
           /\ Len(log) \in Nat /\ Len(log) <= MaxDim /\ Len(batch) \in Nat
  <1>1. TypeOK /\ FilesInv
    BY Zenon DEF IInv
  <1>2. os \in Files /\ disk \in Files /\ seen \in Files /\ log \in Seq(Units) /\ batch \in Seq(Units)
    BY <1>1, Zenon DEF TypeOK
  <1>3. current \in Nat /\ current <= MaxDim /\ at \in Nat /\ returned \in Nat
    BY <1>1, Bounds DEF TypeOK
  <1>4. Sound(os, log) /\ Len(log) = os.dim /\ returned <= os.dim
    BY <1>1, Zenon DEF FilesInv
  <1>5. Len(log) \in Nat /\ Len(batch) \in Nat
    BY <1>2, LogFacts, Zenon
  <1>6. Len(log) <= MaxDim
    BY <1>2, <1>4, FileFacts, Zenon
  <1> QED BY <1>2, <1>3, <1>4, <1>5, <1>6, Zenon

LEMMA DurableFacts ==
    ASSUME IInv, policy = "Always"
    PROVE  Durable(os, disk, log) /\ returned <= disk.dim
  BY Zenon DEF IInv, FilesInv

\* A step of the writer that only extends the log leaves the reader's pass valid.
LEMMA ReaderGoesOn ==
    ASSUME IInv, UNCHANGED <<layout, reader>>, log' \in Seq(Units), Len(log) <= Len(log'),
           \A s \in 1 .. Len(log) : log'[s] = log[s], os.pointer = None \/ os'.pointer = os.pointer
    PROVE  ReaderInv'
  <1> SUFFICES ASSUME layout = "header_first"
               PROVE  /\ Reading(seen, at, log', os'.pointer)
                      /\ \E n \in 0 .. Len(log') : view = SubSeq(log', 1, n)
    BY Zenon DEF ReaderInv, reader
  <1>1. /\ Reading(seen, at, log, os.pointer)
        /\ \E n \in 0 .. Len(log) : view = SubSeq(log, 1, n)
    BY Zenon DEF IInv, ReaderInv
  <1>2. Reading(seen, at, log', os'.pointer)
    BY <1>1, InvFacts, ReadingStays, Zenon
  <1>3. PICK n \in 0 .. Len(log) : view = SubSeq(log, 1, n)
    BY <1>1, Zenon
  <1>4. n \in 0 .. Len(log') /\ Len(log) \in Nat /\ Len(log') \in Nat
    BY InvFacts, LogFacts
  <1>5. SubSeq(log, 1, n) = [i \in 1 .. n |-> log[i]] /\ SubSeq(log', 1, n) = [i \in 1 .. n |-> log'[i]]
    BY <1>4, InvFacts
  <1>6. \A i \in 1 .. n : log'[i] = log[i]
    BY <1>4
  <1>7. SubSeq(log', 1, n) = SubSeq(log, 1, n)
    BY <1>5, <1>6, Zenon
  <1> QED BY <1>2, <1>3, <1>4, <1>7, Zenon

LEMMA ReaderUntouched ==
    ASSUME IInv, UNCHANGED <<layout, reader>>, log' = log, os.pointer = None \/ os'.pointer = os.pointer
    PROVE  ReaderInv'
  <1>1. log' \in Seq(Units) /\ \A s \in 1 .. Len(log) : log'[s] = log[s]
    BY InvFacts, Zenon
  <1>2. Len(log) <= Len(log')
    BY InvFacts
  <1> QED BY <1>1, <1>2, ReaderGoesOn, Zenon

\* A barrier.
LEMMA BarrierFiles ==
    ASSUME IInv, Sync, UNCHANGED <<policy, os, log>>, returned' <= os.dim
    PROVE  /\ disk' \in Files
           /\ policy' = "Always" => disk' = os
           /\ FilesInv'
  <1>1. CASE policy = "Always"
    <2>1. disk' = os
      BY <1>1, Zenon DEF Sync
    <2>2. Durable(os, os, log)
      BY InvFacts, Synced, Zenon
    <2> QED BY <2>1, <2>2, InvFacts, Zenon DEF FilesInv
  <1>2. CASE policy # "Always"
    <2>1. disk' = disk
      BY <1>2, Zenon DEF Sync
    <2> QED BY <1>2, <2>1, InvFacts, Zenon DEF FilesInv
  <1> QED BY <1>1, <1>2, Zenon

LEMMA BarrierSync ==
    ASSUME policy' = "Always" => disk' = os, os' = os
    PROVE  SyncInv'
  BY Zenon DEF SyncInv, SameContent

\* The conjuncts of the invariant about the batch and the data block, by what they say.
LEMMA BatchFacts ==
    ASSUME IInv
    PROVE  /\ pc \notin {"idle", "stopped"} =>
                 /\ current + Len(batch) <= MaxDim
                 /\ \A i \in 1 .. Len(batch) : os.unit[batch[i]].kind = "chunk"
           /\ pc \notin {"stopped", "dimension_written"} => current = os.dim
           /\ pc = "dimension_written" => current + Len(batch) = os.dim
           /\ pc = "insert" \/ Allocating =>
                 \A i \in 1 .. Len(batch) : batch[i] <= os.eof /\ (policy = "Always" => batch[i] <= disk.eof)
           /\ Recorded => \A i \in 1 .. Len(batch) : Record(os, current + i) = batch[i]
  BY Zenon DEF IInv, BatchInv

LEMMA BlockFacts ==
    ASSUME IInv
    PROVE  /\ pc = "pointer" => return = "pointer"
           /\ Allocating => os.pointer = None /\ Length(os) \in Units /\ os.unit[Length(os)] = NewBlock
           /\ pc \in {"eof_written", "pointer"} => os.eof = Length(os)
  BY Zenon DEF IInv, BlockInv

LEMMA SyncContentKeeps ==
    ASSUME IInv, SyncContent
    PROVE  IInv'
  <1>1. /\ pc = "allocated" /\ pc' = "eof" /\ Sync
        /\ UNCHANGED <<policy, layout, os, return, current, batch, log, returned, reader>>
    BY Zenon DEF SyncContent
  <1>2. disk' \in Files /\ (policy' = "Always" => disk' = os) /\ FilesInv'
    BY <1>1, InvFacts, BarrierFiles, Zenon
  <1>3. TypeOK'
    <2>1. pc' \in Steps
      BY <1>1, Zenon DEF Steps
    <2> QED BY <1>1, <1>2, <2>1, Zenon DEF IInv, TypeOK, reader
  <1>4. BatchInv'
    <2>1. Allocating' => Allocating
      BY <1>1, Zenon DEF Allocating
    <2>2. ~Recorded'
      BY <1>1, Zenon DEF Recorded
    <2>3. pc \notin {"idle", "stopped", "dimension_written"} /\ pc' # "dimension_written" /\ pc' # "insert"
      BY <1>1, Zenon
    <2> QED BY <1>1, <1>2, <2>1, <2>2, <2>3, BatchFacts, Zenon DEF BatchInv
  <1>5. BlockInv'
    <2>1. Allocating' => Allocating
      BY <1>1, Zenon DEF Allocating
    <2>2. pc' \notin {"eof_written", "pointer"}
      BY <1>1, Zenon
    <2> QED BY <1>1, <2>1, <2>2, BlockFacts, Zenon DEF BlockInv
  <1>6. SyncInv'
    BY <1>1, <1>2, BarrierSync, Zenon
  <1>7. ReaderInv'
    BY <1>1, ReaderUntouched, Zenon
  <1> QED BY <1>2, <1>3, <1>4, <1>5, <1>6, <1>7, Zenon DEF IInv

LEMMA SyncEofKeeps ==
    ASSUME IInv, SyncEof
    PROVE  IInv'
  <1>1. /\ pc = "eof_written" /\ pc' = return /\ Sync
        /\ UNCHANGED <<policy, layout, os, return, current, batch, log, returned, reader>>
    BY Zenon DEF SyncEof
  <1>2. disk' \in Files /\ (policy' = "Always" => disk' = os) /\ FilesInv'
    BY <1>1, InvFacts, BarrierFiles, Zenon
  <1>3. pc' \in {"insert", "pointer"}
    BY <1>1, Zenon DEF IInv, TypeOK
  <1>4. TypeOK'
    <2>1. pc' \in Steps
      BY <1>3, Zenon DEF Steps
    <2> QED BY <1>1, <1>2, <2>1, Zenon DEF IInv, TypeOK, reader
  <1>5. BatchInv'
    <2>1. ~Recorded'
      BY <1>3, Zenon DEF Recorded
    <2>2. pc \notin {"idle", "stopped", "dimension_written"} /\ pc' # "dimension_written"
      BY <1>1, <1>3, Zenon
    <2>3. ASSUME NEW i \in 1 .. Len(batch) PROVE batch[i] <= os.eof
      <3>1. batch[i] \in Units /\ os.unit[batch[i]].kind = "chunk"
        BY <2>2, BatchFacts, InvFacts, LogFacts, Zenon
      <3>2. os.unit[batch[i]] # Absent
        BY <3>1 DEF Absent
      <3>3. os.eof = Length(os)
        BY <1>1, BlockFacts, Zenon
      <3> QED BY <3>1, <3>2, <3>3, LengthFacts, Zenon
    <2> QED BY <1>1, <1>2, <2>1, <2>2, <2>3, BatchFacts, Zenon DEF BatchInv
  <1>6. BlockInv'
    <2>1. Allocating' => Allocating
      BY <1>1, <1>3, Zenon DEF Allocating
    <2>2. os.eof = Length(os)
      BY <1>1, BlockFacts, Zenon
    <2> QED BY <1>1, <2>1, <2>2, BlockFacts, Zenon DEF BlockInv
  <1>7. SyncInv'
    BY <1>1, <1>2, BarrierSync, Zenon
  <1>8. ReaderInv'
    BY <1>1, ReaderUntouched, Zenon
  <1> QED BY <1>2, <1>4, <1>5, <1>6, <1>7, <1>8, Zenon DEF IInv

LEMMA SyncRecordsKeeps ==
    ASSUME IInv, SyncRecords
    PROVE  IInv'
  <1>1. /\ pc = "insert" /\ Pending = {} /\ pc' = "statistics" /\ Sync
        /\ UNCHANGED <<policy, layout, os, return, current, batch, log, returned, reader>>
    BY Zenon DEF SyncRecords
  <1>2. disk' \in Files /\ (policy' = "Always" => disk' = os) /\ FilesInv'
    BY <1>1, InvFacts, BarrierFiles, Zenon
  <1>3. TypeOK'
    <2>1. pc' \in Steps
      BY <1>1, Zenon DEF Steps
    <2> QED BY <1>1, <1>2, <2>1, Zenon DEF IInv, TypeOK, reader
  <1>4. ~Allocating' /\ pc' \notin {"eof_written", "pointer", "dimension_written", "insert"}
    BY <1>1, Zenon DEF Allocating
  <1>5. BatchInv'
    <2>1. \A i \in 1 .. Len(batch) : Record(os, current + i) = batch[i]
      BY <1>1, Zenon DEF Pending
    <2>2. pc \notin {"idle", "stopped", "dimension_written"}
      BY <1>1, Zenon
    <2> QED BY <1>1, <1>4, <2>1, <2>2, BatchFacts, Zenon DEF BatchInv
  <1>6. BlockInv'
    BY <1>4, Zenon DEF BlockInv
  <1>7. SyncInv'
    BY <1>1, <1>2, BarrierSync, Zenon
  <1>8. ReaderInv'
    BY <1>1, ReaderUntouched, Zenon
  <1> QED BY <1>2, <1>3, <1>5, <1>6, <1>7, <1>8, Zenon DEF IInv

LEMMA SyncStatisticsKeeps ==
    ASSUME IInv, SyncStatistics
    PROVE  IInv'
  <1>1. /\ pc = "statistics_written" /\ pc' = "dimension" /\ Sync
        /\ UNCHANGED <<policy, layout, os, return, current, batch, log, returned, reader>>
    BY Zenon DEF SyncStatistics
  <1>2. disk' \in Files /\ (policy' = "Always" => disk' = os) /\ FilesInv'
    BY <1>1, InvFacts, BarrierFiles, Zenon
  <1>3. TypeOK'
    <2>1. pc' \in Steps
      BY <1>1, Zenon DEF Steps
    <2> QED BY <1>1, <1>2, <2>1, Zenon DEF IInv, TypeOK, reader
  <1>4. ~Allocating' /\ pc' \notin {"eof_written", "pointer", "dimension_written", "insert"}
    BY <1>1, Zenon DEF Allocating
  <1>5. BatchInv'
    <2>1. Recorded
      BY <1>1, Zenon DEF Recorded
    <2>2. pc \notin {"idle", "stopped", "dimension_written"}
      BY <1>1, Zenon
    <2> QED BY <1>1, <1>4, <2>1, <2>2, BatchFacts, Zenon DEF BatchInv
  <1>6. BlockInv'
    BY <1>4, Zenon DEF BlockInv
  <1>7. SyncInv'
    BY <1>1, <1>2, BarrierSync, Zenon
  <1>8. ReaderInv'
    BY <1>1, ReaderUntouched, Zenon
  <1> QED BY <1>2, <1>3, <1>5, <1>6, <1>7, <1>8, Zenon DEF IInv

\* At rest nothing is said of the batch.
LEMMA AtRest ==
    ASSUME pc' \in {"idle", "stopped"}, pc' = "idle" => current' = os'.dim
    PROVE  BatchInv' /\ BlockInv' /\ SyncInv'
  <1>1. pc' \notin {"eof_written", "pointer", "dimension_written", "insert"} /\ pc' \in Steps
    BY Zenon DEF Steps
  <1>2. ~Allocating' /\ ~Recorded' /\ ~Barred'
    BY Zenon DEF Allocating, Recorded, Barred
  <1> QED BY <1>1, <1>2, Zenon DEF BatchInv, BlockInv, SyncInv

LEMMA AppendedKeeps ==
    ASSUME IInv, Appended
    PROVE  IInv'
  <1>1. /\ pc = "dimension_written" /\ pc' = "idle" /\ Sync
        /\ current' = current + Len(batch) /\ returned' = current' /\ batch' = <<>>
        /\ UNCHANGED <<policy, layout, os, return, log, reader>>
    BY Zenon DEF Appended
  <1>2. current' = os.dim
    BY <1>1, BatchFacts, Zenon
  <1>3. os.dim <= os.dim /\ os.dim \in Nat /\ os.dim \in 0 .. MaxDim
    BY InvFacts, FileFacts, Bounds
  <1>4. disk' \in Files /\ FilesInv'
    BY <1>1, <1>2, <1>3, BarrierFiles, Zenon
  <1>5. TypeOK'
    <2>1. pc' \in Steps /\ batch' \in Seq(Units)
      BY <1>1 DEF Steps
    <2> QED BY <1>1, <1>2, <1>3, <1>4, <2>1, Zenon DEF IInv, TypeOK, reader
  <1>6. BatchInv' /\ BlockInv' /\ SyncInv'
    BY <1>1, <1>2, AtRest, Zenon
  <1>7. ReaderInv'
    BY <1>1, ReaderUntouched, Zenon
  <1> QED BY <1>4, <1>5, <1>6, <1>7, Zenon DEF IInv

LEMMA FailsKeeps ==
    ASSUME IInv, Fails
    PROVE  IInv'
  <1>1. /\ pc' = "stopped"
        /\ UNCHANGED <<policy, layout, os, disk, return, current, batch, log, returned, reader>>
    BY Zenon DEF Fails
  <1>2. TypeOK'
    <2>1. pc' \in Steps
      BY <1>1, Zenon DEF Steps
    <2> QED BY <1>1, <2>1, Zenon DEF IInv, TypeOK, reader
  <1>3. FilesInv'
    BY <1>1, Zenon DEF IInv, FilesInv
  <1>4. BatchInv' /\ BlockInv' /\ SyncInv'
    <2>1. pc' # "idle"
      BY <1>1, Zenon
    <2> QED BY <1>1, <2>1, AtRest, Zenon
  <1>5. ReaderInv'
    BY <1>1, ReaderUntouched, Zenon
  <1> QED BY <1>2, <1>3, <1>4, <1>5, Zenon DEF IInv

LEMMA WriterDiesKeeps ==
    ASSUME IInv, WriterDies
    PROVE  IInv'
  <1>1. /\ pc' = "idle" /\ return' = "insert" /\ current' = os.dim /\ batch' = <<>>
        /\ UNCHANGED <<policy, layout, os, disk, log, returned, reader>>
    BY Zenon DEF WriterDies, Locate
  <1>2. TypeOK'
    <2>1. pc' \in Steps /\ batch' \in Seq(Units) /\ return' \in {"insert", "pointer"}
      BY <1>1, SMTT(30) DEF Steps
    <2>2. current' \in 0 .. MaxDim
      BY <1>1, InvFacts, FileFacts, Bounds
    <2> QED BY <1>1, <2>1, <2>2, Zenon DEF IInv, TypeOK, reader
  <1>3. FilesInv'
    BY <1>1, Zenon DEF IInv, FilesInv
  <1>4. BatchInv' /\ BlockInv' /\ SyncInv'
    BY <1>1, AtRest, Zenon
  <1>5. ReaderInv'
    BY <1>1, ReaderUntouched, Zenon
  <1> QED BY <1>2, <1>3, <1>4, <1>5, Zenon DEF IInv

LEMMA SameLength ==
    ASSUME NEW f, NEW g, f.unit = g.unit
    PROVE  Length(f) = Length(g)
  BY DEF Length

LEMMA SameTransitive ==
    ASSUME NEW f, NEW g, NEW h, SameContent(f, g), SameContent(h, g)
    PROVE  SameContent(f, h)
  BY Zenon DEF SameContent

\* Content that was made durable stays so while only the superblock, statistics and dimension change.
LEMMA StillSynced ==
    ASSUME IInv, Barred, UNCHANGED <<policy, disk>>, SameContent(os', os), pc' # "pointer"
    PROVE  SyncInv'
  <1>1. policy = "Always" => SameContent(disk, os)
    BY Zenon DEF IInv, SyncInv
  <1>2. policy = "Always" => SameContent(disk, os')
    BY <1>1, SameTransitive, Zenon
  <1>3. policy' = "Always" => SameContent(disk', os')
    BY <1>2, Zenon
  <1> QED BY <1>3, Zenon DEF SyncInv

LEMMA PublishEofKeeps ==
    ASSUME IInv, PublishEof
    PROVE  IInv'
  <1>1. /\ pc = "eof" /\ pc' = "eof_written" /\ os' = [os EXCEPT !.eof = Length(os)]
        /\ UNCHANGED <<policy, layout, disk, return, current, batch, log, returned, reader>>
    BY Zenon DEF PublishEof, Writes
  <1>2. /\ os' \in Files /\ os'.eof = Length(os) /\ os'.dim = os.dim
        /\ os'.unit = os.unit /\ os'.record = os.record /\ os'.pointer = os.pointer
    BY Zenon, <1>1, InvFacts, LengthFacts DEF Files
  <1>3. SameContent(os', os)
    BY <1>2, Zenon DEF SameContent
  <1>4. os.eof <= os'.eof /\ Reaches(os, os'.eof)
    <2>1. Sound(os, log) /\ os.eof \in Places
      BY InvFacts, Zenon DEF Files
    <2> QED BY <1>2, <2>1, ReachesLength, LengthReached, Zenon DEF Sound
  <1>5. FilesInv'
    <2>1. Holds(os, log)
      BY InvFacts, Zenon DEF Sound
    <2>2. Sound(os', log)
      BY <1>2, <1>3, <1>4, <2>1, InvFacts, RegionWritten, Zenon
    <2>3. ASSUME policy = "Always" PROVE Durable(os', disk, log)
      <3>1. Barred
        BY <1>1, Zenon DEF Barred
      <3>2. disk.unit = os.unit
        BY <2>3, <3>1, Zenon DEF IInv, SyncInv, SameContent
      <3>3. Reaches(disk, os'.eof)
        BY <1>4, <3>2, Zenon DEF Reaches
      <3>4. os.dim <= os'.dim
        BY <1>2, InvFacts, FileFacts, SMTT(30)
      <3>5. Durable(os, disk, log) /\ Holds(disk, log)
        BY <2>3, DurableFacts, Zenon DEF Durable
      <3> QED BY <1>2, <1>3, <1>4, <3>3, <3>4, <3>5, InvFacts, RegionDurable, Zenon
    <2> QED BY <1>1, <1>2, <2>2, <2>3, InvFacts, DurableFacts, Zenon DEF FilesInv
  <1>6. TypeOK'
    <2>1. pc' \in Steps
      BY <1>1, Zenon DEF Steps
    <2> QED BY <1>1, <1>2, <2>1, Zenon DEF IInv, TypeOK, reader
  <1>7. BatchInv'
    <2>1. Allocating' => Allocating
      BY <1>1, Zenon DEF Allocating
    <2>2. ~Recorded'
      BY <1>1, Zenon DEF Recorded
    <2>3. pc \notin {"idle", "stopped", "dimension_written"} /\ pc' # "dimension_written" /\ pc' # "insert"
      BY <1>1, Zenon
    <2>4. ASSUME Allocating, NEW i \in 1 .. Len(batch) PROVE batch[i] <= os'.eof
      <3>1. batch[i] <= os.eof /\ batch[i] \in Units
        BY <2>4, BatchFacts, InvFacts, LogFacts, Zenon
      <3>2. batch[i] \in Nat
        BY <3>1, Bounds, SMTT(30) DEF Units
      <3>3. os.eof \in Nat /\ os'.eof \in Nat
        BY <1>2, InvFacts, FileFacts, Zenon
      <3>4. os.eof <= os'.eof
        BY <1>4, Zenon
      <3> QED BY <3>1, <3>2, <3>3, <3>4, SMTT(30)
    <2> QED BY <1>1, <1>2, <2>1, <2>2, <2>3, <2>4, BatchFacts, Zenon DEF BatchInv
  <1>8. BlockInv'
    <2>1. Allocating' => Allocating
      BY <1>1, Zenon DEF Allocating
    <2>2. Length(os') = Length(os)
      BY <1>2, SameLength, Zenon
    <2>3. pc' # "pointer"
      BY <1>1, Zenon
    <2> QED BY <1>1, <1>2, <2>1, <2>2, <2>3, BlockFacts, Zenon DEF BlockInv
  <1>9. SyncInv'
    <2>1. Barred /\ pc' # "pointer"
      BY <1>1, Zenon DEF Barred
    <2> QED BY <1>1, <1>3, <2>1, StillSynced, Zenon
  <1>10. ReaderInv'
    BY <1>1, <1>2, ReaderUntouched, Zenon
  <1> QED BY <1>5, <1>6, <1>7, <1>8, <1>9, <1>10, Zenon DEF IInv

LEMMA PublishStatisticsKeeps ==
    ASSUME IInv, PublishStatistics
    PROVE  IInv'
  <1>1. /\ pc = "statistics" /\ pc' = "statistics_written"
        /\ os' = [os EXCEPT !.count = current + Len(batch)]
        /\ UNCHANGED <<policy, layout, disk, return, current, batch, log, returned, reader>>
    BY Zenon DEF PublishStatistics, Writes
  <1>2. current + Len(batch) \in 0 .. MaxDim
    <2>1. pc \notin {"idle", "stopped"}
      BY <1>1, Zenon
    <2> QED BY <2>1, BatchFacts, InvFacts, Bounds, SMTT(30)
  <1>3. /\ os' \in Files /\ os'.eof = os.eof /\ os'.dim = os.dim
        /\ os'.unit = os.unit /\ os'.record = os.record /\ os'.pointer = os.pointer
    BY Zenon, <1>1, <1>2, InvFacts DEF Files
  <1>4. SameContent(os', os)
    BY <1>3, Zenon DEF SameContent
  <1>5. os.eof <= os'.eof /\ os.dim <= os'.dim
    BY <1>3, InvFacts, FileFacts, SMTT(30)
  <1>6. FilesInv'
    <2>1. Holds(os, log) /\ Reaches(os, os'.eof)
      BY <1>3, InvFacts, Zenon DEF Sound
    <2>2. Sound(os', log)
      BY <1>3, <1>4, <1>5, <2>1, InvFacts, RegionWritten, Zenon
    <2>3. ASSUME policy = "Always" PROVE Durable(os', disk, log)
      <3>1. Durable(os, disk, log) /\ Holds(disk, log) /\ Reaches(disk, os'.eof)
        BY <1>3, <2>3, DurableFacts, Zenon DEF Durable
      <3> QED BY <1>3, <1>4, <1>5, <3>1, InvFacts, RegionDurable, Zenon
    <2> QED BY <1>1, <1>3, <2>2, <2>3, InvFacts, DurableFacts, Zenon DEF FilesInv
  <1>7. TypeOK'
    <2>1. pc' \in Steps
      BY <1>1, Zenon DEF Steps
    <2> QED BY <1>1, <1>3, <2>1, Zenon DEF IInv, TypeOK, reader
  <1>8. ~Allocating' /\ pc' \notin {"eof_written", "pointer", "dimension_written", "insert"}
    BY <1>1, Zenon DEF Allocating
  <1>9. BatchInv'
    <2>1. Recorded
      BY <1>1, Zenon DEF Recorded
    <2>2. pc \notin {"idle", "stopped", "dimension_written"}
      BY <1>1, Zenon
    <2>3. \A i \in 1 .. Len(batch) : Record(os', current + i) = Record(os, current + i)
      BY <1>3, Zenon DEF Record
    <2> QED BY <1>1, <1>3, <1>8, <2>1, <2>2, <2>3, BatchFacts, Zenon DEF BatchInv
  <1>10. BlockInv'
    BY <1>8, Zenon DEF BlockInv
  <1>11. SyncInv'
    <2>1. Barred
      BY <1>1, Zenon DEF Barred
    <2> QED BY <1>1, <1>4, <1>8, <2>1, StillSynced, Zenon
  <1>12. ReaderInv'
    BY <1>1, <1>3, ReaderUntouched, Zenon
  <1> QED BY <1>6, <1>7, <1>9, <1>10, <1>11, <1>12, Zenon DEF IInv

LEMMA LogGrows ==
    ASSUME NEW lg \in Seq(Units), NEW b \in Seq(Units)
    PROVE  /\ lg \o b \in Seq(Units) /\ Len(lg \o b) = Len(lg) + Len(b)
           /\ \A s \in 1 .. Len(lg) : (lg \o b)[s] = lg[s]
           /\ \A s \in 1 .. Len(lg \o b) : s \notin 1 .. Len(lg) =>
                 s - Len(lg) \in 1 .. Len(b) /\ (lg \o b)[s] = b[s - Len(lg)]
  BY SMTT(30)

LEMMA PublishDimensionKeeps ==
    ASSUME IInv, PublishDimension
    PROVE  IInv'
  <1>1. /\ pc = "dimension" /\ pc' = "dimension_written" /\ log' = log \o batch
        /\ os' = [os EXCEPT !.dim = current + Len(batch)]
        /\ UNCHANGED <<policy, layout, disk, return, current, batch, returned, reader>>
    BY Zenon DEF PublishDimension, Writes
  <1>2. /\ current + Len(batch) <= MaxDim /\ current = os.dim
        /\ \A i \in 1 .. Len(batch) : os.unit[batch[i]].kind = "chunk" /\ Record(os, current + i) = batch[i]
    <2>1. pc \notin {"idle", "stopped", "dimension_written"} /\ Recorded
      BY <1>1, Zenon DEF Recorded
    <2> QED BY <2>1, BatchFacts, Zenon
  <1>3. current + Len(batch) \in 0 .. MaxDim /\ current <= current + Len(batch)
    BY <1>2, InvFacts, Bounds, SMTT(30)
  <1>4. /\ os' \in Files /\ os'.eof = os.eof /\ os'.dim = current + Len(batch)
        /\ os'.unit = os.unit /\ os'.record = os.record /\ os'.pointer = os.pointer
    BY Zenon, <1>1, <1>3, InvFacts DEF Files
  <1>5. SameContent(os', os)
    BY <1>4, Zenon DEF SameContent
  <1>6. os.eof <= os'.eof /\ os.dim <= os'.dim
    BY <1>2, <1>3, <1>4, InvFacts, FileFacts, SMTT(30)
  <1>7. /\ log' \in Seq(Units) /\ Len(log') = os'.dim /\ Len(log) <= Len(log')
        /\ \A s \in 1 .. Len(log) : log'[s] = log[s]
    <2>1. Len(log') = Len(log) + Len(batch)
      BY <1>1, InvFacts, LogGrows, Zenon
    <2>2. Len(log) = current
      BY <1>2, InvFacts, Zenon
    <2>3. Len(log') = os'.dim /\ Len(log) <= Len(log')
      BY <2>1, <2>2, <1>3, <1>4, Zenon
    <2> QED BY <2>3, <1>1, InvFacts, LogGrows, Zenon
  <1>8. Holds(os, log')
    <2> SUFFICES ASSUME NEW s \in 1 .. Len(log')
                 PROVE  Record(os, s) = log'[s] /\ os.unit[log'[s]].kind = "chunk"
      BY Zenon DEF Holds
    <2>1. CASE s \in 1 .. Len(log)
      BY <2>1, <1>7, InvFacts, Zenon DEF Sound, Holds
    <2>2. CASE s \notin 1 .. Len(log)
      <3> DEFINE i == s - Len(log)
      <3>1. i \in 1 .. Len(batch) /\ log'[s] = batch[i]
        BY <2>2, <1>1, InvFacts, LogGrows, Zenon
      <3>2. current + i = s
        <4>1. current = Len(log) /\ Len(log) \in Nat /\ Len(log') \in Nat
          BY <1>2, <1>7, InvFacts, LogFacts, Zenon
        <4> QED BY <4>1, SMTT(30)
      <3> HIDE DEF i
      <3> QED BY <1>2, <3>1, <3>2, Zenon
    <2> QED BY <2>1, <2>2, Zenon
  <1>9. FilesInv'
    <2>1. Reaches(os, os'.eof)
      BY <1>4, InvFacts, Zenon DEF Sound
    <2>2. Sound(os', log')
      BY <1>4, <1>5, <1>6, <1>8, <2>1, InvFacts, RegionWritten, Zenon
    <2>3. ASSUME policy = "Always" PROVE Durable(os', disk, log')
      <3>1. Durable(os, disk, log) /\ Reaches(disk, os'.eof)
        BY <1>4, <2>3, DurableFacts, Zenon DEF Durable
      <3>2. Barred
        BY <1>1, Zenon DEF Barred
      <3>3. Holds(disk, log')
        BY <2>3, <3>2, <1>8, SameHolds, Zenon DEF IInv, SyncInv
      <3> QED BY <1>4, <1>5, <1>6, <3>1, <3>3, InvFacts, RegionDurable, Zenon
    <2>4. returned <= os'.dim
      BY <1>2, <1>3, <1>4, InvFacts, SMTT(30)
    <2> QED BY <1>1, <1>7, <2>2, <2>3, <2>4, DurableFacts, Zenon DEF FilesInv
  <1>10. TypeOK'
    <2>1. pc' \in Steps
      BY <1>1, Zenon DEF Steps
    <2> QED BY <1>1, <1>4, <1>7, <2>1, Zenon DEF IInv, TypeOK, reader
  <1>11. ~Allocating' /\ ~Recorded' /\ pc' \notin {"eof_written", "pointer", "insert"}
    BY <1>1, Zenon DEF Allocating, Recorded
  <1>12. BatchInv'
    BY <1>1, <1>2, <1>4, <1>11, Zenon DEF BatchInv
  <1>13. BlockInv'
    BY <1>11, Zenon DEF BlockInv
  <1>14. SyncInv'
    <2>1. Barred
      BY <1>1, Zenon DEF Barred
    <2> QED BY <1>1, <1>5, <1>11, <2>1, StillSynced, Zenon
  <1>15. ReaderInv'
    BY <1>1, <1>4, <1>7, ReaderGoesOn, Zenon
  <1> QED BY <1>9, <1>10, <1>12, <1>13, <1>14, <1>15, Zenon DEF IInv

LEMMA PublishPointerKeeps ==
    ASSUME IInv, PublishPointer
    PROVE  IInv'
  <1>1. /\ pc = "pointer" /\ pc' = "insert" /\ os' = [os EXCEPT !.pointer = Length(os)]
        /\ UNCHANGED <<policy, layout, disk, return, current, batch, log, returned, reader>>
    BY Zenon DEF PublishPointer, Writes
  <1>2. Allocating
    BY <1>1, BlockFacts, Zenon DEF Allocating
  <1>3. /\ os.pointer = None /\ os.eof = Length(os)
        /\ Length(os) \in Units /\ os.unit[Length(os)] = NewBlock
    BY <1>1, <1>2, BlockFacts, Zenon
  <1>4. /\ os' \in Files /\ os'.eof = os.eof /\ os'.dim = os.dim /\ os'.pointer = Length(os)
        /\ os'.unit = os.unit /\ os'.record = os.record
    BY <1>1, InvFacts, LengthFacts, Zenon DEF Files
  <1>5. Points(os, os', Length(os)) /\ NewBlock.kind = "block"
    BY <1>3, <1>4, Zenon DEF Points, NewBlock
  <1>6. FilesInv'
    <2>1. Length(os) <= os.eof
      BY <1>3, Bounds, SMTT(30) DEF Units
    <2>2. Sound(os', log)
      BY <1>3, <1>4, <1>5, <2>1, InvFacts, PointerWritten, Zenon
    <2>3. ASSUME policy = "Always" PROVE Durable(os', disk, log)
      <3>1. Barred
        BY <1>1, Zenon DEF Barred
      <3>2. disk.unit = os.unit /\ disk.eof = os.eof
        BY <1>1, <2>3, <3>1, Zenon DEF IInv, SyncInv, SameContent
      <3> QED BY <1>3, <1>4, <1>5, <2>1, <2>3, <3>2, InvFacts, DurableFacts, PointerDurable, Zenon
    <2> QED BY <1>1, <1>4, <2>2, <2>3, InvFacts, DurableFacts, Zenon DEF FilesInv
  <1>7. TypeOK'
    <2>1. pc' \in Steps
      BY <1>1, Zenon DEF Steps
    <2> QED BY <1>1, <1>4, <2>1, Zenon DEF IInv, TypeOK, reader
  <1>8. /\ ~Allocating' /\ ~Recorded' /\ ~Barred'
        /\ pc' \notin {"eof_written", "pointer", "dimension_written"} /\ pc \notin {"idle", "stopped", "dimension_written"}
    BY <1>1, Zenon DEF Allocating, Recorded, Barred
  <1>9. BatchInv'
    BY <1>1, <1>2, <1>4, <1>8, BatchFacts, Zenon DEF BatchInv
  <1>10. BlockInv' /\ SyncInv'
    BY <1>8, Zenon DEF BlockInv, SyncInv
  <1>11. ReaderInv'
    BY <1>1, <1>3, ReaderUntouched, Zenon
  <1> QED BY <1>6, <1>7, <1>9, <1>10, <1>11, Zenon DEF IInv

LEMMA EmptyUnits == Chunk \in Stored /\ NewBlock \in Stored
  <1>1. Undefined \in Tables
    BY Bounds, SMTT(30) DEF Undefined, Tables, Places, None
  <1> QED BY <1>1, Zenon DEF Chunk, NewBlock, Stored, Kinds

LEMMA AllocateBlockKeeps ==
    ASSUME IInv, AllocateBlock
    PROVE  IInv'
  <1> DEFINE k == Length(os) + 1
  <1>1. /\ pc = "insert" /\ pc' = "allocated" /\ return' = "pointer" /\ os.pointer = None
        /\ Length(os) < MaxUnits /\ os' = [os EXCEPT !.unit[k] = NewBlock]
        /\ UNCHANGED <<policy, layout, disk, current, batch, log, returned, reader>>
    BY Zenon DEF AllocateBlock, Writes
  <1>2. k \in Units /\ Length(os) \in Nat
    BY <1>1, LengthFacts, Bounds, SMTT(30) DEF Units, Places
  <1>3. \A u \in Units : u >= k => os.unit[u] = Absent
    BY <1>2, LengthFacts, Bounds DEF Units
  <1>4. k >= k
    BY <1>2
  <1> HIDE DEF k
  <1>5. /\ os' \in Files /\ os'.eof = os.eof /\ os'.dim = os.dim /\ os'.pointer = os.pointer
        /\ os'.record = os.record /\ os'.unit = [os.unit EXCEPT ![k] = NewBlock]
    BY Zenon, <1>1, <1>2, InvFacts, EmptyUnits DEF Files
  <1>6. os.unit \in [Units -> Stored]
    BY InvFacts, Zenon DEF Files
  <1>7. os'.unit[k] = NewBlock /\ \A u \in Units : u # k => os'.unit[u] = os.unit[u]
    BY <1>2, <1>5, <1>6, Zenon
  <1>8. Appends(os, os')
    BY <1>2, <1>3, <1>4, <1>5, <1>7, Zenon DEF Appends
  <1>9. FilesInv'
    <2>1. Sound(os', log)
      BY <1>5, <1>8, InvFacts, UnitsWritten, Zenon
    <2>2. ASSUME policy = "Always" PROVE Durable(os', disk, log)
      BY <1>5, <1>8, <2>2, InvFacts, DurableFacts, UnitsDurable, Zenon
    <2> QED BY <1>1, <1>5, <2>1, <2>2, InvFacts, DurableFacts, Zenon DEF FilesInv
  <1>10. TypeOK'
    <2>1. pc' \in Steps /\ return' \in {"insert", "pointer"}
      BY <1>1, Zenon DEF Steps
    <2> QED BY <1>1, <1>5, <2>1, Zenon DEF IInv, TypeOK, reader
  <1>11. /\ ~Recorded' /\ ~Barred' /\ pc' \notin {"eof_written", "pointer", "dimension_written", "insert"}
         /\ pc \notin {"idle", "stopped", "dimension_written"}
    BY <1>1, Zenon DEF Recorded, Barred
  <1>12. BatchInv'
    <2>1. ASSUME NEW i \in 1 .. Len(batch) PROVE os'.unit[batch[i]].kind = "chunk"
      <3>1. batch[i] \in Units /\ os.unit[batch[i]].kind = "chunk"
        BY <1>11, BatchFacts, InvFacts, LogFacts, Zenon
      <3>2. os.unit[batch[i]].kind # "absent"
        BY <3>1, Zenon
      <3> QED BY <1>8, <3>1, <3>2, AppendedUnit, Zenon
    <2> QED BY <1>1, <1>5, <1>11, <2>1, BatchFacts, ZenonT(30) DEF BatchInv
  <1>13. BlockInv'
    <2>1. NewBlock # Absent
      BY Zenon DEF NewBlock, Absent
    <2>2. ASSUME NEW u \in Units, os'.unit[u] # Absent PROVE u <= k
      BY <1>2, <1>3, <1>7, <2>2, Bounds, SMTT(30) DEF Units
    <2>3. Length(os') = k
      BY <1>2, <1>7, <2>1, <2>2, LengthIs, Zenon
    <2> QED BY <1>1, <1>2, <1>5, <1>7, <1>11, <2>3, Zenon DEF BlockInv
  <1>14. SyncInv'
    BY <1>11, Zenon DEF SyncInv
  <1>15. ReaderInv'
    BY <1>1, <1>5, ReaderUntouched, Zenon
  <1> QED BY <1>9, <1>10, <1>12, <1>13, <1>14, <1>15, Zenon DEF IInv

LEMMA BatchPlaces ==
    ASSUME NEW k \in Nat, NEW n \in Nat, k + n <= MaxUnits, NEW b, b = [i \in 1 .. n |-> k + i]
    PROVE  b \in Seq(Units) /\ Len(b) = n /\ \A i \in 1 .. n : b[i] = k + i
  <1>1. \A i \in 1 .. n : k + i \in Units
    BY Bounds DEF Units
  <1>2. b \in [1 .. n -> Units] /\ DOMAIN b = 1 .. n
    BY Zenon, <1>1
  <1>3. b \in Seq(Units)
    <2>1. Seq(Units) = UNION {[1 .. m -> Units] : m \in Nat}
      OBVIOUS
    <2> QED BY <1>2, <2>1, Zenon
  <1> QED BY <1>2, <1>3

LEMMA PayloadKeeps ==
    ASSUME IInv, NEW n \in 1 .. MaxBatch, Payload(n)
    PROVE  IInv'
  <1> DEFINE k == Length(os)
             new == k + 1 .. k + n
  <1>1. /\ pc' = "allocated" /\ return' = "insert" /\ pc = "idle"
        /\ current + n <= MaxDim /\ k + n <= MaxUnits
        /\ batch' = [i \in 1 .. n |-> k + i]
        /\ os' = [os EXCEPT !.unit = [u \in Units |-> IF u \in new THEN Chunk ELSE os.unit[u]]]
        /\ UNCHANGED <<policy, layout, disk, current, log, returned, reader>>
    BY Zenon DEF Payload, Writes
  <1>2. k \in Nat /\ n \in Nat
    BY LengthFacts, Bounds, SMTT(30) DEF Places
  <1>3. \A u \in Units : u \in new => os.unit[u] = Absent
    BY <1>2, LengthFacts, Bounds, SMTT(30) DEF Units
  <1>4. batch' \in Seq(Units) /\ Len(batch') = n /\ \A i \in 1 .. n : batch'[i] = k + i
    BY <1>1, <1>2, BatchPlaces, Zenon
  <1>5. \A i \in 1 .. n : k + i \in new /\ k + i \in Units
    BY <1>1, <1>2, Bounds, SMTT(30) DEF Units
  <1> HIDE DEF k, new
  <1>6. [u \in Units |-> IF u \in new THEN Chunk ELSE os.unit[u]] \in [Units -> Stored]
    BY EmptyUnits, InvFacts, FileFacts, Zenon
  <1>7. /\ os' \in Files /\ os'.eof = os.eof /\ os'.dim = os.dim /\ os'.pointer = os.pointer
        /\ os'.record = os.record
        /\ os'.unit = [u \in Units |-> IF u \in new THEN Chunk ELSE os.unit[u]]
    BY <1>1, <1>6, InvFacts, Zenon DEF Files
  <1>8. \A u \in Units : os'.unit[u] = IF u \in new THEN Chunk ELSE os.unit[u]
    BY <1>7, Zenon
  <1>9. Appends(os, os')
    BY <1>3, <1>7, <1>8, Zenon DEF Appends
  <1>10. FilesInv'
    <2>1. Sound(os', log)
      BY <1>7, <1>9, InvFacts, UnitsWritten, Zenon
    <2>2. ASSUME policy = "Always" PROVE Durable(os', disk, log)
      BY <1>7, <1>9, <2>2, InvFacts, DurableFacts, UnitsDurable, Zenon
    <2> QED BY <1>1, <1>7, <2>1, <2>2, InvFacts, DurableFacts, Zenon DEF FilesInv
  <1>11. TypeOK'
    <2>1. pc' \in Steps /\ return' \in {"insert", "pointer"}
      BY <1>1, Zenon DEF Steps
    <2> QED BY <1>1, <1>4, <1>7, <2>1, Zenon DEF IInv, TypeOK, reader
  <1>12. /\ ~Recorded' /\ ~Barred' /\ ~Allocating' /\ pc \notin {"stopped", "dimension_written"}
         /\ pc' \notin {"eof_written", "pointer", "dimension_written", "insert"}
    BY <1>1, Zenon DEF Recorded, Barred, Allocating
  <1>13. BatchInv'
    <2>1. ASSUME NEW i \in 1 .. Len(batch') PROVE os'.unit[batch'[i]].kind = "chunk"
      <3>1. os'.unit[batch'[i]] = Chunk
        BY <1>4, <1>5, <1>8, Zenon
      <3> QED BY <3>1, SMTT(30) DEF Chunk
    <2> QED BY <1>1, <1>4, <1>7, <1>12, <2>1, BatchFacts, Zenon DEF BatchInv
  <1>14. BlockInv' /\ SyncInv'
    BY <1>12, Zenon DEF BlockInv, SyncInv
  <1>15. ReaderInv'
    BY <1>1, <1>7, ReaderUntouched, Zenon
  <1> QED BY <1>10, <1>11, <1>13, <1>14, <1>15, Zenon DEF IInv

\* The record that is inserted is one of the batch's that are missing.
LEMMA NextIsPending ==
    ASSUME Pending # {}
    PROVE  NextRecord \in Pending
  <1>1. Pending \in SUBSET Nat
    BY DEF Pending
  <1>2. \E i \in Pending : \A j \in Pending : i <= j
    BY <1>1, LeastNat, Zenon
  <1> QED BY <1>2, Zenon DEF NextRecord

LEMMA InlineRecord ==
    ASSUME NEW o \in Files, NEW s \in Slots, NEW v \in Units, NEW f, f = [o EXCEPT !.record[s] = v]
    PROVE  f \in Files /\ Records(o, f, s, v)
  <1>1. /\ f.eof = o.eof /\ f.dim = o.dim /\ f.pointer = o.pointer /\ f.unit = o.unit
        /\ f.record = [o.record EXCEPT ![s] = v]
    BY Zenon DEF Files
  <1>2. o.record \in Tables /\ v \in Places
    BY Bounds, SMTT(30) DEF Files, Units, Places
  <1>3. f.record \in Tables /\ \A t \in Slots : f.record[t] = IF t = s THEN v ELSE o.record[t]
    BY <1>1, <1>2, SMTT(30) DEF Tables
  <1>4. f \in Files
    BY <1>1, <1>3, Zenon DEF Files
  <1> QED BY <1>1, <1>3, <1>4, Zenon DEF Records

LEMMA BlockRecord ==
    ASSUME NEW o \in Files, NEW s \in Slots, NEW v \in Units, NEW q \in Units, o.unit[q].kind = "block",
           NEW f, f = [o EXCEPT !.unit[q].record[s] = v]
    PROVE  f \in Files /\ Records(o, f, s, v)
  <1> DEFINE block == [o.unit[q] EXCEPT !.record[s] = v]
  <1>1. /\ f.eof = o.eof /\ f.dim = o.dim /\ f.pointer = o.pointer /\ f.record = o.record
        /\ f.unit = [o.unit EXCEPT ![q] = block]
    BY Zenon DEF Files
  <1>2. o.unit \in [Units -> Stored] /\ o.unit[q] \in Stored /\ o.unit[q].record \in Tables /\ v \in Places
    BY Bounds, SMTT(30) DEF Files, Stored, Units, Places
  <1>3. /\ block \in Stored /\ block.kind = o.unit[q].kind
        /\ block.record = [o.unit[q].record EXCEPT ![s] = v]
    BY <1>2, Zenon DEF Stored, Tables
  <1>4. \A t \in Slots : block.record[t] = IF t = s THEN v ELSE o.unit[q].record[t]
    BY <1>2, <1>3, SMTT(30) DEF Tables
  <1> HIDE DEF block
  <1>5. f.unit \in [Units -> Stored] /\ \A u \in Units : f.unit[u] = IF u = q THEN block ELSE o.unit[u]
    BY <1>1, <1>2, <1>3, SMTT(30)
  <1>6. f \in Files
    BY <1>1, <1>5, Zenon DEF Files
  <1>7. ASSUME NEW u \in Units
        PROVE  /\ f.unit[u].kind = o.unit[u].kind
               /\ o.unit[u].kind = "block" \/ f.unit[u] = o.unit[u]
               /\ \A t \in Slots : f.unit[u].record[t] = o.unit[u].record[t]
                                   \/ (t = s /\ f.unit[u].record[t] = v)
    <2>1. CASE u = q
      <3>1. f.unit[u] = block
        BY <1>5, <2>1, Zenon
      <3> QED BY <1>3, <1>4, <2>1, <3>1, Zenon
    <2>2. CASE u # q
      BY <1>5, <2>2, Zenon
    <2> QED BY <2>1, <2>2, Zenon
  <1> QED BY <1>1, <1>6, <1>7, Zenon DEF Records

LEMMA InsertKeeps ==
    ASSUME IInv, Insert
    PROVE  IInv'
  <1> DEFINE i == NextRecord
             s == current + i
  <1>1. /\ pc = "insert" /\ Pending # {} /\ (s <= Inline \/ os.pointer # None)
        /\ os' = IF s <= Inline THEN [os EXCEPT !.record[s] = batch[i]]
                 ELSE [os EXCEPT !.unit[os.pointer].record[s] = batch[i]]
        /\ UNCHANGED <<policy, layout, disk, writer, reader>>
    BY Zenon DEF Insert, Writes
  <1>2. i \in 1 .. Len(batch)
    BY <1>1, NextIsPending, Zenon DEF Pending
  <1>3. pc \notin {"idle", "stopped", "dimension_written"}
    BY <1>1, Zenon
  <1>4. current = os.dim /\ current + Len(batch) <= MaxDim
    BY <1>3, BatchFacts, Zenon
  <1>5. s \in Slots /\ s > Len(log)
    <2>1. current = Len(log) /\ current \in Nat /\ Len(batch) \in Nat
      BY <1>4, InvFacts, Zenon
    <2> QED BY <2>1, <1>2, <1>4, Bounds, SMTT(30) DEF Slots
  <1>6. batch[i] \in Units /\ batch[i] <= os.eof /\ (policy = "Always" => batch[i] <= disk.eof)
    BY <1>1, <1>2, BatchFacts, InvFacts, LogFacts, Zenon
  <1>7. batch[i] \in Nat
    BY <1>6, Bounds, SMTT(30) DEF Units
  <1> HIDE DEF i, s
  <1>8. os' \in Files /\ Records(os, os', s, batch[i])
    <2>1. CASE s <= Inline
      BY <1>1, <1>5, <1>6, <2>1, InvFacts, InlineRecord, Zenon
    <2>2. CASE ~(s <= Inline)
      <3>1. os.pointer \in Units /\ os.unit[os.pointer].kind = "block"
        BY <1>1, <2>2, InvFacts, FileFacts, Zenon DEF Sound
      <3> QED BY <1>1, <1>5, <1>6, <2>2, <3>1, InvFacts, BlockRecord, Zenon
    <2> QED BY <2>1, <2>2, Zenon
  <1>9. /\ os'.eof = os.eof /\ os'.dim = os.dim /\ os'.pointer = os.pointer
        /\ \A u \in Units : os'.unit[u].kind = os.unit[u].kind
    BY <1>8, Zenon DEF Records
  <1>10. UNCHANGED <<pc, return, current, batch, log, returned>>
    BY <1>1, Zenon DEF writer
  <1>11. FilesInv'
    <2>1. Sound(os', log)
      BY <1>5, <1>6, <1>7, <1>8, InvFacts, RecordWritten, Zenon
    <2>2. ASSUME policy = "Always" PROVE Durable(os', disk, log)
      BY <1>5, <1>6, <1>7, <1>8, <2>2, InvFacts, DurableFacts, RecordDurable, Zenon
    <2> QED BY <1>1, <1>9, <1>10, <2>1, <2>2, InvFacts, DurableFacts, Zenon DEF FilesInv
  <1>12. TypeOK'
    BY <1>1, <1>8, <1>10, Zenon DEF IInv, TypeOK, reader
  <1>13. /\ ~Recorded' /\ ~Barred' /\ ~Allocating'
         /\ pc' \notin {"eof_written", "pointer", "dimension_written"}
    BY <1>1, <1>10, Zenon DEF Recorded, Barred, Allocating
  <1>14. BatchInv'
    <2>1. ASSUME NEW j \in 1 .. Len(batch) PROVE os'.unit[batch[j]].kind = "chunk"
      BY <1>3, <1>9, BatchFacts, InvFacts, LogFacts, Zenon
    <2> QED BY <1>1, <1>3, <1>9, <1>10, <1>13, <2>1, BatchFacts, ZenonT(30) DEF BatchInv
  <1>15. BlockInv' /\ SyncInv'
    BY <1>13, Zenon DEF BlockInv, SyncInv
  <1>16. ReaderInv'
    BY <1>1, <1>9, <1>10, ReaderUntouched, Zenon
  <1> QED BY <1>11, <1>12, <1>14, <1>15, <1>16, Zenon DEF IInv

\* A page is written back: the batch and the reader see nothing of it.
LEMMA WriteBackImage ==
    ASSUME IInv, WriteBack
    PROVE  disk' \in Files /\ Durable(os, disk', log) /\ disk.eof <= disk'.eof /\ disk.dim <= disk'.dim
  <1>1. policy = "Always" /\ os \in Files /\ disk \in Files /\ log \in Seq(Units) /\ Len(log) <= MaxDim
    BY InvFacts, Zenon DEF WriteBack
  <1>2. Sound(os, log) /\ Durable(os, disk, log)
    BY <1>1, InvFacts, DurableFacts, Zenon
  <1>3. disk.eof <= os.eof /\ disk.dim <= os.dim /\ disk.eof <= disk.eof /\ disk.dim <= disk.dim
    BY <1>1, <1>2, FileFacts, SMTT(30) DEF Durable
  <1>4. ASSUME disk' = [disk EXCEPT !.eof = os.eof]
               \/ disk' = [disk EXCEPT !.dim = os.dim] \/ disk' = [disk EXCEPT !.count = os.count]
        PROVE  disk' \in Files /\ Durable(os, disk', log) /\ disk.eof <= disk'.eof /\ disk.dim <= disk'.dim
    <2>1. /\ disk' \in Files /\ disk'.eof \in {disk.eof, os.eof} /\ disk'.dim \in {disk.dim, os.dim}
          /\ disk'.unit = disk.unit /\ disk'.record = disk.record /\ disk'.pointer = disk.pointer
      BY <1>1, <1>4, Zenon DEF Files
    <2>2. SameContent(disk', disk)
      BY <2>1, Zenon DEF SameContent
    <2> QED BY <1>1, <1>2, <1>3, <2>1, <2>2, RegionWrittenBack, Zenon
  <1>5. ASSUME disk' = [disk EXCEPT !.pointer = os.pointer, !.record = os.record]
        PROVE  disk' \in Files /\ Durable(os, disk', log) /\ disk.eof <= disk'.eof /\ disk.dim <= disk'.dim
    <2>1. /\ disk' \in Files /\ disk'.eof = disk.eof /\ disk'.dim = disk.dim /\ disk'.unit = disk.unit
          /\ disk'.pointer = os.pointer /\ disk'.record = os.record
      BY Zenon, <1>1, <1>5 DEF Files
    <2> QED BY <1>1, <1>2, <1>3, <2>1, IndexWrittenBack, Zenon
  <1>6. ASSUME NEW u \in Units, disk' = [disk EXCEPT !.unit[u] = os.unit[u]]
        PROVE  disk' \in Files /\ Durable(os, disk', log) /\ disk.eof <= disk'.eof /\ disk.dim <= disk'.dim
    <2>1. disk.unit \in [Units -> Stored] /\ os.unit[u] \in Stored
      BY <1>1, Zenon DEF Files
    <2>2. /\ disk' \in Files /\ disk'.eof = disk.eof /\ disk'.dim = disk.dim
          /\ disk'.pointer = disk.pointer /\ disk'.record = disk.record
          /\ disk'.unit = [disk.unit EXCEPT ![u] = os.unit[u]]
      BY <1>1, <1>6, <2>1, Zenon DEF Files
    <2>3. \A v \in Units : disk'.unit[v] \in {disk.unit[v], os.unit[v]}
      BY <2>1, <2>2, Zenon
    <2> QED BY <1>1, <1>2, <1>3, <2>2, <2>3, UnitWrittenBack, Zenon
  <1> QED BY <1>4, <1>5, <1>6, Zenon DEF WriteBack

LEMMA WriteBackKeeps ==
    ASSUME IInv, WriteBack
    PROVE  IInv'
  <1>1. policy = "Always" /\ UNCHANGED <<policy, layout, os, writer, reader>>
    BY Zenon DEF WriteBack
  <1>2. UNCHANGED <<pc, return, current, batch, log, returned>>
    BY <1>1, Zenon DEF writer
  <1>3. disk' \in Files /\ Durable(os, disk', log) /\ disk.eof <= disk'.eof /\ disk.dim <= disk'.dim
    BY WriteBackImage, Zenon
  <1>4. TypeOK'
    BY <1>1, <1>2, <1>3, Zenon DEF IInv, TypeOK, reader
  <1>5. FilesInv'
    <2>1. returned <= disk'.dim
      <3>1. returned <= disk.dim /\ returned \in Nat
        BY <1>1, DurableFacts, InvFacts, Zenon
      <3>2. disk.dim \in Nat /\ disk'.dim \in Nat
        BY <1>3, InvFacts, FileFacts, Zenon
      <3> QED BY <1>3, <3>1, <3>2
    <2> QED BY <1>1, <1>2, <1>3, <2>1, InvFacts, Zenon DEF FilesInv
  <1>6. BatchInv'
    <2>1. ASSUME pc = "insert" \/ Allocating, NEW i \in 1 .. Len(batch)
          PROVE  batch[i] <= os.eof /\ batch[i] <= disk'.eof
      <3>1. batch[i] <= os.eof /\ batch[i] <= disk.eof /\ batch[i] \in Units
        BY <1>1, <2>1, BatchFacts, InvFacts, LogFacts, Zenon
      <3>2. disk.eof \in Nat /\ disk'.eof \in Nat
        BY <1>3, InvFacts, FileFacts, Zenon
      <3>3. batch[i] <= disk'.eof
        BY <3>1, <3>2, <1>3, Bounds DEF Units
      <3> QED BY <3>1, <3>3, Zenon
    <2>2. Allocating' <=> Allocating
      BY <1>2, Zenon DEF Allocating
    <2>3. Recorded' <=> Recorded
      BY <1>2, Zenon DEF Recorded
    <2> QED BY <1>1, <1>2, <2>1, <2>2, <2>3, BatchFacts, Zenon DEF BatchInv
  <1>7. BlockInv'
    <2>1. Allocating' <=> Allocating
      BY <1>2, Zenon DEF Allocating
    <2> QED BY <1>1, <1>2, <2>1, BlockFacts, Zenon DEF BlockInv
  <1>8. SyncInv'
    <2>1. ASSUME SameContent(disk, os) PROVE SameContent(disk', os)
      <3>1. disk \in Files /\ os \in Files /\ disk.unit = os.unit /\ disk.record = os.record
            /\ disk.pointer = os.pointer
        BY <2>1, InvFacts, Zenon DEF SameContent
      <3>2. CASE \E u \in Units : disk' = [disk EXCEPT !.unit[u] = os.unit[u]]
        <4>1. PICK u \in Units : disk' = [disk EXCEPT !.unit[u] = os.unit[u]]
          BY <3>2, Zenon
        <4>2. disk'.record = disk.record /\ disk'.pointer = disk.pointer
              /\ disk'.unit = [disk.unit EXCEPT ![u] = os.unit[u]] /\ disk.unit \in [Units -> Stored]
          BY <4>1, <3>1, Zenon DEF Files
        <4>3. disk'.unit = disk.unit
          BY <4>2, <3>1, Zenon
        <4> QED BY <4>2, <4>3, <3>1, Zenon DEF SameContent
      <3>3. CASE ~\E u \in Units : disk' = [disk EXCEPT !.unit[u] = os.unit[u]]
        <4>1. \/ disk' = [disk EXCEPT !.eof = os.eof]
              \/ disk' = [disk EXCEPT !.dim = os.dim]
              \/ disk' = [disk EXCEPT !.count = os.count]
              \/ disk' = [disk EXCEPT !.pointer = os.pointer, !.record = os.record]
          BY <3>3, Zenon DEF WriteBack
        <4>2. disk'.unit = os.unit /\ disk'.record = os.record /\ disk'.pointer = os.pointer
          BY Zenon, <4>1, <3>1 DEF Files
        <4> QED BY <4>2, Zenon DEF SameContent
      <3> QED BY <3>2, <3>3, Zenon
    <2>2. ASSUME disk.eof = os.eof PROVE disk'.eof = os.eof
      <3>1. disk'.eof \in {disk.eof, os.eof}
        <4>1. disk \in Files
          BY InvFacts, Zenon
        <4> QED BY Zenon, <4>1 DEF WriteBack, Files
      <3> QED BY <2>2, <3>1, Zenon
    <2>3. Barred' <=> Barred
      BY <1>2, Zenon DEF Barred
    <2>4. SyncInv
      BY Zenon DEF IInv
    <2> QED BY <1>1, <1>2, <2>1, <2>2, <2>3, <2>4, Zenon DEF SyncInv
  <1>9. ReaderInv'
    BY <1>1, <1>2, ReaderUntouched, Zenon
  <1> QED BY <1>4, <1>5, <1>6, <1>7, <1>8, <1>9, Zenon DEF IInv

LEMMA PowerLossKeeps ==
    ASSUME IInv, PowerLoss
    PROVE  IInv'
  <1>1. /\ policy = "Always" /\ pc' = "idle" /\ return' = "insert" /\ current' = disk.dim /\ batch' = <<>>
        /\ os' = disk /\ log' = SubSeq(log, 1, disk.dim) /\ at' = 0 /\ seen' = NoFile /\ view' = Shown(disk)
        /\ UNCHANGED <<policy, layout, disk, returned>>
    BY Zenon DEF PowerLoss, Locate
  <1>2. disk.dim \in Nat /\ disk.dim <= MaxDim /\ disk.dim <= Len(log)
    <2>1. disk.dim <= os.dim /\ Len(log) = os.dim
      BY <1>1, DurableFacts, InvFacts, Zenon DEF Durable
    <2> QED BY <2>1, InvFacts, FileFacts, Zenon
  <1>3. /\ log' \in Seq(Units) /\ Len(log') = disk.dim
        /\ \A s \in 1 .. disk.dim : log'[s] = log[s]
    BY <1>1, <1>2, InvFacts, SMTT(30)
  <1>4. Sound(disk, log')
    BY <1>1, <1>2, <1>3, InvFacts, DurableFacts, PowerLost, Zenon
  <1>5. Durable(disk, disk, log')
    BY <1>4, InvFacts, Synced, Zenon
  <1>6. FilesInv'
    BY <1>1, <1>3, <1>4, <1>5, DurableFacts, Zenon DEF FilesInv
  <1>7. TypeOK'
    <2>1. pc' \in Steps /\ batch' \in Seq(Units) /\ return' \in {"insert", "pointer"} /\ at' \in Nat
      BY <1>1, SMTT(30) DEF Steps
    <2>2. current' \in 0 .. MaxDim
      BY <1>1, <1>2, Bounds, SMTT(30)
    <2> QED BY <1>1, <1>3, <2>1, <2>2, NoFileType, Zenon DEF IInv, TypeOK
  <1>8. BatchInv' /\ BlockInv' /\ SyncInv'
    BY <1>1, AtRest, Zenon
  <1>9. ReaderInv'
    <2>1. Reading(NoFile, 0, log', disk.pointer)
      BY <1>2, <1>3, NoFileType, SMTT(30) DEF Reading
    <2>2. Shown(disk) = SubSeq(log', 1, disk.dim)
      <3>1. disk.dim <= Len(log')
        BY <1>2, <1>3, SMTT(30)
      <3>2. \A s \in 1 .. disk.dim : Record(disk, s) = log'[s] /\ disk.unit[log'[s]].kind = "chunk"
        BY <1>3, <1>4, Zenon DEF Sound, Holds
      <3> QED BY <1>3, <3>1, <3>2, InvFacts, HoldsShows, Zenon
    <2>3. disk.dim \in 0 .. Len(log')
      BY <1>2, <1>3, SMTT(30)
    <2> QED BY <1>1, <2>1, <2>2, <2>3, Zenon DEF ReaderInv
  <1> QED BY <1>6, <1>7, <1>8, <1>9, Zenon DEF IInv

\* A step of the reader changes nothing else.
LEMMA ReaderSteps ==
    ASSUME IInv, UNCHANGED <<policy, layout, os, disk, writer>>, at' \in Nat, seen' \in Files,
           layout = "header_first" =>
               /\ Reading(seen', at', log, os.pointer)
               /\ \E n \in 0 .. Len(log) : view' = SubSeq(log, 1, n)
    PROVE  IInv'
  <1>1. UNCHANGED <<pc, return, current, batch, log, returned>>
    BY Zenon DEF writer
  <1>2. TypeOK' /\ FilesInv'
    BY <1>1, Zenon DEF IInv, TypeOK, FilesInv
  <1>3. BatchInv'
    BY <1>1, Zenon DEF IInv, BatchInv, Allocating, Recorded
  <1>4. BlockInv' /\ SyncInv'
    BY <1>1, Zenon DEF IInv, BlockInv, SyncInv, Allocating, Barred
  <1>5. ReaderInv'
    BY <1>1, Zenon DEF ReaderInv
  <1> QED BY <1>2, <1>3, <1>4, <1>5, Zenon DEF IInv

LEMMA ReadingFacts ==
    ASSUME IInv, layout = "header_first"
    PROVE  /\ Reading(seen, at, log, os.pointer)
           /\ \E n \in 0 .. Len(log) : view = SubSeq(log, 1, n)
  BY Zenon DEF IInv, ReaderInv

LEMMA RegionsAre ==
    /\ Len(Regions) = 3
    /\ layout = "header_first" =>
          Regions[1] = "superblock" /\ Regions[2] = "header" /\ Regions[3] = "index"
    /\ layout # "header_first" =>
          Regions[1] = "superblock" /\ Regions[2] = "index" /\ Regions[3] = "header"
  BY Zenon DEF Regions

LEMMA BeginRefreshKeeps ==
    ASSUME IInv, BeginRefresh
    PROVE  IInv'
  <1>1. /\ at = 0 /\ at' = 1 /\ seen' = seen /\ view' = view
        /\ UNCHANGED <<policy, layout, os, disk, writer>>
    BY Zenon DEF BeginRefresh
  <1>2. ASSUME layout = "header_first" PROVE Reading(seen, 1, log, os.pointer)
    <2>1. seen.dim = 0 /\ seen.dim <= Len(log)
      BY <1>1, <1>2, ReadingFacts, SMTT(30) DEF Reading
    <2> QED BY <2>1, SMTT(30) DEF Reading
  <1>3. at' \in Nat
    BY <1>1, Zenon
  <1> QED BY <1>1, <1>2, <1>3, InvFacts, ReadingFacts, ReaderSteps, Zenon

LEMMA ReadRegionKeeps ==
    ASSUME IInv, ReadRegion
    PROVE  IInv'
  <1>1. /\ at \in 1 .. 3 /\ at' = at + 1 /\ view' = view
        /\ UNCHANGED <<policy, layout, os, disk, writer>>
    BY RegionsAre, Zenon DEF ReadRegion
  <1>2. at \in {1, 2, 3} /\ at' \in Nat
    BY <1>1
  <1>3. seen' = CASE Regions[at] = "superblock" -> [seen EXCEPT !.eof = os.eof]
                  [] Regions[at] = "header"     -> [seen EXCEPT !.dim = os.dim]
                  [] Regions[at] = "index"      -> [seen EXCEPT !.count = os.count, !.pointer = os.pointer,
                                                                !.record = os.record]
    BY Zenon DEF ReadRegion
  <1>4. \/ Regions[at] = "superblock" /\ seen' = [seen EXCEPT !.eof = os.eof]
        \/ Regions[at] = "header" /\ seen' = [seen EXCEPT !.dim = os.dim]
        \/ /\ Regions[at] = "index"
           /\ seen' = [seen EXCEPT !.count = os.count, !.pointer = os.pointer, !.record = os.record]
    <2>1. Regions[at] \in {"superblock", "header", "index"}
      BY <1>2, RegionsAre, Zenon
    <2> QED BY <1>3, <2>1, Zenon
  <1>5. seen' \in Files
    BY Zenon, <1>4, InvFacts DEF Files
  <1>6. ASSUME layout = "header_first" PROVE Reading(seen', at', log, os.pointer)
    <2>1. Reading(seen, at, log, os.pointer) /\ Holds(os, log) /\ Len(log) = os.dim
      BY <1>6, ReadingFacts, InvFacts, Zenon DEF Sound
    <2>2. CASE at = 1
      <3>1. seen' = [seen EXCEPT !.eof = os.eof]
        BY <1>4, <1>6, <2>2, RegionsAre, Zenon
      <3>2. seen'.dim = seen.dim
        BY <3>1, InvFacts, Zenon DEF Files
      <3>3. seen.dim = 0 /\ seen.dim <= Len(log)
        BY <2>1, <2>2, SMTT(30) DEF Reading
      <3> QED BY <1>1, <2>2, <3>2, <3>3, SMTT(30) DEF Reading
    <2>3. CASE at = 2
      <3>1. seen' = [seen EXCEPT !.dim = os.dim]
        BY <1>4, <1>6, <2>3, RegionsAre, Zenon
      <3>2. seen'.dim = Len(log)
        BY <2>1, <3>1, InvFacts, Zenon DEF Files
      <3>3. at' = 3 /\ Len(log) <= Len(log)
        BY <1>1, <2>3, InvFacts, SMTT(30)
      <3> QED BY <3>2, <3>3, SMTT(30) DEF Reading
    <2>4. CASE at = 3
      <3>1. seen' = [seen EXCEPT !.count = os.count, !.pointer = os.pointer, !.record = os.record]
        BY <1>4, <1>6, <2>4, RegionsAre, Zenon
      <3>2. seen'.dim = seen.dim /\ seen'.pointer = os.pointer /\ seen'.record = os.record
        BY <3>1, InvFacts, Zenon DEF Files
      <3>3. seen.dim <= Len(log)
        BY <2>1, Zenon DEF Reading
      <3>4. at' = 4
        BY <1>1, <2>4, SMTT(30)
      <3> QED BY <1>5, <2>1, <3>2, <3>3, <3>4, InvFacts, ReadingIndex, Zenon
    <2> QED BY <1>2, <2>2, <2>3, <2>4, Zenon
  <1> QED BY <1>1, <1>2, <1>5, <1>6, ReadingFacts, ReaderSteps, Zenon

LEMMA ReadUnitKeeps ==
    ASSUME IInv, ReadUnit
    PROVE  IInv'
  <1> DEFINE u == at - 3
  <1>1. /\ u \in 1 .. Length(os) /\ at' = at + 1 /\ view' = view
        /\ seen' = [seen EXCEPT !.unit[u] = os.unit[u]]
        /\ UNCHANGED <<policy, layout, os, disk, writer>>
    BY RegionsAre, Zenon DEF ReadUnit
  <1>2. at >= 4 /\ at' \in Nat /\ u \in Units /\ u = at - 3
    <2>1. at \in Nat /\ Length(os) \in Places
      BY InvFacts, LengthFacts, Zenon
    <2> QED BY <1>1, <2>1, Bounds, SMTT(30) DEF Units, Places
  <1> HIDE DEF u
  <1>3. seen.unit \in [Units -> Stored] /\ os.unit[u] \in Stored
    BY <1>2, InvFacts, Zenon DEF Files
  <1>4. /\ seen' \in Files /\ seen'.dim = seen.dim /\ seen'.record = seen.record /\ seen'.pointer = seen.pointer
        /\ seen'.unit = [seen.unit EXCEPT ![u] = os.unit[u]]
    BY Zenon, <1>1, <1>2, <1>3, InvFacts DEF Files
  <1>5. seen'.unit[u] = os.unit[u] /\ \A v \in Units : v # u => seen'.unit[v] = seen.unit[v]
    BY <1>2, <1>3, <1>4, Zenon
  <1>6. ASSUME layout = "header_first" PROVE Reading(seen', at + 1, log, os.pointer)
    <2>1. Reading(seen, at, log, os.pointer) /\ Holds(os, log)
      BY <1>6, ReadingFacts, InvFacts, Zenon DEF Sound
    <2>2. os \in Files /\ seen \in Files /\ log \in Seq(Units) /\ at \in Nat
      BY InvFacts, Zenon
    <2>3. ReadsUnit(os, seen, seen', u)
      BY <1>4, <1>5, Zenon DEF ReadsUnit
    <2> QED BY <1>2, <1>4, <2>1, <2>2, <2>3, ReadingUnit, Zenon
  <1> QED BY <1>1, <1>2, <1>4, <1>6, ReadingFacts, ReaderSteps, Zenon

LEMMA EndRefreshKeeps ==
    ASSUME IInv, EndRefresh
    PROVE  IInv'
  <1>1. /\ at > 3 /\ at - 3 > Length(os) /\ view' = Shown(seen) /\ seen' = NoFile /\ at' = 0
        /\ UNCHANGED <<policy, layout, os, disk, writer>>
    BY RegionsAre, Zenon DEF EndRefresh
  <1>2. at >= 4 /\ Length(os) < at - 3
    <2>1. at \in Nat /\ Length(os) \in Places
      BY InvFacts, LengthFacts, Zenon
    <2> QED BY <1>1, <2>1, Bounds, SMTT(30) DEF Places
  <1>3. ASSUME layout = "header_first"
        PROVE  seen.dim \in 0 .. Len(log) /\ view' = SubSeq(log, 1, seen.dim)
    BY <1>1, <1>2, <1>3, InvFacts, ReadingFacts, ReadingEnds, Zenon
  <1>4. Reading(NoFile, 0, log, os.pointer)
    <2>1. Len(log) \in Nat
      BY InvFacts, Zenon
    <2> QED BY <2>1, NoFileType, SMTT(30) DEF Reading
  <1>5. at' \in Nat
    BY <1>1, Zenon
  <1> QED BY <1>1, <1>3, <1>4, <1>5, NoFileType, ReaderSteps, Zenon

LEMMA Stutter ==
    ASSUME IInv, UNCHANGED vars
    PROVE  IInv'
  <1>1. UNCHANGED <<policy, layout, os, disk, writer, at, seen, view>>
    BY Zenon DEF vars, reader
  <1> QED BY <1>1, InvFacts, ReadingFacts, ReaderSteps, Zenon

LEMMA Inductive ==
    ASSUME IInv, [Next]_vars
    PROVE  IInv'
  <1>1. ASSUME NEW n \in 1 .. MaxBatch, Payload(n) PROVE IInv'
    BY <1>1, PayloadKeeps, Zenon
  <1>2. CASE SyncContent \/ SyncEof \/ SyncRecords \/ SyncStatistics \/ Appended
    BY <1>2, SyncContentKeeps, SyncEofKeeps, SyncRecordsKeeps, SyncStatisticsKeeps, AppendedKeeps, Zenon
  <1>3. CASE PublishEof \/ PublishPointer \/ PublishStatistics \/ PublishDimension
    BY <1>3, PublishEofKeeps, PublishPointerKeeps, PublishStatisticsKeeps, PublishDimensionKeeps, Zenon
  <1>4. CASE Insert \/ AllocateBlock
    BY <1>4, InsertKeeps, AllocateBlockKeeps, Zenon
  <1>5. CASE Fails \/ WriterDies \/ WriteBack \/ PowerLoss
    BY <1>5, FailsKeeps, WriterDiesKeeps, WriteBackKeeps, PowerLossKeeps, Zenon
  <1>6. CASE BeginRefresh \/ ReadRegion \/ ReadUnit \/ EndRefresh
    BY <1>6, BeginRefreshKeeps, ReadRegionKeeps, ReadUnitKeeps, EndRefreshKeeps, Zenon
  <1>7. CASE UNCHANGED vars
    BY <1>7, Stutter, Zenon
  <1> QED BY <1>1, <1>2, <1>3, <1>4, <1>5, <1>6, <1>7, Zenon DEF Next

LEMMA Invariance == Spec => []IInv
  BY Initially, Inductive, PTL DEF Spec

(***************************************************************************)
(* The results.                                                            *)
(***************************************************************************)
\* A file a crash may expose is typed, holds the log and covers no more of it than was published.
LEMMA ExposedFacts ==
    ASSUME IInv, NEW file \in Exposed
    PROVE  /\ file \in Files /\ Holds(file, log) /\ Within(file, file.eof)
           /\ file.dim <= Len(log) /\ returned <= file.dim
  <1>1. file = os \/ (file = disk /\ policy = "Always")
    BY Zenon DEF Exposed
  <1>2. CASE file = os
    <2>1. os.dim <= Len(log)
      BY InvFacts
    <2> QED BY <1>2, <2>1, InvFacts, Zenon DEF Sound
  <1>3. CASE file = disk /\ policy = "Always"
    BY <1>3, InvFacts, DurableFacts, Zenon DEF Durable
  <1> QED BY <1>1, <1>2, <1>3, Zenon

(***************************************************************************)
(* Wherever apply_ea_append is cut off, by the death of the process or,    *)
(* under SyncPolicy::Always, by a loss of power after any set of pages was *)
(* written back, the file shows a prefix of the appended chunks.           *)
(***************************************************************************)
THEOREM CrashesLeaveAPrefix == Spec => []CrashLeavesPrefix
  <1>1. ASSUME IInv PROVE CrashLeavesPrefix
    <2>1. ASSUME NEW file \in Exposed
          PROVE  file.dim <= Len(log) /\ Shown(file) = SubSeq(log, 1, file.dim)
      <3>1. file \in Files /\ file.dim <= Len(log) /\ Holds(file, log)
        BY <1>1, ExposedFacts, Zenon
      <3>2. \A s \in 1 .. file.dim : s \in 1 .. Len(log)
        BY <3>1, <1>1, FileFacts, InvFacts
      <3>3. \A s \in 1 .. file.dim : Record(file, s) = log[s] /\ file.unit[log[s]].kind = "chunk"
        BY <3>1, <3>2, Zenon DEF Holds
      <3> QED BY <3>1, <3>3, <1>1, InvFacts, HoldsShows, Zenon
    <2> QED BY <2>1, Zenon DEF CrashLeavesPrefix
  <1> QED BY Invariance, <1>1, PTL

(***************************************************************************)
(* publish_allocations precedes every reference: no exposed file refers to *)
(* storage beyond its end-of-file address.                                 *)
(***************************************************************************)
THEOREM ReferencesStayWithinEof == Spec => []ReferencesWithinEof
  <1>1. ASSUME IInv PROVE ReferencesWithinEof
    <2>1. ASSUME NEW file \in Exposed
          PROVE  file.pointer <= file.eof /\ \A s \in Slots : Record(file, s) <= file.eof
      <3>1. file \in Files /\ Within(file, file.eof)
        BY <1>1, ExposedFacts, Zenon
      <3>2. file.eof \in Nat
        BY <3>1, FileFacts, Zenon
      <3>3. \A s \in Slots : Record(file, s) <= file.eof
        BY <3>1, <3>2, RecordWithin, Zenon
      <3> QED BY <3>1, <3>3, Zenon DEF Within
    <2> QED BY <2>1, Zenon DEF ReferencesWithinEof
  <1> QED BY Invariance, <1>1, PTL

(***************************************************************************)
(* An append that returned is in every exposed file: the barrier after the *)
(* dimension is what the return waits for.                                 *)
(***************************************************************************)
THEOREM ReturnedAppendsAreKept == Spec => []ReturnedAppendsStay
  <1>1. ASSUME IInv PROVE ReturnedAppendsStay
    BY <1>1, ExposedFacts, Zenon DEF ReturnedAppendsStay
  <1> QED BY Invariance, <1>1, PTL

(***************************************************************************)
(* A refresh that runs while the writer appends, and across writers that   *)
(* die, shows a prefix of the appended chunks when the object header lies  *)
(* below the index.                                                        *)
(***************************************************************************)
THEOREM RefreshShowsAPrefix == Spec => []ReaderSeesPrefix
  <1>1. ASSUME IInv PROVE ReaderSeesPrefix
    <2> SUFFICES ASSUME layout = "header_first"
                 PROVE  Len(view) <= Len(log) /\ view = SubSeq(log, 1, Len(view))
      BY Zenon DEF ReaderSeesPrefix
    <2>1. PICK n \in 0 .. Len(log) : view = SubSeq(log, 1, n)
      BY <1>1, ReadingFacts, Zenon
    <2>2. log \in Seq(Units) /\ Len(log) \in Nat
      BY <1>1, InvFacts, Zenon
    <2>3. Len(SubSeq(log, 1, n)) = n
      BY <2>2
    <2>4. n <= Len(log)
      BY <2>2
    <2> QED BY <2>1, <2>3, <2>4, Zenon
  <1> QED BY Invariance, <1>1, PTL
=============================================================================
