---------------------------- MODULE EntriesProofs ---------------------------
(***************************************************************************)
(* Proofs about Entries, for any names and data, logs of any length and    *)
(* any numbers of aborts and failures.                                     *)
(*                                                                         *)
(* What a process reads is a function of Entries and of the log: Read.     *)
(* The first lemmas say what a line that is appended to the log does to    *)
(* it.  IndInv then says at each place of write_entries which files are    *)
(* already those of the list.                                              *)
(***************************************************************************)
EXTENDS Entries, SequenceTheorems, WellFoundedInduction, TLAPS

-----------------------------------------------------------------------------
(* The last line of a log on a name *)

\* A nonempty set of positions has a last one.
LEMMA Largest ==
    ASSUME NEW L \in Nat, NEW S \in SUBSET (1 .. L), S # {}
    PROVE  \E m \in S : \A k \in S : k <= m
<1> DEFINE T == {L - i : i \in S}
<1>1. T \in SUBSET Nat /\ T # {}
  <2>1. \A i \in 1 .. L : L - i \in Nat
    BY SMT
  <2>2. PICK i \in S : TRUE
    OBVIOUS
  <2> QED
    BY <2>1, <2>2
<1> DEFINE R == {ss \in Nat \X Nat : ss[1] < ss[2]}
<1>2. IsWellFoundedOn(R, Nat)
  BY NatLessThanWellFounded DEF OpToRel
<1>3. \A x, y \in Nat : y < x => <<y, x>> \in R
  OBVIOUS
<1> HIDE DEF R
<1>4. PICK t \in T : \A y \in T : ~(<<y, t>> \in R)
  BY <1>1, <1>2, WFMin
<1>5. PICK m \in S : t = L - m
  BY <1>4
<1>6. ASSUME NEW k \in S PROVE k <= m
  <2>1. L - k \in T /\ L - k \in Nat /\ t \in Nat
    BY <1>1, <1>4
  <2>2. ~(L - k < t)
    BY <2>1, <1>3, <1>4
  <2> QED
    BY <2>1, <2>2, <1>5, SMT
<1> QED
  BY <1>6

\* Position i has the last line of l on n.
LastAt(l, n, i) ==
    /\ i \in DOMAIN l /\ l[i].name = n
    /\ \A j \in DOMAIN l : l[j].name = n => j <= i

Named(l, n) == \E i \in DOMAIN l : l[i].name = n

\* A name that is in a log has a last line.
LEMMA LastExists ==
    ASSUME NEW l \in Seq(Line), NEW n, Named(l, n)
    PROVE  \E i \in DOMAIN l : LastAt(l, n, i)
<1> DEFINE S == {i \in DOMAIN l : l[i].name = n}
<1>1. S \in SUBSET (1 .. Len(l)) /\ Len(l) \in Nat /\ S # {}
  BY DEF Named
<1>2. PICK m \in S : \A k \in S : k <= m
  BY <1>1, Largest
<1> QED
  BY <1>2 DEF LastAt

Last(l, n) ==
    l[CHOOSE i \in DOMAIN l :
        l[i].name = n /\ \A j \in DOMAIN l : l[j].name = n => j <= i]

\* LastLine chooses it.
LEMMA LastIs ==
    ASSUME NEW l \in Seq(Line), NEW n, NEW i \in DOMAIN l, LastAt(l, n, i)
    PROVE  Last(l, n) = l[i]
<1> DEFINE P(k) == l[k].name = n /\ \A j \in DOMAIN l : l[j].name = n => j <= k
           c    == CHOOSE k \in DOMAIN l : P(k)
<1>1. P(i)
  BY DEF LastAt
<1>2. c \in DOMAIN l /\ P(c)
  BY <1>1
<1>3. c <= i /\ i <= c /\ DOMAIN l \subseteq Nat
  BY <1>1, <1>2
<1>4. c = i
  BY <1>2, <1>3, SMT
<1> QED
  BY <1>4 DEF Last

-----------------------------------------------------------------------------
(* What is read *)

Read(e, l, n) ==
    IF Named(l, n) THEN IF Last(l, n).cmd = "A" THEN Last(l, n).data ELSE None
    ELSE e[n]

\* ReadData in these terms.
LEMMA ReadDataIs ==
    ASSUME NEW n
    PROVE  ReadData(n) = Read(entries, log, n) /\ ReadData(n)' = Read(entries', log', n)
BY DEF ReadData, Read, Mentioned, Named, LastLine, Last

Map == [Name -> Value \union {None}]

\* What is read for a name is data or nothing.
LEMMA ReadType ==
    ASSUME NEW e \in Map, NEW l \in Seq(Line), NEW n \in Name
    PROVE  Read(e, l, n) \in Value \union {None}
<1>1. CASE Named(l, n)
  <2>1. PICK i \in DOMAIN l : LastAt(l, n, i)
    BY <1>1, LastExists
  <2>2. Last(l, n) = l[i] /\ l[i] \in Line
    BY <2>1, LastIs
  <2> QED
    BY <1>1, <2>2 DEF Read, Line
<1>2. CASE ~Named(l, n)
  BY <1>2 DEF Read, Map
<1> QED
  BY <1>1, <1>2

\* With no log the Entries file decides.
LEMMA ReadEmpty ==
    ASSUME NEW e, NEW n
    PROVE  Read(e, << >>, n) = e[n] /\ ~Named(<< >>, n)
BY DEF Read, Named

\* One more line decides about its name and leaves the others.
LEMMA ReadLine ==
    ASSUME NEW e \in Map, NEW l \in Seq(Line), NEW x \in Line, NEW n \in Name
    PROVE  /\ l \o <<x>> \in Seq(Line)
           /\ Named(l \o <<x>>, n) <=> (n = x.name \/ Named(l, n))
           /\ Read(e, l \o <<x>>, n) =
                IF n = x.name THEN IF x.cmd = "A" THEN x.data ELSE None ELSE Read(e, l, n)
<1> DEFINE m == l \o <<x>>
<1>1. /\ m \in Seq(Line) /\ DOMAIN m = 1 .. Len(l) + 1 /\ DOMAIN l = 1 .. Len(l)
      /\ Len(l) \in Nat /\ m[Len(l) + 1] = x /\ \A i \in DOMAIN l : m[i] = l[i]
  BY SMT
<1> HIDE DEF m
<1>2. Named(m, n) <=> (n = x.name \/ Named(l, n))
  <2>1. ASSUME Named(m, n) PROVE n = x.name \/ Named(l, n)
    <3>1. PICK i \in DOMAIN m : m[i].name = n
      BY <2>1 DEF Named
    <3>2. i \in DOMAIN l \/ i = Len(l) + 1
      BY <1>1, SMT
    <3> QED
      BY <3>1, <3>2, <1>1 DEF Named
  <2>2. ASSUME n = x.name PROVE Named(m, n)
    <3>1. Len(l) + 1 \in DOMAIN m
      BY <1>1, SMT
    <3> QED
      BY <3>1, <2>2, <1>1 DEF Named
  <2>3. ASSUME Named(l, n) PROVE Named(m, n)
    <3>1. PICK i \in DOMAIN l : l[i].name = n
      BY <2>3 DEF Named
    <3>2. i \in DOMAIN m
      BY <1>1, SMT
    <3> QED
      BY <3>1, <3>2, <1>1 DEF Named
  <2> QED
    BY <2>1, <2>2, <2>3
<1>3. ASSUME n = x.name PROVE Read(e, m, n) = IF x.cmd = "A" THEN x.data ELSE None
  <2>1. Len(l) + 1 \in DOMAIN m /\ LastAt(m, n, Len(l) + 1)
    BY <1>1, <1>3, SMT DEF LastAt
  <2>2. Last(m, n) = x
    BY <2>1, <1>1, LastIs
  <2> QED
    BY <2>2, <1>2, <1>3 DEF Read
<1>4. ASSUME n # x.name PROVE Read(e, m, n) = Read(e, l, n)
  <2>1. CASE Named(l, n)
    <3>1. PICK i \in DOMAIN l : LastAt(l, n, i)
      BY <2>1, LastExists
    <3>2. i \in DOMAIN m /\ LastAt(m, n, i)
      <4>1. i \in DOMAIN m /\ m[i].name = n
        BY <1>1, <3>1, SMT DEF LastAt
      <4>2. ASSUME NEW j \in DOMAIN m, m[j].name = n PROVE j <= i
        <5>1. j \in DOMAIN l
          BY <1>1, <1>4, <4>2, SMT
        <5> QED
          BY <5>1, <4>2, <1>1, <3>1 DEF LastAt
      <4> QED
        BY <4>1, <4>2 DEF LastAt
    <3>3. Last(l, n) = l[i] /\ Last(m, n) = m[i] /\ m[i] = l[i]
      BY <3>1, <3>2, <1>1, LastIs
    <3> QED
      BY <3>3, <1>2, <2>1 DEF Read
  <2>2. CASE ~Named(l, n)
    BY <2>2, <1>2, <1>4 DEF Read
  <2> QED
    BY <2>1, <2>2
<1> QED
  BY <1>1, <1>2, <1>3, <1>4 DEF m

\* Two lines at once are one line after the other.
LEMMA TwoLines ==
    ASSUME NEW S, NEW l \in Seq(S), NEW x \in S, NEW y \in S
    PROVE  l \o <<x, y>> = (l \o <<x>>) \o <<y>>
<1>1. <<x>> \in Seq(S) /\ <<y>> \in Seq(S) /\ <<x, y>> \in Seq(S)
  OBVIOUS
<1>2. <<x>> \o <<y>> = <<x, y>>
  <2>1. <<x>> \o <<y>> \in Seq(S) /\ Len(<<x>> \o <<y>>) = 2
    BY <1>1, SMT
  <2>2. (<<x>> \o <<y>>)[1] = x /\ (<<x>> \o <<y>>)[2] = y
    BY <1>1, SMT
  <2> DEFINE z == <<x>> \o <<y>>
             w == <<x, y>>
  <2>3. w[1] = x /\ w[2] = y /\ Len(w) = 2 /\ w \in Seq(S)
    BY <1>1, SMT
  <2>4. z \in Seq(S) /\ Len(z) = 2 /\ z[1] = x /\ z[2] = y
    BY <2>1, <2>2
  <2> HIDE DEF z, w
  <2>5. \A i \in 1 .. Len(z) : z[i] = w[i]
    BY <2>3, <2>4, SMT
  <2>6. z = w
    BY <2>3, <2>4, <2>5, SeqEqual
  <2> QED
    BY <2>6 DEF z, w
<1>3. (l \o <<x>>) \o <<y>> = l \o (<<x>> \o <<y>>)
  BY <1>1, ConcatAssociative
<1> QED
  BY <1>2, <1>3

\* The two lines of a change add the data, whatever the first one says.
LEMMA ReadRecorded ==
    ASSUME NEW e \in Map, NEW l \in Seq(Line), NEW c \in {"A", "R"}, NEW k \in Name, NEW d \in Value,
           NEW n \in Name
    PROVE  /\ l \o Recorded(c, k, d) \in Seq(Line)
           /\ Named(l \o Recorded(c, k, d), n) <=> (n = k \/ Named(l, n))
           /\ n = k => Read(e, l \o Recorded(c, k, d), n) = d
           /\ n # k => Read(e, l \o Recorded(c, k, d), n) = Read(e, l, n)
<1> DEFINE x == LogLine(c, k, d)
           y == LogLine("A", k, d)
<1>1. /\ x \in Line /\ y \in Line /\ x.name = k
      /\ y.name = k /\ y.cmd = "A" /\ y.data = d
  BY DEF Line, LogLine
<1>2. Recorded(c, k, d) = <<x, y>>
  BY DEF Recorded
<1> HIDE DEF x, y
<1>3. l \o <<x, y>> = (l \o <<x>>) \o <<y>>
  BY <1>1, TwoLines
<1>4. l \o <<x>> \in Seq(Line)
  BY <1>1, ReadLine
<1>5. /\ Named(l \o <<x>>, n) <=> (n = k \/ Named(l, n))
      /\ n # k => Read(e, l \o <<x>>, n) = Read(e, l, n)
  BY <1>1, ReadLine
<1> DEFINE m == l \o <<x>>
<1> HIDE DEF m
<1>6. /\ m \o <<y>> \in Seq(Line)
      /\ Named(m \o <<y>>, n) <=> (n = k \/ Named(m, n))
      /\ Read(e, m \o <<y>>, n) = IF n = k THEN d ELSE Read(e, m, n)
  <2>1. m \in Seq(Line)
    BY <1>4 DEF m
  <2>2. /\ m \o <<y>> \in Seq(Line)
        /\ Named(m \o <<y>>, n) <=> (n = y.name \/ Named(m, n))
        /\ Read(e, m \o <<y>>, n) =
             IF n = y.name THEN IF y.cmd = "A" THEN y.data ELSE None ELSE Read(e, m, n)
    BY <2>1, <1>1, ReadLine
  <2> QED
    BY <2>2, <1>1
<1> QED
  BY <1>2, <1>3, <1>5, <1>6 DEF m

EditMap == [Name -> Edit \union {None, Star}]

\* The files and the list, from the type invariant.
LEMMA Types ==
    ASSUME TypeOK
    PROVE  /\ entries \in Map /\ list \in Map /\ extra \in EditMap /\ edits \in EditMap
           /\ log \in Seq(Line)
BY DEF TypeOK, Map, EditMap

\* ReadEdit in these terms.
LEMMA ReadEditIs ==
    ASSUME NEW n
    PROVE  /\ ReadEdit(n) = IF Named(log, n) \/ entries[n] = None THEN None ELSE extra[n]
           /\ ReadEdit(n)' = IF Named(log', n) \/ entries'[n] = None THEN None ELSE extra'[n]
BY DEF ReadEdit, Mentioned, Named

-----------------------------------------------------------------------------
(* The invariant holds at first *)

\* An initial state has no process and nothing stored.
LEMMA InitInv ==
    ASSUME Init
    PROVE  IndInv
<1>1. TypeOK
  <2>1. log \in Seq(Line)
    BY DEF Init
  <2> QED
    BY <2>1 DEF Init, TypeOK, Place, Mishap
<1>2. WriteOrder
  BY DEF Init, WriteOrder, Running
<1>3. NoLogNoChange
  BY DEF Init, NoLogNoChange
<1>4. NothingOnlyInMemory /\ EditNeverStale
  BY DEF Init, NothingOnlyInMemory, EditNeverStale, Running
<1> QED
  BY <1>1, <1>2, <1>3, <1>4 DEF IndInv

-----------------------------------------------------------------------------
(* Steps that change the list and the log *)

\* A step of a running process: what is stored stays or becomes what is in the
\* list, and a mishap is not undone.
Towards ==
    Exact' => /\ Exact
              /\ \A n \in Name : Read(entries', log', n) \in {Read(entries, log, n), list'[n]}

\* Every name that the new lines do not mention keeps its entry, and the others
\* are read as they are in the list.
LEMMA ChangeKeeps ==
    ASSUME IndInv, pc \in {"ready", "finding"}, pc' \in {"ready", "finding"},
           UNCHANGED <<entries, dline, extra, after, faults>>,
           logfile' = TRUE, log' \in Seq(Line),
           list' \in Map, edits' \in EditMap, subdirs' \in BOOLEAN,
           present' \subseteq Sub, found' \subseteq Sub,
           slip \subseteq slip', slip' \subseteq Mishap,
           \A n \in Name : list'[n] = None => edits'[n] = None,
           Exact' => \A n \in Name :
             /\ list'[n] # None => Read(entries, log', n) = list'[n]
             /\ list'[n] = None => Read(entries, log', n) \in {Read(entries, log, n), None}
             /\ \/ Named(log', n)
                \/ ~Named(log, n) /\ list'[n] = list[n] /\ edits'[n] = edits[n]
    PROVE  IndInv' /\ Towards
<1>1. TypeOK'
  BY DEF IndInv, TypeOK, Map, EditMap, Place
<1>2. WriteOrder'
  BY DEF IndInv, WriteOrder, Running
<1>3. NoLogNoChange'
  BY DEF NoLogNoChange
<1>4. NothingOnlyInMemory'
  <2> SUFFICES ASSUME Exact', NEW n \in Name, list'[n] # None PROVE ReadData(n)' = list'[n]
    BY DEF NothingOnlyInMemory
  <2> QED
    BY ReadDataIs
<1>5. EditNeverStale'
  <2> SUFFICES ASSUME Exact', NEW n \in Name PROVE ReadEdit(n)' \in {edits'[n], None} \/ list'[n] = None
    BY DEF EditNeverStale
  <2>1. CASE Named(log', n)
    BY <2>1, ReadEditIs
  <2>2. CASE ~Named(log', n)
    <3>1. Exact /\ Running
      BY DEF Exact, Running
    <3>2. ReadEdit(n) \in {edits[n], None} \/ list[n] = None
      BY <3>1 DEF IndInv, EditNeverStale
    <3> QED
      BY <2>2, <3>2, ReadEditIs
  <2> QED
    BY <2>1, <2>2
<1>6. Towards
  <2>1. Exact' => Exact
    BY DEF Exact
  <2> QED
    BY <2>1 DEF Towards
<1> QED
  BY <1>1, <1>2, <1>3, <1>4, <1>5, <1>6 DEF IndInv

\* While everything has been logged, the list is what the next process reads.
LEMMA ListIsRead ==
    ASSUME IndInv, pc \in {"ready", "finding"}, Exact, NEW n \in Name, list[n] # None
    PROVE  Read(entries, log, n) = list[n]
BY ReadDataIs DEF IndInv, NothingOnlyInMemory, Running

\* Register: the entry is logged, or the failure is a mishap.
LEMMA RegisterKeeps ==
    ASSUME IndInv, NEW n \in File, NEW d \in Data, NEW e \in Edit \union {None, Star},
           Register(n, d, e)
    PROVE  IndInv' /\ Towards
<1> USE Types DEF IndInv
<1>1. /\ pc = "ready" /\ n \in Name /\ d \in Value /\ d # None
      /\ UNCHANGED <<entries, dline, extra, present, subdirs, found, pc, after>>
  BY ValueAssumption DEF Register, Changes, Name, Value
<1>2. /\ list' \in Map /\ edits' \in EditMap /\ list'[n] = d
      /\ \A k \in Name \ {n} : list'[k] = list[k] /\ edits'[k] = edits[k]
  BY <1>1 DEF Register, SetEntry, Map, EditMap
<1>3. \A k \in Name : list'[k] = None => edits'[k] = None
  BY <1>1, <1>2 DEF WriteOrder
<1>4. CASE log' = log \o Recorded("A", n, d) /\ logfile' = TRUE /\ UNCHANGED <<faults, slip>>
  <2>1. log' \in Seq(Line)
    BY <1>1, <1>4, ReadRecorded
  <2>2. ASSUME Exact', NEW k \in Name
        PROVE  /\ list'[k] # None => Read(entries, log', k) = list'[k]
               /\ list'[k] = None => Read(entries, log', k) \in {Read(entries, log, k), None}
               /\ \/ Named(log', k)
                  \/ ~Named(log, k) /\ list'[k] = list[k] /\ edits'[k] = edits[k]
    <3>1. /\ Named(log', k) <=> (k = n \/ Named(log, k))
          /\ Read(entries, log', k) = IF k = n THEN d ELSE Read(entries, log, k)
      <4> HIDE Types DEF IndInv
      <4>1. log \in Seq(Line) /\ entries \in Map /\ "A" \in {"A", "R"}
        BY Types DEF IndInv
      <4>2. /\ Named(log \o Recorded("A", n, d), k) <=> (k = n \/ Named(log, k))
            /\ k = n => Read(entries, log \o Recorded("A", n, d), k) = d
            /\ k # n => Read(entries, log \o Recorded("A", n, d), k) = Read(entries, log, k)
        BY <4>1, <1>1, ReadRecorded
      <4> QED
        BY <4>2, <1>4
    <3>2. Exact
      BY <2>2, <1>4 DEF Exact
    <3> QED
      BY <1>1, <1>2, <3>1, <3>2, ListIsRead
  <2>3. slip \subseteq slip' /\ slip' \subseteq Mishap
    BY <1>4 DEF TypeOK
  <2>4. subdirs' \in BOOLEAN /\ present' \subseteq Sub /\ found' \subseteq Sub
    BY <1>1 DEF TypeOK
  <2> QED
    BY <1>1, <1>2, <1>3, <1>4, <2>1, <2>2, <2>3, <2>4, ChangeKeeps
<1>5. CASE Failure /\ slip' = slip \union {"unlogged"} /\ UNCHANGED <<logfile, log>>
  <2>1. faults' = [faults EXCEPT !.io = @ + 1] /\ faults \in [abort : Nat, io : Nat]
    BY <1>5 DEF Failure, TypeOK
  <2>2. faults' \in [abort : Nat, io : Nat] /\ faults'.io # 0
    BY <2>1
  <2>3. TypeOK'
    BY <1>1, <1>2, <1>5, <2>2 DEF TypeOK, Map, EditMap, Mishap
  <2>4. WriteOrder'
    BY <1>1, <1>3, <1>5 DEF WriteOrder, Running
  <2>5. NoLogNoChange'
    BY <2>2 DEF NoLogNoChange
  <2>6. ~Exact'
    BY <1>5 DEF Exact
  <2>7. NothingOnlyInMemory' /\ EditNeverStale'
    BY <2>6 DEF NothingOnlyInMemory, EditNeverStale
  <2>8. Towards
    BY <2>6 DEF Towards
  <2> QED
    BY <2>3, <2>4, <2>5, <2>7, <2>8
<1> QED
  BY <1>4, <1>5 DEF Register, Logged

\* Scratch_Entry: the removal is logged as if it were an addition.
LEMMA ScratchKeeps ==
    ASSUME IndInv, NEW n \in File, Scratch_Entry(n)
    PROVE  IndInv' /\ Towards
<1> USE Types DEF IndInv
<1>1. /\ pc = "ready" /\ n \in Name /\ list[n] # None /\ list[n] \in Value
      /\ log' = log \o Recorded("R", n, list[n]) /\ logfile' = TRUE
      /\ UNCHANGED <<entries, dline, extra, present, subdirs, found, pc, after, faults, slip>>
  BY DEF Scratch_Entry, Changes, Name, Logged, Map
<1>2. /\ list' \in Map /\ edits' \in EditMap /\ list'[n] = None /\ edits'[n] = None
      /\ \A k \in Name \ {n} : list'[k] = list[k] /\ edits'[k] = edits[k]
  BY <1>1 DEF Scratch_Entry, SetEntry, Map, EditMap
<1>3. \A k \in Name : list'[k] = None => edits'[k] = None
  BY <1>1, <1>2 DEF WriteOrder
<1>4. log' \in Seq(Line)
  BY <1>1, ReadRecorded
<1>5. ASSUME Exact', NEW k \in Name
      PROVE  /\ list'[k] # None => Read(entries, log', k) = list'[k]
             /\ list'[k] = None => Read(entries, log', k) \in {Read(entries, log, k), None}
             /\ \/ Named(log', k)
                \/ ~Named(log, k) /\ list'[k] = list[k] /\ edits'[k] = edits[k]
  <2>1. /\ Named(log', k) <=> (k = n \/ Named(log, k))
        /\ Read(entries, log', k) = IF k = n THEN list[n] ELSE Read(entries, log, k)
    <3> HIDE Types DEF IndInv
    <3>1. log \in Seq(Line) /\ entries \in Map /\ "R" \in {"A", "R"} /\ n \in Name /\ list[n] \in Value
      BY <1>1, Types DEF IndInv
    <3>2. /\ Named(log \o Recorded("R", n, list[n]), k) <=> (k = n \/ Named(log, k))
          /\ k = n => Read(entries, log \o Recorded("R", n, list[n]), k) = list[n]
          /\ k # n => Read(entries, log \o Recorded("R", n, list[n]), k) = Read(entries, log, k)
      BY <3>1, ReadRecorded
    <3> QED
      BY <3>2, <1>1
  <2>2. Exact
    BY <1>1, <1>5 DEF Exact
  <2> QED
    BY <1>1, <1>2, <2>1, <2>2, ListIsRead
<1>6. /\ slip \subseteq slip' /\ slip' \subseteq Mishap
      /\ subdirs' \in BOOLEAN /\ present' \subseteq Sub /\ found' \subseteq Sub
  BY <1>1 DEF TypeOK
<1> QED
  BY <1>1, <1>2, <1>3, <1>4, <1>5, <1>6, ChangeKeeps

\* Rename_Entry: both names are logged with the data of the old one.
LEMMA RenameKeeps ==
    ASSUME IndInv, NEW from \in File, NEW to \in File, Rename_Entry(from, to)
    PROVE  IndInv' /\ Towards
<1> USE Types DEF IndInv
<1> DEFINE d == list[from]
           m == log \o Recorded("R", from, d)
<1>1. /\ pc = "ready" /\ from \in Name /\ to \in Name /\ from # to /\ d # None /\ d \in Value
      /\ UNCHANGED <<entries, dline, extra, present, subdirs, found, pc, after, faults>>
      /\ log' = log \o (Recorded("R", from, d) \o Recorded("A", to, d)) /\ logfile' = TRUE
  BY DEF Rename_Entry, Changes, Name, Logged, Map
<1>2. log' = m \o Recorded("A", to, d)
  <2>1. Recorded("R", from, d) \in Seq(Line) /\ Recorded("A", to, d) \in Seq(Line)
    BY <1>1 DEF Recorded, LogLine, Line
  <2>2. log \in Seq(Line)
    OBVIOUS
  <2> HIDE Types DEF IndInv
  <2> QED
    BY <1>1, <2>1, <2>2, ConcatAssociative
<1>3. m \in Seq(Line) /\ entries \in Map
  BY <1>1, ReadRecorded
<1>4. \A k \in Name : /\ Named(m, k) <=> (k = from \/ Named(log, k))
                      /\ k = from => Read(entries, m, k) = d
                      /\ k # from => Read(entries, m, k) = Read(entries, log, k)
  BY <1>1, <1>3, ReadRecorded
<1> HIDE DEF m
<1>5. log' \in Seq(Line)
  BY <1>1, <1>2, <1>3, ReadRecorded
<1>6. ASSUME NEW k \in Name
      PROVE  /\ Named(log', k) <=> (k \in {from, to} \/ Named(log, k))
             /\ k \in {from, to} => Read(entries, log', k) = d
             /\ k \notin {from, to} => Read(entries, log', k) = Read(entries, log, k)
  <2> HIDE Types DEF IndInv
  <2>1. /\ Named(m \o Recorded("A", to, d), k) <=> (k = to \/ Named(m, k))
        /\ k = to => Read(entries, m \o Recorded("A", to, d), k) = d
        /\ k # to => Read(entries, m \o Recorded("A", to, d), k) = Read(entries, m, k)
    BY <1>1, <1>3, ReadRecorded
  <2>2. /\ Named(log', k) <=> (k = to \/ Named(m, k))
        /\ k = to => Read(entries, log', k) = d
        /\ k # to => Read(entries, log', k) = Read(entries, m, k)
    BY <1>2, <2>1
  <2> HIDE DEF d
  <2>3. /\ Named(m, k) <=> (k = from \/ Named(log, k))
        /\ k = from => Read(entries, m, k) = d
        /\ k # from => Read(entries, m, k) = Read(entries, log, k)
    BY <1>4
  <2>4. Named(log', k) <=> (k \in {from, to} \/ Named(log, k))
    BY <2>2, <2>3
  <2>5. k \in {from, to} => Read(entries, log', k) = d
    BY <2>2, <2>3
  <2>6. k \notin {from, to} => Read(entries, log', k) = Read(entries, log, k)
    BY <2>2, <2>3
  <2> QED
    BY <2>4, <2>5, <2>6
<1>7. /\ slip \subseteq slip' /\ slip' \subseteq Mishap
      /\ subdirs' \in BOOLEAN /\ present' \subseteq Sub /\ found' \subseteq Sub
  BY <1>1 DEF Rename_Entry, TypeOK, Mishap
<1>8. /\ list' \in Map /\ edits' \in EditMap /\ list'[from] = None /\ edits'[from] = None
      /\ \A k \in Name \ {from, to} : list'[k] = list[k] /\ edits'[k] = edits[k]
      /\ \/ list'[to] = d /\ list[to] = None
         \/ list'[to] = list[to] /\ edits'[to] = edits[to] /\ list[to] # None /\ ~Exact'
  BY <1>1 DEF Rename_Entry, SetEntry, Map, EditMap, Exact
<1>9. \A k \in Name : list'[k] = None => edits'[k] = None
  BY <1>1, <1>8 DEF WriteOrder
<1>10. ASSUME Exact', NEW k \in Name
       PROVE  /\ list'[k] # None => Read(entries, log', k) = list'[k]
              /\ list'[k] = None => Read(entries, log', k) \in {Read(entries, log, k), None}
              /\ \/ Named(log', k)
                 \/ ~Named(log, k) /\ list'[k] = list[k] /\ edits'[k] = edits[k]
  <2>1. Exact
    BY <1>7, <1>10 DEF Exact
  <2> QED
    BY <1>1, <1>6, <1>8, <1>10, <2>1, ListIsRead
<1> QED
  BY <1>1, <1>5, <1>7, <1>8, <1>9, <1>10, ChangeKeeps

\* A subdirectory is logged with one line and has no edit data.
LEMMA SubdirKeeps ==
    ASSUME IndInv, NEW s \in Sub, NEW c \in {"A", "R"},
           pc \in {"ready", "finding"}, pc' \in {"ready", "finding"},
           UNCHANGED <<entries, dline, extra, after, faults, subdirs>>,
           Logged(<<LogLine(c, s, DirData)>>),
           SetEntry(s, IF c = "A" THEN DirData ELSE None, None),
           present' \subseteq Sub, found' \subseteq Sub,
           slip \subseteq slip', slip' \subseteq Mishap
    PROVE  IndInv' /\ Towards
<1> USE Types DEF IndInv
<1> DEFINE x == LogLine(c, s, DirData)
           d == IF c = "A" THEN DirData ELSE None
<1>1. x \in Line /\ x.name = s /\ x.cmd = c /\ x.data = DirData /\ s \in Name
  BY DEF Line, LogLine, Name, Value
<1>2. log' = log \o <<x>> /\ logfile' = TRUE /\ subdirs' \in BOOLEAN
  BY DEF Logged, TypeOK
<1> HIDE DEF x
<1>3. /\ list' \in Map /\ edits' \in EditMap /\ list'[s] = d /\ edits'[s] = None
      /\ \A k \in Name \ {s} : list'[k] = list[k] /\ edits'[k] = edits[k]
  BY <1>1 DEF SetEntry, Map, EditMap, Value
<1>4. log' \in Seq(Line)
  BY <1>1, <1>2, ReadLine
<1>5. ASSUME NEW k \in Name
      PROVE  /\ Named(log', k) <=> (k = s \/ Named(log, k))
             /\ Read(entries, log', k) = IF k = s THEN d ELSE Read(entries, log, k)
  <2>1. /\ Named(log \o <<x>>, k) <=> (k = x.name \/ Named(log, k))
        /\ Read(entries, log \o <<x>>, k) =
             IF k = x.name THEN IF x.cmd = "A" THEN x.data ELSE None ELSE Read(entries, log, k)
    BY <1>1, ReadLine
  <2> QED
    BY <1>1, <1>2, <2>1
<1>6. \A k \in Name : list'[k] = None => edits'[k] = None
  BY <1>3 DEF WriteOrder
<1>7. ASSUME Exact', NEW k \in Name
      PROVE  /\ list'[k] # None => Read(entries, log', k) = list'[k]
             /\ list'[k] = None => Read(entries, log', k) \in {Read(entries, log, k), None}
             /\ \/ Named(log', k)
                \/ ~Named(log, k) /\ list'[k] = list[k] /\ edits'[k] = edits[k]
  <2>1. Exact
    BY <1>7 DEF Exact
  <2> QED
    BY <1>3, <1>5, <2>1, ListIsRead
<1> QED
  BY <1>2, <1>3, <1>4, <1>6, <1>7, ChangeKeeps

\* Partial only adds a mishap.
LEMMA PartialGrows ==
    ASSUME TypeOK, NEW others
    PROVE  slip \subseteq Partial(others) /\ Partial(others) \subseteq Mishap
BY DEF Partial, TypeOK, Mishap

\* The steps that log a subdirectory.
LEMMA SubdirStepsKeep ==
    ASSUME IndInv, NEW s \in Sub,
           Subdir_Register(s) \/ Subdir_Deregister(s) \/ RegisterFound(s)
    PROVE  IndInv' /\ Towards
<1> USE DEF IndInv
<1>1. CASE Subdir_Register(s)
  <2>1. present' \subseteq Sub /\ found' \subseteq Sub
    BY <1>1 DEF Subdir_Register, TypeOK
  <2>2. slip \subseteq slip' /\ slip' \subseteq Mishap
    BY <1>1, PartialGrows DEF Subdir_Register
  <2> QED
    BY <1>1, <2>1, <2>2, SubdirKeeps DEF Subdir_Register, Changes
<1>2. CASE Subdir_Deregister(s)
  <2>1. present' \subseteq Sub /\ found' \subseteq Sub
    BY <1>2 DEF Subdir_Deregister, TypeOK
  <2>2. slip \subseteq slip' /\ slip' \subseteq Mishap
    BY <1>2, PartialGrows DEF Subdir_Deregister
  <2> QED
    BY <1>2, <2>1, <2>2, SubdirKeeps DEF Subdir_Deregister, Changes
<1>3. CASE RegisterFound(s)
  <2>1. /\ present' \subseteq Sub /\ found' \subseteq Sub
        /\ slip \subseteq slip' /\ slip' \subseteq Mishap
        /\ pc' \in {"ready", "finding"}
    BY <1>3 DEF RegisterFound, TypeOK
  <2> QED
    BY <1>3, <2>1, SubdirKeeps DEF RegisterFound
<1> QED
  BY <1>1, <1>2, <1>3

-----------------------------------------------------------------------------
(* Steps that leave the files and the list *)

\* Nothing is written and nothing is forgotten.
LEMMA QuietKeeps ==
    ASSUME IndInv, Running, pc' \in {"ready", "finding", "write", "rename", "exit"},
           UNCHANGED <<entries, dline, extra, logfile, log, list, edits, slip>>,
           after' \in {"ready", "exit"}, subdirs' \in BOOLEAN,
           present' \subseteq Sub, found' \subseteq Sub,
           faults' \in [abort : Nat, io : Nat],
           NoLogNoChange'
    PROVE  IndInv' /\ Towards
<1>1. TypeOK'
  BY DEF IndInv, TypeOK, Place
<1>2. WriteOrder'
  BY DEF IndInv, WriteOrder, Running
<1>3. NothingOnlyInMemory'
  BY ReadDataIs DEF IndInv, NothingOnlyInMemory, Exact
<1>4. EditNeverStale'
  BY ReadEditIs DEF IndInv, EditNeverStale, Exact
<1>5. Towards
  BY DEF Towards, Exact
<1> QED
  BY <1>1, <1>2, <1>3, <1>4, <1>5 DEF IndInv

\* A failure is counted.
LEMMA FailureCounts ==
    ASSUME TypeOK, Failure
    PROVE  faults' \in [abort : Nat, io : Nat] /\ faults'.io # 0
BY DEF TypeOK, Failure

\* Find_Directories makes an empty log, or goes on to register.
LEMMA FindKeeps ==
    ASSUME IndInv, Find_Directories
    PROVE  IndInv' /\ Towards
<1>1. /\ pc = "ready" /\ Running
      /\ UNCHANGED <<entries, dline, extra, log, present, list, edits, after, faults, slip>>
  BY DEF Find_Directories, Running
<1>2. TypeOK /\ WriteOrder
  BY DEF IndInv
<1>3. CASE Unlisted = {}
  <2>1. subdirs' = TRUE /\ logfile' = TRUE /\ UNCHANGED <<found, pc>>
    BY <1>3 DEF Find_Directories
  <2>2. /\ log' \in Seq(Line) /\ list' \in Map /\ edits' \in EditMap
        /\ present' \subseteq Sub /\ found' \subseteq Sub
        /\ slip \subseteq slip' /\ slip' \subseteq Mishap
    BY <1>1, <1>2, <2>1, Types DEF TypeOK
  <2>3. \A n \in Name : list'[n] = None => edits'[n] = None
    BY <1>1, <1>2 DEF WriteOrder
  <2>4. Exact' => Exact
    BY <1>1 DEF Exact
  <2>5. ASSUME Exact', NEW n \in Name
        PROVE  /\ list'[n] # None => Read(entries, log', n) = list'[n]
               /\ list'[n] = None => Read(entries, log', n) \in {Read(entries, log, n), None}
               /\ \/ Named(log', n)
                  \/ ~Named(log, n) /\ list'[n] = list[n] /\ edits'[n] = edits[n]
    BY <1>1, <2>4, <2>5, ListIsRead
  <2> QED
    BY <1>1, <2>1, <2>2, <2>3, <2>5, ChangeKeeps
<1>4. CASE Unlisted # {}
  <2>1. found' = Unlisted /\ pc' = "finding" /\ UNCHANGED <<subdirs, logfile>>
    BY <1>4 DEF Find_Directories
  <2>2. /\ found' \subseteq Sub /\ present' \subseteq Sub /\ subdirs' \in BOOLEAN
        /\ faults' \in [abort : Nat, io : Nat] /\ after' \in {"ready", "exit"}
    BY <1>1, <1>2, <2>1 DEF Unlisted, TypeOK, WriteOrder
  <2>3. NoLogNoChange'
    BY <2>1 DEF NoLogNoChange
  <2> QED
    BY <1>1, <2>1, <2>2, <2>3, QuietKeeps
<1> QED
  BY <1>3, <1>4

\* WriteBackup touches no file that is read.
LEMMA BackupKeeps ==
    ASSUME IndInv, WriteBackup
    PROVE  IndInv' /\ Towards
<1>1. /\ pc = "write" /\ Running /\ TypeOK /\ WriteOrder
      /\ UNCHANGED <<entries, dline, extra, logfile, log, present, list, edits, subdirs,
                     found, after, slip>>
  BY DEF WriteBackup, Running, IndInv, fileVars, listVars
<1>2. /\ after' \in {"ready", "exit"} /\ subdirs' \in BOOLEAN
      /\ present' \subseteq Sub /\ found' \subseteq Sub
  BY <1>1 DEF TypeOK, WriteOrder
<1>3. CASE pc' = "rename" /\ UNCHANGED faults
  <2>1. faults' \in [abort : Nat, io : Nat] /\ NoLogNoChange'
    BY <1>1, <1>3 DEF TypeOK, NoLogNoChange
  <2> QED
    BY <1>1, <1>2, <1>3, <2>1, QuietKeeps
<1>4. CASE Failure /\ pc' = after
  <2>1. faults' \in [abort : Nat, io : Nat] /\ faults'.io # 0
    BY <1>1, <1>4, FailureCounts
  <2>2. NoLogNoChange' /\ pc' \in {"ready", "exit"}
    BY <1>1, <1>2, <1>4, <2>1 DEF NoLogNoChange
  <2> QED
    BY <1>1, <1>2, <2>1, <2>2, QuietKeeps
<1> QED
  BY <1>3, <1>4 DEF WriteBackup

\* Entries_Close of a process without a log has nothing to write.
LEMMA CloseKeeps ==
    ASSUME IndInv, Entries_Close
    PROVE  IndInv' /\ Towards
<1>1. /\ pc = "ready" /\ Running /\ TypeOK /\ NoLogNoChange /\ after' = "exit"
      /\ pc' = (IF logfile THEN "write" ELSE "exit")
      /\ UNCHANGED <<entries, dline, extra, logfile, log, present, list, edits, subdirs,
                     found, faults, slip>>
  BY DEF Entries_Close, Running, IndInv, fileVars, listVars
<1>2. /\ subdirs' \in BOOLEAN /\ faults' \in [abort : Nat, io : Nat] /\ logfile \in BOOLEAN
      /\ present' \subseteq Sub /\ found' \subseteq Sub
  BY <1>1 DEF TypeOK
<1>3. NoLogNoChange'
  BY <1>1, <1>2, ReadEditIs DEF NoLogNoChange
<1> QED
  BY <1>1, <1>2, <1>3, QuietKeeps

-----------------------------------------------------------------------------
(* The steps of write_entries, and the process *)

\* After the first rename the old Entries.Extra goes with the new Entries: a
\* name that the log does not mention had the same entry in the old one.
LEMMA RenameEntriesKeeps ==
    ASSUME IndInv, RenameEntries
    PROVE  IndInv' /\ Towards
<1>1. /\ pc = "rename" /\ Running /\ pc' = "extra" /\ Running'
      /\ entries' = list /\ dline' \in BOOLEAN
      /\ UNCHANGED <<extra, logfile, log, present, list, edits, subdirs, found, after, faults, slip>>
  BY DEF RenameEntries, Running, listVars
<1>2. TypeOK /\ WriteOrder /\ NothingOnlyInMemory /\ EditNeverStale
  BY DEF IndInv
<1>3. TypeOK'
  BY <1>1, <1>2 DEF TypeOK, Place
<1>4. WriteOrder'
  BY <1>1, <1>2 DEF WriteOrder, Running
<1>5. NoLogNoChange'
  BY <1>1 DEF NoLogNoChange
<1>6. Exact' => Exact
  BY <1>1 DEF Exact
<1>7. ASSUME NEW n \in Name
      PROVE  Read(entries', log', n) = IF Named(log, n) THEN Read(entries, log, n) ELSE list[n]
  BY <1>1 DEF Read
<1>8. NothingOnlyInMemory'
  <2> SUFFICES ASSUME Exact', NEW n \in Name, list'[n] # None PROVE ReadData(n)' = list'[n]
    BY DEF NothingOnlyInMemory
  <2>1. ReadData(n) = list[n]
    BY <1>1, <1>2, <1>6 DEF NothingOnlyInMemory
  <2> QED
    BY <1>1, <1>7, <2>1, ReadDataIs
<1>9. EditNeverStale'
  <2> SUFFICES ASSUME Exact', NEW n \in Name, list'[n] # None, ~Named(log, n)
               PROVE  extra[n] \in {edits[n], None}
    BY <1>1, ReadEditIs DEF EditNeverStale
  <2>1. ReadData(n) = list[n] /\ ReadEdit(n) \in {edits[n], None}
    BY <1>1, <1>2, <1>6 DEF NothingOnlyInMemory, EditNeverStale
  <2>2. ReadData(n) = entries[n]
    BY ReadDataIs DEF Read
  <2> QED
    BY <1>1, <2>1, <2>2, ReadEditIs
<1>10. Towards
  BY <1>1, <1>6, <1>7 DEF Towards
<1> QED
  BY <1>3, <1>4, <1>5, <1>8, <1>9, <1>10 DEF IndInv

\* With the second rename both files are those of the list.
LEMMA RenameExtraKeeps ==
    ASSUME IndInv, RenameExtra
    PROVE  IndInv' /\ Towards
<1>1. /\ pc = "extra" /\ Running /\ pc' = "unlink" /\ Running'
      /\ extra' = [n \in Name |-> IF list[n] = None THEN None ELSE edits[n]]
      /\ UNCHANGED <<entries, dline, logfile, log, present, list, edits, subdirs, found, after, faults, slip>>
  BY DEF RenameExtra, Running, listVars
<1>2. TypeOK /\ WriteOrder /\ NothingOnlyInMemory
  BY DEF IndInv
<1>3. TypeOK'
  <2>1. extra' \in [Name -> Edit \union {None, Star}]
    BY <1>1, <1>2 DEF TypeOK
  <2> QED
    BY <1>1, <1>2, <2>1 DEF TypeOK, Place
<1>4. WriteOrder'
  BY <1>1, <1>2 DEF WriteOrder, Running
<1>5. NoLogNoChange'
  BY <1>1 DEF NoLogNoChange
<1>6. NothingOnlyInMemory'
  BY <1>1, <1>2, ReadDataIs DEF NothingOnlyInMemory, Exact
<1>7. EditNeverStale'
  <2> SUFFICES ASSUME NEW n \in Name
               PROVE  ReadEdit(n)' \in {edits'[n], None}
    BY DEF EditNeverStale
  <2>1. extra'[n] \in {edits'[n], None}
    BY <1>1
  <2> QED
    BY <2>1, ReadEditIs
<1>8. Towards
  BY <1>1 DEF Towards, Exact
<1> QED
  BY <1>3, <1>4, <1>5, <1>6, <1>7, <1>8 DEF IndInv

\* Without the log what is read is what write_entries wrote.
LEMMA UnlinkKeeps ==
    ASSUME IndInv, UnlinkLog
    PROVE  IndInv' /\ Towards
<1>1. /\ pc = "unlink" /\ Running /\ pc' = after
      /\ UNCHANGED <<entries, dline, extra, present, list, edits, subdirs, found, after, slip>>
  BY DEF UnlinkLog, Running, listVars
<1>2. TypeOK /\ WriteOrder /\ NothingOnlyInMemory /\ EditNeverStale
  BY DEF IndInv
<1>3. /\ pc' \in {"ready", "exit"} /\ Running' /\ entries = list
      /\ \A n \in Name : list[n] = None => edits[n] = None
      /\ extra = [n \in Name |-> IF list[n] = None THEN None ELSE edits[n]]
  BY <1>1, <1>2 DEF WriteOrder, Running
<1>4. Exact' <=> Exact
  BY <1>1 DEF Exact
<1>5. CASE logfile' = FALSE /\ log' = << >> /\ UNCHANGED faults
  <2>1. \A n \in Name : Read(entries', log', n) = list'[n] /\ ~Named(log', n)
    BY <1>1, <1>3, <1>5, ReadEmpty
  <2>2. \A n \in Name : ReadEdit(n)' = edits'[n]
    BY <1>1, <1>3, <2>1, ReadEditIs
  <2>3. TypeOK'
    <3>1. log' \in Seq(Line)
      BY <1>5
    <3> QED
      BY <1>1, <1>2, <1>3, <1>5, <3>1 DEF TypeOK, Place
  <2>4. WriteOrder'
    BY <1>1, <1>2, <1>3, <1>5 DEF WriteOrder
  <2>5. NoLogNoChange'
    BY <1>1, <1>3, <1>5, <2>2 DEF NoLogNoChange
  <2>6. NothingOnlyInMemory'
    BY <2>1, ReadDataIs DEF NothingOnlyInMemory
  <2>7. EditNeverStale'
    BY <2>2 DEF EditNeverStale
  <2>8. Towards
    BY <1>4, <2>1 DEF Towards
  <2> QED
    BY <2>3, <2>4, <2>5, <2>6, <2>7, <2>8 DEF IndInv
<1>6. CASE Failure /\ UNCHANGED <<logfile, log>>
  <2>1. faults' \in [abort : Nat, io : Nat] /\ faults'.io # 0
    BY <1>2, <1>6, FailureCounts
  <2>2. NoLogNoChange'
    BY <2>1 DEF NoLogNoChange
  <2>3. /\ after' \in {"ready", "exit"} /\ subdirs' \in BOOLEAN
        /\ present' \subseteq Sub /\ found' \subseteq Sub
    BY <1>1, <1>2 DEF TypeOK, WriteOrder
  <2> QED
    BY <1>1, <1>3, <1>6, <2>1, <2>2, <2>3, QuietKeeps
<1> QED
  BY <1>5, <1>6 DEF UnlinkLog

\* Entries_Open: the list is what is read.
LEMMA OpenKeeps ==
    ASSUME IndInv, Entries_Open
    PROVE  IndInv'
<1>1. /\ pc = "none" /\ after' = "ready" /\ pc' = (IF logfile THEN "write" ELSE "ready")
      /\ list' = [n \in Name |-> ReadData(n)] /\ edits' = [n \in Name |-> ReadEdit(n)]
      /\ subdirs' = SawDir
      /\ UNCHANGED <<entries, dline, extra, logfile, log, present, found, faults, slip>>
  BY DEF Entries_Open, fileVars
<1>2. TypeOK /\ WriteOrder
  BY DEF IndInv
<1>3. \A n \in Name : /\ ReadData(n)' = ReadData(n) /\ list'[n] = ReadData(n)
                      /\ ReadEdit(n)' = ReadEdit(n) /\ edits'[n] = ReadEdit(n)
  BY <1>1, ReadDataIs, ReadEditIs
<1>4. \A n \in Name : list'[n] = None => edits'[n] = None
  BY <1>3, ReadDataIs, ReadEditIs DEF Read
<1>5. TypeOK'
  <2>1. list' \in Map
    BY <1>1, <1>2, Types, ReadType, ReadDataIs DEF Map
  <2>2. edits' \in EditMap
    BY <1>1, <1>2, Types, ReadEditIs DEF EditMap
  <2>3. subdirs' \in BOOLEAN
    BY <1>1, <1>2 DEF SawDir, TypeOK
  <2> QED
    BY <1>1, <1>2, <2>1, <2>2, <2>3 DEF TypeOK, Place, Map, EditMap
<1>6. WriteOrder'
  BY <1>1, <1>2, <1>4 DEF WriteOrder
<1>7. NoLogNoChange'
  <2> SUFFICES ASSUME ~logfile PROVE entries = list' /\ log = << >>
    BY <1>1, <1>2, <1>3 DEF NoLogNoChange, TypeOK
  <2>1. log = << >>
    BY <1>2 DEF WriteOrder
  <2>2. \A n \in Name : list'[n] = entries[n]
    BY <1>3, <2>1, ReadDataIs, ReadEmpty
  <2> QED
    BY <1>1, <1>2, <2>1, <2>2 DEF TypeOK
<1>8. NothingOnlyInMemory' /\ EditNeverStale'
  BY <1>3 DEF NothingOnlyInMemory, EditNeverStale
<1> QED
  BY <1>5, <1>6, <1>7, <1>8 DEF IndInv

\* Exit and Abort: only the files are left.
LEMMA EndKeeps ==
    ASSUME IndInv, Exit \/ Abort
    PROVE  IndInv'
<1>1. /\ pc' = "none" /\ after' = "none" /\ subdirs' = FALSE /\ found' = {}
      /\ list' = [n \in Name |-> None] /\ edits' = [n \in Name |-> None]
      /\ UNCHANGED <<entries, dline, extra, logfile, log, present>>
  BY DEF Exit, Abort, Forget, fileVars
<1>2. TypeOK /\ WriteOrder
  BY DEF IndInv
<1>3. faults' \in [abort : Nat, io : Nat] /\ slip' \subseteq Mishap
  BY <1>2 DEF Exit, Abort, TypeOK, Mishap
<1>4. TypeOK'
  BY <1>1, <1>2, <1>3 DEF TypeOK, Place
<1>5. WriteOrder' /\ NoLogNoChange' /\ NothingOnlyInMemory' /\ EditNeverStale'
  BY <1>1, <1>2 DEF WriteOrder, NoLogNoChange, NothingOnlyInMemory, EditNeverStale, Running
<1> QED
  BY <1>4, <1>5 DEF IndInv

-----------------------------------------------------------------------------
(* The theorems *)

\* The steps of a process other than its first and its last.
Work ==
    \/ Entries_Close
    \/ WriteBackup \/ RenameEntries \/ RenameExtra \/ UnlinkLog
    \/ \E n \in File : \/ \E d \in Data : \E e \in Edit \union {None, Star} : Register(n, d, e)
                       \/ Scratch_Entry(n)
                       \/ \E m \in File : Rename_Entry(n, m)
    \/ \E s \in Sub : Subdir_Register(s) \/ Subdir_Deregister(s) \/ RegisterFound(s)
    \/ Find_Directories

\* They keep the invariant and move the store towards the list.
LEMMA WorkKeeps ==
    ASSUME IndInv, Work
    PROVE  IndInv' /\ Towards /\ Running /\ Running'
<1>1. Running /\ Running'
  <2>1. after \in {"ready", "exit"} \/ ~Running
    BY DEF IndInv, WriteOrder
  <2>2. CASE Entries_Close
    BY <2>2 DEF Entries_Close, Running
  <2>3. CASE WriteBackup \/ UnlinkLog
    BY <2>1, <2>3 DEF WriteBackup, UnlinkLog, Running
  <2>4. CASE RenameEntries \/ RenameExtra
    BY <2>4 DEF RenameEntries, RenameExtra, Running
  <2>5. ASSUME NEW n \in File,
               \/ \E d \in Data : \E e \in Edit \union {None, Star} : Register(n, d, e)
               \/ Scratch_Entry(n)
               \/ \E m \in File : Rename_Entry(n, m)
        PROVE  Running /\ Running'
    BY <2>5 DEF Register, Scratch_Entry, Rename_Entry, Changes, Running
  <2>6. ASSUME NEW s \in Sub, Subdir_Register(s) \/ Subdir_Deregister(s) \/ RegisterFound(s)
        PROVE  Running /\ Running'
    BY <2>6 DEF Subdir_Register, Subdir_Deregister, RegisterFound, Changes, Running
  <2>7. CASE Find_Directories
    BY <2>7 DEF Find_Directories, Running
  <2> QED
    BY <2>2, <2>3, <2>4, <2>5, <2>6, <2>7 DEF Work
<1>2. ASSUME NEW n \in File,
             \/ \E d \in Data : \E e \in Edit \union {None, Star} : Register(n, d, e)
             \/ Scratch_Entry(n)
             \/ \E m \in File : Rename_Entry(n, m)
      PROVE  IndInv' /\ Towards
  BY <1>2, RegisterKeeps, ScratchKeeps, RenameKeeps
<1>3. ASSUME NEW s \in Sub, Subdir_Register(s) \/ Subdir_Deregister(s) \/ RegisterFound(s)
      PROVE  IndInv' /\ Towards
  BY <1>3, SubdirStepsKeep
<1> QED
  BY <1>1, <1>2, <1>3, CloseKeeps, BackupKeeps, RenameEntriesKeeps, RenameExtraKeeps,
     UnlinkKeeps, FindKeeps DEF Work

\* A step is one of these, or begins or ends a process.
LEMMA Steps ==
    ASSUME Next
    PROVE  Work \/ Entries_Open \/ Exit \/ Abort
BY DEF Next, Work

\* Nothing changes.
LEMMA StutterKeeps ==
    ASSUME IndInv, UNCHANGED vars
    PROVE  IndInv'
<1> USE DEF vars
<1>1. TypeOK' /\ WriteOrder'
  BY DEF IndInv, TypeOK, WriteOrder, Running
<1>2. NoLogNoChange'
  BY ReadEditIs DEF IndInv, NoLogNoChange
<1>3. NothingOnlyInMemory' /\ EditNeverStale'
  BY ReadDataIs, ReadEditIs DEF IndInv, NothingOnlyInMemory, EditNeverStale, Running, Exact
<1> QED
  BY <1>1, <1>2, <1>3 DEF IndInv

\* The inductive invariant holds in every state: at each place of
\* write_entries the files that are already written are those of the list.
THEOREM Invariance == Spec => []IndInv
<1>1. Init => IndInv
  BY InitInv
<1>2. IndInv /\ [Next]_vars => IndInv'
  BY Steps, WorkKeeps, OpenKeeps, EndKeeps, StutterKeeps
<1> QED
  BY <1>1, <1>2, PTL DEF Spec

\* Every state of a working directory and its process has its type.
THEOREM TypeCorrect == Spec => []TypeOK
BY Invariance, PTL DEF IndInv

\* The data of an entry that is in the list is in the files, at every step of
\* Register, Scratch_Entry, Rename_Entry and write_entries.
THEOREM NothingLost == Spec => []NothingOnlyInMemory
BY Invariance, PTL DEF IndInv

\* The edit data in the files is never that of another entry, although Entries
\* and Entries.Extra are renamed one after the other.
THEOREM EditsFresh == Spec => []EditNeverStale
BY Invariance, PTL DEF IndInv

\* Entries_Close leaves exactly the list if no system call failed.
THEOREM Settled == Spec => []CloseSettles
<1>1. IndInv => CloseSettles
  <2> SUFFICES ASSUME IndInv, pc = "exit", faults.io = 0, NEW n \in Name
               PROVE  ReadData(n) = list[n] /\ ReadEdit(n) = edits[n]
    BY DEF CloseSettles
  <2>1. log = << >> /\ entries = list /\ ReadEdit(n) = edits[n]
    BY DEF IndInv, NoLogNoChange
  <2> QED
    BY <2>1, ReadDataIs, ReadEmpty
<1> QED
  BY <1>1, Invariance, PTL

-----------------------------------------------------------------------------
(* Entries implements EntryStore *)

\* What is stored is a map from the names to data.
LEMMA StoredType ==
    ASSUME TypeOK
    PROVE  Stored \in Map
BY Types, ReadType, ReadDataIs DEF Stored, Map

\* Stored in terms of Read, before and after a step.
LEMMA StoredIs ==
    /\ Stored = [n \in Name |-> Read(entries, log, n)]
    /\ Stored' = [n \in Name |-> Read(entries', log', n)]
BY ReadDataIs DEF Stored

\* The entries of a directory are an EntryStore: what is registered is stored
\* at once, write_entries moves the store towards the list, and a command that
\* is cut off between any two system calls loses nothing but removals.
THEOREM Refinement == Spec => ImplementsEntryStore
<1>1. Init => Store!Init
  <2> SUFFICES ASSUME Init PROVE Store!Init
    OBVIOUS
  <2>1. Stored \in Map
    BY InitInv, StoredType DEF IndInv
  <2>2. ~Running /\ Exact
    BY DEF Init, Running, Exact
  <2> QED
    BY <2>1, <2>2 DEF Store!Init, Store!Map, Map
<1>2. IndInv /\ IndInv' /\ [Next]_vars => [Store!Next]_(Store!vars)
  <2> SUFFICES ASSUME IndInv, IndInv', [Next]_vars PROVE [Store!Next]_(Store!vars)
    OBVIOUS
  <2>1. Stored \in Map /\ list \in Map
    BY StoredType, Types DEF IndInv
  <2>2. Stored' \in Map /\ list' \in Map
    <3>1. entries' \in Map /\ log' \in Seq(Line) /\ list' \in Map
      BY DEF IndInv, TypeOK, Map
    <3> QED
      BY <3>1, StoredIs, ReadType DEF Map
  <2>3. CASE Work
    <3>1. Towards /\ Running /\ Running'
      BY <2>3, WorkKeeps
    <3>2. Exact' => \A n \in Name : /\ Stored'[n] \in {Stored[n], list'[n]}
                                    /\ list'[n] # None => Stored'[n] = list'[n]
      <4> SUFFICES ASSUME Exact', NEW n \in Name
                   PROVE  /\ Stored'[n] \in {Stored[n], list'[n]}
                          /\ list'[n] # None => Stored'[n] = list'[n]
        OBVIOUS
      <4>1. Stored[n] = Read(entries, log, n) /\ Stored'[n] = Read(entries', log', n)
        BY StoredIs
      <4>2. list'[n] # None => ReadData(n)' = list'[n]
        BY <3>1 DEF IndInv, NothingOnlyInMemory
      <4> QED
        BY <3>1, <4>1, <4>2, ReadDataIs DEF Towards
    <3>3. Exact' \in {Exact, FALSE}
      BY <3>1 DEF Towards, Exact
    <3>4. Store!Change
      BY <2>1, <2>2, <3>1, <3>2, <3>3 DEF Store!Change, Store!Map, Map
    <3> QED
      BY <3>4 DEF Store!Next
  <2>4. CASE Entries_Open
    <3>1. ~Running /\ Running' /\ list' = Stored /\ slip' = slip
      BY <2>4 DEF Entries_Open, Running, Stored
    <3>2. Stored' = Stored
      BY <2>4, StoredIs DEF Entries_Open, fileVars
    <3>3. Store!Begin
      BY <3>1, <3>2 DEF Store!Begin, Exact
    <3> QED
      BY <3>3 DEF Store!Next
  <2>5. CASE Exit \/ Abort
    <3>1. Running /\ ~Running'
      BY <2>5 DEF Exit, Abort, Forget, Running
    <3>2. Stored' = Stored
      BY <2>5, StoredIs DEF Exit, Abort, fileVars
    <3>3. Exact' = Exact
      BY <2>5 DEF Exit, Abort, Exact
    <3>4. Store!End
      BY <3>1, <3>2, <3>3 DEF Store!End
    <3> QED
      BY <3>4 DEF Store!Next
  <2>6. CASE UNCHANGED vars
    <3>1. Stored' = Stored
      BY <2>6, StoredIs DEF vars
    <3> QED
      BY <2>6, <3>1 DEF vars, Store!vars, Running, Exact
  <2> QED
    BY <2>3, <2>4, <2>5, <2>6, Steps
<1> QED
  BY <1>1, <1>2, Invariance, PTL DEF Spec, ImplementsEntryStore, Store!Spec

-----------------------------------------------------------------------------
(* Known subdirectories *)

\* The conclusion of KnownInv when nothing has gone wrong.
Listed ==
    /\ Running /\ (SawDir \/ subdirs \/ pc = "finding") =>
         \A s \in present : list[s] = DirData \/ s \in found
    /\ ~Running /\ SawDir => \A s \in present : ReadData(s) = DirData

\* What is read for a subdirectory is its entry or nothing.
LEMMA ReadSub ==
    ASSUME KnownInv, NEW s \in Sub
    PROVE  ReadData(s) \in {None, DirData}
<1>1. CASE Named(log, s)
  <2>1. log \in Seq(Line)
    BY DEF KnownInv, KindLine
  <2>2. PICK i \in DOMAIN log : LastAt(log, s, i)
    BY <1>1, <2>1, LastExists
  <2>3. Last(log, s) = log[i] /\ log[i] \in KindLine /\ log[i].name = s
    BY <2>1, <2>2, LastIs DEF KnownInv, LastAt
  <2> QED
    BY <1>1, <2>3, ReadDataIs DEF Read, KindLine
<1>2. CASE ~Named(log, s)
  BY <1>2, ReadDataIs DEF Read, KnownInv
<1> QED
  BY <1>1, <1>2

\* An entry of a subdirectory that is read was seen by fgetentent.
LEMMA ReadDirSeen ==
    ASSUME TypeOK, NEW n \in Name, ReadData(n) = DirData
    PROVE  SawDir
<1>1. CASE Named(log, n)
  <2>1. log \in Seq(Line)
    BY DEF TypeOK
  <2>2. PICK i \in DOMAIN log : LastAt(log, n, i)
    BY <1>1, <2>1, LastExists
  <2>3. Last(log, n) = log[i] /\ DirData # None
    BY <2>1, <2>2, LastIs, ValueAssumption DEF Value
  <2> QED
    BY <1>1, <2>3, ReadDataIs DEF Read, SawDir
<1>2. CASE ~Named(log, n)
  BY <1>2, ReadDataIs DEF Read, SawDir
<1> QED
  BY <1>1, <1>2

\* A line about a file that is not that of a subdirectory does not change what
\* fgetentent saw.
LEMMA SeenByLine ==
    ASSUME NEW l \in Seq(Line), NEW x \in Line, x.data # DirData,
           \E i \in DOMAIN (l \o <<x>>) : (l \o <<x>>)[i].data = DirData
    PROVE  \E i \in DOMAIN l : l[i].data = DirData
<1> DEFINE m == l \o <<x>>
<1>1. /\ DOMAIN m = 1 .. Len(l) + 1 /\ DOMAIN l = 1 .. Len(l)
      /\ Len(l) \in Nat /\ m[Len(l) + 1] = x /\ \A i \in DOMAIN l : m[i] = l[i]
  BY SMT
<1>2. PICK i \in DOMAIN m : m[i].data = DirData
  OBVIOUS
<1> HIDE DEF m
<1>3. i \in DOMAIN l
  BY <1>1, <1>2, SMT
<1> QED
  BY <1>1, <1>2, <1>3

\* The two lines of a change.
LEMMA SeenByRecorded ==
    ASSUME NEW l \in Seq(KindLine), NEW c \in {"A", "R"}, NEW n \in File, NEW d \in Value
    PROVE  /\ l \o Recorded(c, n, d) \in Seq(KindLine)
           /\ d # DirData /\ (\E i \in DOMAIN (l \o Recorded(c, n, d)) : (l \o Recorded(c, n, d))[i].data = DirData)
                => \E i \in DOMAIN l : l[i].data = DirData
<1> DEFINE x == LogLine(c, n, d)
           y == LogLine("A", n, d)
<1>1. x \in KindLine /\ y \in KindLine /\ x.data = d /\ y.data = d
  <2>1. n \in Name /\ n \notin Sub
    BY NameAssumption DEF Name
  <2> QED
    BY <2>1 DEF KindLine, Line, LogLine
<1>2. Recorded(c, n, d) = <<x, y>>
  BY DEF Recorded
<1> HIDE DEF x, y
<1>3. l \o <<x, y>> = (l \o <<x>>) \o <<y>>
  BY <1>1, TwoLines
<1> DEFINE m == l \o <<x>>
<1>4. m \in Seq(KindLine) /\ m \o <<y>> \in Seq(KindLine)
  BY <1>1
<1>5. m \in Seq(Line) /\ x \in Line /\ y \in Line /\ l \in Seq(Line)
  BY <1>1, <1>4 DEF KindLine
<1> HIDE DEF m
<1>6. d # DirData /\ (\E i \in DOMAIN (m \o <<y>>) : (m \o <<y>>)[i].data = DirData)
        => \E i \in DOMAIN m : m[i].data = DirData
  BY <1>1, <1>5, SeenByLine
<1>7. d # DirData /\ (\E i \in DOMAIN m : m[i].data = DirData)
        => \E i \in DOMAIN l : l[i].data = DirData
  BY <1>1, <1>5, SeenByLine DEF m
<1> QED
  BY <1>2, <1>3, <1>4, <1>6, <1>7 DEF m

\* A step that leaves the subdirectories and what fgetentent saw of them.
LEMMA KnownByFile ==
    ASSUME KnownInv, pc = "ready", UNCHANGED <<entries, present, subdirs, found, pc>>,
           \A s \in Sub : list'[s] = list[s],
           present \subseteq Sub, log' \in Seq(KindLine), slip \subseteq slip',
           Exact' /\ SawDir' => SawDir
    PROVE  KnownInv'
<1>1. Exact' => Exact
  BY DEF Exact
<1>2. ASSUME "partial" \notin slip', Exact' PROVE Listed'
  <2>1. Running /\ Running' /\ (SawDir \/ subdirs => \A s \in present : list[s] = DirData \/ s \in found)
    BY <1>1, <1>2 DEF KnownInv, Running
  <2> QED
    BY <1>2, <2>1 DEF Listed
<1> QED
  BY <1>2 DEF KnownInv, Listed

\* Register, Scratch_Entry and Rename_Entry: the log of a file's entry has the
\* data that is in the list.
LEMMA FileStepsKnow ==
    ASSUME IndInv, KnownInv, NEW n \in File,
           \/ \E d \in Data : \E e \in Edit \union {None, Star} : Register(n, d, e)
           \/ Scratch_Entry(n)
           \/ \E m \in File : Rename_Entry(n, m)
    PROVE  KnownInv'
<1>1. /\ pc = "ready" /\ UNCHANGED <<entries, dline, present, subdirs, found, pc>>
      /\ slip \subseteq slip'
  BY DEF Register, Scratch_Entry, Rename_Entry, Changes
<1>2. TypeOK /\ list \in Map /\ edits \in EditMap /\ log \in Seq(KindLine)
  BY Types DEF IndInv, KnownInv
<1>3. present \subseteq Sub /\ n \in Name /\ n \notin Sub
  BY <1>2, NameAssumption DEF TypeOK, Name
<1>4. Exact' => Exact
  BY <1>1 DEF Exact
<1>5. ASSUME Exact, list[n] = DirData PROVE SawDir
  <2>1. ReadData(n) = DirData
    BY <1>1, <1>3, <1>5, ListIsRead, ReadDataIs, ValueAssumption DEF Value
  <2> QED
    BY <1>2, <1>3, <2>1, ReadDirSeen
<1>6. ASSUME NEW d \in Data, NEW e \in Edit \union {None, Star}, Register(n, d, e)
      PROVE  KnownInv'
  <2>1. \A s \in Sub : list'[s] = list[s]
    BY <1>2, <1>3, <1>6 DEF Register, SetEntry, Map, Name
  <2>2. d \in Value /\ d # DirData
    BY ValueAssumption DEF Value
  <2>3. log' = log \/ log' = log \o Recorded("A", n, d)
    BY <1>6 DEF Register, Logged
  <2>4. log' \in Seq(KindLine) /\ (SawDir' => SawDir)
    BY <1>1, <1>2, <2>2, <2>3, SeenByRecorded DEF SawDir
  <2> QED
    BY <1>1, <1>3, <2>1, <2>4, KnownByFile
<1>7. ASSUME Scratch_Entry(n) PROVE KnownInv'
  <2>1. /\ log' = log \o Recorded("R", n, list[n]) /\ list[n] \in Value
        /\ \A s \in Sub : list'[s] = list[s]
    BY <1>2, <1>3, <1>7 DEF Scratch_Entry, Logged, SetEntry, Map, Name
  <2>2. log' \in Seq(KindLine) /\ (list[n] # DirData /\ SawDir' => SawDir)
    BY <1>1, <1>2, <2>1, SeenByRecorded DEF SawDir
  <2> QED
    BY <1>1, <1>3, <1>4, <1>5, <2>1, <2>2, KnownByFile
<1>8. ASSUME NEW m \in File, Rename_Entry(n, m) PROVE KnownInv'
  <2> DEFINE d == list[n]
             l == log \o Recorded("R", n, d)
  <2>1. m \in Name /\ m \notin Sub /\ d \in Value
    BY <1>2, <1>3, <1>8, NameAssumption DEF Rename_Entry, Map, Name
  <2>2. \A s \in Sub : list'[s] = list[s]
    BY <1>2, <1>3, <1>8, <2>1 DEF Rename_Entry, SetEntry, Map, Name
  <2>3. log' = l \o Recorded("A", m, d)
    <3>1. Recorded("R", n, d) \in Seq(Line) /\ Recorded("A", m, d) \in Seq(Line) /\ log \in Seq(Line)
      BY <1>2, <1>3, <2>1 DEF Recorded, LogLine, Line, TypeOK
    <3>2. log' = log \o (Recorded("R", n, d) \o Recorded("A", m, d))
      BY <1>8 DEF Rename_Entry, Logged
    <3> QED
      BY <3>1, <3>2, ConcatAssociative
  <2>4. /\ l \in Seq(KindLine)
        /\ d # DirData /\ (\E i \in DOMAIN l : l[i].data = DirData)
             => \E i \in DOMAIN log : log[i].data = DirData
    BY <1>2, <2>1, SeenByRecorded
  <2> HIDE DEF l
  <2>5. /\ log' \in Seq(KindLine)
        /\ d # DirData /\ (\E i \in DOMAIN log' : log'[i].data = DirData)
             => \E i \in DOMAIN l : l[i].data = DirData
    BY <2>1, <2>3, <2>4, SeenByRecorded
  <2>6. d # DirData /\ SawDir' => SawDir
    BY <1>1, <2>4, <2>5 DEF SawDir
  <2> QED
    BY <1>1, <1>3, <1>4, <1>5, <2>2, <2>5, <2>6, KnownByFile
<1> QED
  BY <1>6, <1>7, <1>8

\* The steps that log a subdirectory: without the mishap the others are listed.
LEMMA SubStepsKnow ==
    ASSUME IndInv, KnownInv, NEW s \in Sub,
           Subdir_Register(s) \/ Subdir_Deregister(s) \/ RegisterFound(s)
    PROVE  KnownInv'
<1>1. TypeOK /\ list \in Map /\ s \in Name /\ log \in Seq(KindLine) /\ present \subseteq Sub
  BY Types DEF IndInv, KnownInv, TypeOK, Name
<1>2. \A c \in {"A", "R"} : log \o <<LogLine(c, s, DirData)>> \in Seq(KindLine)
  <2>1. \A c \in {"A", "R"} : LogLine(c, s, DirData) \in KindLine
    BY <1>1 DEF LogLine, KindLine, Line, Value
  <2> QED
    BY <1>1, <2>1
<1>3. CASE Subdir_Register(s) \/ Subdir_Deregister(s)
  <2>1. /\ pc = "ready" /\ Running /\ Running' /\ slip' = Partial(Unlisted \ {s})
        /\ UNCHANGED <<entries, subdirs, found, pc>> /\ log' \in Seq(KindLine)
        /\ present' \subseteq present \union {s}
        /\ s \in present' => list'[s] = DirData
        /\ list'[s] \in {None, DirData}
        /\ \A k \in Sub \ {s} : list'[k] = list[k]
    BY <1>1, <1>2, <1>3 DEF Subdir_Register, Subdir_Deregister, Changes, Logged, SetEntry, Map, Name, Running
  <2>2. \A k \in Sub : list'[k] \in {None, DirData}
    BY <2>1 DEF KnownInv
  <2>3. ASSUME "partial" \notin slip', Exact', NEW k \in present', k # s
        PROVE  list'[k] = DirData \/ k \in found
    <3>1. "partial" \notin slip /\ Exact /\ (subdirs \/ Unlisted \ {s} = {}) /\ k \in present
      BY <2>1, <2>3 DEF Partial, Exact
    <3>2. CASE subdirs
      <4>1. list[k] = DirData \/ k \in found
        BY <2>1, <3>1, <3>2 DEF KnownInv
      <4> QED
        BY <1>1, <2>1, <2>3, <3>1, <4>1
    <3>3. CASE Unlisted \ {s} = {}
      <4>1. list[k] # None
        BY <2>3, <3>1, <3>3 DEF Unlisted
      <4> QED
        BY <1>1, <2>1, <2>2, <2>3, <3>1, <4>1
    <3> QED
      BY <3>1, <3>2, <3>3
  <2>4. ASSUME "partial" \notin slip', Exact' PROVE Listed'
    BY <2>1, <2>3, <2>4 DEF Listed
  <2> QED
    BY <2>1, <2>2, <2>4 DEF KnownInv, Listed
<1>4. CASE RegisterFound(s)
  <2>1. /\ pc = "finding" /\ Running /\ Running' /\ pc' = (IF found = {s} THEN "ready" ELSE "finding")
        /\ UNCHANGED <<entries, present, subdirs, slip>> /\ log' \in Seq(KindLine)
        /\ found' = found \ {s} /\ list'[s] = DirData
        /\ \A k \in Sub \ {s} : list'[k] = list[k]
    BY <1>1, <1>2, <1>4 DEF RegisterFound, Logged, SetEntry, Map, Name, Running
  <2>2. found' # {} => pc' = "finding"
    BY <2>1
  <2>3. ASSUME "partial" \notin slip', Exact' PROVE Listed'
    <3>1. \A k \in present : list[k] = DirData \/ k \in found
      BY <2>1, <2>3 DEF KnownInv, Exact
    <3> QED
      BY <1>1, <2>1, <3>1 DEF Listed
  <2> QED
    BY <2>1, <2>2, <2>3 DEF KnownInv, Listed
<1> QED
  BY <1>3, <1>4

\* Find_Directories: the subdirectories that are not listed are found.
LEMMA FindKnows ==
    ASSUME IndInv, KnownInv, Find_Directories
    PROVE  KnownInv'
<1>1. /\ pc = "ready" /\ Running /\ UNCHANGED <<entries, dline, log, present, list, slip>>
      /\ present \subseteq Sub /\ found = {}
  BY DEF Find_Directories, Running, IndInv, TypeOK, KnownInv
<1>2. \/ Unlisted = {} /\ UNCHANGED <<found, pc>>
      \/ found' = Unlisted /\ pc' = "finding"
  BY DEF Find_Directories
<1>3. \A s \in present : list[s] = DirData \/ s \in Unlisted
  BY <1>1 DEF Unlisted, KnownInv
<1>4. Running' /\ \A s \in present' : list'[s] = DirData \/ s \in found'
  BY <1>1, <1>2, <1>3 DEF Running
<1>5. found' # {} => pc' = "finding"
  BY <1>1, <1>2
<1> QED
  BY <1>1, <1>4, <1>5 DEF KnownInv

\* The steps of write_entries and Entries_Close: a new Entries file says that
\* all subdirectories are listed only if the list knew it.
LEMMA WriteKnows ==
    ASSUME IndInv, KnownInv,
           Entries_Close \/ WriteBackup \/ RenameEntries \/ RenameExtra \/ UnlinkLog
    PROVE  KnownInv'
<1>1. TypeOK /\ Running /\ Running'
  BY WorkKeeps DEF IndInv, Work
<1>2. /\ UNCHANGED <<present, list, subdirs, found, slip>>
      /\ pc # "finding" /\ pc' # "finding"
      /\ entries' \in {entries, list} /\ log' \in {log, << >>}
  <2>1. Running => after \in {"ready", "exit"}
    BY DEF IndInv, WriteOrder
  <2> QED
    BY <1>1, <2>1 DEF Entries_Close, WriteBackup, RenameEntries, RenameExtra, UnlinkLog, fileVars, listVars
<1>3. found = {}
  BY <1>2 DEF KnownInv
<1>4. log' \in Seq(KindLine)
  <2>1. << >> \in Seq(KindLine) /\ log \in Seq(KindLine)
    BY DEF KnownInv
  <2> QED
    BY <1>2, <2>1
<1>5. \A s \in Sub : list'[s] \in {None, DirData} /\ entries'[s] \in {None, DirData}
  BY <1>2 DEF KnownInv
<1>6. ASSUME Exact, SawDir' PROVE SawDir \/ subdirs
  <2>1. CASE RenameEntries
    <3>1. ASSUME NEW n \in Name, list[n] = DirData PROVE SawDir
      <4>1. ReadData(n) = DirData
        BY <1>1, <1>6, <3>1, ValueAssumption DEF IndInv, NothingOnlyInMemory, Value
      <4> QED
        BY <1>1, <4>1, ReadDirSeen
    <3> QED
      BY <1>6, <2>1, <3>1 DEF RenameEntries, SawDir
  <2>2. CASE ~RenameEntries
    <3>1. UNCHANGED <<entries, dline>>
      BY <2>2 DEF Entries_Close, WriteBackup, RenameExtra, UnlinkLog, fileVars
    <3> QED
      BY <1>2, <1>6, <3>1 DEF SawDir
  <2> QED
    BY <2>1, <2>2
<1>7. ASSUME "partial" \notin slip', Exact' PROVE Listed'
  <2>1. Exact /\ "partial" \notin slip
    BY <1>2, <1>7 DEF Exact
  <2>2. SawDir \/ subdirs => \A s \in present : list[s] = DirData \/ s \in found
    BY <1>1, <2>1 DEF KnownInv
  <2> QED
    BY <1>1, <1>2, <1>6, <2>1, <2>2 DEF Listed
<1> QED
  BY <1>2, <1>3, <1>4, <1>5, <1>7 DEF KnownInv, Listed

\* Entries_Open: the list is what is read, and knows what the files say.
LEMMA OpenKnows ==
    ASSUME IndInv, KnownInv, Entries_Open
    PROVE  KnownInv'
<1>1. /\ ~Running /\ Running' /\ pc' # "finding" /\ subdirs' = SawDir
      /\ list' = [n \in Name |-> ReadData(n)] /\ found = {}
      /\ UNCHANGED <<entries, dline, log, present, found, slip>>
  BY DEF Entries_Open, Running, fileVars, KnownInv
<1>2. SawDir' <=> SawDir
  BY <1>1 DEF SawDir
<1>3. \A s \in Sub : s \in Name /\ list'[s] = ReadData(s)
  BY <1>1 DEF Name
<1>4. \A s \in Sub : list'[s] \in {None, DirData}
  BY <1>3, ReadSub
<1>5. ASSUME "partial" \notin slip', Exact' PROVE Listed'
  <2>1. SawDir => \A s \in present : ReadData(s) = DirData
    BY <1>1, <1>5 DEF KnownInv, Exact
  <2>2. present \subseteq Sub
    BY DEF IndInv, TypeOK
  <2> QED
    BY <1>1, <1>2, <1>3, <2>1, <2>2 DEF Listed
<1> QED
  BY <1>1, <1>4, <1>5 DEF KnownInv, Listed

\* Exit and Abort: what was listed is stored.
LEMMA EndKnows ==
    ASSUME IndInv, KnownInv, Exit \/ Abort
    PROVE  KnownInv'
<1>1. /\ Running /\ ~Running' /\ found' = {} /\ list' = [n \in Name |-> None]
      /\ UNCHANGED <<entries, dline, log, present>>
      /\ slip \subseteq slip'
      /\ "partial" \notin slip' => found = {}
  BY DEF Exit, Abort, Forget, Running, fileVars, KnownInv
<1>2. SawDir' <=> SawDir
  BY <1>1 DEF SawDir
<1>3. \A s \in Sub : s \in Name /\ list'[s] = None
  BY <1>1 DEF Name
<1>4. ASSUME "partial" \notin slip', Exact' PROVE Listed'
  <2>1. Exact /\ "partial" \notin slip /\ found = {}
    BY <1>1, <1>4 DEF Exact
  <2> SUFFICES ASSUME SawDir, NEW s \in present PROVE ReadData(s)' = DirData
    BY <1>1, <1>2 DEF Listed
  <2>2. s \in Name /\ list[s] = DirData /\ DirData # None
    BY <1>1, <2>1, ValueAssumption DEF KnownInv, IndInv, TypeOK, Name, Value
  <2>3. ReadData(s) = DirData
    BY <1>1, <2>1, <2>2 DEF IndInv, NothingOnlyInMemory
  <2> QED
    BY <1>1, <2>3, ReadDataIs
<1> QED
  BY <1>1, <1>3, <1>4 DEF KnownInv, Listed

\* When the files say that all subdirectories are listed they are, whatever
\* was cut off: a command that does not search for subdirectories misses none.
THEOREM Complete == Spec => []KnownIsComplete
<1>1. Init => KnownInv
  <2> SUFFICES ASSUME Init PROVE KnownInv
    OBVIOUS
  <2>1. log \in Seq(KindLine) /\ \A s \in Sub : s \in Name
    BY DEF Init, Name
  <2>2. SawDir => present = {}
    BY ValueAssumption DEF Init, SawDir, Value
  <2> QED
    BY <2>1, <2>2 DEF Init, KnownInv, Running
<1>2. IndInv /\ KnownInv /\ [Next]_vars => KnownInv'
  <2> SUFFICES ASSUME IndInv, KnownInv, [Next]_vars PROVE KnownInv'
    OBVIOUS
  <2>1. CASE Work
    BY <2>1, FileStepsKnow, SubStepsKnow, FindKnows, WriteKnows DEF Work
  <2>2. CASE UNCHANGED vars
    BY <2>2, ReadDataIs DEF vars, KnownInv, Running, SawDir, Exact
  <2> QED
    BY <2>1, <2>2, OpenKnows, EndKnows, Steps
<1>3. KnownInv => KnownIsComplete
  BY DEF KnownInv, KnownIsComplete, Running
<1> QED
  BY <1>1, <1>2, <1>3, Invariance, PTL DEF Spec
=============================================================================
