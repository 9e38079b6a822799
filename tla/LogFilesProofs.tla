--------------------------- MODULE LogFilesProofs ---------------------------
(* Theorems about LogFiles: types, the sizes of files, the names that a       *)
(* rotation gives, and when the elimination spares a file that is open.       *)
EXTENDS LogFiles, Integers, SequenceTheorems, FiniteSetTheorems, TLAPS

FileRecords == [name : Names, size : Nat, opened : Nat]

-----------------------------------------------------------------------------
(* Units                                                                      *)

LEMMA SpaceCastNat ==
    ASSUME NEW n \in Nat
    PROVE  space_cast(n, MB, B) \in Nat
<1>1. MB \in Nat /\ MB >= 1
  BY SpaceAssumption DEF MB
<1>2. Multiplies(MB, B) = MB \div 1 /\ Divides(MB, B) = 1
  BY <1>1 DEF Multiplies, Divides, B
<1>3. Multiplies(MB, B) \in Nat
  BY <1>1, <1>2
<1>4. n * Multiplies(MB, B) \in Nat
  BY <1>3
<1>5. Count(n * Multiplies(MB, B)) \in Nat
  BY <1>4, SpaceAssumption DEF Count
<1>6. Count(n * Multiplies(MB, B)) \div 1 \in Nat
  BY <1>5
<1>7. QED BY <1>2, <1>6 DEF space_cast

LEMMA SizesNat ==
    ASSUME conf \in Confs
    PROVE  single_size \in Nat /\ total_size \in Nat
<1>1. conf.single_size \in Nat /\ conf.total_size \in Nat
  BY FilesAssumption
<1>2. QED BY <1>1, SpaceCastNat DEF single_size, total_size

-----------------------------------------------------------------------------
(* The directory                                                              *)

\* The elements of a sequence over S are in S.
LEMMA ElemsIn ==
    ASSUME NEW S, NEW s \in Seq(S)
    PROVE  Elems(s) \subseteq S
  BY DEF Elems

\* Where the elements are after one was taken out.
LEMMA WithoutIs ==
    ASSUME NEW S, NEW r \in Seq(S), NEW i \in Elems(r)
    PROVE  /\ Without(r, i) \in Seq(S) /\ Len(Without(r, i)) = Len(r) - 1
           /\ \E k \in 1..Len(r) :
                 /\ r[k] = i
                 /\ \A j \in 1..Len(r) - 1 :
                       Without(r, i)[j] = IF j < k THEN r[j] ELSE r[j + 1]
<1> DEFINE k == CHOOSE k \in 1..Len(r) : r[k] = i
           a == SubSeq(r, 1, k - 1)
           b == SubSeq(r, k + 1, Len(r))
<1>1. k \in 1..Len(r) /\ r[k] = i
  BY DEF Elems
<1>2. Len(r) \in Nat
  OBVIOUS
<1> HIDE DEF k
<1>3. /\ a \in Seq(S) /\ Len(a) = k - 1
      /\ \A j \in 1..k - 1 : a[j] = r[j]
  BY <1>1, <1>2, SubSeqProperties
<1>4. /\ b \in Seq(S) /\ Len(b) = Len(r) - k
      /\ \A j \in 1..Len(r) - k : b[j] = r[k + j]
  BY <1>1, <1>2, SubSeqProperties
<1>5. Without(r, i) = a \o b
  BY DEF Without, k
<1> HIDE DEF a, b
<1>6. /\ a \o b \in Seq(S) /\ Len(a \o b) = Len(r) - 1
      /\ \A j \in 1..Len(r) - 1 : (a \o b)[j] = IF j < k THEN r[j] ELSE r[j + 1]
  <2>1. /\ a \o b \in Seq(S) /\ Len(a \o b) = Len(r) - 1
        /\ \A j \in 1..Len(r) - 1 : (a \o b)[j] = IF j <= k - 1 THEN a[j] ELSE b[j - (k - 1)]
    <3>1. /\ a \o b \in Seq(S)
          /\ Len(a \o b) = Len(a) + Len(b)
          /\ \A j \in 1..Len(a) + Len(b) :
                (a \o b)[j] = IF j <= Len(a) THEN a[j] ELSE b[j - Len(a)]
      BY <1>3, <1>4, ConcatProperties
    <3> DEFINE c == a \o b
    <3> HIDE DEF c
    <3>2. /\ c \in Seq(S)
          /\ Len(c) = Len(a) + Len(b)
          /\ \A j \in 1..Len(a) + Len(b) : c[j] = IF j <= Len(a) THEN a[j] ELSE b[j - Len(a)]
      BY <3>1 DEF c
    <3>3. Len(a) + Len(b) = Len(r) - 1
      BY <1>1, <1>2, <1>3, <1>4
    <3>4. QED BY <3>2, <3>3, <1>3 DEF c
  <2>2. ASSUME NEW j \in 1..Len(r) - 1, j < k PROVE a[j] = r[j]
    BY <2>2, <1>1, <1>2, <1>3
  <2>3. ASSUME NEW j \in 1..Len(r) - 1, ~(j < k) PROVE b[j - (k - 1)] = r[j + 1]
    BY <2>3, <1>1, <1>2, <1>4
  <2>4. QED BY <1>1, <1>2, <2>1, <2>2, <2>3
<1>7. QED BY <1>1, <1>5, <1>6

\* Taking an element out of a sequence leaves all others.
LEMMA WithoutElems ==
    ASSUME NEW S, NEW r \in Seq(S), NEW i \in Elems(r)
    PROVE  /\ Without(r, i) \in Seq(S)
           /\ Elems(Without(r, i)) \subseteq Elems(r)
           /\ Elems(r) \ {i} \subseteq Elems(Without(r, i))
<1> DEFINE w == Without(r, i)
<1>1. /\ w \in Seq(S) /\ Len(w) = Len(r) - 1
      /\ \E k \in 1..Len(r) :
            /\ r[k] = i
            /\ \A j \in 1..Len(r) - 1 : w[j] = IF j < k THEN r[j] ELSE r[j + 1]
  BY WithoutIs
<1> HIDE DEF w
<1>2. PICK k \in 1..Len(r) :
          /\ r[k] = i
          /\ \A j \in 1..Len(r) - 1 : w[j] = IF j < k THEN r[j] ELSE r[j + 1]
  BY <1>1
<1>3. Len(r) \in Nat
  OBVIOUS
<1>4. Elems(w) \subseteq Elems(r)
  <2> SUFFICES ASSUME NEW j \in 1..Len(r) - 1 PROVE w[j] \in Elems(r)
    BY <1>1 DEF Elems
  <2>1. j \in 1..Len(r) /\ j + 1 \in 1..Len(r)
    BY <1>3
  <2>2. QED BY <1>2, <2>1 DEF Elems
<1>5. Elems(r) \ {i} \subseteq Elems(w)
  <2> SUFFICES ASSUME NEW j \in 1..Len(r), j # k PROVE r[j] \in Elems(w)
    BY <1>2 DEF Elems
  <2>1. CASE j < k
    <3>1. j \in 1..Len(r) - 1 /\ w[j] = r[j]
      BY <1>2, <1>3, <2>1
    <3>2. QED BY <1>1, <3>1 DEF Elems
  <2>2. CASE j > k
    <3>1. j - 1 \in 1..Len(r) - 1 /\ ~(j - 1 < k) /\ j - 1 + 1 = j
      BY <1>3, <2>2
    <3>2. w[j - 1] = r[j]
      BY <1>2, <3>1
    <3>3. QED BY <1>1, <3>1, <3>2 DEF Elems
  <2>3. QED BY <1>3, <2>1, <2>2
<1>6. QED BY <1>1, <1>4, <1>5 DEF w

\* What is put in front of a sequence.
LEMMA FrontElems ==
    ASSUME NEW S, NEW r \in Seq(S), NEW i \in S
    PROVE  <<i>> \o r \in Seq(S) /\ Elems(<<i>> \o r) = {i} \cup Elems(r)
<1>1. /\ <<i>> \o r \in Seq(S) /\ Len(<<i>> \o r) = Len(r) + 1 /\ Len(r) \in Nat
      /\ (<<i>> \o r)[1] = i
      /\ \A j \in 1..Len(r) : (<<i>> \o r)[j + 1] = r[j]
  OBVIOUS
<1>2. ASSUME NEW j \in 1..Len(r) + 1 PROVE (<<i>> \o r)[j] \in {i} \cup Elems(r)
  <2>1. CASE j = 1 BY <2>1, <1>1
  <2>2. CASE j # 1
    <3>1. j - 1 \in 1..Len(r) /\ (<<i>> \o r)[j] = r[j - 1]
      BY <2>2, <1>1
    <3>2. QED BY <3>1 DEF Elems
  <2>3. QED BY <2>1, <2>2
<1>3. ASSUME NEW j \in 1..Len(r) PROVE r[j] \in Elems(<<i>> \o r)
  <2>1. j + 1 \in 1..Len(r) + 1
    BY <1>1
  <2>2. QED BY <1>1, <2>1 DEF Elems
<1>4. i \in Elems(<<i>> \o r)
  <2>1. 1 \in 1..Len(r) + 1
    BY <1>1
  <2>2. QED BY <1>1, <2>1 DEF Elems
<1>5. QED BY <1>1, <1>2, <1>3, <1>4 DEF Elems

\* A write changes the order of the directory and not what is in it.
LEMMA TouchElems ==
    ASSUME NEW S, NEW r \in Seq(S), NEW i \in S
    PROVE  Touch(r, i) \in Seq(S) /\ Elems(Touch(r, i)) = Elems(r)
<1>1. CASE i \in Elems(r)
  <2>1. /\ Without(r, i) \in Seq(S)
        /\ Elems(Without(r, i)) \subseteq Elems(r)
        /\ Elems(r) \ {i} \subseteq Elems(Without(r, i))
    BY <1>1, WithoutElems
  <2>2. /\ <<i>> \o Without(r, i) \in Seq(S)
        /\ Elems(<<i>> \o Without(r, i)) = {i} \cup Elems(Without(r, i))
    BY <2>1, FrontElems
  <2>3. Touch(r, i) = <<i>> \o Without(r, i)
    BY <1>1 DEF Touch
  <2>4. {i} \cup Elems(Without(r, i)) = Elems(r)
    BY <1>1, <2>1
  <2>5. QED BY <2>2, <2>3, <2>4
<1>2. CASE i \notin Elems(r)
  BY <1>2 DEF Touch
<1>3. QED BY <1>1, <1>2

LEMMA InDirFacts ==
    ASSUME TypeOK
    PROVE  InDir \subseteq 1..Len(files) /\ IsFiniteSet(InDir) /\ Len(files) \in Nat
<1>1. Len(files) \in Nat
  BY DEF TypeOK
<1>2. InDir \subseteq 1..Len(files)
  BY ElemsIn DEF TypeOK, InDir
<1>3. IsFiniteSet(1..Len(files))
  BY <1>1, FS_Interval
<1>4. IsFiniteSet(InDir)
  BY <1>2, <1>3, FS_Subset
<1>5. QED BY <1>1, <1>2, <1>4

\* Lookup finds a file of that name if there is one.
LEMMA LookupFacts ==
    ASSUME TypeOK, NEW name
    PROVE  /\ Lookup(name) \in 0..Len(files)
           /\ Lookup(name) # 0 => Lookup(name) \in InDir /\ files[Lookup(name)].name = name
           /\ Lookup(name) = 0 => \A i \in InDir : files[i].name # name
<1> DEFINE same == {i \in InDir : files[i].name = name}
<1>1. InDir \subseteq 1..Len(files) /\ Len(files) \in Nat
  BY InDirFacts
<1>2. CASE same = {}
  <2>1. Lookup(name) = 0
    BY <1>2 DEF Lookup
  <2>2. QED BY <2>1, <1>2, <1>1
<1>3. CASE same # {}
  <2>1. Lookup(name) = CHOOSE i \in same : TRUE
    BY <1>3 DEF Lookup
  <2>2. Lookup(name) \in same
    BY <2>1, <1>3
  <2>3. Lookup(name) \in InDir /\ files[Lookup(name)].name = name
    BY <2>2
  <2>4. Lookup(name) \in 1..Len(files)
    BY <2>3, <1>1
  <2>5. Lookup(name) # 0 /\ Lookup(name) \in 0..Len(files)
    BY <2>4, <1>1
  <2>6. QED BY <2>3, <2>5
<1>4. QED BY <1>2, <1>3

\* The files of a second, of which a new name has the number.
Same(t) == {i \in InDir : files[i].name.time = t}

LEMMA SameNat ==
    ASSUME TypeOK, NEW t
    PROVE  IsFiniteSet(Same(t)) /\ Cardinality(Same(t)) \in Nat
<1>1. Same(t) \subseteq InDir
  BY DEF Same
<1>2. IsFiniteSet(Same(t))
  BY <1>1, InDirFacts, FS_Subset
<1>3. QED BY <1>2, FS_CardinalityType

LEMMA NamesGiven ==
    ASSUME TypeOK, NEW s \in Sinks
    PROVE  /\ GetDataTimePath(s) \in Names
           /\ NewPath(s) \in Names
           /\ NextPath(s) \in Names
<1>1. GetDataTimePath(s) \in Names
  BY DEF GetDataTimePath, Names, TypeOK
<1>2. CountSame(s) \in Nat
  BY SameNat DEF CountSame, Same
<1>3. NewPath(s) \in Names
  BY <1>1, <1>2 DEF NewPath, Names
<1>4. QED BY <1>1, <1>3 DEF NextPath, TypeOK

-----------------------------------------------------------------------------
(* What reaches the kernel                                                    *)

LEMMA PutFacts ==
    ASSUME NEW fs \in Seq(FileRecords), NEW k \in 1..Len(fs), NEW n \in Nat
    PROVE  LET g == [fs EXCEPT ![k] = Put(@, n)]
           IN /\ g \in Seq(FileRecords) /\ Len(g) = Len(fs)
              /\ \A i \in 1..Len(fs) : i # k => g[i] = fs[i]
              /\ g[k].name = fs[k].name /\ g[k].opened = fs[k].opened
              /\ g[k].size = fs[k].size + n
<1> DEFINE f == Put(fs[k], n)
           g == [fs EXCEPT ![k] = f]
<1>1. fs[k] \in FileRecords
  OBVIOUS
<1>2. /\ f \in FileRecords /\ f.name = fs[k].name /\ f.opened = fs[k].opened
      /\ f.size = fs[k].size + n
  BY <1>1 DEF Put, FileRecords
<1> HIDE DEF f
<1>3. /\ g \in Seq(FileRecords) /\ Len(g) = Len(fs)
      /\ \A i \in 1..Len(fs) : i # k => g[i] = fs[i]
      /\ g[k] = f
  BY <1>2
<1>4. g = [fs EXCEPT ![k] = Put(@, n)]
  BY DEF f
<1>5. QED BY <1>2, <1>3, <1>4

\* close() gives the old file what the buffer has, and nothing else changes.
LEMMA ClosedFacts ==
    ASSUME TypeOK, NEW s \in Sinks
    PROVE  /\ Closed(s).fs \in Seq(FileRecords) /\ Len(Closed(s).fs) = Len(files)
           /\ \A i \in 1..Len(files) :
                 /\ i # ofs[s] => Closed(s).fs[i] = files[i]
                 /\ Closed(s).fs[i].name = files[i].name
                 /\ Closed(s).fs[i].opened = files[i].opened
           /\ ofs[s] # 0 => Closed(s).fs[ofs[s]].size = files[ofs[s]].size + buf[s]
           /\ Closed(s).rs \in Seq(1..Len(files)) /\ Elems(Closed(s).rs) = InDir
<1>1. files \in Seq(FileRecords) /\ recent \in Seq(1..Len(files))
      /\ ofs[s] \in 0..Len(files) /\ buf[s] \in Nat /\ Len(files) \in Nat
  BY DEF TypeOK, FileRecords
<1>2. CASE ofs[s] = 0 \/ buf[s] = 0
  <2>1. Closed(s).fs = files /\ Closed(s).rs = recent
    BY <1>2 DEF Closed
  <2>2. ASSUME ofs[s] # 0 PROVE files[ofs[s]].size = files[ofs[s]].size + buf[s]
    <3>1. ofs[s] \in 1..Len(files) /\ buf[s] = 0
      BY <2>2, <1>1, <1>2
    <3>2. files[ofs[s]] \in FileRecords
      BY <3>1, <1>1
    <3>3. files[ofs[s]].size \in Nat
      BY <3>2 DEF FileRecords
    <3>4. QED BY <3>1, <3>3
  <2>3. QED BY <2>1, <2>2, <1>1 DEF InDir
<1>3. CASE ~(ofs[s] = 0 \/ buf[s] = 0)
  <2>1. ofs[s] \in 1..Len(files)
    BY <1>1, <1>3
  <2>2. /\ Closed(s).fs = [files EXCEPT ![ofs[s]] = Put(@, buf[s])]
        /\ Closed(s).rs = Touch(recent, ofs[s])
    BY <1>3 DEF Closed
  <2>3. Touch(recent, ofs[s]) \in Seq(1..Len(files)) /\ Elems(Touch(recent, ofs[s])) = InDir
    BY <1>1, <2>1, TouchElems DEF InDir
  <2> DEFINE g == [files EXCEPT ![ofs[s]] = Put(@, buf[s])]
  <2>4. /\ g \in Seq(FileRecords) /\ Len(g) = Len(files)
        /\ \A i \in 1..Len(files) : i # ofs[s] => g[i] = files[i]
        /\ g[ofs[s]].name = files[ofs[s]].name /\ g[ofs[s]].opened = files[ofs[s]].opened
        /\ g[ofs[s]].size = files[ofs[s]].size + buf[s]
    BY <1>1, <2>1, PutFacts
  <2> HIDE DEF g
  <2>5. Closed(s).fs = g
    BY <2>2 DEF g
  <2>6. QED BY <2>2, <2>3, <2>4, <2>5
<1>4. QED BY <1>2, <1>3

-----------------------------------------------------------------------------
(* What the steps do to the directory                                         *)

\* A file that is made has the next number and is in front.
LEMMA CreateFacts ==
    ASSUME NEW fs \in Seq(FileRecords), NEW rs \in Seq(1..Len(fs)), NEW f \in FileRecords
    PROVE  LET g == Append(fs, f)
           IN /\ g \in Seq(FileRecords) /\ Len(g) = Len(fs) + 1
              /\ \A i \in 1..Len(fs) : g[i] = fs[i]
              /\ g[Len(g)] = f
              /\ <<Len(g)>> \o rs \in Seq(1..Len(g))
              /\ Elems(<<Len(g)>> \o rs) = Elems(rs) \cup {Len(g)}
<1> DEFINE g == Append(fs, f)
<1>1. /\ g \in Seq(FileRecords) /\ Len(g) = Len(fs) + 1 /\ Len(fs) \in Nat
      /\ \A i \in 1..Len(fs) : g[i] = fs[i]
      /\ g[Len(fs) + 1] = f
  OBVIOUS
<1> HIDE DEF g
<1>2. 1..Len(fs) \subseteq 1..Len(g) /\ Len(g) \in 1..Len(g)
  BY <1>1
<1>3. rs \in Seq(1..Len(g))
  BY <1>2, SeqMonotonic
<1>4. /\ <<Len(g)>> \o rs \in Seq(1..Len(g))
      /\ Elems(<<Len(g)>> \o rs) = {Len(g)} \cup Elems(rs)
  BY <1>2, <1>3, FrontElems
<1>5. QED BY <1>1, <1>4 DEF g

LEMMA OpenFacts ==
    ASSUME TypeOK, NEW s \in Sinks, OpenFile(s)
    PROVE  /\ files' \in Seq(FileRecords) /\ recent' \in Seq(1..Len(files'))
           /\ Len(files) <= Len(files') /\ Len(files') \in Nat
           /\ ofs'[s] \in 1..Len(files') /\ ofs' = [ofs EXCEPT ![s] = ofs'[s]]
           /\ \A i \in 1..Len(files) :
                 /\ files'[i].name = files[i].name
                 /\ i # ofs[s] => files'[i].size = files[i].size
                 /\ i # ofs'[s] => files'[i].opened = files[i].opened
           /\ ofs[s] # 0 => files'[ofs[s]].size = files[ofs[s]].size + buf[s]
           /\ files'[ofs'[s]].name = file_path[s]
           /\ \/ /\ ofs'[s] \in InDir /\ InDir' = InDir /\ Len(files') = Len(files)
                 /\ files'[ofs'[s]].opened = files[ofs'[s]].opened + 1
              \/ /\ ofs'[s] = Len(files) + 1 /\ Len(files') = Len(files) + 1
                 /\ InDir' = InDir \cup {ofs'[s]}
                 /\ files'[ofs'[s]].size = 0 /\ files'[ofs'[s]].opened = 1
                 /\ \A i \in InDir : files[i].name # file_path[s]
<1> DEFINE old == Lookup(file_path[s])
           fs == Closed(s).fs
           rs == Closed(s).rs
<1>1. /\ fs \in Seq(FileRecords) /\ Len(fs) = Len(files) /\ Len(files) \in Nat
      /\ \A i \in 1..Len(files) :
            /\ i # ofs[s] => fs[i] = files[i]
            /\ fs[i].name = files[i].name
            /\ fs[i].opened = files[i].opened
      /\ ofs[s] # 0 => fs[ofs[s]].size = files[ofs[s]].size + buf[s]
      /\ rs \in Seq(1..Len(files)) /\ Elems(rs) = InDir
  BY ClosedFacts, InDirFacts
<1>2. /\ old \in 0..Len(files)
      /\ old # 0 => old \in InDir /\ files[old].name = file_path[s]
      /\ old = 0 => \A i \in InDir : files[i].name # file_path[s]
  BY LookupFacts
<1>3. ofs[s] \in 0..Len(files) /\ file_path[s] \in Names /\ ofs \in [Sinks -> 0..Len(files)]
  BY DEF TypeOK
<1>4. CASE old = 0
  <2> DEFINE f == [name |-> file_path[s], size |-> 0, opened |-> 1]
             g == Append(fs, f)
  <2>1. f \in FileRecords /\ f.name = file_path[s] /\ f.size = 0 /\ f.opened = 1
    BY <1>3 DEF FileRecords
  <2>2. /\ files' = g /\ recent' = <<Len(files')>> \o rs
        /\ ofs' = [ofs EXCEPT ![s] = Len(files')]
    BY <1>4 DEF OpenFile
  <2> HIDE DEF f, fs, rs, old
  <2>3. rs \in Seq(1..Len(fs))
    BY <1>1
  <2>4. /\ g \in Seq(FileRecords) /\ Len(g) = Len(fs) + 1
        /\ \A i \in 1..Len(fs) : g[i] = fs[i]
        /\ g[Len(g)] = f
        /\ <<Len(g)>> \o rs \in Seq(1..Len(g))
        /\ Elems(<<Len(g)>> \o rs) = Elems(rs) \cup {Len(g)}
    BY <2>1, <2>3, <1>1, CreateFacts
  <2> HIDE DEF g
  <2>5. /\ files' \in Seq(FileRecords) /\ Len(files') = Len(files) + 1
        /\ \A i \in 1..Len(files) : files'[i] = fs[i]
        /\ files'[Len(files) + 1] = f
        /\ recent' \in Seq(1..Len(files')) /\ InDir' = InDir \cup {Len(files) + 1}
    BY <2>2, <2>4, <1>1 DEF InDir
  <2>6. /\ ofs'[s] = Len(files) + 1 /\ ofs' = [ofs EXCEPT ![s] = ofs'[s]]
    BY <2>2, <2>5, <1>3
  <2>7. ofs[s] # 0 => ofs[s] \in 1..Len(files)
    BY <1>3
  <2>8. \A i \in 1..Len(files) :
           /\ files'[i].name = files[i].name
           /\ i # ofs[s] => files'[i].size = files[i].size
           /\ files'[i].opened = files[i].opened
    BY <2>5, <1>1
  <2>9. ofs[s] # 0 => files'[ofs[s]].size = files[ofs[s]].size + buf[s]
    BY <2>5, <2>7, <1>1
  <2>10. /\ files'[ofs'[s]].name = file_path[s] /\ files'[ofs'[s]].size = 0
         /\ files'[ofs'[s]].opened = 1
    BY <2>5, <2>6, <2>1
  <2>11. Len(files) <= Len(files') /\ Len(files') \in Nat /\ ofs'[s] \in 1..Len(files')
    BY <2>5, <2>6, <1>1
  <2>12. \A i \in InDir : files[i].name # file_path[s]
    BY <1>2, <1>4
  <2>13. QED BY <2>5, <2>6, <2>8, <2>9, <2>10, <2>11, <2>12
<1>5. CASE old # 0
  <2>1. /\ files' = [fs EXCEPT ![old].opened = @ + 1] /\ recent' = rs
        /\ ofs' = [ofs EXCEPT ![s] = old]
    BY <1>5 DEF OpenFile
  <2> HIDE DEF fs, rs, old
  <2>2. old \in 1..Len(files) /\ fs[old] \in FileRecords
    BY <1>1, <1>2, <1>5
  <2> DEFINE f == [fs[old] EXCEPT !.opened = @ + 1]
  <2>3. /\ f \in FileRecords /\ f.name = fs[old].name /\ f.size = fs[old].size
        /\ f.opened = fs[old].opened + 1
    BY <2>2 DEF FileRecords
  <2>4. files' = [fs EXCEPT ![old] = f]
    BY <2>1
  <2> HIDE DEF f
  <2>5. /\ files' \in Seq(FileRecords) /\ Len(files') = Len(files)
        /\ \A i \in 1..Len(files) : i # old => files'[i] = fs[i]
        /\ files'[old] = f
    BY <2>4, <2>3, <2>2, <1>1
  <2>6. ofs'[s] = old /\ ofs' = [ofs EXCEPT ![s] = ofs'[s]]
    BY <2>1, <1>3
  <2>7. \A i \in 1..Len(files) :
           /\ files'[i].name = fs[i].name /\ files'[i].size = fs[i].size
           /\ i # old => files'[i].opened = fs[i].opened
    BY <2>5, <2>3
  <2>8. ofs[s] # 0 => ofs[s] \in 1..Len(files)
    BY <1>3
  <2>9. \A i \in 1..Len(files) :
           /\ files'[i].name = files[i].name
           /\ i # ofs[s] => files'[i].size = files[i].size
           /\ i # old => files'[i].opened = files[i].opened
    BY <2>7, <1>1
  <2>10. ofs[s] # 0 => files'[ofs[s]].size = files[ofs[s]].size + buf[s]
    BY <2>7, <2>8, <1>1
  <2>11. files'[old].name = file_path[s]
    BY <2>9, <2>2, <1>2, <1>5
  <2>12. recent' \in Seq(1..Len(files')) /\ InDir' = InDir
    BY <2>1, <2>5, <1>1 DEF InDir
  <2>13. files'[old].opened = files[old].opened + 1
    BY <2>5, <2>3, <2>2, <1>1
  <2>14. Len(files) <= Len(files') /\ Len(files') \in Nat /\ ofs'[s] \in 1..Len(files')
    BY <2>5, <2>6, <2>2, <1>1
  <2>15. old \in InDir
    BY <1>2, <1>5
  <2>16. QED BY <2>5, <2>6, <2>9, <2>10, <2>11, <2>12, <2>13, <2>14, <2>15
<1>6. QED BY <1>4, <1>5

LEMMA WriteFacts ==
    ASSUME TypeOK, NEW s \in Sinks, WriteChunk(s)
    PROVE  /\ files' \in Seq(FileRecords) /\ Len(files') = Len(files)
           /\ recent' \in Seq(1..Len(files')) /\ InDir' = InDir
           /\ ofs[s] \in 1..Len(files)
           /\ buf' = [buf EXCEPT ![s] = buf'[s]] /\ buf'[s] \in Nat
           /\ \A i \in 1..Len(files) :
                 /\ files'[i].name = files[i].name /\ files'[i].opened = files[i].opened
                 /\ i # ofs[s] => files'[i] = files[i]
           /\ \E n \in ChunkSizes :
                 \/ /\ buf'[s] = buf[s] + n /\ buf'[s] <= Small
                    /\ files' = files
                 \/ buf'[s] = 0 /\ files'[ofs[s]].size = files[ofs[s]].size + (buf[s] + n)
<1>1. /\ files \in Seq(FileRecords) /\ recent \in Seq(1..Len(files))
      /\ ofs[s] \in 1..Len(files) /\ buf \in [Sinks -> Nat] /\ Len(files) \in Nat
  BY DEF TypeOK, FileRecords, WriteChunk
<1>2. PICK n \in ChunkSizes :
          \/ /\ buf[s] + n <= Small
             /\ buf' = [buf EXCEPT ![s] = @ + n]
             /\ UNCHANGED dirVars
          \/ /\ files' = [files EXCEPT ![ofs[s]] = Put(@, buf[s] + n)]
             /\ recent' = Touch(recent, ofs[s])
             /\ buf' = [buf EXCEPT ![s] = 0]
  BY DEF WriteChunk
<1>3. n \in Nat /\ buf[s] + n \in Nat
  BY <1>1, FilesAssumption
<1>4. CASE /\ buf[s] + n <= Small
           /\ buf' = [buf EXCEPT ![s] = @ + n]
           /\ UNCHANGED dirVars
  <2>1. files' = files /\ recent' = recent
    BY <1>4 DEF dirVars
  <2>2. buf'[s] = buf[s] + n /\ buf' = [buf EXCEPT ![s] = buf'[s]]
    BY <1>4, <1>1
  <2>3. InDir' = InDir
    BY <2>1 DEF InDir
  <2>4. buf'[s] \in Nat /\ buf'[s] <= Small
    BY <2>2, <1>3, <1>4
  <2>5. QED BY <2>1, <2>2, <2>3, <2>4, <1>1
<1>5. CASE /\ files' = [files EXCEPT ![ofs[s]] = Put(@, buf[s] + n)]
           /\ recent' = Touch(recent, ofs[s])
           /\ buf' = [buf EXCEPT ![s] = 0]
  <2>1. recent' \in Seq(1..Len(files)) /\ InDir' = InDir
    BY <1>5, <1>1, TouchElems DEF InDir
  <2> DEFINE g == [files EXCEPT ![ofs[s]] = Put(@, buf[s] + n)]
  <2>2. /\ g \in Seq(FileRecords) /\ Len(g) = Len(files)
        /\ \A i \in 1..Len(files) : i # ofs[s] => g[i] = files[i]
        /\ g[ofs[s]].name = files[ofs[s]].name /\ g[ofs[s]].opened = files[ofs[s]].opened
        /\ g[ofs[s]].size = files[ofs[s]].size + (buf[s] + n)
    BY <1>1, <1>3, PutFacts
  <2>3. files' = g
    BY <1>5
  <2> HIDE DEF g
  <2>4. buf'[s] = 0 /\ buf' = [buf EXCEPT ![s] = buf'[s]]
    BY <1>5, <1>1
  <2>5. \A i \in 1..Len(files) : files'[i].name = files[i].name /\ files'[i].opened = files[i].opened
    BY <2>2, <2>3
  <2>6. QED BY <2>1, <2>2, <2>3, <2>4, <2>5, <1>1
<1>6. QED BY <1>2, <1>4, <1>5

LEMMA CloseFacts ==
    ASSUME TypeOK, NEW s \in Sinks, Close(s)
    PROVE  /\ files' \in Seq(FileRecords) /\ Len(files') = Len(files)
           /\ recent' \in Seq(1..Len(files')) /\ InDir' = InDir
           /\ \A i \in 1..Len(files) :
                 /\ files'[i].name = files[i].name /\ files'[i].opened = files[i].opened
                 /\ i # ofs[s] => files'[i] = files[i]
           /\ ofs[s] # 0 => files'[ofs[s]].size = files[ofs[s]].size + buf[s]
<1>1. files' = Closed(s).fs /\ recent' = Closed(s).rs
  BY DEF Close
<1>2. QED BY <1>1, ClosedFacts DEF InDir

LEMMA RemoveFacts ==
    ASSUME TypeOK, RemoveFile
    PROVE  /\ recent' \in Seq(1..Len(files)) /\ InDir' \subseteq InDir
           /\ InDir \ {Visited} \subseteq InDir' /\ Visited \in 1..Len(files)
<1>1. recent \in Seq(1..Len(files)) /\ listing \in Seq(1..Len(files)) /\ visited \in Nat
      /\ visited + 1 \in 1..Len(listing)
  BY DEF TypeOK, RemoveFile
<1>2. Visited \in 1..Len(files)
  BY <1>1 DEF Visited
<1>3. CASE Visited \in InDir
  <2>1. recent' = Without(recent, Visited)
    BY <1>3 DEF RemoveFile
  <2>2. QED BY <2>1, <1>1, <1>2, <1>3, WithoutElems DEF InDir
<1>4. CASE Visited \notin InDir
  <2>1. recent' = recent
    BY <1>4 DEF RemoveFile
  <2>2. QED BY <2>1, <1>1, <1>2, <1>4 DEF InDir
<1>5. QED BY <1>3, <1>4

-----------------------------------------------------------------------------
(* Types                                                                      *)

LEMMA TypeInit == Init => TypeOK
<1> SUFFICES ASSUME Init PROVE TypeOK
  OBVIOUS
<1>1. Len(files) = 0 /\ Len(listing) = 0
  BY DEF Init
<1>2. files \in Seq(FileRecords) /\ recent \in Seq(1..Len(files)) /\ listing \in Seq(1..Len(files))
  BY Zenon, EmptySeq DEF Init
<1>3. NoPath \in Names
  BY FilesAssumption DEF NoPath, Names
<1>4. QED BY <1>1, <1>2, <1>3 DEF TypeOK, Init, FileRecords

\* The steps of a sink leave the elimination alone, and no file is forgotten.
LEMMA TypeOfSink ==
    ASSUME TypeOK,
           UNCHANGED <<conf, now, walkVars, purged>>,
           files' \in Seq(FileRecords), recent' \in Seq(1..Len(files')),
           Len(files) <= Len(files'), Len(files') \in Nat,
           file_path' \in [Sinks -> Names],
           ofs' \in [Sinks -> 0..Len(files')],
           buf' \in [Sinks -> Nat],
           pc' \in [Sinks -> {"idle", "open", "write"}],
           \A s \in Sinks : pc'[s] = "write" => ofs'[s] # 0,
           chunks' \in Nat, restarts' \in Nat
    PROVE  TypeOK'
<1>1. Len(files) \in Nat /\ listing \in Seq(1..Len(files))
  BY DEF TypeOK
<1>2. 1..Len(files) \subseteq 1..Len(files')
  BY <1>1
<1>3. listing \in Seq(1..Len(files'))
  BY <1>1, <1>2, SeqMonotonic
<1>4. listing' = listing /\ visited' = visited /\ cur_total_size' = cur_total_size
      /\ conf' = conf /\ now' = now /\ purged' = purged
  BY DEF walkVars
<1>5. listing' \in Seq(1..Len(files')) /\ visited' \in 0..Len(listing')
  BY <1>3, <1>4 DEF TypeOK
<1>6. conf' \in Confs /\ now' \in Nat \ {0} /\ cur_total_size' \in Nat /\ purged' \subseteq Nat
  BY <1>4 DEF TypeOK
<1>7. QED BY <1>5, <1>6 DEF TypeOK, FileRecords

LEMMA TypeGetFilePath ==
    ASSUME TypeOK, NEW s \in Sinks, GetFilePath(s)
    PROVE  TypeOK'
<1>1. /\ UNCHANGED <<conf, now, walkVars, purged>>
      /\ UNCHANGED <<files, recent, ofs, buf, restarts>>
  BY DEF GetFilePath, dirVars
<1>2. NextPath(s) \in Names
  BY NamesGiven
<1>3. file_path' = [file_path EXCEPT ![s] = NextPath(s)] /\ chunks' = chunks + 1
  BY DEF GetFilePath
<1>4. file_path' \in [Sinks -> Names]
  BY <1>2, <1>3 DEF TypeOK
<1> DEFINE at == IF ofs[s] = 0 \/ file_path'[s] # file_path[s] THEN "open" ELSE "write"
<1>5. at \in {"open", "write"} /\ (at = "write" => ofs[s] # 0)
  OBVIOUS
<1>6. pc' = [pc EXCEPT ![s] = at]
  BY DEF GetFilePath
<1> HIDE DEF at
<1>7. /\ pc' \in [Sinks -> {"idle", "open", "write"}]
      /\ \A u \in Sinks : pc'[u] = "write" => ofs[u] # 0
  BY <1>5, <1>6 DEF TypeOK
<1>8. /\ files' \in Seq(FileRecords) /\ recent' \in Seq(1..Len(files'))
      /\ Len(files) <= Len(files') /\ Len(files') \in Nat
      /\ ofs' \in [Sinks -> 0..Len(files')] /\ buf' \in [Sinks -> Nat]
      /\ chunks' \in Nat /\ restarts' \in Nat
  BY <1>1, <1>3 DEF TypeOK, FileRecords
<1>9. \A u \in Sinks : pc'[u] = "write" => ofs'[u] # 0
  BY <1>1, <1>7
<1>10. QED BY <1>1, <1>4, <1>7, <1>8, <1>9, TypeOfSink

LEMMA TypeOpenFile ==
    ASSUME TypeOK, NEW s \in Sinks, OpenFile(s)
    PROVE  TypeOK'
<1>1. /\ UNCHANGED <<conf, now, walkVars, purged>>
      /\ UNCHANGED <<file_path, chunks, restarts>>
      /\ buf' = [buf EXCEPT ![s] = 0] /\ pc' = [pc EXCEPT ![s] = "write"]
  BY DEF OpenFile
<1>2. /\ files' \in Seq(FileRecords) /\ recent' \in Seq(1..Len(files'))
      /\ Len(files) <= Len(files') /\ Len(files') \in Nat
      /\ ofs'[s] \in 1..Len(files') /\ ofs' = [ofs EXCEPT ![s] = ofs'[s]]
  BY OpenFacts
<1>3. Len(files) \in Nat /\ ofs \in [Sinks -> 0..Len(files)]
  BY DEF TypeOK
<1>4. ofs' \in [Sinks -> 0..Len(files')]
  BY <1>2, <1>3
<1>5. buf' \in [Sinks -> Nat] /\ pc' \in [Sinks -> {"idle", "open", "write"}]
  BY <1>1 DEF TypeOK
<1>6. \A u \in Sinks : pc'[u] = "write" => ofs'[u] # 0
  BY <1>1, <1>2, <1>3 DEF TypeOK
<1>7. file_path' \in [Sinks -> Names] /\ chunks' \in Nat /\ restarts' \in Nat
  BY <1>1 DEF TypeOK
<1>8. QED BY <1>1, <1>2, <1>4, <1>5, <1>6, <1>7, TypeOfSink

LEMMA TypeWriteChunk ==
    ASSUME TypeOK, NEW s \in Sinks, WriteChunk(s)
    PROVE  TypeOK'
<1>1. /\ UNCHANGED <<conf, now, walkVars, purged>>
      /\ UNCHANGED <<file_path, ofs, chunks, restarts>>
      /\ pc' = [pc EXCEPT ![s] = "idle"]
  BY DEF WriteChunk
<1>2. /\ files' \in Seq(FileRecords) /\ Len(files') = Len(files)
      /\ recent' \in Seq(1..Len(files'))
      /\ buf' = [buf EXCEPT ![s] = buf'[s]] /\ buf'[s] \in Nat
  BY WriteFacts
<1>3. buf' \in [Sinks -> Nat]
  BY <1>2 DEF TypeOK
<1>4. Len(files) <= Len(files') /\ Len(files') \in Nat /\ ofs' \in [Sinks -> 0..Len(files')]
  BY <1>1, <1>2 DEF TypeOK
<1>5. /\ pc' \in [Sinks -> {"idle", "open", "write"}]
      /\ \A u \in Sinks : pc'[u] = "write" => ofs'[u] # 0
  BY <1>1 DEF TypeOK
<1>6. file_path' \in [Sinks -> Names] /\ chunks' \in Nat /\ restarts' \in Nat
  BY <1>1 DEF TypeOK
<1>7. QED BY <1>1, <1>2, <1>3, <1>4, <1>5, <1>6, TypeOfSink

LEMMA TypeClose ==
    ASSUME TypeOK, NEW s \in Sinks, Close(s)
    PROVE  TypeOK'
<1>1. /\ UNCHANGED <<conf, now, walkVars, purged>>
      /\ UNCHANGED <<pc, chunks>> /\ pc[s] = "idle" /\ restarts' = restarts + 1
      /\ file_path' = [file_path EXCEPT ![s] = NoPath]
      /\ ofs' = [ofs EXCEPT ![s] = 0] /\ buf' = [buf EXCEPT ![s] = 0]
  BY DEF Close
<1>2. /\ files' \in Seq(FileRecords) /\ Len(files') = Len(files)
      /\ recent' \in Seq(1..Len(files'))
  BY CloseFacts
<1>3. NoPath \in Names
  BY FilesAssumption DEF NoPath, Names
<1>4. file_path' \in [Sinks -> Names] /\ buf' \in [Sinks -> Nat]
  BY <1>1, <1>3 DEF TypeOK
<1>5. Len(files) <= Len(files') /\ Len(files') \in Nat /\ ofs' \in [Sinks -> 0..Len(files')]
  BY <1>1, <1>2 DEF TypeOK
<1>6. /\ pc' \in [Sinks -> {"idle", "open", "write"}]
      /\ \A u \in Sinks : pc'[u] = "write" => ofs'[u] # 0
  BY <1>1 DEF TypeOK
<1>7. chunks' \in Nat /\ restarts' \in Nat
  BY <1>1 DEF TypeOK
<1>8. QED BY <1>1, <1>2, <1>4, <1>5, <1>6, <1>7, TypeOfSink

LEMMA TypeCrash ==
    ASSUME TypeOK, Crash
    PROVE  TypeOK'
<1>1. NoPath \in Names
  BY FilesAssumption DEF NoPath, Names
<1>2. Len(listing') = 0 /\ listing' \in Seq(1..Len(files))
  BY Zenon, EmptySeq DEF Crash
<1>3. files' = files /\ recent' = recent
  BY DEF Crash, dirVars
<1>4. QED BY <1>1, <1>2, <1>3 DEF TypeOK, Crash

LEMMA TypeEliminate ==
    ASSUME TypeOK, EliminateFiles
    PROVE  TypeOK'
<1>1. CASE List
  <2>1. /\ listing' = recent /\ visited' = 0 /\ cur_total_size' = 0
        /\ UNCHANGED <<conf, now, files, recent, file_path, ofs, buf, pc, chunks, restarts, purged>>
    BY <1>1 DEF List, NewestFirst, dirVars, sinkVars
  <2>2. Len(recent) \in Nat /\ recent \in Seq(1..Len(files))
    BY DEF TypeOK
  <2>3. listing' \in Seq(1..Len(files')) /\ visited' \in 0..Len(listing')
    BY <2>1, <2>2
  <2>4. QED BY <2>1, <2>3 DEF TypeOK
<1>2. CASE Keep
  <2>1. /\ visited' = visited + 1 /\ visited < Len(listing) /\ Counted
        /\ UNCHANGED <<conf, now, files, recent, file_path, ofs, buf, pc, listing, chunks, restarts, purged>>
    BY <1>2 DEF Keep, dirVars, sinkVars
  <2>2. listing \in Seq(1..Len(files)) /\ visited \in Nat /\ files \in Seq(FileRecords)
    BY DEF TypeOK, FileRecords
  <2>3. Visited \in 1..Len(files)
    BY <2>1, <2>2 DEF Visited
  <2>4. files[Visited] \in FileRecords
    BY <2>2, <2>3
  <2>5. cur_total_size' \in Nat
    <3>1. files[Visited].size \in Nat
      BY <2>4 DEF FileRecords
    <3>2. cur_total_size' = cur_total_size + files[Visited].size
      BY <2>1 DEF Counted
    <3>3. cur_total_size \in Nat
      BY DEF TypeOK
    <3> HIDE DEF TypeOK
    <3>4. QED BY <3>1, <3>2, <3>3, SMTT(60)
  <2>6. visited' \in 0..Len(listing)
    BY <2>1 DEF TypeOK
  <2>7. QED BY <2>1, <2>5, <2>6 DEF TypeOK
<1>3. CASE RemoveFile
  <2>1. /\ visited' = visited + 1 /\ visited < Len(listing)
        /\ purged' = purged \cup {files[Visited].name.time}
        /\ UNCHANGED <<conf, now, files, file_path, ofs, buf, pc, listing, cur_total_size, chunks, restarts>>
    BY <1>3 DEF RemoveFile, sinkVars
  <2>2. recent' \in Seq(1..Len(files)) /\ Visited \in 1..Len(files)
    BY <1>3, RemoveFacts
  <2>3. files[Visited] \in FileRecords
    <3>1. files \in Seq(FileRecords)
      BY DEF TypeOK, FileRecords
    <3>2. QED BY <2>2, <3>1
  <2>4. files[Visited].name.time \in Nat
    BY <2>3 DEF FileRecords, Names
  <2>5. visited' \in 0..Len(listing)
    BY <2>1 DEF TypeOK
  <2>6. purged' \subseteq Nat
    BY <2>1, <2>4 DEF TypeOK
  <2>7. QED BY <2>1, <2>2, <2>5, <2>6 DEF TypeOK
<1>4. CASE Return
  <2>1. /\ listing' = <<>> /\ visited' = 0 /\ cur_total_size' = 0
        /\ UNCHANGED <<conf, now, files, recent, file_path, ofs, buf, pc, chunks, restarts, purged>>
    BY <1>4 DEF Return, dirVars, sinkVars
  <2>2. Len(listing') = 0 /\ listing' \in Seq(1..Len(files))
    BY <2>1, Zenon, EmptySeq
  <2>3. QED BY <2>1, <2>2 DEF TypeOK
<1>5. QED BY <1>1, <1>2, <1>3, <1>4 DEF EliminateFiles

LEMMA TypeNext == TypeOK /\ [Next]_vars => TypeOK'
<1> SUFFICES ASSUME TypeOK, [Next]_vars PROVE TypeOK'
  OBVIOUS
<1>1. CASE Tick
  BY <1>1 DEF TypeOK, Tick, dirVars, sinkVars, walkVars
<1>2. CASE UNCHANGED vars
  BY <1>2 DEF TypeOK, vars, dirVars, sinkVars, walkVars
<1>3. CASE Crash
  BY <1>3, TypeCrash
<1>4. CASE EliminateFiles
  BY <1>4, TypeEliminate
<1>5. ASSUME NEW s \in Sinks, GetFilePath(s) \/ OpenFile(s) \/ WriteChunk(s) \/ Close(s)
      PROVE  TypeOK'
  BY <1>5, TypeGetFilePath, TypeOpenFile, TypeWriteChunk, TypeClose
<1>6. QED BY <1>1, <1>2, <1>3, <1>4, <1>5 DEF Next

\* The variables have their types in every reachable state, for any sinks,
\* settings, chunks and restarts.
THEOREM TypeCorrect == Spec => []TypeOK
<1>1. QED BY TypeInit, TypeNext, PTL DEF Spec

-----------------------------------------------------------------------------
(* The inductive invariant                                                    *)

\* A sink has open what file_path_ names, but between naming and opening, and
\* names of its own only.
NamedInv ==
    /\ \A i \in 1..Len(files) : files[i].name.time # 0
    /\ \A s \in Sinks :
          /\ ofs[s] # 0 => files[ofs[s]].name.flag = s
          /\ ofs[s] # 0 /\ pc[s] # "open" => files[ofs[s]].name = file_path[s]
          /\ ofs[s] # 0 /\ pc[s] = "open" => files[ofs[s]].name # file_path[s]
          /\ pc[s] = "open" => file_path[s].flag = s /\ file_path[s].time # 0
          /\ ofs[s] = 0 /\ pc[s] = "idle" => file_path[s] = NoPath

\* The directory has all files but those that were eliminated, under different
\* names.
DirInv ==
    /\ \A i \in 1..Len(files) : i \in InDir \/ files[i].name.time \in purged
    /\ \A i, j \in InDir : files[i].name = files[j].name => i = j

\* What a file may come to, and what of it may be under way.
Limit(i) == single_size + files[i].opened * (Small + LargestChunk)
Coming(s) == IF pc[s] = "write" THEN LargestChunk ELSE 0

SizeInv ==
    /\ \A s \in Sinks : buf[s] <= Small
    /\ \A i \in 1..Len(files) :
          /\ files[i].opened >= 1
          /\ files[i].name.time \notin purged => files[i].size <= Limit(i)
    /\ \A s \in Sinks, i \in 1..Len(files) :
          ofs[s] = i /\ files[i].name.time \notin purged
          => files[i].size + buf[s] + Coming(s) <= Limit(i)

\* Indices run below the number of files of their second.
IndexInv ==
    \A t \in Nat \ purged :
        /\ \A i \in Same(t) : files[i].name.index < Cardinality(Same(t))
        /\ \A s \in Sinks : pc[s] = "open" /\ file_path[s].time = t
                            => file_path[s].index <= Cardinality(Same(t))

Inv == TypeOK /\ NamedInv /\ DirInv /\ SizeInv /\ IndexInv

-----------------------------------------------------------------------------
(* Names                                                                      *)

\* A sink keeps its file or takes a name of the second.
LEMMA NextFacts ==
    ASSUME TypeOK, NEW s \in Sinks
    PROVE  \/ NextPath(s) = file_path[s] /\ ~TooLong(s)
           \/ /\ NextPath(s).time = now /\ NextPath(s).flag = s
              /\ \/ NextPath(s).index = 0 /\ file_path[s] = NoPath
                 \/ /\ NextPath(s).index = 0 /\ NextPath(s) = GetDataTimePath(s)
                    /\ Lookup(NextPath(s)) = 0
                 \/ NextPath(s).index = Cardinality(Same(now)) /\ file_path[s] # NoPath
<1> DEFINE d == GetDataTimePath(s)
<1>1. d.time = now /\ d.flag = s /\ d.index = 0
  BY DEF GetDataTimePath
<1>2. CASE file_path[s] = NoPath
  BY <1>1, <1>2 DEF NextPath
<1>3. CASE file_path[s] # NoPath /\ ~TooLong(s)
  BY <1>3 DEF NextPath
<1>4. CASE file_path[s] # NoPath /\ TooLong(s)
  <2>1. NextPath(s) = NewPath(s)
    BY <1>4 DEF NextPath
  <2>2. CASE Lookup(d) = 0
    BY <2>1, <2>2, <1>1 DEF NewPath
  <2>3. CASE Lookup(d) # 0
    <3>1. NextPath(s) = [d EXCEPT !.index = CountSame(s)]
      BY <2>1, <2>3 DEF NewPath
    <3>2. CountSame(s) = Cardinality(Same(now))
      BY DEF CountSame, Same
    <3>3. d = [time |-> now, flag |-> s, index |-> 0]
      BY DEF GetDataTimePath
    <3> HIDE DEF d
    <3>4. /\ NextPath(s).time = now /\ NextPath(s).flag = s
          /\ NextPath(s).index = Cardinality(Same(now))
      BY <3>1, <3>2, <3>3
    <3>5. QED BY <3>4, <1>4
  <2>4. QED BY <2>2, <2>3
<1>5. QED BY <1>2, <1>3, <1>4

LEMMA PathFacts ==
    ASSUME TypeOK, NEW s \in Sinks, GetFilePath(s)
    PROVE  /\ UNCHANGED <<conf, files, recent, ofs, buf, purged>>
           /\ InDir' = InDir /\ pc[s] = "idle"
           /\ file_path' = [file_path EXCEPT ![s] = NextPath(s)]
           /\ pc' = [pc EXCEPT ![s] = pc'[s]]
           /\ \/ pc'[s] = "open" /\ (ofs[s] = 0 \/ NextPath(s) # file_path[s])
              \/ pc'[s] = "write" /\ ofs[s] # 0 /\ NextPath(s) = file_path[s]
<1>1. UNCHANGED <<conf, files, recent, ofs, buf, purged>> /\ pc[s] = "idle"
  BY DEF GetFilePath, dirVars
<1>2. InDir' = InDir
  BY <1>1 DEF InDir
<1>3. file_path' = [file_path EXCEPT ![s] = NextPath(s)] /\ file_path'[s] = NextPath(s)
  BY DEF GetFilePath, TypeOK
<1> DEFINE at == IF ofs[s] = 0 \/ NextPath(s) # file_path[s] THEN "open" ELSE "write"
<1>4. pc' = [pc EXCEPT ![s] = at]
  BY <1>3 DEF GetFilePath
<1>5. \/ at = "open" /\ (ofs[s] = 0 \/ NextPath(s) # file_path[s])
      \/ at = "write" /\ ofs[s] # 0 /\ NextPath(s) = file_path[s]
  OBVIOUS
<1> HIDE DEF at
<1>6. pc'[s] = at /\ pc' = [pc EXCEPT ![s] = pc'[s]]
  BY <1>4 DEF TypeOK
<1>7. QED BY <1>1, <1>2, <1>3, <1>5, <1>6

LEMMA NamedOfOthers ==
    ASSUME TypeOK, NamedInv, NEW s \in Sinks,
           files' \in Seq(FileRecords), Len(files) <= Len(files'), Len(files') \in Nat,
           \A i \in 1..Len(files) : files'[i].name = files[i].name,
           NEW u \in Sinks, u # s,
           ofs'[u] = ofs[u], pc'[u] = pc[u], file_path'[u] = file_path[u]
    PROVE  /\ ofs'[u] # 0 => files'[ofs'[u]].name.flag = u
           /\ ofs'[u] # 0 /\ pc'[u] # "open" => files'[ofs'[u]].name = file_path'[u]
           /\ ofs'[u] # 0 /\ pc'[u] = "open" => files'[ofs'[u]].name # file_path'[u]
           /\ pc'[u] = "open" => file_path'[u].flag = u /\ file_path'[u].time # 0
           /\ ofs'[u] = 0 /\ pc'[u] = "idle" => file_path'[u] = NoPath
<1>1. ofs[u] # 0 => ofs[u] \in 1..Len(files)
  BY DEF TypeOK
<1>2. ofs[u] # 0 => files'[ofs[u]].name = files[ofs[u]].name
  BY <1>1
<1>3. QED BY <1>2 DEF NamedInv

LEMMA NamedStep ==
    ASSUME TypeOK, NamedInv, [Next]_vars
    PROVE  NamedInv'
<1>1. ofs \in [Sinks -> 0..Len(files)] /\ file_path \in [Sinks -> Names] /\ now # 0
      /\ pc \in [Sinks -> {"idle", "open", "write"}] /\ Len(files) \in Nat
      /\ files \in Seq(FileRecords)
  BY DEF TypeOK, FileRecords
<1>2. ASSUME NEW s \in Sinks, GetFilePath(s) PROVE NamedInv'
  <2>1. /\ UNCHANGED <<files, ofs>> /\ pc[s] = "idle"
        /\ file_path' = [file_path EXCEPT ![s] = NextPath(s)]
        /\ pc' = [pc EXCEPT ![s] = pc'[s]]
        /\ \/ pc'[s] = "open" /\ (ofs[s] = 0 \/ NextPath(s) # file_path[s])
           \/ pc'[s] = "write" /\ ofs[s] # 0 /\ NextPath(s) = file_path[s]
    BY <1>2, PathFacts
  <2>2. /\ \A u \in Sinks \ {s} : ofs'[u] = ofs[u] /\ pc'[u] = pc[u] /\ file_path'[u] = file_path[u]
        /\ ofs'[s] = ofs[s] /\ file_path'[s] = NextPath(s)
    BY <2>1, <1>1
  <2>3. pc'[s] = "open" => NextPath(s).flag = s /\ NextPath(s).time # 0
    <3>1. CASE NextPath(s) = file_path[s] /\ ~TooLong(s)
      <4> SUFFICES ASSUME ofs[s] = 0 PROVE FALSE
        BY <2>1, <3>1
      <4>1. file_path[s] = NoPath
        BY <2>1 DEF NamedInv
      <4>2. NextPath(s).time = now
        BY <4>1 DEF NextPath, GetDataTimePath
      <4>3. QED BY <4>1, <4>2, <3>1, <1>1 DEF NoPath
    <3>2. QED BY <3>1, <1>1, NextFacts
  <2>4. ofs[s] # 0 => files[ofs[s]].name.flag = s /\ files[ofs[s]].name = file_path[s]
    BY <2>1 DEF NamedInv
  <2>5. QED BY <2>1, <2>2, <2>3, <2>4 DEF NamedInv
<1>3. ASSUME NEW s \in Sinks, OpenFile(s) PROVE NamedInv'
  <2>1. /\ files' \in Seq(FileRecords) /\ Len(files) <= Len(files') /\ Len(files') \in Nat
        /\ \A i \in 1..Len(files) : files'[i].name = files[i].name
        /\ ofs'[s] \in 1..Len(files') /\ ofs' = [ofs EXCEPT ![s] = ofs'[s]]
        /\ files'[ofs'[s]].name = file_path[s]
        /\ \/ Len(files') = Len(files)
           \/ ofs'[s] = Len(files) + 1 /\ Len(files') = Len(files) + 1
    BY <1>3, OpenFacts
  <2>2. pc[s] = "open" /\ pc' = [pc EXCEPT ![s] = "write"] /\ file_path' = file_path
    BY <1>3 DEF OpenFile
  <2>3. /\ \A u \in Sinks \ {s} : ofs'[u] = ofs[u] /\ pc'[u] = pc[u] /\ file_path'[u] = file_path[u]
        /\ pc'[s] = "write"
    BY <2>1, <2>2, <1>1
  <2>4. file_path[s].flag = s /\ file_path[s].time # 0
    BY <2>2 DEF NamedInv
  <2>5. \A i \in 1..Len(files') : files'[i].name.time # 0
    <3> SUFFICES ASSUME NEW i \in 1..Len(files') PROVE files'[i].name.time # 0
      OBVIOUS
    <3>1. CASE i \in 1..Len(files)
      BY <3>1, <2>1 DEF NamedInv
    <3>2. CASE i \notin 1..Len(files)
      <4>1. i = ofs'[s]
        BY <3>2, <2>1, <1>1
      <4>2. QED BY <4>1, <2>1, <2>4
    <3>3. QED BY <3>1, <3>2
  <2>6. ASSUME NEW u \in Sinks
        PROVE  /\ ofs'[u] # 0 => files'[ofs'[u]].name.flag = u
               /\ ofs'[u] # 0 /\ pc'[u] # "open" => files'[ofs'[u]].name = file_path'[u]
               /\ ofs'[u] # 0 /\ pc'[u] = "open" => files'[ofs'[u]].name # file_path'[u]
               /\ pc'[u] = "open" => file_path'[u].flag = u /\ file_path'[u].time # 0
               /\ ofs'[u] = 0 /\ pc'[u] = "idle" => file_path'[u] = NoPath
    <3>1. CASE u = s
      BY <3>1, <2>1, <2>2, <2>3, <2>4
    <3>2. CASE u # s
      BY <3>2, <2>1, <2>3, NamedOfOthers
    <3>3. QED BY <3>1, <3>2
  <2>7. QED BY <2>5, <2>6 DEF NamedInv
<1>4. ASSUME NEW s \in Sinks, WriteChunk(s) PROVE NamedInv'
  <2>1. /\ Len(files') = Len(files) /\ ofs[s] \in 1..Len(files)
        /\ \A i \in 1..Len(files) : files'[i].name = files[i].name
    BY <1>4, WriteFacts
  <2>2. /\ pc[s] = "write" /\ pc' = [pc EXCEPT ![s] = "idle"]
        /\ file_path' = file_path /\ ofs' = ofs
    BY <1>4 DEF WriteChunk
  <2>3. \A u \in Sinks : ofs[u] # 0 => files'[ofs[u]].name = files[ofs[u]].name
    BY <1>1, <2>1
  <2>4. \A u \in Sinks : pc'[u] = IF u = s THEN "idle" ELSE pc[u]
    BY <2>2, <1>1
  <2>5. QED BY <2>1, <2>2, <2>3, <2>4 DEF NamedInv
<1>5. ASSUME NEW s \in Sinks, Close(s) PROVE NamedInv'
  <2>1. /\ Len(files') = Len(files)
        /\ \A i \in 1..Len(files) : files'[i].name = files[i].name
    BY <1>5, CloseFacts
  <2>2. /\ pc[s] = "idle" /\ pc' = pc
        /\ file_path' = [file_path EXCEPT ![s] = NoPath] /\ ofs' = [ofs EXCEPT ![s] = 0]
    BY <1>5 DEF Close
  <2>3. \A u \in Sinks : ofs[u] # 0 => files'[ofs[u]].name = files[ofs[u]].name
    BY <1>1, <2>1
  <2>4. \A u \in Sinks : /\ ofs'[u] = IF u = s THEN 0 ELSE ofs[u]
                         /\ file_path'[u] = IF u = s THEN NoPath ELSE file_path[u]
    BY <2>2, <1>1
  <2>5. QED BY <2>1, <2>2, <2>3, <2>4 DEF NamedInv
<1>6. CASE Crash
  BY <1>6 DEF NamedInv, Crash, dirVars
<1>7. CASE EliminateFiles
  <2>1. UNCHANGED <<files, file_path, ofs, pc>>
    BY <1>7 DEF EliminateFiles, List, Keep, RemoveFile, Return, dirVars, sinkVars
  <2>2. QED BY <2>1 DEF NamedInv
<1>8. CASE Tick
  BY <1>8 DEF NamedInv, Tick, dirVars, sinkVars
<1>9. CASE UNCHANGED vars
  BY <1>9 DEF NamedInv, vars, dirVars, sinkVars
<1>10. QED BY <1>2, <1>3, <1>4, <1>5, <1>6, <1>7, <1>8, <1>9 DEF Next

-----------------------------------------------------------------------------
(* The directory                                                              *)

\* Only two steps change what is in the directory, or which seconds are purged.
LEMMA DirFrame ==
    ASSUME TypeOK, [Next]_vars, ~RemoveFile, \A s \in Sinks : ~OpenFile(s)
    PROVE  /\ Len(files') = Len(files) /\ InDir' = InDir /\ purged' = purged
           /\ \A i \in 1..Len(files) :
                 /\ files'[i].name = files[i].name
                 /\ files'[i].opened = files[i].opened
<1>1. ASSUME NEW s \in Sinks, GetFilePath(s)
      PROVE  UNCHANGED <<files, recent, purged>>
  BY <1>1, PathFacts
<1>2. ASSUME NEW s \in Sinks, WriteChunk(s)
      PROVE  /\ Len(files') = Len(files) /\ InDir' = InDir /\ purged' = purged
             /\ \A i \in 1..Len(files) :
                   /\ files'[i].name = files[i].name
                   /\ files'[i].opened = files[i].opened
  BY <1>2, WriteFacts DEF WriteChunk
<1>3. ASSUME NEW s \in Sinks, Close(s)
      PROVE  /\ Len(files') = Len(files) /\ InDir' = InDir /\ purged' = purged
             /\ \A i \in 1..Len(files) :
                   /\ files'[i].name = files[i].name
                   /\ files'[i].opened = files[i].opened
  BY <1>3, CloseFacts DEF Close
<1>4. CASE Crash \/ List \/ Keep \/ Return \/ Tick \/ UNCHANGED vars
  <2>1. UNCHANGED <<files, recent, purged>>
    BY <1>4 DEF Crash, List, Keep, Return, Tick, vars, dirVars
  <2>2. QED BY <2>1 DEF InDir
<1>5. CASE UNCHANGED <<files, recent, purged>>
  BY <1>5 DEF InDir
<1>6. QED BY <1>1, <1>2, <1>3, <1>4, <1>5 DEF Next, EliminateFiles

LEMMA DirStep ==
    ASSUME TypeOK, DirInv, [Next]_vars
    PROVE  DirInv'
<1>1. InDir \subseteq 1..Len(files) /\ Len(files) \in Nat
  BY InDirFacts
<1>2. CASE RemoveFile
  <2>1. InDir' \subseteq InDir /\ InDir \ {Visited} \subseteq InDir'
    BY <1>2, RemoveFacts
  <2>2. files' = files /\ purged' = purged \cup {files[Visited].name.time}
    BY <1>2 DEF RemoveFile
  <2>3. QED BY <2>1, <2>2 DEF DirInv
<1>3. ASSUME NEW s \in Sinks, OpenFile(s) PROVE DirInv'
  <2>1. \A i \in 1..Len(files) : files'[i].name = files[i].name
    BY <1>3, OpenFacts
  <2>2. purged' = purged
    BY <1>3 DEF OpenFile
  <2>3. CASE InDir' = InDir /\ Len(files') = Len(files)
    BY <1>1, <2>1, <2>2, <2>3 DEF DirInv
  <2>4. CASE ~(InDir' = InDir /\ Len(files') = Len(files))
    <3>1. /\ ofs'[s] = Len(files) + 1 /\ Len(files') = Len(files) + 1
          /\ InDir' = InDir \cup {ofs'[s]} /\ files'[ofs'[s]].name = file_path[s]
          /\ \A i \in InDir : files[i].name # file_path[s]
      BY <1>3, <2>4, OpenFacts
    <3>2. \A i \in 1..Len(files') : i \in InDir' \/ files'[i].name.time \in purged'
      BY <1>1, <2>1, <2>2, <3>1 DEF DirInv
    <3>3. \A i \in InDir : files'[i].name = files[i].name
      BY <1>1, <2>1
    <3>4. \A i, j \in InDir' : files'[i].name = files'[j].name => i = j
      BY <3>1, <3>3 DEF DirInv
    <3>5. QED BY <3>2, <3>4 DEF DirInv
  <2>5. QED BY <2>3, <2>4
<1>4. CASE ~RemoveFile /\ \A s \in Sinks : ~OpenFile(s)
  <2>1. /\ Len(files') = Len(files) /\ InDir' = InDir /\ purged' = purged
        /\ \A i \in 1..Len(files) : files'[i].name = files[i].name
    BY <1>4, DirFrame
  <2>2. QED BY <1>1, <2>1 DEF DirInv
<1>5. QED BY <1>2, <1>3, <1>4

-----------------------------------------------------------------------------
(* Indices                                                                    *)

LEMMA IndexStep ==
    ASSUME TypeOK, TypeOK', NamedInv, IndexInv, [Next]_vars
    PROVE  IndexInv'
<1>1. InDir \subseteq 1..Len(files) /\ Len(files) \in Nat
  BY InDirFacts
<1> SUFFICES ASSUME NEW t \in Nat, t \notin purged'
             PROVE  /\ \A i \in Same(t)' : files'[i].name.index < Cardinality(Same(t)')
                    /\ \A s \in Sinks : pc'[s] = "open" /\ file_path'[s].time = t
                                        => file_path'[s].index <= Cardinality(Same(t)')
  BY DEF IndexInv
<1>2. ASSUME t \notin purged
      PROVE  /\ \A i \in Same(t) : files[i].name.index < Cardinality(Same(t))
             /\ \A s \in Sinks : pc[s] = "open" /\ file_path[s].time = t
                                 => file_path[s].index <= Cardinality(Same(t))
  BY <1>2 DEF IndexInv
<1>3. Cardinality(Same(t)) \in Nat /\ IsFiniteSet(Same(t))
  BY SameNat
<1>4. CASE RemoveFile
  <2>1. InDir' \subseteq InDir /\ InDir \ {Visited} \subseteq InDir'
    BY <1>4, RemoveFacts
  <2>2. /\ files' = files /\ purged' = purged \cup {files[Visited].name.time}
        /\ UNCHANGED <<pc, file_path>>
    BY <1>4 DEF RemoveFile, sinkVars
  <2>3. Same(t)' = Same(t)
    BY <2>1, <2>2 DEF Same
  <2>4. QED BY <1>2, <2>2, <2>3
<1>5. ASSUME NEW s \in Sinks, OpenFile(s)
      PROVE  /\ \A i \in Same(t)' : files'[i].name.index < Cardinality(Same(t)')
             /\ \A u \in Sinks : pc'[u] = "open" /\ file_path'[u].time = t
                                 => file_path'[u].index <= Cardinality(Same(t)')
  <2>1. \A i \in 1..Len(files) : files'[i].name = files[i].name
    BY <1>5, OpenFacts
  <2>2. /\ purged' = purged /\ file_path' = file_path /\ pc[s] = "open"
        /\ pc' = [pc EXCEPT ![s] = "write"]
    BY <1>5 DEF OpenFile
  <2>3. \A u \in Sinks : pc'[u] = "open" => pc[u] = "open"
    BY <2>2 DEF TypeOK
  <2>4. CASE InDir' = InDir
    <3>1. Same(t)' = Same(t)
      BY <1>1, <2>1, <2>4 DEF Same
    <3>2. \A i \in Same(t) : files'[i].name = files[i].name
      BY <1>1, <2>1 DEF Same
    <3>3. QED BY <1>2, <2>2, <2>3, <3>1, <3>2
  <2>5. CASE InDir' # InDir
    <3>1. /\ ofs'[s] = Len(files) + 1 /\ InDir' = InDir \cup {ofs'[s]}
          /\ files'[ofs'[s]].name = file_path[s]
      BY <1>5, <2>5, OpenFacts
    <3>2. \A i \in Same(t) : files'[i].name = files[i].name
      BY <1>1, <2>1 DEF Same
    <3>3. CASE file_path[s].time # t
      <4>1. Same(t)' = Same(t)
        BY <1>1, <2>1, <3>1, <3>3 DEF Same
      <4>2. QED BY <1>2, <2>2, <2>3, <4>1, <3>2
    <3>4. CASE file_path[s].time = t
      <4>1. Same(t)' = Same(t) \cup {ofs'[s]} /\ ofs'[s] \notin Same(t)
        <5>1. ofs'[s] \notin 1..Len(files)
          BY <1>1, <3>1
        <5>2. files'[ofs'[s]].name.time = t
          BY <3>1, <3>4
        <5>3. \A i \in InDir : files'[i].name = files[i].name
          BY <1>1, <2>1
        <5> DEFINE k == ofs'[s]
        <5> HIDE DEF k
        <5>4. Same(t)' = {i \in InDir \cup {k} : files'[i].name.time = t}
          BY <3>1 DEF Same, k
        <5>5. Same(t)' = Same(t) \cup {k}
          BY <5>2, <5>3, <5>4 DEF Same, k
        <5>6. QED BY <1>1, <5>1, <5>5 DEF Same, k
      <4>2. Cardinality(Same(t)') = Cardinality(Same(t)) + 1
        BY <4>1, <1>3, FS_AddElement
      <4>3. \A i \in Same(t) : files[i].name.index \in Nat
        <5> SUFFICES ASSUME NEW i \in Same(t) PROVE files[i].name.index \in Nat
          OBVIOUS
        <5>1. i \in 1..Len(files)
          BY <1>1 DEF Same
        <5>2. files[i] \in FileRecords
          <6>1. files \in Seq(FileRecords)
            BY DEF TypeOK, FileRecords
          <6>2. QED BY <5>1, <6>1
        <5>3. QED BY <5>2 DEF FileRecords, Names
      <4>4. \A u \in Sinks : file_path[u].index \in Nat
        BY DEF TypeOK, Names
      <4>5. file_path[s].index <= Cardinality(Same(t))
        BY <1>2, <2>2, <3>4
      <4>6. \A i \in Same(t)' : files'[i].name.index < Cardinality(Same(t)')
        BY <1>2, <1>3, <2>2, <3>1, <3>2, <4>1, <4>2, <4>3, <4>4, <4>5
      <4>7. \A u \in Sinks : pc'[u] = "open" /\ file_path'[u].time = t
                             => file_path'[u].index <= Cardinality(Same(t)')
        BY <1>2, <1>3, <2>2, <2>3, <4>2, <4>4
      <4>8. QED BY <4>6, <4>7
    <3>5. QED BY <3>3, <3>4
  <2>6. QED BY <2>4, <2>5
<1>6. CASE ~RemoveFile /\ \A s \in Sinks : ~OpenFile(s)
  <2>1. /\ InDir' = InDir /\ purged' = purged
        /\ \A i \in 1..Len(files) : files'[i].name = files[i].name
    BY <1>6, DirFrame
  <2>2. Same(t)' = Same(t) /\ \A i \in Same(t) : files'[i].name = files[i].name
    BY <1>1, <2>1 DEF Same
  <2>3. ASSUME \A s \in Sinks : pc'[s] = "open" => pc[s] = "open" /\ file_path'[s] = file_path[s]
        PROVE  /\ \A i \in Same(t)' : files'[i].name.index < Cardinality(Same(t)')
               /\ \A s \in Sinks : pc'[s] = "open" /\ file_path'[s].time = t
                                   => file_path'[s].index <= Cardinality(Same(t)')
    BY <1>2, <2>1, <2>2, <2>3
  <2>4. ASSUME NEW s \in Sinks, GetFilePath(s)
        PROVE  /\ \A i \in Same(t)' : files'[i].name.index < Cardinality(Same(t)')
               /\ \A u \in Sinks : pc'[u] = "open" /\ file_path'[u].time = t
                                   => file_path'[u].index <= Cardinality(Same(t)')
    <3>1. /\ pc[s] = "idle" /\ file_path' = [file_path EXCEPT ![s] = NextPath(s)]
          /\ pc' = [pc EXCEPT ![s] = pc'[s]]
          /\ \/ pc'[s] = "open" /\ (ofs[s] = 0 \/ NextPath(s) # file_path[s])
             \/ pc'[s] = "write" /\ ofs[s] # 0 /\ NextPath(s) = file_path[s]
      BY <2>4, PathFacts
    <3>2. /\ \A u \in Sinks \ {s} : pc'[u] = pc[u] /\ file_path'[u] = file_path[u]
          /\ file_path'[s] = NextPath(s)
      BY <3>1 DEF TypeOK
    <3>3. pc'[s] = "open" =>
             NextPath(s).index = 0 \/ (NextPath(s).time = now /\ NextPath(s).index = Cardinality(Same(now)))
      <4>1. CASE NextPath(s) = file_path[s] /\ pc'[s] = "open"
        <5>1. file_path[s] = NoPath
          BY <3>1, <4>1 DEF NamedInv
        <5>2. QED BY <4>1, <5>1 DEF NoPath
      <4>2. QED BY <4>1, NextFacts
    <3>4. \A i \in Same(t)' : files'[i].name.index < Cardinality(Same(t)')
      BY <1>2, <2>1, <2>2
    <3>5. pc'[s] = "open" /\ NextPath(s).time = t => NextPath(s).index <= Cardinality(Same(t))
      BY <1>3, <3>3
    <3>6. QED BY <1>2, <2>1, <2>2, <3>2, <3>4, <3>5
  <2>5. ASSUME NEW s \in Sinks, WriteChunk(s) \/ Close(s)
        PROVE  \A u \in Sinks : pc'[u] = "open" => pc[u] = "open" /\ file_path'[u] = file_path[u]
    BY <2>5 DEF WriteChunk, Close, TypeOK
  <2>6. CASE Crash \/ List \/ Keep \/ Return \/ Tick \/ UNCHANGED vars
    <3>1. \A u \in Sinks : pc'[u] = "open" => pc[u] = "open" /\ file_path'[u] = file_path[u]
      BY <2>6 DEF Crash, List, Keep, Return, Tick, vars, sinkVars
    <3>2. QED BY <3>1, <2>3
  <2>7. QED BY <2>3, <2>4, <2>5, <2>6, <1>6 DEF Next, EliminateFiles
<1>7. QED BY <1>4, <1>5, <1>6

-----------------------------------------------------------------------------
(* Sizes                                                                      *)

LEMMA Room == Small + LargestChunk \in Nat /\ Small \in Nat /\ LargestChunk \in Nat
  BY FilesAssumption

LEMMA Multiples ==
    ASSUME NEW o \in Nat, NEW a \in Nat
    PROVE  o * a \in Nat /\ (o + 1) * a = o * a + a
  OBVIOUS

LEMMA FileFacts ==
    ASSUME TypeOK, NEW i \in 1..Len(files)
    PROVE  files[i].size \in Nat /\ files[i].opened \in Nat /\ files[i].name \in Names
<1>1. files \in Seq(FileRecords)
  BY DEF TypeOK, FileRecords
<1>2. files[i] \in FileRecords
  BY <1>1
<1>3. QED BY <1>2 DEF FileRecords

LEMMA LimitNat ==
    ASSUME TypeOK, NEW i \in 1..Len(files)
    PROVE  /\ Limit(i) \in Nat
           /\ files[i].opened >= 1 => single_size + (Small + LargestChunk) <= Limit(i)
<1> DEFINE a == Small + LargestChunk
           o == files[i].opened
<1>1. single_size \in Nat /\ a \in Nat /\ o \in Nat
  BY SizesNat, Room, FileFacts DEF TypeOK
<1>2. Limit(i) = single_size + o * a
  BY DEF Limit
<1> HIDE DEF a, o
<1>3. o * a \in Nat
  BY <1>1, Multiples
<1>4. ASSUME o >= 1 PROVE a <= o * a
  <2>1. o - 1 \in Nat /\ (o - 1) + 1 = o
    BY <1>1, <1>4
  <2>2. (o - 1) * a \in Nat /\ ((o - 1) + 1) * a = (o - 1) * a + a
    BY <2>1, <1>1, Multiples
  <2> DEFINE m == (o - 1) * a
  <2>3. m \in Nat /\ o * a = m + a
    BY <2>1, <2>2
  <2> HIDE DEF m
  <2>4. QED BY <2>3, <1>1
<1> DEFINE p == o * a
<1>5. p \in Nat /\ Limit(i) = single_size + p /\ (o >= 1 => a <= p)
  BY <1>2, <1>3, <1>4
<1> HIDE DEF p
<1>6. Limit(i) \in Nat /\ (o >= 1 => single_size + a <= Limit(i))
  BY <1>5, <1>1
<1>7. QED BY <1>6 DEF a, o

\* The settings do not change.
LEMMA SingleSame ==
    ASSUME [Next]_vars
    PROVE  single_size' = single_size
<1>1. conf' = conf
  BY DEF Next, GetFilePath, OpenFile, WriteChunk, Close, Crash, EliminateFiles, List, Keep,
         RemoveFile, Return, Tick, vars
<1>2. QED BY <1>1 DEF single_size, space_cast, Count, Multiplies, Divides, MB, B

LEMMA LimitSame ==
    ASSUME [Next]_vars, NEW i, files'[i].opened = files[i].opened
    PROVE  Limit(i)' = Limit(i)
  BY SingleSame DEF Limit

LEMMA LimitUp ==
    ASSUME TypeOK, [Next]_vars, NEW i \in 1..Len(files), files'[i].opened = files[i].opened + 1
    PROVE  Limit(i)' = Limit(i) + (Small + LargestChunk)
<1> DEFINE a == Small + LargestChunk
           o == files[i].opened
<1>1. single_size \in Nat /\ a \in Nat /\ o \in Nat
  BY SizesNat, Room, FileFacts DEF TypeOK
<1>2. Limit(i) = single_size + o * a /\ Limit(i)' = single_size + (o + 1) * a
  BY SingleSame DEF Limit
<1> HIDE DEF a, o
<1>3. o * a \in Nat /\ (o + 1) * a = o * a + a
  BY <1>1, Multiples
<1> DEFINE p == o * a
<1>4. p \in Nat /\ Limit(i) = single_size + p /\ Limit(i)' = single_size + (p + a)
  BY <1>2, <1>3
<1> HIDE DEF p
<1>5. Limit(i)' = Limit(i) + a
  BY <1>1, <1>4
<1>6. QED BY <1>5 DEF a

\* Two sinks never have the same file open.
LEMMA OneWriter ==
    ASSUME NamedInv, NEW s \in Sinks, NEW u \in Sinks, s # u, ofs[s] # 0
    PROVE  ofs[u] # ofs[s]
  BY DEF NamedInv

\* A sink goes on with a file only if it is not too long.
LEMMA NotTooLong ==
    ASSUME Inv, NEW s \in Sinks, GetFilePath(s), pc'[s] = "write",
           files[ofs[s]].name.time \notin purged
    PROVE  ofs[s] \in 1..Len(files) /\ files[ofs[s]].size <= single_size
<1> USE DEF Inv
<1>1. pc[s] = "idle" /\ ofs[s] # 0 /\ NextPath(s) = file_path[s]
  BY PathFacts
<1>2. ofs[s] \in 1..Len(files) /\ files[ofs[s]].name = file_path[s]
  BY <1>1 DEF TypeOK, NamedInv
<1>3. ofs[s] \in InDir /\ files[ofs[s]].name.time # 0
  BY <1>2 DEF DirInv, NamedInv
<1>4. Lookup(file_path[s]) = ofs[s]
  <2>1. Lookup(file_path[s]) # 0
    BY <1>2, <1>3, LookupFacts
  <2>2. Lookup(file_path[s]) \in InDir /\ files[Lookup(file_path[s])].name = file_path[s]
    BY <2>1, LookupFacts
  <2>3. QED BY <1>2, <1>3, <2>2 DEF DirInv
<1>5. ~TooLong(s)
  <2>1. file_path[s] # NoPath
    BY <1>2, <1>3 DEF NoPath
  <2>2. Lookup(NextPath(s)) # 0
    BY <1>1, <1>2, <1>4
  <2>3. ASSUME NextPath(s).time = now, NextPath(s).index = Cardinality(Same(now)) PROVE FALSE
    <3>1. now \in Nat \ purged /\ ofs[s] \in Same(now)
      BY <2>3, <1>1, <1>2, <1>3 DEF Same, TypeOK
    <3>2. files[ofs[s]].name.index < Cardinality(Same(now))
      BY <3>1 DEF IndexInv
    <3>3. Cardinality(Same(now)) \in Nat
      BY SameNat
    <3>4. QED BY <2>3, <3>2, <3>3, <1>1, <1>2
  <2>4. QED BY <2>1, <2>2, <2>3, NextFacts
<1>6. GetFileSize(file_path[s]) = files[ofs[s]].size
  BY <1>4, <1>1 DEF GetFileSize
<1>7. files[ofs[s]].size \in Nat /\ single_size \in Nat
  BY <1>2, FileFacts, SizesNat DEF TypeOK
<1>8. QED BY <1>2, <1>5, <1>6, <1>7 DEF TooLong

\* What a sink that does nothing has under way stays what it was.
LEMMA SizeOfOthers ==
    ASSUME Inv, [Next]_vars, NEW u \in Sinks, NEW i \in 1..Len(files),
           purged \subseteq purged',
           ofs'[u] = i => ofs[u] = i,
           files'[i].name = files[i].name, files'[i].opened = files[i].opened,
           files'[i].size = files[i].size,
           buf'[u] = buf[u], pc'[u] = pc[u]
    PROVE  ofs'[u] = i /\ files'[i].name.time \notin purged'
           => files'[i].size + buf'[u] + Coming(u)' <= Limit(i)'
<1>1. Limit(i)' = Limit(i) /\ Coming(u)' = Coming(u)
  BY LimitSame DEF Coming
<1>2. QED BY <1>1 DEF Inv, SizeInv

LEMMA SizeGetFilePath ==
    ASSUME Inv, [Next]_vars, NEW s \in Sinks, GetFilePath(s)
    PROVE  SizeInv'
<1> USE DEF Inv
<1>1. /\ UNCHANGED <<files, ofs, buf, purged>>
      /\ pc' = [pc EXCEPT ![s] = pc'[s]] /\ pc'[s] \in {"open", "write"} /\ pc[s] = "idle"
  BY PathFacts
<1>2. \A u \in Sinks \ {s} : pc'[u] = pc[u]
  BY <1>1 DEF TypeOK
<1>3. \A i \in 1..Len(files) : Limit(i)' = Limit(i)
  BY <1>1, LimitSame
<1>4. \A i \in 1..Len(files) :
         /\ files[i].opened >= 1
         /\ files[i].name.time \notin purged => files[i].size <= Limit(i)'
  BY <1>3 DEF SizeInv
<1>5. ASSUME NEW u \in Sinks, NEW i \in 1..Len(files), ofs[u] = i,
             files[i].name.time \notin purged
      PROVE  files[i].size + buf[u] + Coming(u)' <= Limit(i)
  <2>1. CASE u # s
    <3>1. Coming(u)' = Coming(u)
      BY <2>1, <1>2 DEF Coming
    <3>2. QED BY <3>1, <1>5 DEF SizeInv
  <2>2. CASE u = s /\ pc'[s] = "open"
    <3>1. Coming(u)' = 0 /\ Coming(u) = 0
      BY <2>2, <1>1 DEF Coming
    <3>2. QED BY <3>1, <1>5 DEF SizeInv
  <2>3. CASE u = s /\ pc'[s] = "write"
    <3>1. files[i].size <= single_size
      BY <2>3, <1>5, NotTooLong
    <3>2. buf[u] <= Small /\ buf[u] \in Nat
      BY DEF SizeInv, TypeOK
    <3>3. Coming(u)' = LargestChunk
      BY <2>3 DEF Coming
    <3>4. single_size + (Small + LargestChunk) <= Limit(i) /\ Limit(i) \in Nat
      BY LimitNat DEF SizeInv
    <3>5. files[i].size \in Nat /\ single_size \in Nat
      BY FileFacts, SizesNat DEF TypeOK
    <3>6. files[i].size + buf[u] + LargestChunk <= Limit(i)
      BY <3>1, <3>2, <3>4, <3>5, Room, SMTT(60)
    <3>7. QED BY <3>3, <3>6
  <2>4. QED BY <2>1, <2>2, <2>3, <1>1
<1>6. QED BY <1>1, <1>3, <1>4, <1>5 DEF SizeInv

LEMMA SizeOpenFile ==
    ASSUME Inv, [Next]_vars, NEW s \in Sinks, OpenFile(s)
    PROVE  SizeInv'
<1> USE DEF Inv
<1> DEFINE j == ofs[s]
<1>0. PICK k : k = ofs'[s]
  OBVIOUS
<1>1. /\ Len(files) <= Len(files') /\ Len(files') \in Nat /\ Len(files) \in Nat
      /\ k \in 1..Len(files') /\ ofs' = [ofs EXCEPT ![s] = k]
      /\ \A i \in 1..Len(files) :
            /\ files'[i].name = files[i].name
            /\ i # j => files'[i].size = files[i].size
            /\ i # k => files'[i].opened = files[i].opened
      /\ j # 0 => files'[j].size = files[j].size + buf[s]
      /\ files'[k].name = file_path[s]
      /\ \/ Len(files') = Len(files) /\ files'[k].opened = files[k].opened + 1
         \/ /\ k = Len(files) + 1 /\ Len(files') = Len(files) + 1
            /\ files'[k].size = 0 /\ files'[k].opened = 1
  BY <1>0, OpenFacts, InDirFacts
<1>2. /\ pc[s] = "open" /\ pc' = [pc EXCEPT ![s] = "write"] /\ purged' = purged
      /\ buf' = [buf EXCEPT ![s] = 0]
  BY DEF OpenFile
<1>3. /\ \A u \in Sinks \ {s} : ofs'[u] = ofs[u] /\ pc'[u] = pc[u] /\ buf'[u] = buf[u]
      /\ pc'[s] = "write" /\ buf'[s] = 0
  BY <1>1, <1>2 DEF TypeOK
<1>4. j # 0 => j # k /\ j \in 1..Len(files)
  <2> SUFFICES ASSUME j # 0 PROVE j # k /\ j \in 1..Len(files)
    OBVIOUS
  <2>1. j \in 1..Len(files)
    BY DEF TypeOK
  <2>2. files[j].name # file_path[s]
    BY <1>2 DEF NamedInv
  <2>3. files'[j].name = files[j].name
    BY <1>1, <2>1
  <2>4. QED BY <1>1, <2>1, <2>2, <2>3
<1> HIDE DEF j
<1>5. Small \in Nat /\ LargestChunk \in Nat /\ single_size \in Nat /\ buf[s] \in Nat
  BY Room, SizesNat DEF TypeOK
<1>6. \A u \in Sinks : buf'[u] <= Small
  BY <1>3, <1>5 DEF SizeInv
\* The file that is left has all that was in the buffer; no other file of old
\* is longer than it was.
<1>7. ASSUME NEW i \in 1..Len(files), files[i].name.time \notin purged
      PROVE  files'[i].size <= Limit(i) /\ files'[i].size \in Nat
  <2>1. files[i].size \in Nat /\ Limit(i) \in Nat /\ files[i].size <= Limit(i)
    BY <1>7, FileFacts, LimitNat DEF SizeInv
  <2>2. CASE i # j
    BY <2>1, <2>2, <1>1
  <2>3. CASE i = j
    <3>1. files[i].size + buf[s] + Coming(s) <= Limit(i) /\ Coming(s) = 0
      BY <2>3, <1>2, <1>7 DEF SizeInv, Coming, j
    <3>2. files'[i].size = files[i].size + buf[s]
      BY <2>3, <1>1, <1>4
    <3>3. QED BY <3>1, <3>2, <2>1, <1>5
  <2>4. QED BY <2>2, <2>3
<1>8. ASSUME NEW i \in 1..Len(files), i # k PROVE Limit(i)' = Limit(i)
  BY <1>8, <1>1, LimitSame
<1>9. CASE Len(files') = Len(files) /\ files'[k].opened = files[k].opened + 1
  <2>1. k \in 1..Len(files)
    BY <1>1, <1>9
  <2>2. Limit(k)' = Limit(k) + (Small + LargestChunk)
    BY <2>1, <1>9, LimitUp
  <2>3. /\ files'[k].opened >= 1
        /\ files'[k].name.time \notin purged' => files'[k].size + LargestChunk <= Limit(k)'
    <3>1. files[k].opened \in Nat /\ Limit(k) \in Nat
      BY <2>1, FileFacts, LimitNat
    <3>2. files'[k].name = files[k].name
      BY <1>1, <2>1
    <3>3. QED BY <3>1, <3>2, <2>1, <2>2, <1>2, <1>5, <1>7, <1>9
  <2>4. ASSUME NEW i \in 1..Len(files')
        PROVE  /\ files'[i].opened >= 1
               /\ files'[i].name.time \notin purged' => files'[i].size <= Limit(i)'
    <3>1. CASE i # k
      <4>1. files'[i].opened = files[i].opened /\ files[i].opened >= 1
            /\ files'[i].name = files[i].name
        BY <3>1, <1>1, <1>9 DEF SizeInv
      <4>2. QED BY <4>1, <3>1, <1>2, <1>7, <1>8, <1>9
    <3>2. CASE i = k
      <4>1. Limit(k) \in Nat /\ (files'[k].name.time \notin purged' => files'[k].size \in Nat)
        <5>1. files'[k].name = files[k].name
          BY <1>1, <2>1
        <5>2. QED BY <5>1, <2>1, <1>2, <1>7, LimitNat
      <4>2. QED BY <3>2, <2>2, <2>3, <1>5, <4>1
    <3>3. QED BY <3>1, <3>2
  <2>5. ASSUME NEW u \in Sinks, NEW i \in 1..Len(files')
        PROVE  ofs'[u] = i /\ files'[i].name.time \notin purged'
               => files'[i].size + buf'[u] + Coming(u)' <= Limit(i)'
    <3>1. CASE u = s
      <4>1. ofs'[u] = k /\ buf'[u] = 0 /\ Coming(u)' = LargestChunk
        BY <3>1, <1>0, <1>3 DEF Coming
      <4>2. files'[k].name.time \notin purged' => files'[k].size \in Nat
        <5>1. files'[k].name = files[k].name
          BY <1>1, <2>1
        <5>2. QED BY <5>1, <2>1, <1>2, <1>7
      <4>3. ASSUME ofs'[u] = i, files'[i].name.time \notin purged'
            PROVE  files'[i].size + buf'[u] + Coming(u)' <= Limit(i)'
        <5>1. i = k
          BY <4>1, <4>3
        <5>2. files'[i].size \in Nat /\ files'[i].size + LargestChunk <= Limit(i)'
          BY <5>1, <4>2, <4>3, <2>3
        <5>3. files'[i].size + buf'[u] + Coming(u)' = files'[i].size + LargestChunk
          BY <5>2, <4>1, <1>5
        <5>4. QED BY <5>2, <5>3
      <4>4. QED BY <4>3
    <3>2. CASE u # s
      <4> SUFFICES ASSUME ofs'[u] = i
                   PROVE  files'[i].name.time \notin purged'
                          => files'[i].size + buf'[u] + Coming(u)' <= Limit(i)'
        OBVIOUS
      <4>1. ofs[u] = i /\ files[i].name.flag = u /\ i # 0
        BY <3>2, <1>3, <1>1 DEF NamedInv
      <4>2. files'[i].name = files[i].name
        BY <1>1, <1>9
      <4>3. file_path[s].flag = s
        BY <1>2 DEF NamedInv
      <4>4. i # k
        BY <3>2, <1>1, <4>1, <4>2, <4>3
      <4>5. i # j
        BY <3>2, <1>4, <4>1, OneWriter DEF j
      <4>6. files'[i].opened = files[i].opened /\ files'[i].size = files[i].size
        BY <4>4, <4>5, <1>1, <1>9
      <4>7. QED BY <3>2, <4>1, <4>2, <4>6, <1>2, <1>3, <1>9, SizeOfOthers
    <3>3. QED BY <3>1, <3>2
  <2>6. QED BY <1>6, <2>4, <2>5 DEF SizeInv
<1>10. CASE /\ k = Len(files) + 1 /\ Len(files') = Len(files) + 1
            /\ files'[k].size = 0 /\ files'[k].opened = 1
  <2>1. Small + LargestChunk <= Limit(k)' /\ Limit(k)' \in Nat
    <3>1. Limit(k)' = single_size + 1 * (Small + LargestChunk)
      BY <1>10, SingleSame DEF Limit
    <3>2. QED BY <3>1, <1>5
  <2>2. ASSUME NEW i \in 1..Len(files')
        PROVE  /\ files'[i].opened >= 1
               /\ files'[i].name.time \notin purged' => files'[i].size <= Limit(i)'
    <3>1. CASE i = k
      BY <3>1, <2>1, <1>5, <1>10
    <3>2. CASE i # k
      <4>1. i \in 1..Len(files)
        BY <3>2, <1>1, <1>10
      <4>2. files'[i].opened = files[i].opened /\ files[i].opened >= 1
            /\ files'[i].name = files[i].name
        BY <3>2, <4>1, <1>1 DEF SizeInv
      <4>3. QED BY <3>2, <4>1, <4>2, <1>2, <1>7, <1>8
    <3>3. QED BY <3>1, <3>2
  <2>3. ASSUME NEW u \in Sinks, NEW i \in 1..Len(files')
        PROVE  ofs'[u] = i /\ files'[i].name.time \notin purged'
               => files'[i].size + buf'[u] + Coming(u)' <= Limit(i)'
    <3>1. CASE u = s
      <4>1. ofs'[u] = k /\ buf'[u] = 0 /\ Coming(u)' = LargestChunk
        BY <3>1, <1>0, <1>3 DEF Coming
      <4>2. ASSUME ofs'[u] = i PROVE files'[i].size + buf'[u] + Coming(u)' <= Limit(i)'
        <5>1. i = k
          BY <4>1, <4>2
        <5>2. files'[i].size + buf'[u] + Coming(u)' = LargestChunk
          BY <5>1, <4>1, <1>5, <1>10
        <5>3. QED BY <5>1, <5>2, <2>1, <1>5
      <4>3. QED BY <4>2
    <3>2. CASE u # s
      <4> SUFFICES ASSUME ofs'[u] = i
                   PROVE  files'[i].name.time \notin purged'
                          => files'[i].size + buf'[u] + Coming(u)' <= Limit(i)'
        OBVIOUS
      <4>1. ofs[u] = i /\ i \in 1..Len(files)
        BY <3>2, <1>1, <1>3 DEF TypeOK
      <4>2. i # k /\ i # j
        BY <3>2, <4>1, <1>1, <1>4, <1>10, OneWriter DEF j
      <4>3. /\ files'[i].name = files[i].name
            /\ files'[i].opened = files[i].opened /\ files'[i].size = files[i].size
        BY <4>1, <4>2, <1>1
      <4>4. QED BY <3>2, <4>1, <4>3, <1>2, <1>3, SizeOfOthers
    <3>3. QED BY <3>1, <3>2
  <2>4. QED BY <1>6, <2>2, <2>3 DEF SizeInv
<1>11. QED BY <1>1, <1>9, <1>10

LEMMA SizeWriteChunk ==
    ASSUME Inv, [Next]_vars, NEW s \in Sinks, WriteChunk(s)
    PROVE  SizeInv'
<1> USE DEF Inv
<1> DEFINE j == ofs[s]
<1>1. /\ Len(files') = Len(files) /\ j \in 1..Len(files) /\ Len(files) \in Nat
      /\ buf' = [buf EXCEPT ![s] = buf'[s]] /\ buf'[s] \in Nat
      /\ \A i \in 1..Len(files) :
            /\ files'[i].name = files[i].name /\ files'[i].opened = files[i].opened
            /\ i # j => files'[i] = files[i]
  BY WriteFacts, InDirFacts
<1>2. PICK n \in ChunkSizes :
          \/ /\ buf'[s] = buf[s] + n /\ buf'[s] <= Small
             /\ files' = files
          \/ buf'[s] = 0 /\ files'[j].size = files[j].size + (buf[s] + n)
  BY WriteFacts
<1>3. /\ pc[s] = "write" /\ pc' = [pc EXCEPT ![s] = "idle"]
      /\ ofs' = ofs /\ purged' = purged
  BY DEF WriteChunk
<1> HIDE DEF j
<1>4. n \in Nat /\ n <= LargestChunk /\ LargestChunk \in Nat /\ Small \in Nat
  BY FilesAssumption
<1>5. /\ \A u \in Sinks \ {s} : buf'[u] = buf[u] /\ pc'[u] = pc[u]
      /\ pc'[s] = "idle" /\ buf[s] \in Nat
  BY <1>1, <1>3 DEF TypeOK
<1>6. \A u \in Sinks : buf'[u] <= Small
  BY <1>2, <1>4, <1>5 DEF SizeInv
<1>7. \A i \in 1..Len(files) : Limit(i)' = Limit(i)
  BY <1>1, LimitSame
<1>8. files[j].size \in Nat /\ Limit(j) \in Nat
  BY <1>1, FileFacts, LimitNat
\* What was under way has room, wherever it goes.
<1>9. ASSUME files[j].name.time \notin purged
      PROVE  files'[j].size + buf'[s] <= Limit(j) /\ files'[j].size \in Nat
  <2>1. files[j].size + buf[s] + LargestChunk <= Limit(j)
    <3>1. Coming(s) = LargestChunk
      BY <1>3 DEF Coming
    <3>2. files[j].size + buf[s] + Coming(s) <= Limit(j)
      BY <1>1, <1>9 DEF SizeInv, j
    <3>3. QED BY <3>1, <3>2
  <2>2. CASE buf'[s] = buf[s] + n /\ files' = files
    BY <2>1, <2>2, <1>4, <1>5, <1>8
  <2>3. CASE buf'[s] = 0 /\ files'[j].size = files[j].size + (buf[s] + n)
    BY <2>1, <2>3, <1>4, <1>5, <1>8
  <2>4. QED BY <2>2, <2>3, <1>2
<1>10. ASSUME NEW i \in 1..Len(files)
       PROVE  /\ files'[i].opened >= 1
              /\ files'[i].name.time \notin purged => files'[i].size <= Limit(i)
  <2>1. CASE i # j
    BY <2>1, <1>1 DEF SizeInv
  <2>2. CASE i = j
    <3>1. files'[j].opened >= 1 /\ files'[j].name = files[j].name
      BY <1>1 DEF SizeInv
    <3>2. files[j].name.time \notin purged => files'[j].size <= Limit(j)
      BY <1>1, <1>8, <1>9
    <3>3. QED BY <2>2, <3>1, <3>2
  <2>3. QED BY <2>1, <2>2
<1>11. ASSUME NEW u \in Sinks, NEW i \in 1..Len(files)
       PROVE  ofs'[u] = i /\ files'[i].name.time \notin purged'
              => files'[i].size + buf'[u] + Coming(u)' <= Limit(i)'
  <2>1. CASE u = s
    <3> SUFFICES ASSUME ofs[s] = i, files'[i].name.time \notin purged
                 PROVE  files'[i].size + buf'[s] + Coming(s)' <= Limit(i)'
      BY <2>1, <1>3
    <3>1. i = j /\ files[j].name.time \notin purged
      BY <1>1 DEF j
    <3>2. Coming(s)' = 0
      BY <1>5 DEF Coming
    <3>3. Limit(i)' = Limit(i)
      BY <1>7
    <3>4. QED BY <3>1, <3>2, <3>3, <1>1, <1>9
  <2>2. CASE u # s
    <3> SUFFICES ASSUME ofs[u] = i
                 PROVE  files'[i].name.time \notin purged'
                        => files'[i].size + buf'[u] + Coming(u)' <= Limit(i)'
      BY <1>3
    <3>1. i # j
      BY <2>2, <1>1, OneWriter DEF j
    <3>2. QED BY <2>2, <3>1, <1>1, <1>3, <1>5, SizeOfOthers
  <2>3. QED BY <2>1, <2>2
<1>12. QED BY <1>1, <1>3, <1>6, <1>7, <1>10, <1>11 DEF SizeInv

LEMMA SizeClose ==
    ASSUME Inv, [Next]_vars, NEW s \in Sinks, Close(s)
    PROVE  SizeInv'
<1> USE DEF Inv
<1> DEFINE j == ofs[s]
<1>1. /\ Len(files') = Len(files)
      /\ \A i \in 1..Len(files) :
            /\ files'[i].name = files[i].name /\ files'[i].opened = files[i].opened
            /\ i # j => files'[i] = files[i]
      /\ j # 0 => files'[j].size = files[j].size + buf[s]
  BY CloseFacts
<1>2. /\ pc' = pc /\ purged' = purged
      /\ ofs' = [ofs EXCEPT ![s] = 0] /\ buf' = [buf EXCEPT ![s] = 0]
  BY DEF Close
<1>3. /\ \A u \in Sinks \ {s} : buf'[u] = buf[u] /\ ofs'[u] = ofs[u]
      /\ ofs'[s] = 0 /\ buf'[s] = 0 /\ buf[s] \in Nat /\ Len(files) \in Nat
      /\ j \in 0..Len(files)
  BY <1>2 DEF TypeOK
<1> HIDE DEF j
<1>4. \A u \in Sinks : buf'[u] <= Small
  BY <1>3, Room DEF SizeInv
<1>5. \A i \in 1..Len(files) : Limit(i)' = Limit(i)
  BY <1>1, LimitSame
<1>6. ASSUME NEW i \in 1..Len(files)
      PROVE  /\ files'[i].opened >= 1
             /\ files'[i].name.time \notin purged => files'[i].size <= Limit(i)
  <2>1. CASE i # j
    BY <2>1, <1>1 DEF SizeInv
  <2>2. CASE i = j
    <3>1. files'[i].opened >= 1 /\ files'[i].name = files[i].name
      BY <1>1 DEF SizeInv
    <3>2. files'[i].size = files[i].size + buf[s]
      BY <2>2, <1>1
    <3>3. files[i].name.time \notin purged => files[i].size + buf[s] + Coming(s) <= Limit(i)
      BY <2>2 DEF SizeInv, j
    <3>4. Coming(s) \in Nat
      BY Room DEF Coming
    <3>5. files[i].size \in Nat /\ Limit(i) \in Nat
      BY FileFacts, LimitNat
    <3>6. QED BY <3>1, <3>2, <3>3, <3>4, <3>5, <1>3
  <2>3. QED BY <2>1, <2>2
<1>7. ASSUME NEW u \in Sinks, NEW i \in 1..Len(files)
      PROVE  ofs'[u] = i /\ files'[i].name.time \notin purged'
             => files'[i].size + buf'[u] + Coming(u)' <= Limit(i)'
  <2>1. CASE u = s
    BY <2>1, <1>3
  <2>2. CASE u # s
    <3> SUFFICES ASSUME ofs'[u] = i
                 PROVE  files'[i].name.time \notin purged'
                        => files'[i].size + buf'[u] + Coming(u)' <= Limit(i)'
      OBVIOUS
    <3>1. ofs[u] = i /\ i # j
      BY <2>2, <1>3, OneWriter DEF j
    <3>2. QED BY <2>2, <3>1, <1>1, <1>2, <1>3, SizeOfOthers
  <2>3. QED BY <2>1, <2>2
<1>8. QED BY <1>1, <1>2, <1>4, <1>5, <1>6, <1>7 DEF SizeInv

LEMMA SizeStep ==
    ASSUME Inv, [Next]_vars
    PROVE  SizeInv'
<1>1. ASSUME NEW s \in Sinks, GetFilePath(s) \/ OpenFile(s) \/ WriteChunk(s) \/ Close(s)
      PROVE  SizeInv'
  BY <1>1, SizeGetFilePath, SizeOpenFile, SizeWriteChunk, SizeClose
<1>2. CASE Crash
  <2>1. /\ files' = files /\ purged' = purged
        /\ \A s \in Sinks : ofs'[s] = 0 /\ buf'[s] = 0
    BY <1>2 DEF Crash, dirVars
  <2>2. \A i \in 1..Len(files) : Limit(i)' = Limit(i)
    BY <2>1, LimitSame
  <2>3. QED BY <2>1, <2>2, Room DEF Inv, SizeInv
<1>3. CASE EliminateFiles \/ Tick \/ UNCHANGED vars
  <2>1. UNCHANGED <<files, ofs, buf, pc>> /\ purged \subseteq purged'
    BY <1>3 DEF EliminateFiles, List, Keep, RemoveFile, Return, Tick, vars, dirVars, sinkVars
  <2>2. \A i \in 1..Len(files) : Limit(i)' = Limit(i)
    BY <2>1, LimitSame
  <2>3. \A s \in Sinks, i \in 1..Len(files) :
           ofs'[s] = i /\ files'[i].name.time \notin purged'
           => files'[i].size + buf'[s] + Coming(s)' <= Limit(i)'
    BY <2>1, SizeOfOthers
  <2>4. QED BY <2>1, <2>2, <2>3 DEF Inv, SizeInv
<1>4. QED BY <1>1, <1>2, <1>3 DEF Next

-----------------------------------------------------------------------------
(* Sums                                                                       *)

\* Induction, of which a set tells for what it holds.
LEMMA Induction ==
    ASSUME NEW T, 0 \in T, \A n \in Nat : n \in T => n + 1 \in T
    PROVE  Nat \subseteq T
<1> DEFINE R == OpToRel(<, Nat)
           D == Nat \ T
<1>1. IsWellFoundedOn(R, Nat)
  BY NatLessThanWellFounded
<1>2. \A x, y \in Nat : y < x => <<y, x>> \in R
  BY DEF OpToRel
<1>3. SUFFICES ASSUME D # {} PROVE FALSE
  OBVIOUS
<1>4. D \subseteq Nat
  OBVIOUS
<1> HIDE DEF R, D
<1>5. PICK x \in D : \A y \in D : ~(<<y, x>> \in R)
  BY <1>1, <1>3, <1>4, WFMin
<1>6. x \in Nat /\ x \notin T
  BY DEF D
<1>7. x # 0 /\ x - 1 \in Nat /\ x - 1 < x /\ (x - 1) + 1 = x
  BY <1>6
<1>8. x - 1 \notin T
  BY <1>6, <1>7
<1>9. x - 1 \in D
  BY <1>7, <1>8 DEF D
<1>10. QED BY <1>2, <1>5, <1>6, <1>7, <1>9

\* What the definition of SumUpTo says of sum[n].
Plus(c, f, n) == IF n = 0 THEN 0 ELSE f[n - 1] + c[n]

\* There is such a function: one for fewer numbers can be extended.
LEMMA SumExists ==
    ASSUME NEW c, NEW m \in Nat
    PROVE  \E f : f = [n \in 0..m |-> Plus(c, f, n)]
<1> DEFINE T == {k \in Nat : \E f : f = [n \in 0..k |-> Plus(c, f, n)]}
<1>1. 0 \in T
  <2> DEFINE f == [n \in {0} |-> 0]
  <2>1. 0..0 = {0}
    OBVIOUS
  <2>2. f = [n \in 0..0 |-> Plus(c, f, n)]
    BY <2>1 DEF Plus
  <2>3. QED BY <2>2
<1>2. ASSUME NEW k \in Nat, k \in T
      PROVE  k + 1 \in T
  <2>1. PICK f : f = [n \in 0..k |-> Plus(c, f, n)]
    BY <1>2
  <2> DEFINE g == [n \in 0..k + 1 |-> IF n = k + 1 THEN Plus(c, f, k + 1) ELSE f[n]]
  <2>2. ASSUME NEW n \in 0..k + 1
        PROVE  g[n] = Plus(c, g, n)
    <3>1. n # 0 => n - 1 \in 0..k /\ n - 1 \in 0..k + 1 /\ n - 1 # k + 1
      OBVIOUS
    <3>2. n # 0 => g[n - 1] = f[n - 1]
      BY <3>1
    <3>3. Plus(c, g, n) = Plus(c, f, n)
      BY <3>2 DEF Plus
    <3>4. n # k + 1 => n \in 0..k
      OBVIOUS
    <3>5. n # k + 1 => f[n] = Plus(c, f, n)
      BY <2>1, <3>4
    <3>6. QED BY <3>3, <3>5
  <2>3. g = [n \in 0..k + 1 |-> g[n]]
    OBVIOUS
  <2> HIDE DEF g
  <2>4. g = [n \in 0..k + 1 |-> Plus(c, g, n)]
    BY <2>2, <2>3
  <2>5. QED BY <2>4
<1> HIDE DEF T
<1>3. Nat \subseteq T
  BY <1>1, <1>2, Induction
<1>4. m \in T
  BY <1>3
<1>5. QED BY <1>4 DEF T

LEMMA SumIs ==
    ASSUME NEW c \in Seq(Nat)
    PROVE  /\ SumUpTo(c)[0] = 0
           /\ \A n \in 1..Len(c) : SumUpTo(c)[n] = SumUpTo(c)[n - 1] + c[n]
<1> DEFINE P(f) == f = [n \in 0..Len(c) |-> Plus(c, f, n)]
           f == SumUpTo(c)
<1>1. Len(c) \in Nat
  OBVIOUS
<1>2. \E g : P(g)
  BY <1>1, SumExists
<1>3. f = CHOOSE g : P(g)
  BY DEF SumUpTo, Plus
<1>4. P(f)
  BY <1>2, <1>3
<1> HIDE DEF f
<1>5. \A n \in 0..Len(c) : f[n] = Plus(c, f, n)
  BY <1>4
<1>6. f[0] = 0
  BY <1>1, <1>5 DEF Plus
<1>7. \A n \in 1..Len(c) : f[n] = f[n - 1] + c[n]
  BY <1>1, <1>5 DEF Plus
<1>8. QED BY <1>6, <1>7 DEF f

LEMMA Adds ==
    ASSUME NEW a \in Nat, NEW b \in Nat, NEW x \in Nat, NEW y \in Nat, a <= b, x <= y
    PROVE  a + x \in Nat /\ b + y \in Nat /\ a + x <= b + y
  OBVIOUS

\* Larger numbers have a larger sum.
LEMMA SumGrows ==
    ASSUME NEW c \in Seq(Nat), NEW d \in Seq(Nat), NEW m \in Nat,
           m <= Len(c), m <= Len(d), \A n \in 1..m : c[n] <= d[n]
    PROVE  /\ SumUpTo(c)[m] \in Nat /\ SumUpTo(d)[m] \in Nat
           /\ SumUpTo(c)[m] <= SumUpTo(d)[m]
<1> DEFINE f == SumUpTo(c)
           g == SumUpTo(d)
           T == {k \in Nat : k <= m => f[k] \in Nat /\ g[k] \in Nat /\ f[k] <= g[k]}
<1>1. f[0] = 0 /\ \A n \in 1..Len(c) : f[n] = f[n - 1] + c[n]
  BY SumIs
<1>2. g[0] = 0 /\ \A n \in 1..Len(d) : g[n] = g[n - 1] + d[n]
  BY SumIs
<1>3. \A n \in 1..m : c[n] \in Nat /\ d[n] \in Nat /\ n \in 1..Len(c) /\ n \in 1..Len(d)
  OBVIOUS
<1> HIDE DEF f, g
<1>4. 0 \in T
  BY <1>1, <1>2
<1>5. ASSUME NEW k \in Nat, k <= m => f[k] \in Nat /\ g[k] \in Nat /\ f[k] <= g[k], k + 1 <= m
      PROVE  f[k + 1] \in Nat /\ g[k + 1] \in Nat /\ f[k + 1] <= g[k + 1]
  <2>1. /\ f[k] \in Nat /\ g[k] \in Nat /\ f[k] <= g[k]
        /\ k + 1 \in 1..m /\ (k + 1) - 1 = k
    BY <1>5
  <2>2. c[k + 1] \in Nat /\ d[k + 1] \in Nat /\ c[k + 1] <= d[k + 1]
    BY <1>3, <2>1
  <2>3. f[k + 1] = f[k] + c[k + 1] /\ g[k + 1] = g[k] + d[k + 1]
    BY <1>1, <1>2, <1>3, <2>1
  <2>4. /\ f[k] + c[k + 1] \in Nat /\ g[k] + d[k + 1] \in Nat
        /\ f[k] + c[k + 1] <= g[k] + d[k + 1]
    BY <2>1, <2>2, Adds
  <2>5. QED BY <2>3, <2>4
<1>6. \A k \in Nat : k \in T => k + 1 \in T
  BY <1>5
<1> HIDE DEF T
<1>7. m \in T
  BY <1>4, <1>6, Induction
<1>8. QED BY <1>7 DEF T, f, g

-----------------------------------------------------------------------------
(* Places in the directory                                                    *)

\* a is in front of b.
Before(r, a, b) == \E p, q \in 1..Len(r) : q < p /\ r[q] = a /\ r[p] = b

Distinct(r) == \A a \in Elems(r) : ~Before(r, a, a)

\* In front of a file that a sink made and has open there are files of other
\* sinks only.  fs and o are the values of files and ofs.
Leads(r, fs, o) ==
    \A s \in Sinks, a \in Elems(r) :
        o[s] # 0 /\ Before(r, a, o[s]) /\ fs[o[s]].opened = 1 => fs[a].name.flag # s

PlaceInv ==
    /\ Distinct(recent) /\ Leads(recent, files, ofs)
    /\ Distinct(listing) /\ Leads(listing, files, ofs)

\* What has been added up is no more than the files that have been seen.
SumInv == cur_total_size <= SumUpTo(Bytes(listing, Sinks))[visited]

LEMMA BeforeElems ==
    ASSUME NEW r, NEW a, NEW b, Before(r, a, b)
    PROVE  a \in Elems(r) /\ b \in Elems(r)
  BY DEF Before, Elems

LEMMA WithoutBefore ==
    ASSUME NEW S, NEW r \in Seq(S), NEW i \in Elems(r), NEW a, NEW b,
           Before(Without(r, i), a, b)
    PROVE  Before(r, a, b)
<1>1. PICK k \in 1..Len(r) : /\ r[k] = i /\ Len(Without(r, i)) = Len(r) - 1
                             /\ \A j \in 1..Len(r) - 1 :
                                   Without(r, i)[j] = IF j < k THEN r[j] ELSE r[j + 1]
  BY WithoutIs
<1>2. PICK p, q \in 1..Len(r) - 1 : q < p /\ Without(r, i)[q] = a /\ Without(r, i)[p] = b
  BY <1>1 DEF Before
<1> DEFINE P == IF p < k THEN p ELSE p + 1
           Q == IF q < k THEN q ELSE q + 1
<1>3. Len(r) \in Nat
  OBVIOUS
<1>4. P \in 1..Len(r) /\ Q \in 1..Len(r) /\ Q < P
  BY <1>2, <1>3
<1>5. r[Q] = a /\ r[P] = b
  BY <1>1, <1>2
<1>6. QED BY <1>4, <1>5 DEF Before

LEMMA WithoutGone ==
    ASSUME NEW S, NEW r \in Seq(S), NEW i \in Elems(r), Distinct(r)
    PROVE  i \notin Elems(Without(r, i))
<1>1. PICK k \in 1..Len(r) : /\ r[k] = i /\ Len(Without(r, i)) = Len(r) - 1
                             /\ \A j \in 1..Len(r) - 1 :
                                   Without(r, i)[j] = IF j < k THEN r[j] ELSE r[j + 1]
  BY WithoutIs
<1> SUFFICES ASSUME NEW j \in 1..Len(r) - 1, Without(r, i)[j] = i PROVE FALSE
  BY <1>1 DEF Elems
<1>2. Len(r) \in Nat
  OBVIOUS
<1>3. PICK l \in 1..Len(r) : l # k /\ r[l] = i
  <2>1. CASE j < k
    BY <1>1, <1>2, <2>1
  <2>2. CASE ~(j < k)
    <3>1. j + 1 \in 1..Len(r) /\ j + 1 # k /\ r[j + 1] = i
      BY <1>1, <1>2, <2>2
    <3>2. QED BY <3>1
  <2>3. QED BY <2>1, <2>2
<1>4. l < k \/ k < l
  BY <1>2, <1>3
<1>5. Before(r, i, i)
  BY <1>1, <1>3, <1>4 DEF Before
<1>6. QED BY <1>5 DEF Distinct

\* A file that is put in front is before all others.
LEMMA FrontBefore ==
    ASSUME NEW S, NEW r \in Seq(S), NEW i \in S, NEW a, NEW b, Before(<<i>> \o r, a, b)
    PROVE  b \in Elems(r) /\ (a = i \/ Before(r, a, b))
<1> DEFINE c == <<i>> \o r
<1>1. /\ Len(c) = Len(r) + 1 /\ Len(r) \in Nat /\ c[1] = i
      /\ \A j \in 1..Len(r) : c[j + 1] = r[j]
  OBVIOUS
<1> HIDE DEF c
<1>2. PICK p, q \in 1..Len(r) + 1 : q < p /\ c[q] = a /\ c[p] = b
  BY <1>1 DEF Before, c
<1>3. p - 1 \in 1..Len(r) /\ r[p - 1] = b
  <2>1. p - 1 \in 1..Len(r) /\ (p - 1) + 1 = p
    BY <1>1, <1>2
  <2>2. QED BY <1>1, <1>2, <2>1
<1>4. b \in Elems(r)
  BY <1>3 DEF Elems
<1>5. CASE q = 1
  BY <1>1, <1>2, <1>4, <1>5
<1>6. CASE q # 1
  <2>1. q - 1 \in 1..Len(r) /\ (q - 1) + 1 = q /\ q - 1 < p - 1
    BY <1>1, <1>2, <1>6
  <2>2. r[q - 1] = a
    BY <1>1, <1>2, <2>1
  <2>3. QED BY <1>3, <1>4, <2>1, <2>2 DEF Before
<1>7. QED BY <1>5, <1>6
\* A file that is taken out leaves the places of the others.
LEMMA LeadsWithout ==
    ASSUME NEW S, NEW r \in Seq(S), NEW i \in Elems(r), NEW fs, NEW o,
           Distinct(r), Leads(r, fs, o)
    PROVE  Distinct(Without(r, i)) /\ Leads(Without(r, i), fs, o)
<1>1. \A a, b : Before(Without(r, i), a, b) => Before(r, a, b)
  BY WithoutBefore
<1>2. Elems(Without(r, i)) \subseteq Elems(r)
  BY WithoutElems
<1>3. Distinct(Without(r, i))
  BY <1>1, <1>2 DEF Distinct
<1>4. Leads(Without(r, i), fs, o)
  BY <1>1, <1>2 DEF Leads
<1>5. QED BY <1>3, <1>4

\* A file that a sink writes to comes before the files of the others only.
LEMMA LeadsTouch ==
    ASSUME NEW n \in Nat, NEW r \in Seq(1..n), NEW fs, NEW o, NEW s \in Sinks,
           o[s] \in 1..n, fs[o[s]].name.flag = s, Distinct(r), Leads(r, fs, o)
    PROVE  Distinct(Touch(r, o[s])) /\ Leads(Touch(r, o[s]), fs, o)
<1> DEFINE i == o[s]
           w == Without(r, i)
           c == <<i>> \o w
<1>1. CASE i \notin Elems(r)
  BY <1>1 DEF Touch
<1>2. CASE i \in Elems(r)
  <2>1. w \in Seq(1..n)
    BY <1>2, WithoutElems
  <2>2. i \notin Elems(w)
    BY <1>2, WithoutGone
  <2>3. Distinct(w) /\ Leads(w, fs, o)
    BY <1>2, LeadsWithout
  <2>4. Touch(r, i) = c
    BY <1>2 DEF Touch
  <2> HIDE DEF w
  <2>5. \A a, b : Before(c, a, b) => b \in Elems(w) /\ (a = i \/ Before(w, a, b))
    BY <2>1, FrontBefore
  <2>6. \A a, b : Before(w, a, b) => a \in Elems(w)
    BY BeforeElems
  <2> HIDE DEF c
  <2>7. Distinct(c)
    BY <2>2, <2>3, <2>5, <2>6 DEF Distinct
  <2>8. ASSUME NEW u \in Sinks, NEW a, o[u] # 0, Before(c, a, o[u]), fs[o[u]].opened = 1
        PROVE  fs[a].name.flag # u
    <3>1. CASE a = i
      <4>1. u # s
        BY <2>2, <2>5, <2>8, <3>1
      <4>2. QED BY <3>1, <4>1
    <3>2. CASE Before(w, a, o[u])
      BY <2>3, <2>6, <2>8, <3>2 DEF Leads
    <3>3. QED BY <2>5, <2>8, <3>1, <3>2
  <2>9. Leads(c, fs, o)
    BY <2>8 DEF Leads
  <2>10. QED BY <2>4, <2>7, <2>9
<1>3. QED BY <1>1, <1>2

\* So does a new one.
LEMMA LeadsCreate ==
    ASSUME NEW n \in Nat, NEW r \in Seq(1..n), NEW fs, NEW o, NEW s \in Sinks,
           o[s] = n + 1, fs[n + 1].name.flag = s, Distinct(r), Leads(r, fs, o)
    PROVE  Distinct(<<n + 1>> \o r) /\ Leads(<<n + 1>> \o r, fs, o)
<1> DEFINE c == <<n + 1>> \o r
<1>1. n + 1 \notin Elems(r)
  <2>1. Elems(r) \subseteq 1..n
    BY ElemsIn
  <2>2. QED BY <2>1
<1>2. \A a, b : Before(c, a, b) => b \in Elems(r) /\ (a = n + 1 \/ Before(r, a, b))
  <2>1. r \in Seq(1..n + 1) /\ n + 1 \in 1..n + 1
    <3>1. 1..n \subseteq 1..n + 1 /\ n + 1 \in 1..n + 1
      OBVIOUS
    <3>2. QED BY <3>1, SeqMonotonic
  <2>2. QED BY <2>1, FrontBefore
<1>3. \A a, b : Before(r, a, b) => a \in Elems(r)
  BY BeforeElems
<1> HIDE DEF c
<1>4. Distinct(c)
  BY <1>1, <1>2, <1>3 DEF Distinct
<1>5. ASSUME NEW u \in Sinks, NEW a, o[u] # 0, Before(c, a, o[u]), fs[o[u]].opened = 1
      PROVE  fs[a].name.flag # u
  <2>1. CASE a = n + 1
    <3>1. u # s
      BY <1>1, <1>2, <1>5, <2>1
    <3>2. QED BY <2>1, <3>1
  <2>2. CASE Before(r, a, o[u])
    BY <1>3, <1>5, <2>2 DEF Leads
  <2>3. QED BY <1>2, <1>5, <2>1, <2>2
<1>6. Leads(c, fs, o)
  BY <1>5 DEF Leads
<1>7. QED BY <1>4, <1>6 DEF c

\* The places stay when no file is renamed and no other one is made and opened.
LEMMA LeadsKept ==
    ASSUME NEW n \in Nat, NEW r \in Seq(1..n), NEW fs, NEW o, NEW gs, NEW v,
           Leads(r, fs, o), \A i \in 1..n : gs[i].name = fs[i].name,
           \A u \in Sinks : \/ v[u] = 0 \/ v[u] \notin 1..n \/ gs[v[u]].opened # 1
                            \/ v[u] = o[u] /\ fs[o[u]].opened = 1
    PROVE  Leads(r, gs, v)
<1> SUFFICES ASSUME NEW u \in Sinks, NEW a \in Elems(r),
                    v[u] # 0, Before(r, a, v[u]), gs[v[u]].opened = 1
             PROVE  gs[a].name.flag # u
  BY DEF Leads
<1>1. Elems(r) \subseteq 1..n
  BY ElemsIn
<1>2. v[u] \in 1..n
  BY <1>1, BeforeElems
<1>3. v[u] = o[u] /\ fs[o[u]].opened = 1
  BY <1>2
<1>4. fs[a].name.flag # u
  BY <1>3 DEF Leads
<1>5. QED BY <1>1, <1>4

\* close() moves the old file of the sink to the front, or nothing.
LEMMA ClosedPlaces ==
    ASSUME TypeOK, NamedInv, PlaceInv, NEW s \in Sinks
    PROVE  Distinct(Closed(s).rs) /\ Leads(Closed(s).rs, files, ofs)
<1>1. CASE ofs[s] = 0 \/ buf[s] = 0
  BY <1>1 DEF Closed, PlaceInv
<1>2. CASE ~(ofs[s] = 0 \/ buf[s] = 0)
  <2>1. ofs[s] \in 1..Len(files) /\ Len(files) \in Nat /\ recent \in Seq(1..Len(files))
    BY <1>2 DEF TypeOK
  <2>2. files[ofs[s]].name.flag = s
    BY <1>2 DEF NamedInv
  <2>3. Closed(s).rs = Touch(recent, ofs[s])
    BY <1>2 DEF Closed
  <2>4. QED BY <2>1, <2>2, <2>3, LeadsTouch DEF PlaceInv
<1>3. QED BY <1>1, <1>2

\* The listing is a copy of the directory, which may be newer.
LEMMA ListingStep ==
    ASSUME TypeOK, PlaceInv, SizeInv, [Next]_vars
    PROVE  Distinct(listing') /\ Leads(listing', files', ofs')
<1>1. /\ listing \in Seq(1..Len(files)) /\ recent \in Seq(1..Len(files)) /\ Len(files) \in Nat
      /\ ofs \in [Sinks -> 0..Len(files)]
  BY DEF TypeOK
<1>2. Distinct(<<>>) /\ Leads(<<>>, files', ofs')
  BY DEF Distinct, Leads, Elems
<1>3. ASSUME UNCHANGED listing, \A i \in 1..Len(files) : files'[i].name = files[i].name,
             \A u \in Sinks : \/ ofs'[u] = 0 \/ ofs'[u] \notin 1..Len(files)
                              \/ files'[ofs'[u]].opened # 1
                              \/ ofs'[u] = ofs[u] /\ files[ofs[u]].opened = 1
      PROVE  Distinct(listing') /\ Leads(listing', files', ofs')
  <2>1. Leads(listing, files', ofs')
    BY <1>1, <1>3, LeadsKept DEF PlaceInv
  <2>2. QED BY <1>3, <2>1 DEF PlaceInv
<1>4. ASSUME NEW s \in Sinks, OpenFile(s)
      PROVE  Distinct(listing') /\ Leads(listing', files', ofs')
  <2>1. /\ ofs' = [ofs EXCEPT ![s] = ofs'[s]]
        /\ \A i \in 1..Len(files) :
              /\ files'[i].name = files[i].name
              /\ i # ofs'[s] => files'[i].opened = files[i].opened
        /\ \/ ofs'[s] \in InDir /\ files'[ofs'[s]].opened = files[ofs'[s]].opened + 1
           \/ ofs'[s] = Len(files) + 1
    BY <1>4, OpenFacts
  <2>2. ofs'[s] \notin 1..Len(files) \/ files'[ofs'[s]].opened # 1
    <3>1. CASE ofs'[s] \in InDir /\ files'[ofs'[s]].opened = files[ofs'[s]].opened + 1
      <4>1. files[ofs'[s]].opened >= 1 /\ files[ofs'[s]].opened \in Nat
        BY <3>1, InDirFacts, FileFacts DEF SizeInv
      <4>2. QED BY <3>1, <4>1
    <3>2. QED BY <1>1, <2>1, <3>1
  <2>3. ASSUME NEW u \in Sinks, ofs'[u] \in 1..Len(files), files'[ofs'[u]].opened = 1
        PROVE  ofs'[u] = ofs[u] /\ files[ofs[u]].opened = 1
    <3>1. ofs'[u] # ofs'[s] /\ u # s
      BY <2>2, <2>3
    <3>2. ofs'[u] = ofs[u]
      BY <1>1, <2>1, <3>1
    <3>3. QED BY <2>1, <2>3, <3>1, <3>2
  <2>4. UNCHANGED listing
    BY <1>4 DEF OpenFile, walkVars
  <2>5. QED BY <1>3, <2>1, <2>3, <2>4
<1>5. ASSUME UNCHANGED listing, Len(files') = Len(files),
             \A i \in 1..Len(files) : /\ files'[i].name = files[i].name
                                      /\ files'[i].opened = files[i].opened,
             \A u \in Sinks : ofs'[u] = ofs[u] \/ ofs'[u] = 0
      PROVE  Distinct(listing') /\ Leads(listing', files', ofs')
  BY <1>1, <1>3, <1>5
<1>6. ASSUME NEW s \in Sinks, GetFilePath(s) \/ WriteChunk(s) \/ Close(s)
      PROVE  Distinct(listing') /\ Leads(listing', files', ofs')
  <2>1. /\ Len(files') = Len(files)
        /\ \A i \in 1..Len(files) : /\ files'[i].name = files[i].name
                                    /\ files'[i].opened = files[i].opened
    BY <1>6, WriteFacts, CloseFacts DEF GetFilePath, dirVars
  <2>2. UNCHANGED listing /\ \A u \in Sinks : ofs'[u] = ofs[u] \/ ofs'[u] = 0
    BY <1>1, <1>6 DEF GetFilePath, WriteChunk, Close, walkVars
  <2>3. QED BY <1>5, <2>1, <2>2
<1>7. CASE Crash \/ Return
  BY <1>2, <1>7 DEF Crash, Return
<1>8. CASE List
  BY <1>8 DEF List, NewestFirst, PlaceInv, dirVars, sinkVars
<1>9. CASE Keep \/ RemoveFile \/ Tick \/ UNCHANGED vars
  BY <1>9 DEF Keep, RemoveFile, Tick, vars, dirVars, sinkVars, walkVars, PlaceInv
<1>10. QED BY <1>4, <1>6, <1>7, <1>8, <1>9 DEF Next, EliminateFiles

LEMMA PlaceStep ==
    ASSUME TypeOK, NamedInv, PlaceInv, SizeInv, [Next]_vars
    PROVE  PlaceInv'
<1>1. /\ recent \in Seq(1..Len(files)) /\ Len(files) \in Nat
      /\ ofs \in [Sinks -> 0..Len(files)]
  BY DEF TypeOK
<1> SUFFICES Distinct(recent') /\ Leads(recent', files', ofs')
  BY ListingStep DEF PlaceInv
<1>2. ASSUME NEW r \in Seq(1..Len(files)), Leads(r, files, ofs),
             \A i \in 1..Len(files) : /\ files'[i].name = files[i].name
                                      /\ files'[i].opened = files[i].opened,
             \A u \in Sinks : ofs'[u] = ofs[u] \/ ofs'[u] = 0
      PROVE  Leads(r, files', ofs')
  <2>1. \A u \in Sinks : \/ ofs'[u] = 0 \/ ofs'[u] \notin 1..Len(files)
                         \/ files'[ofs'[u]].opened # 1
                         \/ ofs'[u] = ofs[u] /\ files[ofs[u]].opened = 1
    BY <1>1, <1>2
  <2>2. \A i \in 1..Len(files) : files'[i].name = files[i].name
    BY <1>2
  <2>3. QED BY <1>1, <1>2, <2>1, <2>2, LeadsKept, SMTT(60)
<1>3. ASSUME NEW s \in Sinks, OpenFile(s)
      PROVE  Distinct(recent') /\ Leads(recent', files', ofs')
  <2> DEFINE rs == Closed(s).rs
  <2>1. Distinct(rs) /\ Leads(rs, files, ofs) /\ rs \in Seq(1..Len(files))
    BY ClosedPlaces, ClosedFacts
  <2>2. /\ ofs' = [ofs EXCEPT ![s] = ofs'[s]]
        /\ \A i \in 1..Len(files) :
              /\ files'[i].name = files[i].name
              /\ i # ofs'[s] => files'[i].opened = files[i].opened
        /\ files'[ofs'[s]].name = file_path[s]
        /\ \/ /\ ofs'[s] \in InDir /\ Len(files') = Len(files)
              /\ files'[ofs'[s]].opened = files[ofs'[s]].opened + 1
           \/ ofs'[s] = Len(files) + 1 /\ Len(files') = Len(files) + 1
    BY <1>3, OpenFacts
  <2>3. ofs'[s] \notin 1..Len(files) \/ files'[ofs'[s]].opened # 1
    <3>1. CASE ofs'[s] \in InDir /\ files'[ofs'[s]].opened = files[ofs'[s]].opened + 1
      <4>1. files[ofs'[s]].opened >= 1 /\ files[ofs'[s]].opened \in Nat
        BY <3>1, InDirFacts, FileFacts DEF SizeInv
      <4>2. QED BY <3>1, <4>1
    <3>2. QED BY <1>1, <2>2, <3>1
  <2>4. ASSUME NEW u \in Sinks, ofs'[u] \in 1..Len(files), files'[ofs'[u]].opened = 1
        PROVE  ofs'[u] = ofs[u] /\ files[ofs[u]].opened = 1
    <3>1. ofs'[u] # ofs'[s] /\ u # s
      BY <2>3, <2>4
    <3>2. ofs'[u] = ofs[u]
      BY <1>1, <2>2, <3>1
    <3>3. QED BY <2>2, <2>4, <3>1, <3>2
  <2>5. Leads(rs, files', ofs')
    <3>1. \A i \in 1..Len(files) : files'[i].name = files[i].name
      BY <2>2
    <3>2. \A u \in Sinks : \/ ofs'[u] = 0 \/ ofs'[u] \notin 1..Len(files)
                           \/ files'[ofs'[u]].opened # 1
                           \/ ofs'[u] = ofs[u] /\ files[ofs[u]].opened = 1
      BY <2>4
    <3> HIDE DEF rs
    <3>3. QED BY <1>1, <2>1, <3>1, <3>2, LeadsKept, SMTT(60)
  <2>6. file_path[s].flag = s
    BY <1>3 DEF OpenFile, NamedInv
  <2> HIDE DEF rs
  <2>7. CASE recent' = rs
    BY <2>1, <2>5, <2>7
  <2>8. CASE recent' # rs
    <3>1. recent' = <<Len(files')>> \o rs /\ ofs'[s] = Len(files')
      <4>1. CASE Lookup(file_path[s]) = 0
        BY <1>1, <1>3, <4>1 DEF OpenFile, rs
      <4>2. CASE Lookup(file_path[s]) # 0
        BY <1>3, <2>8, <4>2 DEF OpenFile, rs
      <4>3. QED BY <4>1, <4>2
    <3>2. ofs'[s] = Len(files) + 1 /\ Len(files') = Len(files) + 1
      <4>1. CASE Lookup(file_path[s]) = 0
        <5>1. Len(files') = Len(Closed(s).fs) + 1
          BY <1>3, <4>1, ClosedFacts DEF OpenFile
        <5>2. QED BY <1>1, <2>2, <5>1, ClosedFacts
      <4>2. CASE Lookup(file_path[s]) # 0
        BY <1>3, <2>8, <4>2 DEF OpenFile, rs
      <4>3. QED BY <4>1, <4>2
    <3>3. files'[Len(files) + 1].name.flag = s
      BY <2>2, <2>6, <3>2
    <3>4. QED BY <1>1, <2>1, <2>5, <3>1, <3>2, <3>3, LeadsCreate
  <2>9. QED BY <2>7, <2>8
<1>4. ASSUME NEW s \in Sinks, WriteChunk(s)
      PROVE  Distinct(recent') /\ Leads(recent', files', ofs')
  <2>1. /\ ofs[s] \in 1..Len(files)
        /\ \A i \in 1..Len(files) :
              files'[i].name = files[i].name /\ files'[i].opened = files[i].opened
    BY <1>4, WriteFacts
  <2>2. ofs' = ofs /\ (recent' = recent \/ recent' = Touch(recent, ofs[s]))
    BY <1>4 DEF WriteChunk, dirVars
  <2>3. files[ofs[s]].name.flag = s
    BY <1>1, <2>1 DEF NamedInv
  <2>4. /\ Distinct(Touch(recent, ofs[s])) /\ Leads(Touch(recent, ofs[s]), files, ofs)
        /\ Touch(recent, ofs[s]) \in Seq(1..Len(files))
    BY <1>1, <2>1, <2>3, LeadsTouch, TouchElems DEF PlaceInv
  <2>5. QED BY <1>1, <1>2, <2>1, <2>2, <2>4 DEF PlaceInv
<1>5. ASSUME NEW s \in Sinks, Close(s)
      PROVE  Distinct(recent') /\ Leads(recent', files', ofs')
  <2>1. \A i \in 1..Len(files) :
            files'[i].name = files[i].name /\ files'[i].opened = files[i].opened
    BY <1>5, CloseFacts
  <2>2. recent' = Closed(s).rs /\ \A u \in Sinks : ofs'[u] = ofs[u] \/ ofs'[u] = 0
    BY <1>1, <1>5 DEF Close
  <2>3. /\ Distinct(Closed(s).rs) /\ Leads(Closed(s).rs, files, ofs)
        /\ Closed(s).rs \in Seq(1..Len(files))
    BY ClosedPlaces, ClosedFacts
  <2>4. QED BY <1>2, <2>1, <2>2, <2>3
<1>6. CASE RemoveFile
  <2>1. UNCHANGED <<files, ofs>>
    BY <1>6 DEF RemoveFile, sinkVars
  <2>2. CASE Visited \in InDir
    <3>1. recent' = Without(recent, Visited)
      BY <1>6, <2>2 DEF RemoveFile
    <3>2. QED BY <1>1, <2>1, <2>2, <3>1, LeadsWithout DEF PlaceInv, InDir
  <2>3. CASE Visited \notin InDir
    BY <1>6, <2>1, <2>3 DEF RemoveFile, PlaceInv
  <2>4. QED BY <2>2, <2>3
<1>7. CASE \/ \E s \in Sinks : GetFilePath(s)
           \/ Crash \/ List \/ Keep \/ Return \/ Tick \/ UNCHANGED vars
  <2>1. UNCHANGED <<files, recent>>
    BY <1>7 DEF GetFilePath, Crash, List, Keep, Return, Tick, vars, dirVars
  <2>2. \A u \in Sinks : ofs'[u] = ofs[u] \/ ofs'[u] = 0
    BY <1>7 DEF GetFilePath, Crash, List, Keep, Return, Tick, vars, sinkVars
  <2>3. QED BY <1>1, <1>2, <2>1, <2>2 DEF PlaceInv
<1>8. QED BY <1>3, <1>4, <1>5, <1>6, <1>7 DEF Next, EliminateFiles

\* Bytes, of any values of files.
BytesOf(r, fs, S) == [k \in 1..Len(r) |-> IF fs[r[k]].name.flag \in S THEN fs[r[k]].size ELSE 0]

LEMMA BytesNat ==
    ASSUME NEW fs \in Seq(FileRecords), NEW n \in Nat, n <= Len(fs), NEW r \in Seq(1..n), NEW S
    PROVE  /\ BytesOf(r, fs, S) \in Seq(Nat) /\ Len(BytesOf(r, fs, S)) = Len(r)
           /\ \A k \in 1..Len(r) :
                 /\ r[k] \in 1..n
                 /\ BytesOf(r, fs, S)[k] = IF fs[r[k]].name.flag \in S THEN fs[r[k]].size ELSE 0
<1>1. \A i \in 1..n : fs[i].size \in Nat
  <2>1. \A i \in 1..n : i \in 1..Len(fs)
    OBVIOUS
  <2>2. \A i \in 1..n : fs[i] \in FileRecords
    BY <2>1
  <2>3. QED BY <2>2 DEF FileRecords
<1>2. \A k \in 1..Len(r) : r[k] \in 1..n
  OBVIOUS
<1>3. \A k \in 1..Len(r) : (IF fs[r[k]].name.flag \in S THEN fs[r[k]].size ELSE 0) \in Nat
  BY <1>1, <1>2
<1>4. Len(r) \in Nat
  OBVIOUS
<1>5. BytesOf(r, fs, S) \in Seq(Nat) /\ Len(BytesOf(r, fs, S)) = Len(r)
  BY <1>3, <1>4 DEF BytesOf
<1>6. QED BY <1>2, <1>5 DEF BytesOf

\* No step makes a file shorter.
LEMMA FilesGrow ==
    ASSUME TypeOK, [Next]_vars, NEW i \in 1..Len(files)
    PROVE  files'[i].name = files[i].name /\ files'[i].size >= files[i].size
<1>1. files[i].size \in Nat
  BY FileFacts
<1>2. \A s \in Sinks : buf[s] \in Nat /\ \A n \in ChunkSizes : buf[s] + n \in Nat
  <2>1. \A s \in Sinks : buf[s] \in Nat
    BY DEF TypeOK
  <2>2. \A n \in ChunkSizes : n \in Nat
    BY FilesAssumption
  <2>3. QED BY <2>1, <2>2
<1>3. ASSUME NEW s \in Sinks, OpenFile(s)
      PROVE  files'[i].name = files[i].name /\ files'[i].size >= files[i].size
  <2>1. /\ files'[i].name = files[i].name
        /\ i # ofs[s] => files'[i].size = files[i].size
        /\ i = ofs[s] => files'[i].size = files[i].size + buf[s]
    BY <1>3, OpenFacts
  <2>2. QED BY <1>1, <1>2, <2>1
<1>4. ASSUME NEW s \in Sinks, WriteChunk(s)
      PROVE  files'[i].name = files[i].name /\ files'[i].size >= files[i].size
  <2>1. PICK n \in ChunkSizes :
            \/ files' = files
            \/ files'[ofs[s]].size = files[ofs[s]].size + (buf[s] + n)
    BY <1>4, WriteFacts
  <2>2. files'[i].name = files[i].name /\ (i # ofs[s] => files'[i] = files[i])
    BY <1>4, WriteFacts
  <2>3. QED BY <1>1, <1>2, <2>1, <2>2
<1>5. ASSUME NEW s \in Sinks, Close(s)
      PROVE  files'[i].name = files[i].name /\ files'[i].size >= files[i].size
  <2>1. /\ files'[i].name = files[i].name
        /\ i # ofs[s] => files'[i] = files[i]
        /\ i = ofs[s] => files'[i].size = files[i].size + buf[s]
    BY <1>5, CloseFacts
  <2>2. QED BY <1>1, <1>2, <2>1
<1>6. CASE \/ \E s \in Sinks : GetFilePath(s)
           \/ Crash \/ List \/ Keep \/ RemoveFile \/ Return \/ Tick \/ UNCHANGED vars
  <2>1. UNCHANGED files
    BY <1>6 DEF GetFilePath, Crash, List, Keep, RemoveFile, Return, Tick, vars, dirVars
  <2>2. QED BY <1>1, <2>1
<1>7. QED BY <1>3, <1>4, <1>5, <1>6 DEF Next, EliminateFiles

\* What a walk has added up is of files it has seen, which only grow.
LEMMA SumStep ==
    ASSUME TypeOK, SumInv, TypeOK', [Next]_vars
    PROVE  SumInv'
<1> DEFINE c == BytesOf(listing, files, Sinks)
           d == BytesOf(listing, files', Sinks)
<1>1. /\ files \in Seq(FileRecords) /\ Len(files) \in Nat /\ listing \in Seq(1..Len(files))
      /\ visited \in 0..Len(listing) /\ Len(listing) \in Nat /\ cur_total_size \in Nat
  BY DEF TypeOK, FileRecords
<1>2. /\ c \in Seq(Nat) /\ Len(c) = Len(listing)
      /\ \A k \in 1..Len(listing) :
            /\ listing[k] \in 1..Len(files)
            /\ c[k] = IF files[listing[k]].name.flag \in Sinks THEN files[listing[k]].size ELSE 0
  BY <1>1, BytesNat
<1>3. cur_total_size <= SumUpTo(c)[visited]
  BY DEF SumInv, Bytes, BytesOf
<1>4. CASE UNCHANGED <<listing, visited, cur_total_size>> /\ Len(files) <= Len(files')
  <2>1. files' \in Seq(FileRecords) /\ Len(files') \in Nat
    BY DEF TypeOK, FileRecords
  <2>2. /\ d \in Seq(Nat) /\ Len(d) = Len(listing)
        /\ \A k \in 1..Len(listing) :
              d[k] = IF files'[listing[k]].name.flag \in Sinks THEN files'[listing[k]].size ELSE 0
    BY <1>1, <1>4, <2>1, BytesNat
  <2>3. \A i \in 1..Len(files) : files'[i].name = files[i].name /\ files'[i].size >= files[i].size
    BY FilesGrow
  <2>4. \A i \in 1..Len(files) : files[i].size \in Nat
    BY FileFacts
  <2>5. \A i \in 1..Len(files) : files'[i].size \in Nat
    <3>1. \A i \in 1..Len(files) : i \in 1..Len(files')
      BY <1>1, <1>4, <2>1
    <3>2. \A i \in 1..Len(files) : files'[i] \in FileRecords
      BY <3>1, <2>1
    <3>3. QED BY <3>2 DEF FileRecords
  <2> HIDE DEF c, d
  <2>6. visited <= Len(c) /\ visited <= Len(d) /\ \A k \in 1..visited : k \in 1..Len(listing)
    BY <1>1, <1>2, <2>2
  <2>7. \A k \in 1..visited : c[k] <= d[k]
    <3> SUFFICES ASSUME NEW k \in 1..visited PROVE c[k] <= d[k]
      OBVIOUS
    <3>1. k \in 1..Len(listing)
      BY <2>6
    <3> DEFINE i == listing[k]
    <3>2. /\ i \in 1..Len(files)
          /\ c[k] = IF files[i].name.flag \in Sinks THEN files[i].size ELSE 0
          /\ d[k] = IF files'[i].name.flag \in Sinks THEN files'[i].size ELSE 0
      BY <1>2, <2>2, <3>1
    <3> HIDE DEF i
    <3>3. /\ files'[i].name = files[i].name /\ files'[i].size >= files[i].size
          /\ files[i].size \in Nat /\ files'[i].size \in Nat
      BY <2>3, <2>4, <2>5, <3>2
    <3>4. QED BY <3>2, <3>3
  <2>8. /\ SumUpTo(c)[visited] \in Nat /\ SumUpTo(d)[visited] \in Nat
        /\ SumUpTo(c)[visited] <= SumUpTo(d)[visited]
    BY <1>1, <1>2, <2>2, <2>6, <2>7, SumGrows
  <2>9. cur_total_size <= SumUpTo(d)[visited]
    BY <1>1, <1>3, <2>8
  <2>10. Bytes(listing, Sinks)' = d
    BY <1>4 DEF Bytes, BytesOf, d
  <2>11. (SumUpTo(Bytes(listing, Sinks))[visited])' = SumUpTo(d)[visited]
    BY <1>4, <2>10 DEF SumUpTo
  <2>12. QED BY <1>4, <2>9, <2>11 DEF SumInv
<1>5. CASE List \/ Return \/ Crash
  <2>1. visited' = 0 /\ cur_total_size' = 0
    BY <1>5 DEF List, Return, Crash
  <2> DEFINE e == BytesOf(listing', files', Sinks)
  <2>2. e \in Seq(Nat)
    <3>1. files' \in Seq(FileRecords) /\ Len(files') \in Nat /\ listing' \in Seq(1..Len(files'))
      BY DEF TypeOK, FileRecords
    <3>2. QED BY <3>1, BytesNat
  <2>3. SumUpTo(e)[0] = 0
    BY <2>2, SumIs
  <2>4. Bytes(listing, Sinks)' = e
    BY DEF Bytes, BytesOf
  <2> HIDE DEF e
  <2>5. (SumUpTo(Bytes(listing, Sinks))[visited])' = SumUpTo(e)[visited']
    BY <2>4 DEF SumUpTo
  <2>6. QED BY <2>1, <2>3, <2>5 DEF SumInv
<1>6. CASE Keep \/ RemoveFile
  <2>1. /\ visited' = visited + 1 /\ visited < Len(listing)
        /\ UNCHANGED <<listing, files>>
        /\ cur_total_size' \in {cur_total_size, cur_total_size + files[Visited].size}
    BY <1>6 DEF Keep, Counted, RemoveFile, dirVars
  <2>2. visited + 1 \in 1..Len(c) /\ (visited + 1) - 1 = visited
    BY <1>1, <1>2, <2>1, SMTT(20)
  <2>3. Visited \in 1..Len(files) /\ c[visited + 1] = files[Visited].size
    <3>1. Visited \in 1..Len(files)
      BY <1>2, <2>2 DEF Visited
    <3>2. files[Visited].name.flag \in Sinks
      BY <3>1, FileFacts DEF Names
    <3>3. QED BY <1>2, <2>2, <3>1, <3>2 DEF Visited
  <2>4. files[Visited].size \in Nat
    BY <2>3, FileFacts
  <2>5. SumUpTo(c)[visited + 1] = SumUpTo(c)[visited] + c[visited + 1]
    BY <1>2, <2>2, SumIs
  <2>6. SumUpTo(c)[visited] \in Nat
    <3>1. visited \in Nat /\ visited <= Len(c) /\ c \in Seq(Nat)
      BY <1>1, <1>2
    <3> HIDE DEF c
    <3>2. \A k \in 1..visited : c[k] <= c[k]
      <4>1. \A k \in 1..visited : k \in 1..Len(c)
        BY <3>1
      <4>2. QED BY <3>1, <4>1
    <3>3. QED BY <3>1, <3>2, SumGrows
  <2>7. cur_total_size' <= SumUpTo(c)[visited + 1]
    BY <1>1, <1>3, <2>1, <2>3, <2>4, <2>5, <2>6
  <2>8. Bytes(listing, Sinks)' = c
    BY <2>1 DEF Bytes, BytesOf
  <2> HIDE DEF c
  <2>9. (SumUpTo(Bytes(listing, Sinks))[visited])' = SumUpTo(c)[visited + 1]
    BY <2>1, <2>8 DEF SumUpTo
  <2>10. QED BY <2>7, <2>9 DEF SumInv
<1>7. ASSUME NEW s \in Sinks, GetFilePath(s) \/ OpenFile(s) \/ WriteChunk(s) \/ Close(s)
      PROVE  SumInv'
  <2>1. UNCHANGED <<listing, visited, cur_total_size>>
    BY <1>7 DEF GetFilePath, OpenFile, WriteChunk, Close, walkVars
  <2>2. Len(files) <= Len(files')
    <3>1. GetFilePath(s) => files' = files
      BY DEF GetFilePath, dirVars
    <3>2. QED BY <1>1, <1>7, <3>1, OpenFacts, WriteFacts, CloseFacts
  <2>3. QED BY <1>4, <2>1, <2>2
<1>8. CASE Tick \/ UNCHANGED vars
  <2>1. UNCHANGED <<listing, visited, cur_total_size, files>>
    BY <1>8 DEF Tick, vars, dirVars, walkVars
  <2>2. QED BY <1>1, <1>4, <2>1
<1>9. QED BY <1>5, <1>6, <1>7, <1>8 DEF Next, EliminateFiles

-----------------------------------------------------------------------------
(* The theorems                                                               *)

LEMMA InvInit == Init => Inv
<1> SUFFICES ASSUME Init PROVE Inv
  OBVIOUS
<1>1. TypeOK
  BY TypeInit
<1>2. Len(files) = 0 /\ InDir = {}
  BY DEF Init, InDir, Elems
<1>3. NamedInv
  BY <1>2 DEF NamedInv, Init
<1>4. DirInv
  BY <1>2 DEF DirInv
<1>5. SizeInv
  BY <1>2, Room DEF SizeInv, Init
<1>6. IndexInv
  BY <1>2 DEF IndexInv, Same, Init
<1>7. QED BY <1>1, <1>3, <1>4, <1>5, <1>6 DEF Inv

LEMMA InvNext == Inv /\ [Next]_vars => Inv'
<1> SUFFICES ASSUME Inv, [Next]_vars PROVE Inv'
  OBVIOUS
<1>1. TypeOK'
  BY TypeNext DEF Inv
<1>2. NamedInv' /\ DirInv' /\ SizeInv' /\ IndexInv'
  BY <1>1, NamedStep, DirStep, SizeStep, IndexStep DEF Inv
<1>3. QED BY <1>1, <1>2 DEF Inv

\* Each time a file is opened adds at most a buffer and a chunk to single_size,
\* unless a file of its second was eliminated: for any sinks of a directory and
\* any restarts.
THEOREM Bounded == Spec => []FileBounded
<1>1. Inv => FileBounded
  BY InDirFacts DEF Inv, SizeInv, FileBounded, Limit
<1>2. QED BY <1>1, InvInit, InvNext, PTL DEF Spec

\* GetFilePath_ of a sink whose file is too long gives a name that no file has,
\* unless a file of this second was eliminated.
THEOREM Fresh == Spec => RotationFresh
<1> DEFINE New == \A s \in Sinks :
                     (pc[s] = "idle" /\ pc'[s] # "idle" /\ TooLong(s) /\ now \notin purged)
                     => Lookup(file_path'[s]) = 0
<1>1. Inv /\ [Next]_vars => [New]_vars
  <2> SUFFICES ASSUME Inv, [Next]_vars, NEW s \in Sinks,
                      pc[s] = "idle", pc'[s] # "idle", TooLong(s), now \notin purged
               PROVE  Lookup(file_path'[s]) = 0
    OBVIOUS
  <2>1. TypeOK /\ NamedInv /\ DirInv /\ IndexInv
    BY DEF Inv
  <2>2. GetFilePath(s)
    <3>1. ASSUME NEW u \in Sinks, u # s, GetFilePath(u) \/ OpenFile(u) \/ WriteChunk(u) \/ Close(u)
          PROVE  pc'[s] = pc[s]
      BY <3>1, <2>1 DEF TypeOK, GetFilePath, OpenFile, WriteChunk, Close
    <3>2. ~(OpenFile(s) \/ WriteChunk(s) \/ Close(s))
      BY DEF OpenFile, WriteChunk, Close
    <3>3. ~(Crash \/ EliminateFiles \/ Tick \/ UNCHANGED vars)
      BY DEF Crash, EliminateFiles, List, Keep, RemoveFile, Return, Tick, vars, sinkVars
    <3>4. QED BY <3>1, <3>2, <3>3 DEF Next
  <2>3. file_path'[s] = NextPath(s)
    BY <2>1, <2>2, PathFacts DEF TypeOK
  <2>4. Lookup(file_path[s]) # 0 /\ file_path[s] # NoPath
    <3>1. Lookup(file_path[s]) # 0
      BY <2>1, SizesNat DEF TooLong, GetFileSize, TypeOK
    <3>2. Lookup(file_path[s]) \in 1..Len(files) /\ files[Lookup(file_path[s])].name = file_path[s]
      BY <3>1, <2>1, LookupFacts, InDirFacts
    <3>3. file_path[s].time # 0
      BY <3>2, <2>1 DEF NamedInv
    <3>4. QED BY <3>1, <3>3 DEF NoPath
  <2>5. \/ Lookup(NextPath(s)) = 0
        \/ NextPath(s).time = now /\ NextPath(s).index = Cardinality(Same(now))
    BY <2>1, <2>4, NextFacts
  <2>6. ASSUME NextPath(s).time = now, NextPath(s).index = Cardinality(Same(now)),
               Lookup(NextPath(s)) # 0
        PROVE  FALSE
    <3> DEFINE i == Lookup(NextPath(s))
    <3>1. i \in InDir /\ files[i].name = NextPath(s)
      BY <2>1, <2>6, LookupFacts
    <3> HIDE DEF i
    <3>2. i \in Same(now) /\ now \in Nat \ purged
      BY <3>1, <2>1, <2>6 DEF Same, TypeOK
    <3>3. files[i].name.index < Cardinality(Same(now)) /\ Cardinality(Same(now)) \in Nat
      BY <3>2, <2>1, SameNat DEF IndexInv
    <3>4. QED BY <3>1, <3>3, <2>6
  <2>7. QED BY <2>3, <2>5, <2>6
<1>2. QED BY <1>1, InvInit, InvNext, PTL DEF Spec, RotationFresh
-----------------------------------------------------------------------------
(* The file that its sink has open                                            *)

KeepInv == Inv /\ PlaceInv /\ SumInv

LEMMA KeepInit == Init => KeepInv
<1> SUFFICES ASSUME Init PROVE KeepInv
  OBVIOUS
<1>1. Inv
  BY InvInit
<1>2. PlaceInv
  BY DEF Init, PlaceInv, Distinct, Leads, Elems
<1>3. SumInv
  <2> DEFINE c == Bytes(listing, Sinks)
  <2>1. c \in Seq(Nat)
    BY DEF Init, Bytes
  <2> HIDE DEF c
  <2>2. SumUpTo(c)[0] = 0
    BY <2>1, SumIs
  <2>3. QED BY <2>2 DEF Init, SumInv, c
<1>4. QED BY <1>1, <1>2, <1>3 DEF KeepInv

LEMMA KeepNext == KeepInv /\ [Next]_vars => KeepInv'
<1> SUFFICES ASSUME KeepInv, [Next]_vars PROVE KeepInv'
  OBVIOUS
<1>1. Inv'
  BY InvNext DEF KeepInv
<1>2. PlaceInv'
  BY PlaceStep DEF KeepInv, Inv
<1>3. SumInv'
  BY <1>1, SumStep DEF KeepInv, Inv
<1>4. QED BY <1>1, <1>2, <1>3 DEF KeepInv

\* When the walk comes to the file that s made and has open, it has added up
\* files of other sinks only.
LEMMA OthersExhaust ==
    ASSUME TypeOK, PlaceInv, SumInv, RemoveFile, NEW s \in Sinks,
           ofs[s] # 0, ofs[s] = Visited, files[ofs[s]].opened = 1
    PROVE  SumUpTo(Bytes(listing, Sinks \ {s}))[visited] >= total_size
<1> DEFINE c == BytesOf(listing, files, Sinks)
           d == BytesOf(listing, files, Sinks \ {s})
           n == Len(files)
<1>1. /\ files \in Seq(FileRecords) /\ Len(files) \in Nat /\ listing \in Seq(1..Len(files))
      /\ visited \in Nat /\ visited + 1 \in 1..Len(listing) /\ visited <= Len(listing)
      /\ Len(listing) \in Nat /\ cur_total_size \in Nat
  BY DEF TypeOK, FileRecords, RemoveFile
<1>2. files \in Seq(FileRecords) /\ n \in Nat /\ n <= Len(files) /\ listing \in Seq(1..n)
  BY <1>1
<1>3. /\ c \in Seq(Nat) /\ Len(c) = Len(listing)
      /\ \A k \in 1..Len(listing) :
            /\ listing[k] \in 1..Len(files)
            /\ c[k] = IF files[listing[k]].name.flag \in Sinks THEN files[listing[k]].size ELSE 0
  BY <1>2, BytesNat
<1>4. /\ d \in Seq(Nat) /\ Len(d) = Len(listing)
      /\ \A k \in 1..Len(listing) :
            d[k] = IF files[listing[k]].name.flag \in Sinks \ {s} THEN files[listing[k]].size ELSE 0
  BY <1>2, BytesNat
<1>5. c = Bytes(listing, Sinks) /\ d = Bytes(listing, Sinks \ {s})
  BY DEF Bytes, BytesOf
<1> HIDE DEF c, d
<1>6. \A k \in 1..visited : c[k] <= d[k]
  <2> SUFFICES ASSUME NEW k \in 1..visited PROVE c[k] <= d[k]
    OBVIOUS
  <2>1. k \in 1..Len(listing) /\ k < visited + 1
    BY <1>1
  <2> DEFINE a == listing[k]
  <2>2. a \in Elems(listing) /\ Before(listing, a, ofs[s])
    BY <1>1, <2>1 DEF Elems, Before, Visited
  <2>3. a \in 1..Len(files)
    BY <1>3, <2>1
  <2> HIDE DEF a
  <2>4. files[a].name.flag # s
    BY <2>2 DEF PlaceInv, Leads
  <2>5. files[a].name.flag \in Sinks /\ files[a].size \in Nat
    BY <2>3, FileFacts DEF Names
  <2>6. c[k] = files[a].size /\ d[k] = files[a].size
    BY <1>3, <1>4, <2>1, <2>4, <2>5 DEF a
  <2>7. QED BY <2>5, <2>6
<1>7. /\ SumUpTo(c)[visited] \in Nat /\ SumUpTo(d)[visited] \in Nat
      /\ SumUpTo(c)[visited] <= SumUpTo(d)[visited]
  BY <1>1, <1>3, <1>4, <1>6, SumGrows
<1>8. cur_total_size <= SumUpTo(c)[visited]
  BY <1>5 DEF SumInv
<1>9. cur_total_size >= total_size /\ total_size \in Nat
  BY SizesNat DEF RemoveFile, TypeOK
<1>10. SumUpTo(d)[visited] >= total_size
  BY <1>1, <1>7, <1>8, <1>9
<1>11. QED BY <1>5, <1>10

\* EliminateFiles_ removes the file that a sink made and has open only when what
\* other sinks have written since exhausts the limit: for any sinks of a
\* directory, any chunks and any restarts.
THEOREM OpenKept == Spec => OpenFileKept
<1> DEFINE Kept == \A s \in Sinks :
                      LET i == ofs[s]
                      IN (i \in InDir /\ i \notin Elems(recent') /\ files[i].opened = 1)
                         => SumUpTo(Bytes(listing, Sinks \ {s}))[visited] >= total_size
<1>1. KeepInv /\ [Next]_vars => [Kept]_vars
  <2> SUFFICES ASSUME KeepInv, [Next]_vars, NEW s \in Sinks,
                      ofs[s] \in InDir, ofs[s] \notin Elems(recent'), files[ofs[s]].opened = 1
               PROVE  SumUpTo(Bytes(listing, Sinks \ {s}))[visited] >= total_size
    OBVIOUS
  <2>1. TypeOK /\ PlaceInv /\ SumInv
    BY DEF KeepInv, Inv
  <2>2. ofs[s] \in InDir /\ ofs[s] \notin InDir'
    BY DEF InDir
  <2>3. RemoveFile
    <3>1. \A u \in Sinks : ~OpenFile(u)
      BY <2>1, <2>2, OpenFacts
    <3>2. QED BY <2>1, <2>2, <3>1, DirFrame
  <2>4. ofs[s] = Visited /\ ofs[s] # 0
    BY <2>1, <2>2, <2>3, RemoveFacts, InDirFacts
  <2>5. QED BY <2>1, <2>3, <2>4, OthersExhaust
<1>2. QED BY <1>1, KeepInit, KeepNext, PTL DEF Spec, OpenFileKept
=============================================================================
