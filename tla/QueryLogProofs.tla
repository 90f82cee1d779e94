---------------------------- MODULE QueryLogProofs ----------------------------
(***************************************************************************)
(* Theorems about QueryLog, for any number of workers and entries, any size *)
(* of the buffer and any bounds.                                           *)
(***************************************************************************)
EXTENDS QueryLog, FiniteSets, FiniteSetTheorems, SequenceTheorems, TLAPS

(***************************************************************************)
(* Types.  A worker that is adding an entry has made it and not pushed it. *)
(***************************************************************************)
Adding == {w \in Worker : pending[w] # None}

AddingOK == IsFiniteSet(Adding) /\ pushed + Cardinality(Adding) <= made

\* TypeOK with the count that bounds the entries pushed.
TypeInv == TypeOK /\ AddingOK

LEMMA BoundsType == MaxEntries \in Nat /\ MaxTime \in Nat
BY QueryLogAssumption

LEMMA NoneApart ==
    /\ \A s \in Seq(Entry) : s # None
    /\ \A t \in 0..MaxTime : t # None
    /\ None # "cur" /\ None # "old" /\ None # "gone"
<1>1. None \notin Seq(Entry) /\ None \notin 0..MaxTime /\ None \notin {"cur", "old", "gone"}
  BY QueryLogAssumption, Zenon
<1> QED
  BY <1>1, Zenon

LEMMA CapacityPositive == Capacity \in Nat \ {0}
BY QueryLogAssumption DEF Capacity

LEMMA NumbersType ==
    ASSUME NEW s \in Seq(Entry)
    PROVE  Numbers(s) \subseteq 1..MaxEntries
<1>1. \A i \in 1..Len(s) : s[i] \in Entry
  BY ElementOfSeq
<1> QED
  BY <1>1 DEF Numbers, Entry

LEMMA ContentType ==
    ASSUME NEW f \in Seq(Entry) \cup {None}
    PROVE  Content(f) \in Seq(Entry)
BY EmptySeq DEF Content

LEMMA LoggedType == TypeOK => Logged \subseteq 1..MaxEntries
BY NumbersType, ContentType DEF TypeOK, MemoryOK, HolderOK, FilesOK, Logged

\* What Push makes of a buffer.
LEMMA PushType ==
    ASSUME NEW s \in Seq(Entry), Len(s) <= Capacity, NEW e \in Entry
    PROVE  Push(s, e) \in Seq(Entry) /\ Len(Push(s, e)) <= Capacity
<1>1. Capacity \in Nat \ {0} /\ Len(s) \in Nat
  BY CapacityPositive, LenProperties
<1>2. CASE Len(s) = Capacity
  <2>1. s # <<>>
    BY <1>1, <1>2, EmptySeq
  <2>2. Tail(s) \in Seq(Entry) /\ Len(Tail(s)) = Len(s) - 1
    BY <2>1, HeadTailProperties
  <2>3. Append(Tail(s), e) \in Seq(Entry) /\ Len(Append(Tail(s), e)) = Len(Tail(s)) + 1
    BY <2>2, AppendProperties
  <2> QED
    BY <1>1, <1>2, <2>2, <2>3 DEF Push
<1>3. CASE Len(s) # Capacity
  <2>1. Append(s, e) \in Seq(Entry) /\ Len(Append(s, e)) = Len(s) + 1
    BY AppendProperties
  <2> QED
    BY <1>1, <1>3, <2>1 DEF Push
<1> QED
  BY <1>2, <1>3

LEMMA TypeInit == Init => TypeInv
<1> SUFFICES ASSUME Init PROVE TypeInv
  OBVIOUS
<1> USE QueryLogAssumption
<1>1. <<>> \in Seq(Entry) /\ Len(<<>>) = 0
  BY EmptySeq
<1>2. MemoryOK
  <2>1. enabled \in BOOLEAN /\ flushPending \in BOOLEAN
    BY Zenon DEF Init
  <2>2. 0 \in 0..MaxTime /\ 0 \in 0..MaxEntries
    BY BoundsType
  <2>3. pending \in [Worker -> (0..MaxTime) \cup {None}]
    BY DEF Init
  <2> QED
    BY <1>1, <2>1, <2>2, <2>3, CapacityPositive DEF Init, MemoryOK
<1>3. HolderOK
  BY <1>1 DEF Init, HolderOK
<1>4. FilesOK
  BY DEF Init, FilesOK
<1>5. RestOK
  <2>1. crossed \in BOOLEAN
    BY Zenon DEF Init
  <2> QED
    BY <2>1, BoundsType DEF Init, RestOK
<1>6. AddingOK
  <2>1. Adding = {}
    BY DEF Init, Adding
  <2> QED
    BY <2>1, FS_EmptySet DEF Init, AddingOK
<1> QED
  BY <1>2, <1>3, <1>4, <1>5, <1>6 DEF TypeInv, TypeOK

\* The steps that leave the buffer and its entries alone.
LEMMA MemoryKept ==
    ASSUME MemoryOK, AddingOK, UNCHANGED <<conf, now, mem>>
    PROVE  MemoryOK' /\ AddingOK'
BY DEF MemoryOK, AddingOK, Adding, conf, mem

\* A step that takes the buffer, and may start no goroutine that flushes it.
LEMMA BufferTaken ==
    ASSUME MemoryOK, AddingOK, buffer' = <<>>, flushPending' \in BOOLEAN,
           UNCHANGED <<conf, now, made, pushed, pending, waiting>>
    PROVE  MemoryOK' /\ AddingOK'
<1>1. <<>> \in Seq(Entry) /\ Len(<<>>) = 0
  BY EmptySeq
<1> QED
  BY <1>1, CapacityPositive DEF MemoryOK, AddingOK, Adding, conf

LEMMA ReleaseType ==
    ASSUME HolderOK, FilesOK, RestOK, Release,
           old' \in Seq(Entry) \cup {None}, cur' \in Seq(Entry) \cup {None}
    PROVE  HolderOK' /\ FilesOK'
<1>1. <<>> \in Seq(Entry)
  BY EmptySeq
<1> QED
  BY <1>1, QueryLogAssumption DEF HolderOK, FilesOK, Release

LEMMA NewLogEntryType ==
    ASSUME TypeInv, NEW w \in Worker, newLogEntry(w)
    PROVE  MemoryOK' /\ AddingOK'
<1> USE QueryLogAssumption DEF TypeInv, TypeOK
<1>1. MemoryOK'
  BY DEF newLogEntry, MemoryOK, conf
<1>2. Adding' = Adding \cup {w} /\ w \notin Adding
  BY DEF newLogEntry, Adding, MemoryOK
<1>3. IsFiniteSet(Adding') /\ Cardinality(Adding') = Cardinality(Adding) + 1
  BY <1>2, FS_AddElement DEF AddingOK
<1>4. Cardinality(Adding) \in Nat
  BY FS_CardinalityType DEF AddingOK
<1> QED
  BY <1>1, <1>3, <1>4 DEF newLogEntry, AddingOK, MemoryOK

LEMMA AddType ==
    ASSUME TypeInv, NEW w \in Worker, Add(w)
    PROVE  MemoryOK' /\ AddingOK' /\ overwritten' \subseteq 1..MaxEntries
<1> USE QueryLogAssumption DEF TypeInv, TypeOK
<1> DEFINE e == [n |-> pushed + 1, t |-> pending[w]]
<1>1. Adding' = Adding \ {w} /\ w \in Adding
  BY DEF Add, Adding, MemoryOK
<1>2. IsFiniteSet(Adding') /\ Cardinality(Adding') = Cardinality(Adding) - 1
  BY <1>1, FS_RemoveElement DEF AddingOK
<1>3. Cardinality(Adding) \in Nat /\ Cardinality(Adding') \in Nat
  BY <1>2, FS_CardinalityType DEF AddingOK
<1>4. pushed + 1 <= made /\ AddingOK'
  BY <1>2, <1>3 DEF Add, AddingOK, MemoryOK
<1>5. e \in Entry
  BY <1>4 DEF Add, MemoryOK, Entry
<1>6. Push(buffer, e) \in Seq(Entry) /\ Len(Push(buffer, e)) <= Capacity
  BY <1>5, PushType DEF MemoryOK
<1>7. MemoryOK'
  <2>1. flushPending' \in BOOLEAN /\ waiting' \in Nat
    BY DEF Add, MemoryOK
  <2>2. pending' \in [Worker -> (0..MaxTime) \cup {None}]
    BY DEF Add, MemoryOK
  <2>3. buffer' = Push(buffer, e) /\ pushed' = pushed + 1
    BY DEF Add
  <2> QED
    BY <1>4, <1>6, <2>1, <2>2, <2>3 DEF Add, MemoryOK, conf
<1>8. overwritten' \subseteq 1..MaxEntries
  <2>1. CASE Len(buffer) = Capacity
    <3>1. buffer # <<>>
      BY <2>1, CapacityPositive, EmptySeq DEF MemoryOK
    <3>2. Head(buffer) \in Entry
      BY <3>1, HeadTailProperties DEF MemoryOK
    <3> QED
      BY <2>1, <3>2 DEF Add, RestOK, Entry
  <2>2. CASE Len(buffer) # Capacity
    BY <2>2 DEF Add, RestOK
  <2> QED
    BY <2>1, <2>2
<1> QED
  BY <1>4, <1>7, <1>8

LEMMA TypeStep == TypeInv /\ [Next]_vars => TypeInv'
<1> SUFFICES ASSUME TypeInv, [Next]_vars PROVE TypeInv'
  OBVIOUS
<1>0. MemoryOK /\ HolderOK /\ FilesOK /\ RestOK /\ AddingOK
  BY DEF TypeInv, TypeOK
<1> USE DEF TypeInv, TypeOK
<1>1. CASE Tick
  BY <1>0, <1>1, BoundsType DEF Tick, MemoryOK, HolderOK, FilesOK, RestOK, AddingOK, Adding,
     conf, mem, lock, disk, search, history
<1>2. ASSUME NEW e \in BOOLEAN, NEW i \in Ivls, SetConfig(e, i)
      PROVE  TypeInv'
  BY <1>0, <1>2 DEF SetConfig, MemoryOK, HolderOK, FilesOK, RestOK, AddingOK, Adding,
     mem, lock, disk, search, history
<1>3. ASSUME NEW w \in Worker, newLogEntry(w)
      PROVE  TypeInv'
  <2>1. HolderOK' /\ FilesOK' /\ RestOK'
    BY <1>0, <1>3 DEF newLogEntry, HolderOK, FilesOK, RestOK, lock, disk, search, history
  <2> QED
    BY <1>3, <2>1, NewLogEntryType
<1>4. ASSUME NEW w \in Worker, Add(w)
      PROVE  TypeInv'
  <2>1. HolderOK' /\ FilesOK'
    BY <1>0, <1>4 DEF Add, HolderOK, FilesOK, lock, disk
  <2>2. RestOK'
    BY <1>0, <1>4, AddType DEF Add, RestOK, search
  <2> QED
    BY <1>4, <2>1, <2>2, AddType
<1>5. CASE Shutdown
  <2>1. MemoryOK' /\ AddingOK'
    BY <1>0, <1>5, MemoryKept DEF Shutdown
  <2>2. HolderOK' /\ FilesOK' /\ RestOK'
    BY <1>0, <1>5 DEF Shutdown, HolderOK, FilesOK, RestOK, disk, search, history
  <2> QED
    BY <2>1, <2>2
<1>6. CASE FlushLock
  <2>1. MemoryOK' /\ AddingOK'
    BY <1>0, <1>6 DEF FlushLock, MemoryOK, AddingOK, Adding, conf
  <2>2. HolderOK' /\ FilesOK' /\ RestOK'
    BY <1>0, <1>6 DEF FlushLock, HolderOK, FilesOK, RestOK, disk, search, history
  <2> QED
    BY <2>1, <2>2
<1>7. CASE EncodeFails \/ OpenFails
  <2>1. MemoryOK' /\ AddingOK'
    BY <1>0, <1>7, MemoryKept DEF EncodeFails, OpenFails
  <2>2. HolderOK' /\ FilesOK'
    BY <1>0, <1>7, ReleaseType DEF EncodeFails, OpenFails, FilesOK, disk
  <2>3. RestOK'
    BY <1>0, <1>7 DEF EncodeFails, OpenFails, RestOK, search, history
  <2> QED
    BY <2>1, <2>2, <2>3
<1>8. CASE encodeEntries
  <2>1. MemoryOK' /\ AddingOK'
    BY <1>0, <1>8, BufferTaken DEF encodeEntries, TakeBuffer
  <2>2. HolderOK' /\ FilesOK' /\ RestOK'
    BY <1>0, <1>8 DEF encodeEntries, MemoryOK, HolderOK, FilesOK, RestOK, disk, search, history
  <2> QED
    BY <2>1, <2>2
<1>9. CASE OpenFile
  <2>1. MemoryOK' /\ AddingOK'
    BY <1>0, <1>9, MemoryKept DEF OpenFile
  <2>2. cur' \in Seq(Entry)
    BY <1>0, <1>9, ContentType DEF OpenFile, FilesOK
  <2>3. HolderOK' /\ FilesOK' /\ RestOK'
    BY <1>0, <1>9, <2>2, QueryLogAssumption
       DEF OpenFile, HolderOK, FilesOK, RestOK, search, history
  <2> QED
    BY <2>1, <2>3
<1>10. CASE WriteFile \/ WriteFails
  <2>1. MemoryOK' /\ AddingOK'
    BY <1>0, <1>10, MemoryKept DEF WriteFile, WriteFails
  <2>2. PICK s \in Seq(Entry) : WriteTo(s)
    <3>1. CASE WriteFile
      BY <1>0, <3>1 DEF WriteFile, HolderOK
    <3>2. CASE WriteFails
      <4>1. PICK k \in 0..(Len(bytes) - 1) : WriteTo(SubSeq(bytes, 1, k))
        BY <3>2 DEF WriteFails
      <4>2. SubSeq(bytes, 1, k) \in Seq(Entry)
        BY <1>0, LenProperties, ElementOfSeq, SubSeqProperties DEF HolderOK
      <4> QED
        BY <4>1, <4>2
    <3> QED
      BY <1>10, <3>1, <3>2
  <2>3. old' \in Seq(Entry) \cup {None} /\ cur' \in Seq(Entry) \cup {None}
    BY <1>0, <2>2, ConcatProperties DEF WriteTo, FilesOK
  <2>4. HolderOK' /\ FilesOK'
    BY <1>0, <1>10, <2>3, ReleaseType DEF WriteFile, WriteFails
  <2>5. RestOK'
    BY <1>0, <1>10 DEF WriteFile, WriteFails, RestOK, search, history
  <2> QED
    BY <2>1, <2>4, <2>5
<1>11. CASE ClearLock
  <2>1. MemoryOK' /\ AddingOK'
    BY <1>0, <1>11, MemoryKept DEF ClearLock
  <2>2. HolderOK' /\ FilesOK'
    BY <1>0, <1>11 DEF ClearLock, HolderOK, FilesOK, disk
  <2>3. crossed' \in BOOLEAN
    BY <1>11, Zenon DEF ClearLock
  <2>4. RestOK'
    BY <1>0, <1>11, <2>3, BoundsType DEF ClearLock, MemoryOK, RestOK, search
  <2> QED
    BY <2>1, <2>2, <2>4
<1>12. CASE ClearBuffer
  <2>1. MemoryOK' /\ AddingOK'
    BY <1>0, <1>12, BufferTaken DEF ClearBuffer
  <2>2. HolderOK' /\ FilesOK' /\ RestOK'
    BY <1>0, <1>12 DEF ClearBuffer, HolderOK, FilesOK, RestOK, disk, search, history
  <2> QED
    BY <2>1, <2>2
<1>13. CASE ClearOld
  <2>1. MemoryOK' /\ AddingOK'
    BY <1>0, <1>13, MemoryKept DEF ClearOld
  <2>2. HolderOK' /\ FilesOK' /\ RestOK'
    BY <1>0, <1>13, QueryLogAssumption
       DEF ClearOld, RemovedOld, HolderOK, FilesOK, RestOK, search, history
  <2> QED
    BY <2>1, <2>2
<1>14. CASE ClearCur
  <2>1. MemoryOK' /\ AddingOK'
    BY <1>0, <1>14, MemoryKept DEF ClearCur
  <2>2. HolderOK' /\ FilesOK'
    BY <1>0, <1>14, ReleaseType DEF ClearCur, FilesOK
  <2>3. RestOK'
    BY <1>0, <1>14 DEF ClearCur, RestOK, search, history
  <2> QED
    BY <2>1, <2>2, <2>3
<1>15. CASE checkAndRotate
  BY <1>0, <1>15 DEF checkAndRotate, MemoryOK, HolderOK, FilesOK, RestOK, AddingOK, Adding,
     conf, mem, lock, disk, search, history
<1>16. CASE rotate
  <2>1. MemoryOK' /\ AddingOK'
    BY <1>0, <1>16, MemoryKept DEF rotate
  <2>2. HolderOK'
    BY <1>0, <1>16 DEF rotate, HolderOK
  <2>3. FilesOK'
    BY <1>0, <1>16, QueryLogAssumption DEF rotate, FilesOK, disk
  <2>4. crossed' \in BOOLEAN
    BY <1>0, <1>16, Zenon DEF rotate, RestOK
  <2>5. RestOK'
    BY <1>0, <1>16, <2>4 DEF rotate, RestOK, search
  <2> QED
    BY <2>1, <2>2, <2>3, <2>5
<1>17. CASE searchMemory
  <2>1. sseen' \subseteq 1..MaxEntries
    BY <1>17, LoggedType DEF searchMemory
  <2>2. sfound' \subseteq 1..MaxEntries
    BY <1>0, <1>17, NumbersType DEF searchMemory, MemoryOK
  <2> QED
    BY <1>0, <1>17, <2>1, <2>2 DEF searchMemory, MemoryOK, HolderOK, FilesOK, RestOK,
       AddingOK, Adding, conf, mem, lock, disk, history
<1>18. CASE SearchOld \/ SearchCur
  <2>1. sfound' \subseteq 1..MaxEntries
    BY <1>0, <1>18, NumbersType, ContentType DEF SearchOld, SearchCur, FilesOK, RestOK
  <2> QED
    BY <1>0, <1>18, <2>1 DEF SearchOld, SearchCur, MemoryOK, HolderOK, FilesOK, RestOK,
       AddingOK, Adding, conf, mem, lock, disk, history
<1>19. CASE SearchEnd
  BY <1>0, <1>19 DEF SearchEnd, MemoryOK, HolderOK, FilesOK, RestOK,
     AddingOK, Adding, conf, mem, lock, disk, history
<1>20. CASE Restart
  <2>1. Adding' = {}
    BY <1>20 DEF Restart, Adding
  <2>2. AddingOK'
    BY <1>0, <1>20, <2>1, FS_EmptySet DEF Restart, AddingOK, MemoryOK
  <2>3. MemoryOK'
    <3>1. <<>> \in Seq(Entry) /\ Len(<<>>) = 0
      BY EmptySeq
    <3>2. flushPending' \in BOOLEAN
      BY <1>20, Zenon DEF Restart
    <3> QED
      BY <1>0, <1>20, <3>1, <3>2, CapacityPositive DEF Restart, MemoryOK, conf
  <2>4. HolderOK' /\ FilesOK'
    BY <1>0, <1>20, ReleaseType DEF Restart, FilesOK, disk
  <2>5. RestOK'
    BY <1>0, <1>20, BoundsType DEF Restart, RestOK
  <2> QED
    BY <2>2, <2>3, <2>4, <2>5
<1>21. CASE UNCHANGED vars
  BY <1>0, <1>21 DEF vars, MemoryOK, HolderOK, FilesOK, RestOK, AddingOK, Adding,
     conf, mem, lock, disk, search, history
<1> QED
  BY <1>1, <1>2, <1>3, <1>4, <1>5, <1>6, <1>7, <1>8, <1>9, <1>10, <1>11, <1>12, <1>13,
     <1>14, <1>15, <1>16, <1>17, <1>18, <1>19, <1>20, <1>21
     DEF Next, FlushStep, ClearStep, NotRotating

LEMMA TypeInvariant == Spec => []TypeInv
BY TypeInit, TypeStep, PTL DEF Spec

\* Every variable of the query log keeps its type, the holder of fileFlushLock
\* has what flushLogBuffer and clear have at each point, the open file exists,
\* and the buffer never outgrows conf.MemSize.
THEOREM TypeCorrect == Spec => []TypeOK
BY TypeInvariant, PTL DEF TypeInv
(***************************************************************************)
(* The order of the log, piece by piece.                                   *)
(***************************************************************************)
\* The entries of s are in the order in which they were pushed.
Sorted(s) == \A i, j \in 1..Len(s) : i < j => s[i].n < s[j].n

\* Every entry of s was pushed before every entry of t.
Before(s, t) == \A i \in 1..Len(s), j \in 1..Len(t) : s[i].n < t[j].n

\* No entry of s has a number above k; all have one above k.
UpTo(s, k) == \A i \in 1..Len(s) : s[i].n <= k
Above(s, k) == \A i \in 1..Len(s) : s[i].n > k

\* t is a run of consecutive entries of s.
PartOf(t, s) ==
    \E d \in Nat : Len(t) + d <= Len(s) /\ \A i \in 1..Len(t) : t[i] = s[i + d]

LEMMA PartOfItself ==
    ASSUME NEW s \in Seq(Entry)
    PROVE  PartOf(s, s)
<1>1. Len(s) \in Nat
  BY LenProperties
<1>2. Len(s) + 0 <= Len(s) /\ \A i \in 1..Len(s) : s[i] = s[i + 0]
  BY <1>1
<1> QED
  BY <1>2 DEF PartOf

LEMMA PrefixPart ==
    ASSUME NEW s \in Seq(Entry), NEW k \in 0..(Len(s) - 1)
    PROVE  SubSeq(s, 1, k) \in Seq(Entry) /\ PartOf(SubSeq(s, 1, k), s)
<1> DEFINE p == SubSeq(s, 1, k)
<1>1. Len(s) \in Nat
  BY LenProperties
<1>2. \A i \in 1..k : s[i] \in Entry
  BY <1>1, ElementOfSeq
<1>3. /\ p \in Seq(Entry) /\ Len(p) = IF 1 <= k THEN k - 1 + 1 ELSE 0
      /\ \A i \in 1..(k - 1 + 1) : p[i] = s[1 + i - 1]
  BY <1>2, SubSeqProperties
<1> HIDE DEF p
<1>4. Len(p) = k /\ Len(p) + 0 <= Len(s)
  BY <1>1, <1>3
<1>5. ASSUME NEW i \in 1..Len(p) PROVE p[i] = s[i + 0]
  <2>1. i \in 1..(k - 1 + 1) /\ 1 + i - 1 = i /\ i + 0 = i
    BY <1>4
  <2> QED
    BY <1>3, <2>1
<1>6. PartOf(p, s)
  BY <1>4, <1>5 DEF PartOf
<1> QED
  BY <1>3, <1>6 DEF p

LEMMA EmptyOrdered ==
    ASSUME NEW s, NEW k
    PROVE  /\ Sorted(<<>>) /\ Before(s, <<>>) /\ Before(<<>>, s)
           /\ UpTo(<<>>, k) /\ Above(<<>>, k)
BY DEF Sorted, Before, UpTo, Above

LEMMA PartOrdered ==
    ASSUME NEW s \in Seq(Entry), NEW t \in Seq(Entry), PartOf(t, s), NEW u, NEW k
    PROVE  /\ Sorted(s) => Sorted(t)
           /\ Before(s, u) => Before(t, u)
           /\ Before(u, s) => Before(u, t)
           /\ UpTo(s, k) => UpTo(t, k)
           /\ Above(s, k) => Above(t, k)
<1>1. PICK d \in Nat : Len(t) + d <= Len(s) /\ \A i \in 1..Len(t) : t[i] = s[i + d]
  BY DEF PartOf
<1>2. Len(s) \in Nat /\ Len(t) \in Nat
  BY LenProperties
<1>3. \A i \in 1..Len(t) : i + d \in 1..Len(s) /\ t[i] = s[i + d]
  BY <1>1, <1>2
<1>4. Sorted(s) => Sorted(t)
  <2> SUFFICES ASSUME Sorted(s), NEW i \in 1..Len(t), NEW j \in 1..Len(t), i < j
               PROVE  t[i].n < t[j].n
    BY DEF Sorted
  <2>1. i + d \in 1..Len(s) /\ j + d \in 1..Len(s) /\ i + d < j + d
    BY <1>2, <1>3
  <2> QED
    BY <1>3, <2>1 DEF Sorted
<1>5. Before(s, u) => Before(t, u)
  BY <1>3 DEF Before
<1>6. Before(u, s) => Before(u, t)
  BY <1>3 DEF Before
<1>7. (UpTo(s, k) => UpTo(t, k)) /\ (Above(s, k) => Above(t, k))
  BY <1>3 DEF UpTo, Above
<1> QED
  BY <1>4, <1>5, <1>6, <1>7

LEMMA ConcatOrdered ==
    ASSUME NEW s \in Seq(Entry), NEW t \in Seq(Entry), NEW u, NEW k
    PROVE  /\ Sorted(s) /\ Sorted(t) /\ Before(s, t) => Sorted(s \o t)
           /\ Before(s, u) /\ Before(t, u) => Before(s \o t, u)
           /\ Before(u, s) /\ Before(u, t) => Before(u, s \o t)
           /\ UpTo(s, k) /\ UpTo(t, k) => UpTo(s \o t, k)
           /\ Above(s, k) /\ Above(t, k) => Above(s \o t, k)
<1> DEFINE st == s \o t
<1>1. Len(s) \in Nat /\ Len(t) \in Nat /\ Len(st) = Len(s) + Len(t)
  BY ConcatProperties, LenProperties
<1>2. \A i \in 1..(Len(s) + Len(t)) : st[i] = IF i <= Len(s) THEN s[i] ELSE t[i - Len(s)]
  BY ConcatProperties
<1> HIDE DEF st
<1>3. ASSUME NEW i \in 1..Len(st)
      PROVE  \/ i \in 1..Len(s) /\ st[i] = s[i]
             \/ i - Len(s) \in 1..Len(t) /\ st[i] = t[i - Len(s)] /\ i > Len(s)
  BY <1>1, <1>2
<1>4. Sorted(s) /\ Sorted(t) /\ Before(s, t) => Sorted(st)
  <2> SUFFICES ASSUME Sorted(s), Sorted(t), Before(s, t),
                      NEW i \in 1..Len(st), NEW j \in 1..Len(st), i < j
               PROVE  st[i].n < st[j].n
    BY DEF Sorted
  <2>1. CASE i \in 1..Len(s) /\ st[i] = s[i] /\ j \in 1..Len(s) /\ st[j] = s[j]
    BY <2>1 DEF Sorted
  <2>2. CASE i \in 1..Len(s) /\ st[i] = s[i] /\ j - Len(s) \in 1..Len(t) /\ st[j] = t[j - Len(s)]
    BY <2>2 DEF Before
  <2>3. CASE i > Len(s) /\ i - Len(s) \in 1..Len(t) /\ st[i] = t[i - Len(s)]
    <3>1. j - Len(s) \in 1..Len(t) /\ st[j] = t[j - Len(s)] /\ i - Len(s) < j - Len(s)
      BY <1>1, <1>3, <2>3
    <3> QED
      BY <2>3, <3>1 DEF Sorted
  <2> QED
    BY <1>1, <1>3, <2>1, <2>2, <2>3
<1>5. Before(s, u) /\ Before(t, u) => Before(st, u)
  BY <1>3 DEF Before
<1>6. Before(u, s) /\ Before(u, t) => Before(u, st)
  BY <1>3 DEF Before
<1>7. (UpTo(s, k) /\ UpTo(t, k) => UpTo(st, k)) /\ (Above(s, k) /\ Above(t, k) => Above(st, k))
  BY <1>3 DEF UpTo, Above
<1> QED
  BY <1>4, <1>5, <1>6, <1>7 DEF st

\* Push drops the oldest entry at most and puts a newer one behind the others.
LEMMA PushOrdered ==
    ASSUME NEW s \in Seq(Entry), Len(s) <= Capacity, NEW e \in Entry
    PROVE  \E t \in Seq(Entry) : PartOf(t, s) /\ Push(s, e) = t \o <<e>>
<1>1. Capacity \in Nat \ {0} /\ Len(s) \in Nat
  BY CapacityPositive, LenProperties
<1>2. CASE Len(s) = Capacity
  <2>1. s # <<>>
    BY <1>1, <1>2, EmptySeq
  <2>2. /\ Tail(s) \in Seq(Entry) /\ Len(Tail(s)) = Len(s) - 1
        /\ \A i \in 1..Len(Tail(s)) : Tail(s)[i] = s[i + 1]
    BY <2>1, HeadTailProperties
  <2>3. PartOf(Tail(s), s)
    BY <1>1, <2>2 DEF PartOf
  <2>4. Push(s, e) = Tail(s) \o <<e>>
    BY <1>2, <2>2, AppendIsConcat DEF Push
  <2> QED
    BY <2>2, <2>3, <2>4
<1>3. CASE Len(s) # Capacity
  <2>1. PartOf(s, s)
    BY <1>1 DEF PartOf
  <2>2. Push(s, e) = s \o <<e>>
    BY <1>3, AppendIsConcat DEF Push
  <2> QED
    BY <2>1, <2>2
<1> QED
  BY <1>2, <1>3

LEMMA OneOrdered ==
    ASSUME NEW e \in Entry, NEW s, NEW k \in Nat
    PROVE  /\ <<e>> \in Seq(Entry) /\ Sorted(<<e>>)
           /\ UpTo(s, k) /\ k < e.n /\ s \in Seq(Entry) => Before(s, <<e>>)
           /\ UpTo(<<e>>, e.n)
           /\ k < e.n => Above(<<e>>, k)
<1>1. <<e>> \in Seq(Entry) /\ Len(<<e>>) = 1 /\ <<e>>[1] = e /\ e.n \in Nat
  BY BoundsType DEF Entry
<1>2. Sorted(<<e>>) /\ UpTo(<<e>>, e.n) /\ (k < e.n => Above(<<e>>, k))
  BY <1>1 DEF Sorted, UpTo, Above
<1>3. ASSUME UpTo(s, k), k < e.n, s \in Seq(Entry)
      PROVE  Before(s, <<e>>)
  <2>1. ASSUME NEW i \in 1..Len(s) PROVE s[i].n \in Nat
    <3>1. s[i] \in Entry
      BY <1>3, ElementOfSeq
    <3> QED
      BY <3>1, BoundsType DEF Entry
  <2> QED
    BY <1>1, <1>3, <2>1 DEF Before, UpTo
<1> QED
  BY <1>1, <1>2, <1>3
(***************************************************************************)
(* The inductive invariant behind LogOrdered: each piece of the log is     *)
(* sorted, the pieces follow each other and no number is above the last    *)
(* one pushed.  A flush whose file was renamed under it finds no newer     *)
(* file, because only the holder of fileFlushLock makes one.               *)
(***************************************************************************)
PiecesSorted ==
    /\ Sorted(Content(old)) /\ Sorted(Content(cur)) /\ Sorted(bytes) /\ Sorted(buffer)

PiecesFollow ==
    /\ Before(Content(old), Content(cur)) /\ Before(Content(old), bytes)
    /\ Before(Content(old), buffer) /\ Before(Content(cur), bytes)
    /\ Before(Content(cur), buffer) /\ Before(bytes, buffer)

PiecesPushed ==
    /\ UpTo(Content(old), pushed) /\ UpTo(Content(cur), pushed)
    /\ UpTo(bytes, pushed) /\ UpTo(buffer, pushed)

RenamedLast == fd # "gone" /\ (fd = "old" => cur = None)

OrderInv == PiecesSorted /\ PiecesFollow /\ PiecesPushed /\ RenamedLast

LEMMA OrderedPieces == TypeOK /\ OrderInv => LogOrdered
<1> SUFFICES ASSUME TypeOK, OrderInv PROVE LogOrdered
  OBVIOUS
<1> DEFINE o == Content(old)
<1> DEFINE c == Content(cur)
<1>1. o \in Seq(Entry) /\ c \in Seq(Entry) /\ bytes \in Seq(Entry) /\ buffer \in Seq(Entry)
  BY ContentType DEF TypeOK, MemoryOK, HolderOK, FilesOK
<1>2. /\ Sorted(o) /\ Sorted(c) /\ Sorted(bytes) /\ Sorted(buffer)
      /\ Before(o, c) /\ Before(o, bytes) /\ Before(o, buffer)
      /\ Before(c, bytes) /\ Before(c, buffer) /\ Before(bytes, buffer)
  BY DEF OrderInv, PiecesSorted, PiecesFollow
<1> HIDE DEF o, c
<1>3. o \o c \in Seq(Entry) /\ Sorted(o \o c) /\ Before(o \o c, bytes) /\ Before(o \o c, buffer)
  BY <1>1, <1>2, ConcatOrdered, ConcatProperties
<1>4. /\ (o \o c) \o bytes \in Seq(Entry) /\ Sorted((o \o c) \o bytes)
      /\ Before((o \o c) \o bytes, buffer)
  BY <1>1, <1>2, <1>3, ConcatOrdered, ConcatProperties
<1>5. Sorted(((o \o c) \o bytes) \o buffer)
  BY <1>1, <1>2, <1>4, ConcatOrdered
<1>6. Whole = ((o \o c) \o bytes) \o buffer
  BY DEF Whole, o, c
<1> QED
  BY <1>5, <1>6 DEF LogOrdered, Sorted

LEMMA OrderInit == Init => OrderInv
<1> SUFFICES ASSUME Init PROVE OrderInv
  OBVIOUS
<1>1. Content(old) = <<>> /\ Content(cur) = <<>> /\ bytes = <<>> /\ buffer = <<>> /\ fd = None
  BY DEF Init, Content
<1>2. PiecesSorted /\ PiecesFollow /\ PiecesPushed
  BY <1>1, EmptyOrdered DEF PiecesSorted, PiecesFollow, PiecesPushed
<1> QED
  BY <1>1, <1>2, QueryLogAssumption DEF OrderInv, RenamedLast

\* The entries that a flush has written go from bytes to the end of its file.
LEMMA WriteOrder ==
    ASSUME TypeInv, OrderInv, at = "write", Release, UNCHANGED <<buffer, pushed>>,
           NEW s \in Seq(Entry), PartOf(s, bytes), WriteTo(s)
    PROVE  OrderInv'
<1>1. /\ Content(old) \in Seq(Entry) /\ Content(cur) \in Seq(Entry)
      /\ bytes \in Seq(Entry) /\ buffer \in Seq(Entry)
  BY ContentType DEF TypeInv, TypeOK, MemoryOK, HolderOK, FilesOK
<1>2. bytes' = <<>> /\ buffer' = buffer /\ pushed' = pushed /\ fd' = None
  BY DEF Release
<1>3. /\ Sorted(s) /\ UpTo(s, pushed) /\ Before(s, buffer)
      /\ Before(Content(old), s) /\ Before(Content(cur), s)
  BY <1>1, PartOrdered DEF OrderInv, PiecesSorted, PiecesFollow, PiecesPushed
<1>4. CASE fd = "cur"
  <2>1. Content(old)' = Content(old) /\ Content(cur)' = Content(cur) \o s
    <3>0. cur \in Seq(Entry)
      BY <1>4 DEF TypeInv, TypeOK, FilesOK
    <3>1. cur # None /\ cur \o s # None
      BY <3>0, NoneApart, ConcatProperties
    <3>2. old' = old /\ cur' = cur \o s
      BY <1>4 DEF WriteTo
    <3> QED
      BY <3>0, <3>1, <3>2 DEF Content
  <2>2. /\ Sorted(Content(cur) \o s) /\ UpTo(Content(cur) \o s, pushed)
        /\ Before(Content(old), Content(cur) \o s) /\ Before(Content(cur) \o s, buffer)
    BY <1>1, <1>3, ConcatOrdered DEF OrderInv, PiecesSorted, PiecesFollow, PiecesPushed
  <2> QED
    BY <1>2, <2>1, <2>2, EmptyOrdered, QueryLogAssumption
       DEF OrderInv, PiecesSorted, PiecesFollow, PiecesPushed, RenamedLast
<1>5. CASE fd = "old"
  <2>1. Content(old)' = Content(old) \o s /\ Content(cur)' = <<>>
    <3>0. old \in Seq(Entry) /\ cur = None
      BY <1>5 DEF TypeInv, TypeOK, FilesOK, OrderInv, RenamedLast
    <3>1. old # None /\ old \o s # None
      BY <3>0, NoneApart, ConcatProperties
    <3>2. old' = old \o s /\ cur' = cur
      BY <1>5 DEF WriteTo
    <3> QED
      BY <3>0, <3>1, <3>2 DEF Content
  <2>2. /\ Sorted(Content(old) \o s) /\ UpTo(Content(old) \o s, pushed)
        /\ Before(Content(old) \o s, buffer)
    BY <1>1, <1>3, ConcatOrdered DEF OrderInv, PiecesSorted, PiecesFollow, PiecesPushed
  <2> QED
    BY <1>2, <2>1, <2>2, EmptyOrdered, QueryLogAssumption
       DEF OrderInv, PiecesSorted, PiecesFollow, PiecesPushed, RenamedLast
<1> QED
  BY <1>4, <1>5 DEF TypeInv, TypeOK, FilesOK, OrderInv, RenamedLast

\* A new entry has the highest number.
LEMMA AddOrder ==
    ASSUME TypeInv, TypeInv', OrderInv, NEW w \in Worker, Add(w)
    PROVE  OrderInv'
<1> DEFINE e == [n |-> pushed + 1, t |-> pending[w]]
<1>0. pushed \in Nat /\ pushed' = pushed + 1 /\ pushed' <= MaxEntries
  BY BoundsType DEF TypeInv, TypeOK, MemoryOK, Add
<1>1. e \in Entry /\ e.n = pushed + 1
  BY <1>0, BoundsType DEF Add, TypeInv, TypeOK, MemoryOK, Entry
<1>2. /\ Content(old) \in Seq(Entry) /\ Content(cur) \in Seq(Entry)
      /\ bytes \in Seq(Entry) /\ buffer \in Seq(Entry) /\ Len(buffer) <= Capacity
  BY ContentType DEF TypeInv, TypeOK, MemoryOK, HolderOK, FilesOK
<1>3. buffer' = Push(buffer, e) /\ UNCHANGED <<old, cur, bytes, fd>>
  BY DEF Add, lock, disk
<1> HIDE DEF e
<1>4. PICK t \in Seq(Entry) : PartOf(t, buffer) /\ Push(buffer, e) = t \o <<e>>
  BY <1>1, <1>2, PushOrdered
<1>5. /\ Sorted(t) /\ UpTo(t, pushed)
      /\ Before(Content(old), t) /\ Before(Content(cur), t) /\ Before(bytes, t)
  BY <1>2, <1>4, PartOrdered DEF OrderInv, PiecesSorted, PiecesFollow, PiecesPushed
<1>6. /\ <<e>> \in Seq(Entry) /\ Sorted(<<e>>) /\ UpTo(<<e>>, pushed + 1) /\ Before(t, <<e>>)
      /\ Before(Content(old), <<e>>) /\ Before(Content(cur), <<e>>) /\ Before(bytes, <<e>>)
  BY <1>0, <1>1, <1>2, <1>5, OneOrdered DEF OrderInv, PiecesPushed
<1>7. ASSUME NEW s \in Seq(Entry), UpTo(s, pushed)
      PROVE  UpTo(s, pushed + 1)
  <2>1. ASSUME NEW i \in 1..Len(s) PROVE s[i].n \in Nat
    <3>1. s[i] \in Entry
      BY ElementOfSeq
    <3> QED
      BY <3>1, BoundsType DEF Entry
  <2> QED
    BY <1>0, <1>7, <2>1 DEF UpTo
<1>8. /\ Sorted(t \o <<e>>) /\ UpTo(t \o <<e>>, pushed + 1)
      /\ Before(Content(old), t \o <<e>>) /\ Before(Content(cur), t \o <<e>>)
      /\ Before(bytes, t \o <<e>>)
  BY <1>5, <1>6, <1>7, ConcatOrdered
<1>9. UpTo(Content(old), pushed + 1) /\ UpTo(Content(cur), pushed + 1) /\ UpTo(bytes, pushed + 1)
  BY <1>2, <1>7 DEF OrderInv, PiecesPushed
<1>10. Content(old)' = Content(old) /\ Content(cur)' = Content(cur)
  BY <1>3 DEF Content
<1> QED
  BY <1>0, <1>3, <1>4, <1>8, <1>9, <1>10
     DEF OrderInv, PiecesSorted, PiecesFollow, PiecesPushed, RenamedLast

LEMMA OrderStep == TypeInv /\ TypeInv' /\ OrderInv /\ [Next]_vars => OrderInv'
<1> SUFFICES ASSUME TypeInv, TypeInv', OrderInv, [Next]_vars PROVE OrderInv'
  OBVIOUS
<1> USE QueryLogAssumption
<1>1. CASE UNCHANGED <<pushed, buffer, bytes, old, cur, fd>>
  BY <1>1 DEF OrderInv, PiecesSorted, PiecesFollow, PiecesPushed, RenamedLast, Content
<1>2. CASE Tick \/ Shutdown \/ ClearLock \/ checkAndRotate \/ NotRotating
           \/ searchMemory \/ SearchOld \/ SearchCur \/ SearchEnd \/ FlushLock
           \/ (\E e \in BOOLEAN, i \in Ivls : SetConfig(e, i))
           \/ (\E w \in Worker : newLogEntry(w)) \/ UNCHANGED vars
  BY <1>1, <1>2 DEF Tick, Shutdown, ClearLock, checkAndRotate, NotRotating, searchMemory,
     SearchOld, SearchCur, SearchEnd, FlushLock, SetConfig, newLogEntry, vars, mem, lock, disk
<1>3. ASSUME NEW w \in Worker, Add(w) PROVE OrderInv'
  BY <1>3, AddOrder
\* Entries are only dropped.
<1>4. CASE EncodeFails \/ OpenFails \/ ClearBuffer \/ ClearOld \/ ClearCur \/ Restart
  <2>1. /\ pushed' = pushed /\ (buffer' = buffer \/ buffer' = <<>>)
        /\ (bytes' = bytes \/ bytes' = <<>>) /\ (fd' = fd \/ fd' = None)
        /\ (Content(cur)' = Content(cur) \/ Content(cur)' = <<>>)
        /\ (Content(old)' = Content(old) \/ Content(old)' = <<>>)
        /\ (cur' = cur \/ cur' = None)
    BY <1>4 DEF EncodeFails, OpenFails, ClearBuffer, ClearOld, ClearCur, Restart, Release,
       RemovedOld, mem, disk, Content
  <2>2. PiecesSorted'
    BY <2>1, EmptyOrdered DEF OrderInv, PiecesSorted
  <2>3. PiecesFollow'
    BY <2>1, EmptyOrdered DEF OrderInv, PiecesFollow
  <2>4. PiecesPushed'
    BY <2>1, EmptyOrdered DEF OrderInv, PiecesPushed
  <2>5. RenamedLast'
    BY <2>1 DEF OrderInv, RenamedLast
  <2> QED
    BY <2>2, <2>3, <2>4, <2>5 DEF OrderInv
<1>5. CASE encodeEntries
  <2>1. /\ bytes' = buffer /\ buffer' = <<>> /\ pushed' = pushed /\ fd' = fd
        /\ cur' = cur /\ Content(old)' = Content(old) /\ Content(cur)' = Content(cur)
    BY <1>5 DEF encodeEntries, TakeBuffer, disk, Content
  <2> QED
    BY <2>1, EmptyOrdered DEF OrderInv, PiecesSorted, PiecesFollow, PiecesPushed, RenamedLast
<1>6. CASE OpenFile
  <2>1. Content(cur)' = Content(cur) /\ Content(old)' = Content(old)
    BY <1>6, ContentType DEF OpenFile, Content, TypeInv, TypeOK, FilesOK
  <2>2. UNCHANGED <<pushed, buffer, bytes>> /\ fd' = "cur"
    BY <1>6 DEF OpenFile, mem
  <2> QED
    BY <2>1, <2>2 DEF OrderInv, PiecesSorted, PiecesFollow, PiecesPushed, RenamedLast
<1>7. CASE WriteFile
  <2>1. bytes \in Seq(Entry) /\ PartOf(bytes, bytes)
    BY PartOfItself DEF TypeInv, TypeOK, HolderOK
  <2> QED
    BY <1>7, <2>1, WriteOrder DEF WriteFile, mem
<1>8. CASE WriteFails
  <2>1. PICK k \in 0..(Len(bytes) - 1) : WriteTo(SubSeq(bytes, 1, k))
    BY <1>8 DEF WriteFails
  <2>2. SubSeq(bytes, 1, k) \in Seq(Entry) /\ PartOf(SubSeq(bytes, 1, k), bytes)
    BY PrefixPart DEF TypeInv, TypeOK, HolderOK
  <2> QED
    BY <1>8, <2>1, <2>2, WriteOrder DEF WriteFails, mem
<1>9. CASE rotate
  <2>1. CASE cur = None
    BY <1>1, <1>9, <2>1 DEF rotate, mem, disk
  <2>2. CASE cur # None
    <3>1. /\ Content(old)' = Content(cur) /\ Content(cur)' = <<>> /\ cur' = None
          /\ UNCHANGED <<pushed, buffer, bytes>>
      BY <1>9, <2>2 DEF rotate, mem, Content
    <3>2. fd' # "gone"
      BY <1>9, <2>2 DEF rotate, OrderInv, RenamedLast
    <3> QED
      BY <3>1, <3>2, EmptyOrdered
         DEF OrderInv, PiecesSorted, PiecesFollow, PiecesPushed, RenamedLast
  <2> QED
    BY <2>1, <2>2
<1> QED
  BY <1>2, <1>3, <1>4, <1>5, <1>6, <1>7, <1>8, <1>9 DEF Next, FlushStep, ClearStep

LEMMA OrderInvariant == Spec => []OrderInv
BY OrderInit, OrderStep, TypeInvariant, PTL DEF Spec

\* No flush, rotation, failed write, clear or restart repeats an entry or changes
\* the order in which Add pushed them, over both files, what flushLogBuffer has
\* encoded and the buffer, although rotate takes no lock.
THEOREM OrderCorrect == Spec => []LogOrdered
BY OrderInvariant, TypeInvariant, OrderedPieces, PTL DEF TypeInv
(***************************************************************************)
(* The inductive invariant behind ClearComplete: how far a clear has come. *)
(***************************************************************************)
\* What is left of the log before the last clear, if no rotation crossed it.
ClearedSoFar ==
    /\ holder # "clear" => /\ Above(Content(old), cutoff) /\ Above(Content(cur), cutoff)
                           /\ Above(bytes, cutoff) /\ Above(buffer, cutoff)
    /\ at \in {"old", "cur"} => Above(buffer, cutoff)
    /\ at = "cur" => old = None

ClearInv == cutoff <= pushed /\ (~crossed => ClearedSoFar)

LEMMA AboveNumbers ==
    ASSUME NEW s \in Seq(Entry), NEW k \in Nat, Above(s, k)
    PROVE  \A n \in Numbers(s) : n > k
BY DEF Above, Numbers

LEMMA ClearedLog == TypeOK /\ ClearInv => ClearComplete
<1> SUFFICES ASSUME TypeOK, ClearInv, holder # "clear", ~crossed
             PROVE  \A n \in Logged : n > cutoff
  BY DEF ClearComplete
<1>1. /\ Content(old) \in Seq(Entry) /\ Content(cur) \in Seq(Entry)
      /\ bytes \in Seq(Entry) /\ buffer \in Seq(Entry) /\ cutoff \in Nat
  BY ContentType, BoundsType DEF TypeOK, MemoryOK, HolderOK, FilesOK, RestOK
<1>2. /\ Above(Content(old), cutoff) /\ Above(Content(cur), cutoff)
      /\ Above(bytes, cutoff) /\ Above(buffer, cutoff)
  BY DEF ClearInv, ClearedSoFar
<1> QED
  BY <1>1, <1>2, AboveNumbers DEF Logged

LEMMA ClearInit == Init => ClearInv
<1> SUFFICES ASSUME Init PROVE ClearInv
  OBVIOUS
<1>1. Content(old) = <<>> /\ Content(cur) = <<>> /\ bytes = <<>> /\ buffer = <<>>
  BY DEF Init, Content
<1> QED
  BY <1>1, EmptyOrdered DEF Init, ClearInv, ClearedSoFar

LEMMA AllAboveZero ==
    ASSUME NEW s \in Seq(Entry)
    PROVE  Above(s, 0)
<1>1. ASSUME NEW i \in 1..Len(s) PROVE s[i].n > 0
  <2>1. s[i] \in Entry
    BY ElementOfSeq
  <2> QED
    BY <2>1, BoundsType DEF Entry
<1> QED
  BY <1>1 DEF Above

\* Whoever writes to a file does not clear, and what it writes is above cutoff.
LEMMA WriteCleared ==
    ASSUME TypeInv, ClearInv, at = "write", Release, UNCHANGED <<buffer, pushed, cutoff, crossed>>,
           NEW s \in Seq(Entry), PartOf(s, bytes), WriteTo(s)
    PROVE  ClearInv'
<1> SUFFICES ASSUME ~crossed PROVE ClearedSoFar'
  BY DEF ClearInv
<1>1. bytes \in Seq(Entry) /\ holder # "clear"
  BY DEF TypeInv, TypeOK, HolderOK
<1>2. Above(s, cutoff) /\ Above(Content(old), cutoff) /\ Above(Content(cur), cutoff)
      /\ Above(buffer, cutoff)
  BY <1>1, PartOrdered DEF ClearInv, ClearedSoFar
<1>3. ASSUME NEW f \in Seq(Entry), Above(f, cutoff)
      PROVE  Above(Content(f \o s), cutoff)
  <2>1. f \o s \in Seq(Entry) /\ f \o s # None
    BY ConcatProperties, NoneApart
  <2> QED
    BY <1>2, <1>3, <2>1, ConcatOrdered DEF Content
<1>4. Above(Content(cur), cutoff)'
  <2>1. CASE fd = "cur"
    <3>1. cur \in Seq(Entry) /\ Content(cur) = cur
      BY <2>1, NoneApart DEF TypeInv, TypeOK, FilesOK, Content
    <3> QED
      BY <1>2, <1>3, <2>1, <3>1 DEF WriteTo
  <2>2. CASE fd # "cur"
    BY <1>2, <2>2 DEF WriteTo
  <2> QED
    BY <2>1, <2>2
<1>5. Above(Content(old), cutoff)'
  <2>1. CASE fd = "old"
    <3>1. old \in Seq(Entry) /\ Content(old) = old
      BY <2>1, NoneApart DEF TypeInv, TypeOK, FilesOK, Content
    <3> QED
      BY <1>2, <1>3, <2>1, <3>1 DEF WriteTo
  <2>2. CASE fd # "old"
    BY <1>2, <2>2 DEF WriteTo
  <2> QED
    BY <2>1, <2>2
<1> QED
  BY <1>2, <1>4, <1>5, EmptyOrdered DEF Release, ClearedSoFar

LEMMA ClearStepInv == TypeInv /\ TypeInv' /\ ClearInv /\ [Next]_vars => ClearInv'
<1> SUFFICES ASSUME TypeInv, TypeInv', ClearInv, [Next]_vars PROVE ClearInv'
  OBVIOUS
<1>0. HolderOK /\ cutoff \in Nat /\ pushed \in Nat /\ buffer \in Seq(Entry)
  BY BoundsType DEF TypeInv, TypeOK, MemoryOK, RestOK
<1>1. CASE UNCHANGED <<pushed, buffer, bytes, old, cur, holder, at, cutoff, crossed>>
  BY <1>1 DEF ClearInv, ClearedSoFar, Content
<1>2. CASE Tick \/ checkAndRotate \/ NotRotating
           \/ searchMemory \/ SearchOld \/ SearchCur \/ SearchEnd
           \/ (\E e \in BOOLEAN, i \in Ivls : SetConfig(e, i))
           \/ (\E w \in Worker : newLogEntry(w)) \/ UNCHANGED vars
  BY <1>1, <1>2 DEF Tick, checkAndRotate, NotRotating, searchMemory,
     SearchOld, SearchCur, SearchEnd, SetConfig, newLogEntry, vars, mem, lock, disk, history
<1>3. ASSUME NEW w \in Worker, Add(w) PROVE ClearInv'
  <2> DEFINE e == [n |-> pushed + 1, t |-> pending[w]]
  <2>1. e \in Entry /\ e.n = pushed + 1
    BY <1>0, <1>3, BoundsType DEF Add, TypeInv, TypeOK, MemoryOK, Entry
  <2>2. /\ buffer' = Push(buffer, e) /\ pushed' = pushed + 1
        /\ UNCHANGED <<old, cur, bytes, holder, at, cutoff, crossed>>
    BY <1>3 DEF Add, lock, disk
  <2> HIDE DEF e
  <2>3. PICK t \in Seq(Entry) : PartOf(t, buffer) /\ Push(buffer, e) = t \o <<e>>
    BY <1>0, <2>1, PushOrdered DEF TypeInv, TypeOK, MemoryOK
  <2>4. Above(buffer, cutoff) => Above(buffer', cutoff)
    <3>1. cutoff < e.n
      BY <1>0, <2>1 DEF ClearInv
    <3>2. <<e>> \in Seq(Entry) /\ Above(<<e>>, cutoff)
      BY <1>0, <2>1, <3>1, OneOrdered
    <3>3. Above(buffer, cutoff) => Above(t, cutoff)
      BY <1>0, <2>3, PartOrdered
    <3>4. Above(t, cutoff) => Above(t \o <<e>>, cutoff)
      BY <2>3, <3>2, ConcatOrdered
    <3> QED
      BY <2>2, <2>3, <3>3, <3>4
  <2> QED
    BY <1>0, <2>2, <2>4 DEF ClearInv, ClearedSoFar, Content
<1>4. CASE Shutdown \/ FlushLock
  BY <1>4 DEF Shutdown, FlushLock, mem, disk, history, ClearInv, ClearedSoFar, Content
<1>5. CASE EncodeFails \/ OpenFails
  <2>1. holder # "clear"
    BY <1>0, <1>5 DEF HolderOK, EncodeFails, OpenFails
  <2> QED
    BY <1>5, <2>1, EmptyOrdered DEF EncodeFails, OpenFails, Release, mem, disk, history,
       ClearInv, ClearedSoFar, Content
<1>6. CASE encodeEntries
  <2>1. holder # "clear"
    BY <1>0, <1>6 DEF HolderOK, encodeEntries
  <2> QED
    BY <1>6, <2>1, EmptyOrdered DEF encodeEntries, TakeBuffer, disk, history,
       ClearInv, ClearedSoFar, Content
<1>7. CASE OpenFile
  <2>1. Content(cur)' = Content(cur) /\ Content(old)' = Content(old)
    BY <1>7, ContentType DEF OpenFile, Content, TypeInv, TypeOK, FilesOK
  <2>2. holder # "clear"
    BY <1>0, <1>7 DEF HolderOK, OpenFile
  <2> QED
    BY <1>7, <2>1, <2>2 DEF OpenFile, mem, history, ClearInv, ClearedSoFar
<1>8. CASE WriteFile
  <2>1. bytes \in Seq(Entry) /\ PartOf(bytes, bytes)
    BY PartOfItself DEF TypeInv, TypeOK, HolderOK
  <2> QED
    BY <1>8, <2>1, WriteCleared DEF WriteFile, mem, history
<1>9. CASE WriteFails
  <2>1. PICK k \in 0..(Len(bytes) - 1) : WriteTo(SubSeq(bytes, 1, k))
    BY <1>9 DEF WriteFails
  <2>2. SubSeq(bytes, 1, k) \in Seq(Entry) /\ PartOf(SubSeq(bytes, 1, k), bytes)
    BY PrefixPart DEF TypeInv, TypeOK, HolderOK
  <2> QED
    BY <1>9, <2>1, <2>2, WriteCleared DEF WriteFails, mem, history
<1>10. CASE ClearLock
  BY <1>0, <1>10 DEF ClearLock, mem, ClearInv, ClearedSoFar
<1>11. CASE ClearBuffer
  BY <1>0, <1>11, EmptyOrdered DEF ClearBuffer, HolderOK, history, ClearInv, ClearedSoFar
<1>12. CASE ClearOld
  BY <1>0, <1>12 DEF ClearOld, RemovedOld, HolderOK, mem, history, ClearInv, ClearedSoFar
<1>13. CASE ClearCur
  <2>1. ~crossed => Content(old)' = <<>> /\ Content(cur)' = <<>> /\ Above(buffer, cutoff)
    BY <1>13 DEF ClearCur, ClearInv, ClearedSoFar, Content
  <2> QED
    BY <1>13, <2>1, EmptyOrdered DEF ClearCur, Release, mem, history, ClearInv, ClearedSoFar
<1>14. CASE rotate
  <2>1. CASE cur = None
    BY <1>1, <1>14, <2>1 DEF rotate, mem, disk
  <2>2. CASE cur # None
    <3>1. /\ Content(old)' = Content(cur) /\ Content(cur)' = <<>>
          /\ UNCHANGED <<pushed, buffer, bytes, holder, at, cutoff>>
      BY <1>14, <2>2 DEF rotate, mem, Content
    <3>2. crossed' = (crossed \/ at \in {"old", "cur"})
      BY <1>14, <2>2, Zenon DEF rotate
    <3>3. ~crossed' => ~crossed /\ at \notin {"old", "cur"}
      BY <3>2, Zenon
    <3>4. CASE ~crossed'
      BY <3>1, <3>3, <3>4, EmptyOrdered DEF ClearInv, ClearedSoFar
    <3> QED
      BY <3>1, <3>4 DEF ClearInv
  <2> QED
    BY <2>1, <2>2
<1>15. CASE Restart
  <2>1. Content(old) \in Seq(Entry) /\ Content(cur) \in Seq(Entry)
    BY ContentType DEF TypeInv, TypeOK, FilesOK
  <2>2. cutoff' <= pushed'
    BY <1>0, <1>15 DEF Restart, ClearInv
  <2>3. ASSUME ~crossed PROVE Above(Content(old), cutoff') /\ Above(Content(cur), cutoff')
    BY <1>15, <2>1, <2>3, AllAboveZero DEF Restart, ClearInv, ClearedSoFar
  <2> QED
    BY <1>15, <2>2, <2>3, EmptyOrdered DEF Restart, Release, disk, Content, ClearInv, ClearedSoFar
<1> QED
  BY <1>2, <1>3, <1>4, <1>5, <1>6, <1>7, <1>8, <1>9, <1>10, <1>11, <1>12, <1>13, <1>14, <1>15
     DEF Next, FlushStep, ClearStep

\* When clear is done, nothing that was logged before it is left in the buffer,
\* with a flush or in either file, unless a rotation carried the current file over
\* the two removals of clear; a restart in the middle of a clear promises nothing.
THEOREM ClearCorrect == Spec => []ClearComplete
<1>1. Spec => []ClearInv
  BY ClearInit, ClearStepInv, TypeInvariant, PTL DEF Spec
<1> QED
  BY <1>1, TypeInvariant, ClearedLog, PTL DEF TypeInv
===============================================================================
