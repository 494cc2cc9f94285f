-------------------------- MODULE FileCacheProofs --------------------------
(***************************************************************************)
(* Proofs about FileCache: the invariant FInv and what follows from it.    *)
(***************************************************************************)
EXTENDS FileCache, FiniteSetTheorems, TLAPS

\* Where a request is says whether it has a file open, and how far it is.
OpenPlaces ==
  \A r \in Requests :
    /\ pc[r] \in {"lock", "write", "read"} <=> file[r] # None
    /\ pc[r] # "write" => pos[r] = 0
    /\ pc[r] = "lock" => kind = "picture"

\* The last that has emptied the inode is under way, and has written all it has passed.
Under(i) == \E r \in Requests :
  Generating(r) /\ file[r] = i /\ 1 .. pos[r] \subseteq blocks[i]

\* Inodes that have a name or are open.
Held(i) == i \in Inodes /\ (i = final \/ i = tmp \/ \E r \in Requests : file[r] = i)

WrittenOrUnder == \A i \in Inodes : Held(i) => Whole(i) \/ i \in spoiled \/ Under(i)

\* Alone, a writer has a file that nobody can see, and it has it up to where it is.
OneWriter == \A q, r \in Requests : Generating(q) /\ Generating(r) => q = r
Apart ==
  /\ tmp # None => tmp \notin Visible
  /\ \A r \in Requests : Generating(r) =>
       tmp \in {file[r], None} /\ file[r] \notin Visible /\ blocks[file[r]] = 1 .. pos[r]
Solo == kind = "picture" /\ ~overlapped =>
  OneWriter /\ Apart /\ \A i \in Visible : Whole(i)

FInv == TypeOK /\ OpenPlaces /\ WrittenOrUnder /\ SomethingToSend /\ Solo

\* One that is about to open a file finds an inode that is not used.
LEMMA FreeInode ==
  ASSUME TypeOK, NEW r \in Requests, file[r] = None
  PROVE  \E i \in Inodes : i \notin Used
<1> DEFINE n == Cardinality(Requests)
           Others == Requests \ {r}
           image == {file[q] : q \in Others}
           g == [q \in Others |-> file[q]]
<1>1. IsFiniteSet(Requests) /\ n \in Nat
  BY CacheAssumption, FS_CardinalityType DEF CacheAssumption
<1>2. IsFiniteSet(Others) /\ Cardinality(Others) = n - 1
  BY <1>1, FS_RemoveElement
<1>3. g \in Surjection(Others, image)
  BY DEF Surjection
<1>4. IsFiniteSet(image) /\ Cardinality(image) <= n - 1
  BY <1>2, <1>3, FS_Surjection
<1>5. Cardinality(image) \in Nat
  BY <1>4, FS_CardinalityType
<1> HIDE DEF image
<1>6. /\ IsFiniteSet(image \cup {final})
      /\ Cardinality(image \cup {final}) <= n /\ Cardinality(image \cup {final}) \in Nat
  <2>1. IsFiniteSet(image \cup {final}) /\ Cardinality(image \cup {final}) =
          IF final \in image THEN Cardinality(image) ELSE Cardinality(image) + 1
    BY <1>4, FS_AddElement
  <2> QED BY <1>1, <1>4, <1>5, <2>1
<1>7. /\ IsFiniteSet((image \cup {final}) \cup {tmp})
      /\ Cardinality((image \cup {final}) \cup {tmp}) <= n + 1
      /\ Cardinality((image \cup {final}) \cup {tmp}) \in Nat
  <2>1. IsFiniteSet((image \cup {final}) \cup {tmp})
        /\ Cardinality((image \cup {final}) \cup {tmp}) =
          IF tmp \in image \cup {final} THEN Cardinality(image \cup {final})
          ELSE Cardinality(image \cup {final}) + 1
    BY <1>6, FS_AddElement
  <2> QED BY <1>1, <1>6, <2>1
<1>8. Cardinality(Inodes) = n + 2 /\ IsFiniteSet(Inodes)
  BY <1>1, FS_Interval DEF Inodes
<1>9. SUFFICES ASSUME Inodes \subseteq Used PROVE FALSE
  OBVIOUS
<1>10. Inodes \in SUBSET ((image \cup {final}) \cup {tmp})
  <2>1. None \notin Inodes
    BY <1>1 DEF Inodes, None
  <2> QED BY <1>9, <2>1 DEF Used, image
<1>11. Cardinality(Inodes) <= Cardinality((image \cup {final}) \cup {tmp})
  BY <1>7, <1>10, FS_Subset
<1> QED BY <1>1, <1>7, <1>8, <1>11

\* The file that is opened is an inode, and no other name's when it is a new one.
LEMMA OpenedInode ==
  ASSUME TypeOK, NEW r \in Requests, file[r] = None, NEW name \in Inodes \cup {None}
  PROVE  /\ Opened(name) \in Inodes
         /\ name # None => Opened(name) = name
         /\ name = None => Opened(name) \notin Used
BY FreeInode DEF Opened

LEMMA NoneNoInode == None \notin Inodes
BY DEF None, Inodes

\* What is kept keeps its content; the rest is forgotten.
LEMMA Stored ==
  ASSUME NEW b, NEW s, Store(b, s)
  PROVE  \A i \in Inodes :
           /\ blocks'[i] = IF Held(i)' THEN b[i] ELSE {}
           /\ i \in spoiled' <=> i \in s /\ Held(i)'
BY NoneNoInode DEF Store, Kept, Held

LEMMA StoredType ==
  ASSUME NEW b \in [Inodes -> SUBSET (1 .. Size)], NEW s, s \subseteq Inodes, Store(b, s)
  PROVE  blocks' \in [Inodes -> SUBSET (1 .. Size)] /\ spoiled' \subseteq Inodes
BY DEF Store

LEMMA ReplaceOne ==
  ASSUME NEW P, NEW E, NEW f \in [P -> E], NEW p \in P, NEW v \in E
  PROVE  [f EXCEPT ![p] = v] \in [P -> E]
OBVIOUS

\* Every step keeps the types and the places.
LEMMA TypeStep ==
  ASSUME TypeOK, OpenPlaces, [Next]_vars
  PROVE  TypeOK' /\ OpenPlaces'
<1> USE CacheAssumption, NoneNoInode, ReplaceOne DEF CacheAssumption, config, fileVars, historyVars, Goto, Places
<1>1. ASSUME NEW r \in Requests, Lookup(r) PROVE TypeOK' /\ OpenPlaces'
  BY <1>1 DEF Lookup, TypeOK, OpenPlaces
<1>2. ASSUME NEW r \in Requests, MapContextFails(r) PROVE TypeOK' /\ OpenPlaces'
  BY <1>2 DEF MapContextFails, TypeOK, OpenPlaces
<1>3. ASSUME NEW r \in Requests, NotGenerated(r) PROVE TypeOK' /\ OpenPlaces'
  BY <1>3 DEF NotGenerated, TypeOK, OpenPlaces
<1>4. ASSUME NEW r \in Requests, OpenFile(r) PROVE TypeOK' /\ OpenPlaces'
  <2> DEFINE i == Opened(IF kind = "picture" THEN tmp ELSE final)
             b == [blocks EXCEPT ![i] = {}]
  <2>1. i \in Inodes
    BY <1>4, OpenedInode DEF OpenFile, TypeOK, OpenPlaces
  <2>2. Store(b, spoiled \ {i})
    BY <1>4 DEF OpenFile
  <2>3. b \in [Inodes -> SUBSET (1 .. Size)] /\ spoiled \ {i} \subseteq Inodes
    BY <2>1 DEF TypeOK
  <2>4. blocks' \in [Inodes -> SUBSET (1 .. Size)] /\ spoiled' \subseteq Inodes
    <3> HIDE DEF b
    <3> QED BY <2>2, <2>3, StoredType
  <2>5. /\ file' = [file EXCEPT ![r] = i] /\ pc[r] = "generate"
        /\ pc' = [pc EXCEPT ![r] = IF kind = "picture" THEN "lock" ELSE "write"]
        /\ UNCHANGED <<kind, cleanup, mutex, pos, robbed>>
    BY <1>4 DEF OpenFile
  <2>6. /\ final' \in Inodes \cup {None} /\ tmp' \in Inodes \cup {None}
        /\ (stale' = FALSE \/ stale' = stale)
    <3>1. final' \in {final, i} /\ tmp' \in {tmp, i}
      BY <1>4 DEF OpenFile
    <3>2. stale' = FALSE \/ stale' = stale
      BY <1>4 DEF OpenFile
    <3> HIDE DEF i
    <3> QED BY <2>1, <3>1, <3>2 DEF TypeOK
  <2>7. overlapped' \in BOOLEAN
    BY ONLY <1>4, Zenon DEF OpenFile
  <2>8. stale' \in BOOLEAN
    <3>1. stale \in BOOLEAN
      BY DEF TypeOK
    <3> QED BY ONLY <2>6, <3>1, Zenon
  <2> HIDE DEF i, b
  <2>9. OpenPlaces'
    BY <2>1, <2>5 DEF TypeOK, OpenPlaces
  <2>10. pc' \in [Requests -> Places] /\ file' \in [Requests -> Inodes \cup {None}]
    BY <2>1, <2>5 DEF TypeOK
  <2> QED BY <2>4, <2>5, <2>6, <2>7, <2>8, <2>9, <2>10 DEF TypeOK
<1>5. ASSUME NEW r \in Requests, Lock(r) \/ LockTimesOut(r) PROVE TypeOK' /\ OpenPlaces'
  BY <1>5 DEF Lock, LockTimesOut, TypeOK, OpenPlaces
<1>6. ASSUME NEW r \in Requests, CreateFails(r) PROVE TypeOK' /\ OpenPlaces'
  <2>1. blocks' \in [Inodes -> SUBSET (1 .. Size)] /\ spoiled' \subseteq Inodes
    BY <1>6, StoredType DEF CreateFails, TypeOK, OpenPlaces
  <2> QED BY <1>6, <2>1 DEF CreateFails, TypeOK, OpenPlaces
<1>7. ASSUME NEW r \in Requests, Write(r) PROVE TypeOK' /\ OpenPlaces'
  <2>1. file[r] \in Inodes /\ pos[r] + 1 \in 1 .. Size /\ pos' = [pos EXCEPT ![r] = pos[r] + 1]
    BY <1>7 DEF Write, TypeOK, OpenPlaces
  <2>2. pos'[r] = pos[r] + 1
    BY <2>1 DEF TypeOK
  <2>3. pos' \in [Requests -> 0 .. Size]
    BY <2>1 DEF TypeOK
  <2>4. blocks' = [blocks EXCEPT ![file[r]] = blocks[file[r]] \cup {pos[r] + 1}]
    BY <1>7, <2>2 DEF Write
  <2>5. blocks[file[r]] \cup {pos[r] + 1} \in SUBSET (1 .. Size)
    BY <2>1 DEF TypeOK
  <2>6. blocks' \in [Inodes -> SUBSET (1 .. Size)]
    BY <2>1, <2>4, <2>5 DEF TypeOK
  <2> QED BY <1>7, <2>1, <2>3, <2>6 DEF Write, TypeOK, OpenPlaces
<1>8. ASSUME NEW r \in Requests, Close(r) PROVE TypeOK' /\ OpenPlaces'
  BY <1>8 DEF Close, TypeOK, OpenPlaces
<1>9. ASSUME NEW r \in Requests, Finish(r) PROVE TypeOK' /\ OpenPlaces'
  <2>1. blocks' \in [Inodes -> SUBSET (1 .. Size)] /\ spoiled' \subseteq Inodes
    BY <1>9, StoredType DEF Finish, TypeOK
  <2>2. /\ file' = [file EXCEPT ![r] = None] /\ pos' = [pos EXCEPT ![r] = 0]
        /\ pc' = [pc EXCEPT ![r] = "send"] /\ mutex' = "none"
        /\ robbed' = robbed \ {r} /\ UNCHANGED <<kind, cleanup, overlapped>>
    BY <1>9 DEF Finish
  <2>3. /\ final' \in Inodes \cup {None} /\ tmp' \in Inodes \cup {None}
        /\ (stale' = FALSE \/ stale' = stale)
    <3>1. final' \in {final, tmp} /\ tmp' \in {tmp, None}
      BY <1>9 DEF Finish
    <3>2. stale' = FALSE \/ stale' = stale
      BY <1>9 DEF Finish
    <3> QED BY <3>1, <3>2 DEF TypeOK
  <2>4. stale' \in BOOLEAN
    <3>1. stale \in BOOLEAN
      BY DEF TypeOK
    <3> QED BY ONLY <2>3, <3>1, Zenon
  <2>5. OpenPlaces'
    BY <2>2 DEF TypeOK, OpenPlaces
  <2>6. /\ pc' \in [Requests -> Places] /\ file' \in [Requests -> Inodes \cup {None}]
        /\ pos' \in [Requests -> 0 .. Size]
    BY <2>2 DEF TypeOK
  <2> QED BY <2>1, <2>2, <2>3, <2>4, <2>5, <2>6 DEF TypeOK
<1>10. ASSUME NEW r \in Requests, OpenAnswer(r) PROVE TypeOK' /\ OpenPlaces'
  BY <1>10 DEF OpenAnswer, TypeOK, OpenPlaces
<1>11. ASSUME NEW r \in Requests, Answered(r) PROVE TypeOK' /\ OpenPlaces'
  <2>1. blocks' \in [Inodes -> SUBSET (1 .. Size)] /\ spoiled' \subseteq Inodes
    BY <1>11, StoredType DEF Answered, TypeOK
  <2>2. /\ file' = [file EXCEPT ![r] = None] /\ pc' = [pc EXCEPT ![r] = "idle"]
        /\ pc[r] = "read"
        /\ UNCHANGED <<kind, cleanup, final, tmp, stale, mutex, pos, overlapped, robbed>>
    BY <1>11 DEF Answered
  <2>3. TypeOK'
    BY <2>1, <2>2 DEF TypeOK
  <2>4. OpenPlaces'
    BY <2>2 DEF TypeOK, OpenPlaces
  <2> QED BY <2>3, <2>4
<1>12. ASSUME Restart PROVE TypeOK' /\ OpenPlaces'
  <2>1. blocks' \in [Inodes -> SUBSET (1 .. Size)] /\ spoiled' \subseteq Inodes
    <3>1. {file[r] : r \in {q \in Requests : Generating(q)}} \subseteq Inodes
      BY DEF TypeOK, OpenPlaces, Generating
    <3> QED BY <1>12, <3>1, StoredType DEF Restart, TypeOK
  <2>2. final' \in {final, None} /\ tmp' \in {tmp, None}
    BY <1>12 DEF Restart, Cleaned
  <2>3. stale' = FALSE \/ stale' = stale
    BY <1>12 DEF Restart, Cleaned
  <2>4. /\ mutex' = "none" /\ pc' = [r \in Requests |-> "idle"]
        /\ file' = [r \in Requests |-> None] /\ pos' = [r \in Requests |-> 0]
        /\ robbed' = {} /\ UNCHANGED <<kind, cleanup, overlapped>>
    BY <1>12 DEF Restart
  <2>5. stale' \in BOOLEAN
    <3>1. stale \in BOOLEAN
      BY DEF TypeOK
    <3> QED BY ONLY <2>3, <3>1, Zenon
  <2>6. OpenPlaces'
    BY <2>4 DEF OpenPlaces
  <2>7. /\ pc' \in [Requests -> Places] /\ file' \in [Requests -> Inodes \cup {None}]
        /\ pos' \in [Requests -> 0 .. Size]
    BY <2>4
  <2> QED BY <2>1, <2>2, <2>4, <2>5, <2>6, <2>7 DEF TypeOK
<1>13. ASSUME SecondStart PROVE TypeOK' /\ OpenPlaces'
  <2>1. blocks' \in [Inodes -> SUBSET (1 .. Size)] /\ spoiled' \subseteq Inodes
    BY <1>13, StoredType DEF SecondStart, TypeOK
  <2> QED BY <1>13, <2>1 DEF SecondStart, Cleaned, TypeOK, OpenPlaces
<1>14. ASSUME Expire PROVE TypeOK' /\ OpenPlaces'
  BY <1>14 DEF Expire, TypeOK, OpenPlaces
<1>15. ASSUME UNCHANGED vars PROVE TypeOK' /\ OpenPlaces'
  BY <1>15 DEF vars, TypeOK, OpenPlaces
<1> QED BY <1>1, <1>2, <1>3, <1>4, <1>5, <1>6, <1>7, <1>8, <1>9, <1>10, <1>11, <1>12, <1>13, <1>14, <1>15 DEF Next, Step

\* What is held stays as it is when no file is opened, closed or written.
LEMMA WrittenSame ==
  ASSUME WrittenOrUnder, UNCHANGED <<final, tmp, blocks, file, pos, spoiled>>,
         \A q \in Requests : Generating(q) => Generating(q)'
  PROVE  WrittenOrUnder'
BY DEF WrittenOrUnder, Held, Whole, Under

\* What is held after a step and was before keeps its reason, unless its writer has left.
LEMMA WrittenKept ==
  ASSUME TypeOK, OpenPlaces, WrittenOrUnder, NEW i \in Inodes, Held(i), Held(i)',
         blocks'[i] = blocks[i], i \in spoiled => i \in spoiled',
         \A q \in Requests : Generating(q) /\ file[q] = i =>
           \/ Generating(q)' /\ file'[q] = i /\ pos'[q] = pos[q]
           \/ i \in spoiled'
           \/ pos[q] = Size
  PROVE  Whole(i)' \/ i \in spoiled' \/ Under(i)'
<1>1. CASE Whole(i)
  BY <1>1 DEF Whole
<1>2. CASE i \in spoiled
  BY <1>2
<1>3. CASE Under(i)
  <2>1. PICK q \in Requests : Generating(q) /\ file[q] = i /\ 1 .. pos[q] \subseteq blocks[i]
    BY <1>3 DEF Under
  <2>2. CASE Generating(q)' /\ file'[q] = i /\ pos'[q] = pos[q]
    BY <2>1, <2>2 DEF Under
  <2>3. CASE pos[q] = Size
    <3>1. blocks[i] \subseteq 1 .. Size
      BY DEF TypeOK
    <3> QED BY <2>1, <2>3, <3>1 DEF Whole
  <2> QED BY <2>1, <2>2, <2>3
<1> QED BY <1>1, <1>2, <1>3 DEF WrittenOrUnder

LEMMA WrittenStep ==
  ASSUME TypeOK, OpenPlaces, TypeOK', WrittenOrUnder, [Next]_vars
  PROVE  WrittenOrUnder'
<1> USE CacheAssumption, NoneNoInode DEF CacheAssumption, config, fileVars, historyVars, Goto, Places
<1>1. ASSUME NEW r \in Requests,
             Lookup(r) \/ MapContextFails(r) \/ NotGenerated(r) \/ Lock(r) \/ LockTimesOut(r)
      PROVE  WrittenOrUnder'
  <2>1. UNCHANGED <<final, tmp, blocks, file, pos, spoiled>>
    BY <1>1 DEF Lookup, MapContextFails, NotGenerated, Lock, LockTimesOut
  <2>2. \A q \in Requests : Generating(q) => Generating(q)'
    BY <1>1 DEF Lookup, MapContextFails, NotGenerated, Lock, LockTimesOut, Generating, TypeOK
  <2> QED BY <2>1, <2>2, WrittenSame
<1>2. ASSUME NEW r \in Requests, OpenFile(r) PROVE WrittenOrUnder'
  <2> DEFINE i == Opened(IF kind = "picture" THEN tmp ELSE final)
             b == [blocks EXCEPT ![i] = {}]
  <2>1. i \in Inodes /\ file[r] = None /\ pos[r] = 0
    BY <1>2, OpenedInode DEF OpenFile, TypeOK, OpenPlaces
  <2>2. /\ Store(b, spoiled \ {i}) /\ file' = [file EXCEPT ![r] = i] /\ pos' = pos
        /\ pc' = [pc EXCEPT ![r] = IF kind = "picture" THEN "lock" ELSE "write"]
    BY <1>2 DEF OpenFile
  <2>3. final' \in {final, i} /\ tmp' \in {tmp, i}
    BY <1>2 DEF OpenFile
  <2>4. \A j \in Inodes :
          /\ blocks'[j] = IF Held(j)' THEN b[j] ELSE {}
          /\ j \in spoiled' <=> j \in spoiled \ {i} /\ Held(j)'
    <3> HIDE DEF b, i
    <3> QED BY <2>2, Stored
  <2>5. \A j \in Inodes : b[j] = IF j = i THEN {} ELSE blocks[j]
    BY <2>1 DEF TypeOK
  <2> HIDE DEF b, i
  <2> SUFFICES ASSUME NEW j \in Inodes, Held(j)'
               PROVE  Whole(j)' \/ j \in spoiled' \/ Under(j)'
    BY DEF WrittenOrUnder
  <2>6. CASE j = i
    <3>1. Generating(r)' /\ file'[r] = i /\ pos'[r] = 0
      BY <2>1, <2>2 DEF Generating, TypeOK
    <3> QED BY <2>6, <3>1 DEF Under
  <2>7. CASE j # i
    <3>1. Held(j)
      BY <2>1, <2>2, <2>3, <2>7 DEF Held, TypeOK
    <3>2. blocks'[j] = blocks[j] /\ (j \in spoiled => j \in spoiled')
      BY <2>4, <2>5, <2>7
    <3>3. \A q \in Requests : Generating(q) /\ file[q] = j =>
            Generating(q)' /\ file'[q] = j /\ pos'[q] = pos[q]
      BY <2>1, <2>2 DEF Generating, TypeOK
    <3> QED BY <3>1, <3>2, <3>3, WrittenKept
  <2> QED BY <2>6, <2>7
<1>3. ASSUME NEW r \in Requests, CreateFails(r) PROVE WrittenOrUnder'
  <2>1. /\ Store(blocks, spoiled \cup {file[r]}) /\ file' = [file EXCEPT ![r] = None]
        /\ pos' = pos /\ final' = final /\ tmp' = tmp /\ pc' = [pc EXCEPT ![r] = "send"]
    BY <1>3 DEF CreateFails
  <2>2. \A j \in Inodes :
          /\ blocks'[j] = IF Held(j)' THEN blocks[j] ELSE {}
          /\ j \in spoiled' <=> j \in spoiled \cup {file[r]} /\ Held(j)'
    BY <2>1, Stored
  <2> SUFFICES ASSUME NEW j \in Inodes, Held(j)'
               PROVE  Whole(j)' \/ j \in spoiled' \/ Under(j)'
    BY DEF WrittenOrUnder
  <2>3. Held(j)
    BY <2>1 DEF Held, TypeOK
  <2>4. \A q \in Requests : Generating(q) /\ file[q] = j =>
          (Generating(q)' /\ file'[q] = j /\ pos'[q] = pos[q]) \/ j \in spoiled'
    BY <2>1, <2>2 DEF Generating, TypeOK
  <2> QED BY <2>2, <2>3, <2>4, WrittenKept
<1>4. ASSUME NEW r \in Requests, Write(r) PROVE WrittenOrUnder'
  <2>1. /\ pc[r] = "write" /\ file[r] \in Inodes /\ pos[r] \in Nat
        /\ pos' = [pos EXCEPT ![r] = pos[r] + 1] /\ UNCHANGED <<final, tmp, pc, file, spoiled>>
    BY <1>4 DEF Write, TypeOK, OpenPlaces
  <2>2. pos'[r] = pos[r] + 1 /\ \A q \in Requests \ {r} : pos'[q] = pos[q]
    BY <2>1 DEF TypeOK
  <2>3. blocks' = [blocks EXCEPT ![file[r]] = blocks[file[r]] \cup {pos[r] + 1}]
    BY <1>4, <2>2 DEF Write
  <2>4. \A j \in Inodes : blocks[j] \subseteq blocks'[j]
    BY <2>1, <2>3 DEF TypeOK
  <2>5. pos[r] + 1 \in blocks'[file[r]]
    BY <2>1, <2>3 DEF TypeOK
  <2> SUFFICES ASSUME NEW j \in Inodes, Held(j)'
               PROVE  Whole(j)' \/ j \in spoiled' \/ Under(j)'
    BY DEF WrittenOrUnder
  <2>6. Held(j)
    BY <2>1 DEF Held
  <2>7. CASE Whole(j)
    <3>1. blocks'[j] \subseteq 1 .. Size
      BY DEF TypeOK
    <3> QED BY <2>4, <2>7, <3>1 DEF Whole
  <2>8. CASE j \in spoiled
    BY <2>1, <2>8
  <2>9. CASE Under(j)
    <3>1. PICK q \in Requests : Generating(q) /\ file[q] = j /\ 1 .. pos[q] \subseteq blocks[j]
      BY <2>9 DEF Under
    <3>2. Generating(q)' /\ file'[q] = j
      BY <2>1, <3>1 DEF Generating
    <3>3. 1 .. pos'[q] \subseteq blocks'[j]
      <4>1. CASE q = r
        <5>1. 1 .. pos'[q] = 1 .. pos[q] \cup {pos[r] + 1}
          BY <2>1, <2>2, <4>1
        <5> QED BY <2>4, <2>5, <3>1, <4>1, <5>1
      <4>2. CASE q # r
        BY <2>2, <2>4, <3>1, <4>2
      <4> QED BY <4>1, <4>2
    <3> QED BY <3>2, <3>3 DEF Under
  <2> QED BY <2>6, <2>7, <2>8, <2>9 DEF WrittenOrUnder
<1>5. ASSUME NEW r \in Requests, Close(r) PROVE WrittenOrUnder'
  <2>1. /\ pos[r] = Size /\ file' = [file EXCEPT ![r] = None] /\ pos' = [pos EXCEPT ![r] = 0]
        /\ pc' = [pc EXCEPT ![r] = "send"] /\ UNCHANGED <<final, tmp, blocks, spoiled>>
    BY <1>5 DEF Close
  <2> SUFFICES ASSUME NEW j \in Inodes, Held(j)'
               PROVE  Whole(j)' \/ j \in spoiled' \/ Under(j)'
    BY DEF WrittenOrUnder
  <2>2. Held(j)
    BY <2>1 DEF Held, TypeOK
  <2>3. \A q \in Requests : Generating(q) /\ file[q] = j =>
          (Generating(q)' /\ file'[q] = j /\ pos'[q] = pos[q]) \/ pos[q] = Size
    BY <2>1 DEF Generating, TypeOK
  <2> QED BY <2>1, <2>2, <2>3, WrittenKept
<1>6. ASSUME NEW r \in Requests, Finish(r) PROVE WrittenOrUnder'
  <2>1. /\ pos[r] = Size /\ file' = [file EXCEPT ![r] = None] /\ pos' = [pos EXCEPT ![r] = 0]
        /\ pc' = [pc EXCEPT ![r] = "send"] /\ Store(blocks, spoiled)
    BY <1>6 DEF Finish
  <2>2. final' \in {final, tmp} /\ tmp' \in {tmp, None}
    BY <1>6 DEF Finish
  <2>3. \A j \in Inodes :
          /\ blocks'[j] = IF Held(j)' THEN blocks[j] ELSE {}
          /\ j \in spoiled' <=> j \in spoiled /\ Held(j)'
    BY <2>1, Stored
  <2> SUFFICES ASSUME NEW j \in Inodes, Held(j)'
               PROVE  Whole(j)' \/ j \in spoiled' \/ Under(j)'
    BY DEF WrittenOrUnder
  <2>4. Held(j)
    BY <2>1, <2>2 DEF Held, TypeOK
  <2>5. \A q \in Requests : Generating(q) /\ file[q] = j =>
          (Generating(q)' /\ file'[q] = j /\ pos'[q] = pos[q]) \/ pos[q] = Size
    BY <2>1 DEF Generating, TypeOK
  <2> QED BY <2>3, <2>4, <2>5, WrittenKept
<1>7. ASSUME NEW r \in Requests, OpenAnswer(r) PROVE WrittenOrUnder'
  <2>1. /\ pc[r] = "send" /\ file' = [file EXCEPT ![r] = final]
        /\ pc' = [pc EXCEPT ![r] = IF final = None THEN "idle" ELSE "read"]
        /\ UNCHANGED <<final, tmp, blocks, pos, spoiled>>
    BY <1>7 DEF OpenAnswer
  <2> SUFFICES ASSUME NEW j \in Inodes, Held(j)'
               PROVE  Whole(j)' \/ j \in spoiled' \/ Under(j)'
    BY DEF WrittenOrUnder
  <2>2. Held(j)
    BY <2>1 DEF Held, TypeOK
  <2>3. \A q \in Requests : Generating(q) /\ file[q] = j =>
          Generating(q)' /\ file'[q] = j /\ pos'[q] = pos[q]
    BY <2>1 DEF Generating, TypeOK
  <2> QED BY <2>1, <2>2, <2>3, WrittenKept
<1>8. ASSUME NEW r \in Requests, Answered(r) PROVE WrittenOrUnder'
  <2>1. /\ pc[r] = "read" /\ file' = [file EXCEPT ![r] = None]
        /\ pc' = [pc EXCEPT ![r] = "idle"] /\ Store(blocks, spoiled)
        /\ UNCHANGED <<final, tmp, pos>>
    BY <1>8 DEF Answered
  <2>2. \A j \in Inodes :
          /\ blocks'[j] = IF Held(j)' THEN blocks[j] ELSE {}
          /\ j \in spoiled' <=> j \in spoiled /\ Held(j)'
    BY <2>1, Stored
  <2> SUFFICES ASSUME NEW j \in Inodes, Held(j)'
               PROVE  Whole(j)' \/ j \in spoiled' \/ Under(j)'
    BY DEF WrittenOrUnder
  <2>3. Held(j)
    BY <2>1 DEF Held, TypeOK
  <2>4. \A q \in Requests : Generating(q) /\ file[q] = j =>
          Generating(q)' /\ file'[q] = j /\ pos'[q] = pos[q]
    BY <2>1 DEF Generating, TypeOK
  <2> QED BY <2>2, <2>3, <2>4, WrittenKept
<1>9. ASSUME Restart PROVE WrittenOrUnder'
  <2> DEFINE lost == {file[r] : r \in {q \in Requests : Generating(q)}}
  <2>1. /\ file' = [r \in Requests |-> None] /\ Store(blocks, spoiled \cup lost)
        /\ final' \in {final, None} /\ tmp' \in {tmp, None}
    BY <1>9 DEF Restart, Cleaned
  <2>2. \A q \in Requests : Generating(q) => file[q] \in lost
    OBVIOUS
  <2> HIDE DEF lost
  <2>3. \A j \in Inodes :
          /\ blocks'[j] = IF Held(j)' THEN blocks[j] ELSE {}
          /\ j \in spoiled' <=> j \in spoiled \cup lost /\ Held(j)'
    BY <2>1, Stored
  <2> SUFFICES ASSUME NEW j \in Inodes, Held(j)'
               PROVE  Whole(j)' \/ j \in spoiled' \/ Under(j)'
    BY DEF WrittenOrUnder
  <2>4. Held(j)
    BY <2>1 DEF Held
  <2> QED BY <2>2, <2>3, <2>4, WrittenKept
<1>10. ASSUME SecondStart PROVE WrittenOrUnder'
  <2>1. /\ Store(blocks, spoiled) /\ UNCHANGED <<file, pos, pc>>
        /\ final' \in {final, None} /\ tmp' \in {tmp, None}
    BY <1>10 DEF SecondStart, Cleaned
  <2>2. \A j \in Inodes :
          /\ blocks'[j] = IF Held(j)' THEN blocks[j] ELSE {}
          /\ j \in spoiled' <=> j \in spoiled /\ Held(j)'
    BY <2>1, Stored
  <2> SUFFICES ASSUME NEW j \in Inodes, Held(j)'
               PROVE  Whole(j)' \/ j \in spoiled' \/ Under(j)'
    BY DEF WrittenOrUnder
  <2>3. Held(j)
    BY <2>1 DEF Held
  <2>4. \A q \in Requests : Generating(q) => Generating(q)'
    BY <2>1 DEF Generating
  <2> QED BY <2>1, <2>2, <2>3, <2>4, WrittenKept
<1>11. ASSUME Expire \/ UNCHANGED vars PROVE WrittenOrUnder'
  <2>1. UNCHANGED <<final, tmp, blocks, file, pos, spoiled, pc>>
    BY <1>11 DEF Expire, vars
  <2>2. \A q \in Requests : Generating(q) => Generating(q)'
    BY <2>1 DEF Generating
  <2> QED BY <2>1, <2>2, WrittenSame
<1> QED BY <1>1, <1>2, <1>3, <1>4, <1>5, <1>6, <1>7, <1>8, <1>9, <1>10, <1>11 DEF Next, Step

\* One that generates keeps something to send: a name goes only for another name,
\* or in a cleaning.
LEMMA SendStep ==
  ASSUME TypeOK, OpenPlaces, SomethingToSend, [Next]_vars
  PROVE  SomethingToSend'
<1> USE CacheAssumption, NoneNoInode DEF CacheAssumption, config, fileVars, historyVars, Goto, Places
<1>1. ASSUME NEW r \in Requests,
             \/ Lookup(r) \/ MapContextFails(r) \/ NotGenerated(r) \/ Lock(r)
             \/ LockTimesOut(r) \/ OpenAnswer(r)
      PROVE  SomethingToSend'
  <2>1. UNCHANGED <<final, tmp, robbed>>
    BY <1>1 DEF Lookup, MapContextFails, NotGenerated, Lock, LockTimesOut, OpenAnswer
  <2>2. \A q \in Requests : Generating(q)' => Generating(q)
    BY <1>1 DEF Lookup, MapContextFails, NotGenerated, Lock, LockTimesOut, OpenAnswer,
                Generating, TypeOK
  <2> QED BY <2>1, <2>2 DEF SomethingToSend
<1>2. ASSUME NEW r \in Requests, OpenFile(r) PROVE SomethingToSend'
  <2> DEFINE i == Opened(IF kind = "picture" THEN tmp ELSE final)
  <2>1. i \in Inodes
    BY <1>2, OpenedInode DEF OpenFile, TypeOK, OpenPlaces
  <2>2. tmp' = i \/ final' = i
    BY <1>2 DEF OpenFile
  <2> HIDE DEF i
  <2> QED BY <2>1, <2>2 DEF SomethingToSend
<1>3. ASSUME NEW r \in Requests, CreateFails(r) \/ Close(r) \/ Answered(r)
      PROVE  SomethingToSend'
  <2>1. UNCHANGED <<final, tmp>> /\ robbed' \in {robbed, robbed \ {r}}
    BY <1>3 DEF CreateFails, Close, Answered
  <2>2. \A q \in Requests : Generating(q)' => Generating(q) /\ q # r
    BY <1>3 DEF CreateFails, Close, Answered, Generating, TypeOK
  <2> QED BY <2>1, <2>2 DEF SomethingToSend
<1>4. ASSUME NEW r \in Requests, Write(r) PROVE SomethingToSend'
  BY <1>4 DEF Write, SomethingToSend, Generating
<1>5. ASSUME NEW r \in Requests, Finish(r) PROVE SomethingToSend'
  <2>1. robbed' = robbed \ {r} /\ pc' = [pc EXCEPT ![r] = "send"]
    BY <1>5 DEF Finish
  <2>2. tmp # None \/ final # None => final' # None
    BY <1>5 DEF Finish
  <2>3. \A q \in Requests : Generating(q)' => Generating(q) /\ q # r
    BY <2>1 DEF Generating, TypeOK
  <2> QED BY <2>1, <2>2, <2>3 DEF SomethingToSend
<1>6. ASSUME Restart PROVE SomethingToSend'
  <2>1. pc' = [r \in Requests |-> "idle"]
    BY <1>6 DEF Restart
  <2> QED BY <2>1 DEF SomethingToSend, Generating
<1>7. ASSUME SecondStart PROVE SomethingToSend'
  <2>1. robbed' = {r \in Requests : Generating(r)} /\ pc' = pc
    BY <1>7 DEF SecondStart
  <2> QED BY <2>1 DEF SomethingToSend, Generating
<1>8. ASSUME Expire \/ UNCHANGED vars PROVE SomethingToSend'
  BY <1>8 DEF Expire, vars, SomethingToSend, Generating
<1> QED BY <1>1, <1>2, <1>3, <1>4, <1>5, <1>6, <1>7, <1>8 DEF Next, Step

\* What can be read is held, before and after a step.
LEMMA VisibleHeld ==
  ASSUME TypeOK
  PROVE  \A i \in Visible : i \in Inodes /\ Held(i)
BY DEF TypeOK, Visible, Held

LEMMA VisibleHeldNext ==
  ASSUME TypeOK'
  PROVE  \A i \in Visible' : i \in Inodes /\ Held(i)'
BY DEF TypeOK, Visible, Held

\* A step that shows nothing new, starts no writer and takes none's file keeps Solo.
LEMMA SoloKept ==
  ASSUME Solo, kind' = kind, overlapped' = overlapped, tmp' \in {tmp, None},
         Visible' \subseteq Visible, \A i \in Visible' : blocks'[i] = blocks[i],
         \A q \in Requests : Generating(q)' =>
           /\ Generating(q) /\ file'[q] = file[q] /\ pos'[q] = pos[q]
           /\ blocks'[file[q]] = blocks[file[q]]
  PROVE  Solo'
<1> SUFFICES ASSUME kind = "picture", ~overlapped
             PROVE  OneWriter' /\ Apart' /\ \A i \in Visible' : Whole(i)'
  BY DEF Solo
<1>1. OneWriter /\ Apart /\ \A i \in Visible : Whole(i)
  BY DEF Solo
<1>2. OneWriter'
  BY <1>1 DEF OneWriter
<1>3. Apart'
  BY <1>1 DEF Apart
<1>4. \A i \in Visible' : Whole(i)'
  BY <1>1 DEF Whole
<1> QED BY <1>2, <1>3, <1>4

\* What can be read, and the file of a writer, keep their blocks when Store changes none.
LEMMA StoredKeeps ==
  ASSUME TypeOK', NEW s, Store(blocks, s)
  PROVE  /\ \A i \in Visible' : blocks'[i] = blocks[i]
         /\ \A q \in Requests : file'[q] # None => blocks'[file'[q]] = blocks[file'[q]]
<1>1. \A i \in Inodes : Held(i)' => blocks'[i] = blocks[i]
  BY Stored
<1>2. \A q \in Requests : file'[q] # None => file'[q] \in Inodes
  BY DEF TypeOK
<1>3. \A q \in Requests : \A i \in Inodes : file'[q] = i => Held(i)'
  BY DEF Held
<1>4. \A i \in Visible' : blocks'[i] = blocks[i]
  BY <1>1, VisibleHeldNext
<1> QED BY <1>1, <1>2, <1>3, <1>4

LEMMA SoloStep ==
  ASSUME TypeOK, OpenPlaces, TypeOK', OpenPlaces', Solo, [Next]_vars
  PROVE  Solo'
<1> USE CacheAssumption, NoneNoInode DEF CacheAssumption, config, fileVars, historyVars, Goto, Places
<1>1. ASSUME NEW r \in Requests,
             Lookup(r) \/ MapContextFails(r) \/ NotGenerated(r) \/ Lock(r) \/ LockTimesOut(r)
      PROVE  Solo'
  <2>1. UNCHANGED <<kind, overlapped, final, tmp, blocks, file, pos>>
    BY <1>1 DEF Lookup, MapContextFails, NotGenerated, Lock, LockTimesOut
  <2>2. \A q \in Requests : Generating(q)' => Generating(q)
    BY <1>1 DEF Lookup, MapContextFails, NotGenerated, Lock, LockTimesOut, Generating, TypeOK
  <2>3. Visible' \subseteq Visible
    <3>1. \A q \in Requests : pc'[q] = "read" => pc[q] = "read"
      BY <1>1 DEF Lookup, MapContextFails, NotGenerated, Lock, LockTimesOut, TypeOK
    <3> QED BY <2>1, <3>1 DEF Visible
  <2> QED BY <2>1, <2>2, <2>3, SoloKept
<1>2. ASSUME NEW r \in Requests, CreateFails(r) \/ Answered(r) PROVE Solo'
  <2>1. /\ UNCHANGED <<kind, overlapped, final, tmp, pos>>
        /\ file' = [file EXCEPT ![r] = None]
        /\ pc' = [pc EXCEPT ![r] = "send"] \/ pc' = [pc EXCEPT ![r] = "idle"]
    BY <1>2 DEF CreateFails, Answered
  <2>2. \E s : Store(blocks, s)
    BY <1>2 DEF CreateFails, Answered
  <2>3. \A q \in Requests : pc'[q] = "read" => pc[q] = "read" /\ q # r
    BY <2>1 DEF TypeOK
  <2>4. Visible' \subseteq Visible
    BY <2>1, <2>3 DEF Visible, TypeOK
  <2>5. \A q \in Requests : Generating(q)' =>
          Generating(q) /\ file'[q] = file[q] /\ file[q] # None
    BY <2>1 DEF Generating, TypeOK, OpenPlaces
  <2> QED BY <2>1, <2>2, <2>4, <2>5, StoredKeeps, SoloKept
<1>3. ASSUME NEW r \in Requests, Close(r) PROVE Solo'
  BY <1>3 DEF Close, Solo
<1>4. ASSUME NEW r \in Requests, OpenAnswer(r) PROVE Solo'
  <2>1. /\ UNCHANGED <<kind, overlapped, final, tmp, blocks, pos>>
        /\ file' = [file EXCEPT ![r] = final] /\ pc[r] = "send"
        /\ pc' = [pc EXCEPT ![r] = IF final = None THEN "idle" ELSE "read"]
    BY <1>4 DEF OpenAnswer
  <2>2. Visible' \subseteq Visible
    BY <2>1 DEF Visible, TypeOK
  <2>3. \A q \in Requests : Generating(q)' => Generating(q) /\ file'[q] = file[q]
    BY <2>1 DEF Generating, TypeOK
  <2> QED BY <2>1, <2>2, <2>3, SoloKept
<1>5. ASSUME Restart PROVE Solo'
  <2>1. /\ UNCHANGED <<kind, overlapped>> /\ pc' = [r \in Requests |-> "idle"]
        /\ final' \in {final, None} /\ tmp' \in {tmp, None}
    BY <1>5 DEF Restart, Cleaned
  <2>2. \E s : Store(blocks, s)
    BY <1>5 DEF Restart
  <2>3. \A q \in Requests : pc'[q] = "idle"
    BY <2>1
  <2>4. Visible' \subseteq Visible
    BY <2>1, <2>3 DEF Visible
  <2>5. \A q \in Requests : ~Generating(q)'
    BY <2>3 DEF Generating
  <2> QED BY <2>1, <2>2, <2>4, <2>5, StoredKeeps, SoloKept
<1>6. ASSUME SecondStart PROVE Solo'
  <2>1. /\ UNCHANGED <<kind, overlapped, pc, file, pos>> /\ Store(blocks, spoiled)
        /\ final' \in {final, None} /\ tmp' \in {tmp, None}
    BY <1>6 DEF SecondStart, Cleaned
  <2>2. Visible' \subseteq Visible
    BY <2>1 DEF Visible
  <2>3. \A q \in Requests : Generating(q)' => Generating(q) /\ file[q] # None
    BY <2>1 DEF Generating, OpenPlaces
  <2> QED BY <2>1, <2>2, <2>3, StoredKeeps, SoloKept
<1>7. ASSUME Expire \/ UNCHANGED vars PROVE Solo'
  BY <1>7 DEF Expire, vars, Solo, OneWriter, Apart, Visible, Whole, Generating
<1>8. ASSUME NEW r \in Requests, OpenFile(r) PROVE Solo'
  <2> SUFFICES ASSUME kind' = "picture", ~overlapped'
               PROVE  OneWriter' /\ Apart' /\ \A i \in Visible' : Whole(i)'
    BY DEF Solo
  <2> DEFINE i == Opened(tmp)
             b == [blocks EXCEPT ![i] = {}]
  <2>1. kind = "picture" /\ ~overlapped /\ \A q \in Requests : ~Generating(q)
    BY <1>8 DEF OpenFile
  <2>2. Apart /\ \A j \in Visible : Whole(j)
    BY <2>1 DEF Solo
  <2>3. file[r] = None /\ pos[r] = 0
    BY <1>8 DEF OpenFile, OpenPlaces
  <2>4. i \in Inodes /\ i \notin Visible
    <3>1. Visible \subseteq Used
      BY DEF Visible, Used
    <3>2. /\ i \in Inodes /\ (tmp # None => i = tmp) /\ (tmp = None => i \notin Used)
      BY <2>3, OpenedInode DEF TypeOK
    <3> HIDE DEF i
    <3> QED BY <2>2, <3>1, <3>2 DEF Apart
  <2>5. /\ tmp' = i /\ final' = final /\ file' = [file EXCEPT ![r] = i] /\ pos' = pos
        /\ pc' = [pc EXCEPT ![r] = "lock"] /\ pc[r] = "generate"
    BY <1>8, <2>1 DEF OpenFile
  <2>6. Store(b, spoiled \ {i})
    BY <1>8, <2>1 DEF OpenFile
  <2>7. \A j \in Inodes : b[j] = IF j = i THEN {} ELSE blocks[j]
    BY DEF TypeOK
  <2> HIDE DEF i, b
  <2>8. \A j \in Inodes : Held(j)' => blocks'[j] = b[j]
    BY <2>6, Stored
  <2>9. Visible' = Visible
    BY <2>5 DEF Visible, TypeOK
  <2>10. \A q \in Requests : Generating(q)' <=> q = r
    BY <2>1, <2>5 DEF Generating, TypeOK
  <2>11. \A j \in Visible' : blocks'[j] = blocks[j]
    BY <2>4, <2>7, <2>8, <2>9, VisibleHeldNext
  <2>12. file'[r] = i /\ pos'[r] = 0 /\ blocks'[i] = {}
    <3>1. file'[r] = i
      BY <2>5 DEF TypeOK
    <3>2. \A j \in Inodes : file'[r] = j => Held(j)'
      BY DEF Held
    <3>3. blocks'[i] = b[i]
      BY <2>4, <2>8, <3>1, <3>2
    <3> QED BY <2>3, <2>4, <2>5, <2>7, <3>1, <3>3
  <2>13. Apart'
    <3>1. 1 .. 0 = {}
      OBVIOUS
    <3>2. tmp' = i /\ i \notin Visible'
      BY <2>4, <2>5, <2>9
    <3>3. \A q \in Requests : Generating(q)' => file'[q] = i /\ blocks'[file'[q]] = 1 .. pos'[q]
      BY <2>10, <2>12, <3>1
    <3> QED BY <3>2, <3>3 DEF Apart
  <2>14. OneWriter'
    BY <2>10 DEF OneWriter
  <2> QED BY <2>2, <2>9, <2>11, <2>13, <2>14 DEF Whole
<1>9. ASSUME NEW r \in Requests, Write(r) PROVE Solo'
  <2> SUFFICES ASSUME kind' = "picture", ~overlapped'
               PROVE  OneWriter' /\ Apart' /\ \A i \in Visible' : Whole(i)'
    BY DEF Solo
  <2>1. /\ pc[r] = "write" /\ file[r] \in Inodes /\ pos[r] \in Nat
        /\ pos' = [pos EXCEPT ![r] = pos[r] + 1]
        /\ UNCHANGED <<kind, overlapped, final, tmp, pc, file>>
    BY <1>9 DEF Write, TypeOK, OpenPlaces
  <2>2. OneWriter /\ Apart /\ \A i \in Visible : Whole(i)
    BY <2>1 DEF Solo
  <2>3. pos'[r] = pos[r] + 1
    BY <2>1 DEF TypeOK
  <2>4. blocks' = [blocks EXCEPT ![file[r]] = blocks[file[r]] \cup {pos[r] + 1}]
    BY <1>9, <2>3 DEF Write
  <2>5. Visible' = Visible /\ \A q \in Requests : Generating(q)' <=> Generating(q)
    BY <2>1 DEF Visible, Generating
  <2>6. Generating(r)
    BY <2>1 DEF Generating
  <2>7. \A q \in Requests : Generating(q) => q = r
    BY <2>2, <2>6 DEF OneWriter
  <2>8. \A i \in Visible : blocks'[i] = blocks[i]
    BY <2>2, <2>4, <2>6 DEF Apart
  <2>9. blocks'[file[r]] = 1 .. pos'[r]
    <3>1. blocks[file[r]] = 1 .. pos[r]
      BY <2>2, <2>6 DEF Apart
    <3>2. 1 .. (pos[r] + 1) = 1 .. pos[r] \cup {pos[r] + 1}
      BY <2>1
    <3> QED BY <2>1, <2>3, <2>4, <3>1, <3>2 DEF TypeOK
  <2>10. Apart'
    BY <2>1, <2>2, <2>5, <2>6, <2>7, <2>9 DEF Apart
  <2>11. OneWriter'
    BY <2>2, <2>5 DEF OneWriter
  <2> QED BY <2>2, <2>5, <2>8, <2>10, <2>11 DEF Whole
<1>10. ASSUME NEW r \in Requests, Finish(r) PROVE Solo'
  <2> SUFFICES ASSUME kind' = "picture", ~overlapped'
               PROVE  OneWriter' /\ Apart' /\ \A i \in Visible' : Whole(i)'
    BY DEF Solo
  <2>1. /\ pc[r] = "write" /\ pos[r] = Size /\ Store(blocks, spoiled)
        /\ pc' = [pc EXCEPT ![r] = "send"] /\ file' = [file EXCEPT ![r] = None]
        /\ UNCHANGED <<kind, overlapped>>
    BY <1>10 DEF Finish
  <2>2. tmp' = None /\ (tmp = None => final' = final) /\ (tmp # None => final' = tmp)
    BY <1>10 DEF Finish
  <2>3. OneWriter /\ Apart /\ \A i \in Visible : Whole(i)
    BY <2>1 DEF Solo
  <2>4. Generating(r)
    BY <2>1 DEF Generating
  <2>5. \A q \in Requests : ~Generating(q)'
    BY <2>1, <2>3, <2>4 DEF OneWriter, Generating, TypeOK
  <2>6. tmp # None => Whole(tmp)
    BY <2>1, <2>3, <2>4 DEF Apart, Whole
  <2>7. \A i \in Visible' : i \in Visible \/ (i = tmp /\ tmp # None)
    BY <2>1, <2>2 DEF Visible, TypeOK
  <2>8. \A i \in Visible' : blocks'[i] = blocks[i]
    BY <2>1, StoredKeeps
  <2>9. Apart'
    BY <2>2, <2>5 DEF Apart
  <2>10. OneWriter'
    BY <2>5 DEF OneWriter
  <2> QED BY <2>3, <2>6, <2>7, <2>8, <2>9, <2>10 DEF Whole
<1> QED BY <1>1, <1>2, <1>3, <1>4, <1>5, <1>6, <1>7, <1>8, <1>9, <1>10 DEF Next, Step
----------------------------------------------------------------------------
(***************************************************************************)
(* The theorems                                                            *)
(***************************************************************************)
LEMMA CacheInit == Init => FInv
<1> SUFFICES ASSUME Init PROVE FInv
  OBVIOUS
<1> USE CacheAssumption, NoneNoInode DEF CacheAssumption
<1>1. /\ \A r \in Requests : pc[r] = "idle" /\ file[r] = None /\ pos[r] = 0
      /\ final = None /\ tmp = None
  BY DEF Init
<1>2. TypeOK
  <2>1. /\ kind \in Kinds /\ cleanup \in BOOLEAN
        /\ stale \in BOOLEAN /\ overlapped \in BOOLEAN
    BY ONLY Init, Zenon DEF Init
  <2>2. /\ blocks \in [Inodes -> SUBSET (1 .. Size)] /\ pos \in [Requests -> 0 .. Size]
        /\ pc \in [Requests -> Places] /\ file \in [Requests -> Inodes \cup {None}]
    BY DEF Init, Places
  <2>3. /\ final \in Inodes \cup {None} /\ tmp \in Inodes \cup {None}
        /\ mutex \in Requests \cup {"none"} /\ spoiled \subseteq Inodes /\ robbed \subseteq Requests
    BY DEF Init
  <2> QED BY <2>1, <2>2, <2>3 DEF TypeOK
<1>3. OpenPlaces
  BY <1>1 DEF OpenPlaces
<1>4. WrittenOrUnder
  BY <1>1 DEF WrittenOrUnder, Held
<1>5. SomethingToSend
  BY <1>1 DEF SomethingToSend, Generating
<1>6. Solo
  BY <1>1 DEF Solo, OneWriter, Apart, Visible, Generating
<1> QED BY <1>2, <1>3, <1>4, <1>5, <1>6 DEF FInv

LEMMA CacheInductive == Spec => []FInv
<1>1. FInv /\ [Next]_vars => FInv'
  BY TypeStep, WrittenStep, SendStep, SoloStep DEF FInv
<1> QED BY CacheInit, <1>1, PTL DEF Spec

\* The types: in particular an inode is found for every file that is opened, and a
\* writer never leaves its file's bounds.
THEOREM CacheTypeCorrect == Spec => []TypeOK
<1>1. FInv => TypeOK
  BY DEF FInv
<1> QED BY CacheInductive, <1>1, PTL

\* For any number of requests and blocks, a file that can be read and is not whole
\* has a writer at this moment, or its last one never came to its end.
THEOREM PartialOnlyWhileWritten == Spec => []PartialHasWriter
<1>1. FInv => PartialHasWriter
  BY VisibleHeld DEF FInv, WrittenOrUnder, Under, PartialHasWriter
<1> QED BY CacheInductive, <1>1, PTL

\* For any number of requests and blocks, a picture no two requests have generated at
\* once is only ever seen whole, through failures, crashes and restarts.
THEOREM LonePictureWhole == Spec => []SoloIsWhole
<1>1. FInv => SoloIsWhole
  BY DEF FInv, Solo, SoloIsWhole
<1> QED BY CacheInductive, <1>1, PTL

\* For any number of requests, one that has opened its file finds a file to send at
\* its end, unless a second start of the daemon has cleaned it away.
THEOREM AnswerRemains == Spec => []SomethingToSend
<1>1. FInv => SomethingToSend
  BY DEF FInv
<1> QED BY CacheInductive, <1>1, PTL
=============================================================================
