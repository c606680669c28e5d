--------------------------- MODULE ObjectMapProofs ---------------------------
(***************************************************************************)
(* For any containers, keys and number of calls, as long as no caller is   *)
(* careless: the hashes under which the maps keep their entries stay the   *)
(* hashes of their keys, a key finds the one entry with the same key, and  *)
(* two objects are equal in both directions if and only if they are the    *)
(* same.  Equal and Same descend as deep as the heap is large, so what     *)
(* they say is proved by induction on the depth.                           *)
(***************************************************************************)
EXTENDS ObjectMap, FiniteSetTheorems, WellFoundedInduction, TLAPS

\* A container, whatever it holds.
Cell(r) ==
    /\ r = [type |-> r.type, name |-> r.name, elems |-> r.elems,
            entries |-> r.entries, done |-> r.done]
    /\ r.done \in BOOLEAN

TypeOK ==
    /\ heap = [c \in Ids |-> heap[c]]
    /\ \A c \in Ids : Cell(heap[c])
    /\ careless \in BOOLEAN

\* A container that is a key, or that a key refers to, is one of those there are.
KeysExist ==
    \A c \in Ids : \A x \in heap[c].entries :
        x.key.type \in {"Own", "Ref"} => x.key.data \in Ids

\* While no hash of a BinaryObject is kept, none that could have been was asked for.
OnlyEmptyHashed ==
    hash = 0 => \A c \in Ids : \A x \in heap[c].entries :
                    x.key.type = "Binary" => x.key.data = 0

IInv == TypeOK /\ KeysExist /\ OnlyEmptyHashed /\ HashCurrent

LEMMA CellChange ==
    ASSUME NEW q, Cell(q), NEW x
    PROVE  /\ LET r == [q EXCEPT !.elems = x]
              IN  Cell(r) /\ r.entries = q.entries /\ r.done = q.done /\ r.type = q.type
           /\ LET r == [q EXCEPT !.name = x]
              IN  Cell(r) /\ r.entries = q.entries /\ (x = q.name => r = q)
           /\ LET r == [q EXCEPT !.done = x]
              IN  x \in BOOLEAN => Cell(r) /\ r.entries = q.entries
<1>1. PICK t, n, l, s, d : q = [type |-> t, name |-> n, elems |-> l, entries |-> s, done |-> d]
                           /\ d \in BOOLEAN
  BY DEF Cell
<1>2. LET r == [q EXCEPT !.elems = x]
      IN  Cell(r) /\ r.entries = q.entries /\ r.done = q.done /\ r.type = q.type
  BY <1>1 DEF Cell
<1>3. LET r == [q EXCEPT !.name = x]
      IN  Cell(r) /\ r.entries = q.entries /\ (x = q.name => r = q)
  BY <1>1 DEF Cell
<1>4. LET r == [q EXCEPT !.done = x]
      IN  x \in BOOLEAN => Cell(r) /\ r.entries = q.entries
  BY <1>1 DEF Cell
<1>. QED
  BY <1>2, <1>3, <1>4

\* A hash changes only with the container, or with the hash of all BinaryObjects.
LEMMA HashStays ==
    ASSUME NEW k,
           k.type \in {"Own", "Ref"} => Seen(k.data)' = Seen(k.data),
           k.type = "Binary" => BinaryHash(k.data)' = BinaryHash(k.data)
    PROVE  HashOf(k)' = HashOf(k)
<1>1. CASE k.type \in {"Own", "Ref"}
  <2>1. ContainerHash(k.data)' = ContainerHash(k.data)
    BY <1>1 DEF ContainerHash, Size
  <2>. QED
    BY <1>1, <2>1 DEF HashOf
<1>2. CASE k.type = "Binary"
  BY <1>2 DEF HashOf
<1>3. CASE k.type \notin {"Own", "Ref", "Binary"}
  BY <1>3 DEF HashOf
<1>. QED
  BY <1>1, <1>2, <1>3

\* A key is changed by a change of the container it is or refers to.
LEMMA InKey ==
    ASSUME NEW m \in Live, NEW x \in heap[m].entries, NEW c \in Ids,
           x.key.type \in {"Own", "Ref"}, x.key.data = c
    PROVE  IsInKey(c)
<1>1. x.key \in StoredKeys
  BY DEF StoredKeys, Live
<1>2. c \in Parts(c)
  BY DEF Parts
<1>. QED
  BY <1>1, <1>2 DEF IsInKey, PartsOf

\* Who changes one container, of which no key depends, and no entry, leaves the
\* hashes current.
LEMMA ChangeOne ==
    ASSUME IInv, NEW c \in Ids, NEW r, Cell(r), r.entries = heap[c].entries,
           heap' = [heap EXCEPT ![c] = r],
           Seen(c)' # Seen(c) /\ IsInKey(c) => careless',
           careless => careless', careless' \in BOOLEAN, UNCHANGED <<dead, hash>>
    PROVE  IInv'
<1>1. Ids' = Ids /\ Live' = Live /\ heap' = [d \in Ids |-> IF d = c THEN r ELSE heap[d]]
  BY DEF IInv, TypeOK, Ids, Live
<1>2. TypeOK'
  BY <1>1 DEF IInv, TypeOK
<1>3. \A d \in Ids : heap'[d].entries = heap[d].entries
  BY <1>1
<1>4. KeysExist' /\ OnlyEmptyHashed'
  BY <1>1, <1>3 DEF IInv, KeysExist, OnlyEmptyHashed
<1>5. ASSUME ~careless', NEW m \in Live, NEW x \in heap[m].entries
      PROVE  x.hash = HashOf(x.key)'
  <2>1. m \in Ids
    BY DEF Live
  <2>2. x.hash = HashOf(x.key)
    BY <1>5 DEF IInv, HashCurrent
  <2>3. x.key.type \in {"Own", "Ref"} => Seen(x.key.data)' = Seen(x.key.data)
    <3>1. SUFFICES ASSUME x.key.type \in {"Own", "Ref"}
                   PROVE  Seen(x.key.data)' = Seen(x.key.data)
      OBVIOUS
    <3>2. x.key.data \in Ids
      BY <2>1, <3>1 DEF IInv, KeysExist
    <3>3. CASE x.key.data = c
      BY <1>5, <3>1, <3>3, InKey
    <3>4. CASE x.key.data # c
      BY <1>1, <3>2, <3>4 DEF Seen
    <3>. QED
      BY <3>3, <3>4
  <2>4. x.key.type = "Binary" => BinaryHash(x.key.data)' = BinaryHash(x.key.data)
    BY DEF BinaryHash
  <2>. QED
    BY <2>2, <2>3, <2>4, HashStays
<1>6. HashCurrent'
  BY <1>1, <1>3, <1>5 DEF HashCurrent, Live
<1>. QED
  BY <1>2, <1>4, <1>6 DEF IInv

\* Hashing one object leaves the hashes of the keys alone, or the caller was careless.
LEMMA HashingStays ==
    ASSUME IInv, NEW k, hash' = Hashing(k), Rehashes(k) => careless', ~careless',
           NEW m \in Live, NEW x \in heap[m].entries, x.key.type = "Binary"
    PROVE  BinaryHash(x.key.data)' = BinaryHash(x.key.data)
<1>1. CASE hash # 0
  BY <1>1 DEF Hashing, BinaryHash
<1>2. CASE hash = 0
  <2>1. x.key \in StoredKeys /\ m \in Ids
    BY DEF StoredKeys, Live
  <2>2. x.key.data = 0
    BY <1>2, <2>1 DEF IInv, OnlyEmptyHashed
  <2>3. hash' = hash
    BY <2>1, <2>2 DEF Rehashes, IsEmptyBinary
  <2>. QED
    BY <2>3 DEF BinaryHash
<1>. QED
  BY <1>1, <1>2

LEMMA InitIInv == Init => IInv
<1>. SUFFICES ASSUME Init PROVE IInv
  OBVIOUS
<1>1. /\ heap = [c \in Ids |-> heap[c]]
      /\ \A c \in Ids : /\ heap[c] = Container(heap[c].type, heap[c].name, heap[c].done)
                        /\ heap[c].done \in BOOLEAN
  BY ConstantsAssumption DEF Init, Ids
<1>2. ASSUME NEW c \in Ids PROVE Cell(heap[c]) /\ heap[c].entries = {}
  BY <1>1 DEF Container, Cell
<1>3. TypeOK
  BY <1>1, <1>2 DEF Init, TypeOK
<1>4. KeysExist /\ OnlyEmptyHashed /\ HashCurrent
  BY <1>2 DEF KeysExist, OnlyEmptyHashed, HashCurrent, Live
<1>. QED
  BY <1>3, <1>4 DEF IInv

\* The arguments of emplace: a scalar, a complete container that does not contain the
\* map, or a reference.
LEMMA KeyArguments ==
    ASSUME NEW m \in Live, NEW k \in Keys \cup Movable(m) \cup Refs
    PROVE  /\ k.type \in {"Own", "Ref"} => k.data \in Ids
           /\ k.type = "Own" => k.data # m
<1>1. CASE k \in Keys
  BY <1>1, ConstantsAssumption
<1>2. CASE k \in Movable(m)
  <2>1. m \in Parts(m)
    BY DEF Parts, Live
  <2>. QED
    BY <1>2, <2>1 DEF Movable, Own, Live
<1>3. CASE k \in Refs
  BY <1>3 DEF Refs, Ref, Live
<1>. QED
  BY <1>1, <1>2, <1>3

\* A new entry.
LEMMA EntryIInv ==
    ASSUME IInv, NEW m \in Live, NEW k \in Keys \cup Movable(m) \cup Refs, NEW new,
           new.key = k, new.hash = HashOf(k),
           heap' = [heap EXCEPT ![m].entries = @ \cup {new}],
           hash' = Hashing(k), UNCHANGED dead,
           careless => careless', careless' \in BOOLEAN, Rehashes(k) => careless',
           heap[m].done /\ IsInKey(m)' => careless'
    PROVE  IInv'
<1>. DEFINE r == [heap[m] EXCEPT !.entries = @ \cup {new}]
<1>1. m \in Ids /\ Cell(heap[m])
  BY DEF Live, IInv, TypeOK
<1>2. /\ Cell(r) /\ r.entries = heap[m].entries \cup {new} /\ r.done = heap[m].done
      /\ r.type = heap[m].type
  BY <1>1 DEF Cell
<1>3. /\ Ids' = Ids /\ Live' = Live
      /\ heap' = [d \in Ids |-> IF d = m THEN r ELSE heap[d]]
  BY <1>1 DEF IInv, TypeOK, Ids, Live
<1>. HIDE DEF r
<1>4. TypeOK'
  BY <1>2, <1>3 DEF IInv, TypeOK
<1>5. KeysExist'
  BY <1>2, <1>3, KeyArguments DEF IInv, KeysExist
<1>6. OnlyEmptyHashed'
  <2>1. SUFFICES ASSUME hash' = 0, NEW c \in Ids, NEW x \in heap'[c].entries, x.key.type = "Binary"
                 PROVE  x.key.data = 0
    BY <1>3 DEF OnlyEmptyHashed
  <2>2. CASE x \in heap[c].entries
    BY <2>1, <2>2 DEF IInv, OnlyEmptyHashed, Hashing, BinaryHash
  <2>3. CASE x = new
    BY <2>1, <2>3 DEF Hashing, BinaryHash
  <2>. QED
    BY <1>2, <1>3, <2>2, <2>3
<1>7. ASSUME ~careless', NEW x, x.key.type \in {"Own", "Ref"}, x.key.data \in Ids,
             x.key.data = m => (heap[m].done => IsInKey(m)')
      PROVE  Seen(x.key.data)' = Seen(x.key.data)
  <2>1. CASE x.key.data = m
    BY <1>2, <1>3, <1>7, <2>1 DEF Seen
  <2>2. CASE x.key.data # m
    BY <1>3, <1>7, <2>2 DEF Seen
  <2>. QED
    BY <2>1, <2>2
<1>8. ASSUME ~careless', NEW c \in Live, NEW x \in heap[c].entries
      PROVE  x.hash = HashOf(x.key)'
  <2>1. x.hash = HashOf(x.key) /\ c \in Ids
    BY <1>8 DEF IInv, HashCurrent, Live
  <2>2. ASSUME x.key.type \in {"Own", "Ref"}
        PROVE  Seen(x.key.data)' = Seen(x.key.data)
    <3>1. x.key.data \in Ids
      BY <2>1, <2>2 DEF IInv, KeysExist
    <3>2. ASSUME x.key.data = m PROVE IsInKey(m)'
      <4>1. x \in heap'[c].entries /\ c \in Live'
        BY <1>2, <1>3, <2>1
      <4>2. x.key \in StoredKeys'
        BY <4>1 DEF StoredKeys
      <4>3. m \in Parts(m)'
        BY <1>1, <1>3 DEF Parts
      <4>. QED
        BY <2>2, <3>2, <4>2, <4>3 DEF IsInKey, PartsOf
    <3>. QED
      BY <1>7, <1>8, <2>2, <3>1, <3>2
  <2>3. x.key.type = "Binary" => BinaryHash(x.key.data)' = BinaryHash(x.key.data)
    BY <1>8, HashingStays
  <2>. QED
    BY <2>1, <2>2, <2>3, HashStays
<1>9. ASSUME ~careless'
      PROVE  new.hash = HashOf(k)'
  <2>1. ASSUME k.type \in {"Own", "Ref"}
        PROVE  Seen(k.data)' = Seen(k.data)
    <3>1. k.data \in Ids /\ (k.type = "Own" => k.data # m)
      BY <2>1, KeyArguments
    <3>2. ASSUME k.data = m PROVE IsInKey(m)'
      <4>1. new \in heap'[m].entries /\ m \in Live'
        BY <1>1, <1>2, <1>3
      <4>2. k \in StoredKeys'
        BY <4>1 DEF StoredKeys
      <4>. QED
        BY <2>1, <3>1, <3>2, <4>2 DEF IsInKey
    <3>. QED
      BY <1>7, <1>9, <2>1, <3>1, <3>2
  <2>2. k.type = "Binary" => BinaryHash(k.data)' = BinaryHash(k.data)
    BY DEF BinaryHash, Hashing
  <2>. QED
    BY <2>1, <2>2, HashStays
<1>10. HashCurrent'
  BY <1>2, <1>3, <1>8, <1>9 DEF HashCurrent, Live
<1>. QED
  BY <1>4, <1>5, <1>6, <1>10 DEF IInv

\* No new entry: a hash is computed, and containers may be destroyed.
LEMMA HashIInv ==
    ASSUME IInv, NEW k, UNCHANGED heap, dead \subseteq dead', hash' = Hashing(k),
           careless => careless', careless' \in BOOLEAN, Rehashes(k) => careless'
    PROVE  IInv'
<1>1. Ids' = Ids /\ Live' \subseteq Live
  BY DEF Ids, Live
<1>2. TypeOK' /\ KeysExist'
  BY <1>1 DEF IInv, TypeOK, KeysExist
<1>3. hash' = 0 => hash = 0
  BY DEF Hashing, BinaryHash
<1>4. OnlyEmptyHashed'
  BY <1>1, <1>3 DEF IInv, OnlyEmptyHashed
<1>5. ASSUME ~careless', NEW m \in Live', NEW x \in heap[m].entries
      PROVE  x.hash = HashOf(x.key)'
  <2>1. m \in Live /\ x.hash = HashOf(x.key)
    BY <1>1, <1>5 DEF IInv, HashCurrent
  <2>2. x.key.type \in {"Own", "Ref"} => Seen(x.key.data)' = Seen(x.key.data)
    BY DEF Seen
  <2>3. x.key.type = "Binary" => BinaryHash(x.key.data)' = BinaryHash(x.key.data)
    BY <1>5, <2>1, HashingStays
  <2>. QED
    BY <2>1, <2>2, <2>3, HashStays
<1>6. HashCurrent'
  BY <1>5 DEF HashCurrent
<1>. QED
  BY <1>2, <1>4, <1>6 DEF IInv

LEMMA StutterIInv ==
    ASSUME IInv, UNCHANGED <<heap, dead, hash, careless>>
    PROVE  IInv'
<1>1. PICK k : k = Scalar("Null", 0)
  OBVIOUS
<1>2. k.type = "Null" /\ Hashing(k) = hash /\ ~Rehashes(k)
  BY <1>1 DEF Scalar, Hashing, Rehashes
<1>. QED
  BY <1>2, HashIInv DEF IInv, TypeOK

LEMMA NextIInv == IInv /\ [Next]_vars => IInv'
<1>. SUFFICES ASSUME IInv, [Next]_vars PROVE IInv'
  OBVIOUS
<1>0. TypeOK /\ careless \in BOOLEAN
  BY DEF IInv, TypeOK
<1>1. ASSUME NEW c \in Live, NEW e, EmplaceBack(c, e)
      PROVE  IInv'
  <2>. DEFINE r == [heap[c] EXCEPT !.elems = Append(@, e)]
  <2>1. c \in Ids /\ Cell(heap[c])
    BY <1>0 DEF Live, TypeOK
  <2>2. /\ Cell(r) /\ r.entries = heap[c].entries /\ r.done = heap[c].done
        /\ r.type = heap[c].type
    BY <2>1, CellChange
  <2>3. heap' = [heap EXCEPT ![c] = r]
    BY <1>1 DEF EmplaceBack
  <2>. HIDE DEF r
  <2>4. ~heap[c].done => Seen(c)' = Seen(c)
    <3>1. heap'[c] = r
      BY <1>0, <2>1, <2>3 DEF TypeOK
    <3>. QED
      BY <2>2, <3>1 DEF Seen
  <2>5. Seen(c)' # Seen(c) /\ IsInKey(c) => careless'
    BY <1>1, <2>1, <2>4 DEF EmplaceBack, Cell
  <2>. QED
    BY <1>0, <1>1, <2>1, <2>2, <2>3, <2>5, ChangeOne DEF EmplaceBack
<1>2. ASSUME NEW m \in Live, NEW k \in Keys \cup Movable(m) \cup Refs, NEW v, Emplace(m, k, v)
      PROVE  IInv'
  <2>1. CASE NoDefinition(k)
    <3>1. UNCHANGED <<heap, dead, hash, careless>>
      BY <1>2, <2>1 DEF Emplace
    <3>. QED
      BY <3>1, StutterIInv
  <2>2. CASE ~NoDefinition(k)
    <3>1. /\ Insert(m, k, v) /\ hash' = Hashing(k)
          /\ (careless => careless') /\ careless' \in BOOLEAN /\ (Rehashes(k) => careless')
          /\ heap[m].done /\ Found(m, k) = {} /\ IsInKey(m)' => careless'
      BY <1>2, <2>2 DEF Emplace
    <3>2. CASE Found(m, k) = {}
      <4>1. PICK new : new = [key |-> k, value |-> v, hash |-> HashOf(k)]
        OBVIOUS
      <4>2. heap' = [heap EXCEPT ![m].entries = @ \cup {new}] /\ UNCHANGED dead
        BY <3>1, <3>2, <4>1 DEF Insert
      <4>3. new.key = k /\ new.hash = HashOf(k)
        BY <4>1
      <4>. QED
        BY <3>1, <3>2, <4>2, <4>3, EntryIInv
    <3>3. CASE Found(m, k) # {}
      <4>1. UNCHANGED heap /\ dead \subseteq dead'
        BY <3>1, <3>3 DEF Insert
      <4>. QED
        BY <3>1, <4>1, HashIInv
    <3>. QED
      BY <3>2, <3>3
  <2>. QED
    BY <2>1, <2>2
<1>3. ASSUME NEW k \in Keys, Find(k)
      PROVE  IInv'
  BY <1>0, <1>3, HashIInv DEF Find
<1>4. ASSUME NEW c \in Live, NEW name \in Names, SetType(c, name)
      PROVE  IInv'
  <2>. DEFINE r == [heap[c] EXCEPT !.name = name]
  <2>1. c \in Ids /\ Cell(heap[c])
    BY <1>0 DEF Live, TypeOK
  <2>2. Cell(r) /\ r.entries = heap[c].entries
    BY <2>1, CellChange
  <2>3. heap' = [heap EXCEPT ![c] = r]
    BY <1>4 DEF SetType
  <2>4. Seen(c)' # Seen(c) /\ IsInKey(c) => careless'
    <3>1. name = heap[c].name => r = heap[c]
      BY <2>1, CellChange
    <3>2. heap'[c] = r
      BY <1>0, <2>1, <2>3 DEF TypeOK
    <3>. QED
      BY <1>4, <3>1, <3>2 DEF SetType, Seen
  <2>. QED
    BY <1>0, <1>4, <2>1, <2>2, <2>3, <2>4, ChangeOne DEF SetType
<1>5. ASSUME NEW c \in Live, Set(c)
      PROVE  IInv'
  <2>. DEFINE r == [heap[c] EXCEPT !.done = TRUE]
  <2>1. c \in Ids /\ Cell(heap[c])
    BY <1>0 DEF Live, TypeOK
  <2>2. Cell(r) /\ r.entries = heap[c].entries
    BY <2>1, CellChange
  <2>3. heap' = [heap EXCEPT ![c] = r]
    BY <1>5 DEF Set
  <2>. QED
    BY <1>0, <1>5, <2>1, <2>2, <2>3, ChangeOne DEF Set
<1>6. CASE UNCHANGED vars
  BY <1>6, StutterIInv DEF vars
<1>. QED
  BY <1>1, <1>2, <1>3, <1>4, <1>5, <1>6 DEF Next

\* HashCurrent in every reachable state: what a map is built on (object.hpp:54-64,
\* map_codec.cc:42) holds for any callers that leave its keys alone.
THEOREM Current == Spec => []HashCurrent
<1>1. IInv => HashCurrent
  BY DEF IInv
<1>. QED
  BY InitIInv, NextIInv, <1>1, PTL DEF Spec

-----------------------------------------------------------------------------
(* Induction over the naturals, as a fact about sets. *)

LEMMA Induction ==
    ASSUME NEW S, 0 \in S, \A n \in Nat : n \in S => n + 1 \in S
    PROVE  \A n \in Nat : n \in S
<1>. DEFINE R == OpToRel(<, Nat)
            T == {n \in Nat : n \notin S}
<1>1. SUFFICES ASSUME T # {} PROVE FALSE
  OBVIOUS
<1>2. PICK m \in T : \A n \in T : ~ (<<n, m>> \in R)
  BY <1>1, NatLessThanWellFounded, WFMin
<1>3. m \in Nat /\ m # 0
  OBVIOUS
<1>4. m - 1 \in Nat /\ (m - 1) + 1 = m /\ m - 1 < m
  BY <1>3
<1>5. m - 1 \in T
  BY <1>4
<1>6. <<m - 1, m>> \in R
  BY <1>3, <1>4 DEF OpToRel
<1>. QED
  BY <1>2, <1>5, <1>6

\* A function that takes one step more in each level.
Levelled(f, n, V, v, F) ==
    /\ f \in [0 .. n -> V]
    /\ f[0] = v /\ \A i \in 1 .. n : f[i] = F[f[i - 1]]

LEMMA LevelsExist ==
    ASSUME NEW V, NEW v \in V, NEW F \in [V -> V]
    PROVE  \A n \in Nat : \E f : Levelled(f, n, V, v, F)
<1>. DEFINE S == {n \in Nat : \E f : Levelled(f, n, V, v, F)}
<1>1. 0 \in S
  <2>1. PICK f : f = [i \in 0 .. 0 |-> v]
    OBVIOUS
  <2>2. f \in [0 .. 0 -> V] /\ f[0] = v
    BY <2>1
  <2>. QED
    BY <2>2 DEF Levelled
<1>2. ASSUME NEW n \in Nat, n \in S PROVE n + 1 \in S
  <2>1. PICK f \in [0 .. n -> V] : f[0] = v /\ \A i \in 1 .. n : f[i] = F[f[i - 1]]
    BY <1>2 DEF Levelled
  <2>2. PICK g : g = [i \in 0 .. n + 1 |-> IF i <= n THEN f[i] ELSE F[f[n]]]
    OBVIOUS
  <2>3. g \in [0 .. n + 1 -> V] /\ g[0] = v
    BY <2>1, <2>2
  <2>4. ASSUME NEW i \in 1 .. n + 1 PROVE g[i] = F[g[i - 1]]
    <3>1. i - 1 \in 0 .. n /\ g[i - 1] = f[i - 1]
      BY <2>2
    <3>2. CASE i <= n
      BY <2>1, <2>2, <3>1, <3>2
    <3>3. CASE i = n + 1
      BY <2>2, <3>1, <3>3
    <3>. QED
      BY <3>2, <3>3
  <2>. QED
    BY <2>3, <2>4 DEF Levelled
<1>3. \A n \in Nat : n \in S
  <2>. HIDE DEF S
  <2>. QED
    BY <1>1, <1>2, Induction
<1>. QED
  BY <1>3

-----------------------------------------------------------------------------
(* What Same and Equal compute, level by level.  K[c] is what is seen of the *)
(* container c; s[n] looks n containers deep.                               *)

Pairs == Element \X Element
Relations == [Pairs -> BOOLEAN]
Owns(a, b) == a.type = "Own" /\ b.type = "Own"

SameLevel(K, deeper, g) ==
    [p \in Pairs |-> IF Owns(p[1], p[2])
                     THEN deeper /\ SameOwn(g, K[p[1].data], K[p[2].data])
                     ELSE EqualScalar(p[1], p[2])]

SameLevels(K, N, s) == s = [n \in 0 .. N |-> SameLevel(K, n > 0, s[n - 1])]

LEMMA SameLevelsExist ==
    ASSUME NEW K, NEW N \in Nat
    PROVE  \E s : SameLevels(K, N, s)
<1>1. PICK v : v = SameLevel(K, FALSE, {})
  OBVIOUS
<1>2. PICK F : F = [g \in Relations |-> SameLevel(K, TRUE, g)]
  OBVIOUS
<1>3. \A deeper \in BOOLEAN : \A g : SameLevel(K, deeper, g) \in Relations
  BY DEF SameLevel, SameOwn, EqualScalar, Relations
<1>4. \A g : SameLevel(K, FALSE, g) = v
  BY <1>1 DEF SameLevel
<1>5. v \in Relations /\ F \in [Relations -> Relations]
  BY <1>1, <1>2, <1>3
<1>6. PICK s : Levelled(s, N, Relations, v, F)
  BY <1>5, LevelsExist
<1>7. ASSUME NEW n \in 0 .. N
      PROVE  s[n] = SameLevel(K, n > 0, s[n - 1])
  <2>1. CASE n = 0
    <3>1. (n > 0) = FALSE
      BY <2>1
    <3>. QED
      BY <1>4, <1>6, <2>1, <3>1 DEF Levelled
  <2>2. CASE n # 0
    <3>1. n \in 1 .. N /\ n - 1 \in 0 .. N /\ (n > 0) = TRUE
      BY <2>2
    <3>2. s[n - 1] \in Relations /\ s[n] = F[s[n - 1]]
      BY <1>6, <3>1 DEF Levelled
    <3>. QED
      BY <1>2, <3>1, <3>2
  <2>. QED
    BY <2>1, <2>2
<1>8. s = [n \in 0 .. N |-> s[n]]
  BY <1>6 DEF Levelled
<1>. QED
  BY <1>7, <1>8 DEF SameLevels

LEMMA SameLevelsAt ==
    ASSUME NEW K, NEW N \in Nat, NEW s, SameLevels(K, N, s), NEW n \in 0 .. N,
           NEW a \in Element, NEW b \in Element
    PROVE  /\ Owns(a, b) => (s[n][<<a, b>>] <=> n > 0 /\ SameOwn(s[n - 1], K[a.data], K[b.data]))
           /\ ~ Owns(a, b) => (s[n][<<a, b>>] <=> EqualScalar(a, b))
<1>1. s[n] = SameLevel(K, n > 0, s[n - 1])
  BY DEF SameLevels
<1>2. PICK p : p = <<a, b>>
  OBVIOUS
<1>3. p \in Pairs /\ p[1] = a /\ p[2] = b
  BY <1>2 DEF Pairs
<1>4. s[n][p] = IF Owns(p[1], p[2])
                THEN (n > 0) /\ SameOwn(s[n - 1], K[p[1].data], K[p[2].data])
                ELSE EqualScalar(p[1], p[2])
  BY <1>1, <1>3 DEF SameLevel
<1>5. s[n][p] = IF Owns(a, b) THEN (n > 0) /\ SameOwn(s[n - 1], K[a.data], K[b.data])
                ELSE EqualScalar(a, b)
  BY <1>3, <1>4
<1>. QED
  BY <1>2, <1>5 DEF SameOwn, EqualScalar

-----------------------------------------------------------------------------
(* Sameness as a relation: on containers K and on a set G of them that holds *)
(* what its members hold.                                                   *)

Known(G) == {e \in Element : e.type = "Own" => e.data \in G}

Holds(c, Q) ==
    /\ c.elems \in Seq(Q)
    /\ IsFiniteSet(c.entries)
    /\ \A x \in c.entries : x.key \in Q /\ x.value \in Q

Closed(K, G) == \A c \in G : Holds(K[c], Known(G))

LEMMA SameOwnSymmetric ==
    ASSUME NEW Q, NEW g, NEW c, Holds(c, Q), NEW d, Holds(d, Q), SameOwn(g, c, d),
           \A a, b \in Q : g[<<a, b>>] => g[<<b, a>>]
    PROVE  SameOwn(g, d, c)
<1>1. /\ Len(d.elems) = Len(c.elems)
      /\ \A i \in DOMAIN d.elems : i \in DOMAIN c.elems /\ c.elems[i] \in Q /\ d.elems[i] \in Q
  BY DEF Holds, SameOwn
<1>2. ASSUME NEW i \in DOMAIN d.elems PROVE g[<<d.elems[i], c.elems[i]>>]
  BY <1>1 DEF SameOwn
<1>3. ASSUME NEW x \in c.entries, NEW y \in d.entries, SameEntry(g, x, y) PROVE SameEntry(g, y, x)
  BY <1>3 DEF Holds, SameEntry
<1>. QED
  BY <1>1, <1>2, <1>3 DEF SameOwn

LEMMA SameOwnTransitive ==
    ASSUME NEW Q, NEW g, NEW c, Holds(c, Q), NEW d, Holds(d, Q), NEW e, Holds(e, Q),
           SameOwn(g, c, d), SameOwn(g, d, e),
           \A x, y, z \in Q : g[<<x, y>>] /\ g[<<y, z>>] => g[<<x, z>>]
    PROVE  SameOwn(g, c, e)
<1>1. /\ Len(c.elems) = Len(e.elems)
      /\ \A i \in DOMAIN c.elems : /\ i \in DOMAIN d.elems
                                   /\ c.elems[i] \in Q /\ d.elems[i] \in Q /\ e.elems[i] \in Q
  BY DEF Holds, SameOwn
<1>2. ASSUME NEW i \in DOMAIN c.elems PROVE g[<<c.elems[i], e.elems[i]>>]
  BY <1>1 DEF SameOwn
<1>3. ASSUME NEW x \in c.entries, NEW y \in d.entries, NEW z \in e.entries,
             SameEntry(g, x, y), SameEntry(g, y, z)
      PROVE  SameEntry(g, x, z)
  BY <1>3 DEF Holds, SameEntry
<1>4. /\ \A x \in c.entries : \E z \in e.entries : SameEntry(g, x, z)
      /\ \A z \in e.entries : \E x \in c.entries : SameEntry(g, x, z)
  BY <1>3 DEF SameOwn
<1>. QED
  BY <1>1, <1>2, <1>4 DEF SameOwn

LEMMA SameOwnGrows ==
    ASSUME NEW Q, NEW g, NEW h, NEW c, Holds(c, Q), NEW d, Holds(d, Q), SameOwn(g, c, d),
           \A a, b \in Q : g[<<a, b>>] => h[<<a, b>>]
    PROVE  SameOwn(h, c, d)
<1>1. /\ Len(d.elems) = Len(c.elems)
      /\ \A i \in DOMAIN c.elems : c.elems[i] \in Q /\ d.elems[i] \in Q
  BY DEF Holds, SameOwn
<1>2. ASSUME NEW i \in DOMAIN c.elems PROVE h[<<c.elems[i], d.elems[i]>>]
  BY <1>1 DEF SameOwn
<1>3. ASSUME NEW x \in c.entries, NEW y \in d.entries, SameEntry(g, x, y) PROVE SameEntry(h, x, y)
  BY <1>3 DEF Holds, SameEntry
<1>. QED
  BY <1>1, <1>2, <1>3 DEF SameOwn

Symmetric(g, Q) == \A a, b \in Q : g[<<a, b>>] => g[<<b, a>>]
Transitive(g, Q) == \A a, b, c \in Q : g[<<a, b>>] /\ g[<<b, c>>] => g[<<a, c>>]
Implies(g, h, Q) == \A a, b \in Q : g[<<a, b>>] => h[<<a, b>>]

LEMMA SameSymmetric ==
    ASSUME NEW K, NEW G, Closed(K, G), NEW N \in Nat, NEW s, SameLevels(K, N, s)
    PROVE  \A n \in 0 .. N : Symmetric(s[n], Known(G))
<1>. DEFINE S == {n \in Nat : n \in 0 .. N => Symmetric(s[n], Known(G))}
<1>1. ASSUME NEW n \in 0 .. N, n > 0 => Symmetric(s[n - 1], Known(G)),
             NEW a \in Known(G), NEW b \in Known(G), s[n][<<a, b>>]
      PROVE  s[n][<<b, a>>]
  <2>1. a \in Element /\ b \in Element /\ (Owns(a, b) <=> Owns(b, a))
    BY DEF Known, Owns
  <2>2. CASE Owns(a, b)
    <3>1. a.data \in G /\ b.data \in G
      BY <2>2 DEF Owns, Known
    <3>2. n > 0 /\ SameOwn(s[n - 1], K[a.data], K[b.data])
      BY <1>1, <2>1, <2>2, SameLevelsAt
    <3>3. SameOwn(s[n - 1], K[b.data], K[a.data])
      BY <1>1, <3>1, <3>2, SameOwnSymmetric DEF Closed, Symmetric
    <3>. QED
      BY <2>1, <2>2, <3>2, <3>3, SameLevelsAt
  <2>3. CASE ~ Owns(a, b)
    BY <1>1, <2>1, <2>3, SameLevelsAt DEF EqualScalar
  <2>. QED
    BY <2>2, <2>3
<1>2. 0 \in S
  BY <1>1 DEF Symmetric
<1>3. ASSUME NEW n \in Nat, n \in S PROVE n + 1 \in S
  <2>1. SUFFICES ASSUME n + 1 \in 0 .. N PROVE Symmetric(s[n + 1], Known(G))
    OBVIOUS
  <2>2. Symmetric(s[n], Known(G)) /\ (n + 1) - 1 = n
    BY <1>3, <2>1
  <2>. QED
    BY <1>1, <2>1, <2>2 DEF Symmetric
<1>4. \A n \in Nat : n \in S
  <2>. HIDE DEF S
  <2>. QED
    BY <1>2, <1>3, Induction
<1>. QED
  BY <1>4

LEMMA SameTransitive ==
    ASSUME NEW K, NEW G, Closed(K, G), NEW N \in Nat, NEW s, SameLevels(K, N, s)
    PROVE  \A n \in 0 .. N : Transitive(s[n], Known(G))
<1>. DEFINE S == {n \in Nat : n \in 0 .. N => Transitive(s[n], Known(G))}
<1>1. ASSUME NEW n \in 0 .. N, n > 0 => Transitive(s[n - 1], Known(G)),
             NEW a \in Known(G), NEW b \in Known(G), NEW c \in Known(G),
             s[n][<<a, b>>], s[n][<<b, c>>]
      PROVE  s[n][<<a, c>>]
  <2>1. a \in Element /\ b \in Element /\ c \in Element
    BY DEF Known
  <2>2. CASE Owns(a, b)
    <3>1. n > 0 /\ SameOwn(s[n - 1], K[a.data], K[b.data])
      BY <1>1, <2>1, <2>2, SameLevelsAt
    <3>2. CASE Owns(b, c)
      <4>1. n > 0 /\ SameOwn(s[n - 1], K[b.data], K[c.data])
        BY <1>1, <2>1, <3>2, SameLevelsAt
      <4>2. a.data \in G /\ b.data \in G /\ c.data \in G /\ Owns(a, c)
        BY <2>2, <3>2 DEF Owns, Known
      <4>3. Holds(K[a.data], Known(G)) /\ Holds(K[b.data], Known(G)) /\ Holds(K[c.data], Known(G))
        BY <4>2 DEF Closed
      <4>4. \A x, y, z \in Known(G) :
               s[n - 1][<<x, y>>] /\ s[n - 1][<<y, z>>] => s[n - 1][<<x, z>>]
        BY <1>1, <3>1 DEF Transitive
      <4>5. SameOwn(s[n - 1], K[a.data], K[c.data])
        BY <3>1, <4>1, <4>3, <4>4, SameOwnTransitive
      <4>. QED
        BY <2>1, <3>1, <4>2, <4>5, SameLevelsAt
    <3>3. CASE ~ Owns(b, c)
      <4>1. EqualScalar(b, c)
        BY <1>1, <2>1, <3>3, SameLevelsAt
      <4>2. b = c
        BY <4>1 DEF EqualScalar
      <4>. QED
        BY <1>1, <4>2
    <3>. QED
      BY <3>2, <3>3
  <2>3. CASE ~ Owns(a, b)
    <3>1. EqualScalar(a, b)
      BY <1>1, <2>1, <2>3, SameLevelsAt
    <3>2. a = b
      BY <3>1 DEF EqualScalar
    <3>. QED
      BY <1>1, <3>2
  <2>. QED
    BY <2>2, <2>3
<1>2. 0 \in S
  BY <1>1 DEF Transitive
<1>3. ASSUME NEW n \in Nat, n \in S PROVE n + 1 \in S
  <2>1. SUFFICES ASSUME n + 1 \in 0 .. N PROVE Transitive(s[n + 1], Known(G))
    OBVIOUS
  <2>2. Transitive(s[n], Known(G)) /\ (n + 1) - 1 = n
    BY <1>3, <2>1
  <2>. QED
    BY <1>1, <2>1, <2>2 DEF Transitive
<1>4. \A n \in Nat : n \in S
  <2>. HIDE DEF S
  <2>. QED
    BY <1>2, <1>3, Induction
<1>. QED
  BY <1>4

\* Levels over containers that are alike on G agree there; one level can be
\* deeper than the other.
LEMMA SameImplies ==
    ASSUME NEW K, NEW J, NEW G, Closed(K, G), \A c \in G : J[c] = K[c],
           NEW N \in Nat, NEW s, SameLevels(K, N, s), NEW t, SameLevels(J, N, t),
           NEW m \in {0, 1}
    PROVE  \A n \in Nat : n + m <= N => Implies(s[n], t[n + m], Known(G))
<1>. DEFINE S == {n \in Nat : n + m <= N => Implies(s[n], t[n + m], Known(G))}
<1>1. ASSUME NEW n \in Nat, n + m <= N, n > 0 => Implies(s[n - 1], t[(n + m) - 1], Known(G)),
             NEW a \in Known(G), NEW b \in Known(G), s[n][<<a, b>>]
      PROVE  t[n + m][<<a, b>>]
  <2>1. a \in Element /\ b \in Element
    BY DEF Known
  <2>2. n \in 0 .. N /\ n + m \in 0 .. N
    BY <1>1
  <2>3. CASE Owns(a, b)
    <3>1. a.data \in G /\ b.data \in G
      BY <2>3 DEF Owns, Known
    <3>2. n > 0 /\ SameOwn(s[n - 1], K[a.data], K[b.data])
      BY <1>1, <2>1, <2>2, <2>3, SameLevelsAt
    <3>3. SameOwn(t[(n + m) - 1], J[a.data], J[b.data])
      BY <1>1, <3>1, <3>2, SameOwnGrows DEF Closed, Implies
    <3>4. n + m > 0
      BY <3>2
    <3>. QED
      BY <2>1, <2>2, <2>3, <3>3, <3>4, SameLevelsAt
  <2>4. CASE ~ Owns(a, b)
    BY <1>1, <2>1, <2>2, <2>4, SameLevelsAt
  <2>. QED
    BY <2>3, <2>4
<1>2. 0 \in S
  BY <1>1 DEF Implies
<1>3. ASSUME NEW n \in Nat, n \in S PROVE n + 1 \in S
  <2>1. SUFFICES ASSUME (n + 1) + m <= N PROVE Implies(s[n + 1], t[(n + 1) + m], Known(G))
    OBVIOUS
  <2>2. (n + 1) - 1 = n /\ ((n + 1) + m) - 1 = n + m /\ n + m <= N
    BY <2>1
  <2>3. Implies(s[n], t[n + m], Known(G))
    BY <1>3, <2>2
  <2>. QED
    BY <1>1, <2>1, <2>2, <2>3 DEF Implies
<1>4. \A n \in Nat : n \in S
  <2>. HIDE DEF S
  <2>. QED
    BY <1>2, <1>3, Induction
<1>. QED
  BY <1>4

LEMMA SameGrows ==
    ASSUME NEW K, NEW G, Closed(K, G), NEW N \in Nat, NEW s, SameLevels(K, N, s)
    PROVE  \A n \in 0 .. N : Implies(s[n], s[N], Known(G))
<1>. DEFINE S == {i \in Nat : i <= N => Implies(s[N - i], s[N], Known(G))}
<1>1. 0 \in S
  BY DEF Implies
<1>2. ASSUME NEW i \in Nat, i \in S PROVE i + 1 \in S
  <2>1. SUFFICES ASSUME i + 1 <= N PROVE Implies(s[N - (i + 1)], s[N], Known(G))
    OBVIOUS
  <2>2. /\ N - (i + 1) \in Nat /\ (N - (i + 1)) + 1 = N - i /\ (N - (i + 1)) + 1 <= N
        /\ i <= N
    BY <2>1
  <2>3. Implies(s[N - (i + 1)], s[(N - (i + 1)) + 1], Known(G))
    BY <2>2, SameImplies
  <2>4. Implies(s[N - i], s[N], Known(G))
    BY <1>2, <2>2
  <2>. QED
    BY <2>2, <2>3, <2>4 DEF Implies
<1>3. \A i \in Nat : i \in S
  <2>. HIDE DEF S
  <2>. QED
    BY <1>1, <1>2, Induction
<1>4. ASSUME NEW n \in 0 .. N PROVE Implies(s[n], s[N], Known(G))
  <2>1. N - n \in Nat /\ N - n <= N /\ N - (N - n) = n
    OBVIOUS
  <2>. QED
    BY <1>3, <2>1
<1>. QED
  BY <1>4
\* What is seen of each container.
View == [c \in Nat |-> Seen(c)]

SameBody(n, g) ==
    [p \in Element \X Element |->
        IF p[1].type = "Own" /\ p[2].type = "Own"
        THEN n > 0 /\ SameOwn(g, Seen(p[1].data), Seen(p[2].data))
        ELSE EqualScalar(p[1], p[2])]

SameChosen == CHOOSE same : same = [n \in 0 .. Len(heap) |-> SameBody(n, same[n - 1])]

SameIsLevel == \E s : SameLevels(View, Len(heap), s) /\ Same = s[Len(heap)]

Counted == Len(heap) \in Nat

LEMMA SameIs == Counted => SameIsLevel
<1>1. SUFFICES ASSUME Len(heap) \in Nat PROVE SameIsLevel
  BY DEF Counted
<1>2. ASSUME NEW n, NEW g PROVE SameBody(n, g) = SameLevel(View, n > 0, g)
  <2>1. \A p \in Pairs : /\ View[p[1].data] = Seen(p[1].data)
                         /\ View[p[2].data] = Seen(p[2].data)
    BY DEF View, Pairs, Element
  <2>. QED
    BY <2>1 DEF SameBody, SameLevel, Pairs, Owns
<1>3. PICK s : SameLevels(View, Len(heap), s)
  BY <1>1, SameLevelsExist
<1>4. s = [n \in 0 .. Len(heap) |-> SameBody(n, s[n - 1])]
  BY <1>2, <1>3 DEF SameLevels
<1>5. SameChosen = [n \in 0 .. Len(heap) |-> SameBody(n, SameChosen[n - 1])]
  BY Zenon, <1>4 DEF SameChosen
<1>6. SameLevels(View, Len(heap), SameChosen)
  BY <1>2, <1>5 DEF SameLevels
<1>7. Same = SameChosen[Len(heap)]
  BY Zenon DEF Same, SameChosen, SameBody
<1>. QED
  BY <1>6, <1>7 DEF SameIsLevel

LEMMA SameIsNext == Counted' => SameIsLevel'
BY SameIs, PTL

-----------------------------------------------------------------------------
(* The levels of operator==. *)

EqualLevel(deeper, g) ==
    [p \in Pairs |-> IF Owns(p[1], p[2])
                     THEN deeper /\ EqualOwn(g, p[1].data, p[2].data)
                     ELSE EqualScalar(p[1], p[2])]

EqualLevels(N, e) == e = [n \in 0 .. N |-> EqualLevel(n > 0, e[n - 1])]

LEMMA EqualLevelsExist ==
    ASSUME NEW N \in Nat
    PROVE  \E e : EqualLevels(N, e)
<1>1. PICK v : v = EqualLevel(FALSE, {})
  OBVIOUS
<1>2. PICK F : F = [g \in Relations |-> EqualLevel(TRUE, g)]
  OBVIOUS
<1>3. \A deeper \in BOOLEAN : \A g : EqualLevel(deeper, g) \in Relations
  BY DEF EqualLevel, EqualOwn, Compared, EqualScalar, Relations
<1>4. \A g : EqualLevel(FALSE, g) = v
  BY <1>1 DEF EqualLevel
<1>5. v \in Relations /\ F \in [Relations -> Relations]
  BY <1>1, <1>2, <1>3
<1>6. PICK e : Levelled(e, N, Relations, v, F)
  BY <1>5, LevelsExist
<1>7. ASSUME NEW n \in 0 .. N
      PROVE  e[n] = EqualLevel(n > 0, e[n - 1])
  <2>1. CASE n = 0
    <3>1. (n > 0) = FALSE
      BY <2>1
    <3>. QED
      BY <1>4, <1>6, <2>1, <3>1 DEF Levelled
  <2>2. CASE n # 0
    <3>1. n \in 1 .. N /\ n - 1 \in 0 .. N /\ (n > 0) = TRUE
      BY <2>2
    <3>2. e[n - 1] \in Relations /\ e[n] = F[e[n - 1]]
      BY <1>6, <3>1 DEF Levelled
    <3>. QED
      BY <1>2, <3>1, <3>2
  <2>. QED
    BY <2>1, <2>2
<1>8. e = [n \in 0 .. N |-> e[n]]
  BY <1>6 DEF Levelled
<1>. QED
  BY <1>7, <1>8 DEF EqualLevels

LEMMA EqualLevelsAt ==
    ASSUME NEW N \in Nat, NEW e, EqualLevels(N, e), NEW n \in 0 .. N,
           NEW a \in Element, NEW b \in Element
    PROVE  /\ Owns(a, b) => (e[n][<<a, b>>] <=> n > 0 /\ EqualOwn(e[n - 1], a.data, b.data))
           /\ ~ Owns(a, b) => (e[n][<<a, b>>] <=> EqualScalar(a, b))
<1>1. e[n] = EqualLevel(n > 0, e[n - 1])
  BY DEF EqualLevels
<1>2. PICK p : p = <<a, b>>
  OBVIOUS
<1>3. p \in Pairs /\ p[1] = a /\ p[2] = b
  BY <1>2 DEF Pairs
<1>4. e[n][p] = IF Owns(p[1], p[2])
                THEN (n > 0) /\ EqualOwn(e[n - 1], p[1].data, p[2].data)
                ELSE EqualScalar(p[1], p[2])
  BY <1>1, <1>3 DEF EqualLevel
<1>5. e[n][p] = IF Owns(a, b) THEN (n > 0) /\ EqualOwn(e[n - 1], a.data, b.data)
                ELSE EqualScalar(a, b)
  BY <1>3, <1>4
<1>. QED
  BY <1>2, <1>5 DEF EqualOwn, Compared, EqualScalar

EqualBody(n, g) ==
    [p \in Element \X Element |->
        IF p[1].type = "Own" /\ p[2].type = "Own"
        THEN n > 0 /\ EqualOwn(g, p[1].data, p[2].data)
        ELSE EqualScalar(p[1], p[2])]

EqualChosen == CHOOSE eq : eq = [n \in 0 .. Len(heap) |-> EqualBody(n, eq[n - 1])]

LEMMA EqualIs ==
    ASSUME Counted
    PROVE  \E e : EqualLevels(Len(heap), e) /\ Equal = e[Len(heap)]
<1>1. Len(heap) \in Nat
  BY DEF Counted
<1>2. ASSUME NEW n, NEW g PROVE EqualBody(n, g) = EqualLevel(n > 0, g)
  BY DEF EqualBody, EqualLevel, Pairs, Owns
<1>3. PICK e : EqualLevels(Len(heap), e)
  BY <1>1, EqualLevelsExist
<1>4. e = [n \in 0 .. Len(heap) |-> EqualBody(n, e[n - 1])]
  BY <1>2, <1>3 DEF EqualLevels
<1>5. EqualChosen = [n \in 0 .. Len(heap) |-> EqualBody(n, EqualChosen[n - 1])]
  BY Zenon, <1>4 DEF EqualChosen
<1>6. EqualLevels(Len(heap), EqualChosen)
  BY <1>2, <1>5 DEF EqualLevels
<1>7. Equal = EqualChosen[Len(heap)]
  BY Zenon DEF Equal, EqualChosen, EqualBody
<1>. QED
  BY <1>6, <1>7

-----------------------------------------------------------------------------
(* The heap is a forest: what a container owns is there, and it has no other *)
(* owner among those that have not been destroyed.                          *)

Shaped ==
    /\ Counted /\ heap = [c \in 1 .. Len(heap) |-> heap[c]]
    /\ \A c \in Ids : /\ Holds(heap[c], Known(Ids))
                      /\ heap[c].type \in Maps \cup Lists
                      /\ heap[c].type \in Lists => heap[c].entries = {}

OwnedLive == \A c \in Live : \A d \in Kids(c) : d \in Live /\ heap[d].done

OneOwner == \A c, d \in Live : \A k \in Kids(c) : k \in Kids(d) => c = d

Tree == Shaped /\ OwnedLive /\ OneOwner

LEMMA KidsAre ==
    ASSUME NEW c, NEW d
    PROVE  d \in Kids(c) <=>
             \/ \E i \in DOMAIN heap[c].elems : heap[c].elems[i].type = "Own" /\ heap[c].elems[i].data = d
             \/ \E x \in heap[c].entries : \/ x.key.type = "Own" /\ x.key.data = d
                                           \/ x.value.type = "Own" /\ x.value.data = d
<1>. DEFINE Some == ToSet(heap[c].elems) \cup UNION {{x.key, x.value} : x \in heap[c].entries}
<1>1. \A e : e \in Some <=> \/ \E i \in DOMAIN heap[c].elems : heap[c].elems[i] = e
                            \/ \E x \in heap[c].entries : x.key = e \/ x.value = e
  BY DEF ToSet
<1>2. d \in Kids(c) <=> \E e \in Some : e.type = "Own" /\ e.data = d
  BY DEF Kids
<1>. HIDE DEF Some
<1>. QED
  BY <1>1, <1>2

LEMMA KidsThere ==
    ASSUME Shaped, NEW c \in Ids
    PROVE  Kids(c) \subseteq Ids
<1>1. Holds(heap[c], Known(Ids))
  BY DEF Shaped
<1>2. \A i \in DOMAIN heap[c].elems : heap[c].elems[i] \in Known(Ids)
  BY <1>1 DEF Holds
<1>3. ASSUME NEW d \in Kids(c) PROVE d \in Ids
  <2>1. ASSUME NEW i \in DOMAIN heap[c].elems,
               heap[c].elems[i].type = "Own", heap[c].elems[i].data = d
        PROVE  d \in Ids
    BY <1>2, <2>1 DEF Known
  <2>2. ASSUME NEW x \in heap[c].entries,
               \/ x.key.type = "Own" /\ x.key.data = d
               \/ x.value.type = "Own" /\ x.value.data = d
        PROVE  d \in Ids
    BY <1>1, <2>2 DEF Holds, Known
  <2>3. \/ \E i \in DOMAIN heap[c].elems : heap[c].elems[i].type = "Own" /\ heap[c].elems[i].data = d
        \/ \E x \in heap[c].entries : \/ x.key.type = "Own" /\ x.key.data = d
                                      \/ x.value.type = "Own" /\ x.value.data = d
    BY Zenon, <1>3, KidsAre
  <2>. QED
    BY <2>1, <2>2, <2>3
<1>. QED
  BY <1>3

\* What others see of a container: all of it, or nothing but its type.
LEMMA UnseenEmpty ==
    ASSUME NEW c
    PROVE  /\ Seen(c).type = heap[c].type
           /\ heap[c].done => Seen(c) = heap[c]
           /\ ~ heap[c].done => Seen(c).elems = <<>> /\ Seen(c).entries = {}
<1>1. CASE heap[c].done
  BY Zenon, <1>1 DEF Seen
<1>2. CASE ~ heap[c].done
  <2>1. Seen(c) = Container(heap[c].type, "", FALSE)
    BY Zenon, <1>2 DEF Seen
  <2>2. \E name : Seen(c) = Container(heap[c].type, name, FALSE)
    BY Zenon, <2>1
  <2>. QED
    <3>1. PICK name : Seen(c) = Container(heap[c].type, name, FALSE)
      BY <2>2
    <3>2. \A r : r = Container(heap[c].type, name, FALSE) =>
                  r.type = heap[c].type /\ r.elems = <<>> /\ r.entries = {}
      BY DEF Container
    <3>. QED
      BY Zenon, <1>2, <3>1, <3>2
<1>. QED
  BY <1>1, <1>2

\* What is seen of containers that hold only each other.
LEMMA ViewClosed ==
    ASSUME Shaped, NEW T, T \subseteq Ids, \A c \in T : Kids(c) \subseteq T
    PROVE  Closed(View, T)
<1>1. SUFFICES ASSUME NEW c \in T PROVE Holds(View[c], Known(T))
  BY DEF Closed
<1>2. c \in Nat /\ c \in Ids /\ Holds(heap[c], Known(Ids))
  BY DEF Shaped, Counted, Ids
<1>3. View[c] = Seen(c)
  BY <1>2 DEF View
<1>4. CASE heap[c].done
  <2>1. View[c] = heap[c]
    BY <1>3, <1>4 DEF Seen
  <2>2. \A i \in 1 .. Len(heap[c].elems) : heap[c].elems[i] \in Known(T)
    <3>1. ASSUME NEW i \in 1 .. Len(heap[c].elems) PROVE heap[c].elems[i] \in Known(T)
      <4>1. heap[c].elems[i] \in Known(Ids) /\ i \in DOMAIN heap[c].elems
        BY <1>2 DEF Holds
      <4>2. heap[c].elems[i].type = "Own" => heap[c].elems[i].data \in Kids(c)
        BY <4>1, KidsAre
      <4>. QED
        BY <4>1, <4>2 DEF Known
    <3>. QED
      BY <3>1
  <2>3. heap[c].elems \in Seq(Known(T))
    <3>1. heap[c].elems \in Seq(Known(Ids))
      BY <1>2 DEF Holds
    <3>. QED
      BY <2>2, <3>1
  <2>4. ASSUME NEW x \in heap[c].entries PROVE x.key \in Known(T) /\ x.value \in Known(T)
    <3>1. /\ x.key.type = "Own" => x.key.data \in Kids(c)
          /\ x.value.type = "Own" => x.value.data \in Kids(c)
      BY KidsAre
    <3>. QED
      BY <1>2, <3>1 DEF Holds, Known
  <2>. QED
    BY <1>2, <2>1, <2>3, <2>4 DEF Holds
<1>5. CASE ~ heap[c].done
  <2>1. View[c].elems = <<>> /\ View[c].entries = {}
    BY <1>3, <1>5, UnseenEmpty
  <2>. QED
    BY <2>1, FS_EmptySet DEF Holds
<1>. QED
  BY <1>4, <1>5

LEMMA PartsFacts ==
    ASSUME Shaped, NEW c \in Ids
    PROVE  /\ Parts(c) \subseteq Ids /\ c \in Parts(c)
           /\ \A p \in Parts(c) : Kids(p) \subseteq Parts(c)
           /\ Kids(c) \subseteq Parts(c)
<1>1. Parts(c) \subseteq Ids /\ c \in Parts(c)
  BY DEF Parts
<1>2. ASSUME NEW p \in Parts(c), NEW d \in Kids(p) PROVE d \in Parts(c)
  <2>1. d \in Ids
    BY <1>1, KidsThere
  <2>2. ASSUME NEW S \in SUBSET Ids, c \in S, \A q \in S : Kids(q) \subseteq S
        PROVE  d \in S
    BY <2>2 DEF Parts
  <2>. QED
    BY <2>1, <2>2 DEF Parts
<1>. QED
  BY <1>1, <1>2

LEMMA PartsLeast ==
    ASSUME NEW c, NEW S \in SUBSET Ids, c \in S, \A q \in S : Kids(q) \subseteq S
    PROVE  Parts(c) \subseteq S
BY DEF Parts

LEMMA PartsOfParts ==
    ASSUME Shaped, NEW c \in Ids, NEW d \in Parts(c)
    PROVE  d \in Ids /\ Parts(d) \subseteq Parts(c)
BY PartsFacts, PartsLeast

LEMMA PartsLive ==
    ASSUME Tree, NEW c \in Live
    PROVE  Parts(c) \subseteq Live
BY PartsLeast DEF Tree, OwnedLive, Live

\* Who is no root has an owner among the parts.
LEMMA PartsOwner ==
    ASSUME Shaped, NEW c \in Ids, NEW d \in Parts(c), d # c
    PROVE  \E p \in Parts(c) : d \in Kids(p)
<1>1. SUFFICES ASSUME \A p \in Parts(c) : d \notin Kids(p) PROVE FALSE
  OBVIOUS
<1>2. Parts(c) \subseteq Ids /\ c \in Parts(c) /\ \A p \in Parts(c) : Kids(p) \subseteq Parts(c)
  BY PartsFacts
<1>3. PICK S : S = Parts(c) \ {d}
  OBVIOUS
<1>4. S \in SUBSET Ids /\ c \in S /\ \A p \in S : Kids(p) \subseteq S
  BY <1>1, <1>2, <1>3
<1>5. Parts(c) \subseteq S
  BY <1>4, PartsLeast
<1>. QED
  BY <1>3, <1>5

-----------------------------------------------------------------------------
(* Equality against sameness. *)

\* Every entry of the living maps is kept under the hash of its key.
Hashed == \A m \in Live : \A x \in heap[m].entries : x.hash = HashOf(x.key)

\* No two entries of a map with plain keys have the same key.
AllDistinct ==
    \A m \in Live : PlainKeys(m) =>
        \A x, y \in heap[m].entries : Same[<<x.key, y.key>>] => x = y

LiveElements == Known(Live)

LEMMA LiveClosed ==
    ASSUME Tree
    PROVE  Closed(View, Live) /\ Live \subseteq Ids /\ Live \subseteq Nat
BY ViewClosed DEF Tree, OwnedLive, Live, Ids, Shaped, Counted

LEMMA SeenHolds ==
    ASSUME Tree, NEW c \in Live
    PROVE  /\ View[c] = Seen(c) /\ Holds(Seen(c), LiveElements)
           /\ \A x \in Seen(c).entries : x \in heap[c].entries
<1>1. c \in Nat
  BY LiveClosed
<1>2. View[c] = Seen(c)
  BY <1>1 DEF View
<1>. QED
  BY <1>2, LiveClosed, UnseenEmpty DEF Closed, LiveElements

LEMMA SameHash ==
    ASSUME Tree, NEW N \in Nat, NEW s, SameLevels(View, N, s), NEW n \in 0 .. N,
           NEW a \in LiveElements, NEW b \in LiveElements, s[n][<<a, b>>]
    PROVE  HashOf(a) = HashOf(b)
<1>1. a \in Element /\ b \in Element
  BY DEF LiveElements, Known
<1>2. CASE Owns(a, b)
  <2>1. a.data \in Live /\ b.data \in Live
    BY <1>2 DEF LiveElements, Known, Owns
  <2>2. SameOwn(s[n - 1], Seen(a.data), Seen(b.data))
    BY <1>1, <1>2, <2>1, SameLevelsAt, SeenHolds
  <2>3. Size(a.data) = Size(b.data)
    BY <2>2 DEF SameOwn, Size
  <2>4. ContainerHash(a.data) = ContainerHash(b.data)
    BY <2>2, <2>3 DEF ContainerHash, SameOwn
  <2>. QED
    BY <1>2, <2>4 DEF HashOf, Owns
<1>3. CASE ~ Owns(a, b)
  <2>1. EqualScalar(a, b)
    BY <1>1, <1>3, SameLevelsAt
  <2>. QED
    BY <2>1 DEF EqualScalar
<1>. QED
  BY <1>2, <1>3

\* Containers that are the same are equal, whatever table finds the keys.
LEMMA SameCompared ==
    ASSUME NEW Q, NEW g, NEW h, NEW c, NEW d, Holds(Seen(c), Q), Holds(Seen(d), Q),
           SameOwn(g, Seen(c), Seen(d)), Implies(g, h, Q), Symmetric(g, Q),
           \A a, b \in Q : g[<<a, b>>] => HashOf(a) = HashOf(b),
           \A y \in Seen(d).entries : y.hash = HashOf(y.key)
    PROVE  Compared(h, c, d)
<1>1. /\ Len(Seen(c).elems) = Len(Seen(d).elems)
      /\ \A i \in DOMAIN Seen(c).elems : Seen(c).elems[i] \in Q /\ Seen(d).elems[i] \in Q
  BY DEF Holds, SameOwn
<1>2. SameElems(h, Seen(c).elems, Seen(d).elems)
  BY <1>1 DEF SameOwn, SameElems, Implies
<1>3. Size(c) = Size(d)
  BY DEF SameOwn, Size
<1>4. ASSUME NEW x \in Seen(c).entries, NEW y \in Seen(d).entries, SameEntry(g, x, y)
      PROVE  y.hash = HashOf(x.key) /\ h[<<y.key, x.key>>] /\ h[<<y.value, x.value>>]
  <2>1. x.key \in Q /\ y.key \in Q /\ x.value \in Q /\ y.value \in Q
    BY DEF Holds
  <2>2. g[<<x.key, y.key>>] /\ g[<<y.key, x.key>>] /\ g[<<y.value, x.value>>]
    BY <1>4, <2>1 DEF SameEntry, Symmetric
  <2>. QED
    BY <2>1, <2>2 DEF Implies
<1>5. Contained(h, c, d)
  BY <1>4 DEF Contained, SameOwn
<1>. QED
  BY <1>2, <1>3, <1>5 DEF Compared, SameOwn

LEMMA SameEqual ==
    ASSUME Tree, Hashed, NEW N \in Nat, NEW s, SameLevels(View, N, s), NEW e, EqualLevels(N, e)
    PROVE  \A n \in 0 .. N : Implies(s[n], e[n], LiveElements)
<1>. DEFINE S == {n \in Nat : n \in 0 .. N => Implies(s[n], e[n], LiveElements)}
<1>1. ASSUME NEW n \in 0 .. N, n > 0 => Implies(s[n - 1], e[n - 1], LiveElements),
             NEW a \in LiveElements, NEW b \in LiveElements, s[n][<<a, b>>]
      PROVE  e[n][<<a, b>>]
  <2>1. a \in Element /\ b \in Element
    BY DEF LiveElements, Known
  <2>2. CASE Owns(a, b)
    <3>1. PICK c, d : c = a.data /\ d = b.data
      OBVIOUS
    <3>2. c \in Live /\ d \in Live
      BY <2>2, <3>1 DEF LiveElements, Known, Owns
    <3>3. /\ View[c] = Seen(c) /\ Holds(Seen(c), LiveElements)
          /\ View[d] = Seen(d) /\ Holds(Seen(d), LiveElements)
          /\ \A x \in Seen(c).entries : x.hash = HashOf(x.key)
          /\ \A x \in Seen(d).entries : x.hash = HashOf(x.key)
      BY <3>2, SeenHolds DEF Hashed
    <3>4. n > 0 /\ SameOwn(s[n - 1], Seen(c), Seen(d))
      BY <1>1, <2>1, <2>2, <3>1, <3>3, SameLevelsAt
    <3>5. n - 1 \in 0 .. N
      BY <3>4
    <3>6. Symmetric(s[n - 1], LiveElements)
      BY <3>5, LiveClosed, SameSymmetric DEF LiveElements
    <3>7. \A x, y \in LiveElements : s[n - 1][<<x, y>>] => HashOf(x) = HashOf(y)
      BY <3>5, SameHash
    <3>8. SameOwn(s[n - 1], Seen(d), Seen(c))
      BY <3>3, <3>4, <3>6, SameOwnSymmetric DEF Symmetric
    <3>9. Compared(e[n - 1], c, d)
      BY <1>1, <3>3, <3>4, <3>6, <3>7, SameCompared
    <3>10. Compared(e[n - 1], d, c)
      BY <1>1, <3>3, <3>4, <3>6, <3>7, <3>8, SameCompared
    <3>11. EqualOwn(e[n - 1], c, d)
      BY <3>9, <3>10 DEF EqualOwn
    <3>. QED
      BY <2>1, <2>2, <3>1, <3>4, <3>11, EqualLevelsAt
  <2>3. CASE ~ Owns(a, b)
    BY <1>1, <2>1, <2>3, SameLevelsAt, EqualLevelsAt
  <2>. QED
    BY <2>2, <2>3
<1>2. 0 \in S
  BY <1>1 DEF Implies
<1>3. ASSUME NEW n \in Nat, n \in S PROVE n + 1 \in S
  <2>1. SUFFICES ASSUME n + 1 \in 0 .. N PROVE Implies(s[n + 1], e[n + 1], LiveElements)
    OBVIOUS
  <2>2. Implies(s[n], e[n], LiveElements) /\ (n + 1) - 1 = n
    BY <1>3, <2>1
  <2>. QED
    BY <1>1, <2>1, <2>2 DEF Implies
<1>4. \A n \in Nat : n \in S
  <2>. HIDE DEF S
  <2>. QED
    BY <1>2, <1>3, Induction
<1>. QED
  BY <1>4

\* Of two finite sets of one size, a relation that is total on the one and tells
\* its members apart reaches all of the other.
LEMMA Onto ==
    ASSUME NEW S, NEW T, IsFiniteSet(S), IsFiniteSet(T), Cardinality(S) = Cardinality(T), NEW R,
           \A x \in S : \E y \in T : <<x, y>> \in R,
           \A x, z \in S : \A y \in T : <<x, y>> \in R /\ <<z, y>> \in R => x = z
    PROVE  \A y \in T : \E x \in S : <<x, y>> \in R
<1>1. PICK f : f = [x \in S |-> CHOOSE y \in T : <<x, y>> \in R]
  OBVIOUS
<1>2. \A x \in S : f[x] \in T /\ <<x, f[x]>> \in R
  BY <1>1
<1>3. f \in [S -> T]
  BY <1>1, <1>2
<1>4. f \in Injection(S, T)
  BY <1>2, <1>3 DEF Injection, IsInjective
<1>5. f \in Surjection(S, T)
  BY <1>4, FS_Injection
<1>6. \A y \in T : \E x \in S : f[x] = y
  BY <1>5 DEF Surjection
<1>. QED
  BY <1>2, <1>6

\* Containers of one size of which the one is contained in the other are the same,
\* if what they hold is the same when it is equal.
LEMMA ComparedSame ==
    ASSUME NEW Q, NEW g, NEW h, NEW c, NEW d, Holds(Seen(c), Q), Holds(Seen(d), Q),
           Compared(h, c, d), Size(c) = Size(d),
           Implies(h, g, Q), Symmetric(g, Q), Transitive(g, Q),
           \A x, y \in Seen(c).entries : g[<<x.key, y.key>>] => x = y
    PROVE  SameOwn(g, Seen(c), Seen(d))
<1>1. /\ Len(Seen(c).elems) = Len(Seen(d).elems) /\ Len(Seen(c).elems) \in Nat
      /\ \A i \in DOMAIN Seen(c).elems : Seen(c).elems[i] \in Q /\ Seen(d).elems[i] \in Q
  BY DEF Holds, Compared, SameElems
<1>2. \A i \in DOMAIN Seen(c).elems : g[<<Seen(c).elems[i], Seen(d).elems[i]>>]
  BY <1>1 DEF Compared, SameElems, Implies
<1>3. PICK S, T : S = Seen(c).entries /\ T = Seen(d).entries
  OBVIOUS
<1>4. IsFiniteSet(S) /\ IsFiniteSet(T) /\ Cardinality(S) = Cardinality(T)
  <2>1. IsFiniteSet(S) /\ IsFiniteSet(T)
    BY <1>3 DEF Holds
  <2>2. Cardinality(S) \in Nat /\ Cardinality(T) \in Nat
    BY <2>1, FS_CardinalityType
  <2>. QED
    BY <1>1, <1>3, <2>1, <2>2 DEF Size
<1>5. PICK R : R = {p \in S \X T : SameEntry(g, p[1], p[2])}
  OBVIOUS
<1>6. \A x \in S, y \in T : <<x, y>> \in R <=> SameEntry(g, x, y)
  BY <1>5
<1>7. ASSUME NEW x \in S PROVE \E y \in T : <<x, y>> \in R
  <2>1. PICK y \in T : h[<<y.key, x.key>>] /\ h[<<y.value, x.value>>]
    BY <1>3 DEF Compared, Contained
  <2>2. x.key \in Q /\ y.key \in Q /\ x.value \in Q /\ y.value \in Q
    BY <1>3 DEF Holds
  <2>3. SameEntry(g, x, y)
    BY <2>1, <2>2 DEF SameEntry, Implies, Symmetric
  <2>. QED
    BY <1>6, <2>3
<1>8. ASSUME NEW x \in S, NEW z \in S, NEW y \in T, <<x, y>> \in R, <<z, y>> \in R PROVE x = z
  <2>1. x.key \in Q /\ y.key \in Q /\ z.key \in Q
    BY <1>3 DEF Holds
  <2>2. g[<<x.key, y.key>>] /\ g[<<y.key, z.key>>]
    BY <1>6, <1>8, <2>1 DEF SameEntry, Symmetric
  <2>. QED
    BY <1>3, <2>1, <2>2 DEF Transitive
<1>9. \A y \in T : \E x \in S : <<x, y>> \in R
  BY <1>4, <1>7, <1>8, Onto
<1>10. /\ \A x \in S : \E y \in T : SameEntry(g, x, y)
       /\ \A y \in T : \E x \in S : SameEntry(g, x, y)
  BY <1>6, <1>7, <1>9
<1>. QED
  BY <1>1, <1>2, <1>3, <1>4, <1>10 DEF SameOwn, Compared

\* What no typed map is inside of.
UntypedElements == {e \in LiveElements : Untyped(e)}

LEMMA UntypedKids ==
    ASSUME Tree, NEW c \in Live, \A d \in Kids(c) : Untyped(Own(d))
    PROVE  Holds(Seen(c), UntypedElements) /\ PlainKeys(c)
<1>1. c \in Ids /\ Holds(heap[c], Known(Ids)) /\ Holds(Seen(c), LiveElements)
  BY SeenHolds DEF Tree, Shaped, Live
<1>2. ASSUME NEW e \in LiveElements, e.type = "Own" => e.data \in Kids(c)
      PROVE  e \in UntypedElements /\ Plain(e)
  <2>1. CASE e.type = "Own"
    <3>1. Untyped(Own(e.data)) /\ PartsOf(Own(e.data)) = Parts(e.data) /\ e.data \in Ids
      BY <1>1, <1>2, <2>1, KidsThere DEF PartsOf, Own, Tree
    <3>2. Untyped(e) /\ PartsOf(e) = Parts(e.data)
      BY <2>1, <3>1 DEF Untyped, PartsOf
    <3>3. ASSUME NEW d \in Kids(e.data) PROVE Untyped(Own(d))
      <4>1. d \in Parts(e.data)
        BY <3>1, <3>3, PartsFacts DEF Tree
      <4>2. Parts(d) \subseteq Parts(e.data) /\ PartsOf(Own(d)) = Parts(d)
        BY <3>1, <4>1, PartsOfParts DEF Tree, PartsOf, Own
      <4>. QED
        BY <3>2, <4>2 DEF Untyped
    <3>. QED
      BY <3>2, <3>3 DEF UntypedElements, Plain
  <2>2. CASE e.type # "Own"
    BY <2>2 DEF UntypedElements, Plain, Untyped, PartsOf
  <2>. QED
    BY <2>1, <2>2
<1>3. ASSUME NEW i \in DOMAIN heap[c].elems
      PROVE  heap[c].elems[i].type = "Own" => heap[c].elems[i].data \in Kids(c)
  BY KidsAre
<1>4. ASSUME NEW x \in heap[c].entries
      PROVE  /\ x.key.type = "Own" => x.key.data \in Kids(c)
             /\ x.value.type = "Own" => x.value.data \in Kids(c)
  BY KidsAre
<1>5. ASSUME NEW x \in heap[c].entries PROVE x.key \in LiveElements
  <2>1. x.key \in Known(Ids)
    BY <1>1 DEF Holds
  <2>2. x.key.type = "Own" => x.key.data \in Live
    BY <1>4 DEF Tree, OwnedLive
  <2>. QED
    BY <2>1, <2>2 DEF Known, LiveElements
<1>6. PlainKeys(c)
  BY <1>2, <1>4, <1>5 DEF PlainKeys
<1>7. CASE ~ heap[c].done
  <2>1. Seen(c).elems = <<>> /\ Seen(c).entries = {}
    BY <1>7, UnseenEmpty
  <2>2. Holds(Seen(c), UntypedElements)
    BY <2>1, FS_EmptySet DEF Holds
  <2>. QED
    BY <1>6, <2>2
<1>8. CASE heap[c].done
  <2>1. Seen(c) = heap[c]
    BY <1>8, UnseenEmpty
  <2>2. \A i \in 1 .. Len(heap[c].elems) : heap[c].elems[i] \in UntypedElements
    <3>1. ASSUME NEW i \in 1 .. Len(heap[c].elems) PROVE heap[c].elems[i] \in UntypedElements
      <4>1. i \in DOMAIN heap[c].elems /\ heap[c].elems[i] \in LiveElements
        BY <1>1, <2>1 DEF Holds
      <4>. QED
        BY <1>2, <1>3, <4>1
    <3>. QED
      BY <3>1
  <2>3. heap[c].elems \in Seq(UntypedElements)
    <3>1. heap[c].elems \in Seq(LiveElements)
      BY <1>1, <2>1 DEF Holds
    <3>. QED
      BY <2>2, <3>1
  <2>4. ASSUME NEW x \in heap[c].entries PROVE x.key \in UntypedElements /\ x.value \in UntypedElements
    <3>1. x.key \in LiveElements /\ x.value \in LiveElements
      BY <1>1, <2>1 DEF Holds
    <3>. QED
      BY <1>2, <1>4, <3>1
  <2>. QED
    BY <1>1, <1>6, <2>1, <2>3, <2>4 DEF Holds
<1>. QED
  BY <1>7, <1>8

\* Of kids that are untyped: what is equal is the same, at the next level too.
LEMMA EqualSameStep ==
    ASSUME Tree, AllDistinct, NEW N \in Nat, NEW s, SameLevels(View, N, s), Same = s[N],
           NEW h, NEW n \in 1 .. N, Implies(h, s[n - 1], UntypedElements),
           NEW c \in Live, NEW d \in Live, Size(c) = Size(d),
           \A k \in Kids(c) : Untyped(Own(k)), \A k \in Kids(d) : Untyped(Own(k)),
           EqualOwn(h, c, d)
    PROVE  SameOwn(s[n - 1], Seen(c), Seen(d))
<1>1. n - 1 \in 0 .. N
  OBVIOUS
<1>2. UntypedElements \subseteq LiveElements
  BY DEF UntypedElements
<1>3. Symmetric(s[n - 1], UntypedElements) /\ Transitive(s[n - 1], UntypedElements)
  <2>1. Symmetric(s[n - 1], LiveElements) /\ Transitive(s[n - 1], LiveElements)
    BY <1>1, LiveClosed, SameSymmetric, SameTransitive DEF LiveElements
  <2>. QED
    BY <1>2, <2>1 DEF Symmetric, Transitive
<1>4. Implies(s[n - 1], Same, LiveElements)
  BY <1>1, LiveClosed, SameGrows DEF LiveElements
<1>5. /\ Holds(Seen(c), UntypedElements) /\ PlainKeys(c)
      /\ Holds(Seen(d), UntypedElements) /\ PlainKeys(d)
  BY UntypedKids
<1>6. ASSUME NEW q \in {c, d}, NEW x \in Seen(q).entries, NEW y \in Seen(q).entries,
             s[n - 1][<<x.key, y.key>>]
      PROVE  x = y
  <2>1. /\ x.key \in LiveElements /\ y.key \in LiveElements
        /\ x \in heap[q].entries /\ y \in heap[q].entries /\ q \in Live /\ PlainKeys(q)
    BY <1>2, <1>5, SeenHolds DEF Holds
  <2>2. Same[<<x.key, y.key>>]
    BY <1>4, <1>6, <2>1 DEF Implies
  <2>. QED
    BY <2>1, <2>2 DEF AllDistinct
<1>7. CASE Compared(h, c, d)
  BY <1>3, <1>5, <1>6, <1>7, ComparedSame
<1>8. CASE Compared(h, d, c)
  <2>1. SameOwn(s[n - 1], Seen(d), Seen(c))
    BY <1>3, <1>5, <1>6, <1>8, ComparedSame
  <2>. QED
    BY <1>3, <1>5, <2>1, SameOwnSymmetric DEF Symmetric
<1>. QED
  BY <1>7, <1>8 DEF EqualOwn

\* Neither is a typed map: then equal containers have the same size.
LEMMA UntypedSize ==
    ASSUME Tree, NEW h, NEW c \in Live, NEW d \in Live, Compared(h, c, d) \/ Compared(h, d, c),
           heap[c].type # "TypedMap"
    PROVE  Size(c) = Size(d)
<1>1. /\ Seen(c).type = heap[c].type /\ Seen(d).type = heap[d].type
      /\ c \in Ids /\ d \in Ids
  BY UnseenEmpty DEF Live
<1>2. Seen(c).type = Seen(d).type /\ Len(Seen(c).elems) = Len(Seen(d).elems)
  BY DEF Compared, SameElems
<1>3. CASE Seen(c).type = "UntypedMap"
  BY <1>2, <1>3 DEF Compared
<1>4. CASE Seen(c).type # "UntypedMap"
  <2>1. heap[c].type \in Lists /\ heap[d].type \in Lists
    BY <1>1, <1>2, <1>4 DEF Tree, Shaped, Maps
  <2>2. heap[c].entries = {} /\ heap[d].entries = {}
    BY <1>1, <2>1 DEF Tree, Shaped
  <2>3. Seen(c).entries = {} /\ Seen(d).entries = {}
    BY <2>2, SeenHolds
  <2>. QED
    BY <1>2, <2>3 DEF Size
<1>. QED
  BY <1>3, <1>4

LEMMA UntypedParts ==
    ASSUME Tree, NEW e \in LiveElements, e.type = "Own", Untyped(e)
    PROVE  heap[e.data].type # "TypedMap" /\ \A k \in Kids(e.data) : Untyped(Own(k))
<1>1. e.data \in Ids /\ PartsOf(e) = Parts(e.data) /\ Shaped
  BY DEF LiveElements, Known, PartsOf, Live, Tree
<1>2. e.data \in Parts(e.data) /\ Kids(e.data) \subseteq Parts(e.data)
  BY <1>1, PartsFacts
<1>3. ASSUME NEW k \in Kids(e.data) PROVE Untyped(Own(k))
  <2>1. PartsOf(Own(k)) = Parts(k) /\ Parts(k) \subseteq Parts(e.data)
    BY <1>1, <1>2, PartsOfParts DEF PartsOf, Own
  <2>. QED
    BY <1>1, <2>1 DEF Untyped
<1>. QED
  BY <1>1, <1>2, <1>3 DEF Untyped

LEMMA EqualSame ==
    ASSUME Tree, AllDistinct, NEW N \in Nat, NEW s, SameLevels(View, N, s), Same = s[N],
           NEW e, EqualLevels(N, e)
    PROVE  \A n \in 0 .. N : Implies(e[n], s[n], UntypedElements)
<1>. DEFINE S == {n \in Nat : n \in 0 .. N => Implies(e[n], s[n], UntypedElements)}
<1>1. ASSUME NEW n \in 0 .. N, n > 0 => Implies(e[n - 1], s[n - 1], UntypedElements),
             NEW a \in UntypedElements, NEW b \in UntypedElements, e[n][<<a, b>>]
      PROVE  s[n][<<a, b>>]
  <2>1. a \in Element /\ b \in Element /\ a \in LiveElements /\ b \in LiveElements
    BY DEF UntypedElements, LiveElements, Known
  <2>2. CASE Owns(a, b)
    <3>1. PICK c, d : c = a.data /\ d = b.data
      OBVIOUS
    <3>2. c \in Live /\ d \in Live
      BY <2>1, <2>2, <3>1 DEF LiveElements, Known, Owns
    <3>3. n > 0 /\ EqualOwn(e[n - 1], c, d)
      BY <1>1, <2>1, <2>2, <3>1, EqualLevelsAt
    <3>4. /\ heap[c].type # "TypedMap"
          /\ \A k \in Kids(c) : Untyped(Own(k))
          /\ \A k \in Kids(d) : Untyped(Own(k))
      BY <2>1, <2>2, <3>1, UntypedParts DEF UntypedElements, Owns
    <3>5. Size(c) = Size(d)
      BY <3>2, <3>3, <3>4, UntypedSize DEF EqualOwn
    <3>6. n \in 1 .. N
      BY <3>3
    <3>7. SameOwn(s[n - 1], Seen(c), Seen(d))
      BY <1>1, <3>2, <3>3, <3>4, <3>5, <3>6, EqualSameStep
    <3>8. View[c] = Seen(c) /\ View[d] = Seen(d)
      BY <3>2, SeenHolds
    <3>. QED
      BY <2>1, <2>2, <3>1, <3>3, <3>7, <3>8, SameLevelsAt
  <2>3. CASE ~ Owns(a, b)
    BY <1>1, <2>1, <2>3, SameLevelsAt, EqualLevelsAt
  <2>. QED
    BY <2>2, <2>3
<1>2. 0 \in S
  BY <1>1 DEF Implies
<1>3. ASSUME NEW n \in Nat, n \in S PROVE n + 1 \in S
  <2>1. SUFFICES ASSUME n + 1 \in 0 .. N PROVE Implies(e[n + 1], s[n + 1], UntypedElements)
    OBVIOUS
  <2>2. Implies(e[n], s[n], UntypedElements) /\ (n + 1) - 1 = n
    BY <1>3, <2>1
  <2>. QED
    BY <1>1, <2>1, <2>2 DEF Implies
<1>4. \A n \in Nat : n \in S
  <2>. HIDE DEF S
  <2>. QED
    BY <1>2, <1>3, Induction
<1>. QED
  BY <1>4

\* Plain objects that are equal and have the same hash are the same.
LEMMA PlainSame ==
    ASSUME Tree, AllDistinct, NEW N \in Nat, NEW s, SameLevels(View, N, s), Same = s[N],
           NEW e, EqualLevels(N, e), NEW n \in 0 .. N,
           NEW a \in LiveElements, NEW b \in LiveElements, Plain(a), Plain(b),
           HashOf(a) = HashOf(b), e[n][<<a, b>>]
    PROVE  s[n][<<a, b>>]
<1>1. a \in Element /\ b \in Element
  BY DEF LiveElements, Known
<1>2. CASE Owns(a, b)
  <2>1. PICK c, d : c = a.data /\ d = b.data
    OBVIOUS
  <2>2. c \in Live /\ d \in Live
    BY <1>2, <2>1 DEF LiveElements, Known, Owns
  <2>3. n > 0 /\ EqualOwn(e[n - 1], c, d)
    BY <1>1, <1>2, <2>1, EqualLevelsAt
  <2>4. /\ \A k \in Kids(c) : Untyped(Own(k))
        /\ \A k \in Kids(d) : Untyped(Own(k))
    BY <1>2, <2>1 DEF Plain, Owns
  <2>5. Size(c) = Size(d)
    BY <1>2, <2>1 DEF HashOf, ContainerHash, Owns
  <2>6. n \in 1 .. N /\ n - 1 \in 0 .. N
    BY <2>3
  <2>7. Implies(e[n - 1], s[n - 1], UntypedElements)
    BY <2>6, EqualSame
  <2>8. SameOwn(s[n - 1], Seen(c), Seen(d))
    BY <2>2, <2>3, <2>4, <2>5, <2>6, <2>7, EqualSameStep
  <2>9. View[c] = Seen(c) /\ View[d] = Seen(d)
    BY <2>2, SeenHolds
  <2>. QED
    BY <1>1, <1>2, <2>1, <2>3, <2>8, <2>9, SameLevelsAt
<1>3. CASE ~ Owns(a, b)
  BY <1>1, <1>3, SameLevelsAt, EqualLevelsAt
<1>. QED
  BY <1>2, <1>3

LEMMA AtMost ==
    ASSUME NEW S, NEW T, IsFiniteSet(S), IsFiniteSet(T), NEW R,
           \A x \in S : \E y \in T : <<x, y>> \in R,
           \A x, z \in S : \A y \in T : <<x, y>> \in R /\ <<z, y>> \in R => x = z
    PROVE  Cardinality(S) <= Cardinality(T)
<1>1. PICK f : f = [x \in S |-> CHOOSE y \in T : <<x, y>> \in R]
  OBVIOUS
<1>2. \A x \in S : f[x] \in T /\ <<x, f[x]>> \in R
  BY <1>1
<1>3. f \in [S -> T]
  BY <1>1, <1>2
<1>4. f \in Injection(S, T)
  BY <1>2, <1>3 DEF Injection, IsInjective
<1>. QED
  BY <1>4, FS_Injection

\* What h says in both directions g says; of plain keys under one hash h need not
\* say it twice.
BothImply(h, g, Q) ==
    /\ \A a, b \in Q : h[<<a, b>>] /\ h[<<b, a>>] => g[<<a, b>>]
    /\ \A a, b \in Q : Plain(a) /\ Plain(b) /\ HashOf(a) = HashOf(b) /\ h[<<a, b>>] => g[<<a, b>>]

\* The entries of c are among those of d, if those of d are among those of c.
LEMMA BothContained ==
    ASSUME Tree, Hashed, NEW g, NEW h, BothImply(h, g, LiveElements),
           Symmetric(g, LiveElements), Transitive(g, LiveElements),
           NEW c \in Live, NEW d \in Live, PlainKeys(c), PlainKeys(d),
           \A x, y \in Seen(c).entries : g[<<x.key, y.key>>] => x = y,
           Contained(h, c, d), Contained(h, d, c)
    PROVE  /\ \A x \in Seen(c).entries : \E y \in Seen(d).entries : SameEntry(g, x, y)
           /\ Cardinality(Seen(c).entries) <= Cardinality(Seen(d).entries)
<1>1. PICK S, T : S = Seen(c).entries /\ T = Seen(d).entries
  OBVIOUS
<1>2. /\ \A x \in S \cup T : /\ x.key \in LiveElements /\ x.value \in LiveElements
                             /\ Plain(x.key) /\ x.hash = HashOf(x.key)
      /\ IsFiniteSet(S) /\ IsFiniteSet(T)
  <2>1. \A x \in S : x.key \in LiveElements /\ x.value \in LiveElements /\ x \in heap[c].entries
    BY <1>1, SeenHolds DEF Holds
  <2>2. \A x \in T : x.key \in LiveElements /\ x.value \in LiveElements /\ x \in heap[d].entries
    BY <1>1, SeenHolds DEF Holds
  <2>3. \A x \in S \cup T : Plain(x.key) /\ x.hash = HashOf(x.key)
    BY <2>1, <2>2 DEF PlainKeys, Hashed
  <2>4. IsFiniteSet(S) /\ IsFiniteSet(T)
    BY <1>1, SeenHolds DEF Holds
  <2>. QED
    BY <2>1, <2>2, <2>3, <2>4
<1>3. ASSUME NEW x \in S PROVE \E y \in T : SameEntry(g, x, y)
  <2>1. PICK y \in T : y.hash = HashOf(x.key) /\ h[<<y.key, x.key>>] /\ h[<<y.value, x.value>>]
    BY <1>1 DEF Contained
  <2>2. PICK z \in S : z.hash = HashOf(y.key) /\ h[<<z.key, y.key>>] /\ h[<<z.value, y.value>>]
    BY <1>1 DEF Contained
  <2>3. /\ x.key \in LiveElements /\ y.key \in LiveElements /\ z.key \in LiveElements
        /\ x.value \in LiveElements /\ y.value \in LiveElements
        /\ Plain(x.key) /\ Plain(y.key) /\ Plain(z.key)
        /\ HashOf(y.key) = HashOf(x.key) /\ HashOf(z.key) = HashOf(y.key)
    BY <1>2, <2>1, <2>2
  <2>4. g[<<y.key, x.key>>] /\ g[<<z.key, y.key>>]
    BY <2>1, <2>2, <2>3 DEF BothImply
  <2>5. g[<<z.key, x.key>>] /\ g[<<x.key, y.key>>]
    BY <2>3, <2>4 DEF Symmetric, Transitive
  <2>6. z = x
    BY <1>1, <2>5
  <2>7. g[<<x.value, y.value>>]
    BY <2>1, <2>2, <2>3, <2>6 DEF BothImply
  <2>. QED
    BY <2>5, <2>7 DEF SameEntry
<1>4. PICK R : R = {p \in S \X T : SameEntry(g, p[1], p[2])}
  OBVIOUS
<1>5. \A x \in S, y \in T : <<x, y>> \in R <=> SameEntry(g, x, y)
  BY <1>4
<1>6. ASSUME NEW x \in S, NEW z \in S, NEW y \in T, <<x, y>> \in R, <<z, y>> \in R PROVE x = z
  <2>1. g[<<x.key, y.key>>] /\ g[<<y.key, z.key>>]
    BY <1>2, <1>5, <1>6 DEF SameEntry, Symmetric
  <2>2. g[<<x.key, z.key>>]
    BY <1>2, <2>1 DEF Transitive
  <2>. QED
    BY <1>1, <2>2
<1>7. \A x \in S : \E y \in T : <<x, y>> \in R
  BY <1>3, <1>5
<1>8. Cardinality(S) <= Cardinality(T)
  BY <1>2, <1>6, <1>7, AtMost
<1>. QED
  BY <1>1, <1>3, <1>8

LEMMA EqualBothSame ==
    ASSUME Tree, Hashed, AllDistinct, \A m \in Live : PlainKeys(m),
           NEW N \in Nat, NEW s, SameLevels(View, N, s), Same = s[N], NEW e, EqualLevels(N, e)
    PROVE  \A n \in 0 .. N : BothImply(e[n], s[n], LiveElements)
<1>. DEFINE S == {n \in Nat : n \in 0 .. N => BothImply(e[n], s[n], LiveElements)}
<1>1. ASSUME NEW n \in 0 .. N, n > 0 => BothImply(e[n - 1], s[n - 1], LiveElements),
             NEW a \in LiveElements, NEW b \in LiveElements, e[n][<<a, b>>], e[n][<<b, a>>]
      PROVE  s[n][<<a, b>>]
  <2>1. a \in Element /\ b \in Element
    BY DEF LiveElements, Known
  <2>2. CASE Owns(a, b)
    <3>1. PICK c, d : c = a.data /\ d = b.data
      OBVIOUS
    <3>2. c \in Live /\ d \in Live /\ Owns(b, a)
      BY <2>2, <3>1 DEF LiveElements, Known, Owns
    <3>3. n > 0 /\ EqualOwn(e[n - 1], c, d) /\ EqualOwn(e[n - 1], d, c)
      BY <1>1, <2>1, <2>2, <3>1, <3>2, EqualLevelsAt
    <3>4. Compared(e[n - 1], c, d) /\ Compared(e[n - 1], d, c)
      <4>1. Seen(c).type = Seen(d).type
        BY <3>3 DEF EqualOwn, Compared
      <4>. QED
        BY <3>3, <4>1 DEF EqualOwn
    <3>5. n - 1 \in 0 .. N
      BY <3>3
    <3>6. Symmetric(s[n - 1], LiveElements) /\ Transitive(s[n - 1], LiveElements)
      BY <3>5, LiveClosed, SameSymmetric, SameTransitive DEF LiveElements
    <3>7. ASSUME NEW q \in {c, d}, NEW x \in Seen(q).entries, NEW y \in Seen(q).entries,
                 s[n - 1][<<x.key, y.key>>]
          PROVE  x = y
      <4>1. /\ x.key \in LiveElements /\ y.key \in LiveElements
            /\ x \in heap[q].entries /\ y \in heap[q].entries /\ q \in Live
        BY <3>2, SeenHolds DEF Holds
      <4>2. Same[<<x.key, y.key>>]
        BY <3>5, <3>7, <4>1, LiveClosed, SameGrows DEF LiveElements, Implies
      <4>. QED
        BY <4>1, <4>2 DEF AllDistinct
    <3>8. BothImply(e[n - 1], s[n - 1], LiveElements)
      BY <1>1, <3>3
    <3>9. Contained(e[n - 1], c, d) /\ Contained(e[n - 1], d, c)
      BY <3>4 DEF Compared
    <3>10. /\ \A x \in Seen(c).entries : \E y \in Seen(d).entries : SameEntry(s[n - 1], x, y)
           /\ Cardinality(Seen(c).entries) <= Cardinality(Seen(d).entries)
      BY <3>2, <3>6, <3>7, <3>8, <3>9, BothContained
    <3>11. /\ \A y \in Seen(d).entries : \E x \in Seen(c).entries : SameEntry(s[n - 1], y, x)
           /\ Cardinality(Seen(d).entries) <= Cardinality(Seen(c).entries)
      BY <3>2, <3>6, <3>7, <3>8, <3>9, BothContained
    <3>12. /\ View[c] = Seen(c) /\ Holds(Seen(c), LiveElements)
           /\ View[d] = Seen(d) /\ Holds(Seen(d), LiveElements)
      BY <3>2, SeenHolds
    <3>13. \A y \in Seen(d).entries : \E x \in Seen(c).entries : SameEntry(s[n - 1], x, y)
      BY <3>6, <3>11, <3>12 DEF Holds, SameEntry, Symmetric
    <3>14. Cardinality(Seen(c).entries) = Cardinality(Seen(d).entries)
      <4>1. Cardinality(Seen(c).entries) \in Nat /\ Cardinality(Seen(d).entries) \in Nat
        BY <3>12, FS_CardinalityType DEF Holds
      <4>. QED
        BY <3>10, <3>11, <4>1
    <3>15. /\ Len(Seen(c).elems) = Len(Seen(d).elems)
           /\ \A i \in DOMAIN Seen(c).elems : s[n - 1][<<Seen(c).elems[i], Seen(d).elems[i]>>]
      <4>1. Len(Seen(c).elems) = Len(Seen(d).elems)
        BY <3>4 DEF Compared, SameElems
      <4>2. ASSUME NEW i \in DOMAIN Seen(c).elems
            PROVE  s[n - 1][<<Seen(c).elems[i], Seen(d).elems[i]>>]
        <5>1. i \in DOMAIN Seen(d).elems
          BY <3>12, <4>1, <4>2 DEF Holds
        <5>2. Seen(c).elems[i] \in LiveElements /\ Seen(d).elems[i] \in LiveElements
          BY <3>12, <4>2, <5>1 DEF Holds
        <5>3. /\ e[n - 1][<<Seen(c).elems[i], Seen(d).elems[i]>>]
              /\ e[n - 1][<<Seen(d).elems[i], Seen(c).elems[i]>>]
          BY <3>4, <4>2, <5>1 DEF Compared, SameElems
        <5>. QED
          BY <3>8, <5>2, <5>3 DEF BothImply
      <4>. QED
        BY <4>1, <4>2
    <3>16. SameOwn(s[n - 1], Seen(c), Seen(d))
      BY <3>4, <3>10, <3>13, <3>14, <3>15 DEF SameOwn, Compared
    <3>. QED
      BY <2>1, <2>2, <3>1, <3>3, <3>12, <3>16, SameLevelsAt
  <2>3. CASE ~ Owns(a, b)
    BY <1>1, <2>1, <2>3, SameLevelsAt, EqualLevelsAt
  <2>. QED
    BY <2>2, <2>3
<1>2. ASSUME NEW n \in 0 .. N, n > 0 => BothImply(e[n - 1], s[n - 1], LiveElements)
      PROVE  BothImply(e[n], s[n], LiveElements)
  BY <1>1, <1>2, PlainSame DEF BothImply
<1>3. 0 \in S
  BY <1>2
<1>4. ASSUME NEW n \in Nat, n \in S PROVE n + 1 \in S
  <2>1. SUFFICES ASSUME n + 1 \in 0 .. N PROVE BothImply(e[n + 1], s[n + 1], LiveElements)
    OBVIOUS
  <2>2. BothImply(e[n], s[n], LiveElements) /\ (n + 1) - 1 = n
    BY <1>4, <2>1
  <2>. QED
    BY <1>2, <2>1, <2>2
<1>5. \A n \in Nat : n \in S
  <2>. HIDE DEF S
  <2>. QED
    BY <1>3, <1>4, Induction
<1>. QED
  BY <1>5

-----------------------------------------------------------------------------
(* What the two properties say, of any state with these invariants. *)

LEMMA SameFacts ==
    ASSUME Tree, Hashed
    PROVE  /\ Symmetric(Same, LiveElements) /\ Transitive(Same, LiveElements)
           /\ Implies(Same, Equal, LiveElements)
           /\ \A a, b \in LiveElements : Same[<<a, b>>] => HashOf(a) = HashOf(b)
<1>1. Counted /\ Len(heap) \in Nat
  BY DEF Tree, Shaped, Counted
<1>2. PICK s : SameLevels(View, Len(heap), s) /\ Same = s[Len(heap)]
  BY <1>1, SameIs DEF SameIsLevel
<1>3. PICK e : EqualLevels(Len(heap), e) /\ Equal = e[Len(heap)]
  BY <1>1, EqualIs
<1>4. Len(heap) \in 0 .. Len(heap)
  BY <1>1
<1>5. Symmetric(Same, LiveElements) /\ Transitive(Same, LiveElements)
  BY <1>1, <1>2, <1>4, LiveClosed, SameSymmetric, SameTransitive DEF LiveElements
<1>6. Implies(Same, Equal, LiveElements)
  BY <1>1, <1>2, <1>3, <1>4, SameEqual
<1>7. ASSUME NEW a \in LiveElements, NEW b \in LiveElements, Same[<<a, b>>]
      PROVE  HashOf(a) = HashOf(b)
  BY <1>1, <1>2, <1>4, <1>7, SameHash
<1>. QED
  BY <1>5, <1>6, <1>7

LEMMA KeyFound ==
    ASSUME Tree, Hashed, AllDistinct, NEW m \in Live, PlainKeys(m),
           NEW k \in LiveElements, Plain(k)
    PROVE  /\ Found(m, k) = {x \in heap[m].entries : Same[<<x.key, k>>]}
           /\ \A x, y \in Found(m, k) : x = y
<1>1. Counted /\ Len(heap) \in Nat
  BY DEF Tree, Shaped, Counted
<1>2. PICK s : SameLevels(View, Len(heap), s) /\ Same = s[Len(heap)]
  BY <1>1, SameIs DEF SameIsLevel
<1>3. PICK e : EqualLevels(Len(heap), e) /\ Equal = e[Len(heap)]
  BY <1>1, EqualIs
<1>4. Len(heap) \in 0 .. Len(heap)
  BY <1>1
<1>5. ASSUME NEW x \in heap[m].entries
      PROVE  x.key \in LiveElements /\ Plain(x.key) /\ x.hash = HashOf(x.key)
  <2>1. m \in Ids /\ Holds(heap[m], Known(Ids))
    BY DEF Tree, Shaped, Live
  <2>2. x.key \in Known(Ids)
    BY <2>1 DEF Holds
  <2>3. x.key.type = "Own" => x.key.data \in Live
    <3>1. x.key.type = "Own" => x.key.data \in Kids(m)
      BY KidsAre
    <3>. QED
      BY <3>1 DEF Tree, OwnedLive
  <2>. QED
    BY <2>2, <2>3 DEF LiveElements, Known, PlainKeys, Hashed
<1>6. ASSUME NEW x \in heap[m].entries
      PROVE  (x.hash = HashOf(k) /\ Equal[<<x.key, k>>]) <=> Same[<<x.key, k>>]
  <2>1. Same[<<x.key, k>>] => x.hash = HashOf(k) /\ Equal[<<x.key, k>>]
    BY <1>5, SameFacts DEF Implies
  <2>2. ASSUME x.hash = HashOf(k), Equal[<<x.key, k>>] PROVE Same[<<x.key, k>>]
    BY <1>1, <1>2, <1>3, <1>4, <1>5, <2>2, PlainSame
  <2>. QED
    BY <2>1, <2>2
<1>7. Found(m, k) = {x \in heap[m].entries : Same[<<x.key, k>>]}
  BY <1>6 DEF Found
<1>8. ASSUME NEW x \in heap[m].entries, NEW y \in heap[m].entries,
             Same[<<x.key, k>>], Same[<<y.key, k>>]
      PROVE  x = y
  <2>1. Same[<<x.key, y.key>>]
    BY <1>5, <1>8, SameFacts DEF Symmetric, Transitive
  <2>. QED
    BY <2>1 DEF AllDistinct
<1>. QED
  BY <1>7, <1>8

LEMMA BothIsSame ==
    ASSUME Tree, Hashed, AllDistinct, \A m \in Live : PlainKeys(m),
           NEW a \in LiveElements, NEW b \in LiveElements
    PROVE  Same[<<a, b>>] <=> Equal[<<a, b>>] /\ Equal[<<b, a>>]
<1>1. Counted /\ Len(heap) \in Nat
  BY DEF Tree, Shaped, Counted
<1>2. PICK s : SameLevels(View, Len(heap), s) /\ Same = s[Len(heap)]
  BY <1>1, SameIs DEF SameIsLevel
<1>3. PICK e : EqualLevels(Len(heap), e) /\ Equal = e[Len(heap)]
  BY <1>1, EqualIs
<1>4. Len(heap) \in 0 .. Len(heap)
  BY <1>1
<1>5. BothImply(Equal, Same, LiveElements)
  BY <1>1, <1>2, <1>3, <1>4, EqualBothSame
<1>6. Same[<<a, b>>] => Equal[<<a, b>>] /\ Equal[<<b, a>>]
  BY SameFacts DEF Symmetric, Implies
<1>. QED
  BY <1>5, <1>6 DEF BothImply

LEMMA ObjectsLive ==
    ASSUME Tree
    PROVE  Objects \subseteq LiveElements /\ Refs \subseteq LiveElements
<1>1. Live \subseteq Nat
  BY LiveClosed
<1>2. Keys \cup Values \subseteq LiveElements
  BY ConstantsAssumption DEF LiveElements, Known
<1>3. \A c \in Live : Own(c) \in LiveElements /\ Ref(c) \in LiveElements
  BY <1>1 DEF Own, Ref, LiveElements, Known, Element
<1>. QED
  BY <1>2, <1>3 DEF Objects, Refs

Distinct == ~careless => AllDistinct

Sound == IInv /\ Tree /\ Distinct

LEMMA SoundSays == Sound => FoundBySame /\ EqualIsSame
<1>1. SUFFICES ASSUME Sound, ~careless PROVE FoundBySame /\ EqualIsSame
  BY DEF FoundBySame, EqualIsSame
<1>2. Tree /\ Hashed /\ AllDistinct
  BY <1>1 DEF Sound, IInv, Distinct, HashCurrent, Hashed
<1>3. ASSUME NEW m \in Live, NEW k \in Objects, PlainKeys(m), Plain(k)
      PROVE  /\ Found(m, k) = {x \in heap[m].entries : Same[<<x.key, k>>]}
             /\ Cardinality(Found(m, k)) <= 1
  <2>1. /\ Found(m, k) = {x \in heap[m].entries : Same[<<x.key, k>>]}
        /\ \A x, y \in Found(m, k) : x = y
    BY <1>2, <1>3, ObjectsLive, KeyFound
  <2>2. PICK F : F = Found(m, k) /\ \A x, y \in F : x = y
    BY <2>1
  <2>3. Cardinality(F) \in {0, 1}
    <3>1. CASE F = {}
      BY <3>1, FS_EmptySet
    <3>2. CASE F # {}
      <4>1. PICK x : F = {x}
        BY <2>2, <3>2
      <4>. QED
        BY <4>1, FS_Singleton
    <3>. QED
      BY <3>1, <3>2
  <2>4. Cardinality(F) <= 1
    BY <2>3
  <2>. QED
    BY <2>1, <2>2, <2>4
<1>4. FoundBySame
  BY <1>3 DEF FoundBySame
<1>5. EqualIsSame
  BY <1>2, ObjectsLive, BothIsSame DEF EqualIsSame
<1>. QED
  BY <1>4, <1>5

-----------------------------------------------------------------------------
(* The forest in a step. *)

\* What a container of these contents owns.
KidsOf(r) ==
    {e.data : e \in {f \in ToSet(r.elems) \cup UNION {{x.key, x.value} : x \in r.entries} :
                     f.type = "Own"}}

LEMMA KidsOfAre ==
    ASSUME NEW r, NEW d
    PROVE  d \in KidsOf(r) <=>
             \/ \E i \in DOMAIN r.elems : r.elems[i].type = "Own" /\ r.elems[i].data = d
             \/ \E x \in r.entries : \/ x.key.type = "Own" /\ x.key.data = d
                                     \/ x.value.type = "Own" /\ x.value.data = d
<1>. DEFINE Some == ToSet(r.elems) \cup UNION {{x.key, x.value} : x \in r.entries}
<1>1. \A e : e \in Some <=> \/ \E i \in DOMAIN r.elems : r.elems[i] = e
                            \/ \E x \in r.entries : x.key = e \/ x.value = e
  BY DEF ToSet
<1>2. d \in KidsOf(r) <=> \E e \in Some : e.type = "Own" /\ e.data = d
  BY DEF KidsOf
<1>. HIDE DEF Some
<1>. QED
  BY <1>1, <1>2

LEMMA KidsAreOf ==
    ASSUME NEW c
    PROVE  Kids(c) = KidsOf(heap[c]) /\ Kids(c)' = KidsOf(heap'[c])
BY DEF Kids, KidsOf

LEMMA KidsOfContents ==
    ASSUME NEW q, NEW r, r.elems = q.elems, r.entries = q.entries
    PROVE  KidsOf(r) = KidsOf(q)
BY DEF KidsOf

\* A container that belongs to nobody yet.
Free(d) == d \in Live /\ heap[d].done /\ \A o \in Live : d \notin Kids(o)

LEMMA MovableFree ==
    ASSUME NEW c, NEW e \in Keys \cup Values \cup Movable(c) \cup Refs, Tree
    PROVE  /\ e \in LiveElements /\ e \in Known(Ids)
           /\ e.type = "Own" => Free(e.data) /\ c \notin Parts(e.data)
<1>1. Live \subseteq Nat /\ Live \subseteq Ids
  BY LiveClosed
<1>2. CASE e \in Keys \cup Values
  BY <1>2, ConstantsAssumption DEF LiveElements, Known
<1>3. CASE e \in Movable(c)
  <2>1. PICK d \in Live : /\ heap[d].done /\ c \notin Parts(d) /\ (\A o \in Live : d \notin Kids(o))
                          /\ e = Own(d)
    BY <1>3 DEF Movable
  <2>2. e.type = "Own" /\ e.data = d /\ e \in Element
    BY <1>1, <2>1 DEF Own, Element
  <2>. QED
    BY <1>1, <2>1, <2>2 DEF LiveElements, Known, Free
<1>4. CASE e \in Refs
  <2>1. PICK d \in Live : e = Ref(d)
    BY <1>4 DEF Refs
  <2>2. e.type = "Ref" /\ e \in Element
    BY <1>1, <2>1 DEF Ref, Element
  <2>. QED
    BY <2>2 DEF LiveElements, Known
<1>. QED
  BY <1>2, <1>3, <1>4

\* One living container changes; it may take in what is free.
LEMMA TreeGrows ==
    ASSUME Tree, NEW c \in Live, NEW r, heap' = [heap EXCEPT ![c] = r], UNCHANGED dead,
           Holds(r, Known(Ids)), r.type = heap[c].type, heap[c].done => r.done,
           r.type \in Lists => r.entries = {},
           \A d \in KidsOf(r) : d \in Kids(c) \/ Free(d)
    PROVE  /\ Tree' /\ Len(heap') = Len(heap) /\ Ids' = Ids /\ Live' = Live
           /\ heap'[c] = r /\ \A d \in Ids : d # c => heap'[d] = heap[d]
<1>1. Len(heap) \in Nat /\ heap = [d \in 1 .. Len(heap) |-> heap[d]] /\ Ids = 1 .. Len(heap) /\ c \in Ids
  BY DEF Tree, Shaped, Counted, Live, Ids
<1>2. heap' = [d \in 1 .. Len(heap) |-> IF d = c THEN r ELSE heap[d]]
  BY <1>1
<1>3. Len(heap') = Len(heap) /\ DOMAIN heap' = 1 .. Len(heap)
  BY <1>1, <1>2
<1>4. Ids' = Ids /\ Live' = Live
  BY <1>1, <1>3 DEF Ids, Live
<1>5. heap'[c] = r /\ \A d \in Ids : d # c => heap'[d] = heap[d]
  BY <1>1, <1>2
<1>6. Shaped'
  <2>1. heap' = [d \in 1 .. Len(heap') |-> heap'[d]] /\ Len(heap') \in Nat
    BY <1>1, <1>2, <1>3
  <2>2. ASSUME NEW d \in Ids
        PROVE  /\ Holds(heap'[d], Known(Ids)) /\ heap'[d].type \in Maps \cup Lists
               /\ heap'[d].type \in Lists => heap'[d].entries = {}
    BY <1>1, <1>5 DEF Tree, Shaped
  <2>. QED
    BY <1>4, <2>1, <2>2 DEF Shaped, Counted
<1>7. \A d \in Ids : heap[d].done => heap'[d].done
  BY <1>5
<1>8. /\ \A d \in Ids : d # c => Kids(d)' = Kids(d)
      /\ \A d \in Kids(c)' : d \in Kids(c) \/ Free(d)
  BY <1>5, KidsAreOf
<1>9. Live \subseteq Ids
  BY DEF Live
<1>10. OwnedLive'
  <2>1. ASSUME NEW q \in Live, NEW d \in Kids(q)' PROVE d \in Live /\ heap'[d].done
    <3>1. d \in Kids(q) \/ Free(d)
      BY <1>8, <1>9, <2>1
    <3>2. d \in Live /\ heap[d].done
      BY <3>1 DEF Tree, OwnedLive, Free
    <3>. QED
      BY <1>7, <1>9, <3>2
  <2>. QED
    BY <1>4, <2>1 DEF OwnedLive
<1>11. OneOwner'
  <2>1. ASSUME NEW p \in Live, NEW q \in Live, NEW d \in Kids(p)', d \in Kids(q)' PROVE p = q
    <3>1. CASE d \in Kids(p) /\ d \in Kids(q)
      BY <3>1 DEF Tree, OneOwner
    <3>2. CASE ~ (d \in Kids(p) /\ d \in Kids(q))
      <4>1. Free(d)
        BY <1>8, <1>9, <2>1, <3>2
      <4>2. d \notin Kids(p) /\ d \notin Kids(q)
        BY <4>1 DEF Free
      <4>. QED
        BY <1>8, <1>9, <2>1, <4>2
    <3>. QED
      BY <3>1, <3>2
  <2>. QED
    BY <1>4, <2>1 DEF OneOwner
<1>. QED
  BY <1>3, <1>4, <1>5, <1>6, <1>10, <1>11 DEF Tree

\* What is free is destroyed, with its parts.
LEMMA TreeShrinks ==
    ASSUME Tree, UNCHANGED heap, NEW k, NEW v,
           k.type = "Own" => Free(k.data), v.type = "Own" => Free(v.data),
           dead' = dead \cup PartsOf(k) \cup PartsOf(v)
    PROVE  Tree'
<1>1. Ids' = Ids /\ Live' \subseteq Live /\ Live \subseteq Ids
  BY DEF Ids, Live
<1>2. Shaped'
  BY <1>1 DEF Tree, Shaped, Counted
<1>3. ASSUME NEW d PROVE Kids(d)' = Kids(d)
  BY KidsAreOf
<1>4. OneOwner'
  BY <1>1, <1>3 DEF Tree, OneOwner
<1>5. ASSUME NEW c \in Live', NEW d \in Kids(c), NEW e \in {k, v} PROVE d \notin PartsOf(e)
  <2>1. SUFFICES ASSUME e.type = "Own", d \in Parts(e.data) PROVE FALSE
    BY DEF PartsOf
  <2>2. Free(e.data) /\ e.data \in Live /\ e.data \in Ids
    BY <1>1, <2>1 DEF Free
  <2>3. d # e.data
    BY <1>1, <1>5, <2>2 DEF Free
  <2>4. PICK p \in Parts(e.data) : d \in Kids(p)
    BY <2>1, <2>2, <2>3, PartsOwner DEF Tree
  <2>5. p \in Live
    BY <2>2, <2>4, PartsLive
  <2>6. p = c
    BY <1>1, <2>4, <2>5 DEF Tree, OneOwner
  <2>. QED
    BY <2>1, <2>4, <2>6 DEF PartsOf, Live
<1>6. OwnedLive'
  <2>1. ASSUME NEW c \in Live', NEW d \in Kids(c) PROVE d \in Live' /\ heap[d].done
    <3>1. d \in Live /\ heap[d].done
      BY <1>1 DEF Tree, OwnedLive
    <3>2. d \notin PartsOf(k) /\ d \notin PartsOf(v)
      BY <1>5
    <3>. QED
      BY <1>1, <3>1, <3>2 DEF Live
  <2>. QED
    BY <1>3, <2>1 DEF OwnedLive
<1>. QED
  BY <1>2, <1>4, <1>6 DEF Tree

\* Objects are the same after a step that shows no change of their parts.
LEMMA SameStays ==
    ASSUME Tree, Counted', Len(heap') = Len(heap),
           NEW a \in LiveElements, NEW b \in LiveElements,
           \A q \in PartsOf(a) \cup PartsOf(b) : Seen(q)' = Seen(q)
    PROVE  Same[<<a, b>>] <=> Same'[<<a, b>>]
<1>1. Counted /\ Len(heap) \in Nat /\ Shaped
  BY DEF Tree, Shaped, Counted
<1>2. PICK N : N = Len(heap)
  OBVIOUS
<1>3. PICK K : K = View
  OBVIOUS
<1>4. PICK J : J = View'
  OBVIOUS
<1>5. PICK s : SameLevels(K, N, s) /\ Same = s[N]
  BY <1>1, <1>2, <1>3, SameIs DEF SameIsLevel
<1>6. PICK t : SameLevels(J, N, t) /\ Same' = t[N]
  BY <1>2, <1>4, SameIsNext DEF SameIsLevel
<1>7. PICK T : T = PartsOf(a) \cup PartsOf(b)
  OBVIOUS
<1>8. /\ a.type = "Own" => a.data \in Ids /\ PartsOf(a) = Parts(a.data)
      /\ b.type = "Own" => b.data \in Ids /\ PartsOf(b) = Parts(b.data)
      /\ a.type # "Own" => PartsOf(a) = {}
      /\ b.type # "Own" => PartsOf(b) = {}
  BY DEF LiveElements, Known, Live, PartsOf
<1>9. ASSUME NEW e \in {a, b}
      PROVE  /\ PartsOf(e) \subseteq Ids /\ \A p \in PartsOf(e) : Kids(p) \subseteq PartsOf(e)
             /\ e.type = "Own" => e.data \in PartsOf(e)
  BY <1>1, <1>8, PartsFacts
<1>10. T \subseteq Ids /\ \A p \in T : Kids(p) \subseteq T
  BY <1>7, <1>9
<1>11. Closed(K, T)
  BY <1>1, <1>3, <1>10, ViewClosed
<1>12. \A q \in T : J[q] = K[q]
  <2>1. ASSUME NEW q \in T PROVE q \in Nat
    BY <1>1, <1>10 DEF Shaped, Counted, Ids
  <2>. QED
    BY <1>3, <1>4, <1>7, <2>1 DEF View
<1>13. Closed(J, T)
  BY <1>11, <1>12 DEF Closed
<1>14. a \in Known(T) /\ b \in Known(T)
  BY <1>7, <1>9 DEF LiveElements, Known
<1>15. N \in Nat /\ N + 0 = N
  BY <1>1, <1>2
<1>16. Implies(s[N], t[N], Known(T))
  <2>1. \A n \in Nat : n + 0 <= N => Implies(s[n], t[n + 0], Known(T))
    BY <1>5, <1>6, <1>11, <1>12, <1>15, SameImplies
  <2>. QED
    BY <1>15, <2>1
<1>17. Implies(t[N], s[N], Known(T))
  <2>1. \A n \in Nat : n + 0 <= N => Implies(t[n], s[n + 0], Known(T))
    BY <1>5, <1>6, <1>12, <1>13, <1>15, SameImplies
  <2>. QED
    BY <1>15, <2>1
<1>. QED
  BY <1>5, <1>6, <1>14, <1>16, <1>17 DEF Implies

LEMMA KeysLive ==
    ASSUME Tree, NEW m \in Live, NEW x \in heap[m].entries
    PROVE  x.key \in LiveElements
<1>1. x.key \in Known(Ids)
  BY DEF Tree, Shaped, Holds, Live
<1>2. x.key.type = "Own" => x.key.data \in Kids(m)
  BY KidsAre
<1>. QED
  BY <1>1, <1>2 DEF LiveElements, Known, Tree, OwnedLive

\* Containers own more and more while they live.
Growing ==
    /\ Ids' = Ids
    /\ \A d \in Ids : /\ Kids(d) \subseteq Kids(d)' /\ heap'[d].type = heap[d].type
                      /\ heap[d].entries \subseteq heap'[d].entries

LEMMA PlainBefore ==
    ASSUME Tree, Growing, NEW k \in LiveElements, Plain(k)'
    PROVE  Plain(k)
<1>1. ASSUME NEW c \in Ids PROVE Parts(c) \subseteq Parts(c)'
  <2>1. SUFFICES ASSUME NEW d \in Parts(c) PROVE d \in Parts(c)'
    OBVIOUS
  <2>2. d \in Ids'
    BY DEF Parts, Growing
  <2>3. ASSUME NEW S \in SUBSET Ids, c \in S, \A p \in S : Kids(p)' \subseteq S PROVE d \in S
    <3>1. \A p \in S : Kids(p) \subseteq S
      BY <2>3 DEF Growing
    <3>. QED
      BY <2>1, <2>3, <3>1 DEF Parts
  <2>. QED
    BY <2>2, <2>3 DEF Parts, Growing
<1>2. SUFFICES ASSUME k.type = "Own", NEW c \in Kids(k.data) PROVE Untyped(Own(c))
  BY DEF Plain
<1>3. k.data \in Ids /\ c \in Ids
  BY <1>2, KidsThere DEF LiveElements, Known, Live, Tree
<1>4. c \in Kids(k.data)'
  BY <1>2, <1>3 DEF Growing
<1>5. Untyped(Own(c))'
  BY <1>2, <1>4 DEF Plain
<1>6. PartsOf(Own(c)) = Parts(c) /\ PartsOf(Own(c))' = Parts(c)'
  BY DEF PartsOf, Own
<1>7. Parts(c) \subseteq Ids
  BY DEF Parts
<1>. QED
  BY <1>1, <1>3, <1>5, <1>6, <1>7 DEF Untyped, Growing

\* No stored key shows a change.
KeysKept ==
    \A m \in Live : \A x \in heap[m].entries : \A q \in PartsOf(x.key) : Seen(q)' = Seen(q)

LEMMA PlainKeysBefore ==
    ASSUME Tree, Growing, NEW m \in Live, PlainKeys(m)'
    PROVE  PlainKeys(m)
<1>1. m \in Ids
  BY DEF Live
<1>2. ASSUME NEW x \in heap[m].entries PROVE Plain(x.key)
  <2>1. x \in heap'[m].entries
    BY <1>1 DEF Growing
  <2>2. Plain(x.key)'
    BY <2>1 DEF PlainKeys
  <2>. QED
    BY <2>2, KeysLive, PlainBefore
<1>. QED
  BY <1>2 DEF PlainKeys

LEMMA DistinctKept ==
    ASSUME Tree, AllDistinct, Growing, Counted', Len(heap') = Len(heap), KeysKept,
           NEW m \in Live, PlainKeys(m)',
           NEW x \in heap[m].entries, NEW y \in heap[m].entries, Same'[<<x.key, y.key>>]
    PROVE  x = y
<1>1. PlainKeys(m)
  BY PlainKeysBefore
<1>2. x.key \in LiveElements /\ y.key \in LiveElements
  BY KeysLive
<1>3. \A q \in PartsOf(x.key) \cup PartsOf(y.key) : Seen(q)' = Seen(q)
  BY DEF KeysKept
<1>4. Same[<<x.key, y.key>>]
  BY <1>2, <1>3, SameStays
<1>. QED
  BY <1>1, <1>4 DEF AllDistinct

\* A step that shows no stored key a change and puts in no new one.
LEMMA DistinctStays ==
    ASSUME Tree, Distinct, Growing, Counted', Len(heap') = Len(heap), Live' \subseteq Live,
           careless => careless', ~ careless' => KeysKept,
           \A m \in Live : heap'[m].entries = heap[m].entries
    PROVE  Distinct'
<1>1. SUFFICES ASSUME ~ careless', NEW m \in Live', PlainKeys(m)',
                      NEW x \in heap'[m].entries, NEW y \in heap'[m].entries,
                      Same'[<<x.key, y.key>>]
               PROVE  x = y
  BY DEF Distinct, AllDistinct
<1>2. m \in Live /\ x \in heap[m].entries /\ y \in heap[m].entries
  OBVIOUS
<1>3. AllDistinct
  BY <1>1 DEF Distinct
<1>. QED
  BY <1>1, <1>2, <1>3, DistinctKept

LEMMA GrowingIs ==
    ASSUME Tree, NEW c \in Live, NEW r, Ids' = Ids, heap'[c] = r,
           \A d \in Ids : d # c => heap'[d] = heap[d],
           r.type = heap[c].type, heap[c].entries \subseteq r.entries,
           KidsOf(heap[c]) \subseteq KidsOf(r)
    PROVE  Growing
<1>1. ASSUME NEW d \in Ids
      PROVE  /\ Kids(d) \subseteq Kids(d)' /\ heap'[d].type = heap[d].type
             /\ heap[d].entries \subseteq heap'[d].entries
  <2>1. CASE d = c
    BY <2>1, KidsAreOf
  <2>2. CASE d # c
    BY <2>2, KidsAreOf
  <2>. QED
    BY <2>1, <2>2
<1>. QED
  BY <1>1 DEF Growing

\* A change of one container that is no part of a stored key, or is not seen.
LEMMA KeysKeptIs ==
    ASSUME Tree, NEW c \in Live, \A d \in Ids : d # c => heap'[d] = heap[d],
           Seen(c)' # Seen(c) => \A m \in Live : \A x \in heap[m].entries : c \notin PartsOf(x.key)
    PROVE  KeysKept
<1>1. SUFFICES ASSUME NEW m \in Live, NEW x \in heap[m].entries, NEW q \in PartsOf(x.key)
               PROVE  Seen(q)' = Seen(q)
  BY DEF KeysKept
<1>2. q \in Ids
  BY DEF PartsOf, Parts
<1>3. CASE q = c
  BY <1>3
<1>4. CASE q # c
  BY <1>2, <1>4 DEF Seen
<1>. QED
  BY <1>3, <1>4

LEMMA ChangeSound ==
    ASSUME Tree, Distinct, NEW c \in Live, NEW r, heap' = [heap EXCEPT ![c] = r], UNCHANGED dead,
           Holds(r, Known(Ids)), r.type = heap[c].type, heap[c].done => r.done,
           r.entries = heap[c].entries,
           KidsOf(heap[c]) \subseteq KidsOf(r), \A d \in KidsOf(r) : d \in Kids(c) \/ Free(d),
           Seen(c)' # Seen(c) /\ IsInKey(c) => careless', careless => careless'
    PROVE  Tree' /\ Distinct'
<1>1. c \in Ids /\ (r.type \in Lists => r.entries = {})
  BY DEF Tree, Shaped, Live
<1>2. /\ Tree' /\ Len(heap') = Len(heap) /\ Ids' = Ids /\ Live' = Live
      /\ heap'[c] = r /\ \A d \in Ids : d # c => heap'[d] = heap[d]
  BY <1>1, TreeGrows
<1>3. Growing
  BY <1>2, GrowingIs
<1>4. ASSUME ~ careless' PROVE KeysKept
  <2>1. ASSUME Seen(c)' # Seen(c), NEW m \in Live, NEW x \in heap[m].entries, c \in PartsOf(x.key)
        PROVE  FALSE
    <3>1. x.key \in StoredKeys
      BY DEF StoredKeys
    <3>2. IsInKey(c)
      BY <2>1, <3>1 DEF IsInKey
    <3>. QED
      BY <1>4, <2>1, <3>2
  <2>. QED
    BY <1>2, <2>1, KeysKeptIs
<1>5. \A m \in Live : heap'[m].entries = heap[m].entries
  BY <1>2 DEF Live
<1>6. Counted'
  BY <1>2 DEF Tree, Shaped
<1>. QED
  BY <1>2, <1>3, <1>4, <1>5, <1>6, DistinctStays

\* Others see nothing of what goes on in a container that is not done.
LEMMA UnseenStays ==
    ASSUME NEW c, heap'[c].type = heap[c].type, ~heap[c].done, ~heap'[c].done
    PROVE  Seen(c)' = Seen(c)
<1>1. Seen(c) = Container(heap[c].type, "", FALSE)
  BY Zenon DEF Seen
<1>2. Seen(c)' = Container(heap'[c].type, "", FALSE)
  BY Zenon DEF Seen
<1>. QED
  BY Zenon, <1>1, <1>2

\* A new entry, of which Found has said that there is none.
LEMMA EntrySound ==
    ASSUME Tree, Distinct, HashCurrent, NEW m \in Live, heap[m].type \in Maps, NEW r, NEW new,
           NEW k \in Keys \cup Movable(m) \cup Refs, NEW v \in Values \cup Movable(m),
           new.key = k, new.value = v, Found(m, k) = {},
           heap' = [heap EXCEPT ![m] = r], UNCHANGED dead,
           r.entries = heap[m].entries \cup {new}, r.elems = heap[m].elems,
           r.type = heap[m].type, r.done = heap[m].done,
           heap[m].done /\ IsInKey(m)' => careless', careless => careless'
    PROVE  Tree' /\ Distinct'
<1>1. m \in Ids /\ Holds(heap[m], Known(Ids)) /\ r.type \notin Lists
  BY DEF Tree, Shaped, Live, Maps, Lists
<1>2. /\ k \in LiveElements /\ k \in Known(Ids) /\ v \in Known(Ids)
      /\ k.type = "Own" => Free(k.data) /\ m \notin Parts(k.data)
      /\ v.type = "Own" => Free(v.data)
  BY MovableFree
<1>3. Holds(r, Known(Ids))
  <2>1. IsFiniteSet(r.entries)
    BY <1>1, FS_AddElement DEF Holds
  <2>. QED
    BY <1>1, <1>2, <2>1 DEF Holds
<1>4. ASSUME NEW d \in KidsOf(r) PROVE d \in KidsOf(heap[m]) \/ Free(d)
  <2>1. \/ \E i \in DOMAIN r.elems : r.elems[i].type = "Own" /\ r.elems[i].data = d
        \/ \E x \in r.entries : \/ x.key.type = "Own" /\ x.key.data = d
                                \/ x.value.type = "Own" /\ x.value.data = d
    BY Zenon, <1>4, KidsOfAre
  <2>2. ASSUME NEW i \in DOMAIN r.elems, r.elems[i].type = "Own" /\ r.elems[i].data = d
        PROVE  d \in KidsOf(heap[m])
    BY <2>2, KidsOfAre
  <2>3. ASSUME NEW x \in r.entries, \/ x.key.type = "Own" /\ x.key.data = d
                                    \/ x.value.type = "Own" /\ x.value.data = d
        PROVE  d \in KidsOf(heap[m]) \/ Free(d)
    <3>1. CASE x = new
      BY <1>2, <2>3, <3>1
    <3>2. CASE x \in heap[m].entries
      BY <2>3, <3>2, KidsOfAre
    <3>. QED
      BY <3>1, <3>2
  <2>. QED
    BY <2>1, <2>2, <2>3
<1>5. KidsOf(heap[m]) \subseteq KidsOf(r)
  <2>1. ASSUME NEW d \in KidsOf(heap[m]) PROVE d \in KidsOf(r)
    <3>1. \/ \E i \in DOMAIN heap[m].elems : heap[m].elems[i].type = "Own" /\ heap[m].elems[i].data = d
          \/ \E x \in heap[m].entries : \/ x.key.type = "Own" /\ x.key.data = d
                                        \/ x.value.type = "Own" /\ x.value.data = d
      BY Zenon, <2>1, KidsOfAre
    <3>2. \/ \E i \in DOMAIN r.elems : r.elems[i].type = "Own" /\ r.elems[i].data = d
          \/ \E x \in r.entries : \/ x.key.type = "Own" /\ x.key.data = d
                                  \/ x.value.type = "Own" /\ x.value.data = d
      BY <3>1
    <3>. QED
      BY Zenon, <3>2, KidsOfAre
  <2>. QED
    BY <2>1
<1>6. \A d \in KidsOf(r) : d \in Kids(m) \/ Free(d)
  BY <1>4, KidsAreOf
<1>7. /\ Tree' /\ Len(heap') = Len(heap) /\ Ids' = Ids /\ Live' = Live
      /\ heap'[m] = r /\ \A d \in Ids : d # m => heap'[d] = heap[d]
  BY <1>1, <1>3, <1>6, TreeGrows
<1>8. Growing
  BY <1>5, <1>7, GrowingIs
<1>9. Counted'
  BY <1>7 DEF Tree, Shaped
<1>10. ~ heap[m].done => Seen(m)' = Seen(m)
  BY <1>7, UnseenStays
<1>11. ASSUME ~ careless' PROVE KeysKept
  <2>1. ASSUME Seen(m)' # Seen(m), NEW q \in Live, NEW x \in heap[q].entries, m \in PartsOf(x.key)
        PROVE  FALSE
    <3>1. q \in Ids /\ x \in heap'[q].entries /\ q \in Live'
      BY <1>7, <1>8 DEF Growing, Live
    <3>2. x.key \in StoredKeys'
      BY <3>1 DEF StoredKeys
    <3>3. x.key.type = "Own" /\ m \in Parts(x.key.data) /\ x.key.data \in Ids
      BY <2>1, KeysLive DEF PartsOf, LiveElements, Known, Live
    <3>4. m \in Parts(x.key.data)'
      <4>1. ASSUME NEW S \in SUBSET Ids, x.key.data \in S, \A p \in S : Kids(p)' \subseteq S
            PROVE  m \in S
        <5>1. \A p \in S : Kids(p) \subseteq S
          BY <1>8, <4>1 DEF Growing
        <5>. QED
          BY <3>3, <4>1, <5>1 DEF Parts
      <4>. QED
        BY <1>1, <1>7, <4>1 DEF Parts
    <3>5. IsInKey(m)'
      BY <3>2, <3>3, <3>4 DEF IsInKey, PartsOf
    <3>. QED
      BY <1>10, <1>11, <2>1, <3>5
  <2>. QED
    BY <1>7, <2>1, KeysKeptIs
<1>12. ASSUME ~ careless', PlainKeys(m)', NEW x \in heap[m].entries,
              Same'[<<x.key, k>>] \/ Same'[<<k, x.key>>]
       PROVE  FALSE
  <2>1. ~ careless /\ Hashed /\ AllDistinct /\ PlainKeys(m) /\ Plain(k)
    <3>1. Plain(k)'
      BY <1>7, <1>12 DEF PlainKeys
    <3>2. ~ careless
      BY <1>12
    <3>. QED
      BY <1>2, <1>8, <1>12, <3>1, <3>2, PlainKeysBefore, PlainBefore
         DEF HashCurrent, Hashed, Distinct
  <2>2. x.key \in LiveElements
    BY KeysLive
  <2>3. \A q \in PartsOf(x.key) \cup PartsOf(k) : Seen(q)' = Seen(q)
    <3>1. \A q \in PartsOf(x.key) : Seen(q)' = Seen(q)
      BY <1>11, <1>12 DEF KeysKept
    <3>2. ASSUME NEW q \in PartsOf(k) PROVE Seen(q)' = Seen(q)
      <4>1. q \in Ids /\ q # m
        BY <1>2, <3>2 DEF PartsOf, Parts
      <4>. QED
        BY <1>7, <4>1 DEF Seen
    <3>. QED
      BY <3>1, <3>2
  <2>4. Same[<<x.key, k>>] \/ Same[<<k, x.key>>]
    <3>1. CASE Same'[<<x.key, k>>]
      BY <1>2, <1>7, <1>9, <2>2, <2>3, <3>1, SameStays
    <3>2. CASE Same'[<<k, x.key>>]
      <4>1. \A q \in PartsOf(k) \cup PartsOf(x.key) : Seen(q)' = Seen(q)
        BY <2>3
      <4>. QED
        BY <1>2, <1>7, <1>9, <2>2, <3>2, <4>1, SameStays
    <3>. QED
      BY <1>12, <3>1, <3>2
  <2>5. Same[<<x.key, k>>]
    BY <1>2, <2>1, <2>2, <2>4, SameFacts DEF Symmetric
  <2>6. Found(m, k) = {y \in heap[m].entries : Same[<<y.key, k>>]}
    BY <1>2, <2>1, KeyFound
  <2>. QED
    BY <2>5, <2>6
<1>13. ASSUME ~ careless', NEW q \in Live', PlainKeys(q)',
              NEW x \in heap'[q].entries, NEW y \in heap'[q].entries,
              Same'[<<x.key, y.key>>]
       PROVE  x = y
  <2>1. q \in Live /\ q \in Ids /\ AllDistinct
    BY <1>7, <1>13 DEF Live, Distinct
  <2>2. CASE x \in heap[q].entries /\ y \in heap[q].entries
    BY <1>7, <1>8, <1>9, <1>11, <1>13, <2>1, <2>2, DistinctKept
  <2>3. CASE ~ (x \in heap[q].entries /\ y \in heap[q].entries)
    <3>1. q = m /\ (x = new \/ y = new)
      BY <1>7, <1>13, <2>1, <2>3
    <3>2. /\ x = new \/ x \in heap[m].entries
          /\ y = new \/ y \in heap[m].entries
      BY <1>7, <3>1
    <3>. QED
      BY <1>12, <1>13, <3>1, <3>2
  <2>. QED
    BY <2>2, <2>3
<1>14. Distinct'
  BY <1>13 DEF Distinct, AllDistinct
<1>. QED
  BY <1>7, <1>14

LEMMA InitSound == Init => Sound
<1>. SUFFICES ASSUME Init PROVE Sound
  OBVIOUS
<1>1. IInv
  BY InitIInv
<1>2. Counted /\ heap = [c \in 1 .. Len(heap) |-> heap[c]] /\ Ids = 1 .. Len(heap)
  BY ConstantsAssumption DEF Init, Counted, Ids
<1>3. ASSUME NEW c \in Ids
      PROVE  heap[c].elems = <<>> /\ heap[c].entries = {} /\ heap[c].type \in Maps \cup Lists
  <2>1. /\ heap[c] = Container(heap[c].type, heap[c].name, heap[c].done)
        /\ heap[c].type \in Maps \cup Lists
    BY ConstantsAssumption DEF Init, Ids
  <2>2. \A t, n, d : Container(t, n, d).elems = <<>> /\ Container(t, n, d).entries = {}
    BY DEF Container
  <2>. QED
    BY <2>1, <2>2
<1>4. ASSUME NEW c \in Ids PROVE Holds(heap[c], Known(Ids)) /\ Kids(c) = {}
  <2>1. <<>> \in Seq(Known(Ids)) /\ Len(<<>>) = 0 /\ DOMAIN <<>> = {}
    OBVIOUS
  <2>2. Holds(heap[c], Known(Ids))
    BY <1>3, <2>1, FS_EmptySet DEF Holds
  <2>3. ASSUME NEW d \in Kids(c) PROVE FALSE
    BY <1>3, <2>1, <2>3, KidsAre
  <2>. QED
    BY <2>2, <2>3
<1>5. Shaped
  BY <1>2, <1>3, <1>4 DEF Shaped
<1>6. OwnedLive /\ OneOwner
  BY <1>4 DEF OwnedLive, OneOwner, Live
<1>7. Distinct
  BY <1>3 DEF Distinct, AllDistinct, Live
<1>. QED
  BY <1>1, <1>5, <1>6, <1>7 DEF Sound, Tree

\* emplace_back.
LEMMA EmplaceBackSound ==
    ASSUME Sound, NEW c \in Live, NEW e \in Values \cup Movable(c) \cup Refs, EmplaceBack(c, e)
    PROVE  Tree' /\ Distinct'
<1>. DEFINE r == [heap[c] EXCEPT !.elems = Append(@, e)]
<1>1. c \in Ids /\ Cell(heap[c])
  BY DEF Sound, IInv, TypeOK, Live
<1>2. /\ r.entries = heap[c].entries /\ r.done = heap[c].done /\ r.type = heap[c].type
      /\ r.elems = Append(heap[c].elems, e)
  BY <1>1 DEF Cell
<1>3. heap' = [heap EXCEPT ![c] = r]
  BY DEF EmplaceBack
<1>. HIDE DEF r
<1>4. Tree /\ Distinct /\ Holds(heap[c], Known(Ids))
  BY <1>1 DEF Sound, Tree, Shaped
<1>5. e \in Known(Ids) /\ (e.type = "Own" => Free(e.data))
  BY <1>4, MovableFree
<1>6. PICK s : s = heap[c].elems /\ r.elems = Append(s, e)
  BY <1>2
<1>7. s \in Seq(Known(Ids))
  BY <1>4, <1>6 DEF Holds
<1>8. /\ Append(s, e) \in Seq(Known(Ids)) /\ DOMAIN s = 1 .. Len(s)
      /\ DOMAIN Append(s, e) = 1 .. Len(s) + 1
      /\ Append(s, e)[Len(s) + 1] = e /\ \A i \in 1 .. Len(s) : Append(s, e)[i] = s[i]
      /\ Len(s) \in Nat
  BY <1>5, <1>7
<1>9. Holds(r, Known(Ids))
  BY <1>2, <1>4, <1>6, <1>8 DEF Holds
<1>10. ASSUME NEW d \in KidsOf(r) PROVE d \in Kids(c) \/ Free(d)
  <2>1. \/ \E i \in DOMAIN r.elems : r.elems[i].type = "Own" /\ r.elems[i].data = d
        \/ \E x \in r.entries : \/ x.key.type = "Own" /\ x.key.data = d
                                \/ x.value.type = "Own" /\ x.value.data = d
    BY Zenon, <1>10, KidsOfAre
  <2>2. ASSUME NEW i \in DOMAIN r.elems, r.elems[i].type = "Own" /\ r.elems[i].data = d
        PROVE  d \in Kids(c) \/ Free(d)
    <3>1. CASE i = Len(s) + 1
      BY <1>5, <1>6, <1>8, <2>2, <3>1
    <3>2. CASE i # Len(s) + 1
      <4>1. i \in DOMAIN heap[c].elems /\ r.elems[i] = heap[c].elems[i]
        BY <1>6, <1>8, <2>2, <3>2
      <4>. QED
        BY <2>2, <4>1, KidsAre
    <3>. QED
      BY <3>1, <3>2
  <2>3. ASSUME NEW x \in r.entries, \/ x.key.type = "Own" /\ x.key.data = d
                                    \/ x.value.type = "Own" /\ x.value.data = d
        PROVE  d \in Kids(c)
    BY <1>2, <2>3, KidsAre
  <2>. QED
    BY <2>1, <2>2, <2>3
<1>11. ASSUME NEW d \in KidsOf(heap[c]) PROVE d \in KidsOf(r)
  <2>1. \/ \E i \in DOMAIN heap[c].elems : heap[c].elems[i].type = "Own" /\ heap[c].elems[i].data = d
        \/ \E x \in heap[c].entries : \/ x.key.type = "Own" /\ x.key.data = d
                                      \/ x.value.type = "Own" /\ x.value.data = d
    BY Zenon, <1>11, KidsOfAre
  <2>2. ASSUME NEW i \in DOMAIN heap[c].elems,
               heap[c].elems[i].type = "Own" /\ heap[c].elems[i].data = d
        PROVE  i \in DOMAIN r.elems /\ r.elems[i].type = "Own" /\ r.elems[i].data = d
    BY <1>6, <1>8, <2>2
  <2>3. \/ \E i \in DOMAIN r.elems : r.elems[i].type = "Own" /\ r.elems[i].data = d
        \/ \E x \in r.entries : \/ x.key.type = "Own" /\ x.key.data = d
                                \/ x.value.type = "Own" /\ x.value.data = d
    BY <1>2, <2>1, <2>2
  <2>. QED
    BY Zenon, <2>3, KidsOfAre
<1>12. heap'[c] = r
  BY <1>1, <1>3 DEF Sound, IInv, TypeOK
<1>13. Seen(c)' # Seen(c) /\ IsInKey(c) => careless'
  <2>1. CASE heap[c].done
    BY <2>1 DEF EmplaceBack
  <2>2. CASE ~heap[c].done
    <3>1. Seen(c)' = Seen(c)
      BY <1>2, <1>12, <2>2, UnseenStays
    <3>. QED
      BY <3>1
  <2>. QED
    BY <2>1, <2>2
<1>14. (careless => careless') /\ UNCHANGED dead
  BY DEF EmplaceBack
<1>. QED
  BY <1>2, <1>3, <1>4, <1>9, <1>10, <1>11, <1>13, <1>14, ChangeSound

\* setType, and a decoder that is done: what the container holds stays.
LEMMA ContentsSound ==
    ASSUME Sound, NEW c \in Live, NEW r, heap' = [heap EXCEPT ![c] = r], UNCHANGED dead,
           r.elems = heap[c].elems, r.entries = heap[c].entries, r.type = heap[c].type,
           heap[c].done => r.done,
           Seen(c)' # Seen(c) /\ IsInKey(c) => careless', careless => careless'
    PROVE  Tree' /\ Distinct'
<1>1. Tree /\ Distinct /\ Holds(heap[c], Known(Ids))
  BY DEF Sound, Tree, Shaped, Live
<1>2. Holds(r, Known(Ids))
  BY <1>1 DEF Holds
<1>3. KidsOf(r) = KidsOf(heap[c]) /\ KidsOf(heap[c]) = Kids(c)
  BY KidsOfContents, KidsAreOf
<1>. QED
  BY <1>1, <1>2, <1>3, ChangeSound

LEMMA SetTypeSound ==
    ASSUME Sound, NEW c \in Live, NEW name \in Names, SetType(c, name)
    PROVE  Tree' /\ Distinct'
<1>. DEFINE r == [heap[c] EXCEPT !.name = name]
<1>1. c \in Ids /\ Cell(heap[c]) /\ heap = [d \in Ids |-> heap[d]]
  BY DEF Sound, IInv, TypeOK, Live
<1>2. /\ r.entries = heap[c].entries /\ r.done = heap[c].done /\ r.type = heap[c].type
      /\ r.elems = heap[c].elems /\ (name = heap[c].name => r = heap[c])
  BY <1>1 DEF Cell
<1>3. heap' = [heap EXCEPT ![c] = r] /\ UNCHANGED dead /\ (careless => careless')
  BY DEF SetType
<1>. HIDE DEF r
<1>4. heap'[c] = r
  BY <1>1, <1>3
<1>5. Seen(c)' # Seen(c) /\ IsInKey(c) => careless'
  BY <1>2, <1>4 DEF SetType, Seen
<1>. QED
  BY <1>2, <1>3, <1>5, ContentsSound

LEMMA SetSound ==
    ASSUME Sound, NEW c \in Live, Set(c)
    PROVE  Tree' /\ Distinct'
<1>. DEFINE r == [heap[c] EXCEPT !.done = TRUE]
<1>1. c \in Ids /\ Cell(heap[c])
  BY DEF Sound, IInv, TypeOK, Live
<1>2. /\ r.entries = heap[c].entries /\ r.done = TRUE /\ r.type = heap[c].type
      /\ r.elems = heap[c].elems
  BY <1>1 DEF Cell
<1>3. heap' = [heap EXCEPT ![c] = r] /\ UNCHANGED dead /\ (careless => careless')
  BY DEF Set
<1>. HIDE DEF r
<1>4. Seen(c)' # Seen(c) /\ IsInKey(c) => careless'
  BY DEF Set
<1>. QED
  BY <1>2, <1>3, <1>4, ContentsSound

\* No container changes; some may be destroyed.
LEMMA HeapStays ==
    ASSUME Sound, Tree', UNCHANGED heap, dead \subseteq dead', careless => careless'
    PROVE  Tree' /\ Distinct'
<1>1. Growing
  BY KidsAreOf DEF Growing, Ids
<1>2. KeysKept
  BY DEF KeysKept, Seen
<1>3. Live' \subseteq Live
  BY DEF Live, Ids
<1>4. Counted'
  BY DEF Tree, Shaped
<1>. QED
  BY <1>1, <1>2, <1>3, <1>4, DistinctStays DEF Sound

LEMMA UnchangedSound ==
    ASSUME Sound, UNCHANGED <<heap, dead>>, careless => careless'
    PROVE  Tree' /\ Distinct'
<1>1. Ids' = Ids /\ Live' = Live /\ \A d : Kids(d)' = Kids(d)
  BY KidsAreOf DEF Ids, Live
<1>2. Tree'
  BY <1>1 DEF Sound, Tree, Shaped, Counted, OwnedLive, OneOwner
<1>. QED
  BY <1>2, HeapStays

LEMMA EmplaceSound ==
    ASSUME Sound, NEW m \in Live, NEW k \in Keys \cup Movable(m) \cup Refs,
           NEW v \in Values \cup Movable(m), Emplace(m, k, v)
    PROVE  Tree' /\ Distinct'
<1>1. CASE NoDefinition(k)
  <2>1. UNCHANGED <<heap, dead, careless>>
    BY <1>1 DEF Emplace
  <2>. QED
    BY <2>1, UnchangedSound
<1>2. CASE ~NoDefinition(k)
  <2>1. /\ Insert(m, k, v) /\ heap[m].type \in Maps /\ (careless => careless')
        /\ heap[m].done /\ Found(m, k) = {} /\ IsInKey(m)' => careless'
    BY <1>2 DEF Emplace
  <2>2. CASE Found(m, k) = {}
    <3>1. PICK new : new = [key |-> k, value |-> v, hash |-> HashOf(k)]
      OBVIOUS
    <3>. DEFINE r == [heap[m] EXCEPT !.entries = @ \cup {new}]
    <3>2. heap' = [heap EXCEPT ![m] = r] /\ UNCHANGED dead
      BY <2>1, <2>2, <3>1 DEF Insert
    <3>3. Cell(heap[m])
      BY DEF Sound, IInv, TypeOK, Live
    <3>4. /\ r.entries = heap[m].entries \cup {new} /\ r.elems = heap[m].elems
          /\ r.type = heap[m].type /\ r.done = heap[m].done
      BY <3>3 DEF Cell
    <3>. HIDE DEF r
    <3>5. new.key = k /\ new.value = v
      BY <3>1
    <3>. QED
      BY <2>1, <2>2, <3>2, <3>4, <3>5, EntrySound DEF Sound, IInv
  <2>3. CASE Found(m, k) # {}
    <3>1. dead' = dead \cup PartsOf(k) \cup PartsOf(v) /\ UNCHANGED heap
      BY <2>1, <2>3 DEF Insert
    <3>2. /\ k.type = "Own" => Free(k.data)
          /\ v.type = "Own" => Free(v.data)
      BY MovableFree DEF Sound
    <3>3. Tree'
      BY <3>1, <3>2, TreeShrinks DEF Sound
    <3>. QED
      BY <2>1, <3>1, <3>3, HeapStays
  <2>. QED
    BY <2>2, <2>3
<1>. QED
  BY <1>1, <1>2

LEMMA NextSound == Sound /\ [Next]_vars => Sound'
<1>. SUFFICES ASSUME Sound, [Next]_vars PROVE Sound'
  OBVIOUS
<1>1. IInv'
  BY NextIInv DEF Sound
<1>2. ASSUME NEW c \in Live, NEW e \in Values \cup Movable(c) \cup Refs, EmplaceBack(c, e)
      PROVE  Sound'
  BY <1>1, <1>2, EmplaceBackSound DEF Sound
<1>3. ASSUME NEW m \in Live, NEW k \in Keys \cup Movable(m) \cup Refs,
             NEW v \in Values \cup Movable(m), Emplace(m, k, v)
      PROVE  Sound'
  BY <1>1, <1>3, EmplaceSound DEF Sound
<1>4. ASSUME NEW k \in Keys, Find(k)
      PROVE  Sound'
  <2>1. UNCHANGED <<heap, dead>> /\ (careless => careless')
    BY <1>4 DEF Find
  <2>. QED
    BY <1>1, <2>1, UnchangedSound DEF Sound
<1>5. ASSUME NEW c \in Live, NEW name \in Names, SetType(c, name)
      PROVE  Sound'
  BY <1>1, <1>5, SetTypeSound DEF Sound
<1>6. ASSUME NEW c \in Live, Set(c)
      PROVE  Sound'
  BY <1>1, <1>6, SetSound DEF Sound
<1>7. ASSUME UNCHANGED vars
      PROVE  Sound'
  <2>1. UNCHANGED <<heap, dead>> /\ (careless => careless')
    BY <1>7 DEF vars
  <2>. QED
    BY <1>1, <2>1, UnchangedSound DEF Sound
<1>. QED
  BY <1>2, <1>3, <1>4, <1>5, <1>6, <1>7 DEF Next

LEMMA SpecSound == Spec => []Sound
BY InitSound, NextSound, PTL DEF Spec

\* find and emplace come upon the entry whose key is the same as the key they are
\* given, and there is at most one, in every reachable state: hash() and operator==
\* of object.hpp are what node_hash_map asks of them, for any heap, keys and calls
\* that leave the keys in the maps alone, on keys with no typed map inside.
THEOREM KeysFindTheirEntry == Spec => []FoundBySame
<1>1. Sound => FoundBySame
  BY SoundSays
<1>. QED
  BY SpecSound, <1>1, PTL

\* operator== of object.hpp, asked in both directions, says that two objects are
\* equal if and only if they hold the same at every depth, in every reachable state,
\* although it compares maps by looking the keys of one up under the hashes that
\* the other has kept (object.hpp:195, :530).
THEOREM EqualityIsSameness == Spec => []EqualIsSame
<1>1. Sound => EqualIsSame
  BY SoundSays
<1>. QED
  BY SpecSound, <1>1, PTL
=============================================================================
