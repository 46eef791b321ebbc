--------------------------- MODULE PathORAM_proofs ---------------------------
(***************************************************************************)
(* Proofs about PathORAM for every tree, bucket size and stash size.       *)
(***************************************************************************)
EXTENDS PathORAM, FiniteSetTheorems, LoopLemmas

---------------------------------------------------------------------------
(* Places of a path and slots in front of the stash. *)

\* The offset of a place lies in the front of the stash.
LEMMA OffsetInFront ==
    ASSUME NEW l \in Levels, NEW j \in Places
    PROVE  l * BucketSize + j \in Front
<1> USE SizeAssumption DEF Levels, Places, Front, PathLen
<1>1. (Depth - 1 - l) * BucketSize >= 0
  OBVIOUS
<1>2. BucketSize * Depth = (Depth - 1 - l) * BucketSize + l * BucketSize + BucketSize
  OBVIOUS
<1>3. l * BucketSize >= 0 /\ l * BucketSize \in Int
  OBVIOUS
<1>4. BucketSize * Depth \in Int /\ (Depth - 1 - l) * BucketSize \in Int
  OBVIOUS
<1> QED
  BY <1>1, <1>2, <1>3, <1>4

\* A slot in front of the stash is the offset of one place.
LEMMA FrontIsOffset ==
    ASSUME NEW k \in Front
    PROVE  /\ k \div BucketSize \in Levels
           /\ k % BucketSize \in Places
           /\ k = (k \div BucketSize) * BucketSize + (k % BucketSize)
<1> USE SizeAssumption DEF Levels, Places, Front, PathLen
<1>1. k \in Nat /\ BucketSize \in Nat \ {0} /\ k < BucketSize * Depth
  OBVIOUS
<1>2. k % BucketSize \in 0 .. (BucketSize - 1)
  BY <1>1
<1>3. k = (k \div BucketSize) * BucketSize + (k % BucketSize)
  BY <1>1
<1>4. k \div BucketSize \in Nat
  BY <1>1
<1>5. k \div BucketSize < Depth
  <2> SUFFICES ASSUME k \div BucketSize >= Depth PROVE FALSE
    BY <1>4
  <2>1. (k \div BucketSize) * BucketSize >= Depth * BucketSize
    BY <1>4
  <2> QED
    BY <2>1, <1>1, <1>2, <1>3, <1>4
<1> QED
  BY <1>2, <1>3, <1>4, <1>5

\* The front is a proper part of the stash.
LEMMA FrontInSlots == Front \subseteq Slots /\ 0 \in Front /\ 0 \in Slots
<1>1. BucketSize * Depth >= 1
  BY SizeAssumption
<1> QED
  BY <1>1, SizeAssumption DEF Front, Slots, PathLen

\* Two places have different offsets.
LEMMA OffsetInjective ==
    ASSUME NEW l1 \in Levels, NEW j1 \in Places, NEW l2 \in Levels, NEW j2 \in Places,
           l1 * BucketSize + j1 = l2 * BucketSize + j2
    PROVE  l1 = l2 /\ j1 = j2
<1> USE SizeAssumption DEF Levels, Places
<1>1. ASSUME NEW a \in Levels, NEW b \in Levels, a < b
      PROVE  a * BucketSize + BucketSize <= b * BucketSize
  <2>1. (b - a - 1) * BucketSize >= 0
    BY <1>1
  <2>2. b * BucketSize = (b - a - 1) * BucketSize + a * BucketSize + BucketSize
    BY <1>1
  <2> QED
    BY <2>1, <2>2
<1>2. ~ (l1 < l2)
  BY <1>1
<1>3. ~ (l2 < l1)
  BY <1>1
<1>4. l1 = l2
  BY <1>2, <1>3
<1> QED
  BY <1>4

---------------------------------------------------------------------------
(* Type correctness. *)

LEMMA ClearedType == ASSUME NEW block \in Block PROVE Cleared(block) \in Block
BY DEF Cleared, Block

LEMMA ZeroBlockType == ZeroBlock \in Block
BY PathAssumption DEF ZeroBlock, Block

LEMMA ResetTypes ==
    /\ ResetKey \in [Slots -> Front \cup {max_int}]
    /\ ResetWbPath \in [Front -> Slots \cup {-1}]
    /\ ResetOccupied \in [Levels -> 0 .. BucketSize]
BY SizeAssumption DEF ResetKey, ResetWbPath, ResetOccupied

LEMMA InitTreeType ==
    ASSUME NEW memory \in [Buckets -> [Places -> Block]]
    PROVE  InitTree(memory) \in [Buckets -> [Places -> Block]]
<1>1. 1 \div BucketSize \in Buckets /\ 1 % BucketSize \in Places
  <2>1. 1 % BucketSize \in 0 .. (BucketSize - 1)
    BY SizeAssumption
  <2>2. 1 = (1 \div BucketSize) * BucketSize + (1 % BucketSize)
        /\ 1 \div BucketSize \in Nat
    BY SizeAssumption
  <2>3. 1 \div BucketSize <= 1
    BY <2>1, <2>2, SizeAssumption
  <2> QED
    BY <2>1, <2>2, <2>3, SizeAssumption DEF Buckets, Places
<1>2. Cleared(memory[1 \div BucketSize][1 % BucketSize]) \in Block
  BY <1>1, ClearedType
<1> QED
  BY <1>1, <1>2 DEF InitTree

\* The stash after the path was copied to its front.
LEMMA FetchedType ==
    ASSUME TypeOK, NEW leaf \in Leaves
    PROVE  /\ Fetched(leaf) \in [Slots -> Block]
           /\ EmptiedPath(leaf) \in [Buckets -> [Places -> Block]]
<1>1. ASSUME NEW i \in Front PROVE PathBlock(leaf, i) \in Block
  <2>1. i \div BucketSize \in Levels /\ i % BucketSize \in Places
    BY FrontIsOffset
  <2>2. Path[leaf][i \div BucketSize] \in Buckets
    BY <2>1, PathAssumption, SizeAssumption DEF Buckets
  <2> QED
    BY <2>1, <2>2 DEF PathBlock, TypeOK
<1>2. Fetched(leaf) \in [Slots -> Block]
  BY <1>1 DEF Fetched, TypeOK
<1>3. EmptiedPath(leaf) \in [Buckets -> [Places -> Block]]
  BY ClearedType DEF EmptiedPath, TypeOK
<1> QED
  BY <1>2, <1>3

LEMMA ScannedType ==
    ASSUME NEW s \in [Slots -> Block], NEW c \in Call,
           NEW data \in Values \cup {NoValue}
    PROVE  Scanned(s, c, data) \in [Slots -> Block]
BY DEF Scanned, Block, Call

\* The sorted stash, seen from the place of the path it is copied to.
LEMMA WriteBackType ==
    ASSUME TypeOK, NEW leaf \in Leaves, NEW s \in [Slots -> Block]
    PROVE  /\ [b \in Buckets |-> [j \in Places |->
                 IF OnPath(leaf, b)
                 THEN s[(CHOOSE l \in Levels : Path[leaf][l] = b) * BucketSize + j]
                 ELSE tree[b][j]]] \in [Buckets -> [Places -> Block]]
           /\ [i \in Slots |-> IF i \in Front THEN Cleared(s[i]) ELSE s[i]]
                 \in [Slots -> Block]
<1>1. ASSUME NEW b \in Buckets, NEW j \in Places, OnPath(leaf, b)
      PROVE  s[(CHOOSE l \in Levels : Path[leaf][l] = b) * BucketSize + j] \in Block
  <2>1. (CHOOSE l \in Levels : Path[leaf][l] = b) \in Levels
    BY <1>1 DEF OnPath
  <2>2. (CHOOSE l \in Levels : Path[leaf][l] = b) * BucketSize + j \in Slots
    BY <2>1, OffsetInFront, FrontInSlots
  <2> QED
    BY <2>2
<1>2. \A b \in Buckets : \A j \in Places : tree[b][j] \in Block
  BY DEF TypeOK
<1> QED
  BY <1>1, <1>2, ClearedType

THEOREM TypeCorrect == Spec => []TypeOK
<1>1. Init => TypeOK
  BY ZeroBlockType, ResetTypes, FrontInSlots, PathAssumption
  DEF Init, TypeOK, PosMapEntry
<1>2. TypeOK /\ [Next]_vars => TypeOK'
  <2> SUFFICES ASSUME TypeOK, [Next]_vars PROVE TypeOK'
    OBVIOUS
  <2>1. CASE Init_ORAM
    <3>1. [b \in Buckets |-> [j \in Places |-> ZeroBlock]] \in [Buckets -> [Places -> Block]]
      BY ZeroBlockType
    <3>2. tree' \in [Buckets -> [Places -> Block]]
      BY <2>1, <3>1, InitTreeType DEF Init_ORAM, TypeOK
    <3>3. posmap' \in [Ids -> PosMapEntry] /\ stash' \in [Slots -> Block]
      BY <2>1, ZeroBlockType, PathAssumption DEF Init_ORAM, PosMapEntry
    <3> QED
      BY <2>1, <3>2, <3>3 DEF Init_ORAM, TypeOK
  <2>2. CASE Free_ORAM
    BY <2>2 DEF Free_ORAM, TypeOK
  <2>3. ASSUME NEW op \in {READ, WRITE}, NEW id \in Ids,
               NEW data \in Values \cup {NoValue},
               NEW random_leaf \in Leaves, NEW new_leaf \in Leaves,
               Access_ORAM(op, id, data, random_leaf, new_leaf)
        PROVE  TypeOK'
    <3>1. AccessLeaf(id, random_leaf) \in Leaves
      BY DEF AccessLeaf, TypeOK, PosMapEntry
    <3>2. posmap' \in [Ids -> PosMapEntry]
      BY <2>3 DEF Access_ORAM, Relabel, TypeOK, PosMapEntry
    <3>3. /\ pc' \in {"fetch", "aborted"}
          /\ call' \in Call \cup {NoCall}
          /\ pc' = "fetch" => call' \in Call
      <4>1. CASE op = READ /\ ~ posmap[id].valid
        BY <2>3, <4>1 DEF Access_ORAM, TypeOK
      <4>2. CASE ~ (op = READ /\ ~ posmap[id].valid)
        <5>1. /\ pc' = "fetch"
              /\ call' = [op |-> op, id |-> id, new_leaf |-> new_leaf,
                          access_leaf |-> AccessLeaf(id, random_leaf),
                          if_new_data |-> ~ posmap[id].valid]
          BY <2>3, <4>2 DEF Access_ORAM
        <5>2. (~ posmap[id].valid) \in BOOLEAN
          OBVIOUS
        <5>3. call' \in Call
          BY <3>1, <5>1, <5>2 DEF Call
        <5> QED
          BY <5>1, <5>3
      <4> QED
        BY <4>1, <4>2
    <3> QED
      BY <2>3, <3>2, <3>3 DEF Access_ORAM, TypeOK
  <2>4. CASE Access_BadId
    BY <2>4 DEF Access_BadId, TypeOK
  <2>5. CASE Fetch_Blocks
    <3>1. call \in Call /\ call.access_leaf \in Leaves /\ call.id \in Ids
      BY <2>5 DEF Fetch_Blocks, TypeOK, Call
    <3> DEFINE s == Fetched(call.access_leaf)
    <3>2. s \in [Slots -> Block] /\ tree' \in [Buckets -> [Places -> Block]]
      BY <2>5, <3>1, FetchedType DEF Fetch_Blocks
    <3>3. stash' \in [Slots -> Block]
      BY <2>5, <3>1, <3>2, ScannedType DEF Fetch_Blocks, TypeOK
    <3>4. data_ptr' \in Values \cup {NoValue}
      BY <2>5, <3>1, <3>2 DEF Fetch_Blocks, ReadOut, Matches, TypeOK, Block
    <3>5. written' \in [Ids -> Values \cup {NoValue}]
      BY <2>5, <3>1 DEF Fetch_Blocks, TypeOK
    <3> QED
      BY <2>5, <3>1, <3>2, <3>3, <3>4, <3>5 DEF Fetch_Blocks, TypeOK
  <2>6. CASE AssignSlot
    <3>1. PICK level \in Levels \cup {-1} :
            LET cond   == stash[slot].valid /\ level > -1
                offset == level * BucketSize + occupied[level]
            IN  /\ IsDeepestFree(level, Path[call.access_leaf],
                                 Path[stash[slot].leaf], occupied, BucketSize)
                /\ wb_path' = IF level > -1
                              THEN [wb_path EXCEPT ![offset] = IF cond THEN slot ELSE 0]
                              ELSE wb_path
                /\ occupied' = IF cond THEN [occupied EXCEPT ![level] = @ + 1]
                               ELSE occupied
                /\ key' = [key EXCEPT ![slot] = IF cond THEN offset ELSE max_int]
      BY <2>6 DEF AssignSlot
    <3>2. level > -1 => level \in Levels /\ occupied[level] \in Places
      BY <3>1, SizeAssumption DEF IsDeepestFree, FreeShared, Levels, Places, TypeOK
    <3>3. level > -1 => level * BucketSize + occupied[level] \in Front
      BY <3>2, OffsetInFront
    <3>4. wb_path' \in [Front -> Slots \cup {-1}]
      BY <3>1, FrontInSlots DEF TypeOK
    <3>5. occupied' \in [Levels -> 0 .. BucketSize]
      BY <3>1, <3>2, SizeAssumption DEF TypeOK, Places
    <3>6. key' \in [Slots -> Front \cup {max_int}]
      BY <3>1, <3>3 DEF TypeOK
    <3>7. slot' \in Slots /\ pc' \in {"assign", "writeback"}
      BY <2>6, SizeAssumption DEF AssignSlot, TypeOK, Slots
    <3> QED
      BY <2>6, <3>4, <3>5, <3>6, <3>7 DEF AssignSlot, TypeOK
  <2>7. CASE WriteBack
    <3>1. PICK sorted \in SortOutputs(SortInput(ExtraKey)) :
            LET s == [i \in Slots |-> stash[sorted[i].from]]
            IN  /\ Sorts(SortInput(ExtraKey), sorted)
                /\ tree' = [b \in Buckets |-> [j \in Places |->
                       IF OnPath(call.access_leaf, b)
                       THEN s[(CHOOSE l \in Levels : Path[call.access_leaf][l] = b)
                                  * BucketSize + j]
                       ELSE tree[b][j]]]
                /\ stash' = [i \in Slots |-> IF i \in Front THEN Cleared(s[i]) ELSE s[i]]
      BY <2>7 DEF WriteBack
    <3> DEFINE s == [i \in Slots |-> stash[sorted[i].from]]
    <3>2. s \in [Slots -> Block]
      BY <3>1 DEF Sorts, TypeOK
    <3>3. call.access_leaf \in Leaves
      BY <2>7 DEF WriteBack, TypeOK, Call
    <3> HIDE DEF s
    <3>4. tree' \in [Buckets -> [Places -> Block]] /\ stash' \in [Slots -> Block]
      BY <3>1, <3>2, <3>3, WriteBackType DEF s
    <3> QED
      BY <2>7, <3>4, ResetTypes DEF WriteBack, TypeOK
  <2>8. CASE UNCHANGED vars
    BY <2>8 DEF vars, TypeOK
  <2>9. CASE Aborted
    BY <2>9 DEF Aborted, vars, TypeOK
  <2> QED
    BY <2>1, <2>2, <2>3, <2>4, <2>5, <2>6, <2>7, <2>8, <2>9 DEF Next
<1> QED
  BY <1>1, <1>2, PTL DEF Spec

---------------------------------------------------------------------------
(* One valid copy of a block. *)

\* OneCopy alone is not inductive: that Fetch_Blocks may create a block of an id
\* depends on the position map entry Retrieve_LeafLabel has read.
CopyInv == TypeOK /\ OneCopy /\ PosMapKnows

\* Memory whose blocks are all invalid stays so when Init_ORAM_Tree is done.
LEMMA InitTreeEmpty ==
    LET zeroed == InitTree([b \in Buckets |-> [j \in Places |-> ZeroBlock]])
    IN  \A b \in Buckets, j \in Places : ~ zeroed[b][j].valid
<1> DEFINE zero == [b \in Buckets |-> [j \in Places |-> ZeroBlock]]
<1>1. zero \in [Buckets -> [Places -> Block]]
  BY ZeroBlockType
<1>2. \A b \in Buckets, j \in Places :
         \/ InitTree(zero)[b][j] = ZeroBlock
         \/ InitTree(zero)[b][j] = Cleared(ZeroBlock)
  BY DEF InitTree
<1>3. ~ ZeroBlock.valid /\ ~ Cleared(ZeroBlock).valid
  BY DEF ZeroBlock, Cleared
<1> QED
  BY <1>2, <1>3

\* A valid slot of the fetched stash is a place of the path, and two such slots
\* are two places, or it is a slot behind the front, which is as it was.
LEMMA FetchedFrom ==
    ASSUME TypeOK, NEW leaf \in Leaves, NEW i \in Slots
    PROVE  /\ i \in Front =>
                /\ i \div BucketSize \in Levels /\ i % BucketSize \in Places
                /\ Path[leaf][i \div BucketSize] \in Buckets
                /\ OnPath(leaf, Path[leaf][i \div BucketSize])
                /\ Fetched(leaf)[i]
                     = tree[Path[leaf][i \div BucketSize]][i % BucketSize]
           /\ i \notin Front => Fetched(leaf)[i] = stash[i]
<1>1. ASSUME i \in Front
      PROVE  i \div BucketSize \in Levels /\ i % BucketSize \in Places
  BY <1>1, FrontIsOffset
<1>2. ASSUME i \in Front
      PROVE  Path[leaf][i \div BucketSize] \in Buckets
  BY <1>1, <1>2, PathAssumption, SizeAssumption DEF Buckets
<1> QED
  BY <1>1, <1>2 DEF Fetched, PathBlock, OnPath

\* A place of the emptied tree is invalid or is off the path and as it was.
LEMMA EmptiedFrom ==
    ASSUME TypeOK, NEW leaf \in Leaves, NEW b \in Buckets, NEW j \in Places,
           EmptiedPath(leaf)[b][j].valid
    PROVE  ~ OnPath(leaf, b) /\ EmptiedPath(leaf)[b][j] = tree[b][j]
<1>1. \A block \in Block : ~ Cleared(block).valid
  BY DEF Cleared, Block
<1>2. tree[b][j] \in Block
  BY DEF TypeOK
<1> QED
  BY <1>1, <1>2 DEF EmptiedPath

\* Fetching a path makes no copy: the blocks of the path are moved.
LEMMA FetchKeepsOneCopy ==
    ASSUME TypeOK, OneCopy, pc # "free", NEW leaf \in Leaves
    PROVE  /\ \A i1, i2 \in Slots :
                /\ Fetched(leaf)[i1].valid /\ Fetched(leaf)[i2].valid
                /\ Fetched(leaf)[i1].id = Fetched(leaf)[i2].id
                => i1 = i2
           /\ \A b1, b2 \in Buckets, j1, j2 \in Places :
                /\ EmptiedPath(leaf)[b1][j1].valid /\ EmptiedPath(leaf)[b2][j2].valid
                /\ EmptiedPath(leaf)[b1][j1].id = EmptiedPath(leaf)[b2][j2].id
                => b1 = b2 /\ j1 = j2
           /\ \A b \in Buckets, j \in Places, i \in Slots :
                ~ /\ EmptiedPath(leaf)[b][j].valid /\ Fetched(leaf)[i].valid
                  /\ EmptiedPath(leaf)[b][j].id = Fetched(leaf)[i].id
<1>1. ASSUME NEW i1 \in Slots, NEW i2 \in Slots,
             Fetched(leaf)[i1].valid, Fetched(leaf)[i2].valid,
             Fetched(leaf)[i1].id = Fetched(leaf)[i2].id
      PROVE  i1 = i2
  <2>1. CASE i1 \in Front /\ i2 \in Front
    <3>1. /\ Path[leaf][i1 \div BucketSize] = Path[leaf][i2 \div BucketSize]
          /\ i1 % BucketSize = i2 % BucketSize
      BY <1>1, <2>1, FetchedFrom DEF OneCopy
    <3>2. i1 \div BucketSize = i2 \div BucketSize
      BY <2>1, <3>1, FetchedFrom, PathAssumption
    <3> QED
      BY <2>1, <3>1, <3>2, FrontIsOffset
  <2>2. CASE i1 \in Front /\ i2 \notin Front
    BY <1>1, <2>2, FetchedFrom DEF OneCopy
  <2>3. CASE i1 \notin Front /\ i2 \in Front
    BY <1>1, <2>3, FetchedFrom DEF OneCopy
  <2>4. CASE i1 \notin Front /\ i2 \notin Front
    BY <1>1, <2>4, FetchedFrom DEF OneCopy
  <2> QED
    BY <2>1, <2>2, <2>3, <2>4
<1>2. ASSUME NEW b1 \in Buckets, NEW b2 \in Buckets, NEW j1 \in Places, NEW j2 \in Places,
             EmptiedPath(leaf)[b1][j1].valid, EmptiedPath(leaf)[b2][j2].valid,
             EmptiedPath(leaf)[b1][j1].id = EmptiedPath(leaf)[b2][j2].id
      PROVE  b1 = b2 /\ j1 = j2
  BY <1>2, EmptiedFrom DEF OneCopy
<1>3. ASSUME NEW b \in Buckets, NEW j \in Places, NEW i \in Slots,
             EmptiedPath(leaf)[b][j].valid, Fetched(leaf)[i].valid,
             EmptiedPath(leaf)[b][j].id = Fetched(leaf)[i].id
      PROVE  FALSE
  <2>1. ~ OnPath(leaf, b) /\ EmptiedPath(leaf)[b][j] = tree[b][j]
    BY <1>3, EmptiedFrom
  <2>2. CASE i \in Front
    BY <1>3, <2>1, <2>2, FetchedFrom DEF OneCopy
  <2>3. CASE i \notin Front
    BY <1>3, <2>1, <2>3, FetchedFrom DEF OneCopy
  <2> QED
    BY <2>2, <2>3
<1> QED
  BY <1>1, <1>2, <1>3

\* The scan of Fetch_Blocks keeps each valid slot's id and adds at most one valid
\* slot, for an id taken to be new.
LEMMA ScannedFrom ==
    ASSUME NEW s \in [Slots -> Block], NEW c \in Call,
           NEW data \in Values \cup {NoValue}, NEW i \in Slots,
           Scanned(s, c, data)[i].valid
    PROVE  \/ s[i].valid /\ Scanned(s, c, data)[i].id = s[i].id
           \/ /\ c.if_new_data /\ NewBlockSlot(s, i)
              /\ Scanned(s, c, data)[i].id = c.id
BY DEF Scanned, Block, Call, Matches

\* There is one first slot that is not valid.
LEMMA NewBlockSlotUnique ==
    ASSUME NEW s, NEW i1 \in Slots, NEW i2 \in Slots,
           NewBlockSlot(s, i1), NewBlockSlot(s, i2)
    PROVE  i1 = i2
<1>1. ~ (i1 < i2) /\ ~ (i2 < i1)
  BY DEF NewBlockSlot, Slots
<1> QED
  BY <1>1 DEF Slots

\* Fetch_Blocks: what the path held is moved, and a block is created only for an
\* id that has none.
LEMMA FetchBlocksCopyInv ==
    ASSUME CopyInv, Fetch_Blocks
    PROVE  OneCopy' /\ PosMapKnows'
<1> DEFINE s == Fetched(call.access_leaf)
           e == EmptiedPath(call.access_leaf)
<1>1. call \in Call /\ call.access_leaf \in Leaves /\ call.id \in Ids /\ TypeOK
      /\ data_ptr \in Values \cup {NoValue}
  BY DEF Fetch_Blocks, CopyInv, TypeOK, Call
<1>2. s \in [Slots -> Block] /\ e \in [Buckets -> [Places -> Block]]
  BY <1>1, FetchedType
<1>3. tree' = e /\ stash' = Scanned(s, call, data_ptr) /\ posmap' = posmap
      /\ pc = "fetch" /\ pc' = "assign"
  BY DEF Fetch_Blocks
<1>4. /\ \A i1, i2 \in Slots :
           s[i1].valid /\ s[i2].valid /\ s[i1].id = s[i2].id => i1 = i2
      /\ \A b1, b2 \in Buckets, j1, j2 \in Places :
           e[b1][j1].valid /\ e[b2][j2].valid /\ e[b1][j1].id = e[b2][j2].id
           => b1 = b2 /\ j1 = j2
      /\ \A b \in Buckets, j \in Places, i \in Slots :
           ~ (e[b][j].valid /\ s[i].valid /\ e[b][j].id = s[i].id)
  BY <1>1, <1>3, FetchKeepsOneCopy DEF CopyInv
<1>5. ASSUME NEW b \in Buckets, NEW j \in Places, e[b][j].valid
      PROVE  /\ e[b][j].id \in Ids /\ posmap[e[b][j].id].valid
             /\ call.if_new_data => e[b][j].id # call.id
  BY <1>1, <1>3, <1>5, EmptiedFrom DEF CopyInv, PosMapKnows
<1>6. ASSUME NEW i \in Slots, s[i].valid
      PROVE  /\ s[i].id \in Ids /\ posmap[s[i].id].valid
             /\ call.if_new_data => s[i].id # call.id
  <2>1. CASE i \in Front
    BY <1>1, <1>3, <1>6, <2>1, FetchedFrom DEF CopyInv, PosMapKnows
  <2>2. CASE i \notin Front
    BY <1>1, <1>3, <1>6, <2>2, FetchedFrom DEF CopyInv, PosMapKnows
  <2> QED
    BY <2>1, <2>2
<1>7. posmap[call.id].valid
  BY <1>3 DEF CopyInv, PosMapKnows
<1> HIDE DEF s, e
<1>8. ASSUME NEW i \in Slots, stash'[i].valid
      PROVE  \/ s[i].valid /\ stash'[i].id = s[i].id
             \/ call.if_new_data /\ NewBlockSlot(s, i) /\ stash'[i].id = call.id
  BY <1>1, <1>2, <1>3, <1>8, ScannedFrom
<1>9. OneCopy'
  <2>1. ASSUME NEW i1 \in Slots, NEW i2 \in Slots, stash'[i1].valid, stash'[i2].valid,
               stash'[i1].id = stash'[i2].id
        PROVE  i1 = i2
    <3>1. CASE s[i1].valid /\ stash'[i1].id = s[i1].id
               /\ s[i2].valid /\ stash'[i2].id = s[i2].id
      BY <1>4, <2>1, <3>1
    <3>2. CASE NewBlockSlot(s, i1) /\ NewBlockSlot(s, i2)
      BY <3>2, NewBlockSlotUnique
    <3> QED
      BY <1>6, <1>8, <2>1, <3>1, <3>2
  <2>2. ASSUME NEW b \in Buckets, NEW j \in Places, NEW i \in Slots,
               e[b][j].valid, stash'[i].valid, e[b][j].id = stash'[i].id
        PROVE  FALSE
    BY <1>4, <1>5, <1>8, <2>2
  <2> QED
    BY <1>3, <1>4, <2>1, <2>2 DEF OneCopy
<1>10. PosMapKnows'
  <2>1. ASSUME NEW i \in Slots, stash'[i].valid
        PROVE  stash'[i].id \in Ids /\ posmap[stash'[i].id].valid
    BY <1>1, <1>6, <1>7, <1>8, <2>1
  <2> QED
    BY <1>3, <1>5, <2>1 DEF PosMapKnows
<1> QED
  BY <1>9, <1>10

\* Store_Blocks: the sort reorders the slots, the front is moved to the path.
LEMMA WriteBackCopyInv ==
    ASSUME CopyInv, WriteBack
    PROVE  OneCopy' /\ PosMapKnows'
<1>1. PICK sorted \in SortOutputs(SortInput(ExtraKey)) :
        LET s == [i \in Slots |-> stash[sorted[i].from]]
        IN  /\ Sorts(SortInput(ExtraKey), sorted)
            /\ tree' = [b \in Buckets |-> [j \in Places |->
                   IF OnPath(call.access_leaf, b)
                   THEN s[(CHOOSE l \in Levels : Path[call.access_leaf][l] = b)
                              * BucketSize + j]
                   ELSE tree[b][j]]]
            /\ stash' = [i \in Slots |-> IF i \in Front THEN Cleared(s[i]) ELSE s[i]]
  BY DEF WriteBack
<1> DEFINE s      == [i \in Slots |-> stash[sorted[i].from]]
           at(b)  == CHOOSE l \in Levels : Path[call.access_leaf][l] = b
           on(b)  == OnPath(call.access_leaf, b)
           off(b, j) == at(b) * BucketSize + j
<1>2. /\ pc = "writeback" /\ pc' = "idle" /\ posmap' = posmap
      /\ call.access_leaf \in Leaves /\ TypeOK
  BY DEF WriteBack, CopyInv, TypeOK, Call
<1>3. /\ \A i \in Slots : sorted[i].from \in Slots
      /\ \A i1, i2 \in Slots : sorted[i1].from = sorted[i2].from => i1 = i2
  BY <1>1 DEF Sorts
<1>4. /\ s \in [Slots -> Block]
      /\ \A i1, i2 \in Slots :
           s[i1].valid /\ s[i2].valid /\ s[i1].id = s[i2].id => i1 = i2
      /\ \A b \in Buckets, j \in Places, i \in Slots :
           ~ (tree[b][j].valid /\ s[i].valid /\ tree[b][j].id = s[i].id)
      /\ \A i \in Slots : s[i].valid => s[i].id \in Ids /\ posmap[s[i].id].valid
  BY <1>2, <1>3 DEF CopyInv, OneCopy, PosMapKnows, TypeOK
<1>5. /\ tree' = [b \in Buckets |-> [j \in Places |->
                    IF on(b) THEN s[off(b, j)] ELSE tree[b][j]]]
      /\ stash' = [i \in Slots |-> IF i \in Front THEN Cleared(s[i]) ELSE s[i]]
  BY <1>1
<1>6. ASSUME NEW b \in Buckets, on(b)
      PROVE  at(b) \in Levels /\ Path[call.access_leaf][at(b)] = b
  BY <1>6 DEF OnPath
<1>7. ASSUME NEW b \in Buckets, NEW j \in Places, on(b)
      PROVE  off(b, j) \in Front /\ off(b, j) \in Slots
  BY <1>6, <1>7, OffsetInFront, FrontInSlots
<1>8. ASSUME NEW b1 \in Buckets, NEW b2 \in Buckets, NEW j1 \in Places, NEW j2 \in Places,
             on(b1), on(b2), off(b1, j1) = off(b2, j2)
      PROVE  b1 = b2 /\ j1 = j2
  <2>1. at(b1) = at(b2) /\ j1 = j2
    BY <1>6, <1>8, OffsetInjective
  <2> QED
    BY <1>6, <1>8, <2>1
<1> HIDE DEF s, at, on, off
<1>9. ASSUME NEW i \in Slots, stash'[i].valid
      PROVE  i \notin Front /\ stash'[i] = s[i]
  <2>1. ~ Cleared(s[i]).valid
    BY <1>4 DEF Cleared, Block
  <2> QED
    BY <1>5, <1>9, <2>1
<1>10. \A b \in Buckets, j \in Places :
          tree'[b][j] = IF on(b) THEN s[off(b, j)] ELSE tree[b][j]
  BY <1>5
<1>11. OneCopy'
  <2>1. ASSUME NEW b1 \in Buckets, NEW b2 \in Buckets, NEW j1 \in Places,
               NEW j2 \in Places, tree'[b1][j1].valid, tree'[b2][j2].valid,
               tree'[b1][j1].id = tree'[b2][j2].id
        PROVE  b1 = b2 /\ j1 = j2
    <3>1. CASE on(b1) /\ on(b2)
      BY <1>4, <1>7, <1>8, <1>10, <2>1, <3>1
    <3>2. CASE on(b1) /\ ~ on(b2)
      BY <1>4, <1>7, <1>10, <2>1, <3>2
    <3>3. CASE ~ on(b1) /\ on(b2)
      BY <1>4, <1>7, <1>10, <2>1, <3>3
    <3>4. CASE ~ on(b1) /\ ~ on(b2)
      BY <1>2, <1>10, <2>1, <3>4 DEF CopyInv, OneCopy
    <3> QED
      BY <3>1, <3>2, <3>3, <3>4
  <2>2. ASSUME NEW b \in Buckets, NEW j \in Places, NEW i \in Slots,
               tree'[b][j].valid, stash'[i].valid, tree'[b][j].id = stash'[i].id
        PROVE  FALSE
    <3>1. i \notin Front /\ stash'[i] = s[i]
      BY <1>9, <2>2
    <3>2. CASE on(b)
      BY <1>4, <1>7, <1>10, <2>2, <3>1, <3>2
    <3>3. CASE ~ on(b)
      BY <1>4, <1>10, <2>2, <3>1, <3>3
    <3> QED
      BY <3>2, <3>3
  <2>3. ASSUME NEW i1 \in Slots, NEW i2 \in Slots, stash'[i1].valid, stash'[i2].valid,
               stash'[i1].id = stash'[i2].id
        PROVE  i1 = i2
    BY <1>4, <1>9, <2>3
  <2> QED
    BY <2>1, <2>2, <2>3 DEF OneCopy
<1>12. PosMapKnows'
  <2>1. ASSUME NEW b \in Buckets, NEW j \in Places, tree'[b][j].valid
        PROVE  tree'[b][j].id \in Ids /\ posmap[tree'[b][j].id].valid
    <3>1. CASE on(b)
      BY <1>4, <1>7, <1>10, <2>1, <3>1
    <3>2. CASE ~ on(b)
      BY <1>2, <1>10, <2>1, <3>2 DEF CopyInv, PosMapKnows
    <3> QED
      BY <3>1, <3>2
  <2> QED
    BY <1>2, <1>4, <1>9, <2>1 DEF PosMapKnows
<1> QED
  BY <1>11, <1>12

\* When the tree's memory is zeroed, no sequence of calls makes two valid copies
\* of a block, and the position map knows every valid block.  The stash may
\* overflow: losing a block makes no copy.
THEOREM OneCopyAlways ==
    ASSUME TRUE \notin MallocRecycles
    PROVE  Spec => [](OneCopy /\ PosMapKnows)
<1>1. Init => OneCopy /\ PosMapKnows
  BY DEF Init, OneCopy, PosMapKnows
<1>2. CopyInv /\ TypeOK' /\ [Next]_vars => OneCopy' /\ PosMapKnows'
  <2> SUFFICES ASSUME CopyInv, [Next]_vars PROVE OneCopy' /\ PosMapKnows'
    OBVIOUS
  <2>1. CASE Init_ORAM
    <3>1. /\ \A b \in Buckets, j \in Places : ~ tree'[b][j].valid
          /\ pc' = "idle"
      BY <2>1, InitTreeEmpty, SizeAssumption DEF Init_ORAM
    <3>2. \A i \in Slots : ~ stash'[i].valid
      BY <2>1 DEF Init_ORAM, ZeroBlock
    <3> QED
      BY <3>1, <3>2 DEF OneCopy, PosMapKnows
  <2>2. CASE Free_ORAM
    BY <2>2 DEF Free_ORAM, OneCopy, PosMapKnows
  <2>3. ASSUME NEW op, NEW id \in Ids, NEW data,
               NEW random_leaf \in Leaves, NEW new_leaf \in Leaves,
               Access_ORAM(op, id, data, random_leaf, new_leaf)
        PROVE  OneCopy' /\ PosMapKnows'
    <3>1. pc = "idle" /\ pc' \in {"fetch", "aborted"} /\ tree' = tree /\ stash' = stash
      BY <2>3 DEF Access_ORAM
    <3>2. \A i \in Ids : posmap[i].valid => posmap'[i].valid
      BY <2>3 DEF Access_ORAM, Relabel, CopyInv, TypeOK, PosMapEntry
    <3>3. posmap'[id].valid
      BY <2>3 DEF Access_ORAM, Relabel, CopyInv, TypeOK, PosMapEntry
    <3>4. pc' = "fetch" => call'.id = id /\ call'.if_new_data = (~ posmap[id].valid)
      BY <2>3 DEF Access_ORAM
    <3>5. OneCopy'
      BY <3>1 DEF CopyInv, OneCopy
    <3>6. PosMapKnows'
      BY <3>1, <3>2, <3>3, <3>4 DEF CopyInv, PosMapKnows
    <3> QED
      BY <3>5, <3>6
  <2>4. CASE Access_BadId
    BY <2>4 DEF Access_BadId, CopyInv, OneCopy, PosMapKnows
  <2>5. CASE Fetch_Blocks
    BY <2>5, FetchBlocksCopyInv
  <2>6. CASE AssignSlot
    BY <2>6 DEF AssignSlot, CopyInv, OneCopy, PosMapKnows
  <2>7. CASE WriteBack
    BY <2>7, WriteBackCopyInv
  <2>8. CASE UNCHANGED vars
    BY <2>8 DEF vars, CopyInv, OneCopy, PosMapKnows
  <2>9. CASE Aborted
    BY <2>9 DEF Aborted, vars, CopyInv, OneCopy, PosMapKnows
  <2> QED
    BY <2>1, <2>2, <2>3, <2>4, <2>5, <2>6, <2>7, <2>8, <2>9 DEF Next
<1> QED
  BY <1>1, <1>2, TypeCorrect, PTL DEF Spec, CopyInv

---------------------------------------------------------------------------
(* The Path ORAM invariant: when the stash has room for every id behind a  *)
(* path, each valid block of the tree lies on the path of its label.       *)
(* Where a block is written depends on how many slots sort before it, so   *)
(* the proof counts sort keys.                                             *)

\* The slots the loop of Store_Blocks has been through.
Done == IF pc = "assign" THEN 0 .. (slot - 1)
        ELSE IF pc = "writeback" THEN Slots ELSE {}

\* What the loop has established for them: an invalid slot has no place; the place
\* of a valid one is in a bucket its own path shares with the accessed path, below
\* the number of blocks assigned to that bucket, and is taken in wb_path; no two
\* have the same place.
Assigned ==
    /\ pc # "assign" => slot = 0
    /\ \A i \in Done : ~ stash[i].valid => key[i] = max_int
    /\ \A i \in Done : stash[i].valid /\ key[i] \in Front =>
         /\ Path[call.access_leaf][key[i] \div BucketSize]
              = Path[stash[i].leaf][key[i] \div BucketSize]
         /\ key[i] % BucketSize < occupied[key[i] \div BucketSize]
         /\ wb_path[key[i]] # -1
    /\ \A i1, i2 \in Done : key[i1] = key[i2] /\ key[i1] \in Front => i1 = i2

\* Between the two phases of a call the position map holds its new label.
NewLabel == pc = "fetch" => posmap[call.id].leaf = call.new_leaf

PathInv == CopyInv /\ OnItsPath /\ Assigned /\ NewLabel

\* Behind a path the stash has room for every id.
RoomForAll == IsFiniteSet(Ids) /\ Cardinality(Ids) <= StashSize - PathLen

---------------------------------------------------------------------------
(* Arithmetic and counting. *)

\* max_int is no offset of a path.
LEMMA MaxIntNotFront ==
    max_int \notin Front /\ max_int \in Nat /\ \A o \in Front : o < max_int
<1>1. \A o \in Slots : o < max_int
  BY SizeAssumption, SMT DEF Slots, max_int
<1>2. max_int \in Nat /\ ~ (max_int < max_int)
  BY SMT DEF max_int
<1> QED
  BY <1>1, <1>2, FrontInSlots

\* Level and place of an offset.
LEMMA OffsetParts ==
    ASSUME NEW l \in Levels, NEW j \in Places
    PROVE  /\ (l * BucketSize + j) \div BucketSize = l
           /\ (l * BucketSize + j) % BucketSize = j
<1> DEFINE k == l * BucketSize + j
<1>1. k \in Front
  BY OffsetInFront
<1>2. /\ k \div BucketSize \in Levels /\ k % BucketSize \in Places
      /\ k = (k \div BucketSize) * BucketSize + (k % BucketSize)
  BY <1>1, FrontIsOffset
<1> HIDE DEF k
<1>3. k = l * BucketSize + j
  BY DEF k
<1>4. k \div BucketSize = l /\ k % BucketSize = j
  BY <1>2, <1>3, OffsetInjective
<1> QED
  BY <1>4 DEF k

\* A lower offset is in no deeper a level.
LEMMA LevelMonotone ==
    ASSUME NEW p \in Front, NEW k \in Front, p <= k
    PROVE  p \div BucketSize <= k \div BucketSize
<1>1. /\ p \div BucketSize \in Levels /\ p % BucketSize \in Places
      /\ p = (p \div BucketSize) * BucketSize + (p % BucketSize)
      /\ k \div BucketSize \in Levels /\ k % BucketSize \in Places
      /\ k = (k \div BucketSize) * BucketSize + (k % BucketSize)
  BY FrontIsOffset
<1> DEFINE a == p \div BucketSize
           b == k \div BucketSize
           ra == p % BucketSize
           rb == k % BucketSize
<1>2. /\ a \in Nat /\ b \in Nat /\ ra \in 0 .. (BucketSize - 1)
      /\ rb \in 0 .. (BucketSize - 1) /\ a * BucketSize + ra <= b * BucketSize + rb
  BY <1>1 DEF Levels, Places
<1> HIDE DEF a, b, ra, rb
<1>3. ~ (b < a)
  <2> SUFFICES ASSUME b < a PROVE FALSE
    OBVIOUS
  <2>1. (a - b - 1) * BucketSize >= 0
    BY <1>2, SizeAssumption
  <2>2. a * BucketSize = (a - b - 1) * BucketSize + b * BucketSize + BucketSize
    BY <1>2, SizeAssumption
  <2> QED
    BY <1>2, <2>1, <2>2, SizeAssumption
<1> QED
  BY <1>2, <1>3 DEF a, b

\* In an ascending array whose small keys are distinct naturals, a key is at least
\* as large as its position.
LEMMA KeyBoundsRank ==
    ASSUME NEW f \in [Slots -> Int], NEW p \in Slots, f[p] \in Nat,
           \A q \in 0 .. p : f[q] >= 0 /\ f[q] <= f[p],
           \A q1, q2 \in 0 .. p : f[q1] = f[q2] => q1 = q2
    PROVE  p <= f[p]
<1> SUFFICES ASSUME f[p] < p PROVE FALSE
  BY DEF Slots
<1> DEFINE g == [q \in 0 .. p |-> f[q]]
<1>1. p \in Nat /\ 0 .. p \subseteq Slots
  BY SizeAssumption DEF Slots
<1>2. g \in [0 .. p -> 0 .. f[p]]
  BY <1>1
<1>3. /\ IsFiniteSet(0 .. p) /\ Cardinality(0 .. p) = p + 1
      /\ IsFiniteSet(0 .. f[p]) /\ Cardinality(0 .. f[p]) = f[p] + 1
  BY <1>1, FS_Interval
<1>4. Cardinality(0 .. f[p]) < Cardinality(0 .. p)
  BY <1>1, <1>3
<1>5. \A x, y \in 0 .. p : g[x] = g[y] => x = y
  OBVIOUS
<1> HIDE DEF g
<1>6. \E x, y \in 0 .. p : x # y /\ g[x] = g[y]
  BY <1>2, <1>3, <1>4, FS_PigeonHole
<1> QED
  BY <1>5, <1>6

\* Valid slots with distinct ids, from position p to the last, are no more than the
\* ids.
LEMMA TailBoundsRank ==
    ASSUME IsFiniteSet(Ids), NEW s \in [Slots -> Block], NEW p \in Slots,
           \A q \in p .. (StashSize - 1) : s[q].valid /\ s[q].id \in Ids,
           \A q1, q2 \in Slots :
              s[q1].valid /\ s[q2].valid /\ s[q1].id = s[q2].id => q1 = q2
    PROVE  StashSize - p <= Cardinality(Ids)
<1> DEFINE tail == p .. (StashSize - 1)
<1>1. tail \subseteq Slots /\ p \in Nat /\ p <= StashSize - 1
  BY SizeAssumption DEF Slots
<1>2. IsFiniteSet(tail) /\ Cardinality(tail) = StashSize - p
  <2>1. StashSize - 1 \in Int /\ p \in Int
    BY <1>1, SizeAssumption
  <2>2. /\ IsFiniteSet(tail)
        /\ Cardinality(tail) = IF p > StashSize - 1 THEN 0 ELSE (StashSize - 1) - p + 1
    BY <2>1, FS_Interval
  <2> QED
    BY <1>1, <2>2, SizeAssumption
<1>3. Cardinality(Ids) \in Nat
  BY FS_CardinalityType
<1> SUFFICES ASSUME Cardinality(Ids) < StashSize - p PROVE FALSE
  BY <1>1, <1>3, SizeAssumption
<1> DEFINE g == [q \in tail |-> s[q].id]
<1>4. g \in [tail -> Ids]
  OBVIOUS
<1>5. \A x, y \in tail : g[x] = g[y] => x = y
  BY <1>1
<1>6. Cardinality(Ids) < Cardinality(tail)
  BY <1>2
<1> HIDE DEF g, tail
<1>7. \E x, y \in tail : x # y /\ g[x] = g[y]
  BY <1>2, <1>4, <1>6, FS_PigeonHole
<1> QED
  BY <1>5, <1>7

---------------------------------------------------------------------------
(* The keys handed to the sort. *)

\* The extra key goes to an invalid slot and is no valid slot's key, so that keys
\* below max_int are distinct.
LEMMA ExtraKeyFacts ==
    ASSUME TypeOK, Assigned, pc = "writeback"
    PROVE  /\ ExtraKey \in [Slots -> Front \cup {max_int}]
           /\ \A i \in Slots : stash[i].valid => ExtraKey[i] = key[i]
           /\ \A i1, i2 \in Slots :
                ExtraKey[i1] = ExtraKey[i2] /\ ExtraKey[i1] \in Front => i1 = i2
<1> DEFINE unassigned == {o \in Front : wb_path[o] = -1}
           last == CHOOSE o \in unassigned : \A q \in unassigned : q <= o
           extra(i) == unassigned # {} /\ NewBlockSlot(stash, i)
<1>1. unassigned # {} => last \in unassigned
  <2>1. PathLen - 1 \in Nat
    <3>1. PathLen \in Nat
      BY SizeAssumption DEF PathLen
    <3> QED
      BY <3>1, FrontInSlots DEF Front
  <2>2. unassigned # {} => \E o \in unassigned : \A q \in unassigned : q <= o
    BY <2>1, GreatestUpTo DEF Front
  <2> QED
    BY <2>2
<1>2. ExtraKey = [i \in Slots |-> IF extra(i) THEN last ELSE key[i]]
  BY DEF ExtraKey
<1>3. last \in unassigned => last \in Front /\ wb_path[last] = -1
  OBVIOUS
<1>4. \A i \in Slots : extra(i) => ~ stash[i].valid
  BY DEF NewBlockSlot
<1>5. \A i1, i2 \in Slots : extra(i1) /\ extra(i2) => i1 = i2
  BY NewBlockSlotUnique
<1>6. \A i \in Slots : extra(i) => last \in Front /\ wb_path[last] = -1
  BY <1>1, <1>3
<1> HIDE DEF extra, last, unassigned
<1>7. \A i \in Slots : ExtraKey[i] = IF extra(i) THEN last ELSE key[i]
  BY <1>2
<1>8. ExtraKey \in [Slots -> Front \cup {max_int}]
  BY <1>2, <1>6 DEF TypeOK
<1>9. \A i \in Slots : key[i] \in Front => wb_path[key[i]] # -1
  BY MaxIntNotFront DEF Assigned, Done
<1>10. ASSUME NEW i1 \in Slots, NEW i2 \in Slots,
              ExtraKey[i1] = ExtraKey[i2], ExtraKey[i1] \in Front
       PROVE  i1 = i2
  <2>1. CASE extra(i1) /\ extra(i2)
    BY <1>5, <2>1
  <2>2. CASE extra(i1) /\ ~ extra(i2)
    BY <1>6, <1>7, <1>9, <1>10, <2>2
  <2>3. CASE ~ extra(i1) /\ extra(i2)
    BY <1>6, <1>7, <1>9, <1>10, <2>3
  <2>4. CASE ~ extra(i1) /\ ~ extra(i2)
    BY <1>7, <1>10, <2>4 DEF Assigned, Done
  <2> QED
    BY <2>1, <2>2, <2>3, <2>4
<1> QED
  BY <1>4, <1>7, <1>8, <1>10

\* The sorted array holds the stash's keys, by key and then by validity.
LEMMA SortedKeys ==
    ASSUME TypeOK, Assigned, pc = "writeback",
           NEW sorted, Sorts(SortInput(ExtraKey), sorted)
    PROVE  /\ \A q \in Slots :
                /\ sorted[q].from \in Slots
                /\ sorted[q].key1 = ExtraKey[sorted[q].from]
                /\ sorted[q].key1 \in Front \cup {max_int}
                /\ sorted[q].key1 \in Int
                /\ sorted[q].key2 = IF stash[sorted[q].from].valid THEN 1 ELSE 0
           /\ \A i \in Slots : \E q \in Slots : sorted[q].from = i
           /\ \A q1, q2 \in Slots : sorted[q1].from = sorted[q2].from => q1 = q2
           /\ \A q1, q2 \in Slots : q1 < q2 =>
                /\ sorted[q1].key1 <= sorted[q2].key1
                /\ sorted[q1].key1 = sorted[q2].key1
                     => sorted[q1].key2 <= sorted[q2].key2
<1> DEFINE arr == SortInput(ExtraKey)
<1>1. \A i \in Slots : /\ arr[i].key1 = ExtraKey[i]
                       /\ arr[i].key2 = IF stash[i].valid THEN 1 ELSE 0
                       /\ arr[i].from = i
  BY DEF SortInput
<1>2. /\ \A q \in Slots : sorted[q] = arr[sorted[q].from]
      /\ \A i \in Slots : \E q \in Slots : sorted[q] = arr[i]
      /\ \A q \in Slots : sorted[q] \in [key1 : Int, key2 : Int, from : Slots]
      /\ \A q1, q2 \in Slots : sorted[q1].from = sorted[q2].from => q1 = q2
      /\ DOMAIN sorted = Slots
  BY DEF Sorts
<1> HIDE DEF arr
<1>3. ASSUME NEW q \in Slots
      PROVE  /\ sorted[q].from \in Slots
             /\ sorted[q].key1 = ExtraKey[sorted[q].from]
             /\ sorted[q].key1 \in Int
             /\ sorted[q].key2 = IF stash[sorted[q].from].valid THEN 1 ELSE 0
  <2>1. /\ sorted[q] = arr[sorted[q].from]
        /\ sorted[q].from \in Slots /\ sorted[q].key1 \in Int
    BY <1>2
  <2>2. arr[sorted[q].from].key1 = ExtraKey[sorted[q].from]
    BY <1>1, <2>1
  <2>3. arr[sorted[q].from].key2 = IF stash[sorted[q].from].valid THEN 1 ELSE 0
    BY <1>1, <2>1
  <2> QED
    BY <2>1, <2>2, <2>3
<1>4. ASSUME NEW q \in Slots PROVE sorted[q].key1 \in Front \cup {max_int}
  BY <1>3, ExtraKeyFacts
<1>5. ASSUME NEW i \in Slots PROVE \E q \in Slots : sorted[q].from = i
  <2>1. PICK q \in Slots : sorted[q] = arr[i]
    BY <1>2
  <2>2. arr[i].from = i
    BY <1>1
  <2> QED
    BY <2>1, <2>2
<1>6. ASSUME NEW q1 \in Slots, NEW q2 \in Slots, q1 < q2
      PROVE  /\ sorted[q1].key1 <= sorted[q2].key1
             /\ sorted[q1].key1 = sorted[q2].key1
                  => sorted[q1].key2 <= sorted[q2].key2
  <2>1. ~ Before(sorted[q2], sorted[q1], ASCENDING, ASCENDING)
    BY <1>2, <1>6 DEF Sorts, InOrder
  <2>2. ~ (sorted[q2].key1 < sorted[q1].key1)
    BY <2>1 DEF Before, ASCENDING
  <2>3. sorted[q1].key1 = sorted[q2].key1 => ~ (sorted[q2].key2 < sorted[q1].key2)
    BY <2>1 DEF Before, ASCENDING
  <2>4. /\ sorted[q1].key1 \in Int /\ sorted[q1].key2 \in Int
        /\ sorted[q2].key1 \in Int /\ sorted[q2].key2 \in Int
    BY <1>2
  <2> QED
    BY <2>2, <2>3, <2>4
<1> QED
  BY <1>2, <1>3, <1>4, <1>5, <1>6

\* A slot with a key below max_int is brought to the position of its key or to one
\* before it: only distinct smaller keys come before it.
LEMMA RankIsAtMostKey ==
    ASSUME TypeOK, Assigned, pc = "writeback",
           NEW sorted, Sorts(SortInput(ExtraKey), sorted),
           NEW p \in Slots, sorted[p].key1 \in Front
    PROVE  p <= sorted[p].key1
<1> DEFINE f == [q \in Slots |-> sorted[q].key1]
<1>1. f \in [Slots -> Int] /\ \A q \in Slots : f[q] = sorted[q].key1
  BY SortedKeys
<1>2. ASSUME NEW q \in 0 .. p PROVE q \in Slots /\ f[q] <= f[p] /\ f[q] \in Front
  <2>1. q \in Slots /\ (q = p \/ q < p)
    BY SizeAssumption DEF Slots
  <2>2. f[q] <= f[p]
    <3>1. q < p => sorted[q].key1 <= sorted[p].key1
      BY <2>1, SortedKeys
    <3>2. f[p] \in Int /\ f[p] = sorted[p].key1 /\ f[q] = sorted[q].key1
      BY <1>1, <2>1
    <3> QED
      BY <2>1, <3>1, <3>2
  <2>3. f[q] \in Front \cup {max_int}
    BY <2>1, SortedKeys
  <2>4. f[q] # max_int
    BY <2>2, MaxIntNotFront DEF Front
  <2> QED
    BY <2>1, <2>2, <2>3, <2>4
<1>3. ASSUME NEW q1 \in 0 .. p, NEW q2 \in 0 .. p, f[q1] = f[q2] PROVE q1 = q2
  <2>1. /\ q1 \in Slots /\ q2 \in Slots
        /\ sorted[q1].from \in Slots /\ sorted[q2].from \in Slots
        /\ ExtraKey[sorted[q1].from] = ExtraKey[sorted[q2].from]
        /\ ExtraKey[sorted[q1].from] \in Front
    BY <1>2, <1>3, SortedKeys
  <2>2. sorted[q1].from = sorted[q2].from
    BY <2>1, ExtraKeyFacts
  <2> QED
    BY <2>1, <2>2, SortedKeys
<1>4. \A q \in 0 .. p : f[q] >= 0 /\ f[q] <= f[p]
  BY <1>2 DEF Front
<1>5. f[p] \in Nat
  BY DEF Front
<1>6. f[p] = sorted[p].key1
  OBVIOUS
<1> HIDE DEF f
<1> QED
  BY <1>1, <1>3, <1>4, <1>5, <1>6, KeyBoundsRank

\* A valid slot that the sort brings to the front of the stash has a place, at or
\* below the position it is brought to.  A slot without a place sorts behind all
\* invalid slots, and then the valid slots from there to the end would be more than
\* the ids.
LEMMA SortedToTheFront ==
    ASSUME CopyInv, Assigned, pc = "writeback", RoomForAll,
           NEW sorted, Sorts(SortInput(ExtraKey), sorted),
           NEW p \in Front, stash[sorted[p].from].valid
    PROVE  /\ sorted[p].from \in Slots
           /\ key[sorted[p].from] \in Front
           /\ p <= key[sorted[p].from]
<1> DEFINE s == [q \in Slots |-> stash[sorted[q].from]]
<1>1. p \in Slots /\ TypeOK /\ OneCopy /\ PosMapKnows
  BY FrontInSlots DEF CopyInv
<1>2. /\ \A q \in Slots :
           /\ sorted[q].from \in Slots
           /\ sorted[q].key1 = ExtraKey[sorted[q].from]
           /\ sorted[q].key1 \in Front \cup {max_int}
           /\ sorted[q].key2 = IF s[q].valid THEN 1 ELSE 0
      /\ \A q1, q2 \in Slots : sorted[q1].from = sorted[q2].from => q1 = q2
      /\ \A q1, q2 \in Slots : q1 < q2 =>
           /\ sorted[q1].key1 <= sorted[q2].key1
           /\ sorted[q1].key1 = sorted[q2].key1
                => sorted[q1].key2 <= sorted[q2].key2
  BY <1>1, SortedKeys
<1>3. /\ s \in [Slots -> Block]
      /\ \A q1, q2 \in Slots :
           s[q1].valid /\ s[q2].valid /\ s[q1].id = s[q2].id => q1 = q2
      /\ \A q \in Slots : s[q].valid => s[q].id \in Ids
  BY <1>1, <1>2 DEF TypeOK, OneCopy, PosMapKnows
<1>4. s[p].valid
  BY <1>1
<1>5. sorted[p].key1 \in Front
  <2> SUFFICES ASSUME sorted[p].key1 = max_int PROVE FALSE
    BY <1>1, <1>2
  <2>1. ASSUME NEW q \in p .. (StashSize - 1) PROVE s[q].valid /\ s[q].id \in Ids
    <3>1. q \in Slots /\ (q = p \/ p < q)
      BY <1>1, <2>1, SizeAssumption DEF Slots
    <3>2. CASE q = p
      BY <1>1, <1>3, <1>4, <3>2
    <3>3. CASE p < q
      <4>1. max_int <= sorted[q].key1
        BY <1>1, <1>2, <3>1, <3>3
      <4>2. sorted[q].key1 = max_int
        <5>1. sorted[q].key1 \in Front \cup {max_int}
          BY <1>2, <3>1
        <5>2. \A o \in Front : o \in Int /\ ~ (max_int <= o)
          BY MaxIntNotFront DEF Front
        <5> QED
          BY <4>1, <5>1, <5>2
      <4>3. sorted[p].key2 = 1
        BY <1>1, <1>2, <1>4
      <4>4. 1 <= sorted[q].key2
        BY <1>1, <1>2, <3>1, <3>3, <4>2, <4>3
      <4>5. s[q].valid
        BY <1>2, <3>1, <4>4
      <4> QED
        BY <1>3, <3>1, <4>5
    <3> QED
      BY <3>1, <3>2, <3>3
  <2> HIDE DEF s
  <2>2. StashSize - p <= Cardinality(Ids)
    BY <1>1, <1>3, <2>1, TailBoundsRank DEF RoomForAll
  <2>3. p < PathLen /\ p \in Int /\ PathLen \in Int /\ StashSize \in Int
    BY SizeAssumption DEF Front, PathLen
  <2>4. Cardinality(Ids) \in Nat
    BY FS_CardinalityType DEF RoomForAll
  <2> QED
    BY <2>2, <2>3, <2>4 DEF RoomForAll
<1>6. p <= sorted[p].key1
  BY <1>1, <1>5, RankIsAtMostKey
<1>7. sorted[p].key1 = key[sorted[p].from]
  BY <1>1, <1>2, ExtraKeyFacts
<1> QED
  BY <1>1, <1>2, <1>5, <1>6, <1>7

---------------------------------------------------------------------------
(* The steps. *)

\* One iteration of the loop of Store_Blocks: the new key has the level PushBack
\* returned, and its place is the first one not yet given away there.
LEMMA AssignSlotAssigned ==
    ASSUME TypeOK, Assigned, AssignSlot
    PROVE  Assigned'
<1>1. PICK level \in Levels \cup {-1} :
        LET cond   == stash[slot].valid /\ level > -1
            offset == level * BucketSize + occupied[level]
        IN  /\ IsDeepestFree(level, Path[call.access_leaf],
                             Path[stash[slot].leaf], occupied, BucketSize)
            /\ wb_path' = IF level > -1
                          THEN [wb_path EXCEPT ![offset] = IF cond THEN slot ELSE 0]
                          ELSE wb_path
            /\ occupied' = IF cond THEN [occupied EXCEPT ![level] = @ + 1]
                           ELSE occupied
            /\ key' = [key EXCEPT ![slot] = IF cond THEN offset ELSE max_int]
  BY DEF AssignSlot
<1> DEFINE cond   == stash[slot].valid /\ level > -1
           offset == level * BucketSize + occupied[level]
<1>2. /\ TypeOK /\ pc = "assign" /\ slot \in Slots
      /\ stash' = stash /\ call' = call
      /\ call.access_leaf \in Leaves /\ stash[slot].leaf \in Leaves
  BY DEF AssignSlot, TypeOK, Call, Block
<1>3. Done = 0 .. (slot - 1) /\ Done \subseteq Slots /\ slot \notin Done
  <2>1. Done = 0 .. (slot - 1)
    BY <1>2 DEF Done
  <2> QED
    BY <1>2, <2>1, SizeAssumption DEF Slots
<1>4. Done' = Done \cup {slot} /\ (pc' # "assign" => slot' = 0)
  <2>1. CASE slot = StashSize - 1
    <3>1. pc' = "writeback" /\ slot' = 0
      BY <2>1 DEF AssignSlot
    <3>2. Done' = 0 .. (StashSize - 1)
      BY <3>1 DEF Done, Slots
    <3> QED
      BY <1>2, <1>3, <2>1, <3>1, <3>2 DEF Slots
  <2>2. CASE slot # StashSize - 1
    <3>1. pc' = "assign" /\ slot' = slot + 1
      BY <2>2 DEF AssignSlot
    <3>2. Done' = 0 .. ((slot + 1) - 1)
      BY <3>1 DEF Done
    <3> QED
      BY <1>2, <1>3, <3>1, <3>2 DEF Slots
  <2> QED
    BY <2>1, <2>2
<1>5. ASSUME level > -1
      PROVE  /\ level \in Levels /\ occupied[level] \in Places
             /\ Path[call.access_leaf][level] = Path[stash[slot].leaf][level]
             /\ offset \in Front
             /\ offset \div BucketSize = level
             /\ offset % BucketSize = occupied[level]
  <2>1. /\ level \in Levels
        /\ Path[call.access_leaf][level] = Path[stash[slot].leaf][level]
        /\ occupied[level] < BucketSize
    BY <1>1, <1>5 DEF IsDeepestFree, FreeShared, Levels
  <2>2. occupied[level] \in Places
    BY <1>2, <2>1, SizeAssumption DEF Places, TypeOK
  <2> QED
    BY <2>1, <2>2, OffsetInFront, OffsetParts
<1> HIDE DEF offset
<1>6. /\ wb_path' = IF level > -1
                     THEN [wb_path EXCEPT ![offset] = IF cond THEN slot ELSE 0]
                     ELSE wb_path
      /\ occupied' = IF cond THEN [occupied EXCEPT ![level] = @ + 1] ELSE occupied
      /\ key' = [key EXCEPT ![slot] = IF cond THEN offset ELSE max_int]
  BY <1>1 DEF offset
<1>7. /\ key'[slot] = IF cond THEN offset ELSE max_int
      /\ \A i \in Done : key'[i] = key[i]
      /\ \A i \in Slots : key[i] \in Front \cup {max_int}
  BY <1>2, <1>3, <1>6 DEF TypeOK
<1>8. ASSUME NEW o \in Front, wb_path[o] # -1
      PROVE  wb_path'[o] # -1
  <2>1. slot # -1 /\ 0 # -1
    BY <1>2 DEF Slots
  <2> QED
    BY <1>2, <1>6, <1>8, <2>1 DEF TypeOK
<1>9. ASSUME NEW l \in Levels
      PROVE  /\ occupied[l] \in Int /\ occupied'[l] \in Int
             /\ occupied[l] <= occupied'[l]
             /\ cond /\ l = level => occupied'[l] = occupied[l] + 1
  BY <1>2, <1>6, SizeAssumption DEF TypeOK
<1>10. cond => key'[slot] = offset /\ wb_path'[offset] # -1
  <2>1. slot # -1
    BY <1>2 DEF Slots
  <2> QED
    BY <1>2, <1>5, <1>6, <1>7, <2>1 DEF TypeOK
<1>11. ASSUME NEW i \in Done', ~ stash[i].valid PROVE key'[i] = max_int
  BY <1>4, <1>7, <1>11 DEF Assigned
<1>12. ASSUME NEW i \in Done', stash[i].valid, key'[i] \in Front
       PROVE  /\ Path[call.access_leaf][key'[i] \div BucketSize]
                    = Path[stash[i].leaf][key'[i] \div BucketSize]
              /\ key'[i] % BucketSize < occupied'[key'[i] \div BucketSize]
              /\ wb_path'[key'[i]] # -1
  <2>1. CASE i \in Done
    <3> DEFINE k == key[i]
    <3>1. key'[i] = k /\ k \in Front
      BY <1>7, <1>12, <2>1
    <3>2. /\ Path[call.access_leaf][k \div BucketSize]
               = Path[stash[i].leaf][k \div BucketSize]
          /\ k % BucketSize < occupied[k \div BucketSize]
          /\ wb_path[k] # -1
      BY <1>12, <2>1, <3>1 DEF Assigned
    <3> HIDE DEF k
    <3>3. k \div BucketSize \in Levels /\ k % BucketSize \in Int
      BY <3>1, FrontIsOffset DEF Places
    <3>4. wb_path'[k] # -1
      BY <1>8, <3>1, <3>2
    <3>5. k % BucketSize < occupied'[k \div BucketSize]
      BY <1>9, <3>2, <3>3
    <3> QED
      BY <3>1, <3>2, <3>4, <3>5
  <2>2. CASE i = slot
    <3>1. cond /\ key'[i] = offset
      BY <1>7, <1>12, <2>2, MaxIntNotFront
    <3>2. offset % BucketSize < occupied'[offset \div BucketSize]
      <4>1. occupied[level] < occupied'[level]
        BY <1>5, <1>9, <3>1
      <4> QED
        BY <1>5, <3>1, <4>1
    <3> QED
      BY <1>5, <1>10, <2>2, <3>1, <3>2
  <2> QED
    BY <1>4, <2>1, <2>2
<1>13. ASSUME NEW i \in Done, key[i] \in Front, cond
       PROVE  key[i] # offset
  <2>1. stash[i].valid
    BY <1>13, MaxIntNotFront DEF Assigned
  <2>2. key[i] % BucketSize < occupied[key[i] \div BucketSize]
    BY <1>13, <2>1 DEF Assigned
  <2> SUFFICES ASSUME key[i] = offset PROVE FALSE
    OBVIOUS
  <2>3. occupied[level] < occupied[level]
    BY <1>5, <1>13, <2>2
  <2> QED
    BY <1>5, <1>9, <1>13, <2>3
<1>14. ASSUME NEW i1 \in Done', NEW i2 \in Done', key'[i1] = key'[i2], key'[i1] \in Front
       PROVE  i1 = i2
  <2>1. CASE i1 \in Done /\ i2 \in Done
    BY <1>7, <1>14, <2>1 DEF Assigned
  <2>2. CASE i1 = slot /\ i2 = slot
    BY <2>2
  <2>3. CASE i1 \in Done /\ i2 = slot
    BY <1>7, <1>13, <1>14, <2>3, MaxIntNotFront
  <2>4. CASE i1 = slot /\ i2 \in Done
    BY <1>7, <1>13, <1>14, <2>4, MaxIntNotFront
  <2> QED
    BY <1>4, <2>1, <2>2, <2>3, <2>4
<1> QED
  BY <1>2, <1>4, <1>11, <1>12, <1>14 DEF Assigned

\* The scan gives the blocks of the call's id its new leaf and leaves the labels of
\* the others alone.
LEMMA ScannedLabel ==
    ASSUME NEW s \in [Slots -> Block], NEW c \in Call,
           NEW data \in Values \cup {NoValue}, NEW i \in Slots,
           Scanned(s, c, data)[i].valid
    PROVE  \/ /\ Scanned(s, c, data)[i].id = c.id
              /\ Scanned(s, c, data)[i].leaf = c.new_leaf
           \/ /\ s[i].valid /\ s[i].id # c.id
              /\ Scanned(s, c, data)[i].id = s[i].id
              /\ Scanned(s, c, data)[i].leaf = s[i].leaf
BY DEF Scanned, Block, Call, Matches

\* Fetch_Blocks: a block of the call's id lies on the accessed path, so it is moved
\* to the stash and takes the new label there.
LEMMA FetchBlocksPathInv ==
    ASSUME PathInv, Fetch_Blocks
    PROVE  OnItsPath' /\ Assigned' /\ NewLabel'
<1> DEFINE s == Fetched(call.access_leaf)
           e == EmptiedPath(call.access_leaf)
<1>1. /\ call \in Call /\ call.access_leaf \in Leaves /\ TypeOK
      /\ data_ptr \in Values \cup {NoValue}
  BY DEF Fetch_Blocks, PathInv, CopyInv, TypeOK, Call
<1>2. s \in [Slots -> Block] /\ e \in [Buckets -> [Places -> Block]]
  BY <1>1, FetchedType
<1>3. /\ tree' = e /\ stash' = Scanned(s, call, data_ptr) /\ posmap' = posmap
      /\ pc = "fetch" /\ pc' = "assign" /\ slot' = slot
  BY DEF Fetch_Blocks
<1>4. \A id : /\ Label(id) = IF call.id = id THEN call.access_leaf ELSE posmap[id].leaf
             /\ Label(id)' = posmap[id].leaf
  BY <1>3 DEF Label
<1>5. posmap[call.id].leaf = call.new_leaf
  BY <1>3 DEF PathInv, NewLabel
<1>6. /\ \A b \in Buckets, j \in Places :
           tree[b][j].valid => /\ OnPath(tree[b][j].leaf, b)
                               /\ tree[b][j].leaf = Label(tree[b][j].id)
      /\ \A i \in Slots : stash[i].valid => stash[i].leaf = Label(stash[i].id)
  BY <1>3 DEF PathInv, OnItsPath
<1>7. ASSUME NEW b \in Buckets, NEW j \in Places, e[b][j].valid
      PROVE  /\ OnPath(e[b][j].leaf, b)
             /\ e[b][j].leaf = posmap[e[b][j].id].leaf
  <2>1. ~ OnPath(call.access_leaf, b) /\ e[b][j] = tree[b][j]
    BY <1>1, <1>7, EmptiedFrom
  <2> HIDE DEF e
  <2>2. OnPath(tree[b][j].leaf, b) /\ tree[b][j].leaf = Label(tree[b][j].id)
    BY <1>6, <1>7, <2>1
  <2>3. tree[b][j].id # call.id
    BY <1>4, <2>1, <2>2
  <2> QED
    BY <1>4, <2>1, <2>2, <2>3
<1>8. ASSUME NEW i \in Slots, s[i].valid PROVE s[i].leaf = Label(s[i].id)
  <2>1. CASE i \in Front
    BY <1>1, <1>6, <1>8, <2>1, FetchedFrom
  <2>2. CASE i \notin Front
    BY <1>1, <1>6, <1>8, <2>2, FetchedFrom
  <2> QED
    BY <2>1, <2>2
<1> HIDE DEF s, e
<1>9. ASSUME NEW i \in Slots, stash'[i].valid
      PROVE  stash'[i].leaf = posmap[stash'[i].id].leaf
  <2>1. \/ stash'[i].id = call.id /\ stash'[i].leaf = call.new_leaf
        \/ /\ s[i].valid /\ s[i].id # call.id
           /\ stash'[i].id = s[i].id /\ stash'[i].leaf = s[i].leaf
    BY <1>1, <1>2, <1>3, <1>9, ScannedLabel
  <2> QED
    BY <1>4, <1>5, <1>8, <2>1
<1>10. OnItsPath'
  BY <1>3, <1>4, <1>7, <1>9 DEF OnItsPath
<1>11. Assigned'
  <2>1. slot' = 0
    BY <1>3 DEF PathInv, Assigned
  <2>2. Done' = 0 .. (0 - 1)
    BY <1>3, <2>1 DEF Done
  <2>3. Done' = {}
    BY <2>2
  <2> QED
    BY <1>3, <2>3 DEF Assigned
<1> QED
  BY <1>3, <1>10, <1>11 DEF NewLabel

\* Store_Blocks: a block is written at its key's place or before it, so no deeper
\* than the level at which its path leaves the accessed one.
LEMMA WriteBackPathInv ==
    ASSUME PathInv, WriteBack, RoomForAll
    PROVE  OnItsPath' /\ Assigned' /\ NewLabel'
<1>1. PICK sorted \in SortOutputs(SortInput(ExtraKey)) :
        LET s == [i \in Slots |-> stash[sorted[i].from]]
        IN  /\ Sorts(SortInput(ExtraKey), sorted)
            /\ tree' = [b \in Buckets |-> [j \in Places |->
                   IF OnPath(call.access_leaf, b)
                   THEN s[(CHOOSE l \in Levels : Path[call.access_leaf][l] = b)
                              * BucketSize + j]
                   ELSE tree[b][j]]]
            /\ stash' = [i \in Slots |-> IF i \in Front THEN Cleared(s[i]) ELSE s[i]]
  BY DEF WriteBack
<1> DEFINE s      == [i \in Slots |-> stash[sorted[i].from]]
           at(b)  == CHOOSE l \in Levels : Path[call.access_leaf][l] = b
           on(b)  == OnPath(call.access_leaf, b)
           off(b, j) == at(b) * BucketSize + j
<1>2. /\ pc = "writeback" /\ pc' = "idle" /\ posmap' = posmap /\ slot' = slot
      /\ call.access_leaf \in Leaves /\ TypeOK
  BY DEF WriteBack, PathInv, CopyInv, TypeOK, Call
<1>3. \A i \in Slots : sorted[i].from \in Slots
  BY <1>1 DEF Sorts
<1>4. /\ tree' = [b \in Buckets |-> [j \in Places |->
                    IF on(b) THEN s[off(b, j)] ELSE tree[b][j]]]
      /\ stash' = [i \in Slots |-> IF i \in Front THEN Cleared(s[i]) ELSE s[i]]
  BY <1>1
<1>5. \A id : Label(id) = posmap[id].leaf /\ Label(id)' = posmap[id].leaf
  BY <1>2 DEF Label
<1>6. /\ \A b \in Buckets, j \in Places :
           tree[b][j].valid => /\ OnPath(tree[b][j].leaf, b)
                               /\ tree[b][j].leaf = posmap[tree[b][j].id].leaf
      /\ \A i \in Slots : stash[i].valid => stash[i].leaf = posmap[stash[i].id].leaf
  BY <1>2, <1>5 DEF PathInv, OnItsPath
<1>7. /\ s \in [Slots -> Block]
      /\ \A i \in Slots : s[i].valid => s[i].leaf = posmap[s[i].id].leaf
  BY <1>2, <1>3, <1>6 DEF TypeOK
<1>8. ASSUME NEW b \in Buckets, NEW j \in Places, on(b)
      PROVE  /\ at(b) \in Levels /\ Path[call.access_leaf][at(b)] = b
             /\ off(b, j) \in Front /\ off(b, j) \in Slots
             /\ off(b, j) \div BucketSize = at(b)
  <2>1. at(b) \in Levels /\ Path[call.access_leaf][at(b)] = b
    BY <1>8 DEF OnPath
  <2> QED
    BY <2>1, OffsetInFront, OffsetParts, FrontInSlots
<1>9. ASSUME NEW b \in Buckets, NEW j \in Places, on(b), s[off(b, j)].valid
      PROVE  OnPath(s[off(b, j)].leaf, b)
  <2> DEFINE p == off(b, j)
             i == sorted[p].from
             m == key[i] \div BucketSize
  <2>1. p \in Front /\ p \in Slots /\ i \in Slots /\ s[p] = stash[i] /\ stash[i].valid
    BY <1>3, <1>8, <1>9
  <2> HIDE DEF p
  <2>2. key[i] \in Front /\ p <= key[i]
    BY <1>1, <1>2, <2>1, SortedToTheFront DEF PathInv
  <2>3. /\ at(b) \in Levels /\ Path[call.access_leaf][at(b)] = b
        /\ p \div BucketSize = at(b)
    BY <1>8, <1>9 DEF p
  <2> HIDE DEF at, i
  <2>4. at(b) <= m /\ m \in Levels
    BY <2>1, <2>2, <2>3, LevelMonotone, FrontIsOffset
  <2>5. Path[call.access_leaf][m] = Path[stash[i].leaf][m]
    BY <1>2, <2>1, <2>2 DEF PathInv, Assigned, Done
  <2>6. stash[i].leaf \in Leaves
    BY <1>2, <2>1 DEF TypeOK, Block
  <2>7. Path[call.access_leaf][at(b)] = Path[stash[i].leaf][at(b)]
    BY <1>2, <2>3, <2>4, <2>5, <2>6, PathAssumption
  <2>8. OnPath(stash[i].leaf, b)
    BY <2>3, <2>7 DEF OnPath
  <2> QED
    BY <2>1, <2>8 DEF p
<1> HIDE DEF s, at, on, off
<1>10. ASSUME NEW i \in Slots, stash'[i].valid
       PROVE  stash'[i] = s[i]
  <2>1. ~ Cleared(s[i]).valid
    BY <1>7 DEF Cleared, Block
  <2> QED
    BY <1>4, <1>10, <2>1
<1>11. \A b \in Buckets, j \in Places :
          tree'[b][j] = IF on(b) THEN s[off(b, j)] ELSE tree[b][j]
  BY <1>4
<1>12. ASSUME NEW b \in Buckets, NEW j \in Places, tree'[b][j].valid
       PROVE  /\ OnPath(tree'[b][j].leaf, b)
              /\ tree'[b][j].leaf = posmap[tree'[b][j].id].leaf
  <2>1. CASE on(b)
    BY <1>7, <1>8, <1>9, <1>11, <1>12, <2>1
  <2>2. CASE ~ on(b)
    BY <1>6, <1>11, <1>12, <2>2
  <2> QED
    BY <2>1, <2>2
<1>13. OnItsPath'
  BY <1>2, <1>5, <1>7, <1>10, <1>12 DEF OnItsPath
<1>14. Assigned'
  <2>1. slot' = 0 /\ Done' = {}
    BY <1>2 DEF PathInv, Assigned, Done
  <2> QED
    BY <2>1 DEF Assigned
<1> QED
  BY <1>2, <1>13, <1>14 DEF NewLabel

\* The inductive invariant holds throughout.
LEMMA PathInvAlways ==
    ASSUME TRUE \notin MallocRecycles, RoomForAll
    PROVE  Spec => []PathInv
<1> DEFINE I == OnItsPath /\ Assigned /\ NewLabel
<1>1. Init => I
  BY DEF Init, OnItsPath, Assigned, NewLabel, Done
<1>2. CopyInv /\ I /\ [Next]_vars => I'
  <2> SUFFICES ASSUME CopyInv, OnItsPath, Assigned, NewLabel, [Next]_vars
               PROVE  OnItsPath' /\ Assigned' /\ NewLabel'
    OBVIOUS
  <2>1. ASSUME pc \notin {"assign", "writeback"}, pc' \notin {"assign", "writeback"},
               slot' = slot
        PROVE  Assigned'
    BY <2>1 DEF Assigned, Done
  <2>2. CASE Init_ORAM
    <3>1. /\ \A b \in Buckets, j \in Places : ~ tree'[b][j].valid
          /\ pc = "free" /\ pc' = "idle" /\ slot' = slot
      BY <2>2, InitTreeEmpty, SizeAssumption DEF Init_ORAM
    <3>2. \A i \in Slots : ~ stash'[i].valid
      BY <2>2 DEF Init_ORAM, ZeroBlock
    <3> QED
      BY <2>1, <3>1, <3>2 DEF OnItsPath, NewLabel
  <2>3. CASE Free_ORAM
    <3>1. pc = "idle" /\ pc' = "free" /\ slot' = slot
      BY <2>3 DEF Free_ORAM
    <3> QED
      BY <2>1, <3>1 DEF OnItsPath, NewLabel
  <2>4. ASSUME NEW op, NEW id \in Ids, NEW data,
               NEW random_leaf \in Leaves, NEW new_leaf \in Leaves,
               Access_ORAM(op, id, data, random_leaf, new_leaf)
        PROVE  OnItsPath' /\ Assigned' /\ NewLabel'
    <3>1. /\ pc = "idle" /\ pc' \in {"fetch", "aborted"} /\ slot' = slot
          /\ tree' = tree /\ stash' = stash
          /\ posmap' = Relabel(id, new_leaf)
      BY <2>4 DEF Access_ORAM
    <3>2. /\ posmap'[id].leaf = new_leaf
          /\ \A x \in Ids : x # id => posmap'[x] = posmap[x]
      BY <3>1 DEF Relabel, CopyInv, TypeOK
    <3>3. CASE pc' = "aborted"
      BY <2>1, <3>1, <3>3 DEF OnItsPath, NewLabel
    <3>4. CASE pc' = "fetch"
      <4>1. /\ call'.id = id /\ call'.new_leaf = new_leaf
            /\ call'.access_leaf = AccessLeaf(id, random_leaf)
        BY <2>4, <3>4 DEF Access_ORAM
      <4>2. \A x \in Ids : Label(x) = posmap[x].leaf
        BY <3>1 DEF Label
      <4>3. \A x \in Ids : Label(x)' = IF x = id THEN AccessLeaf(id, random_leaf)
                                     ELSE posmap[x].leaf
        BY <3>2, <3>4, <4>1 DEF Label
      <4>4. \A x \in Ids : posmap[x].valid => Label(x)' = Label(x)
        BY <4>2, <4>3 DEF AccessLeaf
      <4>5. OnItsPath'
        <5>1. ASSUME NEW b \in Buckets, NEW j \in Places, tree[b][j].valid
              PROVE  OnPath(tree[b][j].leaf, b) /\ tree[b][j].leaf = Label(tree[b][j].id)'
          BY <3>1, <4>4, <5>1 DEF OnItsPath, CopyInv, PosMapKnows
        <5>2. ASSUME NEW i \in Slots, stash[i].valid
              PROVE  stash[i].leaf = Label(stash[i].id)'
          BY <3>1, <4>4, <5>2 DEF OnItsPath, CopyInv, PosMapKnows
        <5>3. /\ \A b \in Buckets, j \in Places :
                   tree'[b][j].valid => /\ OnPath(tree'[b][j].leaf, b)
                                        /\ tree'[b][j].leaf = Label(tree[b][j].id)'
              /\ \A i \in Slots : stash'[i].valid => stash'[i].leaf = Label(stash[i].id)'
          BY <3>1, <5>1, <5>2
        <5> QED
          BY <3>1, <5>3 DEF OnItsPath, Label
      <4> QED
        BY <2>1, <3>1, <3>2, <3>4, <4>1, <4>5 DEF NewLabel
    <3> QED
      BY <3>1, <3>3, <3>4
  <2>5. CASE Access_BadId
    <3>1. pc = "idle" /\ pc' = "aborted" /\ slot' = slot
      BY <2>5 DEF Access_BadId
    <3> QED
      BY <2>1, <3>1 DEF OnItsPath, NewLabel
  <2>6. CASE Fetch_Blocks
    BY <2>6, FetchBlocksPathInv DEF PathInv
  <2>7. CASE AssignSlot
    <3>1. /\ tree' = tree /\ stash' = stash /\ posmap' = posmap
          /\ pc = "assign" /\ pc' \in {"assign", "writeback"}
      BY <2>7 DEF AssignSlot
    <3>2. \A id : Label(id) = posmap[id].leaf /\ Label(id)' = posmap[id].leaf
      BY <3>1 DEF Label
    <3>3. OnItsPath'
      BY <3>1, <3>2 DEF OnItsPath
    <3> QED
      BY <2>7, <3>1, <3>3, AssignSlotAssigned DEF CopyInv, NewLabel
  <2>8. CASE WriteBack
    BY <2>8, WriteBackPathInv DEF PathInv
  <2>9. CASE UNCHANGED vars
    BY <2>9 DEF vars, OnItsPath, Assigned, NewLabel, Done, Label
  <2>10. CASE Aborted
    BY <2>10 DEF Aborted, vars, OnItsPath, Assigned, NewLabel, Done, Label
  <2> QED
    BY <2>2, <2>3, <2>4, <2>5, <2>6, <2>7, <2>8, <2>9, <2>10 DEF Next
<1>3. CopyInv /\ I => PathInv
  BY DEF PathInv
<1> HIDE DEF I
<1> QED
  BY <1>1, <1>2, <1>3, TypeCorrect, OneCopyAlways, PTL DEF Spec, CopyInv

\* The Path ORAM invariant holds for every tree, bucket size and number of ids, when
\* the tree's memory is zeroed and the stash has room for every id behind a path.
\* It does although blocks are not written to the places Store_Blocks assigned them.
THEOREM OnItsPathAlways ==
    ASSUME TRUE \notin MallocRecycles, RoomForAll
    PROVE  Spec => []OnItsPath
BY PathInvAlways, PTL DEF PathInv

---------------------------------------------------------------------------
(* Eviction is greedy: a block that stays in the stash finds every bucket  *)
(* its path shares with the accessed one full of valid blocks.             *)
(* Store_Blocks assigns places that it then does not use, so what the      *)
(* assignment achieves has to be carried through the sort.                 *)

\* What the loop of Store_Blocks has established about the levels: each place
\* below the count of a level is the key of a valid slot, and a valid slot was left
\* without a place only when the levels its path shares with the accessed one were
\* full.
Filled ==
    /\ \A l \in Levels, j \in Places : j < occupied[l] =>
         \E i \in Done : stash[i].valid /\ key[i] = l * BucketSize + j
    /\ \A i \in Done : stash[i].valid /\ key[i] = max_int =>
         \A l \in Levels :
           Path[call.access_leaf][l] = Path[stash[i].leaf][l]
             => occupied[l] = BucketSize

---------------------------------------------------------------------------
(* The loop of Store_Blocks. *)

\* One iteration: a slot that gets a place takes the first free one of its level,
\* and the counts, which never sink, stay at most the size of a bucket.
LEMMA AssignSlotFilled ==
    ASSUME TypeOK, Assigned, Filled, AssignSlot
    PROVE  Filled'
<1>1. PICK level \in Levels \cup {-1} :
        LET cond   == stash[slot].valid /\ level > -1
            offset == level * BucketSize + occupied[level]
        IN  /\ IsDeepestFree(level, Path[call.access_leaf],
                             Path[stash[slot].leaf], occupied, BucketSize)
            /\ occupied' = IF cond THEN [occupied EXCEPT ![level] = @ + 1]
                           ELSE occupied
            /\ key' = [key EXCEPT ![slot] = IF cond THEN offset ELSE max_int]
  BY DEF AssignSlot
<1> DEFINE cond   == stash[slot].valid /\ level > -1
           offset == level * BucketSize + occupied[level]
<1>2. /\ pc = "assign" /\ slot \in Slots /\ stash' = stash /\ call' = call
      /\ call.access_leaf \in Leaves /\ stash[slot].leaf \in Leaves
  BY DEF AssignSlot, TypeOK, Call, Block
<1>3. Done = 0 .. (slot - 1) /\ slot \notin Done /\ Done \subseteq Slots
  <2>1. Done = 0 .. (slot - 1)
    BY <1>2 DEF Done
  <2> QED
    BY <1>2, <2>1, SizeAssumption DEF Slots
<1>4. Done' = Done \cup {slot}
  <2>1. CASE slot = StashSize - 1
    <3>1. Done' = 0 .. (StashSize - 1)
      BY <2>1 DEF AssignSlot, Done, Slots
    <3> QED
      BY <1>2, <1>3, <2>1, <3>1 DEF Slots
  <2>2. CASE slot # StashSize - 1
    <3>1. Done' = 0 .. ((slot + 1) - 1)
      BY <2>2 DEF AssignSlot, Done
    <3> QED
      BY <1>2, <1>3, <3>1 DEF Slots
  <2> QED
    BY <2>1, <2>2
<1>5. ASSUME NEW l \in Levels
      PROVE  /\ occupied[l] \in 0 .. BucketSize
             /\ cond /\ l = level => /\ occupied'[l] = occupied[l] + 1
                                     /\ occupied[l] < BucketSize
             /\ ~ (cond /\ l = level) => occupied'[l] = occupied[l]
  <2>1. level > -1 => occupied[level] < BucketSize
    BY <1>1 DEF IsDeepestFree, FreeShared
  <2> QED
    BY <1>1, <2>1 DEF TypeOK
<1>6. cond => level \in Levels /\ offset \in Front
  <2>1. cond => level \in Levels /\ occupied[level] < BucketSize
    BY <1>1 DEF IsDeepestFree, FreeShared
  <2>2. cond => occupied[level] \in Places
    BY <1>5, <2>1, SizeAssumption DEF Places
  <2> QED
    BY <2>1, <2>2, OffsetInFront
<1> HIDE DEF offset
<1>7. /\ key'[slot] = IF cond THEN offset ELSE max_int
      /\ \A i \in Done : key'[i] = key[i]
  BY <1>1, <1>2, <1>3 DEF TypeOK, offset
<1>8. ASSUME NEW l \in Levels, NEW j \in Places, j < occupied'[l]
      PROVE  \E i \in Done' : stash'[i].valid /\ key'[i] = l * BucketSize + j
  <2>1. CASE j < occupied[l]
    <3>1. PICK i \in Done : stash[i].valid /\ key[i] = l * BucketSize + j
      BY <2>1 DEF Filled
    <3> QED
      BY <1>2, <1>4, <1>7, <3>1
  <2>2. CASE ~ (j < occupied[l])
    <3>1. cond /\ l = level /\ j = occupied[l]
      BY <1>5, <1>8, <2>2 DEF Places
    <3>2. stash'[slot].valid /\ key'[slot] = l * BucketSize + j
      BY <1>2, <1>7, <3>1 DEF offset
    <3> QED
      BY <1>4, <3>2
  <2> QED
    BY <2>1, <2>2
<1>9. ASSUME NEW i \in Done', stash'[i].valid, key'[i] = max_int,
             NEW l \in Levels,
             Path[call'.access_leaf][l] = Path[stash'[i].leaf][l]
      PROVE  occupied'[l] = BucketSize
  <2>1. occupied[l] = BucketSize
    <3>1. CASE i \in Done
      BY <1>2, <1>7, <1>9, <3>1 DEF Filled
    <3>2. CASE i = slot
      <4>1. ~ cond
        BY <1>6, <1>7, <1>9, <3>2, MaxIntNotFront
      <4>2. level = -1
        BY <1>1, <1>2, <1>9, <3>2, <4>1 DEF Levels
      <4>3. l \notin FreeShared(Path[call.access_leaf], Path[stash[slot].leaf],
                                occupied, BucketSize)
        BY <1>1, <4>2 DEF IsDeepestFree, FreeShared, Levels
      <4>4. l \in DOMAIN Path[call.access_leaf]
        BY <1>2, PathAssumption
      <4>5. ~ (occupied[l] < BucketSize)
        BY <1>2, <1>9, <3>2, <4>3, <4>4 DEF FreeShared
      <4> QED
        BY <1>5, <4>5, SizeAssumption
    <3> QED
      BY <1>4, <3>1, <3>2
  <2> QED
    BY <1>5, <2>1, SizeAssumption
<1> QED
  BY <1>8, <1>9 DEF Filled

\* The loop's invariant, for every tree, stash and set of ids.
LEMMA FilledAlways == Spec => [](TypeOK /\ Assigned /\ Filled)
<1> DEFINE I == Assigned /\ Filled
<1>1. Init => I
  BY DEF Init, Assigned, Filled, Done, ResetOccupied, Places
<1>2. TypeOK /\ I /\ [Next]_vars => I'
  <2> SUFFICES ASSUME TypeOK, Assigned, Filled, [Next]_vars
               PROVE  Assigned' /\ Filled'
    OBVIOUS
  <2>1. ASSUME pc \notin {"assign", "writeback"}, slot' = slot,
               pc' \notin {"assign", "writeback"} \/ pc' = "assign",
               occupied' = occupied
        PROVE  Assigned' /\ Filled'
    <3>1. slot' = 0 /\ Done = {}
      BY <2>1 DEF Assigned, Done
    <3>2. Done' = {}
      BY <2>1, <3>1 DEF Done
    <3> QED
      BY <2>1, <3>1, <3>2 DEF Assigned, Filled
  <2>2. CASE Init_ORAM
    BY <2>1, <2>2 DEF Init_ORAM
  <2>3. CASE Free_ORAM
    BY <2>1, <2>3 DEF Free_ORAM
  <2>4. ASSUME NEW op, NEW id, NEW data, NEW random_leaf, NEW new_leaf,
               Access_ORAM(op, id, data, random_leaf, new_leaf)
        PROVE  Assigned' /\ Filled'
    BY <2>1, <2>4 DEF Access_ORAM
  <2>5. CASE Access_BadId
    BY <2>1, <2>5 DEF Access_BadId
  <2>6. CASE Fetch_Blocks
    BY <2>1, <2>6 DEF Fetch_Blocks
  <2>7. CASE AssignSlot
    BY <2>7, AssignSlotAssigned, AssignSlotFilled
  <2>8. CASE WriteBack
    <3>1. slot' = 0 /\ Done' = {} /\ occupied' = ResetOccupied
      BY <2>8 DEF WriteBack, Assigned, Done
    <3> QED
      BY <3>1 DEF Assigned, Filled, ResetOccupied, Places
  <2>9. CASE UNCHANGED vars
    BY <2>9 DEF vars, Assigned, Filled, Done
  <2>10. CASE Aborted
    BY <2>10 DEF Aborted, vars, Assigned, Filled, Done
  <2> QED
    BY <2>2, <2>3, <2>4, <2>5, <2>6, <2>7, <2>8, <2>9, <2>10 DEF Next
<1> HIDE DEF I
<1>3. TypeOK /\ I => TypeOK /\ Assigned /\ Filled
  BY DEF I
<1> QED
  BY <1>1, <1>2, <1>3, TypeCorrect, PTL DEF Spec

---------------------------------------------------------------------------
(* The sort and the copy to the path. *)

\* The front of the stash is an initial segment of it.
LEMMA FrontIsInitial ==
    ASSUME NEW q \in Front, NEW r \in Slots, r <= q
    PROVE  r \in Front
<1>1. PathLen \in Int
  BY SizeAssumption DEF PathLen
<1> QED
  BY <1>1, SizeAssumption DEF Front, Slots

\* When the levels down to l are full, every offset of theirs is the key of a valid
\* slot, so the sort leaves no other slot there: the first offset that held another
\* would be the key of a slot further to the front, which the offset itself is not.
LEMMA FullLevelsAreWritten ==
    ASSUME TypeOK, Assigned, Filled, pc = "writeback",
           NEW sorted, Sorts(SortInput(ExtraKey), sorted),
           NEW l \in Levels, \A m \in Levels : m <= l => occupied[m] = BucketSize,
           NEW p \in Front, p \div BucketSize <= l
    PROVE  stash[sorted[p].from].valid
<1> DEFINE right(q) == sorted[q].key1 = q /\ stash[sorted[q].from].valid
           wrong    == {q \in Front : q \div BucketSize <= l /\ ~ right(q)}
<1> SUFFICES wrong = {}
  OBVIOUS
<1> SUFFICES ASSUME wrong # {} PROVE FALSE
  OBVIOUS
<1>1. PICK q \in wrong : \A y \in wrong : q <= y
  <2>1. wrong \in SUBSET Nat
    BY DEF Front
  <2> HIDE DEF wrong
  <2> QED
    BY <2>1, LeastOf
<1>2. q \in Front /\ q \in Slots /\ q \div BucketSize <= l /\ ~ right(q)
  BY FrontInSlots
<1>3. PICK i \in Slots : stash[i].valid /\ key[i] = q
  <2> DEFINE lv == q \div BucketSize
             j  == q % BucketSize
  <2>1. lv \in Levels /\ j \in Places /\ q = lv * BucketSize + j
    BY <1>2, FrontIsOffset
  <2>2. lv <= l
    BY <1>2
  <2> HIDE DEF lv, j
  <2>3. j < occupied[lv]
    BY <2>1, <2>2, SizeAssumption DEF Places
  <2>4. Done = Slots
    BY DEF Done
  <2> QED
    BY <2>1, <2>3, <2>4 DEF Filled
<1>4. PICK r \in Slots : sorted[r].from = i
  BY SortedKeys
<1>5. sorted[r].key1 = q
  BY <1>3, <1>4, SortedKeys, ExtraKeyFacts
<1>6. r <= q
  BY <1>2, <1>5, RankIsAtMostKey
<1>7. r # q
  BY <1>2, <1>3, <1>4, <1>5
<1>8. r \in Front
  BY <1>2, <1>6, FrontIsInitial
<1>9. r \div BucketSize <= l
  <2>1. r \div BucketSize <= q \div BucketSize
    BY <1>2, <1>6, <1>8, LevelMonotone
  <2>2. r \div BucketSize \in Levels /\ q \div BucketSize \in Levels
    BY <1>2, <1>8, FrontIsOffset
  <2> QED
    BY <1>2, <2>1, <2>2 DEF Levels
<1>10. ~ (q <= r)
  BY <1>2, <1>6, <1>7, <1>8 DEF Front
<1>11. right(r)
  BY <1>1, <1>8, <1>9, <1>10
<1> QED
  BY <1>5, <1>7, <1>11

\* A block that stays in the stash was left without a place: one with a place is
\* brought to the front.  So the levels its path shares with the accessed one were
\* full, and those are all the levels down to the deepest of them.
LEMMA WriteBackIsGreedy ==
    ASSUME TypeOK, Assigned, Filled, WriteBack,
           NEW k \in Slots, stash'[k].valid, NEW l \in Levels,
           OnPath(stash'[k].leaf, Path[call.access_leaf][l]), NEW j \in Places
    PROVE  tree'[Path[call.access_leaf][l]][j].valid
<1>1. PICK sorted \in SortOutputs(SortInput(ExtraKey)) :
        LET s == [i \in Slots |-> stash[sorted[i].from]]
        IN  /\ Sorts(SortInput(ExtraKey), sorted)
            /\ tree' = [b \in Buckets |-> [c \in Places |->
                   IF OnPath(call.access_leaf, b)
                   THEN s[(CHOOSE m \in Levels : Path[call.access_leaf][m] = b)
                              * BucketSize + c]
                   ELSE tree[b][c]]]
            /\ stash' = [i \in Slots |-> IF i \in Front THEN Cleared(s[i]) ELSE s[i]]
  BY DEF WriteBack
<1> DEFINE s == [i \in Slots |-> stash[sorted[i].from]]
           a == call.access_leaf
           b == Path[a][l]
           i == sorted[k].from
<1>2. pc = "writeback" /\ a \in Leaves /\ Done = Slots
  BY DEF WriteBack, TypeOK, Call, Done
<1>3. /\ \A q \in Slots : sorted[q].from \in Slots /\ s[q] = stash[sorted[q].from]
      /\ s \in [Slots -> Block]
  BY <1>1, <1>2, SortedKeys DEF TypeOK
<1>4. k \notin Front /\ stash'[k] = stash[i] /\ i \in Slots /\ stash[i].valid
  <2>1. ~ Cleared(s[k]).valid
    BY <1>3 DEF Cleared, Block
  <2>2. stash'[k] = IF k \in Front THEN Cleared(s[k]) ELSE s[k]
    BY <1>1
  <2> HIDE DEF s
  <2>3. k \notin Front /\ stash'[k] = s[k]
    BY <2>1, <2>2
  <2> QED
    BY <1>3, <2>3
<1>5. key[i] = max_int
  <2> SUFFICES ASSUME key[i] # max_int PROVE FALSE
    OBVIOUS
  <2>1. key[i] \in Front
    BY <1>4 DEF TypeOK
  <2>2. sorted[k].key1 = key[i]
    <3>1. sorted[k].key1 = ExtraKey[i]
      BY <1>1, <1>2, <1>4, SortedKeys
    <3>2. ExtraKey[i] = key[i]
      BY <1>2, <1>4, ExtraKeyFacts
    <3> QED
      BY <3>1, <3>2
  <2>3. k <= sorted[k].key1
    BY <1>1, <1>2, <2>1, <2>2, RankIsAtMostKey
  <2>4. k \in Front
    BY <2>1, <2>2, <2>3, FrontIsInitial
  <2> QED
    BY <1>4, <2>4
<1>6. stash[i].leaf \in Leaves
  BY <1>4 DEF TypeOK, Block
<1> HIDE DEF i
<1>7. Path[a][l] = Path[stash[i].leaf][l]
  <2>1. PICK m \in Levels : Path[stash[i].leaf][m] = Path[a][l]
    BY <1>4 DEF OnPath
  <2> QED
    BY <1>2, <1>6, <2>1, PathAssumption
<1>8. ASSUME NEW m \in Levels, m <= l PROVE occupied[m] = BucketSize
  <2>1. Path[a][m] = Path[stash[i].leaf][m]
    BY <1>2, <1>6, <1>7, <1>8, PathAssumption
  <2> QED
    BY <1>2, <1>4, <1>5, <2>1 DEF Filled
<1>9. /\ b \in Buckets /\ OnPath(a, b)
      /\ (CHOOSE m \in Levels : Path[a][m] = b) = l
  <2>1. b \in Buckets
    BY <1>2, PathAssumption, SizeAssumption DEF Buckets
  <2>2. OnPath(a, b)
    BY DEF OnPath
  <2>3. \A m \in Levels : Path[a][m] = b => m = l
    BY <1>2, PathAssumption
  <2> QED
    BY <2>1, <2>2, <2>3
<1> DEFINE p == l * BucketSize + j
<1>10. p \in Front /\ p \in Slots /\ p \div BucketSize = l
  BY OffsetInFront, OffsetParts, FrontInSlots
<1>11. tree'[b][j] = s[p]
  <2> HIDE DEF s, b
  <2>1. tree'[b][j] = IF OnPath(a, b)
                      THEN s[(CHOOSE m \in Levels : Path[a][m] = b) * BucketSize + j]
                      ELSE tree[b][j]
    BY <1>1, <1>9 DEF s
  <2> QED
    BY <1>9, <2>1
<1> HIDE DEF p, s
<1>12. p \div BucketSize <= l
  BY <1>10 DEF Levels
<1>13. stash[sorted[p].from].valid
  BY <1>1, <1>2, <1>8, <1>10, <1>12, FullLevelsAreWritten
<1> QED
  BY <1>3, <1>10, <1>11, <1>13

\* Eviction is greedy for every tree, bucket size, stash and set of ids, whatever
\* malloc returned for the tree and whether or not the stash has room: the loop over
\* PushBack, the extra keys and the sort of Store_Blocks together leave a block in
\* the stash only when the buckets it could be in are full of valid blocks.
THEOREM EvictionIsAlwaysGreedy == Spec => EvictionIsGreedy
<1>1. ASSUME TypeOK, Assigned, Filled, [Next]_vars
      PROVE  [ pc = "writeback" =>
                 \A i \in Slots : stash'[i].valid =>
                   \A l \in Levels :
                     LET b == Path[call.access_leaf][l]
                     IN  OnPath(stash'[i].leaf, b) => \A j \in Places : tree'[b][j].valid
             ]_vars
  <2>1. CASE UNCHANGED vars
    BY <2>1
  <2>2. CASE Next /\ pc = "writeback"
    <3>1. WriteBack
      BY <2>2 DEF Next, Init_ORAM, Free_ORAM, Access_ORAM, Access_BadId, Fetch_Blocks,
                  AssignSlot, Aborted
    <3> QED
      BY <1>1, <3>1, WriteBackIsGreedy
  <2>3. CASE pc # "writeback"
    BY <2>3
  <2> QED
    BY <1>1, <2>1, <2>2, <2>3
<1>2. TypeOK /\ Assigned /\ Filled /\ [Next]_vars =>
        [ pc = "writeback" =>
            \A i \in Slots : stash'[i].valid =>
              \A l \in Levels :
                LET b == Path[call.access_leaf][l]
                IN  OnPath(stash'[i].leaf, b) => \A j \in Places : tree'[b][j].valid
        ]_vars
  BY <1>1
<1> QED
  BY <1>2, FilledAlways, PTL DEF Spec, EvictionIsGreedy
=============================================================================
