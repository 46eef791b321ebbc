------------------------ MODULE PathORAMMemory_proofs ------------------------
(***************************************************************************)
(* Proofs that no block is lost and that the caller sees a memory, when    *)
(* the stash has room for every id behind a path.                          *)
(***************************************************************************)
EXTENDS PathORAM_proofs

\* Fetch_Blocks overwrites the front of the stash and Store_Blocks the accessed path:
\* neither holds a block when that happens.
Emptied ==
    /\ pc \in {"idle", "fetch"} => \A i \in Front : ~ stash[i].valid
    /\ pc \in {"assign", "writeback"} =>
         \A b \in Buckets, j \in Places :
           OnPath(call.access_leaf, b) => ~ tree[b][j].valid

\* An id the position map knows was written, or is being written for the first time;
\* a WRITE brings data; between calls the buffer is the caller's own.
Known ==
    /\ pc \notin {"free", "aborted"} =>
         \A id \in Ids : posmap[id].valid =>
           \/ written[id] # NoValue
           \/ pc = "fetch" /\ call.id = id /\ call.if_new_data
    /\ pc = "fetch" => /\ call.op = READ => ~ call.if_new_data
                       /\ call.op = WRITE => data_ptr \in Values
    /\ pc \in {"free", "idle"} => data_ptr = NoValue

\* With PathInv, what no step breaks.
ContentInv == NoBlockLost /\ Emptied /\ Known

---------------------------------------------------------------------------
(* Room in the stash. *)

\* A stash with no two valid blocks of an id has a slot that is not valid.
LEMMA RoomInStash ==
    ASSUME RoomForAll, NEW s \in [Slots -> Block],
           \A i \in Slots : s[i].valid => s[i].id \in Ids,
           \A i1, i2 \in Slots :
              s[i1].valid /\ s[i2].valid /\ s[i1].id = s[i2].id => i1 = i2
    PROVE  \E i \in Slots : ~ s[i].valid
<1> SUFFICES ASSUME \A i \in Slots : s[i].valid PROVE FALSE
  OBVIOUS
<1>1. 0 \in Slots /\ PathLen \in Nat /\ PathLen >= 1
  BY FrontInSlots, SizeAssumption DEF Front, PathLen
<1>2. \A q \in 0 .. (StashSize - 1) : s[q].valid /\ s[q].id \in Ids
  BY DEF Slots
<1>3. StashSize - 0 <= Cardinality(Ids)
  BY <1>1, <1>2, TailBoundsRank DEF RoomForAll
<1>4. Cardinality(Ids) \in Nat
  BY FS_CardinalityType DEF RoomForAll
<1> QED
  BY <1>1, <1>3, <1>4, SizeAssumption DEF RoomForAll

\* The scan finds a slot for a new block when there is one.
LEMMA NewBlockSlotExists ==
    ASSUME NEW s, \E i \in Slots : ~ s[i].valid
    PROVE  \E i \in Slots : NewBlockSlot(s, i)
<1> DEFINE free == {i \in Slots : ~ s[i].valid}
<1>1. free \in SUBSET Nat /\ free # {}
  BY DEF Slots
<1>2. PICK i \in free : \A j \in free : i <= j
  BY <1>1, LeastOf
<1>3. \A j \in 0 .. (i - 1) : j \in Slots /\ j < i
  BY <1>2, SizeAssumption DEF Slots
<1>4. \A j \in 0 .. (i - 1) : s[j].valid
  BY <1>1, <1>2, <1>3
<1> QED
  BY <1>2, <1>4 DEF NewBlockSlot

\* What Fetch_Blocks puts in the stash has no two valid blocks of an id.
LEMMA FetchedRoom ==
    ASSUME CopyInv, RoomForAll, pc = "fetch"
    PROVE  /\ \E i \in Slots : ~ Fetched(call.access_leaf)[i].valid
           /\ \A i \in Slots : Fetched(call.access_leaf)[i].valid
                => Fetched(call.access_leaf)[i].id \in Ids
<1> DEFINE s == Fetched(call.access_leaf)
<1>1. TypeOK /\ OneCopy /\ PosMapKnows /\ call.access_leaf \in Leaves
  BY DEF CopyInv, TypeOK, Call
<1>2. s \in [Slots -> Block]
  BY <1>1, FetchedType
<1>3. \A i1, i2 \in Slots :
         s[i1].valid /\ s[i2].valid /\ s[i1].id = s[i2].id => i1 = i2
  BY <1>1, FetchKeepsOneCopy
<1>4. ASSUME NEW i \in Slots, s[i].valid PROVE s[i].id \in Ids
  <2>1. CASE i \in Front
    BY <1>1, <1>4, <2>1, FetchedFrom DEF PosMapKnows
  <2>2. CASE i \notin Front
    BY <1>1, <1>4, <2>2, FetchedFrom DEF PosMapKnows
  <2> QED
    BY <2>1, <2>2
<1> HIDE DEF s
<1>5. \E i \in Slots : ~ s[i].valid
  BY <1>2, <1>3, <1>4, RoomInStash
<1> QED
  BY <1>4, <1>5 DEF s

---------------------------------------------------------------------------
(* No block is lost. *)

\* A block of the accessed path arrives in the stash, and one behind the front stays.
LEMMA FetchedKeeps ==
    ASSUME TypeOK, NEW leaf \in Leaves
    PROVE  /\ \A b \in Buckets, j \in Places :
                OnPath(leaf, b) => \E i \in Slots : Fetched(leaf)[i] = tree[b][j]
           /\ \A i \in Slots : i \notin Front => Fetched(leaf)[i] = stash[i]
           /\ \A b \in Buckets, j \in Places :
                ~ OnPath(leaf, b) => EmptiedPath(leaf)[b][j] = tree[b][j]
           /\ \A b \in Buckets, j \in Places :
                OnPath(leaf, b) => ~ EmptiedPath(leaf)[b][j].valid
<1>1. ASSUME NEW b \in Buckets, NEW j \in Places, OnPath(leaf, b)
      PROVE  \E i \in Slots : Fetched(leaf)[i] = tree[b][j]
  <2>1. PICK l \in Levels : Path[leaf][l] = b
    BY <1>1 DEF OnPath
  <2> DEFINE i == l * BucketSize + j
  <2>2. i \in Front /\ i \in Slots /\ i \div BucketSize = l /\ i % BucketSize = j
    BY <2>1, OffsetInFront, OffsetParts, FrontInSlots
  <2> HIDE DEF i
  <2>3. Fetched(leaf)[i] = tree[b][j]
    BY <2>1, <2>2, FetchedFrom
  <2> QED
    BY <2>2, <2>3
<1>2. \A block \in Block : ~ Cleared(block).valid
  BY DEF Cleared, Block
<1>3. \A b \in Buckets, j \in Places : tree[b][j] \in Block
  BY DEF TypeOK
<1>4. \A b \in Buckets, j \in Places :
         ~ OnPath(leaf, b) => EmptiedPath(leaf)[b][j] = tree[b][j]
  BY <1>3 DEF EmptiedPath, TypeOK
<1>5. ASSUME NEW b \in Buckets, NEW j \in Places, OnPath(leaf, b)
      PROVE  ~ EmptiedPath(leaf)[b][j].valid
  BY <1>2, <1>3, <1>5 DEF EmptiedPath
<1>6. \A i \in Slots : i \notin Front => Fetched(leaf)[i] = stash[i]
  BY FetchedFrom
<1> QED
  BY <1>1, <1>4, <1>5, <1>6

\* The scan keeps every valid block, with the call's data if it is the one a WRITE is
\* for, and stores a new block in the first slot that is not valid.
LEMMA ScannedKeeps ==
    ASSUME NEW s \in [Slots -> Block], NEW c \in Call,
           NEW data \in Values \cup {NoValue}, NEW i \in Slots
    PROVE  /\ s[i].valid =>
                /\ Scanned(s, c, data)[i].valid
                /\ Scanned(s, c, data)[i].id = s[i].id
                /\ Scanned(s, c, data)[i].data
                     = IF s[i].id = c.id /\ c.op = WRITE THEN data ELSE s[i].data
           /\ c.if_new_data /\ NewBlockSlot(s, i) =>
                /\ Scanned(s, c, data)[i].valid
                /\ Scanned(s, c, data)[i].id = c.id
                /\ Scanned(s, c, data)[i].data = data
<1>1. ASSUME s[i].valid, s[i].id = c.id
      PROVE  Scanned(s, c, data)[i]
               = [s[i] EXCEPT !.leaf = c.new_leaf,
                              !.data = IF c.op = WRITE THEN data ELSE @]
  BY <1>1 DEF Scanned, Matches, NewBlockSlot
<1>2. ASSUME s[i].valid, s[i].id # c.id
      PROVE  Scanned(s, c, data)[i] = s[i]
  BY <1>2 DEF Scanned, Matches, NewBlockSlot
<1>3. ASSUME c.if_new_data, NewBlockSlot(s, i)
      PROVE  Scanned(s, c, data)[i]
               = [valid |-> TRUE, id |-> c.id, leaf |-> c.new_leaf, data |-> data]
  BY <1>3 DEF Scanned
<1> DEFINE t == Scanned(s, c, data)[i]
<1>4. s[i] \in Block
  OBVIOUS
<1> HIDE DEF t
<1>5. ASSUME s[i].valid, s[i].id = c.id
      PROVE  t.valid /\ t.id = s[i].id /\ t.data = IF c.op = WRITE THEN data ELSE s[i].data
  <2>1. t = [s[i] EXCEPT !.leaf = c.new_leaf,
                         !.data = IF c.op = WRITE THEN data ELSE @]
    BY <1>1, <1>5 DEF t
  <2> QED
    BY <1>4, <1>5, <2>1 DEF Block
<1>6. ASSUME s[i].valid, s[i].id # c.id PROVE t = s[i]
  BY <1>2, <1>6 DEF t
<1>7. ASSUME c.if_new_data, NewBlockSlot(s, i)
      PROVE  t.valid /\ t.id = c.id /\ t.data = data
  <2>1. t = [valid |-> TRUE, id |-> c.id, leaf |-> c.new_leaf, data |-> data]
    BY <1>3, <1>7 DEF t
  <2> QED
    BY <2>1
<1>8. /\ s[i].valid => /\ t.valid /\ t.id = s[i].id
                       /\ t.data = IF s[i].id = c.id /\ c.op = WRITE
                                   THEN data ELSE s[i].data
      /\ c.if_new_data /\ NewBlockSlot(s, i) => t.valid /\ t.id = c.id /\ t.data = data
  BY <1>5, <1>6, <1>7
<1> QED
  BY <1>8 DEF t

\* Where the last data written to an id is after the path was fetched: in the stash,
\* or in the tree for an id other than the call's.
LEMMA FetchedHolds ==
    ASSUME PathInv, NoBlockLost, Emptied, pc = "fetch",
           NEW id \in Ids, written[id] # NoValue
    PROVE  LET s == Fetched(call.access_leaf)
               e == EmptiedPath(call.access_leaf)
           IN  \/ \E i \in Slots : s[i].valid /\ s[i].id = id /\ s[i].data = written[id]
               \/ /\ id # call.id
                  /\ \E b \in Buckets, j \in Places :
                       e[b][j].valid /\ e[b][j].id = id /\ e[b][j].data = written[id]
<1> DEFINE s == Fetched(call.access_leaf)
           e == EmptiedPath(call.access_leaf)
<1>1. TypeOK /\ call.access_leaf \in Leaves
  BY DEF PathInv, CopyInv, TypeOK, Call
<1>2. /\ \A b \in Buckets, j \in Places :
           OnPath(call.access_leaf, b) => \E i \in Slots : s[i] = tree[b][j]
      /\ \A i \in Slots : i \notin Front => s[i] = stash[i]
      /\ \A b \in Buckets, j \in Places :
           ~ OnPath(call.access_leaf, b) => e[b][j] = tree[b][j]
  BY <1>1, FetchedKeeps
<1> HIDE DEF s, e
<1>3. ASSUME NEW b \in Buckets, NEW j \in Places,
             tree[b][j].valid, tree[b][j].id = id, tree[b][j].data = written[id]
      PROVE  \/ \E i \in Slots : s[i].valid /\ s[i].id = id /\ s[i].data = written[id]
             \/ id # call.id /\ e[b][j].valid /\ e[b][j].id = id
                /\ e[b][j].data = written[id]
  <2>1. CASE OnPath(call.access_leaf, b)
    BY <1>2, <1>3, <2>1
  <2>2. CASE ~ OnPath(call.access_leaf, b)
    <3>1. OnPath(Label(id), b)
      BY <1>3 DEF PathInv, OnItsPath
    <3>2. id # call.id
      BY <2>2, <3>1 DEF Label
    <3> QED
      BY <1>2, <1>3, <2>2, <3>2
  <2> QED
    BY <2>1, <2>2
<1>4. ASSUME NEW i \in Slots,
             stash[i].valid, stash[i].id = id, stash[i].data = written[id]
      PROVE  s[i].valid /\ s[i].id = id /\ s[i].data = written[id]
  BY <1>2, <1>4 DEF Emptied
<1>5. \/ \E i \in Slots : s[i].valid /\ s[i].id = id /\ s[i].data = written[id]
      \/ /\ id # call.id
         /\ \E b \in Buckets, j \in Places :
              e[b][j].valid /\ e[b][j].id = id /\ e[b][j].data = written[id]
  BY <1>3, <1>4 DEF NoBlockLost
<1> QED
  BY <1>5 DEF s, e

\* Fetch_Blocks: a WRITE finds its block or a slot for a new one, a READ finds the
\* data written last.
LEMMA FetchBlocksContents ==
    ASSUME PathInv, NoBlockLost, Emptied, Known, RoomForAll, Fetch_Blocks
    PROVE  /\ NoBlockLost' /\ Emptied' /\ Known'
           /\ call.op = READ => data_ptr' = written[call.id]
<1> DEFINE s == Fetched(call.access_leaf)
           e == EmptiedPath(call.access_leaf)
<1>1. /\ call \in Call /\ call.access_leaf \in Leaves /\ call.id \in Ids /\ TypeOK
      /\ data_ptr \in Values \cup {NoValue} /\ call.op \in {READ, WRITE}
      /\ written \in [Ids -> Values \cup {NoValue}] /\ CopyInv
  BY DEF Fetch_Blocks, PathInv, CopyInv, TypeOK, Call
<1>2. s \in [Slots -> Block]
  BY <1>1, FetchedType
<1>3. /\ tree' = e /\ stash' = Scanned(s, call, data_ptr) /\ posmap' = posmap
      /\ pc = "fetch" /\ pc' = "assign" /\ call' = call
      /\ written' = IF call.op = WRITE
                    THEN [written EXCEPT ![call.id] = data_ptr] ELSE written
      /\ call.op = READ => ReadOut(s, call.id)
  BY DEF Fetch_Blocks
<1>4. \A id \in Ids : written[id] # NoValue =>
        \/ \E i \in Slots : s[i].valid /\ s[i].id = id /\ s[i].data = written[id]
        \/ /\ id # call.id
           /\ \E b \in Buckets, j \in Places :
                e[b][j].valid /\ e[b][j].id = id /\ e[b][j].data = written[id]
  BY <1>3, FetchedHolds
<1>5. \A i1, i2 \in Slots :
         s[i1].valid /\ s[i2].valid /\ s[i1].id = s[i2].id => i1 = i2
  BY <1>1, <1>3, FetchKeepsOneCopy DEF CopyInv
<1>6. \E i \in Slots : NewBlockSlot(s, i)
  BY <1>1, <1>3, FetchedRoom, NewBlockSlotExists
<1>7. \A b \in Buckets, j \in Places :
         OnPath(call.access_leaf, b) => ~ e[b][j].valid
  BY <1>1, FetchedKeeps
<1> HIDE DEF s, e
<1>8. ~ call.if_new_data => written[call.id] # NoValue
  <2>1. posmap[call.id].valid
    BY <1>3 DEF PathInv, CopyInv, PosMapKnows
  <2> QED
    BY <1>1, <1>3, <2>1 DEF Known
<1>9. ~ call.if_new_data =>
        \E i \in Slots : s[i].valid /\ s[i].id = call.id /\ s[i].data = written[call.id]
  BY <1>1, <1>4, <1>8
<1>10. /\ call.op = READ => ~ call.if_new_data
       /\ call.op = WRITE => data_ptr \in Values
  BY <1>3 DEF Known
<1>11. ASSUME NEW i \in Slots
       PROVE  /\ s[i].valid =>
                   /\ stash'[i].valid /\ stash'[i].id = s[i].id
                   /\ stash'[i].data = IF s[i].id = call.id /\ call.op = WRITE
                                       THEN data_ptr ELSE s[i].data
              /\ call.if_new_data /\ NewBlockSlot(s, i) =>
                   /\ stash'[i].valid /\ stash'[i].id = call.id
                   /\ stash'[i].data = data_ptr
  BY <1>1, <1>2, <1>3, ScannedKeeps
<1>12. NoBlockLost'
  <2>1. ASSUME NEW id \in Ids, written'[id] # NoValue
        PROVE  \/ \E b \in Buckets, j \in Places :
                    e[b][j].valid /\ e[b][j].id = id /\ e[b][j].data = written'[id]
               \/ \E i \in Slots :
                    stash'[i].valid /\ stash'[i].id = id /\ stash'[i].data = written'[id]
    <3>1. CASE id = call.id /\ call.op = WRITE
      <4>1. written'[id] = data_ptr
        BY <1>1, <1>3, <3>1
      <4>2. \E i \in Slots : stash'[i].valid /\ stash'[i].id = id
                            /\ stash'[i].data = data_ptr
        <5>1. CASE call.if_new_data
          BY <1>6, <1>11, <3>1, <5>1
        <5>2. CASE ~ call.if_new_data
          BY <1>9, <1>11, <3>1, <5>2
        <5> QED
          BY <5>1, <5>2
      <4> QED
        BY <4>1, <4>2
    <3>2. CASE ~ (id = call.id /\ call.op = WRITE)
      <4>1. written'[id] = written[id]
        BY <1>1, <1>3, <3>2
      <4> QED
        BY <1>4, <1>11, <2>1, <3>2, <4>1
    <3> QED
      BY <3>1, <3>2
  <2> QED
    BY <1>3, <2>1 DEF NoBlockLost
<1>13. Emptied'
  BY <1>3, <1>7 DEF Emptied
<1>14. Known'
  <2>1. ASSUME NEW id \in Ids, posmap[id].valid PROVE written'[id] # NoValue
    <3>1. CASE id = call.id /\ call.op = WRITE
      BY <1>1, <1>3, <1>10, <3>1, IdAssumption
    <3>2. CASE id = call.id /\ call.op = READ
      BY <1>3, <1>8, <1>10, <3>2 DEF READ, WRITE
    <3>3. CASE id # call.id
      BY <1>1, <1>3, <2>1, <3>3 DEF Known
    <3> QED
      BY <1>1, <3>1, <3>2, <3>3
  <2> QED
    BY <1>3, <2>1 DEF Known
<1>15. ASSUME call.op = READ PROVE data_ptr' = written[call.id]
  <2>1. PICK i \in Slots : s[i].valid /\ s[i].id = call.id /\ s[i].data = written[call.id]
    BY <1>9, <1>10, <1>15
  <2>2. i \in Matches(s, call.id)
    BY <2>1 DEF Matches
  <2>3. PICK m \in Matches(s, call.id) : data_ptr' = s[m].data
    BY <1>3, <1>15, <2>2 DEF ReadOut
  <2>4. m = i
    BY <1>5, <2>1, <2>3 DEF Matches
  <2> QED
    BY <2>1, <2>3, <2>4
<1> QED
  BY <1>12, <1>13, <1>14, <1>15

\* Store_Blocks: the sort keeps every slot; what it brings to the front replaces the
\* emptied path.
LEMMA WriteBackContents ==
    ASSUME CopyInv, ContentInv, WriteBack
    PROVE  ContentInv'
<1>1. PICK sorted \in SortOutputs(SortInput(ExtraKey)) :
        LET s == [i \in Slots |-> stash[sorted[i].from]]
        IN  /\ Sorts(SortInput(ExtraKey), sorted)
            /\ tree' = [b \in Buckets |-> [j \in Places |->
                   IF OnPath(call.access_leaf, b)
                   THEN s[(CHOOSE l \in Levels : Path[call.access_leaf][l] = b)
                              * BucketSize + j]
                   ELSE tree[b][j]]]
            /\ stash' = [i \in Slots |-> IF i \in Front THEN Cleared(s[i]) ELSE s[i]]
  BY DEF WriteBack
<1> DEFINE s      == [i \in Slots |-> stash[sorted[i].from]]
           at(b)  == CHOOSE l \in Levels : Path[call.access_leaf][l] = b
           on(b)  == OnPath(call.access_leaf, b)
<1>2. /\ pc = "writeback" /\ pc' = "idle" /\ posmap' = posmap /\ written' = written
      /\ data_ptr' = NoValue /\ call.access_leaf \in Leaves /\ TypeOK
  BY DEF WriteBack, CopyInv, TypeOK, Call
<1>3. /\ \A i \in Slots : sorted[i].from \in Slots
      /\ \A i \in Slots : \E q \in Slots : sorted[q].from = i
  <2> DEFINE arr == SortInput(ExtraKey)
  <2>1. \A i \in Slots : arr[i].from = i
    BY DEF SortInput
  <2>2. Sorts(arr, sorted)
    BY <1>1
  <2> HIDE DEF arr
  <2>3. \A i \in Slots : \E q \in Slots : sorted[q] = arr[i]
    BY <2>2 DEF Sorts
  <2>4. \A i \in Slots : sorted[i].from \in Slots
    BY <2>2 DEF Sorts
  <2> QED
    BY <2>1, <2>3, <2>4
<1>4. /\ tree' = [b \in Buckets |-> [j \in Places |->
                    IF on(b) THEN s[at(b) * BucketSize + j] ELSE tree[b][j]]]
      /\ stash' = [i \in Slots |-> IF i \in Front THEN Cleared(s[i]) ELSE s[i]]
  BY <1>1
<1>5. /\ s \in [Slots -> Block]
      /\ \A i \in Slots : \E q \in Slots : s[q] = stash[i]
  BY <1>2, <1>3 DEF TypeOK
<1>6. ASSUME NEW q \in Front
      PROVE  \E b \in Buckets, j \in Places : tree'[b][j] = s[q]
  <2> DEFINE l == q \div BucketSize
             j == q % BucketSize
             b == Path[call.access_leaf][l]
  <2>1. l \in Levels /\ j \in Places /\ q = l * BucketSize + j
    BY FrontIsOffset
  <2> HIDE DEF l, j
  <2>2. b \in Buckets
    BY <1>2, <2>1, PathAssumption, SizeAssumption DEF Buckets
  <2>3. on(b) /\ at(b) \in Levels /\ Path[call.access_leaf][at(b)] = b
    BY <2>1 DEF OnPath
  <2> HIDE DEF at
  <2>4. at(b) = l
    BY <1>2, <2>1, <2>3, PathAssumption
  <2> HIDE DEF b, on, s
  <2>5. tree'[b][j] = s[at(b) * BucketSize + j]
    BY <1>4, <2>1, <2>2, <2>3
  <2> QED
    BY <2>1, <2>2, <2>4, <2>5
<1> HIDE DEF s, at, on
<1>7. \A block \in Block : ~ Cleared(block).valid
  BY DEF Cleared, Block
<1>8. NoBlockLost'
  <2>1. ASSUME NEW id \in Ids, written[id] # NoValue
        PROVE  \/ \E b \in Buckets, j \in Places :
                    tree'[b][j].valid /\ tree'[b][j].id = id
                    /\ tree'[b][j].data = written[id]
               \/ \E i \in Slots :
                    stash'[i].valid /\ stash'[i].id = id /\ stash'[i].data = written[id]
    <3>1. CASE \E b \in Buckets, j \in Places :
                 tree[b][j].valid /\ tree[b][j].id = id /\ tree[b][j].data = written[id]
      <4>1. PICK b \in Buckets, j \in Places :
                 tree[b][j].valid /\ tree[b][j].id = id /\ tree[b][j].data = written[id]
        BY <3>1
      <4>2. ~ on(b)
        BY <1>2, <4>1 DEF ContentInv, Emptied, on
      <4>3. tree'[b][j] = tree[b][j]
        BY <1>4, <4>1, <4>2
      <4> QED
        BY <4>1, <4>3
    <3>2. CASE \E i \in Slots :
                 stash[i].valid /\ stash[i].id = id /\ stash[i].data = written[id]
      <4>1. PICK q \in Slots : s[q].valid /\ s[q].id = id /\ s[q].data = written[id]
        BY <1>5, <3>2
      <4>2. CASE q \in Front
        BY <1>6, <4>1, <4>2
      <4>3. CASE q \notin Front
        BY <1>4, <4>1, <4>3
      <4> QED
        BY <4>2, <4>3
    <3> QED
      BY <1>2, <2>1, <3>1, <3>2 DEF ContentInv, NoBlockLost
  <2> QED
    BY <1>2, <2>1 DEF NoBlockLost
<1>9. Emptied'
  BY <1>2, <1>4, <1>5, <1>7, FrontInSlots DEF Emptied
<1>10. Known'
  BY <1>2 DEF ContentInv, Known
<1> QED
  BY <1>8, <1>9, <1>10 DEF ContentInv

LEMMA ContentInvAlways ==
    ASSUME TRUE \notin MallocRecycles, RoomForAll
    PROVE  Spec => []ContentInv
<1>1. Init => ContentInv
  BY DEF Init, ContentInv, NoBlockLost, Emptied, Known
<1>2. PathInv /\ ContentInv /\ [Next]_vars => ContentInv'
  <2> SUFFICES ASSUME PathInv, ContentInv, [Next]_vars PROVE ContentInv'
    OBVIOUS
  <2>1. TypeOK /\ CopyInv
    BY DEF PathInv, CopyInv
  <2>2. CASE Init_ORAM
    <3>1. /\ pc = "free" /\ pc' = "idle" /\ data_ptr' = data_ptr
          /\ \A id \in Ids : ~ posmap'[id].valid /\ written'[id] = NoValue
      BY <2>2 DEF Init_ORAM
    <3>2. \A i \in Slots : ~ stash'[i].valid
      BY <2>2 DEF Init_ORAM, ZeroBlock
    <3> QED
      BY <3>1, <3>2, FrontInSlots DEF ContentInv, NoBlockLost, Emptied, Known
  <2>3. CASE Free_ORAM
    BY <2>3 DEF Free_ORAM, ContentInv, NoBlockLost, Emptied, Known
  <2>4. ASSUME NEW op \in {READ, WRITE}, NEW id \in Ids, NEW data,
               op = WRITE => data \in Values,
               NEW random_leaf \in Leaves, NEW new_leaf \in Leaves,
               Access_ORAM(op, id, data, random_leaf, new_leaf)
        PROVE  ContentInv'
    <3>1. /\ pc = "idle" /\ pc' \in {"fetch", "aborted"} /\ data_ptr' = data
          /\ tree' = tree /\ stash' = stash /\ written' = written
          /\ posmap' = Relabel(id, new_leaf)
      BY <2>4 DEF Access_ORAM
    <3>2. \A x \in Ids : x # id => posmap'[x] = posmap[x]
      BY <2>1, <3>1 DEF Relabel, TypeOK
    <3>3. pc' = "fetch" => /\ call'.id = id /\ call'.op = op
                          /\ call'.if_new_data = (~ posmap[id].valid)
                          /\ ~ (op = READ /\ ~ posmap[id].valid)
      BY <2>4 DEF Access_ORAM
    <3>4. NoBlockLost' /\ Emptied'
      BY <3>1 DEF ContentInv, NoBlockLost, Emptied
    <3>5. Known'
      BY <2>4, <3>1, <3>2, <3>3 DEF ContentInv, Known
    <3> QED
      BY <3>4, <3>5 DEF ContentInv
  <2>5. CASE Access_BadId
    BY <2>5 DEF Access_BadId, ContentInv, NoBlockLost, Emptied, Known
  <2>6. CASE Fetch_Blocks
    BY <2>6, FetchBlocksContents DEF ContentInv
  <2>7. CASE AssignSlot
    BY <2>7 DEF AssignSlot, ContentInv, NoBlockLost, Emptied, Known
  <2>8. CASE WriteBack
    BY <2>1, <2>8, WriteBackContents
  <2>9. CASE UNCHANGED vars
    BY <2>9 DEF vars, ContentInv, NoBlockLost, Emptied, Known
  <2>10. CASE Aborted
    BY <2>10 DEF Aborted, vars, ContentInv, NoBlockLost, Emptied, Known
  <2>11. ASSUME NEW id \in Ids, NEW random_leaf \in Leaves, NEW new_leaf \in Leaves,
                \/ Access_ORAM(READ, id, NoValue, random_leaf, new_leaf)
                \/ \E data \in Values : Access_ORAM(WRITE, id, data, random_leaf, new_leaf)
         PROVE  ContentInv'
    <3>1. READ # WRITE
      BY DEF READ, WRITE
    <3> QED
      BY <2>4, <2>11, <3>1
  <2> QED
    BY <2>2, <2>3, <2>5, <2>6, <2>7, <2>8, <2>9, <2>10, <2>11 DEF Next
<1> QED
  BY <1>1, <1>2, PathInvAlways, PTL DEF Spec

\* When the stash has room for every id behind a path and the tree's memory is
\* zeroed, the last data written to an id is held by a valid block, whatever calls
\* are made and whatever labels are drawn.
THEOREM NoBlockLostAlways ==
    ASSUME TRUE \notin MallocRecycles, RoomForAll
    PROVE  Spec => []NoBlockLost
BY ContentInvAlways, PTL DEF ContentInv

---------------------------------------------------------------------------
(* The caller sees a memory. *)

\* An id the position map does not know was never written.
LEMMA UnknownNotWritten ==
    ASSUME CopyInv, ContentInv, pc = "idle", NEW id \in Ids, ~ posmap[id].valid
    PROVE  written[id] = NoValue
BY DEF CopyInv, PosMapKnows, ContentInv, NoBlockLost

\* Access_ORAM accepts exactly the calls a memory accepts.
LEMMA AccessIsAccept ==
    ASSUME CopyInv, ContentInv, NEW op \in {READ, WRITE}, NEW id \in Ids, NEW data,
           NEW random_leaf, NEW new_leaf,
           Access_ORAM(op, id, data, random_leaf, new_leaf)
    PROVE  Memory!Accept(op, id, data) \/ Memory!Reject
<1>1. /\ pc = "idle" /\ written' = written /\ data_ptr' = data /\ data_ptr = NoValue
  BY DEF Access_ORAM, ContentInv, Known
<1>2. CASE op = READ /\ ~ posmap[id].valid
  <2>1. pc' = "aborted" /\ call' = call
    BY <1>2 DEF Access_ORAM
  <2>2. written[id] = NoValue
    BY <1>1, <1>2, UnknownNotWritten
  <2> QED
    BY <1>1, <2>1, <2>2 DEF Memory!Reject
<1>3. CASE ~ (op = READ /\ ~ posmap[id].valid)
  <2>1. pc' = "fetch" /\ call'.op = op /\ call'.id = id /\ id # NoId
    BY <1>3, IdAssumption DEF Access_ORAM
  <2>2. op = "READ" => written[id] # NoValue
    BY <1>1, <1>3 DEF ContentInv, Known, READ
  <2> QED
    BY <1>1, <2>1, <2>2 DEF Memory!Accept
<1> QED
  BY <1>2, <1>3

\* When the stash has room for every id behind a path and the tree's memory is
\* zeroed, the ORAM implements the memory its header promises: a READ returns the
\* data of the last WRITE, and only the calls that must fail do.
THEOREM ImplementsMemory ==
    ASSUME TRUE \notin MallocRecycles, RoomForAll
    PROVE  Spec => IsMemory
<1>1. Init => Memory!Init
  BY DEF Init, NoCall, Memory!Init, Memory!Empty
<1>2. PathInv /\ ContentInv /\ [Next]_vars => [Memory!Next]_(Memory!mvars)
  <2> SUFFICES ASSUME PathInv, ContentInv, [Next]_vars
               PROVE  Memory!Next \/ UNCHANGED Memory!mvars
    OBVIOUS
  <2>1. TypeOK /\ CopyInv
    BY DEF PathInv, CopyInv
  <2>2. CASE Init_ORAM
    <3>1. Memory!Open
      BY <2>2 DEF Init_ORAM, Memory!Open, Memory!Empty
    <3> QED
      BY <3>1 DEF Memory!Next
  <2>3. CASE Free_ORAM
    <3>1. Memory!Close
      BY <2>3 DEF Free_ORAM, Memory!Close
    <3> QED
      BY <3>1 DEF Memory!Next
  <2>4. ASSUME NEW id \in Ids, NEW random_leaf \in Leaves, NEW new_leaf \in Leaves,
               Access_ORAM(READ, id, NoValue, random_leaf, new_leaf)
        PROVE  Memory!Next
    <3>1. Memory!Accept(READ, id, NoValue) \/ Memory!Reject
      BY <2>1, <2>4, AccessIsAccept
    <3> QED
      BY <3>1 DEF Memory!Next, READ
  <2>5. ASSUME NEW id \in Ids, NEW random_leaf \in Leaves, NEW new_leaf \in Leaves,
               NEW data \in Values,
               Access_ORAM(WRITE, id, data, random_leaf, new_leaf)
        PROVE  Memory!Next
    <3>1. Memory!Accept(WRITE, id, data) \/ Memory!Reject
      BY <2>1, <2>5, AccessIsAccept
    <3> QED
      BY <3>1 DEF Memory!Next, WRITE
  <2>6. CASE Access_BadId
    <3>1. Memory!Reject
      BY <2>6 DEF Access_BadId, ContentInv, Known, Memory!Reject
    <3> QED
      BY <3>1 DEF Memory!Next
  <2>7. CASE Fetch_Blocks
    <3>1. /\ pc = "fetch" /\ pc' = "assign" /\ call' = call
          /\ call.id # NoId /\ call.op \in {READ, WRITE}
      BY <2>1, <2>7, IdAssumption DEF Fetch_Blocks, TypeOK, Call
    <3>2. call.op = WRITE => /\ written' = [written EXCEPT ![call.id] = data_ptr]
                            /\ data_ptr' = data_ptr
      BY <2>7 DEF Fetch_Blocks, READ, WRITE
    <3>3. call.op = READ => written' = written /\ data_ptr' = written[call.id]
      BY <2>7, FetchBlocksContents DEF Fetch_Blocks, ContentInv, READ, WRITE
    <3>4. Memory!Perform
      <4>1. CASE call.op = WRITE
        BY <3>1, <3>2, <4>1 DEF Memory!Perform, WRITE
      <4>2. CASE call.op = READ
        BY <3>1, <3>3, <4>2 DEF Memory!Perform, READ
      <4> QED
        BY <3>1, <4>1, <4>2
    <3> QED
      BY <3>4 DEF Memory!Next
  <2>8. CASE AssignSlot
    <3>1. /\ pc = "assign" /\ pc' \in {"assign", "writeback"}
          /\ call' = call /\ data_ptr' = data_ptr /\ written' = written
      BY <2>8 DEF AssignSlot
    <3> QED
      BY <3>1 DEF Memory!mvars
  <2>9. CASE WriteBack
    <3>1. /\ pc = "writeback" /\ pc' = "idle"
          /\ call' = NoCall /\ data_ptr' = NoValue /\ written' = written
      BY <2>9 DEF WriteBack
    <3>2. Memory!Return
      BY <3>1 DEF Memory!Return, NoCall
    <3> QED
      BY <3>2 DEF Memory!Next
  <2>10. CASE UNCHANGED vars \/ Aborted
    BY <2>10 DEF Aborted, vars, Memory!mvars
  <2> QED
    BY <2>2, <2>3, <2>4, <2>5, <2>6, <2>7, <2>8, <2>9, <2>10 DEF Next
<1> QED
  BY <1>1, <1>2, PathInvAlways, ContentInvAlways, PTL DEF Spec, IsMemory, Memory!Spec
=============================================================================
