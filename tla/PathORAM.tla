------------------------------ MODULE PathORAM ------------------------------
(***************************************************************************)
(* primitives/path_oram: a Path ORAM whose position map, stash and         *)
(* write-back are scanned and sorted obliviously.  One call of Access_ORAM *)
(* is the sequence of actions                                              *)
(*                                                                         *)
(*   Access_ORAM   checks the arguments, draws the two leaves and runs     *)
(*                 Retrieve_LeafLabel;                                     *)
(*   Fetch_Blocks  moves the accessed path into the front of the stash and *)
(*                 reads, writes or creates the block;                     *)
(*   AssignSlot    one iteration of the first loop of Store_Blocks, for    *)
(*                 each stash slot in turn;                                *)
(*   WriteBack     the rest of Store_Blocks: the extra keys, the sort and  *)
(*                 the copy of the front of the stash to the path.         *)
(*                                                                         *)
(* The program is sequential: pc says which of them runs next.             *)
(***************************************************************************)
EXTENDS Integers, FiniteSets, Sort, PathLevels

CONSTANTS
    Ids,            \* block ids 0 .. num_real_blocks-1, compared only for equality
    BadIds,         \* ids a caller may pass that fail the range check
    Values,         \* contents of a block, copied as a whole
    NoValue,        \* contents nobody wrote
    NoId,           \* id of memory nobody wrote
    Depth,          \* oram_tree.depth, number of levels
    BucketSize,     \* oram_controller.bucket_size
    StashSize,      \* oram_controller.stash.size
    NumBuckets,     \* oram_controller.num_buckets; bucket 0 is allocated, never used
    Path,           \* Path[leaf][level]: the bucket_idx of the walk to leaf
    MallocRecycles  \* what malloc may return for the tree: FALSE for zeroed pages,
                    \* TRUE for the chunk the previous Free_ORAM gave back

READ  == "READ"
WRITE == "WRITE"
max_int == 268435455      \* 0xfffffff

Leaves  == DOMAIN Path
Levels  == 0 .. (Depth - 1)
Buckets == 0 .. NumBuckets
Places  == 0 .. (BucketSize - 1)
Slots   == 0 .. (StashSize - 1)
PathLen == BucketSize * Depth
Front   == 0 .. (PathLen - 1)

\* Init_ORAM asserts oram_depth <= 15; roundToPowerOf2 returns more than its
\* argument bucket_size * oram_depth + C, with C >= 0.
ASSUME SizeAssumption ==
    /\ Depth \in Nat \ {0} /\ Depth <= 15
    /\ BucketSize \in Nat \ {0}
    /\ StashSize \in Nat /\ StashSize > BucketSize * Depth
    /\ StashSize < max_int
    /\ NumBuckets \in Nat \ {0}
    /\ MallocRecycles \subseteq BOOLEAN

\* The walk to a leaf visits one bucket per level, starts at the root, never
\* meets a bucket at two levels, and two walks that meet at a level have met at
\* every level above it.
ASSUME PathAssumption ==
    /\ 0 \in Leaves
    /\ Path \in [Leaves -> [Levels -> 1 .. NumBuckets]]
    /\ \A a \in Leaves : Path[a][0] = 1
    /\ \A a, b \in Leaves : \A l, m \in Levels :
          Path[a][l] = Path[b][m] => l = m
    /\ \A a, b \in Leaves : \A l, m \in Levels :
          l <= m /\ Path[a][m] = Path[b][m] => Path[a][l] = Path[b][l]

ASSUME IdAssumption ==
    /\ NoId \notin Ids
    /\ NoValue \notin Values
    /\ BadIds \cap Ids = {}

VARIABLES
    pc,         \* control point of the one thread
    tree,       \* oram_tree.oram: bucket -> place -> block
    posmap,     \* oram_controller.pos_map.entries
    stash,      \* oram_controller.stash.info and .data, without the sort key
    key,        \* stash.info[i].key
    wb_path,    \* Store_Blocks: what is assigned to each place of the path
    occupied,   \* Store_Blocks: number of blocks assigned to each level
    slot,       \* Store_Blocks: loop counter i
    call,       \* arguments and locals of the running Access_ORAM
    data_ptr,   \* what the caller's buffer holds
    written     \* history: the last data written to each id since Init_ORAM

vars == <<pc, tree, posmap, stash, key, wb_path, occupied, slot, call, data_ptr,
          written>>

---------------------------------------------------------------------------
(* Data. *)

\* ORAM_Block and its data, also one stash slot.  The id and the data of an
\* invalid block are never read (every use is under "valid"), so clearing the
\* valid flag forgets them; its leaf is read by Store_Blocks and is kept.
Block == [valid : BOOLEAN, id : Ids \cup {NoId}, leaf : Leaves,
          data : Values \cup {NoValue}]

ZeroBlock == [valid |-> FALSE, id |-> NoId, leaf |-> 0, data |-> NoValue]

Cleared(block) == [block EXCEPT !.valid = FALSE, !.id = NoId, !.data = NoValue]

\* A uint16_t position map entry, leaf | 0x8000 when valid: labels are below
\* 2^14, so packing and masking lose nothing.
PosMapEntry == [valid : BOOLEAN, leaf : Leaves]

Call == [op : {READ, WRITE}, id : Ids, access_leaf : Leaves, new_leaf : Leaves,
         if_new_data : BOOLEAN]

NoCall == [op |-> "none", id |-> NoId, access_leaf |-> 0, new_leaf |-> 0,
           if_new_data |-> FALSE]

\* Store_Blocks starts by resetting these three; what they hold between two
\* calls is not read, and the model leaves them reset.
ResetKey      == [i \in Slots |-> max_int]
ResetWbPath   == [o \in Front |-> -1]
ResetOccupied == [l \in Levels |-> 0]

---------------------------------------------------------------------------
(* Init_ORAM and Free_ORAM. *)

\* Init_ORAM_Tree: every iteration of its loop clears the same block, number 1
\* in the array; the others keep what malloc returned.
InitTree(memory) ==
    [memory EXCEPT ![1 \div BucketSize][1 % BucketSize] = Cleared(@)]

Init ==
    /\ pc = "free"
    /\ tree = [b \in Buckets |-> [j \in Places |-> ZeroBlock]]
    /\ posmap = [id \in Ids |-> [valid |-> FALSE, leaf |-> 0]]
    /\ stash = [i \in Slots |-> ZeroBlock]
    /\ key = ResetKey
    /\ wb_path = ResetWbPath
    /\ occupied = ResetOccupied
    /\ slot = 0
    /\ call = NoCall
    /\ data_ptr = NoValue
    /\ written = [id \in Ids |-> NoValue]

\* The position map and the stash come from calloc.
Init_ORAM ==
    /\ pc = "free"
    /\ pc' = "idle"
    /\ \E recycled \in MallocRecycles :
          tree' = InitTree(IF recycled THEN tree
                           ELSE [b \in Buckets |-> [j \in Places |-> ZeroBlock]])
    /\ posmap' = [id \in Ids |-> [valid |-> FALSE, leaf |-> 0]]
    /\ stash' = [i \in Slots |-> ZeroBlock]
    /\ written' = [id \in Ids |-> NoValue]
    /\ UNCHANGED <<key, wb_path, occupied, slot, call, data_ptr>>

\* The chunks go back to the allocator with their contents.
Free_ORAM ==
    /\ pc = "idle"
    /\ pc' = "free"
    /\ UNCHANGED <<tree, posmap, stash, key, wb_path, occupied, slot, call,
                   data_ptr, written>>

---------------------------------------------------------------------------
(* Access_ORAM up to Fetch_Blocks. *)

\* Mutant: the entry keeps its old leaf.
Relabel_OldLeaf(id, new_leaf) == [posmap EXCEPT ![id].valid = TRUE]

\* The scan of Retrieve_LeafLabel: the entry of id becomes valid with the new
\* leaf, the others are written back as they were.
Relabel(id, new_leaf) ==
    [posmap EXCEPT ![id] = [valid |-> TRUE, leaf |-> new_leaf]]

\* A known id is looked for on the path of its label, a new one on a random path.
AccessLeaf(id, random_leaf) ==
    IF posmap[id].valid THEN posmap[id].leaf ELSE random_leaf

\* Both leaves are GenRandLeaf(), so any label.  A READ of an id that was never
\* written fails the assertion, after the position map was changed.
Access_ORAM(op, id, data, random_leaf, new_leaf) ==
    LET if_new_data == ~ posmap[id].valid
    IN  /\ pc = "idle"
        /\ posmap' = Relabel(id, new_leaf)
        /\ data_ptr' = data
        /\ IF op = READ /\ if_new_data
           THEN /\ pc' = "aborted"
                /\ UNCHANGED call
           ELSE /\ pc' = "fetch"
                /\ call' = [op |-> op, id |-> id, new_leaf |-> new_leaf,
                            access_leaf |-> AccessLeaf(id, random_leaf),
                            if_new_data |-> if_new_data]
        /\ UNCHANGED <<tree, stash, key, wb_path, occupied, slot, written>>

\* The range check of Access_ORAM.
Access_BadId ==
    /\ pc = "idle"
    /\ BadIds # {}
    /\ pc' = "aborted"
    /\ UNCHANGED <<tree, posmap, stash, key, wb_path, occupied, slot, call,
                   data_ptr, written>>

---------------------------------------------------------------------------
(* Fetch_Blocks. *)

\* The slot in front of the stash where the k-th block of the path goes, and
\* whence it comes: place k % BucketSize of level k \div BucketSize.
PathBlock(leaf, k) == tree[Path[leaf][k \div BucketSize]][k % BucketSize]

\* The whole path overwrites the front of the stash, whatever is there.
Fetched(leaf) ==
    [i \in Slots |-> IF i \in Front THEN PathBlock(leaf, i) ELSE stash[i]]

OnPath(leaf, b) == \E l \in Levels : Path[leaf][l] = b

\* Mutant: the valid flag of the copied block is not cleared.
EmptiedPath_Kept(leaf) == tree

EmptiedPath(leaf) ==
    [b \in Buckets |-> IF OnPath(leaf, b)
                       THEN [j \in Places |-> Cleared(tree[b][j])]
                       ELSE tree[b]]

Matches(s, id) == {i \in Slots : s[i].valid /\ s[i].id = id}

\* write_new_block: the first slot of the scan that is not valid.
NewBlockSlot(s, i) == ~ s[i].valid /\ \A j \in 0 .. (i - 1) : s[j].valid

\* Mutants: a matching slot keeps its leaf; a WRITE does not reach a matching
\* slot.
Scanned_OldLeaf(s, c, data) ==
    [i \in Slots |->
       IF c.if_new_data /\ NewBlockSlot(s, i)
       THEN [valid |-> TRUE, id |-> c.id, leaf |-> c.new_leaf, data |-> data]
       ELSE IF i \in Matches(s, c.id) /\ c.op = WRITE
       THEN [s[i] EXCEPT !.data = data]
       ELSE s[i]]

Scanned_NoOverwrite(s, c, data) ==
    [i \in Slots |->
       IF c.if_new_data /\ NewBlockSlot(s, i)
       THEN [valid |-> TRUE, id |-> c.id, leaf |-> c.new_leaf, data |-> data]
       ELSE IF i \in Matches(s, c.id) THEN [s[i] EXCEPT !.leaf = c.new_leaf]
       ELSE s[i]]

\* The second loop: matching slots are relabelled and, for a WRITE, take the
\* data; a new block goes to the first free slot, or nowhere if there is none.
Scanned(s, c, data) ==
    [i \in Slots |->
       IF c.if_new_data /\ NewBlockSlot(s, i)
       THEN [valid |-> TRUE, id |-> c.id, leaf |-> c.new_leaf, data |-> data]
       ELSE IF i \in Matches(s, c.id)
       THEN [s[i] EXCEPT !.leaf = c.new_leaf,
                         !.data = IF c.op = WRITE THEN data ELSE @]
       ELSE s[i]]

\* For a READ the last matching slot of the scan is what the buffer keeps.
ReadOut(s, id) ==
    LET found == Matches(s, id)
    IN  \/ found = {} /\ UNCHANGED data_ptr
        \/ \E i \in found : /\ \A j \in found : j <= i
                            /\ data_ptr' = s[i].data

Fetch_Blocks ==
    LET s == Fetched(call.access_leaf)
    IN  /\ pc = "fetch"
        /\ pc' = "assign"
        /\ tree' = EmptiedPath(call.access_leaf)
        /\ stash' = Scanned(s, call, data_ptr)
        /\ IF call.op = READ THEN ReadOut(s, call.id) ELSE UNCHANGED data_ptr
        /\ written' = IF call.op = WRITE
                      THEN [written EXCEPT ![call.id] = data_ptr] ELSE written
        /\ UNCHANGED <<posmap, key, wb_path, occupied, slot, call>>

---------------------------------------------------------------------------
(* Store_Blocks. *)

\* One iteration of the loop over the stash.  PushBack is asked for every slot,
\* valid or not; when it returns a level, wb_path is written there even if the
\* slot is not valid (with 0), while occupied and the key count valid slots only.
\* With level -1 the offset is negative and both scans write nothing.
AssignSlot ==
    /\ pc = "assign"
    /\ \E level \in Levels \cup {-1} :
         LET cond   == stash[slot].valid /\ level > -1
             offset == level * BucketSize + occupied[level]
         IN  /\ IsDeepestFree(level, Path[call.access_leaf], Path[stash[slot].leaf],
                              occupied, BucketSize)
             /\ wb_path' = IF level > -1
                           THEN [wb_path EXCEPT ![offset] = IF cond THEN slot ELSE 0]
                           ELSE wb_path
             /\ occupied' = IF cond THEN [occupied EXCEPT ![level] = @ + 1]
                            ELSE occupied
             /\ key' = [key EXCEPT ![slot] = IF cond THEN offset ELSE max_int]
    /\ IF slot = StashSize - 1
       THEN slot' = 0 /\ pc' = "writeback"
       ELSE slot' = slot + 1 /\ pc' = "assign"
    /\ UNCHANGED <<tree, posmap, stash, call, data_ptr, written>>

\* The loop over wb_path gives each offset still at -1 to the first slot that is
\* not valid.  The slot stays not valid, so it is the same one for every offset
\* and keeps the last.
ExtraKey ==
    LET unassigned == {o \in Front : wb_path[o] = -1}
    IN  [i \in Slots |->
           IF unassigned # {} /\ NewBlockSlot(stash, i)
           THEN CHOOSE o \in unassigned : \A q \in unassigned : q <= o
           ELSE key[i]]

\* The array handed to store_sort_func: ordered by key, then by valid, both
\* ascending; the rest of a slot travels with its number.
SortInput(k) ==
    [i \in Slots |-> [key1 |-> k[i], key2 |-> IF stash[i].valid THEN 1 ELSE 0,
                      from |-> i]]

StashNetwork == BitonicNetwork(StashSize, ASCENDING, ASCENDING)

\* store_sort_func points to one of the two sorts for the life of the ORAM.  They
\* may order slots with equal keys differently; the model lets either run.
SortOutputs(arr) == {MergeSort(arr, StashSize, ASCENDING, ASCENDING),
                     BitonicSort(arr, StashNetwork)}

\* What either sort promises: the slots in a new order that the keys ascend in.
\* Module Algorithms establishes it for both.
Sorts(arr, sorted) ==
    /\ sorted \in [Slots -> [key1 : Int, key2 : Int, from : Slots]]
    /\ \A i \in Slots : \E j \in Slots : sorted[j] = arr[i]
    /\ \A i \in Slots : sorted[i] = arr[sorted[i].from]
    /\ \A i, j \in Slots : sorted[i].from = sorted[j].from => i = j
    /\ InOrder(sorted, ASCENDING, ASCENDING)

\* The copy to the path: place j of level l takes slot l * BucketSize + j of the
\* sorted stash, whose valid flag is cleared.
WriteBack ==
    /\ pc = "writeback"
    /\ LET arr == SortInput(ExtraKey) IN
       \E sorted \in SortOutputs(arr) :
         LET s    == [i \in Slots |-> stash[sorted[i].from]]
             path == Path[call.access_leaf]
         IN  /\ Sorts(arr, sorted)
             /\ tree' = [b \in Buckets |->
                           [j \in Places |->
                              IF OnPath(call.access_leaf, b)
                              THEN s[(CHOOSE l \in Levels : path[l] = b)
                                         * BucketSize + j]
                              ELSE tree[b][j]]]
             /\ stash' = [i \in Slots |-> IF i \in Front THEN Cleared(s[i]) ELSE s[i]]
    /\ pc' = "idle"
    /\ key' = ResetKey /\ wb_path' = ResetWbPath /\ occupied' = ResetOccupied
    /\ call' = NoCall /\ data_ptr' = NoValue
    /\ UNCHANGED <<posmap, slot, written>>

---------------------------------------------------------------------------
\* assert(0) ended the program.
Aborted == pc = "aborted" /\ UNCHANGED vars

Next ==
    \/ Init_ORAM
    \/ Free_ORAM
    \/ \E id \in Ids, random_leaf, new_leaf \in Leaves :
          \/ Access_ORAM(READ, id, NoValue, random_leaf, new_leaf)
          \/ \E data \in Values : Access_ORAM(WRITE, id, data, random_leaf, new_leaf)
    \/ Access_BadId
    \/ Fetch_Blocks
    \/ AssignSlot
    \/ WriteBack
    \/ Aborted

Spec == Init /\ [][Next]_vars

---------------------------------------------------------------------------
(* Properties. *)

TypeOK ==
    /\ pc \in {"free", "idle", "fetch", "assign", "writeback", "aborted"}
    /\ tree \in [Buckets -> [Places -> Block]]
    /\ posmap \in [Ids -> PosMapEntry]
    /\ stash \in [Slots -> Block]
    /\ key \in [Slots -> Front \cup {max_int}]
    /\ wb_path \in [Front -> Slots \cup {-1}]
    /\ occupied \in [Levels -> 0 .. BucketSize]
    /\ slot \in Slots
    /\ call \in Call \cup {NoCall}
    /\ pc \in {"fetch", "assign", "writeback"} => call \in Call
    /\ data_ptr \in Values \cup {NoValue}
    /\ written \in [Ids -> Values \cup {NoValue}]

\* The label under which a block is filed: Retrieve_LeafLabel has already put the
\* new one in the position map when Fetch_Blocks looks for it under the old one.
Label(id) ==
    IF pc = "fetch" /\ call.id = id THEN call.access_leaf ELSE posmap[id].leaf

\* Path ORAM invariant: a valid block of the tree lies on the path of its own
\* label, and carries the label the position map files it under, wherever it is.
\* (Retrieve_LeafLabel, Fetch_Blocks and Store_Blocks must agree for this.)
OnItsPath ==
    pc \notin {"free", "aborted"} =>
      /\ \A b \in Buckets, j \in Places :
           tree[b][j].valid => /\ OnPath(tree[b][j].leaf, b)
                               /\ tree[b][j].leaf = Label(tree[b][j].id)
      /\ \A i \in Slots : stash[i].valid => stash[i].leaf = Label(stash[i].id)

\* Moving blocks between the tree and the stash never leaves two valid copies of
\* an id: a stale copy would be read, or relabelled, in place of the other.
OneCopy ==
    pc # "free" =>
      /\ \A b1, b2 \in Buckets, j1, j2 \in Places :
           /\ tree[b1][j1].valid /\ tree[b2][j2].valid
           /\ tree[b1][j1].id = tree[b2][j2].id
           => b1 = b2 /\ j1 = j2
      /\ \A i1, i2 \in Slots :
           stash[i1].valid /\ stash[i2].valid /\ stash[i1].id = stash[i2].id => i1 = i2
      /\ \A b \in Buckets, j \in Places, i \in Slots :
           ~ (tree[b][j].valid /\ stash[i].valid /\ tree[b][j].id = stash[i].id)

\* The position map knows every valid block: its entry is valid from before the
\* block is created to the end, so a call that takes its id for new is right and
\* Fetch_Blocks creates no second block beside one that exists.
PosMapKnows ==
    pc # "free" =>
      /\ \A b \in Buckets, j \in Places :
           tree[b][j].valid => tree[b][j].id \in Ids /\ posmap[tree[b][j].id].valid
      /\ \A i \in Slots :
           stash[i].valid => stash[i].id \in Ids /\ posmap[stash[i].id].valid
      /\ pc = "fetch" => posmap[call.id].valid
      /\ pc = "fetch" /\ call.if_new_data =>
           /\ \A b \in Buckets, j \in Places :
                tree[b][j].valid => tree[b][j].id # call.id
           /\ \A i \in Slots : stash[i].valid => stash[i].id # call.id

\* No access loses a block: what was last written to an id since Init_ORAM is
\* held by a valid block of the tree or of the stash.
NoBlockLost ==
    pc # "free" =>
      \A id \in Ids : written[id] # NoValue =>
        \/ \E b \in Buckets, j \in Places :
             tree[b][j].valid /\ tree[b][j].id = id /\ tree[b][j].data = written[id]
        \/ \E i \in Slots :
             stash[i].valid /\ stash[i].id = id /\ stash[i].data = written[id]

\* Whichever sort store_sort_func points to brings the stash, with its many equal
\* keys, into the order Store_Blocks relies on: WriteBack excludes no result.
SortsTheStash ==
    pc = "writeback" =>
      \A sorted \in SortOutputs(SortInput(ExtraKey)) : Sorts(SortInput(ExtraKey), sorted)

\* Eviction is greedy: a block stays in the stash only when every bucket of the
\* accessed path that it could be in is full of valid blocks, even though the
\* blocks are not written to the places Store_Blocks assigned them.
EvictionIsGreedy ==
    [][ pc = "writeback" =>
          \A i \in Slots : stash'[i].valid =>
            \A l \in Levels :
              LET b == Path[call.access_leaf][l]
              IN  OnPath(stash'[i].leaf, b) => \A j \in Places : tree'[b][j].valid
      ]_vars

\* The caller sees a memory: a READ returns the last WRITE, a call takes effect at
\* one instant, and only the calls that must fail do.
Memory == INSTANCE OramMemory WITH
    phase  <- CASE pc = "free"    -> "down"
                [] pc = "idle"    -> "idle"
                [] pc = "fetch"   -> "called"
                [] pc = "aborted" -> "aborted"
                [] OTHER          -> "done",
    op     <- call.op,
    id     <- IF call.id = NoId THEN NoValue ELSE call.id,
    buffer <- IF pc = "aborted" THEN NoValue ELSE data_ptr,
    mem    <- written

IsMemory == Memory!Spec
=============================================================================
