----------------------------- MODULE Coherence -----------------------------
(***************************************************************************)
(* The NMOESI cache coherence protocol of the memory system                *)
(* (memory/SystemEvents.cc, with the directory, cache and module it works  *)
(* on).  A tree of modules, the processors' caches at the top and main     *)
(* memory at the bottom, runs accesses; every access is a stack of frames, *)
(* and one handler of one frame is one step.                               *)
(*                                                                         *)
(* A frame is named by its call path: the access, then the module of every *)
(* call below it.  Latencies and the network only decide when a scheduled  *)
(* handler runs, so a ready frame may run at any time.  A handler that     *)
(* only sends a message or only schedules the next one is part of the step *)
(* before it.  All modules have one set and one block size (so one         *)
(* sub-block per block), and replacement is the Random policy.             *)
(***************************************************************************)
EXTENDS Integers, Sequences, FiniteSets, SequencesExt, FiniteSetsExt, TLC

CONSTANTS
  Modules,      \* the modules of the hierarchy
  MainMemory,   \* the one at the bottom
  Low,          \* the module below every other one
  NumWays,      \* number of ways of every module
  NumPorts,     \* number of ports of every module
  Blocks,       \* block addresses
  Slots,        \* names of the accesses in flight
  Kinds,        \* the kinds of access the processors make
  MaxAccesses,  \* accesses made in all; 0 for no bound
  None          \* no block, no module, no access

VARIABLES
  cache,    \* cache[m][w]: tag, state and transient tag of a block
  dir,      \* dir[m][w]: the sharers and the owner of a block
  lock,     \* lock[m][w]: the access that holds the directory entry
  frames,   \* the frames of the accesses in flight
  accs,     \* accs[m]: the accesses of a module, oldest first
  portq,    \* portq[m]: the frames that wait for a port
  behind,   \* the blocks whose last store main memory was not given
  issued    \* number of accesses made, when they are bounded

vars == <<cache, dir, lock, frames, accs, portq, behind, issued>>

States == {"I", "N", "M", "O", "E", "S"}
Dirty == {"M", "O", "N"}
Ways(m) == 1 .. NumWays[m]
Above(m) == {x \in Modules \ {MainMemory} : Low[x] = m}
Entries == {m \in Modules : Above(m) = {}}

ASSUME HierarchyAssumption ==
  /\ MainMemory \in Modules
  /\ Low \in [Modules \ {MainMemory} -> Modules]
  /\ NumWays \in [Modules -> Nat \ {0}]
  /\ NumPorts \in Nat \ {0}
  /\ None \notin Modules \cup Blocks \cup Slots
  /\ Kinds \subseteq {"load", "store", "nc_store"}

-----------------------------------------------------------------------------
(* Frames, and the calls, returns and queues of the event engine.          *)

Ready == <<"ready">>
Called == <<"called">>

\* A new frame: the next event, what it waits for, and the fields of Frame.h.
Blank ==
  [ev |-> "", st |-> Ready, mod |-> None, tgt |-> None, blk |-> None,
   dir |-> "none", blocking |-> FALSE, port |-> FALSE, port_locked |-> FALSE,
   way |-> 0, src_way |-> 0, state |-> "I", hit |-> FALSE, eviction |-> FALSE,
   error |-> FALSE, block_not_found |-> FALSE, shared |-> FALSE,
   nc_write |-> FALSE, except |-> None, pending |-> 0, reply |-> 0, size |-> 0,
   access |-> "none", master |-> None]

Parent(f) == Front(f)
Slot(f) == Head(f)

\* Handler "ev" of frame f is due.
At(f, ev) == frames[f].ev = ev /\ frames[f].st = Ready

\* Replies in the order of Frame::ReplyType.
NoReply == 0
Ack == 1
AckData == 2
SetReplyIfHigher(fs, f, reply) ==
  [fs EXCEPT ![f].reply = IF reply > @ THEN reply ELSE @]

Continue(fs, f, ev) == [fs EXCEPT ![f].ev = ev]

Call(fs, f, ret, m, child) ==
  (Append(f, m) :> child) @@ [fs EXCEPT ![f].ev = ret, ![f].st = Called]

\* The network hands its messages to a node one at a time, so a frame with
\* several calls handles one return before the next arrives.
CanReturn(f) == frames[Parent(f)].st = Called
Return(fs, f) ==
  [g \in DOMAIN fs \ {f} |->
     IF g = Parent(f) THEN [fs[g] EXCEPT !.st = Ready] ELSE fs[g]]

Wakeup(fs, queue) ==
  [g \in DOMAIN fs |->
     IF fs[g].st = queue THEN [fs[g] EXCEPT !.st = Ready] ELSE fs[g]]

-----------------------------------------------------------------------------
(* Blocks, directory entries, their locks, and ports.                      *)

SetBlock(m, w, tag, state) ==
  cache' = [cache EXCEPT ![m][w].tag = tag, ![m][w].state = state]

IsBlockSharedOrOwned(m, w) ==
  dir[m][w].sharers # {} \/ dir[m][w].owner # None

\* Mutant of FindBlock: the transient tag is not looked at.
FindBlockByTag(m, b) ==
  {w \in Ways(m) : cache[m][w].tag = b /\ cache[m][w].state # "I"}

\* The ways whose block is b, or is about to be: the transient tag of a locked
\* entry counts.
FindBlock(m, b) ==
  {w \in Ways(m) :
     \/ cache[m][w].tag = b /\ cache[m][w].state # "I"
     \/ cache[m][w].ttag = b /\ lock[m][w] # None}

LockQueue(m, w) == <<"lock", m, w>>
\* Mutant of UnlockEntry: the queue of the entry is not woken up.
UnlockEntrySilently(fs, m, w) == fs

UnlockEntry(fs, m, w) == Wakeup(fs, LockQueue(m, w))
EntryUnlocked(m, w) == lock' = [lock EXCEPT ![m][w] = None]

NumLockedPorts(m) ==
  Cardinality({f \in DOMAIN frames : frames[f].mod = m /\ frames[f].port})

\* A released port goes to the first frame that waits for one.
UnlockPort(fs, f) ==
  LET m == fs[f].mod
      freed == [fs EXCEPT ![f].port = FALSE, ![Parent(f)].port_locked = FALSE]
  IN  IF portq[m] = <<>> THEN freed
      ELSE [freed EXCEPT ![Head(portq[m])].port = TRUE,
                         ![Head(portq[m])].st = Ready]
PortUnlocked(m) ==
  portq' = [portq EXCEPT ![m] = IF @ = <<>> THEN @ ELSE Tail(@)]

-----------------------------------------------------------------------------
(* The calls: a new frame, with the first event of its handler when that   *)
(* only resets the caller's flags and sends the request.                   *)

CallFindAndLock(fs, f, ret, m, b, d, blocking) ==
  Call(fs, f, ret, m,
       [Blank EXCEPT !.ev = "find_and_lock", !.mod = m, !.blk = b, !.dir = d,
                     !.blocking = blocking])

CallReadRequest(fs, f, ret, from, to, b, d, nc) ==
  Call([fs EXCEPT ![f].error = FALSE, ![f].shared = FALSE], f, ret, to,
       [Blank EXCEPT !.ev = "read_request_receive", !.mod = from, !.tgt = to,
                     !.blk = b, !.dir = d, !.nc_write = nc])

CallWriteRequest(fs, f, ret, from, to, b, d) ==
  Call([fs EXCEPT ![f].error = FALSE], f, ret, to,
       [Blank EXCEPT !.ev = "write_request_receive", !.mod = from, !.tgt = to,
                     !.blk = b, !.dir = d])

CallMessage(fs, f, ret, from, to, b) ==
  Call([fs EXCEPT ![f].error = FALSE], f, ret, to,
       [Blank EXCEPT !.ev = "message_receive", !.mod = from, !.tgt = to,
                     !.blk = b])

CallInvalidate(fs, f, ret, m, w, except) ==
  Call(fs, f, ret, m,
       [Blank EXCEPT !.ev = "invalidate", !.mod = m, !.way = w,
                     !.except = except])

\* event_evict: the block of an entry goes to the module below, once no module
\* above has it.
CallEvict(fs, f, ret, m, w) ==
  LET child == Append(f, m)
      called == Call([fs EXCEPT ![f].error = FALSE], f, ret, m,
        [Blank EXCEPT !.mod = m, !.src_way = w, !.way = w,
                      !.blk = cache[m][w].tag, !.state = cache[m][w].state,
                      !.tgt = IF m = MainMemory THEN None ELSE Low[m]])
  IN  CallInvalidate(called, child, "evict_invalid", m, w, None)

-----------------------------------------------------------------------------
(* The list of accesses of a module.                                       *)

Older(m, s) ==
  SubSeq(accs[m], 1, (CHOOSE i \in DOMAIN accs[m] : accs[m][i] = s) - 1)
Access(s) == frames[<<s>>]

\* getInFlightWrite: the nearest older store; getInFlightAddress: the oldest
\* access to the same block.
InFlightWrite(m, s) ==
  {i \in 1 .. Len(Older(m, s)) : Access(accs[m][i]).access = "store"}
InFlightAddress(m, s) ==
  {i \in 1 .. Len(Older(m, s)) : Access(accs[m][i]).blk = Access(s).blk}

\* canCoalesce, for a new access at the end of the list: a load joins the
\* nearest load of its block when only loads are in between, a store and a
\* non-coherent store the access just before them while it has no port.
CanCoalesce(m, kind, b) ==
  LET n == Len(accs[m])
      Same(i) == Access(accs[m][i]).blk = b
      Is(i) == Access(accs[m][i]).access = kind
      near == {i \in 1 .. n : Same(i) /\ \A j \in i .. n : Is(j)}
      last == {i \in {n} \ {0} :
                 Same(i) /\ Is(i) /\ ~Access(accs[m][i]).port_locked}
      \* the one it joins, or the one that one has joined
      found == IF kind = "load" THEN near ELSE last
  IN  IF found = {} THEN None
      ELSE LET s == accs[m][Max(found)]
           IN  IF Access(s).master = None THEN s ELSE Access(s).master

LockEvent == [load |-> "load_lock", store |-> "store_lock",
              nc_store |-> "nc_store_lock"]
FinishEvent == [load |-> "load_finish", store |-> "store_finish",
                nc_store |-> "nc_store_finish"]

\* Module::Access, StartAccess and the first event of the access.
Issue(s, kind, m, b) ==
  LET master == CanCoalesce(m, kind, b)
      frame == [Blank EXCEPT !.mod = m, !.blk = b, !.access = kind]
  IN  /\ <<s>> \notin DOMAIN frames
      /\ MaxAccesses = 0 \/ issued < MaxAccesses
      /\ issued' = IF MaxAccesses = 0 THEN issued ELSE issued + 1
      /\ frames' = (<<s>> :>
           IF master = None THEN [frame EXCEPT !.ev = LockEvent[kind]]
           ELSE [frame EXCEPT !.ev = FinishEvent[kind], !.master = master,
                              !.st = <<"access", master>>]) @@ frames
      /\ accs' = [accs EXCEPT ![m] = Append(@, s)]
      /\ UNCHANGED <<cache, dir, lock, portq, behind>>

\* An access waits in the queue of an older one until that one finishes.
WaitFor(f, older) ==
  /\ frames' = [frames EXCEPT ![f].st = <<"access", older>>]
  /\ UNCHANGED <<cache, dir, lock, accs, portq, behind, issued>>

\* load_lock and nc_store_lock: after every older store of the module and
\* every older access to the block.
LoadLock(f, ev, ret) ==
  LET r == frames[f]
      writes == InFlightWrite(r.mod, Slot(f))
      same == InFlightAddress(r.mod, Slot(f))
  IN  /\ At(f, ev)
      /\ IF writes # {} THEN WaitFor(f, accs[r.mod][Max(writes)])
         ELSE IF same # {} THEN WaitFor(f, accs[r.mod][Min(same)])
         ELSE /\ frames' = CallFindAndLock(frames, f, ret, r.mod, r.blk,
                                           "updown", TRUE)
              /\ UNCHANGED <<cache, dir, lock, accs, portq, behind, issued>>

\* store_lock: after every older access of the module.
StoreLock(f) ==
  LET r == frames[f]
      older == Older(r.mod, Slot(f))
  IN  /\ At(f, "store_lock")
      /\ IF older # <<>> THEN WaitFor(f, Last(older))
         ELSE /\ frames' = CallFindAndLock(frames, f, "store_action", r.mod,
                                           r.blk, "updown", TRUE)
              /\ UNCHANGED <<cache, dir, lock, accs, portq, behind, issued>>

\* The error path of an access whose entry the callee has left unlocked.
Retry(f, ev) ==
  /\ frames' = Continue(frames, f, ev)
  /\ UNCHANGED <<cache, dir, lock, accs, portq, behind, issued>>

\* The error path of an access that still holds its entry.
UnlockAndRetry(f, ev) ==
  LET r == frames[f]
  IN  /\ frames' = Continue(UnlockEntry(frames, r.mod, r.way), f, ev)
      /\ EntryUnlocked(r.mod, r.way)
      /\ UNCHANGED <<cache, dir, accs, portq, behind, issued>>

LoadAction(f) ==
  LET r == frames[f]
  IN  /\ At(f, "load_action")
      /\ IF r.error THEN Retry(f, "load_lock")
         ELSE /\ frames' = IF r.state # "I" THEN Continue(frames, f, "load_unlock")
                           ELSE CallReadRequest(frames, f, "load_miss", r.mod,
                                  Low[r.mod], r.blk, "updown", FALSE)
              /\ UNCHANGED <<cache, dir, lock, accs, portq, behind, issued>>

\* Mutant of LoadMiss: the retry keeps the entry locked.
LoadMissKeepsLock(f) ==
  LET r == frames[f]
  IN  /\ At(f, "load_miss")
      /\ IF r.error THEN Retry(f, "load_lock")
         ELSE /\ SetBlock(r.mod, r.way, r.blk, IF r.shared THEN "S" ELSE "E")
              /\ frames' = Continue(frames, f, "load_unlock")
              /\ UNCHANGED <<dir, lock, accs, portq, behind, issued>>

LoadMiss(f) ==
  LET r == frames[f]
  IN  /\ At(f, "load_miss")
      /\ IF r.error THEN UnlockAndRetry(f, "load_lock")
         ELSE /\ SetBlock(r.mod, r.way, r.blk, IF r.shared THEN "S" ELSE "E")
              /\ frames' = Continue(frames, f, "load_unlock")
              /\ UNCHANGED <<dir, lock, accs, portq, behind, issued>>

LoadUnlock(f) ==
  LET r == frames[f]
  IN  /\ At(f, "load_unlock")
      /\ frames' = Continue(UnlockEntry(frames, r.mod, r.way), f, "load_finish")
      /\ EntryUnlocked(r.mod, r.way)
      /\ UNCHANGED <<cache, dir, accs, portq, behind, issued>>

\* FinishAccess: the access leaves the list, the ones that had joined it or
\* waited for it go on.
Finish(f, ev) ==
  LET s == Slot(f)
      m == frames[f].mod
      rest == [g \in DOMAIN frames \ {f} |->
                 IF frames[g].master = s THEN [frames[g] EXCEPT !.master = None]
                 ELSE frames[g]]
  IN  /\ At(f, ev)
      /\ accs' = [accs EXCEPT ![m] = SelectSeq(@, LAMBDA x : x # s)]
      /\ frames' = Wakeup(rest, <<"access", s>>)
      /\ UNCHANGED <<cache, dir, lock, portq, behind, issued>>

StoreAction(f) ==
  LET r == frames[f]
  IN  /\ At(f, "store_action")
      /\ IF r.error THEN Retry(f, "store_lock")
         ELSE /\ frames' = IF r.state \in {"M", "E"}
                           THEN Continue(frames, f, "store_unlock")
                           ELSE CallWriteRequest(frames, f, "store_unlock", r.mod,
                                  Low[r.mod], r.blk, "updown")
              /\ UNCHANGED <<cache, dir, lock, accs, portq, behind, issued>>

StoreUnlock(f) ==
  LET r == frames[f]
  IN  /\ At(f, "store_unlock")
      /\ IF r.error THEN UnlockAndRetry(f, "store_lock")
         ELSE /\ SetBlock(r.mod, r.way, r.blk, "M")
              /\ behind' = behind \cup {r.blk}
              /\ frames' = Continue(UnlockEntry(frames, r.mod, r.way), f,
                                    "store_finish")
              /\ EntryUnlocked(r.mod, r.way)
              /\ UNCHANGED <<dir, accs, portq, issued>>

\* A modified block is first written back.
NCStoreWriteback(f) ==
  LET r == frames[f]
  IN  /\ At(f, "nc_store_writeback")
      /\ IF r.error THEN Retry(f, "nc_store_lock")
         ELSE /\ frames' = IF r.state \in {"M", "O"}
                           THEN CallEvict([frames EXCEPT ![f].eviction = TRUE], f,
                                          "nc_store_action", r.mod, r.way)
                           ELSE Continue(frames, f, "nc_store_action")
              /\ UNCHANGED <<cache, dir, lock, accs, portq, behind, issued>>

\* After a failed write-back the access retries; it still holds its entry.
NCStoreAction(f) ==
  LET r == frames[f]
  IN  /\ At(f, "nc_store_action")
      /\ IF r.error THEN Retry(f, "nc_store_lock")
         ELSE /\ frames' =
                   IF r.state \in {"S", "N"}
                   THEN Continue(frames, f, "nc_store_unlock")
                   ELSE IF r.state = "E"
                   THEN CallMessage(frames, f, "nc_store_miss", r.mod,
                                    Low[r.mod], r.blk)
                   ELSE CallReadRequest(frames, f, "nc_store_miss", r.mod,
                                        Low[r.mod], r.blk, "updown", TRUE)
              /\ UNCHANGED <<cache, dir, lock, accs, portq, behind, issued>>

NCStoreMiss(f) ==
  /\ At(f, "nc_store_miss")
  /\ IF frames[f].error THEN UnlockAndRetry(f, "nc_store_lock")
     ELSE Retry(f, "nc_store_unlock")

NCStoreUnlock(f) ==
  LET r == frames[f]
  IN  /\ At(f, "nc_store_unlock")
      /\ SetBlock(r.mod, r.way, r.blk, "N")
      /\ behind' = behind \cup {r.blk}
      /\ frames' = Continue(UnlockEntry(frames, r.mod, r.way), f,
                            "nc_store_finish")
      /\ EntryUnlocked(r.mod, r.way)
      /\ UNCHANGED <<dir, accs, portq, issued>>

-----------------------------------------------------------------------------
(* find_and_lock: a port, then the entry of the block or of a victim.      *)

FindAndLock(f) ==
  LET r == frames[f]
      fs == [frames EXCEPT ![Parent(f)].error = FALSE,
                           ![f].ev = "find_and_lock_port"]
  IN  /\ At(f, "find_and_lock")
      /\ IF NumLockedPorts(r.mod) >= NumPorts
         THEN /\ frames' = [fs EXCEPT ![f].st = <<"port", r.mod>>]
              /\ portq' = [portq EXCEPT ![r.mod] =
                             IF r.dir = "downup" THEN <<f>> \o @ ELSE Append(@, f)]
         ELSE /\ frames' = [fs EXCEPT ![f].port = TRUE]
              /\ UNCHANGED portq
      /\ UNCHANGED <<cache, dir, lock, accs, behind, issued>>

\* A request from below finds that the block has left.
FindAndLockNotFound(f) ==
  LET r == frames[f]
  IN  /\ At(f, "find_and_lock_port")
      /\ FindBlock(r.mod, r.blk) = {} /\ r.dir = "downup"
      /\ frames' = Return([UnlockPort(frames, f) EXCEPT
                             ![Parent(f)].block_not_found = TRUE], f)
      /\ PortUnlocked(r.mod)
      /\ UNCHANGED <<cache, dir, lock, accs, behind, issued>>

\* The way to lock: that of the block, or any way for a block that is absent.
WaysToLock(r) ==
  LET found == FindBlock(r.mod, r.blk)
  IN  IF found # {} THEN {Min(found)}
      ELSE IF r.dir = "downup" THEN {} ELSE Ways(r.mod)

\* The entry is locked: a request that must not block fails, one that may
\* gives its port back and waits.
FindAndLockConflict(f) ==
  LET r == frames[f]
  IN  /\ At(f, "find_and_lock_port")
      /\ \E w \in WaysToLock(r) :
           /\ lock[r.mod][w] # None
           /\ frames' =
                IF r.blocking
                THEN [UnlockPort(frames, f) EXCEPT
                        ![f].ev = "find_and_lock",
                        ![f].st = LockQueue(r.mod, w)]
                ELSE Return([UnlockPort(frames, f) EXCEPT
                               ![Parent(f)].error = TRUE], f)
      /\ PortUnlocked(r.mod)
      /\ UNCHANGED <<cache, dir, lock, accs, behind, issued>>

\* Mutant of FindAndLockTake: the entry is locked for the module, not for the
\* access.
FindAndLockTakeForModule(f) ==
  LET r == frames[f]
  IN  /\ At(f, "find_and_lock_port")
      /\ \E w \in WaysToLock(r) :
           /\ lock[r.mod][w] = None
           /\ lock' = [lock EXCEPT ![r.mod][w] = r.mod]
           /\ cache' = [cache EXCEPT ![r.mod][w].ttag = r.blk]
           /\ frames' = [frames EXCEPT
                ![f].ev = "find_and_lock_action", ![f].way = w,
                ![f].hit = FindBlock(r.mod, r.blk) # {},
                ![f].state = cache[r.mod][w].state,
                ![Parent(f)].port_locked = TRUE]
      /\ UNCHANGED <<dir, accs, portq, behind, issued>>

FindAndLockTake(f) ==
  LET r == frames[f]
  IN  /\ At(f, "find_and_lock_port")
      /\ \E w \in WaysToLock(r) :
           /\ lock[r.mod][w] = None
           /\ lock' = [lock EXCEPT ![r.mod][w] = Slot(f)]
           /\ cache' = [cache EXCEPT ![r.mod][w].ttag = r.blk]
           /\ frames' = [frames EXCEPT
                ![f].ev = "find_and_lock_action", ![f].way = w,
                ![f].hit = FindBlock(r.mod, r.blk) # {},
                ![f].state = cache[r.mod][w].state,
                ![Parent(f)].port_locked = TRUE]
      /\ UNCHANGED <<dir, accs, portq, behind, issued>>

FindAndLockAction(f) ==
  LET r == frames[f]
      fs == UnlockPort(frames, f)
  IN  /\ At(f, "find_and_lock_action")
      /\ frames' = IF ~r.hit /\ r.state # "I"
                   THEN CallEvict([fs EXCEPT ![f].eviction = TRUE], f,
                                  "find_and_lock_finish", r.mod, r.way)
                   ELSE Continue(fs, f, "find_and_lock_finish")
      /\ PortUnlocked(r.mod)
      /\ UNCHANGED <<cache, dir, lock, accs, behind, issued>>

\* The victim could not be evicted: the request fails.
FindAndLockFail(f) ==
  LET r == frames[f]
  IN  /\ At(f, "find_and_lock_finish") /\ r.error
      /\ frames' = Return([UnlockEntry(frames, r.mod, r.way) EXCEPT
                             ![Parent(f)].error = TRUE], f)
      /\ EntryUnlocked(r.mod, r.way)
      /\ UNCHANGED <<cache, dir, accs, portq, behind, issued>>

\* The caller gets the entry.  Main memory has every block, as E.
FindAndLockFinish(f) ==
  LET r == frames[f]
      evicted == IF r.eviction THEN cache[r.mod][r.way].state ELSE r.state
      fetched == r.mod = MainMemory /\ evicted = "I"
      state == IF fetched THEN "E" ELSE evicted
  IN  /\ At(f, "find_and_lock_finish") /\ ~r.error
      /\ IF fetched THEN SetBlock(r.mod, r.way, r.blk, "E")
         ELSE IF r.eviction THEN SetBlock(r.mod, r.way, None, "I")
         ELSE UNCHANGED cache
      /\ frames' = Return([frames EXCEPT ![Parent(f)].error = FALSE,
                             ![Parent(f)].way = r.way,
                             ![Parent(f)].state = state], f)
      /\ UNCHANGED <<dir, lock, accs, portq, behind, issued>>
-----------------------------------------------------------------------------
(* evict                                                                   *)

\* No module above has the block: it is dropped from main memory, gone
\* already, or sent to the module below.
EvictInvalid(f) ==
  LET r == frames[f]
      state == cache[r.mod][r.src_way].state
  IN  /\ At(f, "evict_invalid")
      /\ IF r.mod = MainMemory
         THEN /\ SetBlock(r.mod, r.src_way, None, "I")
              /\ frames' = Return(frames, f)
         ELSE /\ UNCHANGED cache
              /\ frames' =
                   IF state = "I" THEN Return(frames, f)
                   ELSE [frames EXCEPT
                           ![f].ev = "evict_receive", ![f].state = state,
                           ![f].reply = IF state \in Dirty THEN AckData ELSE Ack]
      /\ UNCHANGED <<dir, lock, accs, portq, behind, issued>>

EvictReceive(f) ==
  LET r == frames[f]
      ret == IF r.state = "N" THEN "evict_process_noncoherent"
             ELSE "evict_process"
  IN  /\ At(f, "evict_receive")
      /\ frames' = CallFindAndLock(frames, f, ret, r.tgt, r.blk, "downup", FALSE)
      /\ UNCHANGED <<cache, dir, lock, accs, portq, behind, issued>>

\* The state of the block below once the data of an evicted one is merged.
EvictedInto(ev, state) ==
  IF state = "E" THEN "M"
  ELSE IF ev = "evict_process_noncoherent" /\ state = "S" THEN "N" ELSE state

\* Mutant of EvictProcess: the module stays a sharer of what it evicted.
EvictProcessKeepsSharer(f) ==
  LET r == frames[f]
  IN  /\ At(f, "evict_process") /\ ~r.error
      /\ IF r.reply = AckData
         THEN SetBlock(r.tgt, r.way, r.blk, EvictedInto(r.ev, r.state))
         ELSE UNCHANGED cache
      /\ frames' = Continue(UnlockEntry(frames, r.tgt, r.way), f,
                            "evict_reply_receive")
      /\ EntryUnlocked(r.tgt, r.way)
      /\ UNCHANGED <<dir, accs, portq, behind, issued>>

\* The module below takes the data and forgets the sharer, or refuses.
EvictProcess(f) ==
  LET r == frames[f]
  IN  /\ At(f, "evict_process") \/ At(f, "evict_process_noncoherent")
      /\ IF r.error
         THEN /\ frames' = [frames EXCEPT ![Parent(f)].error = TRUE,
                                          ![f].ev = "evict_reply_receive"]
              /\ UNCHANGED <<cache, dir, lock, behind>>
         ELSE /\ IF r.reply = AckData
                 THEN SetBlock(r.tgt, r.way, r.blk, EvictedInto(r.ev, r.state))
                 ELSE UNCHANGED cache
              /\ behind' = IF r.reply = AckData /\ r.tgt = MainMemory
                           THEN behind \ {r.blk} ELSE behind
              /\ dir' = [dir EXCEPT ![r.tgt][r.way] =
                           [sharers |-> @.sharers \ {r.mod},
                            owner |-> IF @.owner = r.mod THEN None ELSE @.owner]]
              /\ frames' = Continue(UnlockEntry(frames, r.tgt, r.way), f,
                                    "evict_reply_receive")
              /\ EntryUnlocked(r.tgt, r.way)
      /\ UNCHANGED <<accs, portq, issued>>

EvictReplyReceive(f) ==
  LET r == frames[f]
  IN  /\ At(f, "evict_reply_receive")
      /\ IF r.error THEN UNCHANGED cache
         ELSE SetBlock(r.mod, r.src_way, None, "I")
      /\ frames' = Return(frames, f)
      /\ UNCHANGED <<dir, lock, accs, portq, behind, issued>>

-----------------------------------------------------------------------------
(* write_request: up-down for an exclusive copy, down-up to take one back. *)

\* Mutant of WriteRequestReceive: requests wait for the entry in both directions.
WriteRequestReceiveWaits(f) ==
  LET r == frames[f]
  IN  /\ At(f, "write_request_receive")
      /\ frames' = CallFindAndLock(frames, f, "write_request_action", r.tgt,
                                   r.blk, r.dir, TRUE)
      /\ UNCHANGED <<cache, dir, lock, accs, portq, behind, issued>>

WriteRequestReceive(f) ==
  LET r == frames[f]
  IN  /\ At(f, "write_request_receive")
      /\ frames' = CallFindAndLock(frames, f, "write_request_action", r.tgt,
                                   r.blk, r.dir, r.dir = "downup")
      /\ UNCHANGED <<cache, dir, lock, accs, portq, behind, issued>>

\* Mutant of WriteRequestAction: the entry is unlocked before the other copies
\* are invalidated.
WriteRequestActionUnlocks(f) ==
  LET r == frames[f]
  IN  /\ At(f, "write_request_action")
      /\ ~r.error /\ ~r.block_not_found
      /\ frames' = CallInvalidate(UnlockEntry(frames, r.tgt, r.way), f,
                     "write_request_exclusive", r.tgt, r.way, r.mod)
      /\ EntryUnlocked(r.tgt, r.way)
      /\ UNCHANGED <<cache, dir, accs, portq, behind, issued>>

WriteRequestAction(f) ==
  LET r == frames[f]
  IN  /\ At(f, "write_request_action")
      /\ frames' =
           IF r.error
           THEN [frames EXCEPT ![Parent(f)].error = TRUE,
                               ![f].ev = "write_request_finish"]
           ELSE IF r.block_not_found
           THEN SetReplyIfHigher(Continue(frames, f, "write_request_finish"),
                                 Parent(f), Ack)
           ELSE CallInvalidate(frames, f, "write_request_exclusive", r.tgt,
                               r.way, r.mod)
      /\ UNCHANGED <<cache, dir, lock, accs, portq, behind, issued>>

\* All other copies are gone.  Up-down, an entry that is not exclusive asks
\* the module below; down-up, the answer depends on the state found when the
\* entry was locked.
WriteRequestExclusive(f) ==
  LET r == frames[f]
      reply == IF r.state \in Dirty THEN AckData ELSE Ack
  IN  /\ At(f, "write_request_exclusive")
      /\ frames' =
           IF r.dir = "downup"
           THEN SetReplyIfHigher([frames EXCEPT
                  ![f].ev = "write_request_downup_finish", ![f].size = reply],
                  Parent(f), reply)
           ELSE IF r.state \in {"M", "E"}
           THEN Continue(frames, f, "write_request_updown_finish")
           ELSE CallWriteRequest(frames, f, "write_request_updown_finish", r.tgt,
                                 Low[r.tgt], r.blk, "updown")
      /\ UNCHANGED <<cache, dir, lock, accs, portq, behind, issued>>

\* Mutant of WriteRequestUpdownFinish: the requester does not become the owner.
WriteRequestUpdownFinishNoOwner(f) ==
  LET r == frames[f]
  IN  /\ At(f, "write_request_updown_finish")
      /\ frames' = [UnlockEntry(frames, r.tgt, r.way) EXCEPT
                      ![f].ev = "write_request_finish",
                      ![Parent(f)].error = r.error]
      /\ EntryUnlocked(r.tgt, r.way)
      /\ IF r.error THEN UNCHANGED <<cache, dir>>
         ELSE /\ dir' = [dir EXCEPT ![r.tgt][r.way].sharers = @ \cup {r.mod}]
              /\ SetBlock(r.tgt, r.way, r.blk, "E")
      /\ UNCHANGED <<accs, portq, behind, issued>>

WriteRequestUpdownFinish(f) ==
  LET r == frames[f]
  IN  /\ At(f, "write_request_updown_finish")
      /\ frames' = [UnlockEntry(frames, r.tgt, r.way) EXCEPT
                      ![f].ev = "write_request_finish",
                      ![Parent(f)].error = r.error]
      /\ EntryUnlocked(r.tgt, r.way)
      /\ IF r.error THEN UNCHANGED <<cache, dir>>
         ELSE /\ dir' = [dir EXCEPT ![r.tgt][r.way] =
                           [sharers |-> @.sharers \cup {r.mod}, owner |-> r.mod]]
              /\ SetBlock(r.tgt, r.way, r.blk, "E")
      /\ UNCHANGED <<accs, portq, behind, issued>>

\* Mutant of WriteRequestDownupFinish: the block stays valid.
WriteRequestDownupFinishKeeps(f) ==
  LET r == frames[f]
  IN  /\ At(f, "write_request_downup_finish")
      /\ frames' = Continue(UnlockEntry(frames, r.tgt, r.way), f,
                            "write_request_finish")
      /\ EntryUnlocked(r.tgt, r.way)
      /\ UNCHANGED <<cache, dir, accs, portq, behind, issued>>

WriteRequestDownupFinish(f) ==
  LET r == frames[f]
  IN  /\ At(f, "write_request_downup_finish")
      /\ SetBlock(r.tgt, r.way, None, "I")
      /\ frames' = Continue(UnlockEntry(frames, r.tgt, r.way), f,
                            "write_request_finish")
      /\ EntryUnlocked(r.tgt, r.way)
      /\ UNCHANGED <<dir, accs, portq, behind, issued>>

\* The reply is back; main memory has the data that came with it.
RequestFinish(f) ==
  LET r == frames[f]
  IN  /\ At(f, "write_request_finish") \/ At(f, "read_request_finish")
      /\ CanReturn(f)
      /\ behind' = IF r.size = AckData /\ r.mod = MainMemory
                   THEN behind \ {r.blk} ELSE behind
      /\ frames' = Return(frames, f)
      /\ UNCHANGED <<cache, dir, lock, accs, portq, issued>>
-----------------------------------------------------------------------------
(* read_request: up-down for a copy, down-up to make an owner share it.    *)

ReadRequestReceive(f) ==
  LET r == frames[f]
  IN  /\ At(f, "read_request_receive")
      /\ frames' = CallFindAndLock(frames, f, "read_request_action", r.tgt,
                                   r.blk, r.dir, r.dir = "downup")
      /\ UNCHANGED <<cache, dir, lock, accs, portq, behind, issued>>

\* Asks the owner of an entry, if there is one other than the module it is
\* for, and goes on to "ev", which runs once now and once per answer.
AskOwner(f, ev, notto) ==
  LET r == frames[f]
      owner == dir[r.tgt][r.way].owner
  IN  IF owner \in {None, notto}
      THEN [frames EXCEPT ![f].ev = ev, ![f].pending = 1]
      ELSE [CallReadRequest(frames, f, ev, r.tgt, owner, r.blk, "downup", FALSE)
              EXCEPT ![f].st = Ready, ![f].pending = 2]

ReadRequestAction(f) ==
  LET r == frames[f]
  IN  /\ At(f, "read_request_action")
      /\ frames' =
           IF r.error
           THEN [frames EXCEPT ![Parent(f)].error = TRUE,
                               ![f].ev = "read_request_finish"]
           ELSE IF r.block_not_found
           THEN SetReplyIfHigher(Continue(frames, f, "read_request_finish"),
                                 Parent(f), Ack)
           ELSE IF r.dir = "downup"
           THEN AskOwner(f, "read_request_downup_finish", None)
           ELSE IF r.state # "I"
           THEN AskOwner(f, "read_request_updown_finish", r.mod)
           ELSE CallReadRequest([frames EXCEPT ![f].pending = 1], f,
                  "read_request_updown_miss", r.tgt, Low[r.tgt], r.blk, "updown",
                  FALSE)
      /\ UNCHANGED <<cache, dir, lock, accs, portq, behind, issued>>

ReadRequestUpdownMiss(f) ==
  LET r == frames[f]
  IN  /\ At(f, "read_request_updown_miss")
      /\ IF r.error
         THEN /\ frames' = [UnlockEntry(frames, r.tgt, r.way) EXCEPT
                              ![f].ev = "read_request_finish",
                              ![Parent(f)].error = TRUE]
              /\ EntryUnlocked(r.tgt, r.way)
              /\ UNCHANGED cache
         ELSE /\ SetBlock(r.tgt, r.way, r.blk, IF r.shared THEN "S" ELSE "E")
              /\ frames' = Continue(frames, f, "read_request_updown_finish")
              /\ UNCHANGED lock
      /\ UNCHANGED <<dir, accs, portq, behind, issued>>

\* One of the answers a frame waits for has come, and others have not.
Pending(f, ev) ==
  /\ At(f, ev) /\ frames[f].pending > 1
  /\ frames' = [frames EXCEPT ![f].pending = @ - 1, ![f].st = Called]
  /\ UNCHANGED <<cache, dir, lock, accs, portq, behind, issued>>

\* Mutant of ReadRequestUpdownFinish: a second sharer is not noticed.
ReadRequestUpdownFinishOffByOne(f) ==
  LET r == frames[f]
      entry == dir[r.tgt][r.way]
      sharers == entry.sharers \cup {r.mod}
      shared == \/ Cardinality(sharers) > 2 \/ r.nc_write \/ r.shared
                \/ r.state \in {"O", "N", "S"}
      owner == IF entry.owner = r.mod \/ ~shared THEN r.mod ELSE None
  IN  /\ At(f, "read_request_updown_finish") /\ r.pending = 1
      /\ dir' = [dir EXCEPT ![r.tgt][r.way] =
                   [sharers |-> sharers, owner |-> owner]]
      /\ frames' = [UnlockEntry(frames, r.tgt, r.way) EXCEPT
                      ![f].ev = "read_request_finish",
                      ![Parent(f)].shared = shared]
      /\ EntryUnlocked(r.tgt, r.way)
      /\ UNCHANGED <<cache, accs, portq, behind, issued>>

\* The requester becomes a sharer, and the owner when it is the only one.
ReadRequestUpdownFinish(f) ==
  LET r == frames[f]
      entry == dir[r.tgt][r.way]
      sharers == entry.sharers \cup {r.mod}
      shared == \/ Cardinality(sharers) > 1 \/ r.nc_write \/ r.shared
                \/ r.state \in {"O", "N", "S"}
      owner == IF entry.owner = r.mod \/ ~shared THEN r.mod ELSE None
  IN  /\ At(f, "read_request_updown_finish") /\ r.pending = 1
      /\ dir' = [dir EXCEPT ![r.tgt][r.way] =
                   [sharers |-> sharers, owner |-> owner]]
      /\ frames' = [UnlockEntry(frames, r.tgt, r.way) EXCEPT
                      ![f].ev = "read_request_finish",
                      ![Parent(f)].shared = shared]
      /\ EntryUnlocked(r.tgt, r.way)
      /\ UNCHANGED <<cache, accs, portq, behind, issued>>

\* The block is shared from now on.  Its data goes down when a module above
\* sent data, or when none above had an answer and the block is dirty.
ReadRequestDownupFinish(f) ==
  LET r == frames[f]
      reply == IF r.reply = NoReply
               THEN IF r.state \in Dirty THEN AckData ELSE Ack
               ELSE r.reply
  IN  /\ At(f, "read_request_downup_finish") /\ r.pending = 1
      /\ SetBlock(r.tgt, r.way, r.blk, "S")
      /\ dir' = IF r.reply = NoReply THEN dir
                ELSE [dir EXCEPT ![r.tgt][r.way].owner = None]
      /\ frames' = SetReplyIfHigher([UnlockEntry(frames, r.tgt, r.way) EXCEPT
                      ![f].ev = "read_request_finish", ![f].size = reply],
                      Parent(f), reply)
      /\ EntryUnlocked(r.tgt, r.way)
      /\ UNCHANGED <<accs, portq, behind, issued>>

-----------------------------------------------------------------------------
(* invalidate: every sharer but one gives its copy up.                     *)

\* Mutant of Invalidate: the owner is not cleared with the sharers.
InvalidateKeepsOwner(f) ==
  LET r == frames[f]
      others == dir[r.mod][r.way].sharers \ {r.except}
      here == [r EXCEPT !.ev = "invalidate_finish", !.blk = cache[r.mod][r.way].tag,
                        !.state = cache[r.mod][r.way].state,
                        !.pending = 1 + Cardinality(others)]
      request(x) == [Blank EXCEPT !.ev = "write_request_receive", !.mod = r.mod,
                                  !.tgt = x, !.blk = here.blk, !.dir = "downup"]
  IN  /\ At(f, "invalidate")
      /\ dir' = [dir EXCEPT ![r.mod][r.way].sharers = @ \ others]
      /\ frames' = [g \in DOMAIN frames \cup {Append(f, x) : x \in others} |->
                      IF g = f THEN here
                      ELSE IF g \in DOMAIN frames THEN frames[g]
                      ELSE request(Last(g))]
      /\ UNCHANGED <<cache, lock, accs, portq, behind, issued>>

Invalidate(f) ==
  LET r == frames[f]
      entry == dir[r.mod][r.way]
      others == entry.sharers \ {r.except}
      here == [r EXCEPT !.ev = "invalidate_finish", !.blk = cache[r.mod][r.way].tag,
                        !.state = cache[r.mod][r.way].state,
                        !.pending = 1 + Cardinality(others)]
      request(x) == [Blank EXCEPT !.ev = "write_request_receive", !.mod = r.mod,
                                  !.tgt = x, !.blk = here.blk, !.dir = "downup"]
  IN  /\ At(f, "invalidate")
      /\ dir' = [dir EXCEPT ![r.mod][r.way] =
                   [sharers |-> @.sharers \ others,
                    owner |-> IF @.owner \in others THEN None ELSE @.owner]]
      /\ frames' = [g \in DOMAIN frames \cup {Append(f, x) : x \in others} |->
                      IF g = f THEN here
                      ELSE IF g \in DOMAIN frames THEN frames[g]
                      ELSE request(Last(g))]
      /\ UNCHANGED <<cache, lock, accs, portq, behind, issued>>

\* The state of a block whose sharers sent data.
Merged(state) ==
  CASE state = "E" -> "M" [] state = "S" -> "N" [] OTHER -> state

InvalidateFinish(f) ==
  LET r == frames[f]
  IN  /\ At(f, "invalidate_finish")
      /\ IF r.reply = AckData
         THEN SetBlock(r.mod, r.way, r.blk, Merged(r.state))
         ELSE UNCHANGED cache
      /\ frames' = IF r.pending > 1
                   THEN [frames EXCEPT ![f].pending = @ - 1, ![f].st = Called]
                   ELSE Return(frames, f)
      /\ UNCHANGED <<dir, lock, accs, portq, behind, issued>>

-----------------------------------------------------------------------------
(* message: a module that gives up ownership tells the one below.          *)

MessageReceive(f) ==
  LET r == frames[f]
  IN  /\ At(f, "message_receive")
      /\ frames' = CallFindAndLock(frames, f, "message_action", r.tgt, r.blk,
                                   "none", FALSE)
      /\ UNCHANGED <<cache, dir, lock, accs, portq, behind, issued>>

\* Mutant of MessageAction: the sender stays the owner.
MessageActionKeepsOwner(f) ==
  LET r == frames[f]
  IN  /\ At(f, "message_action") /\ ~r.error
      /\ frames' = Continue(UnlockEntry(frames, r.tgt, r.way), f,
                            "message_finish")
      /\ EntryUnlocked(r.tgt, r.way)
      /\ UNCHANGED <<cache, dir, accs, portq, behind, issued>>

MessageAction(f) ==
  LET r == frames[f]
  IN  /\ At(f, "message_action")
      /\ IF r.error
         THEN /\ frames' = [frames EXCEPT ![f].ev = "message_finish",
                                          ![Parent(f)].error = TRUE]
              /\ UNCHANGED <<dir, lock>>
         ELSE /\ dir' = [dir EXCEPT ![r.tgt][r.way].owner = None]
              /\ frames' = Continue(UnlockEntry(frames, r.tgt, r.way), f,
                                    "message_finish")
              /\ EntryUnlocked(r.tgt, r.way)
      /\ UNCHANGED <<cache, accs, portq, behind, issued>>

MessageFinish(f) ==
  /\ At(f, "message_finish")
  /\ frames' = Return(frames, f)
  /\ UNCHANGED <<cache, dir, lock, accs, portq, behind, issued>>

-----------------------------------------------------------------------------
Init ==
  /\ cache = [m \in Modules |-> [w \in Ways(m) |->
                [tag |-> None, state |-> "I", ttag |-> None]]]
  /\ dir = [m \in Modules |-> [w \in Ways(m) |->
              [sharers |-> {}, owner |-> None]]]
  /\ lock = [m \in Modules |-> [w \in Ways(m) |-> None]]
  /\ frames = <<>>
  /\ accs = [m \in Entries |-> <<>>]
  /\ portq = [m \in Modules |-> <<>>]
  /\ behind = {}
  /\ issued = 0

AccessStep(f) ==
  \/ LoadLock(f, "load_lock", "load_action")
  \/ LoadLock(f, "nc_store_lock", "nc_store_writeback")
  \/ StoreLock(f)
  \/ LoadAction(f) \/ LoadMiss(f) \/ LoadUnlock(f)
  \/ StoreAction(f) \/ StoreUnlock(f)
  \/ NCStoreWriteback(f) \/ NCStoreAction(f) \/ NCStoreMiss(f)
  \/ NCStoreUnlock(f)
  \/ Finish(f, "load_finish") \/ Finish(f, "store_finish")
  \/ Finish(f, "nc_store_finish")

LockStep(f) ==
  \/ FindAndLock(f) \/ FindAndLockNotFound(f) \/ FindAndLockConflict(f)
  \/ FindAndLockTake(f) \/ FindAndLockAction(f) \/ FindAndLockFail(f)
  \/ FindAndLockFinish(f)

RequestStep(f) ==
  \/ EvictInvalid(f) \/ EvictReceive(f) \/ EvictProcess(f)
  \/ EvictReplyReceive(f)
  \/ WriteRequestReceive(f) \/ WriteRequestAction(f)
  \/ WriteRequestExclusive(f) \/ WriteRequestUpdownFinish(f)
  \/ WriteRequestDownupFinish(f)
  \/ ReadRequestReceive(f) \/ ReadRequestAction(f)
  \/ ReadRequestUpdownMiss(f) \/ ReadRequestUpdownFinish(f)
  \/ ReadRequestDownupFinish(f)
  \/ Pending(f, "read_request_updown_finish")
  \/ Pending(f, "read_request_downup_finish")
  \/ RequestFinish(f)
  \/ Invalidate(f) \/ InvalidateFinish(f)
  \/ MessageReceive(f) \/ MessageAction(f) \/ MessageFinish(f)

Step(f) == AccessStep(f) \/ LockStep(f) \/ RequestStep(f)

Next ==
  \/ \E s \in Slots, kind \in Kinds, m \in Entries, b \in Blocks :
       Issue(s, kind, m, b)
  \/ \E f \in DOMAIN frames : Step(f)

Spec == Init /\ [][Next]_vars

SlotStep(s) == \E f \in DOMAIN frames : Slot(f) = s /\ Step(f)
SlotTakes(s) == \E f \in DOMAIN frames : Slot(f) = s /\ FindAndLockTake(f)

\* The engine runs every handler that is due.  A frame that an unlocked entry
\* wakes up runs in the cycle of the wake-up, while the access that gave the
\* entry up comes back after a retry latency, so no frame misses every chance
\* to take an entry.
FairSpec ==
  /\ Spec
  /\ \A s \in Slots : WF_vars(SlotStep(s)) /\ SF_vars(SlotTakes(s))
-----------------------------------------------------------------------------
Holds(m, b) == {w \in Ways(m) : cache[m][w].tag = b /\ cache[m][w].state # "I"}

TypeOK ==
  /\ Modules = DOMAIN cache /\ Modules = DOMAIN dir
  /\ \A m \in Modules :
       /\ cache[m] \in [Ways(m) -> [tag : Blocks \cup {None}, state : States,
                                   ttag : Blocks \cup {None}]]
       /\ dir[m] \in [Ways(m) -> [sharers : SUBSET Modules, owner : Modules \cup {None}]]
       /\ \A w \in Ways(m) : lock[m][w] \in Slots \cup {None}
  /\ behind \subseteq Blocks

\* The entry that the next handler of a frame unlocks, as <<module, way>>.
Unlocks(f) ==
  LET r == frames[f]
      own == <<r.mod, r.way>>
      below == <<r.tgt, r.way>>
  IN  CASE \/ r.ev \in {"load_unlock", "nc_store_unlock", "store_unlock"}
           \/ r.ev \in {"load_miss", "nc_store_miss", "find_and_lock_finish"}
              /\ r.error                                          -> {own}
        [] \/ r.ev \in {"evict_process", "evict_process_noncoherent",
                         "message_action"} /\ ~r.error
           \/ r.ev \in {"write_request_updown_finish",
                         "write_request_downup_finish"}
           \/ r.ev = "read_request_updown_miss" /\ r.error
           \/ r.ev \in {"read_request_updown_finish",
                         "read_request_downup_finish"} /\ r.pending = 1
                                                                   -> {below}
        [] OTHER -> {}

\* What the handler that is due asserts, or panics without.
Assertion(f) ==
  LET r == frames[f]
  IN  /\ \A e \in Unlocks(f) : e[2] \in Ways(e[1]) /\ lock[e[1]][e[2]] = Slot(f)
      /\ CASE r.ev = "find_and_lock_port" ->
               FindBlock(r.mod, r.blk) = {} /\ r.dir # "downup" =>
                 \A w \in Ways(r.mod) :
                   lock[r.mod][w] = None /\ cache[r.mod][w].state = "I" =>
                     ~IsBlockSharedOrOwned(r.mod, w)
           [] r.ev = "find_and_lock_finish" ->
               IF r.error THEN r.eviction /\ cache[r.mod][r.way].state # "I"
               ELSE r.eviction => cache[r.mod][r.way].state \in {"I", "S", "E"}
           [] r.ev = "evict_process" ->
               ~r.error /\ r.reply = AckData => r.state \in {"E", "M"}
           [] r.ev = "evict_process_noncoherent" ->
               ~r.error => r.reply = AckData /\ r.state # "I"
           [] r.ev = "evict_reply_receive" ->
               ~IsBlockSharedOrOwned(r.mod, r.src_way)
           [] r.ev \in {"write_request_action", "read_request_action"} ->
               /\ r.error => r.dir = "updown"
               /\ r.block_not_found => r.dir = "downup"
               /\ r.ev = "read_request_action" /\ ~r.error /\ ~r.block_not_found =>
                    IF r.dir = "downup" THEN r.state \notin {"I", "S", "N"}
                    ELSE (r.state = "I" => ~IsBlockSharedOrOwned(r.tgt, r.way))
           [] r.ev = "write_request_exclusive" ->
               r.dir = "downup" =>
                 r.state # "I" /\ ~IsBlockSharedOrOwned(r.tgt, r.way)
           [] r.ev = "write_request_updown_finish" ->
               ~r.error => dir[r.tgt][r.way].sharers \subseteq {r.mod}
           [] r.ev = "invalidate_finish" -> r.reply = AckData => r.state # "I"
           [] OTHER -> TRUE

\* No assertion of the protocol fails and no Panic is reached, whatever the
\* accesses and the order their handlers run in; every entry a handler unlocks
\* is locked by its own access.
AssertionsHold ==
  \A f \in DOMAIN frames : frames[f].st = Ready => Assertion(f)

\* An entry at rest: no access has it locked.
Settled(m, w) == lock[m][w] = None

\* A processor that may write a block is the only one that has it.
SingleWriter ==
  \A m1, m2 \in Entries : \A b \in Blocks :
    \A w1 \in Holds(m1, b), w2 \in Holds(m2, b) :
      /\ m1 # m2 /\ Settled(m1, w1) /\ Settled(m2, w2)
      => cache[m1][w1].state \notin {"M", "E"}

\* A block in E or M is owned by its module in the directory below, which has
\* no other sharer, as long as no access has either entry locked.
OwnersAreKnown ==
  \A m \in Modules \ {MainMemory} : \A w \in Ways(m) :
    \A v \in Holds(Low[m], cache[m][w].tag) :
      /\ cache[m][w].state \in {"E", "M"} /\ Settled(m, w) /\ Settled(Low[m], v)
      => dir[Low[m]][v] = [sharers |-> {m}, owner |-> m]

\* A block is in one way of a module at most.
OneCopyEach ==
  \A m \in Modules : \A b \in Blocks : Cardinality(Holds(m, b)) <= 1

\* Inclusion: the module below has every block of an entry at rest, and lists
\* the module as a sharer unless it is taking the block back.
Inclusive ==
  \A m \in Modules \ {MainMemory} : \A w \in Ways(m) :
    /\ cache[m][w].state # "I" /\ Settled(m, w)
    => \E v \in Holds(Low[m], cache[m][w].tag) :
         m \in dir[Low[m]][v].sharers \/ ~Settled(Low[m], v)

\* A request for a block above, and an eviction into the module below, finds the
\* block.  SystemEvents.cc:1159, :2081 and :2679 provide for a block that "has already
\* been evicted by the higher-level cache"; it never has: the module below forgets the
\* sharer before the block is dropped, and refuses the eviction while its entry is
\* locked by the request.  So block_not_found is never set.
RequestsFindTheirBlock ==
  \A f \in DOMAIN frames :
    /\ At(f, "find_and_lock_port") /\ frames[f].dir = "downup"
    => FindBlock(frames[f].mod, frames[f].blk) # {}

\* Access s waits, in one of its frames, for an entry that access t has locked.
WaitsFor(s, t) ==
  \E f \in DOMAIN frames : \E m \in Modules : \E w \in Ways(m) :
    Slot(f) = s /\ frames[f].st = LockQueue(m, w) /\ lock[m][w] = t

\* Accesses never wait for each other, and a load or a store not for itself: a frame that
\* may not block "backtracks to give priority to other accesses and avoid deadlock"
\* (Frame.h:142), and its access does "Unlock block and retry" (SystemEvents.cc:303).  Only
\* a non-coherent store that is refused retries with its entry locked
\* (SystemEvents.cc:867), and waits for that entry itself.
NoCircularWait ==
  \A s, t \in Slots :
    WaitsFor(s, t) /\ WaitsFor(t, s) => s = t /\ frames[<<s>>].access = "nc_store"

\* Data stored since main memory was last written is in a dirty block or on its way
\* down, as SystemEvents.cc:1555 has it: "if state is M/O/N, data must be sent to lower
\* level module".  With private L2 caches it does not hold.
DirtyDataIsHeld ==
  \A b \in behind :
    \/ \E m \in Modules : \E w \in Holds(m, b) : cache[m][w].state \in Dirty
    \/ \E f \in DOMAIN frames : /\ frames[f].blk = b
                                /\ AckData \in {frames[f].reply, frames[f].size}

\* The entry whose sharers are being invalidated stays locked by the access
\* that invalidates them, so that its state may be changed.
InvalidatedEntryIsLocked ==
  \A f \in DOMAIN frames : frames[f].ev \in {"invalidate", "invalidate_finish"} =>
    lock[frames[f].mod][frames[f].way] = Slot(f)

\* Every access finishes.
Finishes ==
  \A s \in Slots : <<s>> \in DOMAIN frames ~> <<s>> \notin DOMAIN frames

\* The directories and tags of the levels agree: a level holds what the levels above it
\* hold, an owner is recorded as one, and a request between levels finds its block.
LevelsAgree == TypeOK /\ OwnersAreKnown /\ Inclusive /\ RequestsFindTheirBlock

\* Entries are safe from concurrent accesses: a block takes one way, an entry stays
\* locked while it is invalidated.
EntriesAreSafe == OneCopyEach /\ InvalidatedEntryIsLocked
=============================================================================
