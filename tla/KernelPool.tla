----------------------------- MODULE KernelPool -----------------------------
(***************************************************************************)
(* The buffer pool and the disk manager of mini-db-kernel (buffer_pool.c,  *)
(* kind "kpool", and disk_manager.c, kind "kdisk").  They do not know each *)
(* other: the pool neither reads a page from a disk nor writes one to it,  *)
(* its callers would.  The pool has frames, a page table of hash chains    *)
(* and a list of frames in the order they were last fetched.               *)
(***************************************************************************)
EXTENDS Handle, Integers, Sequences, FiniteSets, SequencesExt

CONSTANTS KpPages,       \* numbers
          KpFrames,      \* BP_CAPACITY
          KpBuckets,     \* BP_HASH_BUCKETS
          KpVals, KpPins,  \* what is written; bound on the pins of a page
          DmPages        \* DM_MAX_PAGES

ASSUME KpAssumption == /\ KpPages \subseteq Nat /\ KpFrames \in Nat /\ KpBuckets \in Nat \ {0}
                       /\ DmPages \in Nat

\* An odd multiplier permutes the buckets: pages collide as their numbers do.
HashPageId(p) == p % KpBuckets
Fresh         == "zeros"

NewKpool == [kind |-> "kpool", frames |-> <<>>, lru |-> <<>>,
             table |-> [b \in 0..(KpBuckets - 1) |-> <<>>],
             recent |-> <<>>, held |-> [p \in KpPages |-> Fresh]]

\* The places of a page in the chain of its bucket; the first one counts.
InChain(t, p) == {i \in DOMAIN t[HashPageId(p)] : t[HashPageId(p)][i].page = p}
TableLookup(t, p) == IF InChain(t, p) = {} THEN 0 ELSE t[HashPageId(p)][Min(InChain(t, p))].frame
TableInsert(t, p, f) == [t EXCEPT ![HashPageId(p)] = <<[page |-> p, frame |-> f]>> \o @]
TableRemove(t, p) ==
  [t EXCEPT ![HashPageId(p)] =
     IF InChain(t, p) = {} THEN @ ELSE RemoveAt(@, Min(InChain(t, p)))]

LruTouch(lru, f) == <<f>> \o RemoveFirst(lru, f)

\* The last frame of the list that nobody has pinned, 0 if there is none.
LruEvict(h) ==
  LET free == {i \in DOMAIN h.lru : h.frames[h.lru[i]].pins = 0}
  IN  IF free = {} THEN 0 ELSE h.lru[CHOOSE i \in free : \A j \in free : j <= i]

NewFrame(p) == [page |-> p, pins |-> 1, dirty |-> FALSE, data |-> Fresh]

\* What only the caller's notes need: the pages by their last fetch.
Noted(h, p) == [h EXCEPT !.recent = LruTouch(@, p)]

PoolHit(p) ==
  LET h == handle
      f == TableLookup(h.table, p)
  IN  /\ f # 0 /\ h.frames[f].pins < KpPins
      /\ handle' = Noted([h EXCEPT !.frames[f].pins = @ + 1, !.lru = LruTouch(@, f)], p)

PoolGrow(p) ==
  LET h == handle
      f == Len(h.frames) + 1
  IN  /\ TableLookup(h.table, p) = 0 /\ f <= KpFrames
      /\ handle' = Noted([h EXCEPT !.frames = Append(@, NewFrame(p)), !.lru = LruTouch(@, f),
                                   !.table = TableInsert(@, p, f), !.held[p] = Fresh], p)

\* A dirty victim is marked clean and its bytes are gone; the frame starts with
\* zeros whatever the page held before.
PoolReplace(p) ==
  LET h == handle
      f == LruEvict(h)
      q == h.frames[f].page
  IN  /\ TableLookup(h.table, p) = 0 /\ Len(h.frames) = KpFrames /\ f # 0
      /\ handle' = Noted([h EXCEPT !.frames[f] = NewFrame(p),
                                   !.lru = LruTouch(RemoveFirst(@, f), f),
                                   !.table = TableInsert(TableRemove(@, q), p, f),
                                   !.held[p] = Fresh], p)

PoolUnpin(p) ==
  LET f == TableLookup(handle.table, p)
  IN  /\ f # 0 /\ handle.frames[f].pins > 0
      /\ handle' = [handle EXCEPT !.frames[f].pins = @ - 1]

\* Who has pinned a page writes into its frame.
PoolWrite(p, v) ==
  LET f == TableLookup(handle.table, p)
  IN  /\ f # 0 /\ handle.frames[f].pins > 0
      /\ handle' = [handle EXCEPT !.frames[f].data = v, !.frames[f].dirty = TRUE,
                                  !.held[p] = v]

PoolFlush(p) ==
  LET f == TableLookup(handle.table, p)
  IN  /\ f # 0 /\ handle.frames[f].dirty
      /\ handle' = [handle EXCEPT !.frames[f].dirty = FALSE]

PoolFlushAll ==
  handle' = [handle EXCEPT !.frames = [f \in DOMAIN @ |-> [@[f] EXCEPT !.dirty = FALSE]]]

-----------------------------------------------------------------------------
NewDisk == [kind |-> "kdisk", pages |-> [i \in {} |-> Fresh], count |-> 0,
            crashed |-> FALSE, wrote |-> [i \in {} |-> Fresh]]

DiskAllocate ==
  LET free == (0..(DmPages - 1)) \ DOMAIN handle.pages
      i    == CHOOSE x \in free : \A y \in free : x <= y
  IN  /\ ~handle.crashed /\ free # {}
      /\ handle' = [handle EXCEPT !.pages = [j \in DOMAIN @ \cup {i} |->
                                               IF j = i THEN Fresh ELSE @[j]],
                                  !.count = @ + 1,
                                  !.wrote = [j \in DOMAIN @ \cup {i} |->
                                               IF j = i THEN Fresh ELSE @[j]]]

\* Freeing a page works in a crash, too.
DiskDeallocate(i) ==
  /\ i \in DOMAIN handle.pages
  /\ handle' = [handle EXCEPT !.pages = [j \in DOMAIN @ \ {i} |-> @[j]], !.count = @ - 1,
                              !.wrote = [j \in DOMAIN @ \ {i} |-> @[j]]]

DiskRead(d, i) == IF ~d.crashed /\ i \in DOMAIN d.pages THEN {d.pages[i]} ELSE {}

DiskWrite(i, v) ==
  /\ ~handle.crashed /\ i \in DOMAIN handle.pages
  /\ handle' = [handle EXCEPT !.pages[i] = v, !.wrote[i] = v]

SimulateCrash == handle' = [handle EXCEPT !.crashed = ~@]

-----------------------------------------------------------------------------
KernelPoolInit == handle = NewKpool \/ handle = NewDisk

KpNext == /\ Holding("kpool")
          /\ \/ \E p \in KpPages : PoolHit(p)
             \/ \E p \in KpPages : PoolGrow(p)
             \/ \E p \in KpPages : PoolReplace(p)
             \/ \E p \in KpPages : PoolUnpin(p)
             \/ \E p \in KpPages, v \in KpVals : PoolWrite(p, v)
             \/ \E p \in KpPages : PoolFlush(p)
             \/ PoolFlushAll

DmNext == /\ Holding("kdisk")
          /\ \/ DiskAllocate
             \/ \E i \in 0..(DmPages - 1) : DiskDeallocate(i)
             \/ \E i \in 0..(DmPages - 1), v \in KpVals : DiskWrite(i, v)
             \/ SimulateCrash

KernelPoolNext == KpNext \/ DmNext

Resident == {handle.frames[f].page : f \in DOMAIN handle.frames}

\* After any fetches, pins and replacements, on chains that pages share, the page
\* table finds exactly the resident pages, each in its own frame with the bytes
\* last written there; the list has each frame once, in the order of the last
\* fetches, so that the victim is the free page fetched longest ago.  A disk
\* reads back what was last written, but nothing in a crash, and a page that is
\* allocated again reads zeros.
PoolFindsPages ==
  /\ Holding("kpool") =>
       /\ \A p \in KpPages : (TableLookup(handle.table, p) # 0) <=> p \in Resident
       /\ \A f \in DOMAIN handle.frames :
            /\ TableLookup(handle.table, handle.frames[f].page) = f
            /\ handle.frames[f].data = handle.held[handle.frames[f].page]
       /\ Len(handle.lru) = Len(handle.frames) /\ ToSet(handle.lru) = DOMAIN handle.frames
       /\ \A i, j \in DOMAIN handle.lru : i < j =>
            Precedes(handle.recent, handle.frames[handle.lru[i]].page, handle.frames[handle.lru[j]].page)
  /\ Holding("kdisk") =>
       /\ handle.count = Cardinality(DOMAIN handle.wrote)
       /\ \A i \in 0..(DmPages - 1) :
            DiskRead(handle, i) = IF handle.crashed \/ i \notin DOMAIN handle.wrote THEN {}
                                  ELSE {handle.wrote[i]}
=============================================================================
