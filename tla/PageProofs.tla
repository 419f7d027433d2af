----------------------------- MODULE PageProofs -----------------------------
(***************************************************************************)
(* Proofs about pages and their pools.  The pool of mini-relational-db:    *)
(* its type, that nothing written is lost, and that a pinned frame keeps   *)
(* its page.  The pool and the disk of mini-db-kernel: that pages are      *)
(* found with what they hold.  The slotted pages of both: that live slots  *)
(* read what was stored in them.  The caches of mini-file-storage and of   *)
(* mini-nosql-store: that each keeps what its policy says.                 *)
(***************************************************************************)
EXTENDS ClockPool, SlottedPages, Caches, LeastNumber, SequenceTheorems, TLAPS

(* A frame that is free, and one that its user has not marked yet.         *)
PinsOK ==
    /\ \A f \in Frames : frames[f].page = NoPage => frames[f].pins = 0
    /\ \A f \in unmarked : frames[f].pins > 0

Unique == \A f, g \in InUse : frames[f].page = frames[g].page => f = g

(* A frame has what was last written to its page; it is dirty, about to be *)
(* marked dirty, or the same as the disk.                                  *)
Current ==
    \A f \in InUse :
        /\ frames[f].data = latest[frames[f].page]
        /\ frames[f].dirty \/ f \in unmarked \/ disk[Slot(frames[f].page)] = frames[f].data

Away == \A p \in Pages : FramesOf(p) = {} => disk[Slot(p)] = latest[p]

IInv == PoolTypeOK /\ PinsOK /\ Unique /\ Current /\ Away

-----------------------------------------------------------------------------
LEMMA FramesFacts == Frames \subseteq Nat /\ IsFiniteSet(Frames)
BY PoolAssumption, FS_Interval DEF Frames

LEMMA SlotFacts ==
    /\ \A p \in Pages : Slot(p) \in 0 .. DiskPages - 1
    /\ \A p, q \in Pages : Slot(p) = Slot(q) => p = q
BY PoolAssumption DEF Slot

(* The first frame the hand comes to.                                      *)
LEMMA FirstFromIsMember ==
    ASSUME PoolTypeOK, NEW S \in SUBSET Frames, S # {}
    PROVE  FirstFrom(S) \in S
<1>1. \A f \in Frames : Steps(f) \in Nat
  BY PoolAssumption DEF PoolTypeOK, Frames, Steps
<1>2. { Steps(f) : f \in S } \in SUBSET Nat /\ { Steps(f) : f \in S } # {}
  BY <1>1
<1>3. PICK n \in { Steps(f) : f \in S } : \A m \in { Steps(f) : f \in S } : n <= m
  BY <1>2, LeastExists
<1>4. PICK f \in S : \A g \in S : Steps(f) <= Steps(g)
  BY <1>3
<1> QED BY <1>4 DEF FirstFrom

(* The victim of an eviction is a frame in use that nobody has pinned.     *)
LEMMA VictimIsEvictable ==
    ASSUME PoolTypeOK, Evictable # {}
    PROVE  Victim \in Evictable
<1>1. Evictable \subseteq Frames /\ Unreferenced \subseteq Evictable
  BY DEF Evictable, Unreferenced, InUse
<1> QED BY <1>1, FirstFromIsMember DEF Victim

(* A flush writes the dirty frames among S to the disk and nothing else.   *)
LEMMA FlushedFacts ==
    ASSUME IInv, NEW S \in SUBSET InUse
    PROVE  /\ Flushed(S) \in [0 .. DiskPages - 1 -> Contents]
           /\ \A f \in S : frames[f].dirty => Flushed(S)[Slot(frames[f].page)] = frames[f].data
           /\ \A p \in Pages :
                 (\A f \in S : frames[f].dirty => frames[f].page # p)
                 => Flushed(S)[Slot(p)] = disk[Slot(p)]
<1> DEFINE D(s) == { f \in S : frames[f].dirty /\ Slot(frames[f].page) = s }
<1>1. \A f \in InUse : frames[f].page \in Pages /\ f \in Frames /\ frames[f].data \in Contents
  BY DEF IInv, PoolTypeOK, InUse
<1>2. ASSUME NEW f \in S, frames[f].dirty
      PROVE  D(Slot(frames[f].page)) = {f}
  BY <1>1, <1>2, SlotFacts DEF IInv, Unique
<1>3. ASSUME NEW f \in Frames PROVE Max({f}) = f
  BY FramesFacts DEF Max
<1>4. ASSUME NEW s \in 0 .. DiskPages - 1
      PROVE  Flushed(S)[s] = IF D(s) = {} THEN disk[s] ELSE frames[Max(D(s))].data
  BY DEF Flushed, IInv, PoolTypeOK
<1>5. ASSUME NEW f \in S, frames[f].dirty
      PROVE  Flushed(S)[Slot(frames[f].page)] = frames[f].data
  BY <1>1, <1>2, <1>3, <1>4, <1>5, SlotFacts
<1>6. ASSUME NEW p \in Pages, \A f \in S : frames[f].dirty => frames[f].page # p
      PROVE  Flushed(S)[Slot(p)] = disk[Slot(p)]
  <2>1. D(Slot(p)) = {}
    BY <1>1, <1>6, SlotFacts
  <2> QED BY <2>1, <1>4, SlotFacts
<1>7. Flushed(S) \in [0 .. DiskPages - 1 -> Contents]
  <2>1. ASSUME NEW s \in 0 .. DiskPages - 1 PROVE Flushed(S)[s] \in Contents
    <3>1. CASE D(s) = {}
      BY <1>4, <3>1 DEF IInv, PoolTypeOK
    <3>2. CASE D(s) # {}
      <4>1. PICK f \in S : frames[f].dirty /\ Slot(frames[f].page) = s
        BY <3>2
      <4> QED BY <4>1, <1>1, <1>5
    <3> QED BY <3>1, <3>2
  <2>2. Flushed(S) = [s \in 0 .. DiskPages - 1 |-> Flushed(S)[s]]
    BY DEF Flushed, IInv, PoolTypeOK
  <2> QED BY <2>1, <2>2
<1> QED BY <1>5, <1>6, <1>7

-----------------------------------------------------------------------------
LEMMA InitIInv == Init => IInv
<1> SUFFICES ASSUME Init PROVE IInv
  OBVIOUS
<1>1. InUse = {}
  BY DEF Init, InUse, Free
<1>2. PoolTypeOK
  BY <1>1, PoolAssumption DEF Init, PoolTypeOK, Frames, Free, Contents
<1>3. Away
  BY SlotFacts DEF Init, Away
<1> QED BY <1>1, <1>2, <1>3 DEF IInv, Init, PinsOK, Unique, Current, Free

(* A pin, an unpin or another fetch of a page changes one frame's pins and *)
(* reference bit.                                                          *)
LEMMA TouchIInv ==
    ASSUME IInv, NEW f \in InUse, NEW n \in 0 .. MaxPins, NEW b \in {0, 1},
           f \in unmarked => n > 0,
           frames' = [frames EXCEPT ![f].bit = b, ![f].pins = n],
           UNCHANGED <<hand, disk, latest, unmarked>>
    PROVE  IInv'
<1>1. f \in Frames
  BY DEF InUse
<1>2. \A g \in Frames : /\ frames'[g].page = frames[g].page
                        /\ frames'[g].data = frames[g].data
                        /\ frames'[g].dirty = frames[g].dirty
                        /\ frames'[g].pins = IF g = f THEN n ELSE frames[g].pins
  BY <1>1 DEF IInv, PoolTypeOK
<1>3. InUse' = InUse /\ \A p : FramesOf(p)' = FramesOf(p)
  BY <1>2 DEF InUse, FramesOf
<1>4. PoolTypeOK'
  BY <1>1, <1>3 DEF IInv, PoolTypeOK
<1>5. PinsOK'
  BY <1>1, <1>2, <1>3 DEF IInv, PoolTypeOK, PinsOK, InUse
<1>6. Unique'
  BY <1>2, <1>3 DEF IInv, Unique, InUse
<1>8. ASSUME NEW g \in InUse'
      PROVE  /\ frames'[g].data = latest'[frames'[g].page]
             /\ \/ frames'[g].dirty \/ g \in unmarked'
                \/ disk'[Slot(frames'[g].page)] = frames'[g].data
  BY <1>2, <1>3, ZenonT(120) DEF IInv, Current, InUse
<1>9. Current'
  BY <1>8 DEF Current, Slot
<1>7. Away'
  BY <1>3 DEF IInv, Away, Slot
<1> QED BY <1>4, <1>5, <1>6, <1>7, <1>9 DEF IInv

(* A page is loaded into a frame that nobody uses or that the hand found,  *)
(* whose old page has been written back.                                   *)
LEMMA LoadIInv ==
    ASSUME IInv, NEW p \in Pages, FramesOf(p) = {}, NEW f \in Frames, frames[f].pins = 0,
           disk' \in [0 .. DiskPages - 1 -> Contents],
           f \in InUse => disk'[Slot(frames[f].page)] = latest[frames[f].page],
           \A q \in Pages : q # frames[f].page => disk'[Slot(q)] = disk[Slot(q)],
           frames' \in [Frames -> [page : Pages \cup {NoPage}, data : Contents, dirty : BOOLEAN,
                                   pins : 0 .. MaxPins, bit : {0, 1}]],
           frames'[f] = Loaded(p, disk'[Slot(p)]),
           \A g \in Frames \ {f} : \E b \in {0, 1} : frames'[g] = [frames[g] EXCEPT !.bit = b],
           hand' \in Frames, UNCHANGED <<latest, unmarked>>
    PROVE  IInv'
<1>1. /\ frames'[f].page = p /\ frames'[f].data = disk'[Slot(p)] /\ frames'[f].pins = 1
      /\ \A g \in Frames \ {f} : /\ frames'[g].page = frames[g].page
                                 /\ frames'[g].data = frames[g].data
                                 /\ frames'[g].dirty = frames[g].dirty
                                 /\ frames'[g].pins = frames[g].pins
  <2>1. frames'[f].page = p /\ frames'[f].data = disk'[Slot(p)] /\ frames'[f].pins = 1
    BY DEF Loaded
  <2>2. ASSUME NEW g \in Frames \ {f}
        PROVE  /\ frames'[g].page = frames[g].page
               /\ frames'[g].data = frames[g].data
               /\ frames'[g].dirty = frames[g].dirty
               /\ frames'[g].pins = frames[g].pins
    <3>1. PICK b \in {0, 1} : frames'[g] = [frames[g] EXCEPT !.bit = b]
      OBVIOUS
    <3> QED BY <3>1 DEF IInv, PoolTypeOK
  <2> QED BY <2>1, <2>2
<1>2. p # NoPage /\ \A g \in Frames : frames[g].page # p
  BY PoolAssumption DEF FramesOf
<1>3. InUse' = InUse \cup {f} /\ f \notin unmarked
  BY <1>1, <1>2 DEF InUse, IInv, PinsOK
<1>4. PoolTypeOK'
  BY <1>3 DEF IInv, PoolTypeOK
<1>5. PinsOK'
  BY <1>1, <1>2, <1>3 DEF IInv, PoolTypeOK, PinsOK, InUse
<1>6. Unique'
  BY <1>1, <1>2, <1>3 DEF IInv, Unique, InUse
<1>7. disk'[Slot(p)] = latest[p]
  BY <1>2 DEF IInv, Away
<1>8. ASSUME NEW g \in InUse \ {f}
      PROVE  disk'[Slot(frames[g].page)] = disk[Slot(frames[g].page)]
  <2>1. g \in Frames /\ frames[g].page \in Pages
    BY DEF InUse, IInv, PoolTypeOK
  <2>2. frames[g].page # frames[f].page
    BY <2>1 DEF IInv, Unique, InUse
  <2> QED BY <2>1, <2>2
<1>9. Current'
  <2>1. ASSUME NEW g \in InUse'
        PROVE  /\ frames'[g].data = latest'[frames'[g].page]
               /\ \/ frames'[g].dirty \/ g \in unmarked'
                  \/ disk'[Slot(frames'[g].page)] = frames'[g].data
    <3>1. CASE g = f
      BY <3>1, <1>1, <1>7
    <3>2. CASE g # f
      BY <3>2, <1>1, <1>3, <1>8 DEF IInv, Current, InUse
    <3> QED BY <3>1, <3>2
  <2> QED BY <2>1 DEF Current, Slot
<1>10. ASSUME NEW q \in Pages, FramesOf(q)' = {}
       PROVE  disk'[Slot(q)] = latest[q]
  <2>1. q # p /\ \A g \in Frames \ {f} : frames[g].page # q
    BY <1>1, <1>10 DEF FramesOf
  <2>2. CASE frames[f].page = q
    BY <2>2, PoolAssumption DEF InUse
  <2>3. CASE frames[f].page # q
    <3>1. FramesOf(q) = {}
      BY <2>1, <2>3 DEF FramesOf
    <3> QED BY <2>3, <3>1 DEF IInv, Away
  <2> QED BY <2>2, <2>3
<1>11. Away'
  BY <1>10 DEF Away, Slot
<1> QED BY <1>4, <1>5, <1>6, <1>9, <1>11 DEF IInv

LEMMA WriteIInv ==
    ASSUME IInv, NEW f \in Frames, NEW d \in Data, WriteData(f, d)
    PROVE  IInv'
<1>1. f \in InUse /\ frames[f].page \in Pages /\ frames[f].pins > 0
  BY DEF WriteData, InUse, IInv, PoolTypeOK
<1>2. \A g \in Frames : /\ frames'[g].page = frames[g].page
                        /\ frames'[g].pins = frames[g].pins
                        /\ frames'[g].dirty = frames[g].dirty
                        /\ frames'[g].data = IF g = f THEN d ELSE frames[g].data
  BY DEF WriteData, IInv, PoolTypeOK
<1>3. InUse' = InUse /\ \A p : FramesOf(p)' = FramesOf(p)
  BY <1>2 DEF InUse, FramesOf
<1>4. PoolTypeOK'
  BY <1>1, <1>3, ZenonT(120) DEF WriteData, IInv, PoolTypeOK, Contents
<1>5. PinsOK'
  BY <1>1, <1>2 DEF WriteData, IInv, PinsOK
<1>6. Unique'
  BY <1>2, <1>3 DEF IInv, Unique, InUse
<1>7. \A p \in Pages : latest'[p] = IF p = frames[f].page THEN d ELSE latest[p]
  BY DEF WriteData, IInv, PoolTypeOK
<1>8. ASSUME NEW g \in InUse'
      PROVE  /\ frames'[g].data = latest'[frames'[g].page]
             /\ \/ frames'[g].dirty \/ g \in unmarked'
                \/ disk'[Slot(frames'[g].page)] = frames'[g].data
  <2>1. g \in InUse /\ g \in Frames /\ frames[g].page \in Pages
    BY <1>3 DEF InUse, IInv, PoolTypeOK
  <2>2. CASE g = f
    BY <2>2, <1>1, <1>2, <1>7 DEF WriteData
  <2>3. CASE g # f
    <3>1. frames[g].page # frames[f].page
      BY <1>1, <2>1, <2>3 DEF IInv, Unique
    <3> QED BY <1>2, <1>7, <2>1, <2>3, <3>1 DEF WriteData, IInv, Current
  <2> QED BY <2>2, <2>3
<1>9. Current'
  BY <1>8 DEF Current, Slot
<1>10. ASSUME NEW p \in Pages, FramesOf(p)' = {}
       PROVE  disk'[Slot(p)] = latest'[p]
  <2>1. p # frames[f].page /\ FramesOf(p) = {}
    BY <1>3, <1>10 DEF FramesOf
  <2> QED BY <1>7, <2>1 DEF WriteData, IInv, Away
<1>11. Away'
  BY <1>10 DEF Away, Slot
<1> QED BY <1>4, <1>5, <1>6, <1>9, <1>11 DEF IInv

LEMMA FlushIInv ==
    ASSUME IInv, NEW S \in SUBSET InUse, Flush(S)
    PROVE  IInv'
<1>1. \A g \in Frames : /\ frames'[g].page = frames[g].page
                        /\ frames'[g].pins = frames[g].pins
                        /\ frames'[g].dirty = IF g \in S THEN FALSE ELSE frames[g].dirty
                        /\ frames'[g].data = frames[g].data
  BY DEF Flush, IInv, PoolTypeOK
<1>2. InUse' = InUse /\ \A p : FramesOf(p)' = FramesOf(p)
  BY <1>1 DEF InUse, FramesOf
<1>3. PoolTypeOK'
  <2>1. disk' \in [0 .. DiskPages - 1 -> Contents]
    BY FlushedFacts DEF Flush
  <2> QED BY <1>2, <2>1 DEF Flush, IInv, PoolTypeOK
<1>4. PinsOK'
  BY <1>1 DEF Flush, IInv, PinsOK, PoolTypeOK, InUse
<1>5. Unique'
  BY <1>1, <1>2 DEF IInv, Unique, InUse
<1>6. ASSUME NEW g \in InUse'
      PROVE  /\ frames'[g].data = latest'[frames'[g].page]
             /\ \/ frames'[g].dirty \/ g \in unmarked'
                \/ disk'[Slot(frames'[g].page)] = frames'[g].data
  <2>1. g \in InUse /\ g \in Frames /\ frames[g].page \in Pages
    BY <1>2 DEF InUse, IInv, PoolTypeOK
  <2>2. CASE g \in S /\ frames[g].dirty
    <3>1. disk'[Slot(frames[g].page)] = frames[g].data
      BY <2>2, FlushedFacts DEF Flush
    <3> QED BY <1>1, <2>1, <3>1 DEF Flush, IInv, Current
  <2>3. CASE ~(g \in S /\ frames[g].dirty)
    <3>1. \A h \in S : frames[h].dirty => frames[h].page # frames[g].page
      BY <2>1, <2>3 DEF IInv, Unique
    <3>2. disk'[Slot(frames[g].page)] = disk[Slot(frames[g].page)]
      BY <2>1, <3>1, FlushedFacts DEF Flush
    <3> QED BY <1>1, <2>1, <2>3, <3>2 DEF Flush, IInv, Current
  <2> QED BY <2>2, <2>3
<1>7. Current'
  BY <1>6 DEF Current, Slot
<1>8. ASSUME NEW p \in Pages, FramesOf(p)' = {}
      PROVE  disk'[Slot(p)] = latest'[p]
  <2>1. FramesOf(p) = {} /\ \A h \in S : frames[h].page # p
    BY <1>2, <1>8, ZenonT(120) DEF FramesOf, InUse
  <2>2. disk'[Slot(p)] = disk[Slot(p)]
    BY <2>1, FlushedFacts DEF Flush
  <2> QED BY <2>1, <2>2 DEF Flush, IInv, Away
<1>9. Away'
  BY <1>8 DEF Away, Slot
<1> QED BY <1>3, <1>4, <1>5, <1>7, <1>9 DEF IInv

LEMMA ReopenIInv ==
    ASSUME IInv, Reopen
    PROVE  IInv'
<1>1. \A f \in Frames : frames'[f] = Free
  BY DEF Reopen
<1>2. InUse' = {}
  BY <1>1 DEF InUse, Free
<1>3. disk' = Flushed(InUse) /\ disk' \in [0 .. DiskPages - 1 -> Contents]
  BY FlushedFacts DEF Reopen
<1>4. PoolTypeOK'
  BY <1>2, <1>3, PoolAssumption DEF Reopen, IInv, PoolTypeOK, Frames, Free, Contents
<1>5. PinsOK' /\ Unique' /\ Current'
  BY <1>1, <1>2 DEF Reopen, PinsOK, Unique, Current, Free
<1>6. ASSUME NEW p \in Pages
      PROVE  disk'[Slot(p)] = latest[p]
  <2>1. CASE FramesOf(p) = {}
    <3>1. \A f \in InUse : frames[f].page # p
      BY <2>1 DEF FramesOf, InUse
    <3> QED BY <1>3, <2>1, <3>1, FlushedFacts DEF IInv, Away
  <2>2. CASE FramesOf(p) # {}
    <3>1. PICK f \in InUse : frames[f].page = p
      BY <2>2, PoolAssumption DEF FramesOf, InUse
    <3>2. CASE frames[f].dirty
      BY <1>3, <3>1, <3>2, FlushedFacts DEF IInv, Current
    <3>3. CASE ~frames[f].dirty
      <4>1. \A h \in InUse : frames[h].dirty => frames[h].page # p
        BY <3>1, <3>3 DEF IInv, Unique
      <4>2. disk'[Slot(p)] = disk[Slot(p)]
        BY <1>3, <4>1, FlushedFacts
      <4> QED BY <3>1, <3>3, <4>2 DEF Reopen, IInv, Current
    <3> QED BY <3>2, <3>3
  <2> QED BY <2>1, <2>2
<1>7. Away'
  BY <1>6 DEF Reopen, Away, Slot
<1> QED BY <1>4, <1>5, <1>7 DEF IInv

LEMMA MarkIInv ==
    ASSUME IInv, NEW f \in Frames, MarkDirty(f)
    PROVE  IInv'
<1>1. \A g \in Frames : /\ frames'[g].page = frames[g].page
                        /\ frames'[g].pins = frames[g].pins
                        /\ frames'[g].data = frames[g].data
                        /\ frames'[g].dirty = IF g = f THEN TRUE ELSE frames[g].dirty
  BY DEF MarkDirty, IInv, PoolTypeOK
<1>2. InUse' = InUse /\ \A p : FramesOf(p)' = FramesOf(p)
  BY <1>1 DEF InUse, FramesOf
<1>3. PoolTypeOK'
  BY <1>2 DEF MarkDirty, IInv, PoolTypeOK
<1>4. PinsOK'
  BY <1>1 DEF MarkDirty, IInv, PinsOK, PoolTypeOK, InUse
<1>5. Unique'
  BY <1>1, <1>2 DEF IInv, Unique, InUse
<1>6. ASSUME NEW g \in InUse'
      PROVE  /\ frames'[g].data = latest'[frames'[g].page]
             /\ \/ frames'[g].dirty \/ g \in unmarked'
                \/ disk'[Slot(frames'[g].page)] = frames'[g].data
  <2>1. g \in InUse /\ g \in Frames
    BY <1>2 DEF InUse
  <2> QED BY <1>1, <2>1 DEF MarkDirty, IInv, Current
<1>7. Current'
  BY <1>6 DEF Current, Slot
<1>8. Away'
  BY <1>2 DEF MarkDirty, IInv, Away, Slot
<1> QED BY <1>3, <1>4, <1>5, <1>7, <1>8 DEF IInv

LEMMA FetchFreeIInv ==
    ASSUME IInv, NEW p \in Pages, FetchFree(p)
    PROVE  IInv'
<1> DEFINE f == Min(Frames \ InUse)
<1>1. f \in Frames \ InUse
  <2>1. Frames \ InUse \in SUBSET Nat /\ Frames \ InUse # {}
    BY FramesFacts DEF FetchFree, InUse
  <2> QED BY <2>1, MinIsMember
<1> HIDE DEF f
<1>2. frames[f].page = NoPage /\ frames[f].pins = 0
  BY <1>1 DEF InUse, IInv, PinsOK
<1>3. frames' = [frames EXCEPT ![f] = Loaded(p, disk[Slot(p)])] /\ UNCHANGED <<hand, disk, latest, unmarked>>
  BY DEF FetchFree, f
<1>4. Loaded(p, disk[Slot(p)]) \in [page : Pages \cup {NoPage}, data : Contents, dirty : BOOLEAN,
                    pins : 0 .. MaxPins, bit : {0, 1}]
  BY SlotFacts, PoolAssumption DEF Loaded, IInv, PoolTypeOK
<1>5. frames' \in [Frames -> [page : Pages \cup {NoPage}, data : Contents, dirty : BOOLEAN,
                             pins : 0 .. MaxPins, bit : {0, 1}]]
  BY <1>1, <1>3, <1>4 DEF IInv, PoolTypeOK
<1>6. frames'[f] = Loaded(p, disk'[Slot(p)])
  BY <1>1, <1>3 DEF IInv, PoolTypeOK
<1>7. ASSUME NEW g \in Frames \ {f}
      PROVE  \E b \in {0, 1} : frames'[g] = [frames[g] EXCEPT !.bit = b]
  <2>1. frames'[g] = frames[g] /\ frames[g].bit \in {0, 1}
    BY <1>3 DEF IInv, PoolTypeOK
  <2>2. frames[g] = [frames[g] EXCEPT !.bit = frames[g].bit]
    BY DEF IInv, PoolTypeOK
  <2> QED BY <2>1, <2>2
<1>8. FramesOf(p) = {} /\ hand' \in Frames /\ f \notin InUse /\ f \in Frames
  BY <1>1, <1>3 DEF FetchFree, IInv, PoolTypeOK
<1>9. disk' \in [0 .. DiskPages - 1 -> Contents] /\ disk' = disk /\ UNCHANGED <<latest, unmarked>>
  BY <1>3 DEF IInv, PoolTypeOK
<1> QED BY <1>2, <1>5, <1>6, <1>7, <1>8, <1>9, LoadIInv

LEMMA FetchEvictIInv ==
    ASSUME IInv, NEW p \in Pages, FetchEvict(p)
    PROVE  IInv'
<1>1. Victim \in Evictable /\ Victim \in Frames /\ Victim \in InUse /\ frames[Victim].pins = 0
  BY VictimIsEvictable DEF FetchEvict, IInv, Evictable, InUse
<1>2. frames[Victim].page \in Pages /\ frames[Victim].data \in Contents
  BY <1>1 DEF InUse, IInv, PoolTypeOK
<1>3. Victim \notin unmarked
  BY <1>1 DEF IInv, PinsOK
<1>4. disk' = WrittenBack(Victim) /\ UNCHANGED <<latest, unmarked>>
  BY DEF FetchEvict
<1>5. disk' \in [0 .. DiskPages - 1 -> Contents]
  BY <1>2, <1>4, SlotFacts DEF WrittenBack, IInv, PoolTypeOK
<1>6. disk'[Slot(frames[Victim].page)] = latest[frames[Victim].page]
  BY <1>1, <1>2, <1>3, <1>4, SlotFacts DEF WrittenBack, IInv, PoolTypeOK, Current
<1>7. \A q \in Pages : q # frames[Victim].page => disk'[Slot(q)] = disk[Slot(q)]
  BY <1>2, <1>4, SlotFacts DEF WrittenBack, IInv, PoolTypeOK
<1>8. frames'[Victim] = Loaded(p, disk'[Slot(p)])
  BY <1>1 DEF FetchEvict
<1>9. ASSUME NEW g \in Frames \ {Victim}
      PROVE  \E b \in {0, 1} : frames'[g] = [frames[g] EXCEPT !.bit = b]
  <2>1. frames'[g] = IF g \in Passed THEN [frames[g] EXCEPT !.bit = 0] ELSE frames[g]
    BY DEF FetchEvict
  <2>2. frames[g] = [frames[g] EXCEPT !.bit = frames[g].bit] /\ frames[g].bit \in {0, 1}
    BY DEF IInv, PoolTypeOK
  <2> QED BY <2>1, <2>2
<1>10. frames' \in [Frames -> [page : Pages \cup {NoPage}, data : Contents, dirty : BOOLEAN,
                              pins : 0 .. MaxPins, bit : {0, 1}]]
  <2>1. disk'[Slot(p)] \in Contents
    BY <1>5, SlotFacts
  <2>2. Loaded(p, disk'[Slot(p)])
           \in [page : Pages \cup {NoPage}, data : Contents, dirty : BOOLEAN,
               pins : 0 .. MaxPins, bit : {0, 1}]
    BY <2>1, PoolAssumption DEF Loaded
  <2>3. ASSUME NEW g \in Frames
        PROVE  frames'[g] \in [page : Pages \cup {NoPage}, data : Contents, dirty : BOOLEAN,
                              pins : 0 .. MaxPins, bit : {0, 1}]
    <3>1. CASE g = Victim
      BY <3>1, <1>8, <2>2
    <3>2. CASE g # Victim
      <4>1. PICK b \in {0, 1} : frames'[g] = [frames[g] EXCEPT !.bit = b]
        BY <3>2, <1>9
      <4> QED BY <4>1 DEF IInv, PoolTypeOK
    <3> QED BY <3>1, <3>2
  <2>4. frames' = [f \in Frames |-> frames'[f]]
    BY DEF FetchEvict
  <2> QED BY <2>3, <2>4
<1>11. hand' \in Frames
  BY <1>1, PoolAssumption DEF FetchEvict, Frames
<1>12. FramesOf(p) = {}
  BY DEF FetchEvict
<1> HIDE DEF Victim
<1> QED BY <1>1, <1>4, <1>5, <1>6, <1>7, <1>8, <1>9, <1>10, <1>11, <1>12, LoadIInv

-----------------------------------------------------------------------------
LEMMA NextIInv == IInv /\ [Next]_vars => IInv'
<1> SUFFICES ASSUME IInv, [Next]_vars PROVE IInv'
  OBVIOUS
<1>1. ASSUME NEW p \in Pages, FetchHit(p) PROVE IInv'
  <2>1. PICK f \in FramesOf(p) : /\ frames[f].pins < MaxPins
                               /\ frames' = [frames EXCEPT ![f].bit = 1, ![f].pins = @ + 1]
                               /\ UNCHANGED <<hand, disk, latest, unmarked>>
    BY <1>1 DEF FetchHit
  <2>2. f \in InUse /\ frames[f].pins \in 0 .. MaxPins
    BY PoolAssumption DEF FramesOf, InUse, IInv, PoolTypeOK
  <2>3. frames[f].pins + 1 \in 0 .. MaxPins /\ frames[f].pins + 1 > 0
    BY <2>1, <2>2, PoolAssumption
  <2>4. frames' = [frames EXCEPT ![f].bit = 1, ![f].pins = frames[f].pins + 1]
    BY <2>1
  <2> QED BY <2>1, <2>2, <2>3, <2>4, TouchIInv
<1>2. ASSUME NEW p \in Pages, FetchFree(p) \/ FetchEvict(p) PROVE IInv'
  BY <1>2, FetchFreeIInv, FetchEvictIInv
<1>3. ASSUME NEW f \in Frames, Pin(f) \/ Unpin(f) PROVE IInv'
  <2>1. PICK n \in 0 .. MaxPins : /\ f \in unmarked => n > 0
                                 /\ frames' = [frames EXCEPT ![f].pins = n]
    <3>1. frames[f].pins \in 0 .. MaxPins /\ MaxPins \in Nat
      BY PoolAssumption DEF IInv, PoolTypeOK
    <3>2. CASE Pin(f)
      <4>1. frames' = [frames EXCEPT ![f].pins = frames[f].pins + 1]
        BY <3>2 DEF Pin
      <4>2. frames[f].pins + 1 \in 0 .. MaxPins /\ frames[f].pins + 1 > 0
        BY <3>1, <3>2 DEF Pin
      <4> QED BY <4>1, <4>2
    <3>3. CASE Unpin(f)
      <4>1. frames' = [frames EXCEPT ![f].pins = frames[f].pins - 1]
        BY <3>3 DEF Unpin
      <4>2. frames[f].pins - 1 \in 0 .. MaxPins /\ (f \in unmarked => frames[f].pins - 1 > 0)
        BY <3>1, <3>3 DEF Unpin
      <4> QED BY <4>1, <4>2
    <3> QED BY <1>3, <3>2, <3>3
  <2>2. f \in InUse /\ frames[f].bit \in {0, 1} /\ UNCHANGED <<hand, disk, latest, unmarked>>
    BY <1>3 DEF Pin, Unpin, InUse, IInv, PoolTypeOK
  <2>3. frames' = [frames EXCEPT ![f].bit = frames[f].bit, ![f].pins = n]
    BY <2>1, <2>2 DEF InUse, IInv, PoolTypeOK
  <2> QED BY <2>1, <2>2, <2>3, TouchIInv
<1>4. ASSUME NEW f \in Frames, MarkDirty(f) PROVE IInv'
  BY <1>4, MarkIInv
<1>5. ASSUME NEW f \in Frames, NEW d \in Data, WriteData(f, d) PROVE IInv'
  BY <1>5, WriteIInv
<1>6. ASSUME NEW S \in SUBSET InUse, Flush(S) PROVE IInv'
  BY <1>6, FlushIInv
<1>7. CASE Reopen
  BY <1>7, ReopenIInv
<1>8. CASE UNCHANGED vars
  BY <1>8 DEF vars, IInv, PoolTypeOK, PinsOK, Unique, Current, Away, InUse, FramesOf, Slot
<1> QED BY <1>1, <1>2, <1>3, <1>4, <1>5, <1>6, <1>7, <1>8 DEF Next, Fetch, Use

(* A page that is in the pool has one frame, in use.                       *)
LEMMA IInvMeansNothingLost == IInv => NothingWrittenIsLost
<1> SUFFICES ASSUME IInv, NEW p \in Pages
             PROVE  /\ Cardinality(FramesOf(p)) <= 1
                    /\ \A f \in FramesOf(p) : frames[f].data = latest[p]
                    /\ FramesOf(p) = {} => disk[Slot(p)] = latest[p]
  BY DEF NothingWrittenIsLost
<1>1. \A f \in FramesOf(p) : f \in InUse /\ frames[f].page = p
  BY PoolAssumption DEF FramesOf, InUse
<1>2. Cardinality(FramesOf(p)) <= 1
  <2>1. CASE FramesOf(p) = {}
    BY <2>1, FS_EmptySet
  <2>2. CASE FramesOf(p) # {}
    <3>1. PICK f \in FramesOf(p) : FramesOf(p) = {f}
      BY <1>1, <2>2 DEF IInv, Unique
    <3>2. Cardinality({f}) = 1
      BY FS_Singleton
    <3>3. Cardinality(FramesOf(p)) = 1
      BY <3>1, <3>2
    <3> QED BY <3>3
  <2> QED BY <2>1, <2>2
<1> QED BY <1>1, <1>2 DEF IInv, Current, Away

LEMMA SpecIInv == Spec => []IInv
BY InitIInv, NextIInv, PTL DEF Spec

(* The frames, the disk and the callers have their types, for any number   *)
(* of frames and pages.                                                    *)
THEOREM TypeCorrect == Spec => []PoolTypeOK
<1>1. IInv => PoolTypeOK
  BY DEF IInv
<1> QED BY <1>1, SpecIInv, PTL

(* A page in the pool has one frame with what was last written to it, and  *)
(* a page that is not has it on disk, whatever CLOCK evicts.               *)
THEOREM NothingWrittenIsLostHolds == Spec => []NothingWrittenIsLost
BY SpecIInv, IInvMeansNothingLost, PTL

(* No step but a new start of the pool moves the page of a pinned frame.   *)
THEOREM PinnedStaysHolds == Spec => PinnedStays
<1>1. IInv /\ [Next]_vars =>
         [\A f \in Frames : frames[f].pins > 0 /\ ~Reopen => frames'[f].page = frames[f].page]_vars
  <2> SUFFICES ASSUME IInv, Next, ~Reopen, NEW f \in Frames, frames[f].pins > 0
               PROVE  frames'[f].page = frames[f].page
    OBVIOUS
  <2>1. ASSUME NEW p \in Pages, FetchHit(p) PROVE frames'[f].page = frames[f].page
    BY <2>1 DEF FetchHit, FramesOf, IInv, PoolTypeOK
  <2>2. ASSUME NEW p \in Pages, FetchFree(p) PROVE frames'[f].page = frames[f].page
    <3>1. Frames \ InUse \in SUBSET Nat /\ Frames \ InUse # {}
      BY <2>2, FramesFacts DEF FetchFree, InUse
    <3>2. Min(Frames \ InUse) \in Frames \ InUse
      BY <3>1, MinIsMember
    <3>3. f \in InUse
      BY DEF InUse, IInv, PinsOK
    <3> QED BY <2>2, <3>2, <3>3 DEF FetchFree, IInv, PoolTypeOK
  <2>3. ASSUME NEW p \in Pages, FetchEvict(p) PROVE frames'[f].page = frames[f].page
    <3>1. Victim # f
      BY <2>3, VictimIsEvictable DEF FetchEvict, IInv, Evictable
    <3> QED BY <2>3, <3>1 DEF FetchEvict, IInv, PoolTypeOK
  <2>4. ASSUME NEW g \in Frames, Use(g) PROVE frames'[f].page = frames[f].page
    BY <2>4, SMTT(60) DEF Use, Pin, Unpin, MarkDirty, WriteData, IInv, PoolTypeOK
  <2>5. ASSUME NEW S \in SUBSET InUse, Flush(S) PROVE frames'[f].page = frames[f].page
    BY <2>5 DEF Flush, IInv, PoolTypeOK
  <2> QED BY <2>1, <2>2, <2>3, <2>4, <2>5 DEF Next, Fetch
<1> QED BY <1>1, SpecIInv, PTL DEF Spec, PinnedStays

-----------------------------------------------------------------------------
(***************************************************************************)
(* The buffer pool and the disk of mini-db-kernel.                         *)
(***************************************************************************)

(* A list names nothing twice.                                             *)
Distinct(s) == \A i, j \in 1 .. Len(s) : s[i] = s[j] => i = j

(* A list without the entry at one place.                                  *)
OneLess(S, s, k, c) ==
    /\ c \in Seq(S) /\ Len(c) = Len(s) - 1
    /\ \A i \in 1 .. Len(s) - 1 : c[i] = IF i < k THEN s[i] ELSE s[i + 1]

(* What RemoveAt gives, place by place.                                    *)
LEMMA RemovedIs ==
    ASSUME NEW S, NEW s \in Seq(S), NEW k \in 1 .. Len(s)
    PROVE  OneLess(S, s, k, RemoveAt(s, k))
<1> DEFINE n == Len(s)
           a == SubSeq(s, 1, k - 1)
           b == SubSeq(s, k + 1, n)
           c == a \o b
<1>1. n \in Nat /\ k \in 1 .. n
  OBVIOUS
<1>2. a \in Seq(S) /\ Len(a) = k - 1 /\ \A i \in 1 .. k - 1 : a[i] = s[i]
  OBVIOUS
<1>3. b \in Seq(S) /\ Len(b) = n - k /\ \A i \in 1 .. n - k : b[i] = s[k + 1 + i - 1]
  OBVIOUS
<1> HIDE DEF a, b, n
<1>4. c \in Seq(S) /\ Len(c) = n - 1
  <2>1. c \in Seq(S)
    BY <1>2, <1>3
  <2>2. Len(c) = Len(a) + Len(b)
    BY <1>2, <1>3, ConcatProperties
  <2>3. Len(a) + Len(b) = n - 1
    BY <1>1, <1>2, <1>3
  <2> QED BY <2>1, <2>2, <2>3
<1>5. \A i \in 1 .. n - 1 : c[i] = IF i <= k - 1 THEN a[i] ELSE b[i - (k - 1)]
  BY <1>1, <1>2, <1>3
<1> HIDE DEF c
<1>6. ASSUME NEW i \in 1 .. n - 1 PROVE c[i] = IF i < k THEN s[i] ELSE s[i + 1]
  <2>1. CASE i < k
    BY <1>1, <1>2, <1>5, <2>1
  <2>2. CASE ~(i < k)
    <3>1. i - (k - 1) \in 1 .. n - k /\ k + 1 + (i - (k - 1)) - 1 = i + 1
      BY <1>1, <2>2
    <3> DEFINE j == i - (k - 1)
    <3>2. c[i] = b[j]
      BY <1>1, <1>5, <2>2
    <3>3. b[j] = s[k + 1 + j - 1]
      BY <1>3, <3>1
    <3> QED BY <2>2, <3>1, <3>2, <3>3
  <2> QED BY <2>1, <2>2
<1>7. RemoveAt(s, k) = c
  BY DEF RemoveAt, c, a, b, n
<1> QED BY <1>4, <1>6, <1>7 DEF OneLess, n

(* A list that has lost an entry, the others in their order.               *)
Left(S, s, x, c) ==
    /\ c \in Seq(S) /\ Distinct(c) /\ ToSet(c) = ToSet(s) \ {x}
    /\ Len(c) = IF x \in ToSet(s) THEN Len(s) - 1 ELSE Len(s)
    /\ \A y, z : Precedes(c, y, z) <=> y # x /\ z # x /\ Precedes(s, y, z)

(* The order of two entries by their places.                               *)
LEMMA PrecedesIs ==
    ASSUME NEW S, NEW s \in Seq(S)
    PROVE  /\ ToSet(s) = {s[i] : i \in 1 .. Len(s)}
           /\ \A x, y : Precedes(s, x, y) <=> \E i, j \in 1 .. Len(s) : i < j /\ s[i] = x /\ s[j] = y
<1>1. DOMAIN s = 1 .. Len(s)
  OBVIOUS
<1> QED BY <1>1 DEF ToSet, Precedes

(* RemoveFirst takes the entry out of a list that has it once.             *)
LEMMA RemoveFirstIs ==
    ASSUME NEW S, NEW s \in Seq(S), Distinct(s), NEW x
    PROVE  Left(S, s, x, RemoveFirst(s, x))
<1> DEFINE n == Len(s)
           c == RemoveFirst(s, x)
<1>1. n \in Nat /\ DOMAIN s = 1 .. n /\ ToSet(s) = {s[i] : i \in 1 .. n}
  BY PrecedesIs
<1>2. \A i, j \in 1 .. n : s[i] = s[j] => i = j
  BY DEF Distinct
<1>3. CASE x \notin ToSet(s)
  <2>1. c = s
    BY <1>1, <1>3 DEF RemoveFirst
  <2>2. \A y, z : Precedes(s, y, z) => y # x /\ z # x
    BY <1>1, <1>3, PrecedesIs
  <2> QED BY <1>3, <2>1, <2>2 DEF Left
<1>4. CASE x \in ToSet(s)
  <2>1. PICK k \in 1 .. n : s[k] = x
    BY <1>1, <1>4
  <2> DEFINE I == { i \in 1 .. Len(s) : s[i] = x }
  <2>2. I = {k}
    BY <1>2, <2>1
  <2>3. Min(I) = k
    <3> SUFFICES Min(I) \in I
      BY <2>2
    <3>1. I \in SUBSET Nat /\ I # {}
      BY <1>1, <2>1
    <3> HIDE DEF I
    <3> QED BY <3>1, MinIsMember
  <2>4. SelectInSeq(s, LAMBDA v : v = x) = k
    <3>1. SelectInSeq(s, LAMBDA v : v = x) = IF I # {} THEN Min(I) ELSE 0
      BY DEF SelectInSeq
    <3> HIDE DEF I
    <3> QED BY <2>2, <2>3, <3>1
  <2>5. c = RemoveAt(s, k)
    BY <2>1, <2>4 DEF RemoveFirst
  <2> HIDE DEF c
  <2>6. c \in Seq(S) /\ Len(c) = n - 1 /\ \A i \in 1 .. n - 1 : c[i] = IF i < k THEN s[i] ELSE s[i + 1]
    BY <2>5, RemovedIs DEF OneLess
  <2>7. /\ ToSet(c) = {c[i] : i \in 1 .. n - 1}
        /\ \A y, z : Precedes(c, y, z) <=> \E i, j \in 1 .. n - 1 : i < j /\ c[i] = y /\ c[j] = z
    BY <2>6, PrecedesIs, SMTT(60)
  <2>8. \A y, z : Precedes(s, y, z) <=> \E i, j \in 1 .. n : i < j /\ s[i] = y /\ s[j] = z
    BY PrecedesIs
  <2> HIDE DEF n
  <2> DEFINE Source(i) == IF i < k THEN i ELSE i + 1
             Target(i) == IF i < k THEN i ELSE i - 1
  <2>9. \A i \in 1 .. n - 1 : Source(i) \in 1 .. n /\ Source(i) # k /\ c[i] = s[Source(i)]
    BY <1>1, <2>1, <2>6
  <2>10. \A i \in 1 .. n : i # k => Target(i) \in 1 .. n - 1 /\ c[Target(i)] = s[i]
    <3> SUFFICES ASSUME NEW i \in 1 .. n, i # k PROVE Target(i) \in 1 .. n - 1 /\ c[Target(i)] = s[i]
      OBVIOUS
    <3>1. CASE i < k
      BY <1>1, <2>1, <2>6, <3>1
    <3>2. CASE i > k
      <4>1. i - 1 \in 1 .. n - 1 /\ ~(i - 1 < k) /\ (i - 1) + 1 = i
        BY <1>1, <2>1, <3>2
      <4> QED BY <2>6, <3>2, <4>1
    <3> QED BY <1>1, <2>1, <3>1, <3>2
  <2>11. \A i, j \in 1 .. n - 1 : (i < j <=> Source(i) < Source(j)) /\ (Source(i) = Source(j) => i = j)
    BY <1>1, <2>1
  <2>12. \A i, j \in 1 .. n : i # k /\ j # k /\ i < j => Target(i) < Target(j)
    BY <1>1, <2>1
  <2> HIDE DEF Source, Target
  <2>13. Distinct(c)
    BY <1>2, <2>6, <2>9, <2>11, SMTT(60) DEF Distinct
  <2>14. \A i \in 1 .. n : s[i] = x <=> i = k
    BY <1>2, <2>1
  <2>15. ToSet(c) = ToSet(s) \ {x}
    <3>1. ASSUME NEW y \in ToSet(c) PROVE y \in ToSet(s) \ {x}
      BY <1>1, <2>7, <2>9, <2>14, <3>1
    <3>2. ASSUME NEW y \in ToSet(s), y # x PROVE y \in ToSet(c)
      BY <1>1, <2>1, <2>7, <2>10, <3>2
    <3> QED BY <3>1, <3>2
  <2>16. ASSUME NEW y, NEW z PROVE Precedes(c, y, z) <=> y # x /\ z # x /\ Precedes(s, y, z)
    <3>1. ASSUME Precedes(c, y, z) PROVE y # x /\ z # x /\ Precedes(s, y, z)
      <4>1. PICK i \in 1 .. n - 1, j \in 1 .. n - 1 : i < j /\ c[i] = y /\ c[j] = z
        BY <2>7, <3>1
      <4>2. /\ Source(i) \in 1 .. n /\ Source(j) \in 1 .. n /\ Source(i) < Source(j)
            /\ s[Source(i)] = y /\ s[Source(j)] = z /\ Source(i) # k /\ Source(j) # k
        BY <2>9, <2>11, <4>1
      <4> QED BY <2>8, <2>14, <4>2
    <3>2. ASSUME y # x, z # x, Precedes(s, y, z) PROVE Precedes(c, y, z)
      <4>1. PICK i \in 1 .. n, j \in 1 .. n : i < j /\ s[i] = y /\ s[j] = z
        BY <2>8, <3>2
      <4>2. i # k /\ j # k
        BY <2>1, <3>2, <4>1
      <4>3. /\ Target(i) \in 1 .. n - 1 /\ Target(j) \in 1 .. n - 1 /\ Target(i) < Target(j)
            /\ c[Target(i)] = y /\ c[Target(j)] = z
        BY <2>10, <2>12, <4>1, <4>2
      <4> QED BY <2>7, <4>3
    <3> QED BY <3>1, <3>2
  <2> QED BY <1>4, <2>6, <2>13, <2>15, <2>16 DEF Left, c, n
<1> QED BY <1>3, <1>4

(* A list with an entry in front of all others, which keep their order.    *)
Touched(S, s, x, c) ==
    /\ c \in Seq(S) /\ Distinct(c) /\ ToSet(c) = ToSet(s) \cup {x}
    /\ Len(c) = IF x \in ToSet(s) THEN Len(s) ELSE Len(s) + 1
    /\ \A y, z : Precedes(c, y, z) <=> \/ y = x /\ z # x /\ z \in ToSet(s)
                                       \/ y # x /\ z # x /\ Precedes(s, y, z)

(* What lru_touch makes of the list.                                       *)
LEMMA TouchIs ==
    ASSUME NEW S, NEW s \in Seq(S), Distinct(s), NEW x \in S
    PROVE  Touched(S, s, x, LruTouch(s, x))
<1> DEFINE r == RemoveFirst(s, x)
           m == Len(r)
           c == <<x>> \o r
<1>1. LruTouch(s, x) = c
  BY DEF LruTouch
<1>2. Left(S, s, x, r)
  BY RemoveFirstIs
<1> HIDE DEF r
<1>3. r \in Seq(S) /\ Distinct(r) /\ ToSet(r) = ToSet(s) \ {x} /\ m \in Nat
  BY <1>2 DEF Left
<1>4. c \in Seq(S) /\ Len(c) = m + 1 /\ c[1] = x /\ \A i \in 2 .. m + 1 : c[i] = r[i - 1]
  BY <1>3
<1>5. /\ ToSet(c) = {c[i] : i \in 1 .. m + 1}
      /\ \A y, z : Precedes(c, y, z) <=> \E i, j \in 1 .. m + 1 : i < j /\ c[i] = y /\ c[j] = z
  <2> HIDE DEF c, m
  <2> QED BY <1>4, PrecedesIs
<1>6. /\ ToSet(r) = {r[i] : i \in 1 .. m}
      /\ \A y, z : Precedes(r, y, z) <=> \E i, j \in 1 .. m : i < j /\ r[i] = y /\ r[j] = z
  BY <1>3, PrecedesIs
<1>7. \A i, j \in 1 .. m : r[i] = r[j] => i = j
  BY <1>3 DEF Distinct
<1>8. Len(s) \in Nat /\ m = IF x \in ToSet(s) THEN Len(s) - 1 ELSE Len(s)
  BY <1>2 DEF Left
<1> HIDE DEF c, m
<1>9. \A i \in 1 .. m : r[i] # x /\ i + 1 \in 2 .. m + 1 /\ i + 1 \in 1 .. m + 1 /\ c[i + 1] = r[i]
  <2> SUFFICES ASSUME NEW i \in 1 .. m
               PROVE  r[i] # x /\ i + 1 \in 2 .. m + 1 /\ i + 1 \in 1 .. m + 1 /\ c[i + 1] = r[i]
    OBVIOUS
  <2>1. r[i] \in ToSet(r)
    BY <1>6
  <2>2. r[i] # x
    BY <1>3, <2>1
  <2>3. i + 1 \in 2 .. m + 1 /\ i + 1 \in 1 .. m + 1 /\ (i + 1) - 1 = i
    BY <1>3
  <2> QED BY <1>4, <2>2, <2>3
<1>10. \A i \in 1 .. m + 1 : i = 1 \/ (i \in 2 .. m + 1 /\ i - 1 \in 1 .. m /\ c[i] = r[i - 1])
  BY <1>3, <1>4
<1>11. Distinct(c)
  <2> SUFFICES ASSUME NEW i \in 1 .. m + 1, NEW j \in 1 .. m + 1, c[i] = c[j] PROVE i = j
    BY <1>4 DEF Distinct
  <2>1. CASE i = 1 /\ j = 1
    BY <2>1
  <2>2. CASE i = 1 /\ j # 1
    BY <1>4, <1>9, <1>10, <2>2
  <2>3. CASE i # 1 /\ j = 1
    BY <1>4, <1>9, <1>10, <2>3
  <2>4. CASE i # 1 /\ j # 1
    <3>1. i - 1 = j - 1
      BY <1>7, <1>10, <2>4
    <3> QED BY <1>3, <3>1
  <2> QED BY <2>1, <2>2, <2>3, <2>4
<1>12. ToSet(c) = ToSet(s) \cup {x}
  <2>1. 1 \in 1 .. m + 1
    BY <1>3
  <2>2. ToSet(c) = ToSet(r) \cup {x}
    <3>1. ASSUME NEW y \in ToSet(c) PROVE y \in ToSet(r) \cup {x}
      BY <1>4, <1>5, <1>6, <1>10
    <3>2. ASSUME NEW y \in ToSet(r) PROVE y \in ToSet(c)
      BY <1>5, <1>6, <1>9
    <3> QED BY <1>4, <1>5, <2>1, <3>1, <3>2
  <2> QED BY <1>3, <2>2
<1>13. ASSUME NEW y, NEW z
       PROVE  Precedes(c, y, z) <=> \/ y = x /\ z # x /\ z \in ToSet(s)
                                    \/ y # x /\ z # x /\ Precedes(s, y, z)
  <2>1. Precedes(r, y, z) <=> y # x /\ z # x /\ Precedes(s, y, z)
    BY <1>2 DEF Left
  <2>2. ASSUME Precedes(c, y, z) PROVE (y = x /\ z # x /\ z \in ToSet(s)) \/ Precedes(r, y, z)
    <3>1. PICK i \in 1 .. m + 1, j \in 1 .. m + 1 : i < j /\ c[i] = y /\ c[j] = z
      BY <1>5, <2>2
    <3>2. j # 1 /\ j - 1 \in 1 .. m /\ z = r[j - 1]
      BY <1>3, <1>10, <3>1
    <3>3. z \in ToSet(r)
      BY <1>6, <3>2
    <3>4. CASE i = 1
      BY <1>3, <1>4, <3>1, <3>3, <3>4
    <3>5. CASE i # 1
      <4>1. i - 1 \in 1 .. m /\ y = r[i - 1] /\ i - 1 < j - 1
        BY <1>3, <1>10, <3>1, <3>5
      <4> QED BY <1>6, <3>2, <4>1
    <3> QED BY <3>4, <3>5
  <2>3. ASSUME Precedes(r, y, z) PROVE Precedes(c, y, z)
    <3>1. PICK i \in 1 .. m, j \in 1 .. m : i < j /\ r[i] = y /\ r[j] = z
      BY <1>6, <2>3
    <3>2. i + 1 < j + 1
      BY <1>3, <3>1
    <3> QED BY <1>5, <1>9, <3>1, <3>2
  <2>4. ASSUME y = x, z # x, z \in ToSet(s) PROVE Precedes(c, y, z)
    <3>1. z \in ToSet(r)
      BY <1>3, <2>4
    <3>2. PICK j \in 1 .. m : r[j] = z
      BY <1>6, <3>1
    <3>3. 1 \in 1 .. m + 1 /\ 1 < j + 1
      BY <1>3
    <3> QED BY <1>4, <1>5, <1>9, <2>4, <3>2, <3>3
  <2> QED BY <2>1, <2>2, <2>3, <2>4
<1>14. m + 1 = IF x \in ToSet(s) THEN Len(s) ELSE Len(s) + 1
  BY <1>8
<1> QED BY <1>1, <1>4, <1>11, <1>12, <1>13, <1>14 DEF Touched

(* A chain of a bucket: no page has two entries.                           *)
ChainEntries == [page : KpPages, frame : Nat \ {0}]
ChainOK(s) == /\ s \in Seq(ChainEntries)
              /\ \A i, j \in 1 .. Len(s) : s[i].page = s[j].page => i = j

(* What a walk of a chain finds.                                           *)
PlacesOf(s, p) == {i \in DOMAIN s : s[i].page = p}
FoundIn(s, p) == IF PlacesOf(s, p) = {} THEN 0 ELSE s[Min(PlacesOf(s, p))].frame

(* The walk finds the entry of the page, wherever it stands.               *)
LEMMA FoundInIs ==
    ASSUME NEW s, ChainOK(s), NEW p
    PROVE  /\ (\A i \in 1 .. Len(s) : s[i].page # p) => FoundIn(s, p) = 0
           /\ \A i \in 1 .. Len(s) : s[i].page = p =>
                FoundIn(s, p) = s[i].frame /\ Min(PlacesOf(s, p)) = i
           /\ FoundIn(s, p) = 0 => \A i \in 1 .. Len(s) : s[i].page # p
<1> DEFINE n == Len(s)
           I == PlacesOf(s, p)
<1>1. n \in Nat /\ DOMAIN s = 1 .. n /\ \A i \in 1 .. n : s[i] \in ChainEntries
  BY DEF ChainOK
<1>2. I = {i \in 1 .. n : s[i].page = p}
  BY <1>1 DEF PlacesOf
<1>3. (\A i \in 1 .. n : s[i].page # p) => FoundIn(s, p) = 0
  BY <1>2 DEF FoundIn
<1>4. ASSUME NEW i \in 1 .. n, s[i].page = p
      PROVE  FoundIn(s, p) = s[i].frame /\ FoundIn(s, p) # 0 /\ Min(I) = i
  <2>1. I \in SUBSET Nat /\ I # {}
    BY <1>1, <1>2, <1>4
  <2>2. Min(I) \in I
    <3> HIDE DEF I
    <3> QED BY <2>1, MinIsMember
  <2>3. Min(I) = i
    BY <1>2, <1>4, <2>2 DEF ChainOK
  <2>4. s[i].frame # 0
    BY <1>1 DEF ChainEntries
  <2> QED BY <2>1, <2>3, <2>4 DEF FoundIn
<1> QED BY <1>3, <1>4

(* An entry put in front of a chain, and the first entry of a page taken    *)
(* out of it.                                                              *)
Prepended(s, p, f) == <<[page |-> p, frame |-> f]>> \o s
ChainLess(s, p) == IF PlacesOf(s, p) = {} THEN s ELSE RemoveAt(s, Min(PlacesOf(s, p)))

(* The first finds its page in a chain that had none for it.               *)
LEMMA PrependFinds ==
    ASSUME NEW s, ChainOK(s), NEW p \in KpPages, NEW f \in Nat \ {0}, FoundIn(s, p) = 0
    PROVE  /\ ChainOK(Prepended(s, p, f))
           /\ \A r : FoundIn(Prepended(s, p, f), r) = IF r = p THEN f ELSE FoundIn(s, r)
<1> DEFINE n == Len(s)
           c == Prepended(s, p, f)
           e == [page |-> p, frame |-> f]
<1>1. n \in Nat /\ s \in Seq(ChainEntries) /\ e \in ChainEntries
  BY DEF ChainOK, ChainEntries
<1>2. e.page = p /\ e.frame = f
  OBVIOUS
<1> HIDE DEF e
<1>3. c \in Seq(ChainEntries) /\ Len(c) = n + 1 /\ c[1] = e /\ \A i \in 2 .. n + 1 : c[i] = s[i - 1]
  BY <1>1 DEF Prepended, e
<1> HIDE DEF c
<1>4. \A i \in 1 .. n : s[i].page # p
  BY FoundInIs
<1>5. \A i \in 1 .. n + 1 : i = 1 \/ (i - 1 \in 1 .. n /\ c[i] = s[i - 1])
  BY <1>1, <1>3
<1>6. \A i \in 1 .. n : i + 1 \in 1 .. n + 1 /\ c[i + 1] = s[i]
  <2> SUFFICES ASSUME NEW i \in 1 .. n PROVE i + 1 \in 1 .. n + 1 /\ c[i + 1] = s[i]
    OBVIOUS
  <2>1. i + 1 \in 2 .. n + 1 /\ i + 1 \in 1 .. n + 1 /\ (i + 1) - 1 = i
    BY <1>1
  <2> QED BY <1>3, <2>1
<1>7. ChainOK(c)
  <2> SUFFICES ASSUME NEW i \in 1 .. n + 1, NEW j \in 1 .. n + 1, c[i].page = c[j].page PROVE i = j
    BY <1>3 DEF ChainOK
  <2>1. CASE i = 1 /\ j = 1
    BY <2>1
  <2>2. CASE i = 1 /\ j # 1
    BY <1>2, <1>3, <1>4, <1>5, <2>2
  <2>3. CASE i # 1 /\ j = 1
    BY <1>2, <1>3, <1>4, <1>5, <2>3
  <2>4. CASE i # 1 /\ j # 1
    <3>1. i - 1 = j - 1
      BY <1>5, <2>4 DEF ChainOK
    <3> QED BY <1>1, <3>1
  <2> QED BY <2>1, <2>2, <2>3, <2>4
<1>8. FoundIn(c, p) = f
  <2>1. 1 \in 1 .. Len(c) /\ c[1].page = p /\ c[1].frame = f
    BY <1>1, <1>2, <1>3
  <2> QED BY <1>7, <2>1, FoundInIs
<1>9. ASSUME NEW r, r # p PROVE FoundIn(c, r) = FoundIn(s, r)
  <2>1. CASE \A i \in 1 .. n : s[i].page # r
    <3>1. \A i \in 1 .. n + 1 : c[i].page # r
      BY <1>2, <1>3, <1>5, <1>9, <2>1
    <3> QED BY <1>3, <1>7, <2>1, <3>1, FoundInIs
  <2>2. CASE \E i \in 1 .. n : s[i].page = r
    <3>1. PICK i \in 1 .. n : s[i].page = r
      BY <2>2
    <3>2. FoundIn(s, r) = s[i].frame
      BY <3>1, FoundInIs
    <3>3. i + 1 \in 1 .. Len(c) /\ c[i + 1].page = r
      BY <1>3, <1>6, <3>1
    <3>4. FoundIn(c, r) = c[i + 1].frame
      BY <1>7, <3>3, FoundInIs
    <3> QED BY <1>6, <3>2, <3>4
  <2> QED BY <2>1, <2>2
<1> QED BY <1>7, <1>8, <1>9 DEF c

(* A chain without the entry of a page.                                    *)
LEMMA DroppedFinds ==
    ASSUME NEW s, ChainOK(s), NEW p
    PROVE  /\ ChainOK(ChainLess(s, p))
           /\ \A r : FoundIn(ChainLess(s, p), r) = IF r = p THEN 0 ELSE FoundIn(s, r)
<1> DEFINE n == Len(s)
           c == ChainLess(s, p)
<1>1. n \in Nat /\ DOMAIN s = 1 .. n /\ s \in Seq(ChainEntries)
  BY DEF ChainOK
<1>2. CASE PlacesOf(s, p) = {}
  <2>1. \A i \in 1 .. n : s[i].page # p
    BY <1>1, <1>2 DEF PlacesOf
  <2>2. c = s
    BY <1>2 DEF ChainLess
  <2> QED BY <2>1, <2>2, FoundInIs
<1>3. CASE PlacesOf(s, p) # {}
  <2>1. PICK k \in 1 .. n : s[k].page = p
    BY <1>1, <1>3 DEF PlacesOf
  <2>2. c = RemoveAt(s, k)
    BY <1>3, <2>1, FoundInIs, SMTT(60) DEF ChainLess
  <2> HIDE DEF c
  <2>3. c \in Seq(ChainEntries) /\ Len(c) = n - 1 /\ \A i \in 1 .. n - 1 : c[i] = IF i < k THEN s[i] ELSE s[i + 1]
    BY <1>1, <2>2, RemovedIs DEF OneLess
  <2> HIDE DEF n
  <2> DEFINE Source(i) == IF i < k THEN i ELSE i + 1
             Target(i) == IF i < k THEN i ELSE i - 1
  <2>4. \A i \in 1 .. n - 1 : Source(i) \in 1 .. n /\ Source(i) # k /\ c[i] = s[Source(i)]
    BY <1>1, <2>1, <2>3
  <2>5. \A i \in 1 .. n : i # k => Target(i) \in 1 .. n - 1 /\ c[Target(i)] = s[i]
    <3> SUFFICES ASSUME NEW i \in 1 .. n, i # k PROVE Target(i) \in 1 .. n - 1 /\ c[Target(i)] = s[i]
      OBVIOUS
    <3>1. CASE i < k
      BY <1>1, <2>1, <2>3, <3>1
    <3>2. CASE i > k
      <4>1. i - 1 \in 1 .. n - 1 /\ ~(i - 1 < k) /\ (i - 1) + 1 = i
        BY <1>1, <2>1, <3>2
      <4> QED BY <2>3, <3>2, <4>1
    <3> QED BY <1>1, <2>1, <3>1, <3>2
  <2>6. \A i, j \in 1 .. n - 1 : Source(i) = Source(j) => i = j
    BY <1>1, <2>1
  <2> HIDE DEF Source, Target
  <2>7. ChainOK(c)
    <3>1. \A i, j \in 1 .. n : s[i].page = s[j].page => i = j
      BY DEF ChainOK, n
    <3> QED BY <2>3, <2>4, <2>6, <3>1 DEF ChainOK
  <2>8. \A i \in 1 .. n : s[i].page = p <=> i = k
    BY <2>1 DEF ChainOK, n
  <2>9. FoundIn(c, p) = 0
    BY <2>3, <2>4, <2>7, <2>8, FoundInIs
  <2>10. ASSUME NEW r, r # p PROVE FoundIn(c, r) = FoundIn(s, r)
    <3>1. CASE \A i \in 1 .. n : s[i].page # r
      <4>1. \A i \in 1 .. Len(c) : c[i].page # r
        BY <2>3, <2>4, <3>1
      <4>2. FoundIn(s, r) = 0
        BY <3>1, FoundInIs DEF n
      <4> QED BY <2>7, <4>1, <4>2, FoundInIs
    <3>2. CASE \E i \in 1 .. n : s[i].page = r
      <4>1. PICK i \in 1 .. n : s[i].page = r
        BY <3>2
      <4>2. i # k
        BY <2>8, <2>10, <4>1
      <4>3. FoundIn(s, r) = s[i].frame
        BY <4>1, FoundInIs DEF n
      <4>4. Target(i) \in 1 .. Len(c) /\ c[Target(i)] = s[i]
        BY <2>3, <2>5, <4>2
      <4>5. FoundIn(c, r) = c[Target(i)].frame
        BY <2>7, <4>1, <4>4, FoundInIs
      <4> QED BY <4>3, <4>4, <4>5
    <3> QED BY <3>1, <3>2
  <2> QED BY <2>7, <2>9, <2>10 DEF c
<1> QED BY <1>2, <1>3

(* The hash table: every chain is in order.                                *)
TableFine(t) == /\ t \in [0 .. KpBuckets - 1 -> Seq(ChainEntries)]
                /\ \A b \in 0 .. KpBuckets - 1 : ChainOK(t[b])

LEMMA HashIs ==
    ASSUME NEW p \in KpPages
    PROVE  HashPageId(p) \in 0 .. KpBuckets - 1
<1>1. p \in Nat /\ KpBuckets \in Nat /\ KpBuckets > 0
  BY KpAssumption
<1> QED BY <1>1 DEF HashPageId

(* A lookup walks the chain of its bucket.                                 *)
LEMMA LookupIs ==
    ASSUME NEW t, NEW p
    PROVE  TableLookup(t, p) = FoundIn(t[HashPageId(p)], p)
<1>1. InChain(t, p) = PlacesOf(t[HashPageId(p)], p)
  BY DEF InChain, PlacesOf
<1> QED BY <1>1 DEF TableLookup, FoundIn

(* A chain that finds what another does, but at g the page p.              *)
FindsAs(c, s, p, g) == \A r : FoundIn(c, r) = IF r = p THEN g ELSE FoundIn(s, r)

(* A table with another chain in one bucket.                               *)
WithChain(t, p, c) == [t EXCEPT ![HashPageId(p)] = c]
LEMMA BucketChanged ==
    ASSUME NEW t, TableFine(t), NEW p \in KpPages, NEW g, NEW c, ChainOK(c),
           FindsAs(c, t[HashPageId(p)], p, g), NEW u, u = WithChain(t, p, c)
    PROVE  /\ TableFine(u)
           /\ \A r \in KpPages : TableLookup(u, r) = IF r = p THEN g ELSE TableLookup(t, r)
<1> DEFINE a == HashPageId(p)
<1>1. a \in 0 .. KpBuckets - 1
  BY HashIs
<1>2. c \in Seq(ChainEntries)
  BY DEF ChainOK
<1>3. t \in [0 .. KpBuckets - 1 -> Seq(ChainEntries)] /\ \A b \in 0 .. KpBuckets - 1 : ChainOK(t[b])
  BY DEF TableFine
<1>0. u = [t EXCEPT ![a] = c]
  BY DEF WithChain
<1> HIDE DEF a
<1>4. /\ u \in [0 .. KpBuckets - 1 -> Seq(ChainEntries)]
      /\ \A b \in 0 .. KpBuckets - 1 : u[b] = IF b = a THEN c ELSE t[b]
  BY <1>0, <1>1, <1>2, <1>3
<1>5. TableFine(u)
  BY <1>3, <1>4 DEF TableFine
<1>6. ASSUME NEW r \in KpPages PROVE TableLookup(u, r) = IF r = p THEN g ELSE TableLookup(t, r)
  <2>1. TableLookup(u, r) = FoundIn(u[HashPageId(r)], r) /\ TableLookup(t, r) = FoundIn(t[HashPageId(r)], r)
    BY LookupIs
  <2>2. HashPageId(r) \in 0 .. KpBuckets - 1
    BY HashIs
  <2>3. CASE HashPageId(r) = a
    BY <1>1, <1>4, <2>1, <2>3 DEF a, FindsAs
  <2>4. CASE HashPageId(r) # a
    BY <1>4, <2>1, <2>2, <2>4 DEF a
  <2> QED BY <2>3, <2>4
<1> QED BY <1>5, <1>6

(* page_table_insert and page_table_remove.                                *)
LEMMA InsertIs ==
    ASSUME NEW t, TableFine(t), NEW p \in KpPages, NEW f \in Nat \ {0}, TableLookup(t, p) = 0
    PROVE  /\ TableFine(TableInsert(t, p, f))
           /\ \A r \in KpPages : TableLookup(TableInsert(t, p, f), r)
                                   = IF r = p THEN f ELSE TableLookup(t, r)
<1> DEFINE s == t[HashPageId(p)]
           c == Prepended(s, p, f)
<1>1. ChainOK(s) /\ FoundIn(s, p) = 0
  BY HashIs, LookupIs DEF TableFine
<1>2. ChainOK(c) /\ FindsAs(c, s, p, f)
  <2> HIDE DEF s
  <2> QED BY <1>1, PrependFinds DEF FindsAs
<1> DEFINE u == TableInsert(t, p, f)
<1>3. u = WithChain(t, p, c)
  BY DEF WithChain, TableInsert, Prepended
<1> HIDE DEF c, s, u
<1>4. ChainOK(c) /\ FindsAs(c, t[HashPageId(p)], p, f)
  BY <1>2 DEF s
<1>5. TableFine(u) /\ \A r \in KpPages : TableLookup(u, r) = IF r = p THEN f ELSE TableLookup(t, r)
  BY <1>3, <1>4, BucketChanged
<1> QED BY <1>5 DEF u

LEMMA RemoveIs ==
    ASSUME NEW t, TableFine(t), NEW p \in KpPages
    PROVE  /\ TableFine(TableRemove(t, p))
           /\ \A r \in KpPages : TableLookup(TableRemove(t, p), r)
                                   = IF r = p THEN 0 ELSE TableLookup(t, r)
<1> DEFINE s == t[HashPageId(p)]
           c == ChainLess(s, p)
<1>1. ChainOK(s)
  BY HashIs DEF TableFine
<1>2. ChainOK(c) /\ FindsAs(c, s, p, 0)
  <2> HIDE DEF s
  <2> QED BY <1>1, DroppedFinds DEF FindsAs
<1> DEFINE u == TableRemove(t, p)
<1>3. u = WithChain(t, p, c)
  BY DEF WithChain, TableRemove, ChainLess, InChain, PlacesOf
<1> HIDE DEF c, s, u
<1>4. ChainOK(c) /\ FindsAs(c, t[HashPageId(p)], p, 0)
  BY <1>2 DEF s
<1>5. TableFine(u) /\ \A r \in KpPages : TableLookup(u, r) = IF r = p THEN 0 ELSE TableLookup(t, r)
  BY <1>3, <1>4, BucketChanged
<1> QED BY <1>5 DEF u

-----------------------------------------------------------------------------
(* The frames hold what was last written to their pages.                   *)
PoolData == KpVals \cup {Fresh}
PoolFrames == [page : KpPages, pins : Nat, dirty : BOOLEAN, data : PoolData]
FramesOK(fr, held) ==
    /\ fr \in Seq(PoolFrames) /\ held \in [KpPages -> PoolData]
    /\ \A f \in 1 .. Len(fr) : fr[f].data = held[fr[f].page]

(* The table leads to the frame of each resident page and nowhere else.    *)
AgreeOK(fr, t) ==
    /\ TableFine(t)
    /\ \A p \in KpPages : TableLookup(t, p) # 0 =>
         TableLookup(t, p) \in 1 .. Len(fr) /\ fr[TableLookup(t, p)].page = p
    /\ \A f \in 1 .. Len(fr) : TableLookup(t, fr[f].page) = f

(* The list has each frame once, in the order its pages were fetched.      *)
LruOK(fr, lru, rec) ==
    /\ lru \in Seq(Nat) /\ Distinct(lru) /\ ToSet(lru) = 1 .. Len(fr) /\ Len(lru) = Len(fr)
    /\ rec \in Seq(KpPages) /\ Distinct(rec)
    /\ \A f \in 1 .. Len(fr) : fr[f].page \in ToSet(rec)
    /\ \A f, g : Precedes(lru, f, g) => Precedes(rec, fr[f].page, fr[g].page)

PoolOK(fr, lru, t, rec, held) ==
    FramesOK(fr, held) /\ AgreeOK(fr, t) /\ LruOK(fr, lru, rec)

(* Frames that change neither their pages nor what they hold.              *)
LEMMA SamePages ==
    ASSUME NEW fr, NEW lru, NEW t, NEW rec, NEW held, PoolOK(fr, lru, t, rec, held),
           NEW fr2 \in Seq(PoolFrames), Len(fr2) = Len(fr),
           \A f \in 1 .. Len(fr) : fr2[f].page = fr[f].page /\ fr2[f].data = fr[f].data
    PROVE  PoolOK(fr2, lru, t, rec, held)
<1> DEFINE n == Len(fr)
<1>1. fr \in Seq(PoolFrames) /\ n \in Nat /\ Len(fr2) = n
  BY DEF PoolOK, FramesOK
<1>2. FramesOK(fr2, held)
  BY DEF PoolOK, FramesOK
<1>3. AgreeOK(fr2, t)
  BY DEF PoolOK, AgreeOK
<1>4. \A f, g : Precedes(lru, f, g) => f \in 1 .. n /\ g \in 1 .. n
  <2>1. lru \in Seq(Nat)
    BY DEF PoolOK, LruOK
  <2>2. ToSet(lru) = 1 .. n
    BY DEF PoolOK, LruOK
  <2>3. ASSUME NEW f, NEW g, Precedes(lru, f, g) PROVE f \in ToSet(lru) /\ g \in ToSet(lru)
    <3>1. PICK i \in 1 .. Len(lru), j \in 1 .. Len(lru) : lru[i] = f /\ lru[j] = g
      BY <2>1, <2>3, PrecedesIs
    <3>2. ToSet(lru) = {lru[k] : k \in 1 .. Len(lru)}
      BY <2>1, PrecedesIs
    <3> QED BY <3>1, <3>2
  <2> QED BY <2>2, <2>3
<1>5. LruOK(fr2, lru, rec)
  BY <1>4 DEF PoolOK, LruOK
<1> QED BY <1>2, <1>3, <1>5 DEF PoolOK

(* What a fetch does to both lists: the frame and its page come first.     *)
LEMMA OrderTouched ==
    ASSUME NEW lru \in Seq(Nat), Distinct(lru), NEW rec \in Seq(KpPages), Distinct(rec),
           NEW f \in Nat, NEW p \in KpPages, NEW fr, NEW fr2, fr2[f].page = p,
           \A g \in ToSet(lru) \ {f} : fr2[g].page = fr[g].page /\ fr[g].page # p /\ fr[g].page \in ToSet(rec),
           \A x, y : Precedes(lru, x, y) => Precedes(rec, fr[x].page, fr[y].page)
    PROVE  /\ \A x, y : Precedes(LruTouch(lru, f), x, y) =>
                Precedes(LruTouch(rec, p), fr2[x].page, fr2[y].page)
           /\ \A g \in ToSet(lru) \cup {f} : fr2[g].page \in ToSet(LruTouch(rec, p))
<1> DEFINE l == LruTouch(lru, f)
           c == LruTouch(rec, p)
<1>1. Touched(Nat, lru, f, l)
  BY TouchIs
<1>2. Touched(KpPages, rec, p, c)
  BY TouchIs
<1> HIDE DEF l, c
<1>3. \A g \in ToSet(lru) \cup {f} : fr2[g].page \in ToSet(c)
  BY <1>2 DEF Touched
<1>4. ASSUME NEW x, NEW y, Precedes(l, x, y) PROVE Precedes(c, fr2[x].page, fr2[y].page)
  <2>1. CASE x = f /\ y # f /\ y \in ToSet(lru)
    BY <1>2, <2>1 DEF Touched
  <2>2. CASE x # f /\ y # f /\ Precedes(lru, x, y)
    <3>1. x \in ToSet(lru) /\ y \in ToSet(lru)
      BY <2>2, PrecedesIs, SMTT(60)
    <3>2. Precedes(rec, fr[x].page, fr[y].page)
      BY <2>2
    <3>3. fr2[x].page = fr[x].page /\ fr2[y].page = fr[y].page /\ fr[x].page # p /\ fr[y].page # p
      BY <2>2, <3>1
    <3> QED BY <1>2, <3>2, <3>3 DEF Touched
  <2> QED BY <1>1, <1>4, <2>1, <2>2 DEF Touched
<1> QED BY <1>3, <1>4 DEF l, c

(* bp_fetch_page on a hit.                                                 *)
LEMMA HitKeeps ==
    ASSUME NEW fr, NEW lru, NEW t, NEW rec, NEW held, PoolOK(fr, lru, t, rec, held),
           NEW p \in KpPages, NEW f, f = TableLookup(t, p), f # 0
    PROVE  PoolOK([fr EXCEPT ![f].pins = @ + 1], LruTouch(lru, f), t, LruTouch(rec, p), held)
<1> DEFINE fr2 == [fr EXCEPT ![f].pins = @ + 1]
           n == Len(fr)
           l == LruTouch(lru, f)
           c == LruTouch(rec, p)
<1>1. /\ fr \in Seq(PoolFrames) /\ n \in Nat /\ f \in 1 .. n /\ fr[f].page = p
      /\ \A g \in 1 .. n : TableLookup(t, fr[g].page) = g
  BY DEF PoolOK, FramesOK, AgreeOK
<1>2. /\ fr2 \in Seq(PoolFrames) /\ Len(fr2) = n
      /\ \A g \in 1 .. n : fr2[g].page = fr[g].page /\ fr2[g].data = fr[g].data
  <2> DEFINE e == fr[f]
             d == [e EXCEPT !.pins = @ + 1]
  <2>1. e \in PoolFrames
    BY <1>1
  <2>2. fr2 = [fr EXCEPT ![f] = d]
    OBVIOUS
  <2> HIDE DEF e
  <2>3. d \in PoolFrames /\ d.page = e.page /\ d.data = e.data
    BY <2>1 DEF PoolFrames
  <2> HIDE DEF d, fr2
  <2>4. fr2 \in Seq(PoolFrames) /\ Len(fr2) = n /\ fr2[f] = d /\ \A g \in 1 .. n : g # f => fr2[g] = fr[g]
    BY <1>1, <2>2, <2>3
  <2> QED BY <2>3, <2>4 DEF e
<1> HIDE DEF fr2
<1>3. PoolOK(fr2, lru, t, rec, held)
  BY <1>2, SamePages
<1>4. /\ lru \in Seq(Nat) /\ Distinct(lru) /\ ToSet(lru) = 1 .. n /\ Len(lru) = n
      /\ rec \in Seq(KpPages) /\ Distinct(rec)
      /\ \A g \in 1 .. n : fr2[g].page \in ToSet(rec)
      /\ \A x, y : Precedes(lru, x, y) => Precedes(rec, fr2[x].page, fr2[y].page)
  BY <1>2, <1>3 DEF PoolOK, LruOK
<1>5. /\ \A x, y : Precedes(l, x, y) => Precedes(c, fr2[x].page, fr2[y].page)
      /\ \A g \in ToSet(lru) \cup {f} : fr2[g].page \in ToSet(c)
  <2>1. \A g \in ToSet(lru) \ {f} : fr2[g].page = fr2[g].page /\ fr2[g].page # p /\ fr2[g].page \in ToSet(rec)
    BY <1>1, <1>2, <1>4
  <2>2. f \in Nat /\ fr2[f].page = p
    BY <1>1, <1>2
  <2> QED BY <1>4, <2>1, <2>2, OrderTouched
<1>6. Touched(Nat, lru, f, l) /\ Touched(KpPages, rec, p, c)
  BY <1>1, <1>4, TouchIs
<1> HIDE DEF l, c
<1>7. LruOK(fr2, l, c)
  <2>1. l \in Seq(Nat) /\ Distinct(l) /\ ToSet(l) = 1 .. n /\ Len(l) = n /\ c \in Seq(KpPages) /\ Distinct(c)
    BY <1>1, <1>4, <1>6 DEF Touched
  <2> QED BY <1>2, <1>4, <1>5, <2>1 DEF LruOK
<1> QED BY <1>3, <1>7 DEF PoolOK, fr2, l, c

(* A miss while the pool has frames to give out.                           *)
LEMMA GrowKeeps ==
    ASSUME NEW fr, NEW lru, NEW t, NEW rec, NEW held, PoolOK(fr, lru, t, rec, held),
           NEW p \in KpPages, NEW f, f = Len(fr) + 1, TableLookup(t, p) = 0
    PROVE  PoolOK(Append(fr, NewFrame(p)), LruTouch(lru, f), TableInsert(t, p, f), LruTouch(rec, p),
                  [held EXCEPT ![p] = Fresh])
<1> DEFINE e == NewFrame(p)
           fr2 == Append(fr, e)
           held2 == [held EXCEPT ![p] = Fresh]
           u == TableInsert(t, p, f)
           n == Len(fr)
           l == LruTouch(lru, f)
           c == LruTouch(rec, p)
<1>1. /\ fr \in Seq(PoolFrames) /\ n \in Nat /\ f = n + 1 /\ f \in Nat \ {0} /\ TableFine(t)
      /\ held \in [KpPages -> PoolData] /\ \A g \in 1 .. n : fr[g].data = held[fr[g].page]
      /\ \A r \in KpPages : TableLookup(t, r) # 0 =>
           TableLookup(t, r) \in 1 .. n /\ fr[TableLookup(t, r)].page = r
      /\ \A g \in 1 .. n : TableLookup(t, fr[g].page) = g
  BY DEF PoolOK, FramesOK, AgreeOK
<1>2. e \in PoolFrames /\ e.page = p /\ e.data = Fresh
  BY DEF NewFrame, PoolFrames, PoolData
<1> HIDE DEF e
<1>3. /\ fr2 \in Seq(PoolFrames) /\ Len(fr2) = n + 1 /\ fr2[n + 1] = e
      /\ \A g \in 1 .. n : fr2[g] = fr[g]
  BY <1>1, <1>2
<1>4. \A g \in 1 .. n : fr[g].page # p /\ fr[g].page \in KpPages
  <2>1. \A g \in 1 .. n : fr[g] \in PoolFrames /\ g # 0
    BY <1>1
  <2> QED BY <1>1, <2>1 DEF PoolFrames
<1>5. TableFine(u) /\ \A r \in KpPages : TableLookup(u, r) = IF r = p THEN f ELSE TableLookup(t, r)
  BY <1>1, InsertIs
<1>6. held2 \in [KpPages -> PoolData] /\ held2[p] = Fresh /\ \A r \in KpPages \ {p} : held2[r] = held[r]
  BY <1>1 DEF PoolData
<1> HIDE DEF fr2, held2, u
<1>7. FramesOK(fr2, held2)
  <2>1. ASSUME NEW g \in 1 .. n + 1 PROVE fr2[g].data = held2[fr2[g].page]
    <3>1. CASE g = n + 1
      BY <1>2, <1>3, <1>6, <3>1
    <3>2. CASE g # n + 1
      <4>1. g \in 1 .. n
        BY <1>1, <3>2
      <4> QED BY <1>1, <1>3, <1>4, <1>6, <4>1
    <3> QED BY <3>1, <3>2
  <2> QED BY <1>3, <1>6, <2>1 DEF FramesOK
<1>8. AgreeOK(fr2, u)
  <2>1. ASSUME NEW r \in KpPages, TableLookup(u, r) # 0
        PROVE  TableLookup(u, r) \in 1 .. n + 1 /\ fr2[TableLookup(u, r)].page = r
    <3>1. CASE r = p
      BY <1>1, <1>2, <1>3, <1>5, <3>1
    <3>2. CASE r # p
      <4>1. TableLookup(u, r) = TableLookup(t, r)
        BY <1>5, <3>2
      <4> QED BY <1>1, <1>3, <2>1, <4>1
    <3> QED BY <3>1, <3>2
  <2>2. ASSUME NEW g \in 1 .. n + 1 PROVE TableLookup(u, fr2[g].page) = g
    <3>1. CASE g = n + 1
      BY <1>1, <1>2, <1>3, <1>5, <3>1
    <3>2. CASE g # n + 1
      <4>1. g \in 1 .. n
        BY <1>1, <3>2
      <4> QED BY <1>1, <1>3, <1>4, <1>5, <4>1
    <3> QED BY <3>1, <3>2
  <2> QED BY <1>3, <1>5, <2>1, <2>2 DEF AgreeOK
<1>9. /\ lru \in Seq(Nat) /\ Distinct(lru) /\ ToSet(lru) = 1 .. n /\ Len(lru) = n
      /\ rec \in Seq(KpPages) /\ Distinct(rec)
      /\ \A g \in 1 .. n : fr[g].page \in ToSet(rec)
      /\ \A x, y : Precedes(lru, x, y) => Precedes(rec, fr[x].page, fr[y].page)
  BY DEF PoolOK, LruOK
<1>10. /\ \A x, y : Precedes(l, x, y) => Precedes(c, fr2[x].page, fr2[y].page)
       /\ \A g \in ToSet(lru) \cup {f} : fr2[g].page \in ToSet(c)
  <2>1. \A g \in ToSet(lru) \ {f} : fr2[g].page = fr[g].page /\ fr[g].page # p /\ fr[g].page \in ToSet(rec)
    BY <1>3, <1>4, <1>9
  <2>2. f \in Nat /\ fr2[f].page = p
    BY <1>1, <1>2, <1>3
  <2> QED BY <1>9, <2>1, <2>2, OrderTouched
<1>11. Touched(Nat, lru, f, l) /\ Touched(KpPages, rec, p, c)
  BY <1>1, <1>9, TouchIs
<1> HIDE DEF l, c
<1>12. LruOK(fr2, l, c)
  <2>1. ToSet(lru) \cup {f} = 1 .. n + 1 /\ f \notin ToSet(lru)
    BY <1>1, <1>9
  <2>2. l \in Seq(Nat) /\ Distinct(l) /\ ToSet(l) = 1 .. n + 1 /\ Len(l) = n + 1 /\ c \in Seq(KpPages) /\ Distinct(c)
    BY <1>9, <1>11, <2>1 DEF Touched
  <2> QED BY <1>3, <1>10, <2>1, <2>2 DEF LruOK
<1> QED BY <1>7, <1>8, <1>12 DEF PoolOK, fr2, held2, u, l, c, e

(* lru_evict takes a frame of the list.                                    *)
LEMMA VictimIs ==
    ASSUME NEW h, h.lru \in Seq(Nat), LruEvict(h) # 0
    PROVE  LruEvict(h) \in ToSet(h.lru)
<1> DEFINE free == {i \in DOMAIN h.lru : h.frames[h.lru[i]].pins = 0}
<1>1. DOMAIN h.lru = 1 .. Len(h.lru) /\ Len(h.lru) \in Nat
  OBVIOUS
<1>2. LruEvict(h) = IF free = {} THEN 0 ELSE h.lru[CHOOSE i \in free : \A j \in free : j <= i]
  BY DEF LruEvict
<1>3. free \in SUBSET (0 .. Len(h.lru)) /\ \A i \in free : i \in DOMAIN h.lru
  BY <1>1
<1> HIDE DEF free
<1>4. free # {}
  BY <1>2
<1>5. \E i \in free : \A j \in free : j <= i
  BY <1>1, <1>3, <1>4, GreatestExists
<1>6. (CHOOSE i \in free : \A j \in free : j <= i) \in free
  BY <1>5
<1> QED BY <1>2, <1>3, <1>4, <1>6 DEF ToSet

(* A miss when all frames are given out: the victim's page goes.           *)
LEMMA ReplaceKeeps ==
    ASSUME NEW fr, NEW lru, NEW t, NEW rec, NEW held, PoolOK(fr, lru, t, rec, held),
           NEW p \in KpPages, NEW f \in ToSet(lru), TableLookup(t, p) = 0, NEW q, q = fr[f].page
    PROVE  PoolOK([fr EXCEPT ![f] = NewFrame(p)], LruTouch(RemoveFirst(lru, f), f),
                  TableInsert(TableRemove(t, q), p, f), LruTouch(rec, p), [held EXCEPT ![p] = Fresh])
<1> DEFINE e == NewFrame(p)
           fr2 == [fr EXCEPT ![f] = e]
           held2 == [held EXCEPT ![p] = Fresh]
           w == TableRemove(t, q)
           u == TableInsert(w, p, f)
           n == Len(fr)
           m == RemoveFirst(lru, f)
           l == LruTouch(m, f)
           c == LruTouch(rec, p)
<1>1. /\ lru \in Seq(Nat) /\ Distinct(lru) /\ ToSet(lru) = 1 .. n /\ Len(lru) = n
      /\ rec \in Seq(KpPages) /\ Distinct(rec)
      /\ \A g \in 1 .. n : fr[g].page \in ToSet(rec)
      /\ \A x, y : Precedes(lru, x, y) => Precedes(rec, fr[x].page, fr[y].page)
  BY DEF PoolOK, LruOK
<1>2. /\ fr \in Seq(PoolFrames) /\ n \in Nat /\ f \in 1 .. n /\ f \in Nat \ {0} /\ TableFine(t)
      /\ held \in [KpPages -> PoolData] /\ \A g \in 1 .. n : fr[g].data = held[fr[g].page]
      /\ \A r \in KpPages : TableLookup(t, r) # 0 =>
           TableLookup(t, r) \in 1 .. n /\ fr[TableLookup(t, r)].page = r
      /\ \A g \in 1 .. n : TableLookup(t, fr[g].page) = g
  BY <1>1 DEF PoolOK, FramesOK, AgreeOK
<1>3. e \in PoolFrames /\ e.page = p /\ e.data = Fresh
  BY DEF NewFrame, PoolFrames, PoolData
<1> HIDE DEF e
<1>4. /\ fr2 \in Seq(PoolFrames) /\ Len(fr2) = n /\ fr2[f] = e
      /\ \A g \in 1 .. n : g # f => fr2[g] = fr[g]
  BY <1>2, <1>3
<1>5. \A g \in 1 .. n : fr[g].page # p /\ fr[g].page \in KpPages
  <2>1. \A g \in 1 .. n : fr[g] \in PoolFrames /\ g # 0
    BY <1>2
  <2> QED BY <1>2, <2>1 DEF PoolFrames
<1>6. q \in KpPages /\ q # p /\ TableLookup(t, q) = f /\ \A g \in 1 .. n : fr[g].page = q => g = f
  BY <1>2, <1>5
<1>7. TableFine(w) /\ \A r \in KpPages : TableLookup(w, r) = IF r = q THEN 0 ELSE TableLookup(t, r)
  BY <1>2, <1>6, RemoveIs
<1> HIDE DEF w
<1>8. TableFine(u) /\ \A r \in KpPages : TableLookup(u, r) = IF r = p THEN f ELSE TableLookup(w, r)
  BY <1>2, <1>6, <1>7, InsertIs
<1>9. held2 \in [KpPages -> PoolData] /\ held2[p] = Fresh /\ \A r \in KpPages \ {p} : held2[r] = held[r]
  BY <1>2 DEF PoolData
<1> HIDE DEF fr2, held2, u
<1>10. FramesOK(fr2, held2)
  <2>1. ASSUME NEW g \in 1 .. n PROVE fr2[g].data = held2[fr2[g].page]
    <3>1. CASE g = f
      BY <1>3, <1>4, <1>9, <3>1
    <3>2. CASE g # f
      BY <1>2, <1>4, <1>5, <1>9, <3>2
    <3> QED BY <3>1, <3>2
  <2> QED BY <1>4, <1>9, <2>1 DEF FramesOK
<1>11. AgreeOK(fr2, u)
  <2>1. ASSUME NEW r \in KpPages, TableLookup(u, r) # 0
        PROVE  TableLookup(u, r) \in 1 .. n /\ fr2[TableLookup(u, r)].page = r
    <3>1. CASE r = p
      BY <1>2, <1>3, <1>4, <1>8, <3>1
    <3>2. CASE r # p
      <4>1. r # q /\ TableLookup(u, r) = TableLookup(t, r)
        BY <1>7, <1>8, <2>1, <3>2
      <4>2. TableLookup(t, r) \in 1 .. n /\ fr[TableLookup(t, r)].page = r
        BY <1>2, <2>1, <4>1
      <4>3. TableLookup(t, r) # f
        BY <4>1, <4>2
      <4> QED BY <1>4, <4>1, <4>2, <4>3
    <3> QED BY <3>1, <3>2
  <2>2. ASSUME NEW g \in 1 .. n PROVE TableLookup(u, fr2[g].page) = g
    <3>1. CASE g = f
      BY <1>3, <1>4, <1>8, <3>1
    <3>2. CASE g # f
      BY <1>2, <1>4, <1>5, <1>6, <1>7, <1>8, <3>2
    <3> QED BY <3>1, <3>2
  <2> QED BY <1>4, <1>8, <2>1, <2>2 DEF AgreeOK
<1>12. Left(Nat, lru, f, m)
  BY <1>1, RemoveFirstIs
<1> HIDE DEF m
<1>13. /\ m \in Seq(Nat) /\ Distinct(m) /\ ToSet(m) = (1 .. n) \ {f} /\ Len(m) = n - 1
       /\ \A x, y : Precedes(m, x, y) => Precedes(rec, fr[x].page, fr[y].page)
  BY <1>1, <1>2, <1>12 DEF Left
<1>14. /\ \A x, y : Precedes(l, x, y) => Precedes(c, fr2[x].page, fr2[y].page)
       /\ \A g \in ToSet(m) \cup {f} : fr2[g].page \in ToSet(c)
  <2>1. \A g \in ToSet(m) \ {f} : fr2[g].page = fr[g].page /\ fr[g].page # p /\ fr[g].page \in ToSet(rec)
    BY <1>1, <1>4, <1>5, <1>13
  <2>2. f \in Nat /\ fr2[f].page = p
    BY <1>2, <1>3, <1>4
  <2> QED BY <1>1, <1>13, <2>1, <2>2, OrderTouched, ZenonT(120)
<1>15. Touched(Nat, m, f, l) /\ Touched(KpPages, rec, p, c)
  BY <1>1, <1>2, <1>13, TouchIs
<1> HIDE DEF l, c
<1>16. LruOK(fr2, l, c)
  <2>1. ToSet(m) \cup {f} = 1 .. n /\ f \notin ToSet(m) /\ n - 1 + 1 = n
    BY <1>2, <1>13
  <2>2. l \in Seq(Nat) /\ Distinct(l) /\ ToSet(l) = 1 .. n /\ Len(l) = n /\ c \in Seq(KpPages) /\ Distinct(c)
    BY <1>13, <1>15, <2>1 DEF Touched
  <2> QED BY <1>4, <1>14, <2>1, <2>2 DEF LruOK
<1> QED BY <1>10, <1>11, <1>16 DEF PoolOK, fr2, held2, u, w, m, l, c, e

(* The same frame with other pins, or clean, or all frames clean.          *)
LEMMA FrameKeeps ==
    ASSUME NEW fr, NEW lru, NEW t, NEW rec, NEW held, PoolOK(fr, lru, t, rec, held),
           NEW f \in 1 .. Len(fr), NEW e \in PoolFrames, e.page = fr[f].page, e.data = fr[f].data
    PROVE  PoolOK([fr EXCEPT ![f] = e], lru, t, rec, held)
<1> DEFINE n == Len(fr)
           fr2 == [fr EXCEPT ![f] = e]
<1>1. fr \in Seq(PoolFrames) /\ n \in Nat /\ f \in 1 .. n
  BY DEF PoolOK, FramesOK
<1>2. fr2 \in Seq(PoolFrames) /\ Len(fr2) = n /\ fr2[f] = e /\ \A g \in 1 .. n : g # f => fr2[g] = fr[g]
  BY <1>1
<1> HIDE DEF fr2
<1>3. \A g \in 1 .. n : fr2[g].page = fr[g].page /\ fr2[g].data = fr[g].data
  BY <1>2
<1>4. PoolOK(fr2, lru, t, rec, held)
  BY <1>2, <1>3, SamePages
<1> QED BY <1>4 DEF fr2

(* Who has pinned a page writes into its frame.                            *)
LEMMA WriteKeeps ==
    ASSUME NEW fr, NEW lru, NEW t, NEW rec, NEW held, PoolOK(fr, lru, t, rec, held),
           NEW f \in 1 .. Len(fr), NEW e \in PoolFrames, NEW p, p = fr[f].page, e.page = p,
           NEW v, e.data = v
    PROVE  PoolOK([fr EXCEPT ![f] = e], lru, t, rec, [held EXCEPT ![p] = v])
<1> DEFINE n == Len(fr)
           fr2 == [fr EXCEPT ![f] = e]
           held2 == [held EXCEPT ![p] = v]
<1>1. /\ fr \in Seq(PoolFrames) /\ n \in Nat /\ f \in 1 .. n
      /\ held \in [KpPages -> PoolData] /\ \A g \in 1 .. n : fr[g].data = held[fr[g].page]
      /\ \A g \in 1 .. n : TableLookup(t, fr[g].page) = g
  BY DEF PoolOK, FramesOK, AgreeOK
<1>2. fr2 \in Seq(PoolFrames) /\ Len(fr2) = n /\ fr2[f] = e /\ \A g \in 1 .. n : g # f => fr2[g] = fr[g]
  BY <1>1
<1>3. \A g \in 1 .. n : fr[g].page \in KpPages /\ (g # f => fr[g].page # p)
  <2>1. \A g \in 1 .. n : fr[g] \in PoolFrames
    BY <1>1
  <2> QED BY <1>1, <2>1 DEF PoolFrames
<1>4. held2 \in [KpPages -> PoolData] /\ held2[p] = v /\ \A r \in KpPages \ {p} : held2[r] = held[r]
  <2>1. v \in PoolData /\ p \in KpPages
    BY <1>3 DEF PoolFrames
  <2> QED BY <1>1, <2>1
<1> HIDE DEF fr2, held2
<1>5. FramesOK(fr2, held2)
  <2>1. ASSUME NEW g \in 1 .. n PROVE fr2[g].data = held2[fr2[g].page]
    <3>1. CASE g = f
      BY <1>2, <1>4, <3>1
    <3>2. CASE g # f
      BY <1>1, <1>2, <1>3, <1>4, <3>2
    <3> QED BY <3>1, <3>2
  <2> QED BY <1>2, <1>4, <2>1 DEF FramesOK
<1>6. \A g \in 1 .. n : fr2[g].page = fr[g].page
  BY <1>2
<1>7. AgreeOK(fr2, t)
  BY <1>2, <1>6 DEF PoolOK, AgreeOK
<1>8. LruOK(fr2, lru, rec)
  <2>1. lru \in Seq(Nat)
    BY DEF PoolOK, LruOK
  <2>2. ToSet(lru) = 1 .. n
    BY DEF PoolOK, LruOK
  <2>3. ASSUME NEW x, NEW y, Precedes(lru, x, y) PROVE x \in ToSet(lru) /\ y \in ToSet(lru)
    <3>1. PICK i \in 1 .. Len(lru), j \in 1 .. Len(lru) : lru[i] = x /\ lru[j] = y
      BY <2>1, <2>3, PrecedesIs
    <3>2. ToSet(lru) = {lru[k] : k \in 1 .. Len(lru)}
      BY <2>1, PrecedesIs
    <3> QED BY <3>1, <3>2
  <2> QED BY <1>2, <1>6, <2>2, <2>3 DEF PoolOK, LruOK
<1> QED BY <1>5, <1>7, <1>8 DEF PoolOK, fr2, held2

(* All frames marked clean.                                                *)
LEMMA CleanKeeps ==
    ASSUME NEW fr, NEW lru, NEW t, NEW rec, NEW held, PoolOK(fr, lru, t, rec, held)
    PROVE  PoolOK([f \in DOMAIN fr |-> [fr[f] EXCEPT !.dirty = FALSE]], lru, t, rec, held)
<1> DEFINE n == Len(fr)
           fr2 == [f \in DOMAIN fr |-> [fr[f] EXCEPT !.dirty = FALSE]]
<1>1. fr \in Seq(PoolFrames) /\ n \in Nat /\ DOMAIN fr = 1 .. n
  BY DEF PoolOK, FramesOK
<1>2. \A e \in PoolFrames : /\ [e EXCEPT !.dirty = FALSE] \in PoolFrames
                            /\ [e EXCEPT !.dirty = FALSE].page = e.page
                            /\ [e EXCEPT !.dirty = FALSE].data = e.data
  BY DEF PoolFrames
<1>3. \A f \in 1 .. n : fr[f] \in PoolFrames
  BY <1>1
<1>4. fr2 \in [1 .. n -> PoolFrames] /\ \A f \in 1 .. n : fr2[f] = [fr[f] EXCEPT !.dirty = FALSE]
  BY <1>1, <1>2, <1>3
<1> HIDE DEF fr2
<1>5. fr2 \in Seq(PoolFrames) /\ Len(fr2) = n
  BY <1>1, <1>4
<1>6. \A f \in 1 .. n : fr2[f].page = fr[f].page /\ fr2[f].data = fr[f].data
  BY <1>2, <1>3, <1>4
<1>7. PoolOK(fr2, lru, t, rec, held)
  BY <1>5, <1>6, SamePages
<1> QED BY <1>7 DEF fr2

(* A pool with these parts.                                                *)
PoolOf(fr, lru, t, rec, held) ==
    [kind |-> "kpool", frames |-> fr, lru |-> lru, table |-> t, recent |-> rec, held |-> held]
SomePool == \E fr, lru, t, rec, held :
               handle = PoolOf(fr, lru, t, rec, held) /\ PoolOK(fr, lru, t, rec, held)

(* A disk reads what was written, and counts its pages.                    *)
DiskOf(d, c) == [kind |-> "kdisk", pages |-> d, count |-> Cardinality(DOMAIN d), crashed |-> c, wrote |-> d]
SomeDisk == \E d, c : /\ handle = DiskOf(d, c) /\ c \in BOOLEAN
                      /\ DOMAIN d \subseteq 0 .. DmPages - 1

PoolOrDisk == SomePool \/ SomeDisk

LEMMA NewPoolOK == KernelPoolInit => PoolOrDisk
<1>1. ASSUME handle = NewKpool PROVE SomePool
  <2> DEFINE none == <<>>
             t == [b \in 0 .. KpBuckets - 1 |-> none]
             held == [p \in KpPages |-> Fresh]
  <2>1. handle = PoolOf(none, none, t, none, held)
    BY <1>1 DEF NewKpool, PoolOf
  <2>2. \A S : none \in Seq(S) /\ Len(none) = 0
    OBVIOUS
  <2>3. held \in [KpPages -> PoolData]
    BY DEF PoolData
  <2>4. t \in [0 .. KpBuckets - 1 -> Seq(ChainEntries)] /\ \A b \in 0 .. KpBuckets - 1 : t[b] = none
    BY <2>2
  <2>5. ToSet(none) = {} /\ \A x, y : ~Precedes(none, x, y)
    BY DEF ToSet, Precedes
  <2> HIDE DEF none, t, held
  <2>6. FramesOK(none, held)
    BY <2>2, <2>3 DEF FramesOK
  <2>7. ChainOK(none)
    BY <2>2 DEF ChainOK
  <2>8. TableFine(t)
    BY <2>4, <2>7 DEF TableFine
  <2>9. ASSUME NEW p \in KpPages PROVE TableLookup(t, p) = 0
    <3>1. FoundIn(none, p) = 0
      BY <2>2, <2>7, FoundInIs
    <3> QED BY <2>4, <3>1, HashIs, LookupIs
  <2>10. AgreeOK(none, t)
    BY <2>2, <2>8, <2>9 DEF AgreeOK
  <2>11. LruOK(none, none, none)
    BY <2>2, <2>5 DEF LruOK, Distinct
  <2> QED BY <2>1, <2>6, <2>10, <2>11 DEF SomePool, PoolOK
<1>2. ASSUME handle = NewDisk PROVE SomeDisk
  <2> DEFINE d == [i \in {} |-> Fresh]
  <2>1. DOMAIN d = {} /\ Cardinality(DOMAIN d) = 0
    BY FS_EmptySet
  <2>2. handle = DiskOf(d, FALSE)
    BY <1>2, <2>1 DEF NewDisk, DiskOf
  <2> HIDE DEF d
  <2> QED BY <2>1, <2>2 DEF SomeDisk
<1> QED BY <1>1, <1>2 DEF KernelPoolInit, PoolOrDisk

(* What a pool's parts say of the frame a lookup finds.                    *)
LEMMA FoundFrame ==
    ASSUME NEW fr, NEW lru, NEW t, NEW rec, NEW held, PoolOK(fr, lru, t, rec, held),
           NEW p \in KpPages, TableLookup(t, p) # 0
    PROVE  /\ TableLookup(t, p) \in 1 .. Len(fr) /\ fr[TableLookup(t, p)].page = p
           /\ fr[TableLookup(t, p)] \in PoolFrames /\ fr \in Seq(PoolFrames)
<1>1. TableLookup(t, p) \in 1 .. Len(fr) /\ fr[TableLookup(t, p)].page = p /\ fr \in Seq(PoolFrames)
  BY DEF PoolOK, AgreeOK, FramesOK
<1> QED BY <1>1

LEMMA PoolHitKeeps ==
    ASSUME SomePool, NEW p \in KpPages, PoolHit(p)
    PROVE  SomePool'
<1>1. PICK fr, lru, t, rec, held :
        handle = PoolOf(fr, lru, t, rec, held) /\ PoolOK(fr, lru, t, rec, held)
  BY DEF SomePool
<1> DEFINE f == TableLookup(t, p)
           fr2 == [fr EXCEPT ![f].pins = @ + 1]
<1>2. f # 0 /\ handle' = PoolOf(fr2, LruTouch(lru, f), t, LruTouch(rec, p), held)
  <2>1. handle.table = t
    BY <1>1 DEF PoolOf
  <2>2. f # 0 /\ handle' = Noted([handle EXCEPT !.frames[f].pins = @ + 1, !.lru = LruTouch(@, f)], p)
    BY <2>1 DEF PoolHit
  <2> HIDE DEF f
  <2> QED BY <1>1, <2>2 DEF PoolOf, Noted
<1>3. PoolOK(fr2, LruTouch(lru, f), t, LruTouch(rec, p), held)
  BY <1>1, <1>2, HitKeeps
<1> HIDE DEF f, fr2
<1> QED BY <1>2, <1>3 DEF SomePool

LEMMA PoolGrowKeeps ==
    ASSUME SomePool, NEW p \in KpPages, PoolGrow(p)
    PROVE  SomePool'
<1>1. PICK fr, lru, t, rec, held :
        handle = PoolOf(fr, lru, t, rec, held) /\ PoolOK(fr, lru, t, rec, held)
  BY DEF SomePool
<1> DEFINE f == Len(fr) + 1
           fr2 == Append(fr, NewFrame(p))
           u == TableInsert(t, p, f)
           held2 == [held EXCEPT ![p] = Fresh]
<1>2. /\ TableLookup(t, p) = 0
      /\ handle' = PoolOf(fr2, LruTouch(lru, f), u, LruTouch(rec, p), held2)
  <2>1. handle.table = t /\ handle.frames = fr
    BY <1>1 DEF PoolOf
  <2>2. /\ TableLookup(t, p) = 0
        /\ handle' = Noted([handle EXCEPT !.frames = Append(@, NewFrame(p)), !.lru = LruTouch(@, f),
                                          !.table = TableInsert(@, p, f), !.held[p] = Fresh], p)
    BY <2>1 DEF PoolGrow
  <2> HIDE DEF f
  <2> QED BY <1>1, <2>2 DEF PoolOf, Noted
<1>3. PoolOK(fr2, LruTouch(lru, f), u, LruTouch(rec, p), held2)
  BY <1>1, <1>2, GrowKeeps
<1> HIDE DEF f, fr2, u, held2
<1> QED BY <1>2, <1>3 DEF SomePool

LEMMA PoolReplaceKeeps ==
    ASSUME SomePool, NEW p \in KpPages, PoolReplace(p)
    PROVE  SomePool'
<1>1. PICK fr, lru, t, rec, held :
        handle = PoolOf(fr, lru, t, rec, held) /\ PoolOK(fr, lru, t, rec, held)
  BY DEF SomePool
<1> DEFINE f == LruEvict(handle)
           q == fr[f].page
           fr2 == [fr EXCEPT ![f] = NewFrame(p)]
           l == LruTouch(RemoveFirst(lru, f), f)
           u == TableInsert(TableRemove(t, q), p, f)
           held2 == [held EXCEPT ![p] = Fresh]
<1>2. handle.table = t /\ handle.frames = fr /\ handle.lru = lru
  BY <1>1 DEF PoolOf
<1>3. f \in ToSet(lru)
  <2>1. lru \in Seq(Nat)
    BY <1>1 DEF PoolOK, LruOK
  <2>2. f # 0
    BY DEF PoolReplace
  <2> QED BY <1>2, <2>1, <2>2, VictimIs
<1>4. /\ TableLookup(t, p) = 0
      /\ handle' = Noted([handle EXCEPT !.frames[f] = NewFrame(p),
                                        !.lru = LruTouch(RemoveFirst(@, f), f),
                                        !.table = TableInsert(TableRemove(@, q), p, f),
                                        !.held[p] = Fresh], p)
  BY <1>2 DEF PoolReplace
<1> HIDE DEF f
<1>5. handle' = PoolOf(fr2, l, u, LruTouch(rec, p), held2)
  <2> HIDE DEF q
  <2> QED BY <1>1, <1>4 DEF PoolOf, Noted
<1>6. PoolOK(fr2, l, u, LruTouch(rec, p), held2)
  BY <1>1, <1>3, <1>4, ReplaceKeeps
<1> HIDE DEF fr2, l, u, held2
<1> QED BY <1>5, <1>6 DEF SomePool

LEMMA PoolUnpinKeeps ==
    ASSUME SomePool, NEW p \in KpPages, PoolUnpin(p)
    PROVE  SomePool'
<1>1. PICK fr, lru, t, rec, held :
        handle = PoolOf(fr, lru, t, rec, held) /\ PoolOK(fr, lru, t, rec, held)
  BY DEF SomePool
<1> DEFINE f == TableLookup(t, p)
           e == [fr[f] EXCEPT !.pins = @ - 1]
           fr2 == [fr EXCEPT ![f] = e]
<1>2. handle.table = t /\ handle.frames = fr
  BY <1>1 DEF PoolOf
<1>3. f # 0 /\ fr[f].pins > 0 /\ handle' = [handle EXCEPT !.frames[f].pins = @ - 1]
  BY <1>2 DEF PoolUnpin
<1>4. f \in 1 .. Len(fr) /\ fr[f] \in PoolFrames
  BY <1>1, <1>3, FoundFrame
<1> HIDE DEF f
<1>5. handle' = PoolOf(fr2, lru, t, rec, held)
  BY <1>1, <1>3 DEF PoolOf
<1>6. e \in PoolFrames /\ e.page = fr[f].page /\ e.data = fr[f].data
  BY <1>3, <1>4 DEF PoolFrames
<1> HIDE DEF e
<1>7. PoolOK(fr2, lru, t, rec, held)
  BY <1>1, <1>4, <1>6, FrameKeeps
<1> HIDE DEF fr2
<1> QED BY <1>5, <1>7 DEF SomePool

LEMMA PoolWriteKeeps ==
    ASSUME SomePool, NEW p \in KpPages, NEW v \in KpVals, PoolWrite(p, v)
    PROVE  SomePool'
<1>1. PICK fr, lru, t, rec, held :
        handle = PoolOf(fr, lru, t, rec, held) /\ PoolOK(fr, lru, t, rec, held)
  BY DEF SomePool
<1> DEFINE f == TableLookup(t, p)
           e == [[fr[f] EXCEPT !.data = v] EXCEPT !.dirty = TRUE]
           fr2 == [fr EXCEPT ![f] = e]
           held2 == [held EXCEPT ![p] = v]
<1>2. handle.table = t /\ handle.frames = fr
  BY <1>1 DEF PoolOf
<1>3. f # 0 /\ handle' = [handle EXCEPT !.frames[f].data = v, !.frames[f].dirty = TRUE, !.held[p] = v]
  BY <1>2 DEF PoolWrite
<1>4. f \in 1 .. Len(fr) /\ fr[f] \in PoolFrames /\ fr[f].page = p /\ fr \in Seq(PoolFrames)
  BY <1>1, <1>3, FoundFrame
<1> HIDE DEF f
<1>5. handle' = PoolOf(fr2, lru, t, rec, held2)
  <2>1. fr2 = [[fr EXCEPT ![f].data = v] EXCEPT ![f].dirty = TRUE]
    BY <1>4
  <2> HIDE DEF fr2
  <2> QED BY <1>1, <1>3, <2>1 DEF PoolOf
<1>6. e \in PoolFrames /\ e.page = p /\ e.data = v
  BY <1>4 DEF PoolFrames, PoolData
<1> HIDE DEF e
<1>7. PoolOK(fr2, lru, t, rec, held2)
  BY <1>1, <1>4, <1>6, WriteKeeps
<1> HIDE DEF fr2, held2
<1> QED BY <1>5, <1>7 DEF SomePool

LEMMA PoolFlushKeeps ==
    ASSUME SomePool, NEW p \in KpPages, PoolFlush(p)
    PROVE  SomePool'
<1>1. PICK fr, lru, t, rec, held :
        handle = PoolOf(fr, lru, t, rec, held) /\ PoolOK(fr, lru, t, rec, held)
  BY DEF SomePool
<1> DEFINE f == TableLookup(t, p)
           e == [fr[f] EXCEPT !.dirty = FALSE]
           fr2 == [fr EXCEPT ![f] = e]
<1>2. handle.table = t /\ handle.frames = fr
  BY <1>1 DEF PoolOf
<1>3. f # 0 /\ handle' = [handle EXCEPT !.frames[f].dirty = FALSE]
  BY <1>2 DEF PoolFlush
<1>4. f \in 1 .. Len(fr) /\ fr[f] \in PoolFrames
  BY <1>1, <1>3, FoundFrame
<1> HIDE DEF f
<1>5. handle' = PoolOf(fr2, lru, t, rec, held)
  BY <1>1, <1>3 DEF PoolOf
<1>6. e \in PoolFrames /\ e.page = fr[f].page /\ e.data = fr[f].data
  BY <1>4 DEF PoolFrames
<1> HIDE DEF e
<1>7. PoolOK(fr2, lru, t, rec, held)
  BY <1>1, <1>4, <1>6, FrameKeeps
<1> HIDE DEF fr2
<1> QED BY <1>5, <1>7 DEF SomePool

LEMMA PoolFlushAllKeeps ==
    ASSUME SomePool, PoolFlushAll
    PROVE  SomePool'
<1>1. PICK fr, lru, t, rec, held :
        handle = PoolOf(fr, lru, t, rec, held) /\ PoolOK(fr, lru, t, rec, held)
  BY DEF SomePool
<1> DEFINE fr2 == [f \in DOMAIN fr |-> [fr[f] EXCEPT !.dirty = FALSE]]
<1>2. handle' = PoolOf(fr2, lru, t, rec, held)
  BY <1>1 DEF PoolFlushAll, PoolOf
<1>3. PoolOK(fr2, lru, t, rec, held)
  BY <1>1, CleanKeeps
<1> HIDE DEF fr2
<1> QED BY <1>2, <1>3 DEF SomePool

(* dm_allocate_page gives out a page that was free, dm_deallocate_page     *)
(* takes it back, dm_write_page changes its bytes.                         *)
LEMMA DiskKeeps ==
    ASSUME SomeDisk,
           \/ DiskAllocate
           \/ \E i \in 0 .. DmPages - 1 : DiskDeallocate(i)
           \/ \E i \in 0 .. DmPages - 1, v \in KpVals : DiskWrite(i, v)
           \/ SimulateCrash
    PROVE  SomeDisk'
<1>1. PICK d, c : handle = DiskOf(d, c) /\ c \in BOOLEAN /\ DOMAIN d \subseteq 0 .. DmPages - 1
  BY DEF SomeDisk
<1>2. /\ handle.kind = "kdisk" /\ handle.pages = d /\ handle.wrote = d /\ handle.crashed = c
      /\ handle.count = Cardinality(DOMAIN d)
  BY <1>1 DEF DiskOf
<1>3. IsFiniteSet(DOMAIN d) /\ Cardinality(DOMAIN d) \in Nat
  <2>1. IsFiniteSet(0 .. DmPages - 1)
    BY KpAssumption, FS_Interval
  <2> QED BY <1>1, <2>1, FS_Subset, FS_CardinalityType
<1>4. CASE DiskAllocate
  <2> DEFINE free == (0 .. DmPages - 1) \ DOMAIN d
             i == CHOOSE x \in free : \A y \in free : x <= y
             d2 == [j \in DOMAIN d \cup {i} |-> IF j = i THEN Fresh ELSE d[j]]
  <2>1. free # {} /\ free \in SUBSET Nat
    BY <1>2, <1>4, KpAssumption DEF DiskAllocate
  <2>2. i \in free
    <3> HIDE DEF free
    <3>1. \E x \in free : \A y \in free : x <= y
      BY <2>1, LeastExists
    <3> QED BY <3>1
  <2>3. handle' = [handle EXCEPT !.pages = d2, !.count = @ + 1, !.wrote = d2]
    BY <1>2, <1>4 DEF DiskAllocate
  <2>4. DOMAIN d2 = DOMAIN d \cup {i}
    OBVIOUS
  <2>5. i \notin DOMAIN d /\ i \in 0 .. DmPages - 1
    BY <2>2
  <2> HIDE DEF d2, i
  <2>6. Cardinality(DOMAIN d2) = Cardinality(DOMAIN d) + 1
    BY <1>3, <2>4, <2>5, FS_AddElement
  <2>7. handle' = DiskOf(d2, c)
    BY <1>1, <2>3, <2>6 DEF DiskOf
  <2> QED BY <1>1, <2>4, <2>5, <2>7 DEF SomeDisk
<1>5. ASSUME NEW i \in 0 .. DmPages - 1, DiskDeallocate(i) PROVE SomeDisk'
  <2> DEFINE d2 == [j \in DOMAIN d \ {i} |-> d[j]]
  <2>1. i \in DOMAIN d /\ handle' = [handle EXCEPT !.pages = d2, !.count = @ - 1, !.wrote = d2]
    BY <1>2, <1>5 DEF DiskDeallocate
  <2>2. DOMAIN d2 = DOMAIN d \ {i}
    OBVIOUS
  <2> HIDE DEF d2
  <2>3. Cardinality(DOMAIN d2) = Cardinality(DOMAIN d) - 1
    BY <1>3, <2>1, <2>2, FS_RemoveElement
  <2>4. handle' = DiskOf(d2, c)
    BY <1>1, <2>1, <2>3 DEF DiskOf
  <2> QED BY <1>1, <2>2, <2>4 DEF SomeDisk
<1>6. ASSUME NEW i \in 0 .. DmPages - 1, NEW v \in KpVals, DiskWrite(i, v) PROVE SomeDisk'
  <2> DEFINE d2 == [d EXCEPT ![i] = v]
  <2>1. handle' = [handle EXCEPT !.pages = d2, !.wrote = d2]
    BY <1>2, <1>6 DEF DiskWrite
  <2>2. DOMAIN d2 = DOMAIN d
    OBVIOUS
  <2> HIDE DEF d2
  <2>3. handle' = DiskOf(d2, c)
    BY <1>1, <2>1, <2>2 DEF DiskOf
  <2> QED BY <1>1, <2>2, <2>3 DEF SomeDisk
<1>7. CASE SimulateCrash
  <2>1. handle' = DiskOf(d, ~c)
    BY <1>1, <1>7 DEF SimulateCrash, DiskOf
  <2>2. (~c) \in BOOLEAN
    OBVIOUS
  <2> QED BY <1>1, <2>1, <2>2 DEF SomeDisk
<1> QED BY <1>4, <1>5, <1>6, <1>7

(* What a pool and a disk of these shapes tell.                            *)
LEMMA PoolFinds == PoolOrDisk => PoolFindsPages
<1>1. ASSUME SomePool PROVE PoolFindsPages
  <2>1. PICK fr, lru, t, rec, held :
          handle = PoolOf(fr, lru, t, rec, held) /\ PoolOK(fr, lru, t, rec, held)
    BY <1>1 DEF SomePool
  <2>2. /\ handle.kind = "kpool" /\ handle.frames = fr /\ handle.lru = lru /\ handle.table = t
        /\ handle.recent = rec /\ handle.held = held
    BY <2>1 DEF PoolOf
  <2>3. /\ fr \in Seq(PoolFrames) /\ Len(fr) \in Nat /\ DOMAIN fr = 1 .. Len(fr)
        /\ \A f \in 1 .. Len(fr) : fr[f].data = held[fr[f].page]
    BY <2>1 DEF PoolOK, FramesOK
  <2>4. /\ \A p \in KpPages : TableLookup(t, p) # 0 =>
             TableLookup(t, p) \in 1 .. Len(fr) /\ fr[TableLookup(t, p)].page = p
        /\ \A f \in 1 .. Len(fr) : TableLookup(t, fr[f].page) = f
    BY <2>1 DEF PoolOK, AgreeOK
  <2>5. /\ lru \in Seq(Nat) /\ ToSet(lru) = 1 .. Len(fr) /\ Len(lru) = Len(fr)
        /\ \A f, g : Precedes(lru, f, g) => Precedes(rec, fr[f].page, fr[g].page)
    BY <2>1 DEF PoolOK, LruOK
  <2>6. \A p \in KpPages : (TableLookup(handle.table, p) # 0) <=> p \in Resident
    <3> SUFFICES ASSUME NEW p \in KpPages PROVE (TableLookup(t, p) # 0) <=> p \in Resident
      BY <2>2
    <3>1. Resident = {fr[f].page : f \in 1 .. Len(fr)}
      BY <2>2, <2>3 DEF Resident
    <3>2. ASSUME p \in Resident PROVE TableLookup(t, p) # 0
      <4>1. PICK f \in 1 .. Len(fr) : p = fr[f].page
        BY <3>1, <3>2
      <4> QED BY <2>3, <2>4, <4>1
    <3> QED BY <2>4, <3>1, <3>2
  <2>7. \A f \in DOMAIN handle.frames :
          /\ TableLookup(handle.table, handle.frames[f].page) = f
          /\ handle.frames[f].data = handle.held[handle.frames[f].page]
    BY <2>2, <2>3, <2>4
  <2>8. Len(handle.lru) = Len(handle.frames) /\ ToSet(handle.lru) = DOMAIN handle.frames
    BY <2>2, <2>3, <2>5
  <2>9. \A i, j \in DOMAIN handle.lru : i < j =>
          Precedes(handle.recent, handle.frames[handle.lru[i]].page, handle.frames[handle.lru[j]].page)
    <3>1. \A i, j \in DOMAIN lru : i < j => Precedes(lru, lru[i], lru[j])
      BY DEF Precedes
    <3> QED BY <2>2, <2>5, <3>1
  <2> QED BY <2>2, <2>6, <2>7, <2>8, <2>9 DEF PoolFindsPages, Holding
<1>2. ASSUME SomeDisk PROVE PoolFindsPages
  <2>1. PICK d, c : handle = DiskOf(d, c) /\ c \in BOOLEAN /\ DOMAIN d \subseteq 0 .. DmPages - 1
    BY <1>2 DEF SomeDisk
  <2>2. /\ handle.kind = "kdisk" /\ handle.pages = d /\ handle.wrote = d /\ handle.crashed = c
        /\ handle.count = Cardinality(DOMAIN d)
    BY <2>1 DEF DiskOf
  <2> QED BY <2>1, <2>2 DEF PoolFindsPages, Holding, DiskRead
<1> QED BY <1>1, <1>2 DEF PoolOrDisk

(* Every call on a pool or a disk.                                         *)
LEMMA PoolOrDiskNext == PoolOrDisk /\ [KernelPoolNext]_handle => PoolOrDisk'
<1> SUFFICES ASSUME PoolOrDisk, [KernelPoolNext]_handle PROVE PoolOrDisk'
  OBVIOUS
<1>1. CASE UNCHANGED handle
  BY <1>1 DEF PoolOrDisk, SomePool, SomeDisk
<1>2. CASE KpNext
  <2>1. SomePool
    BY <1>2 DEF PoolOrDisk, SomeDisk, DiskOf, KpNext, Holding
  <2>2. ASSUME NEW p \in KpPages, PoolHit(p) PROVE SomePool'
    BY <2>1, <2>2, PoolHitKeeps
  <2>3. ASSUME NEW p \in KpPages, PoolGrow(p) PROVE SomePool'
    BY <2>1, <2>3, PoolGrowKeeps
  <2>4. ASSUME NEW p \in KpPages, PoolReplace(p) PROVE SomePool'
    BY <2>1, <2>4, PoolReplaceKeeps
  <2>5. ASSUME NEW p \in KpPages, PoolUnpin(p) PROVE SomePool'
    BY <2>1, <2>5, PoolUnpinKeeps
  <2>6. ASSUME NEW p \in KpPages, NEW v \in KpVals, PoolWrite(p, v) PROVE SomePool'
    BY <2>1, <2>6, PoolWriteKeeps
  <2>7. ASSUME NEW p \in KpPages, PoolFlush(p) PROVE SomePool'
    BY <2>1, <2>7, PoolFlushKeeps
  <2>8. ASSUME PoolFlushAll PROVE SomePool'
    BY <2>1, <2>8, PoolFlushAllKeeps
  <2> QED BY <1>2, <2>2, <2>3, <2>4, <2>5, <2>6, <2>7, <2>8 DEF KpNext, PoolOrDisk
<1>3. CASE DmNext
  <2>1. SomeDisk
    BY <1>3 DEF PoolOrDisk, SomePool, PoolOf, DmNext, Holding
  <2>2. SomeDisk'
    BY <1>3, <2>1, DiskKeeps DEF DmNext
  <2> QED BY <2>2 DEF PoolOrDisk
<1> QED BY <1>1, <1>2, <1>3 DEF KernelPoolNext

(* After any fetches, pins, writes and replacements, on chains that pages  *)
(* share, the page table of the buffer pool leads to exactly the resident  *)
(* pages, each in a frame of its own with the bytes last written there,    *)
(* and the list has each frame once, in the order of the last fetches, so  *)
(* that bp_fetch_page evicts the unpinned page fetched longest ago; a disk *)
(* reads back what was last written to a page it gave out, and counts the  *)
(* pages it gave out.                                                      *)
THEOREM PoolFindsPagesHolds == KernelPoolInit /\ [][KernelPoolNext]_handle => []PoolFindsPages
<1>1. KernelPoolInit => PoolOrDisk
  BY NewPoolOK
<1>2. PoolOrDisk /\ [KernelPoolNext]_handle => PoolOrDisk'
  BY PoolOrDiskNext
<1>3. PoolOrDisk => PoolFindsPages
  BY PoolFinds
<1> QED BY <1>1, <1>2, <1>3, PTL
-----------------------------------------------------------------------------
(***************************************************************************)
(* The slotted pages of mini-db-kernel and of mini-relational-db.          *)
(***************************************************************************)
Cells == (TupleVals \X Nat) \cup {Zero}
Datas == [0 .. PageSize - 1 -> Cells]
Spots == [offset : Nat, length : Nat]

(* What memcpy into a page leaves at each address.                         *)
LEMMA WrittenIs ==
    ASSUME NEW data \in Datas, NEW off \in Int, NEW bytes \in Seq(Cells)
    PROVE  /\ Written(data, off, bytes) \in Datas
           /\ \A a \in 0 .. PageSize - 1 : Written(data, off, bytes)[a]
                = IF off <= a /\ a < off + Len(bytes) THEN bytes[a - off + 1] ELSE data[a]
<1> DEFINE n == Len(bytes)
           d == Written(data, off, bytes)
           N == 0 .. PageSize - 1
<1>1. n \in Nat /\ DOMAIN bytes = 1 .. n /\ \A i \in 1 .. n : bytes[i] \in Cells
  OBVIOUS
<1>2. DOMAIN data = N /\ \A a \in N : data[a] \in Cells
  BY DEF Datas
<1>3. N \subseteq Int
  BY PagesAssumption
<1> HIDE DEF n, N
<1>4. \A a \in N : (a - off + 1 \in 1 .. n) <=> (off <= a /\ a < off + n)
  BY <1>1, <1>3
<1>5. d = [a \in N |-> IF a - off + 1 \in 1 .. n THEN bytes[a - off + 1] ELSE data[a]]
  BY <1>1, <1>2 DEF Written
<1>6. \A a \in N : d[a] = IF off <= a /\ a < off + n THEN bytes[a - off + 1] ELSE data[a]
  BY <1>4, <1>5
<1>7. \A a \in N : d[a] \in Cells
  BY <1>1, <1>2, <1>4, <1>6
<1>8. d = [a \in N |-> d[a]]
  BY <1>5
<1> HIDE DEF d
<1>9. d \in [N -> Cells]
  BY <1>7, <1>8
<1> QED BY <1>6, <1>9 DEF n, d, N, Datas

(* What a slot within the page reads.                                      *)
LEMMA ReadingIs ==
    ASSUME NEW data \in Datas, NEW slot, slot.offset \in Nat, slot.length \in Nat,
           slot.length = 0 \/ slot.offset + slot.length <= PageSize
    PROVE  /\ Reading(data, slot) \in Seq(Cells) /\ Len(Reading(data, slot)) = slot.length
           /\ \A i \in 1 .. slot.length : Reading(data, slot)[i] = data[slot.offset + i - 1]
<1> DEFINE n == slot.length
           o == slot.offset
           r == Reading(data, slot)
<1>1. n \in Nat /\ o \in Nat /\ PageSize \in Nat
  BY PagesAssumption
<1>2. r = [i \in 1 .. n |-> data[o + i - 1]]
  BY DEF Reading
<1> HIDE DEF r
<1>3. ASSUME NEW i \in 1 .. n PROVE data[o + i - 1] \in Cells
  <2>1. o + i - 1 \in 0 .. PageSize - 1
    BY <1>1
  <2> QED BY <2>1 DEF Datas
<1> HIDE DEF n, o
<1>4. r \in [1 .. n -> Cells]
  BY <1>2, <1>3
<1>5. r \in Seq(Cells) /\ Len(r) = n
  BY <1>1, <1>4
<1> QED BY <1>2, <1>5 DEF n, o, r

(* The bytes of a slot stay when others are written.                       *)
LEMMA ReadElsewhere ==
    ASSUME NEW data \in Datas, NEW off \in Int, NEW bytes \in Seq(Cells),
           NEW slot, slot.offset \in Nat, slot.length \in Nat,
           slot.length = 0 \/ slot.offset + slot.length <= PageSize,
           slot.length = 0 \/ slot.offset + slot.length <= off \/ off + Len(bytes) <= slot.offset
    PROVE  Reading(Written(data, off, bytes), slot) = Reading(data, slot)
<1> DEFINE n == slot.length
           o == slot.offset
           d == Written(data, off, bytes)
           m == Len(bytes)
<1>1. n \in Nat /\ o \in Nat /\ PageSize \in Nat /\ m \in Nat
  BY PagesAssumption
<1>2. d \in Datas /\ \A a \in 0 .. PageSize - 1 :
        d[a] = IF off <= a /\ a < off + m THEN bytes[a - off + 1] ELSE data[a]
  BY WrittenIs
<1> HIDE DEF d
<1>3. ASSUME NEW i \in 1 .. n PROVE d[o + i - 1] = data[o + i - 1]
  <2>1. o + i - 1 \in 0 .. PageSize - 1 /\ ~(off <= o + i - 1 /\ o + i - 1 < off + m)
    BY <1>1
  <2> QED BY <1>2, <2>1
<1> HIDE DEF n, o, m
<1>4. Reading(d, slot) = [i \in 1 .. n |-> d[o + i - 1]] /\ Reading(data, slot) = [i \in 1 .. n |-> data[o + i - 1]]
  BY DEF Reading, n, o
<1> QED BY <1>3, <1>4 DEF d

(* What is written into a slot is read from it.                            *)
LEMMA ReadWritten ==
    ASSUME NEW data \in Datas, NEW off \in Nat, NEW bytes \in Seq(Cells), off + Len(bytes) <= PageSize,
           NEW slot, slot.offset = off, slot.length = Len(bytes)
    PROVE  Reading(Written(data, off, bytes), slot) = bytes
<1> DEFINE n == Len(bytes)
           d == Written(data, off, bytes)
<1>1. n \in Nat /\ PageSize \in Nat
  BY PagesAssumption
<1>2. d \in Datas /\ \A a \in 0 .. PageSize - 1 :
        d[a] = IF off <= a /\ a < off + n THEN bytes[a - off + 1] ELSE data[a]
  BY WrittenIs
<1> HIDE DEF d
<1>3. ASSUME NEW i \in 1 .. n PROVE d[off + i - 1] = bytes[i]
  <2>1. off + i - 1 \in 0 .. PageSize - 1 /\ off <= off + i - 1 /\ off + i - 1 < off + n /\ (off + i - 1) - off + 1 = i
    BY <1>1
  <2> QED BY <1>2, <2>1
<1>4. Reading(d, slot) = [i \in 1 .. n |-> d[off + i - 1]]
  BY DEF Reading
<1>5. bytes = [i \in 1 .. n |-> bytes[i]]
  OBVIOUS
<1> HIDE DEF n
<1> QED BY <1>3, <1>4, <1>5 DEF d

(* The bytes of some slots in all.                                         *)
TotalOf(s) == FoldLeft(LAMBDA acc, e : acc + e.length, 0, s)
Sums(w, s) == /\ w[0] = 0 /\ \A k \in 1 .. Len(s) : w[k] = w[k - 1] + s[k].length
              /\ \A k \in 0 .. Len(s) : w[k] \in Nat

LEMMA TotalSteps ==
    ASSUME NEW s \in Seq(Spots)
    PROVE  \E w : Sums(w, s) /\ TotalOf(s) = w[Len(s)]
<1>0. \A k \in 1 .. Len(s) : s[k].length \in Nat
  <2>1. \A k \in 1 .. Len(s) : s[k] \in Spots
    OBVIOUS
  <2> QED BY <2>1 DEF Spots
<1> DEFINE n == Len(s)
           S == Nat
           base == 0
           f == [q \in (1 .. n) \X S |-> q[2] + s[q[1]].length]
           Step(g, t) == IF t = {} THEN base ELSE g[t \ {Max(t)}] + s[Max(t)].length
           Solves(g, d) == g = [t \in SUBSET d |-> Step(g, t)]
           iter == CHOOSE g : Solves(g, DOMAIN s)
<1>1. TotalOf(s) = iter[DOMAIN s]
  BY DEF TotalOf, FoldLeft, MapThenFoldSet
<1>2. n \in Nat /\ DOMAIN s = 1 .. n
  OBVIOUS
<1>3. \A k \in 1 .. n, x \in S : f[<<k, x>>] = x + s[k].length
  OBVIOUS
<1> HIDE DEF f
<1>4. \A k \in 1 .. n, x \in S : f[<<k, x>>] \in S
  <2> TAKE k \in 1 .. n, x \in S
  <2>1. x + s[k].length \in S
    BY <1>0
  <2> HIDE DEF n, S
  <2> QED BY <1>3, <2>1
<1>5. base \in S
  OBVIOUS
<1> HIDE DEF n, S, base
<1>6. PICK h : Folds(h, n, S, base, f)
  BY <1>2, <1>4, <1>5, FoldSolved DEF StaysIn
<1>7. /\ h \in [SUBSET (1 .. n) -> S]
      /\ \A t \in SUBSET (1 .. n) : h[t] = IF t = {} THEN base ELSE f[<<Max(t), h[t \ {Max(t)}]>>]
  BY <1>6 DEF Folds
<1>8. \A t \in SUBSET (1 .. n) : h[t] = Step(h, t)
  <2> TAKE t \in SUBSET (1 .. n)
  <2>1. CASE t = {}
    BY <1>7, <2>1
  <2>2. CASE t # {}
    <3>1. t \in SUBSET (0 .. n)
      BY <1>2
    <3>2. Max(t) \in t
      BY <1>2, <2>2, <3>1, MaxIsMember
    <3>3. Max(t) \in 1 .. n /\ h[t \ {Max(t)}] \in S
      BY <1>7, <3>2
    <3>4. h[t] = f[<<Max(t), h[t \ {Max(t)}]>>]
      BY <1>7, <2>2
    <3> QED BY <1>2, <1>3, <2>2, <3>3, <3>4
  <2> QED BY <2>1, <2>2
<1>9. Solves(h, 1 .. n)
  <2>1. h = [t \in SUBSET (1 .. n) |-> h[t]]
    BY <1>7
  <2> HIDE DEF Step
  <2> QED BY <1>8, <2>1
<1>10. Solves(iter, 1 .. n)
  <2> HIDE DEF Solves
  <2> QED BY <1>2, <1>9
<1> HIDE DEF iter
<1>11. \A t \in SUBSET (1 .. n) : iter[t] = Step(iter, t)
  <2> HIDE DEF Step
  <2> QED BY <1>10
<1> HIDE DEF Solves
<1> DEFINE w == [k \in 0 .. n |-> iter[1 .. k]]
<1>12. w[0] = base
  <2>1. 1 .. 0 = {} /\ {} \in SUBSET (1 .. n) /\ 0 \in 0 .. n
    BY <1>2
  <2>2. iter[{}] = base
    BY <1>11, <2>1
  <2> QED BY <2>1, <2>2
<1>13. ASSUME NEW k \in 1 .. n PROVE w[k] = w[k - 1] + s[k].length
  <2>1. k \in Nat /\ k \in 1 .. k /\ 1 .. k \in SUBSET (1 .. n)
    BY <1>2
  <2>2. Max(1 .. k) = k
    BY <2>1, MaxOfTop
  <2>3. (1 .. k) \ {k} = 1 .. k - 1
    BY <2>1
  <2>4. iter[1 .. k] = iter[1 .. k - 1] + s[k].length
    BY <1>2, <1>11, <2>1, <2>2, <2>3
  <2>5. k \in 0 .. n /\ k - 1 \in 0 .. n
    BY <1>2
  <2> QED BY <2>4, <2>5
<1>14. TotalOf(s) = w[n]
  BY <1>1, <1>2
<1> HIDE DEF w
<1>15. \A k \in 0 .. n : w[k] \in S
  <2> DEFINE P == { k \in 0 .. n : w[k] \in S }
  <2>1. 0 \in P
    BY <1>2, <1>5, <1>12
  <2>2. ASSUME NEW k \in 1 .. n, k - 1 \in P PROVE k \in P
    <3>1. k \in 0 .. n /\ w[k - 1] \in S
      BY <1>2, <2>2
    <3>2. w[k] = w[k - 1] + s[k].length
      BY <1>13
    <3> QED BY <1>3, <1>4, <3>1, <3>2
  <2>3. \A k \in 0 .. n : k \in P
    <3> HIDE DEF P
    <3> QED BY <1>2, <2>1, <2>2, InductionUpTo
  <2> QED BY <2>3
<1> QED BY <1>12, <1>13, <1>14, <1>15 DEF n, S, base, Sums

(* The tuples that a compaction gathers, one after the other.              *)
GatherSteps(w, p) == /\ w[0] = <<>> /\ \A k \in 1 .. Len(p.slots) : w[k] = w[k - 1] \o Reading(p.data, p.slots[k])
                     /\ \A k \in 0 .. Len(p.slots) : w[k] \in Seq(Cells)

LEMMA GatheredSteps ==
    ASSUME NEW p, NEW s, s = p.slots, s \in Seq(Spots),
           \A k \in 1 .. Len(s) : Reading(p.data, s[k]) \in Seq(Cells)
    PROVE  \E w : GatherSteps(w, p) /\ Gathered(p) = w[Len(s)]
<1> DEFINE n == Len(s)
           S == Seq(Cells)
           base == <<>>
           f == [q \in (1 .. n) \X S |-> q[2] \o Reading(p.data, s[q[1]])]
           Step(g, t) == IF t = {} THEN base ELSE g[t \ {Max(t)}] \o Reading(p.data, s[Max(t)])
           Solves(g, d) == g = [t \in SUBSET d |-> Step(g, t)]
           iter == CHOOSE g : Solves(g, DOMAIN s)
<1>1. Gathered(p) = iter[DOMAIN s]
  BY DEF Gathered, FoldLeft, MapThenFoldSet
<1>2. n \in Nat /\ DOMAIN s = 1 .. n
  OBVIOUS
<1>3. \A k \in 1 .. n, x \in S : f[<<k, x>>] = x \o Reading(p.data, s[k])
  OBVIOUS
<1> HIDE DEF f
<1>4. \A k \in 1 .. n, x \in S : f[<<k, x>>] \in S
  <2> TAKE k \in 1 .. n, x \in S
  <2>1. x \o Reading(p.data, s[k]) \in S
    <3> DEFINE r == Reading(p.data, s[k])
    <3>1. r \in Seq(Cells)
      OBVIOUS
    <3> HIDE DEF r
    <3> QED BY <3>1
  <2> HIDE DEF n, S
  <2> QED BY <1>3, <2>1
<1>5. base \in S
  OBVIOUS
<1> HIDE DEF n, S, base
<1>6. PICK h : Folds(h, n, S, base, f)
  BY <1>2, <1>4, <1>5, FoldSolved DEF StaysIn
<1>7. /\ h \in [SUBSET (1 .. n) -> S]
      /\ \A t \in SUBSET (1 .. n) : h[t] = IF t = {} THEN base ELSE f[<<Max(t), h[t \ {Max(t)}]>>]
  BY <1>6 DEF Folds
<1>8. \A t \in SUBSET (1 .. n) : h[t] = Step(h, t)
  <2> TAKE t \in SUBSET (1 .. n)
  <2>1. CASE t = {}
    BY <1>7, <2>1
  <2>2. CASE t # {}
    <3>1. t \in SUBSET (0 .. n)
      BY <1>2
    <3>2. Max(t) \in t
      BY <1>2, <2>2, <3>1, MaxIsMember
    <3>3. Max(t) \in 1 .. n /\ h[t \ {Max(t)}] \in S
      BY <1>7, <3>2
    <3>4. h[t] = f[<<Max(t), h[t \ {Max(t)}]>>]
      BY <1>7, <2>2
    <3> QED BY <1>2, <1>3, <2>2, <3>3, <3>4
  <2> QED BY <2>1, <2>2
<1>9. Solves(h, 1 .. n)
  <2>1. h = [t \in SUBSET (1 .. n) |-> h[t]]
    BY <1>7
  <2> HIDE DEF Step
  <2> QED BY <1>8, <2>1
<1>10. Solves(iter, 1 .. n)
  <2> HIDE DEF Solves
  <2> QED BY <1>2, <1>9
<1> HIDE DEF iter
<1>11. \A t \in SUBSET (1 .. n) : iter[t] = Step(iter, t)
  <2> HIDE DEF Step
  <2> QED BY <1>10
<1> HIDE DEF Solves
<1> DEFINE w == [k \in 0 .. n |-> iter[1 .. k]]
<1>12. w[0] = base
  <2>1. 1 .. 0 = {} /\ {} \in SUBSET (1 .. n) /\ 0 \in 0 .. n
    BY <1>2
  <2>2. iter[{}] = base
    BY <1>11, <2>1
  <2> QED BY <2>1, <2>2
<1>13. ASSUME NEW k \in 1 .. n PROVE w[k] = w[k - 1] \o Reading(p.data, s[k])
  <2>1. k \in Nat /\ k \in 1 .. k /\ 1 .. k \in SUBSET (1 .. n)
    BY <1>2
  <2>2. Max(1 .. k) = k
    BY <2>1, MaxOfTop
  <2>3. (1 .. k) \ {k} = 1 .. k - 1
    BY <2>1
  <2>4. iter[1 .. k] = iter[1 .. k - 1] \o Reading(p.data, s[k])
    BY <1>2, <1>11, <2>1, <2>2, <2>3
  <2>5. k \in 0 .. n /\ k - 1 \in 0 .. n
    BY <1>2
  <2> QED BY <2>4, <2>5
<1>14. Gathered(p) = w[n]
  BY <1>1, <1>2
<1> HIDE DEF w
<1>15. \A k \in 0 .. n : w[k] \in S
  <2> DEFINE P == { k \in 0 .. n : w[k] \in S }
  <2>1. 0 \in P
    BY <1>2, <1>5, <1>12
  <2>2. ASSUME NEW k \in 1 .. n, k - 1 \in P PROVE k \in P
    <3>1. k \in 0 .. n /\ w[k - 1] \in S
      BY <1>2, <2>2
    <3>2. w[k] = w[k - 1] \o Reading(p.data, s[k])
      BY <1>13
    <3> QED BY <1>3, <1>4, <3>1, <3>2
  <2>3. \A k \in 0 .. n : k \in P
    <3> HIDE DEF P
    <3> QED BY <1>2, <2>1, <2>2, InductionUpTo
  <2> QED BY <2>3
<1> QED BY <1>12, <1>13, <1>14, <1>15 DEF n, S, base, GatherSteps

(* The sums of the lengths up to each slot.                                *)
LEMMA SumsGrow ==
    ASSUME NEW s, Len(s) \in Nat, \A k \in 1 .. Len(s) : s[k].length \in Nat, NEW w, Sums(w, s),
           NEW i \in 0 .. Len(s)
    PROVE  \A j \in 0 .. Len(s) : i <= j => w[i] <= w[j]
<1> DEFINE n == Len(s)
           P == { j \in 0 .. n : i <= j => w[i] <= w[j] }
<1>1. /\ \A k \in 1 .. n : w[k] = w[k - 1] + s[k].length /\ s[k].length \in Nat
      /\ \A k \in 0 .. n : w[k] \in Nat
  BY DEF Sums
<1>2. 0 \in P
  BY <1>1
<1>3. ASSUME NEW k \in 1 .. n, k - 1 \in P PROVE k \in P
  <2>1. k \in 0 .. n /\ k - 1 \in 0 .. n /\ w[k - 1] <= w[k] /\ w[k] \in Nat /\ w[k - 1] \in Nat /\ w[i] \in Nat
    BY <1>1, SMTT(60)
  <2>2. CASE i <= k - 1
    BY <1>3, <2>1, <2>2
  <2>3. CASE ~(i <= k - 1)
    <3>1. i <= k => i = k
      BY <2>3
    <3> QED BY <2>1, <3>1
  <2> QED BY <2>2, <2>3
<1>4. \A k \in 0 .. n : k \in P
  <2> HIDE DEF P
  <2> QED BY <1>2, <1>3, InductionUpTo
<1> QED BY <1>4

(* The bytes before a slot are the sum of the lengths before it.           *)
LEMMA BeforeIs ==
    ASSUME NEW p, NEW s, s = p.slots, s \in Seq(Spots), NEW w, Sums(w, s), NEW i \in 1 .. Len(s)
    PROVE  SpBefore(p, i) = w[i - 1]
<1> DEFINE n == Len(s)
           c == SubSeq(s, 1, i - 1)
<1>1. n \in Nat /\ i \in 1 .. n /\ c \in Seq(Spots) /\ Len(c) = i - 1 /\ \A k \in 1 .. i - 1 : c[k] = s[k]
  OBVIOUS
<1>2. SpBefore(p, i) = TotalOf(c)
  BY DEF SpBefore, TotalOf
<1> HIDE DEF c, n
<1>3. PICK v : Sums(v, c) /\ TotalOf(c) = v[Len(c)]
  BY <1>1, TotalSteps
<1>4. v[0] = 0 /\ \A k \in 1 .. i - 1 : v[k] = v[k - 1] + c[k].length
  BY <1>1, <1>3 DEF Sums
<1>5. w[0] = 0 /\ \A k \in 1 .. n : w[k] = w[k - 1] + s[k].length
  BY DEF Sums, n
<1> DEFINE P == { k \in 0 .. i - 1 : v[k] = w[k] }
<1>6. 0 \in P
  BY <1>1, <1>4, <1>5
<1>7. ASSUME NEW k \in 1 .. i - 1, k - 1 \in P PROVE k \in P
  <2>1. k \in 0 .. i - 1 /\ k \in 1 .. n
    BY <1>1
  <2> QED BY <1>1, <1>4, <1>5, <1>7, <2>1
<1>8. \A k \in 0 .. i - 1 : k \in P
  <2>1. i - 1 \in Nat
    BY <1>1
  <2> HIDE DEF P
  <2> QED BY <1>6, <1>7, <2>1, InductionUpTo
<1>9. i - 1 \in 0 .. i - 1
  BY <1>1
<1> QED BY <1>1, <1>2, <1>3, <1>8, <1>9

(* What the slots read is as long as they say.                             *)
SlotsReadable(p, s) == \A k \in 1 .. Len(s) : /\ Reading(p.data, s[k]) \in Seq(Cells)
                                         /\ Len(Reading(p.data, s[k])) = s[k].length

(* What is gathered: each tuple behind those of the slots before.          *)
LEMMA GatheredIs ==
    ASSUME NEW p, NEW s, s = p.slots, s \in Seq(Spots), NEW w, Sums(w, s), SlotsReadable(p, s)
    PROVE  /\ Gathered(p) \in Seq(Cells) /\ Len(Gathered(p)) = w[Len(s)]
           /\ \A i \in 1 .. Len(s) : \A j \in 1 .. s[i].length :
                Gathered(p)[w[i - 1] + j] = Reading(p.data, s[i])[j]
<1> DEFINE n == Len(s)
           R(k) == Reading(p.data, s[k])
<1>1. n \in Nat /\ \A k \in 1 .. n : s[k].length \in Nat
  <2>1. \A k \in 1 .. Len(s) : s[k] \in Spots
    OBVIOUS
  <2> QED BY <2>1 DEF Spots
<1>2. \A k \in 1 .. n : R(k) \in Seq(Cells) /\ Len(R(k)) = s[k].length
  BY DEF SlotsReadable
<1>3. PICK g : GatherSteps(g, p) /\ Gathered(p) = g[n]
  BY <1>2, GatheredSteps
<1>4. g[0] = <<>> /\ \A k \in 1 .. n : g[k] = g[k - 1] \o R(k)
  BY <1>3 DEF GatherSteps
<1>5. \A k \in 0 .. n : g[k] \in Seq(Cells)
  BY <1>3 DEF GatherSteps
<1>6. w[0] = 0 /\ (\A k \in 1 .. n : w[k] = w[k - 1] + s[k].length) /\ \A k \in 0 .. n : w[k] \in Nat
  BY DEF Sums
<1>7. \A i, j \in 0 .. n : i <= j => w[i] <= w[j]
  BY <1>1, SumsGrow DEF n
<1> HIDE DEF n, R
<1> DEFINE Fits(k) == /\ Len(g[k]) = w[k]
                      /\ \A i \in 1 .. k : \A j \in 1 .. s[i].length : g[k][w[i - 1] + j] = R(i)[j]
           P == { k \in 0 .. n : Fits(k) }
<1>8. 0 \in P
  BY <1>1, <1>4, <1>6
<1>9. ASSUME NEW k \in 1 .. n, k - 1 \in P PROVE k \in P
  <2> DEFINE a == g[k - 1]
             b == R(k)
             m == k - 1
  <2>1. k \in 0 .. n /\ m \in 0 .. n /\ a \in Seq(Cells) /\ b \in Seq(Cells) /\ g[k] = a \o b
    <3>1. k \in 0 .. n /\ m \in 0 .. n
      BY <1>1
    <3>2. a \in Seq(Cells)
      BY <1>5, <3>1
    <3>3. b \in Seq(Cells)
      BY <1>2
    <3>4. g[k] = a \o b
      BY <1>4
    <3> QED BY <3>1, <3>2, <3>3, <3>4
  <2>2. Len(a) = w[m] /\ \A i \in 1 .. m : \A j \in 1 .. s[i].length : a[w[i - 1] + j] = R(i)[j]
    BY <1>9
  <2>3. Len(b) = s[k].length /\ w[k] = w[m] + s[k].length /\ w[m] \in Nat /\ s[k].length \in Nat
    BY <1>1, <1>2, <1>6, <2>1
  <2> HIDE DEF a, b
  <2>4. /\ Len(a \o b) = Len(a) + Len(b)
        /\ \A i \in 1 .. Len(a) + Len(b) : (a \o b)[i] = IF i <= Len(a) THEN a[i] ELSE b[i - Len(a)]
    BY <2>1, ConcatProperties
  <2>5. Len(g[k]) = w[k]
    BY <2>1, <2>2, <2>3, <2>4
  <2>6. ASSUME NEW i \in 1 .. k, NEW j \in 1 .. s[i].length PROVE g[k][w[i - 1] + j] = R(i)[j]
    <3>1. CASE i = k
      <4>1. w[m] + j \in 1 .. Len(a) + Len(b) /\ ~(w[m] + j <= Len(a)) /\ (w[m] + j) - Len(a) = j
        BY <2>2, <2>3, <3>1
      <4>2. (a \o b)[w[m] + j] = b[(w[m] + j) - Len(a)]
        BY <2>4, <4>1
      <4> QED BY <2>1, <3>1, <4>1, <4>2 DEF b
    <3>2. CASE i # k
      <4>1. i \in 1 .. m /\ i \in 1 .. n /\ i - 1 \in 0 .. n /\ i \in 0 .. n /\ i <= m
        BY <1>1, <3>2
      <4>2. w[i] = w[i - 1] + s[i].length /\ w[i] <= w[m] /\ w[i - 1] \in Nat /\ s[i].length \in Nat
        BY <1>1, <1>6, <1>7, <2>1, <4>1
      <4>3. w[i - 1] + j \in 1 .. Len(a) + Len(b) /\ w[i - 1] + j <= Len(a)
        <5>1. j \in Int /\ 1 <= j /\ j <= s[i].length
          BY <4>2
        <5>2. Len(a) \in Nat /\ Len(b) \in Nat /\ w[i] \in Int /\ w[i] <= Len(a)
          BY <2>1, <2>2, <2>3, <4>2, SMTT(60)
        <5> DEFINE x == w[i - 1]
                   y == s[i].length
                   z == w[i]
        <5>3. x \in Nat /\ y \in Nat /\ z = x + y
          BY <4>2
        <5> HIDE DEF x, y, z
        <5>4. x + j \in 1 .. Len(a) + Len(b) /\ x + j <= Len(a)
          <6>1. x + j <= z
            BY <5>1, <5>3 DEF y
          <6>2. z <= Len(a)
            BY <5>2 DEF z
          <6> QED BY <5>1, <5>2, <5>3, <6>1, <6>2
        <5> QED BY <5>4 DEF x
      <4>4. (a \o b)[w[i - 1] + j] = a[w[i - 1] + j]
        BY <2>4, <4>3
      <4> QED BY <2>1, <2>2, <4>1, <4>4
    <3> QED BY <3>1, <3>2
  <2> QED BY <2>1, <2>5, <2>6
<1>10. \A k \in 0 .. n : k \in P
  <2> HIDE DEF P
  <2> QED BY <1>1, <1>8, <1>9, InductionUpTo
<1>11. n \in 0 .. n
  BY <1>1
<1>12. Fits(n)
  BY <1>10, <1>11
<1> QED BY <1>3, <1>5, <1>11, <1>12 DEF n, R

(* Lengths that fit above the end of the free space.                       *)
Room(s, e) == \E w : /\ w[0] = 0 /\ \A k \in 0 .. Len(s) : w[k] \in Nat
                     /\ \A k \in 1 .. Len(s) : w[k] >= w[k - 1] + s[k].length
                     /\ w[Len(s)] <= PageSize - e

(* A page of the kernel that has what its callers were told.               *)
Spages == [slots : Seq(Spots), start : Nat, end : 0 .. PageSize, tuples : Nat, data : Datas]
SpageOK(p, kept) ==
    /\ p \in Spages /\ Apart(p, LiveSlots(p)) /\ p.tuples = Cardinality(LiveSlots(p))
    /\ kept \in Seq(Seq(Cells)) /\ Len(kept) = Len(p.slots)
    /\ \A i \in 1 .. Len(p.slots) : Reading(p.data, p.slots[i]) = kept[i]
    /\ Room(p.slots, p.end)

LEMMA SpFacts ==
    ASSUME NEW p, NEW kept, SpageOK(p, kept), NEW n, n = Len(p.slots)
    PROVE  /\ p.slots \in Seq(Spots) /\ p.start \in Nat /\ p.end \in 0 .. PageSize /\ p.tuples \in Nat
           /\ p.data \in Datas /\ n \in Nat /\ DOMAIN p.slots = 1 .. n
           /\ LiveSlots(p) = {i \in 1 .. n : p.slots[i].length > 0}
           /\ \A i \in 1 .. n : /\ p.slots[i] \in Spots
                                /\ p.slots[i].offset \in Nat /\ p.slots[i].length \in Nat
                                /\ p.slots[i].length = 0 \/ p.slots[i].offset + p.slots[i].length <= PageSize
                                /\ Reading(p.data, p.slots[i]) \in Seq(Cells)
                                /\ Len(Reading(p.data, p.slots[i])) = p.slots[i].length
<1> DEFINE s == p.slots
<1>1. p \in Spages /\ Apart(p, LiveSlots(p))
  BY DEF SpageOK
<1>2. s \in Seq(Spots) /\ p.start \in Nat /\ p.end \in 0 .. PageSize /\ p.tuples \in Nat /\ p.data \in Datas
  BY <1>1 DEF Spages
<1>3. n \in Nat /\ DOMAIN s = 1 .. n /\ \A i \in 1 .. n : s[i] \in Spots
  BY <1>2
<1>4. LiveSlots(p) = {i \in 1 .. n : s[i].length > 0}
  BY <1>3 DEF LiveSlots
<1>5. \A i \in 1 .. n : s[i].offset \in Nat /\ s[i].length \in Nat
  BY <1>3 DEF Spots
<1>6. \A i \in 1 .. n : s[i].length = 0 \/ s[i].offset + s[i].length <= PageSize
  BY <1>1, <1>4, <1>5 DEF Apart
<1>7. \A i \in 1 .. n : Reading(p.data, s[i]) \in Seq(Cells) /\ Len(Reading(p.data, s[i])) = s[i].length
  BY <1>2, <1>5, <1>6, ReadingIs
<1> QED BY <1>2, <1>3, <1>4, <1>5, <1>6, <1>7

(* Sums of the lengths are what they must be at least.                     *)
LEMMA SumsLeast ==
    ASSUME NEW s \in Seq(Spots), NEW w, Sums(w, s), NEW e \in Int, Room(s, e)
    PROVE  w[Len(s)] <= PageSize - e
<1> DEFINE n == Len(s)
<1>1. PICK v : /\ v[0] = 0 /\ \A k \in 0 .. n : v[k] \in Nat
               /\ \A k \in 1 .. n : v[k] >= v[k - 1] + s[k].length
               /\ v[n] <= PageSize - e
  BY DEF Room
<1>2. n \in Nat /\ \A k \in 1 .. n : s[k].length \in Nat
  <2>1. \A k \in 1 .. n : s[k] \in Spots
    OBVIOUS
  <2> QED BY <2>1 DEF Spots
<1>3. w[0] = 0 /\ (\A k \in 1 .. n : w[k] = w[k - 1] + s[k].length) /\ \A k \in 0 .. n : w[k] \in Nat
  BY DEF Sums
<1> HIDE DEF n
<1> DEFINE P == { k \in 0 .. n : w[k] <= v[k] }
<1>4. 0 \in P
  BY <1>1, <1>2, <1>3
<1>5. ASSUME NEW k \in 1 .. n, k - 1 \in P PROVE k \in P
  <2>1. k \in 0 .. n /\ k - 1 \in 0 .. n /\ w[k - 1] <= v[k - 1]
    BY <1>2, <1>5
  <2>2. w[k] = w[k - 1] + s[k].length /\ v[k] >= v[k - 1] + s[k].length
    BY <1>1, <1>3
  <2>3. w[k] \in Nat /\ w[k - 1] \in Nat /\ v[k] \in Nat /\ v[k - 1] \in Nat /\ s[k].length \in Nat
    BY <1>1, <1>2, <1>3, <2>1
  <2>4. w[k] <= v[k]
    BY <2>1, <2>2, <2>3, SMTT(60)
  <2> QED BY <2>1, <2>4
<1>6. \A k \in 0 .. n : k \in P
  <2> HIDE DEF P
  <2> QED BY <1>2, <1>4, <1>5, InductionUpTo
<1>7. n \in 0 .. n
  BY <1>2
<1>8. w[n] <= v[n] /\ w[n] \in Nat /\ v[n] \in Nat
  BY <1>1, <1>3, <1>6, <1>7
<1>9. PageSize \in Nat
  BY PagesAssumption
<1> QED BY <1>1, <1>8, <1>9 DEF n

(* sp_compact: the tuples move to the end of the page, in the order of     *)
(* their slots.                                                            *)
LEMMA CompactKeepsPage ==
    ASSUME NEW p, NEW kept, SpageOK(p, kept)
    PROVE  SpageOK(SpCompacted(p), kept)
<1> DEFINE q == SpCompacted(p)
           s == p.slots
           n == Len(s)
           G == Gathered(p)
           end == PageSize - Len(G)
           slots == [i \in DOMAIN s |-> IF s[i].length = 0 THEN s[i]
                                        ELSE [s[i] EXCEPT !.offset = end + SpBefore(p, i)]]
           data == Written(p.data, end, G)
           start == PageHeader + SlotSize * n
<1>1. CASE LiveSlots(p) = DOMAIN s
  BY <1>1 DEF SpCompacted
<1>2. CASE LiveSlots(p) # DOMAIN s
  <2>1. q = [p EXCEPT !.end = end, !.data = data, !.start = start, !.slots = slots]
    BY <1>2 DEF SpCompacted
  <2>2. /\ s \in Seq(Spots) /\ p.end \in 0 .. PageSize /\ p.tuples \in Nat
        /\ p.data \in Datas /\ n \in Nat /\ DOMAIN s = 1 .. n
        /\ LiveSlots(p) = {i \in 1 .. n : s[i].length > 0}
    BY SpFacts
  <2>3. \A i \in 1 .. n : /\ s[i] \in Spots
                          /\ s[i].offset \in Nat /\ s[i].length \in Nat
                          /\ Reading(p.data, s[i]) \in Seq(Cells)
                          /\ Len(Reading(p.data, s[i])) = s[i].length
                          /\ s[i].length = 0 \/ s[i].offset + s[i].length <= PageSize
    BY SpFacts
  <2>4. PICK w : Sums(w, s)
    BY <2>2, TotalSteps
  <2>5. w[0] = 0 /\ (\A k \in 1 .. n : w[k] = w[k - 1] + s[k].length) /\ \A k \in 0 .. n : w[k] \in Nat
    BY <2>4 DEF Sums
  <2>6. w[n] <= PageSize - p.end
    <3>1. Room(s, p.end) /\ p.end \in Int
      BY <2>2 DEF SpageOK
    <3> QED BY <2>2, <2>4, <3>1, SumsLeast
  <2>7. \A i, j \in 0 .. n : i <= j => w[i] <= w[j]
    BY <2>2, <2>3, <2>4, SumsGrow
  <2>8. /\ G \in Seq(Cells) /\ Len(G) = w[n]
        /\ \A i \in 1 .. n : \A j \in 1 .. s[i].length : G[w[i - 1] + j] = Reading(p.data, s[i])[j]
    <3>1. s = p.slots /\ G = Gathered(p) /\ n = Len(s)
      OBVIOUS
    <3>2. SlotsReadable(p, s)
      BY <2>3 DEF SlotsReadable
    <3> HIDE DEF s, G, n
    <3>3. s \in Seq(Spots) /\ Sums(w, s)
      BY <2>2, <2>4
    <3>4. /\ Gathered(p) \in Seq(Cells) /\ Len(Gathered(p)) = w[Len(s)]
          /\ \A i \in 1 .. Len(s) : \A j \in 1 .. s[i].length :
               Gathered(p)[w[i - 1] + j] = Reading(p.data, s[i])[j]
      BY <3>1, <3>2, <3>3, GatheredIs
    <3> QED BY <3>1, <3>4
  <2>9. \A i \in 1 .. n : SpBefore(p, i) = w[i - 1]
    BY <2>2, <2>4, BeforeIs
  <2>10. PageSize \in Nat /\ n \in 0 .. n /\ w[n] \in Nat
    BY <2>2, <2>5, PagesAssumption
  <2>11. end \in 0 .. PageSize /\ end = PageSize - w[n] /\ end \in Int
    BY <2>2, <2>6, <2>8, <2>10
  <2>12. start \in Nat
    <3>1. \A a, b \in Nat : a * b \in Nat
      OBVIOUS
    <3> QED BY <2>2, <3>1, PagesAssumption
  <2> HIDE DEF G
  <2>13. /\ data \in Datas
         /\ \A a \in 0 .. PageSize - 1 : data[a] = IF end <= a /\ a < end + Len(G) THEN G[a - end + 1] ELSE p.data[a]
    <3> HIDE DEF end
    <3> QED BY <2>2, <2>8, <2>11, WrittenIs
  <2>14. \A i \in 1 .. n : /\ s[i].length = 0 => slots[i] = s[i]
                           /\ s[i].length # 0 => slots[i] = [s[i] EXCEPT !.offset = end + w[i - 1]]
    BY <2>2, <2>9
  <2>15. slots = [i \in 1 .. n |-> slots[i]]
    BY <2>2
  <2> HIDE DEF end, slots, data, start, s, n
  <2>16. ASSUME NEW i \in 1 .. n
         PROVE  /\ slots[i] \in Spots /\ slots[i].length = s[i].length
                /\ s[i].length # 0 => slots[i].offset = end + w[i - 1]
    <3>1. i - 1 \in 0 .. n
      BY <2>2
    <3>2. end + w[i - 1] \in Nat
      BY <2>5, <2>11, <3>1
    <3> DEFINE o == end + w[i - 1]
               e == s[i]
    <3>3. e \in Spots /\ o \in Nat /\ (e.length = 0 => slots[i] = e) /\ (e.length # 0 => slots[i] = [e EXCEPT !.offset = o])
      BY <2>3, <2>14, <3>2
    <3> HIDE DEF o, e
    <3>4. slots[i] \in Spots /\ slots[i].length = e.length /\ (e.length # 0 => slots[i].offset = o)
      BY <3>3 DEF Spots
    <3> QED BY <3>4 DEF o, e
  <2>17. slots \in Seq(Spots) /\ Len(slots) = n
    <3>1. slots \in [1 .. n -> Spots]
      BY <2>15, <2>16
    <3> QED BY <2>2, <3>1
  <2>18. /\ q \in Spages /\ q.slots = slots /\ q.end = end /\ q.data = data /\ q.tuples = p.tuples
    <3>1. p \in Spages
      BY DEF SpageOK
    <3> HIDE DEF q
    <3> QED BY <2>1, <2>11, <2>12, <2>13, <2>17, <3>1 DEF Spages
  <2> HIDE DEF q
  <2>19. LiveSlots(q) = LiveSlots(p)
    <3>1. DOMAIN slots = 1 .. n
      BY <2>15
    <3> QED BY <2>2, <2>16, <2>18, <3>1 DEF LiveSlots, s, n
  <2>20. \A i \in LiveSlots(p) : /\ i \in 1 .. n /\ i \in 0 .. n /\ i - 1 \in 0 .. n
                                 /\ slots[i].offset = end + w[i - 1]
                                 /\ slots[i].offset + slots[i].length = end + w[i]
    <3> SUFFICES ASSUME NEW i \in LiveSlots(p)
                 PROVE  /\ i \in 1 .. n /\ i \in 0 .. n /\ i - 1 \in 0 .. n
                        /\ slots[i].offset = end + w[i - 1]
                        /\ slots[i].offset + slots[i].length = end + w[i]
      OBVIOUS
    <3>1. i \in 1 .. n /\ s[i].length # 0
      BY <2>2, <2>3
    <3>2. i \in 0 .. n /\ i - 1 \in 0 .. n
      BY <2>2, <3>1
    <3>3. slots[i].offset = end + w[i - 1] /\ slots[i].length = s[i].length /\ w[i] = w[i - 1] + s[i].length
      BY <2>5, <2>16, <3>1
    <3> QED BY <2>3, <2>5, <2>11, <3>1, <3>2, <3>3
  <2>21. Apart(q, LiveSlots(q))
    <3>1. ASSUME NEW i \in LiveSlots(p)
          PROVE  slots[i].offset >= end /\ slots[i].offset + slots[i].length <= PageSize
      BY <2>5, <2>7, <2>10, <2>11, <2>20
    <3>2. ASSUME NEW i \in LiveSlots(p), NEW j \in LiveSlots(p), i < j
          PROVE  slots[i].offset + slots[i].length <= slots[j].offset
      <4>1. i <= j - 1 /\ j - 1 \in 0 .. n /\ i \in 0 .. n
        BY <2>20, <3>2
      <4>2. w[i] <= w[j - 1] /\ w[i] \in Nat /\ w[j - 1] \in Nat
        BY <2>5, <2>7, <4>1
      <4> QED BY <2>11, <2>20, <4>2
    <3>3. \A i, j \in LiveSlots(p) : i # j => i < j \/ j < i
      BY <2>20
    <3> QED BY <2>18, <2>19, <3>1, <3>2, <3>3 DEF Apart
  <2>22. ASSUME NEW i \in 1 .. n PROVE Reading(data, slots[i]) = kept[i]
    <3>1. Reading(p.data, s[i]) = kept[i]
      BY DEF SpageOK, s, n
    <3>2. CASE s[i].length = 0
      <4>1. slots[i] = s[i] /\ s[i].offset \in Nat /\ s[i].length \in Nat
        BY <2>3, <2>14, <3>2
      <4>2. Reading(data, s[i]) = Reading(p.data, s[i])
        BY <2>2, <2>8, <2>11, <3>2, <4>1, ReadElsewhere DEF data
      <4> QED BY <3>1, <4>1, <4>2
    <3>3. CASE s[i].length # 0
      <4> DEFINE m == s[i].length
                 o == end + w[i - 1]
                 r == Reading(p.data, s[i])
      <4>1. i \in LiveSlots(p)
        BY <2>2, <2>3, <3>3
      <4>2. slots[i].offset = o /\ slots[i].length = m /\ o \in Nat /\ m \in Nat /\ o + m <= PageSize
        <5>1. w[i - 1] \in Nat /\ w[i] \in Nat /\ w[i] <= w[n]
          BY <2>5, <2>7, <2>10, <2>20, <4>1
        <5>2. slots[i].offset = o /\ slots[i].length = m
          BY <2>16, <3>3
        <5>3. m \in Nat /\ o \in Nat
          BY <2>3, <2>11, <5>1, SMTT(60)
        <5>4. o + m = end + w[i]
          BY <2>20, <4>1, <5>2
        <5>5. end + w[i] <= PageSize
          BY <2>10, <2>11, <5>1
        <5> QED BY <5>2, <5>3, <5>4, <5>5
      <4>3. ASSUME NEW j \in 1 .. m PROVE data[o + j - 1] = r[j]
        <5>1. w[i - 1] \in Nat /\ w[n] \in Nat
          BY <2>5, <2>10, <2>20, <4>1
        <5>2. o + j - 1 \in 0 .. PageSize - 1
          BY <2>10, <4>2
        <5>3. end <= o + j - 1 /\ o + j - 1 < end + Len(G) /\ (o + j - 1) - end + 1 = w[i - 1] + j
          <6>1. end + Len(G) = PageSize
            BY <2>8, <2>10, <2>11
          <6>2. j \in Int /\ j >= 1 /\ o \in Int /\ end \in Int /\ w[i - 1] \in Int /\ o >= end
            BY <2>11, <4>2, <5>1
          <6>3. o + j - 1 < end + Len(G) /\ end <= o + j - 1
            <7> DEFINE x == o + j - 1
                       y == end + Len(G)
            <7>1. x \in 0 .. PageSize - 1 /\ y = PageSize /\ PageSize \in Nat
              BY <2>10, <5>2, <6>1
            <7>2. x < y
              <8> HIDE DEF x, y
              <8> QED BY <7>1
            <7>3. end <= o + j - 1
              <8> HIDE DEF o
              <8> QED BY <6>2
            <7> QED BY <7>2, <7>3
          <6>4. (o + j - 1) - end + 1 = w[i - 1] + j
            BY <6>2
          <6> QED BY <6>3, <6>4
        <5>4. data[o + j - 1] = G[w[i - 1] + j]
          BY <2>13, <5>2, <5>3
        <5> QED BY <2>8, <5>4
      <4>4. r = [j \in 1 .. m |-> r[j]]
        BY <2>3
      <4> HIDE DEF o, m, r
      <4>5. Reading(data, slots[i]) = [j \in 1 .. m |-> data[o + j - 1]]
        BY <4>2 DEF Reading
      <4> QED BY <3>1, <4>3, <4>4, <4>5 DEF r
    <3> QED BY <3>2, <3>3
  <2>23. Room(slots, end)
    <3>1. \A k \in 1 .. n : w[k] = w[k - 1] + slots[k].length
      BY <2>5, <2>16
    <3>2. \A k \in 1 .. n : w[k] >= w[k - 1] + slots[k].length
      <4> SUFFICES ASSUME NEW k \in 1 .. n PROVE w[k] >= w[k - 1] + slots[k].length
        OBVIOUS
      <4>1. w[k] \in Nat
        BY <2>2, <2>5
      <4> QED BY <3>1, <4>1
    <3>3. w[n] <= PageSize - end
      BY <2>10, <2>11
    <3> QED BY <2>5, <2>17, <3>2, <3>3 DEF Room
  <2>24. p.tuples = Cardinality(LiveSlots(p)) /\ kept \in Seq(Seq(Cells)) /\ Len(kept) = n
    BY DEF SpageOK, s, n
  <2>25. SpageOK(q, kept)
    BY <2>17, <2>18, <2>19, <2>21, <2>22, <2>23, <2>24 DEF SpageOK
  <2> QED BY <2>25 DEF q
<1> QED BY <1>1, <1>2

(* A tuple put below the others, in a new slot.                            *)
SpAppended(q, bytes) ==
  [q EXCEPT !.end = @ - Len(bytes), !.tuples = @ + 1,
            !.data = Written(@, q.end - Len(bytes), bytes),
            !.slots = Append(@, [offset |-> q.end - Len(bytes), length |-> Len(bytes)]),
            !.start = PageHeader + SlotSize * (Len(q.slots) + 1)]

LEMMA AppendIs ==
    ASSUME NEW S, NEW s \in Seq(S), NEW e \in S
    PROVE  /\ Append(s, e) \in Seq(S) /\ Len(Append(s, e)) = Len(s) + 1 /\ Append(s, e)[Len(s) + 1] = e
           /\ \A i \in 1 .. Len(s) : Append(s, e)[i] = s[i]
  OBVIOUS

LEMMA AppendKeepsPage ==
    ASSUME NEW p, NEW kept, SpageOK(p, kept), NEW bytes \in Seq(Cells),
           Len(bytes) > 0, Len(bytes) <= SpaceLeft(p)
    PROVE  SpageOK(SpAppended(p, bytes), Append(kept, bytes))
<1> DEFINE q == SpAppended(p, bytes)
           s == p.slots
           n == Len(s)
           m == Len(bytes)
           o == p.end - m
           e == [offset |-> o, length |-> m]
           slots == Append(s, e)
           data == Written(p.data, o, bytes)
           start == PageHeader + SlotSize * (n + 1)
           told == Append(kept, bytes)
<1>1. /\ s \in Seq(Spots) /\ p.start \in Nat /\ p.end \in 0 .. PageSize /\ p.tuples \in Nat
      /\ p.data \in Datas /\ n \in Nat
      /\ LiveSlots(p) = {i \in 1 .. n : s[i].length > 0}
  BY SpFacts
<1>2. \A i \in 1 .. n : /\ s[i] \in Spots
                        /\ s[i].offset \in Nat /\ s[i].length \in Nat
                        /\ s[i].length = 0 \/ s[i].offset + s[i].length <= PageSize
  BY SpFacts
<1>3. /\ p \in Spages /\ Apart(p, LiveSlots(p)) /\ p.tuples = Cardinality(LiveSlots(p))
      /\ kept \in Seq(Seq(Cells)) /\ Len(kept) = n
      /\ \A i \in 1 .. n : Reading(p.data, s[i]) = kept[i]
      /\ Room(s, p.end)
  BY DEF SpageOK
<1>4. PageSize \in Nat /\ m \in Nat /\ m > 0 /\ o \in Nat /\ o + m = p.end /\ o \in 0 .. PageSize /\ p.end <= PageSize
  <2>1. PageSize \in Nat /\ m \in Nat /\ m > 0 /\ m <= p.end - p.start
    BY PagesAssumption DEF SpaceLeft
  <2>2. p.end \in 0 .. PageSize /\ p.start \in Nat
    BY <1>1
  <2> HIDE DEF m
  <2> QED BY <2>1, <2>2
<1>5. start \in Nat
  <2>1. \A a, b \in Nat : a * b \in Nat
    OBVIOUS
  <2>2. n + 1 \in Nat
    BY <1>1
  <2> QED BY <2>1, <2>2, PagesAssumption
<1>6. q = [p EXCEPT !.end = o, !.tuples = p.tuples + 1, !.data = data, !.slots = slots, !.start = start]
  BY <1>3 DEF SpAppended, Spages
<1>7. /\ data \in Datas
      /\ Reading(data, e) = bytes
      /\ \A i \in 1 .. n : Reading(data, s[i]) = Reading(p.data, s[i])
  <2> HIDE DEF o, m
  <2>1. data \in Datas
    BY <1>1, <1>4, WrittenIs
  <2>2. e.offset = o /\ e.length = m
    OBVIOUS
  <2>3. o \in Nat /\ o + Len(bytes) <= PageSize /\ e.length = Len(bytes)
    BY <1>4, <2>2 DEF m
  <2> HIDE DEF e
  <2>4. Reading(data, e) = bytes
    BY <1>1, <2>2, <2>3, ReadWritten
  <2>5. ASSUME NEW i \in 1 .. n PROVE Reading(data, s[i]) = Reading(p.data, s[i])
    <3>1. s[i].length = 0 \/ o + Len(bytes) <= s[i].offset
      <4>1. s[i].length # 0 => i \in LiveSlots(p)
        BY <1>1, <1>2
      <4>2. i \in LiveSlots(p) => s[i].offset >= p.end
        BY <1>3 DEF Apart
      <4> QED BY <1>4, <4>1, <4>2 DEF m
    <3>2. o \in Int
      BY <1>4
    <3> QED BY <1>1, <1>2, <3>1, <3>2, ReadElsewhere
  <2> QED BY <2>1, <2>4, <2>5
<1>8. /\ slots \in Seq(Spots) /\ Len(slots) = n + 1 /\ slots[n + 1] = e /\ \A i \in 1 .. n : slots[i] = s[i]
  <2>1. e \in Spots
    BY <1>4 DEF Spots
  <2> HIDE DEF e
  <2> QED BY <1>1, <2>1
<1>9. e.offset = o /\ e.length = m
  OBVIOUS
<1>10. /\ told \in Seq(Seq(Cells)) /\ Len(told) = n + 1 /\ told[n + 1] = bytes /\ \A i \in 1 .. n : told[i] = kept[i]
  <2> DEFINE S == Seq(Cells)
  <2>1. kept \in Seq(S) /\ bytes \in S /\ Len(kept) = n
    BY <1>3
  <2> HIDE DEF S, n
  <2>2. told \in Seq(S) /\ Len(told) = n + 1 /\ told[n + 1] = bytes /\ \A i \in 1 .. n : told[i] = kept[i]
    BY <2>1, AppendIs
  <2> QED BY <2>2 DEF S
<1> HIDE DEF o, m, e, slots, data, start, told, q
<1>11. q \in Spages /\ q.slots = slots /\ q.end = o /\ q.data = data /\ q.tuples = p.tuples + 1
  <2> DEFINE t == p.tuples + 1
  <2>1. t \in Nat /\ q = [p EXCEPT !.end = o, !.tuples = t, !.data = data, !.slots = slots, !.start = start]
    BY <1>1, <1>6
  <2> HIDE DEF t, s
  <2>2. q \in Spages /\ q.slots = slots /\ q.end = o /\ q.data = data /\ q.tuples = t
    BY <1>3, <1>4, <1>5, <1>7, <1>8, <2>1 DEF Spages
  <2> QED BY <2>2 DEF t
<1> HIDE DEF s, n
<1>12. \A i \in 1 .. n + 1 : i \in 1 .. n \/ i = n + 1
  BY <1>1
<1>13. LiveSlots(q) = LiveSlots(p) \cup {n + 1} /\ n + 1 \notin LiveSlots(p)
  <2>1. DOMAIN slots = 1 .. n + 1 /\ n + 1 \in 1 .. n + 1
    BY <1>1, <1>8
  <2>2. \A i : i \in LiveSlots(q) <=> i \in 1 .. n + 1 /\ slots[i].length > 0
    BY <1>11, <2>1 DEF LiveSlots
  <2>3. \A i : i \in LiveSlots(p) <=> i \in 1 .. n /\ s[i].length > 0
    BY <1>1
  <2>4. slots[n + 1].length > 0
    BY <1>4, <1>8, <1>9
  <2>5. \A i \in 1 .. n : i \in 1 .. n + 1 /\ slots[i].length = s[i].length
    BY <1>1, <1>8
  <2>6. n + 1 \notin 1 .. n
    BY <1>1
  <2> QED BY <1>12, <2>1, <2>2, <2>3, <2>4, <2>5, <2>6
<1>14. q.tuples = Cardinality(LiveSlots(q))
  <2>1. IsFiniteSet(LiveSlots(p))
    <3>1. LiveSlots(p) \subseteq 1 .. n /\ n \in Int /\ 1 \in Int
      BY <1>1
    <3>2. IsFiniteSet(1 .. n)
      BY <3>1, FS_Interval
    <3> QED BY <3>1, <3>2, FS_Subset
  <2> QED BY <1>3, <1>11, <1>13, <2>1, FS_AddElement
<1>15. Apart(q, LiveSlots(q))
  <2>1. \A i \in LiveSlots(p) : slots[i] = s[i] /\ s[i].offset \in Nat /\ s[i].length \in Nat
    BY <1>1, <1>2, <1>8
  <2>2. \A i \in LiveSlots(p) : s[i].offset >= p.end /\ s[i].offset + s[i].length <= PageSize
    BY <1>3 DEF Apart, s
  <2>3. \A i, j \in LiveSlots(p) : i # j => \/ s[i].offset + s[i].length <= s[j].offset
                                            \/ s[j].offset + s[j].length <= s[i].offset
    BY <1>3 DEF Apart, s
  <2>4. slots[n + 1].offset = o /\ slots[n + 1].length = m
    BY <1>8, <1>9
  <2>5. \A i \in LiveSlots(q) : slots[i].offset >= o /\ slots[i].offset + slots[i].length <= PageSize
    <3> SUFFICES ASSUME NEW i \in LiveSlots(q)
                 PROVE  slots[i].offset >= o /\ slots[i].offset + slots[i].length <= PageSize
      OBVIOUS
    <3>1. CASE i = n + 1
      BY <1>4, <2>4, <3>1
    <3>2. CASE i \in LiveSlots(p)
      <4>1. p.end >= o /\ p.end \in Nat
        BY <1>1, <1>4
      <4> QED BY <1>4, <2>1, <2>2, <3>2, <4>1
    <3> QED BY <1>13, <3>1, <3>2
  <2>6. \A i \in LiveSlots(p) : slots[n + 1].offset + slots[n + 1].length <= slots[i].offset
    BY <1>4, <2>1, <2>2, <2>4
  <2>7. \A i, j \in LiveSlots(q) : i # j => \/ slots[i].offset + slots[i].length <= slots[j].offset
                                            \/ slots[j].offset + slots[j].length <= slots[i].offset
    BY <1>13, <2>1, <2>3, <2>6
  <2> QED BY <1>11, <2>5, <2>7 DEF Apart
<1>16. \A i \in 1 .. n + 1 : Reading(data, slots[i]) = told[i]
  BY <1>3, <1>7, <1>8, <1>10, <1>12
<1>17. Room(slots, o)
  <2>1. PICK w : /\ w[0] = 0 /\ \A k \in 0 .. n : w[k] \in Nat
                 /\ \A k \in 1 .. n : w[k] >= w[k - 1] + s[k].length
                 /\ w[n] <= PageSize - p.end
    BY <1>3 DEF Room, n
  <2> DEFINE v == [k \in 0 .. n + 1 |-> IF k = n + 1 THEN w[n] + m ELSE w[k]]
  <2>2. n \in Nat /\ n \in 0 .. n /\ n + 1 \in 0 .. n + 1 /\ \A k \in 0 .. n : k \in 0 .. n + 1 /\ k # n + 1
    BY <1>1
  <2>3. v[n + 1] = w[n] + m /\ \A k \in 0 .. n : v[k] = w[k]
    BY <2>2
  <2> HIDE DEF v
  <2>4. v[0] = 0
    BY <2>1, <2>2, <2>3
  <2>5. ASSUME NEW k \in 0 .. n + 1 PROVE v[k] \in Nat
    <3>1. k \in 0 .. n \/ k = n + 1
      BY <2>2
    <3>2. w[n] \in Nat
      BY <2>1, <2>2
    <3>3. w[n] + m \in Nat
      BY <1>4, <3>2
    <3> QED BY <2>1, <2>3, <3>1, <3>3
  <2>6. ASSUME NEW k \in 1 .. n + 1 PROVE v[k] >= v[k - 1] + slots[k].length
    <3>1. CASE k \in 1 .. n
      <4>1. k \in 0 .. n /\ k - 1 \in 0 .. n
        BY <2>2, <3>1
      <4> QED BY <1>8, <2>1, <2>3, <3>1, <4>1
    <3>2. CASE k = n + 1
      <4>1. k - 1 = n
        BY <2>2, <3>2
      <4>2. w[n] + m >= w[n] + m
        <5> DEFINE x == w[n]
        <5>1. x \in Nat
          BY <2>1, <2>2
        <5> HIDE DEF x
        <5>2. x + m >= x + m
          BY <1>4, <5>1
        <5> QED BY <5>2 DEF x
      <4> QED BY <1>8, <1>9, <2>2, <2>3, <3>2, <4>1, <4>2
    <3> QED BY <1>12, <3>1, <3>2
  <2>7. v[n + 1] <= PageSize - o
    BY <1>1, <1>4, <2>1, <2>2, <2>3
  <2> QED BY <1>8, <2>4, <2>5, <2>6, <2>7 DEF Room
<1>18. SpageOK(q, told)
  BY <1>8, <1>10, <1>11, <1>14, <1>15, <1>16, <1>17 DEF SpageOK
<1> QED BY <1>18 DEF q, told

(* sp_insert: with or without a compaction, or nothing.                    *)
LEMMA StoreKeepsPage ==
    ASSUME NEW p, NEW kept, SpageOK(p, kept), NEW bytes \in Seq(Cells), Len(bytes) > 0
    PROVE  SpageOK(SpStored(p, bytes), SpTold(kept, SpStored(p, bytes), bytes))
<1> DEFINE q == IF Len(bytes) > SpaceLeft(p) THEN SpCompacted(p) ELSE p
           r == SpStored(p, bytes)
<1>1. SpageOK(q, kept)
  <2>1. SpageOK(SpCompacted(p), kept)
    BY CompactKeepsPage
  <2> QED BY <2>1
<1>2. r = p \/ r = q \/ (Len(bytes) <= SpaceLeft(q) /\ r = SpAppended(q, bytes))
  <2>1. r = IF Len(p.slots) >= PageSlots THEN p
            ELSE IF Len(bytes) > SpaceLeft(q) THEN q ELSE SpAppended(q, bytes)
    BY DEF SpStored, SpAppended
  <2>2. SpaceLeft(q) \in Int /\ Len(bytes) \in Int
    <3>1. q.end \in 0 .. PageSize /\ q.start \in Nat
      BY <1>1, SpFacts
    <3> HIDE DEF q
    <3> QED BY <3>1, PagesAssumption DEF SpaceLeft
  <2> HIDE DEF q, r
  <2> QED BY <2>1, <2>2
<1> HIDE DEF q, r
<1>3. ASSUME NEW t, SpageOK(t, kept) PROVE SpTold(kept, t, bytes) = kept
  <2>1. Len(t.slots) = Len(kept) /\ Len(kept) \in Nat
    BY <1>3 DEF SpageOK
  <2> QED BY <2>1 DEF SpTold
<1>4. CASE r = p
  BY <1>3, <1>4 DEF r
<1>5. CASE r = q
  BY <1>1, <1>3, <1>5 DEF r
<1>6. CASE Len(bytes) <= SpaceLeft(q) /\ r = SpAppended(q, bytes)
  <2>1. SpageOK(r, Append(kept, bytes))
    BY <1>1, <1>6, AppendKeepsPage
  <2>2. Len(r.slots) = Len(Append(kept, bytes)) /\ Len(kept) \in Nat /\ Len(Append(kept, bytes)) = Len(kept) + 1
    BY <1>1, <2>1 DEF SpageOK
  <2>3. SpTold(kept, r, bytes) = Append(kept, bytes)
    BY <2>2 DEF SpTold
  <2> QED BY <2>1, <2>3 DEF r
<1> QED BY <1>2, <1>4, <1>5, <1>6

(* A slot that names fewer bytes than it did, or none, where nobody else   *)
(* has written.                                                            *)
SlotShrunk(p, q, i, m) ==
  q = [p EXCEPT !.data = q.data, !.tuples = q.tuples, !.slots = [p.slots EXCEPT ![i] = [p.slots[i] EXCEPT !.length = m]]]

LEMMA ShrinkKeepsPage ==
    ASSUME NEW p, NEW kept, SpageOK(p, kept), NEW i \in LiveSlots(p), NEW bytes \in Seq(Cells),
           NEW q, SlotShrunk(p, q, i, Len(bytes)), Len(bytes) <= p.slots[i].length,
           q.data \in Datas, q.tuples \in Nat,
           \A j \in DOMAIN p.slots : j # i => Reading(q.data, p.slots[j]) = Reading(p.data, p.slots[j]),
           Reading(q.data, [p.slots[i] EXCEPT !.length = Len(bytes)]) = bytes,
           q.tuples = p.tuples - (IF Len(bytes) = 0 THEN 1 ELSE 0)
    PROVE  SpageOK(q, [kept EXCEPT ![i] = bytes])
<1> DEFINE s == p.slots
           n == Len(s)
           m == Len(bytes)
           e == [s[i] EXCEPT !.length = m]
           slots == [s EXCEPT ![i] = e]
           told == [kept EXCEPT ![i] = bytes]
<1>1. /\ s \in Seq(Spots) /\ p.start \in Nat /\ p.end \in 0 .. PageSize /\ p.tuples \in Nat
      /\ p.data \in Datas /\ n \in Nat /\ DOMAIN s = 1 .. n
      /\ LiveSlots(p) = {j \in 1 .. n : s[j].length > 0}
  BY SpFacts
<1>2. \A j \in 1 .. n : /\ s[j] \in Spots
                        /\ s[j].offset \in Nat /\ s[j].length \in Nat
                        /\ s[j].length = 0 \/ s[j].offset + s[j].length <= PageSize
  BY SpFacts
<1>3. /\ p \in Spages /\ Apart(p, LiveSlots(p)) /\ p.tuples = Cardinality(LiveSlots(p))
      /\ kept \in Seq(Seq(Cells)) /\ Len(kept) = n
      /\ \A j \in 1 .. n : Reading(p.data, s[j]) = kept[j]
      /\ Room(s, p.end)
  BY DEF SpageOK
<1>4. i \in 1 .. n /\ s[i].length > 0 /\ m \in Nat /\ m <= s[i].length
  BY <1>1
<1>5. e \in Spots /\ e.length = m /\ e.offset = s[i].offset
  <2> DEFINE x == s[i]
  <2>1. x \in Spots /\ e = [x EXCEPT !.length = m]
    BY <1>2, <1>4
  <2> HIDE DEF x, m, e
  <2>2. e \in Spots /\ e.length = m /\ e.offset = x.offset
    BY <1>4, <2>1 DEF Spots
  <2> QED BY <2>2 DEF x
<1>6. q = [p EXCEPT !.data = q.data, !.tuples = q.tuples, !.slots = slots]
  BY DEF SlotShrunk
<1>7. Reading(q.data, e) = bytes /\ \A j \in 1 .. n : j # i => Reading(q.data, s[j]) = Reading(p.data, s[j])
  BY <1>1
<1> HIDE DEF e
<1>8. slots \in Seq(Spots) /\ Len(slots) = n /\ slots[i] = e /\ \A j \in 1 .. n : j # i => slots[j] = s[j]
  BY <1>1, <1>4, <1>5
<1>9. told \in Seq(Seq(Cells)) /\ Len(told) = n /\ told[i] = bytes /\ \A j \in 1 .. n : j # i => told[j] = kept[j]
  BY <1>3, <1>4
<1> HIDE DEF slots, told
<1>10. q \in Spages /\ q.slots = slots /\ q.end = p.end
  <2> DEFINE d == q.data
             t == q.tuples
  <2>1. q = [p EXCEPT !.data = d, !.tuples = t, !.slots = slots] /\ d \in Datas /\ t \in Nat /\ slots \in Seq(Spots)
    BY <1>6, <1>8
  <2> HIDE DEF d, t
  <2> QED BY <1>3, <2>1 DEF Spages
<1> HIDE DEF s, n, m
<1>11. LiveSlots(q) = IF m = 0 THEN LiveSlots(p) \ {i} ELSE LiveSlots(p)
  <2>1. DOMAIN slots = 1 .. n
    BY <1>1, <1>8
  <2>2. \A j : j \in LiveSlots(q) <=> j \in 1 .. n /\ slots[j].length > 0
    BY <1>10, <2>1 DEF LiveSlots
  <2>3. \A j : j \in LiveSlots(p) <=> j \in 1 .. n /\ s[j].length > 0
    BY <1>1
  <2>4. slots[i].length = m /\ (m > 0 <=> m # 0)
    BY <1>4, <1>5, <1>8
  <2>5. \A j \in 1 .. n : j # i => slots[j].length = s[j].length
    BY <1>8
  <2>6. \A j : j \in LiveSlots(q) <=> IF j = i THEN m # 0 ELSE j \in LiveSlots(p)
    BY <1>4, <2>2, <2>3, <2>4, <2>5
  <2> QED BY <2>6
<1>12. q.tuples = Cardinality(LiveSlots(q))
  <2>1. IsFiniteSet(LiveSlots(p))
    <3>1. LiveSlots(p) \subseteq 1 .. n /\ n \in Int /\ 1 \in Int
      BY <1>1
    <3>2. IsFiniteSet(1 .. n)
      BY <3>1, FS_Interval
    <3> QED BY <3>1, <3>2, FS_Subset
  <2>2. m = 0 => Cardinality(LiveSlots(p) \ {i}) = p.tuples - 1
    BY <1>3, <2>1, FS_RemoveElement
  <2>3. q.tuples = p.tuples - (IF m = 0 THEN 1 ELSE 0)
    BY DEF m
  <2> QED BY <1>1, <1>3, <1>11, <2>2, <2>3
<1>13. LiveSlots(q) \subseteq LiveSlots(p) /\ LiveSlots(p) \subseteq 1 .. n
  BY <1>1, <1>11
<1>14. \A j \in 1 .. n : /\ slots[j].offset = s[j].offset /\ slots[j].length \in Nat
                         /\ slots[j].length <= s[j].length
  <2> SUFFICES ASSUME NEW j \in 1 .. n
               PROVE  slots[j].offset = s[j].offset /\ slots[j].length \in Nat /\ slots[j].length <= s[j].length
    OBVIOUS
  <2>1. CASE j = i
    BY <1>4, <1>5, <1>8, <2>1
  <2>2. CASE j # i
    <3>1. slots[j] = s[j] /\ s[j].length \in Nat
      BY <1>2, <1>8, <2>2
    <3> QED BY <3>1
  <2> QED BY <2>1, <2>2
<1>15. Apart(q, LiveSlots(q))
  <2>1. \A j \in LiveSlots(p) : s[j].offset >= p.end /\ s[j].offset + s[j].length <= PageSize
    BY <1>3 DEF Apart, s
  <2>2. \A j, k \in LiveSlots(p) : j # k => \/ s[j].offset + s[j].length <= s[k].offset
                                            \/ s[k].offset + s[k].length <= s[j].offset
    BY <1>3 DEF Apart, s
  <2>3. PageSize \in Nat
    BY PagesAssumption
  <2>4. \A j \in LiveSlots(q) : slots[j].offset >= p.end /\ slots[j].offset + slots[j].length <= PageSize
    <3> SUFFICES ASSUME NEW j \in LiveSlots(q)
                 PROVE  slots[j].offset >= p.end /\ slots[j].offset + slots[j].length <= PageSize
      OBVIOUS
    <3>1. j \in LiveSlots(p) /\ j \in 1 .. n
      BY <1>13
    <3> DEFINE a == s[j].offset
               b == s[j].length
               c == slots[j].length
    <3>2. a \in Nat /\ b \in Nat /\ c \in Nat /\ c <= b /\ a >= p.end /\ a + b <= PageSize
      BY <1>2, <1>14, <2>1, <3>1
    <3>3. slots[j].offset = a
      BY <1>14, <3>1
    <3> HIDE DEF a, b, c
    <3>4. a + c <= PageSize
      BY <2>3, <3>2
    <3> QED BY <3>2, <3>3, <3>4 DEF c
  <2>5. \A j, k \in LiveSlots(q) : j # k => \/ slots[j].offset + slots[j].length <= slots[k].offset
                                            \/ slots[k].offset + slots[k].length <= slots[j].offset
    <3> SUFFICES ASSUME NEW j \in LiveSlots(q), NEW k \in LiveSlots(q), j # k
                 PROVE  \/ slots[j].offset + slots[j].length <= slots[k].offset
                        \/ slots[k].offset + slots[k].length <= slots[j].offset
      OBVIOUS
    <3>1. j \in LiveSlots(p) /\ k \in LiveSlots(p) /\ j \in 1 .. n /\ k \in 1 .. n
      BY <1>13
    <3>2. \/ s[j].offset + s[j].length <= s[k].offset
          \/ s[k].offset + s[k].length <= s[j].offset
      BY <2>2, <3>1
    <3>3. /\ slots[j].offset = s[j].offset /\ slots[j].length \in Nat /\ slots[j].length <= s[j].length
          /\ s[j].offset \in Nat /\ s[j].length \in Nat
      BY <1>2, <1>14, <3>1
    <3>4. /\ slots[k].offset = s[k].offset /\ slots[k].length \in Nat /\ slots[k].length <= s[k].length
          /\ s[k].offset \in Nat /\ s[k].length \in Nat
      BY <1>2, <1>14, <3>1
    <3> DEFINE a == s[j].offset
               b == s[j].length
               c == s[k].offset
               d == s[k].length
               x == slots[j].length
               y == slots[k].length
    <3>5. a \in Nat /\ b \in Nat /\ c \in Nat /\ d \in Nat /\ x \in Nat /\ y \in Nat /\ x <= b /\ y <= d
      BY <3>3, <3>4
    <3>6. a + b <= c \/ c + d <= a
      BY <3>2
    <3>7. slots[j].offset = a /\ slots[k].offset = c
      BY <3>3, <3>4
    <3> HIDE DEF a, b, c, d, x, y
    <3>8. a + x <= c \/ c + y <= a
      BY <3>5, <3>6
    <3> QED BY <3>7, <3>8 DEF x, y
  <2> QED BY <1>10, <2>4, <2>5 DEF Apart
<1>16. \A j \in 1 .. n : Reading(q.data, slots[j]) = told[j]
  BY <1>3, <1>7, <1>8, <1>9
<1>17. Room(slots, p.end)
  <2>1. PICK w : /\ w[0] = 0 /\ \A k \in 0 .. n : w[k] \in Nat
                 /\ \A k \in 1 .. n : w[k] >= w[k - 1] + s[k].length
                 /\ w[n] <= PageSize - p.end
    BY <1>3 DEF Room, n
  <2>2. ASSUME NEW k \in 1 .. n PROVE w[k] >= w[k - 1] + slots[k].length
    <3> DEFINE a == w[k]
               b == w[k - 1]
               c == s[k].length
               d == slots[k].length
    <3>1. k \in 0 .. n /\ k - 1 \in 0 .. n
      BY <1>1
    <3>2. a \in Nat /\ b \in Nat /\ a >= b + c
      BY <2>1, <3>1
    <3>3. c \in Nat /\ d \in Nat /\ d <= c
      BY <1>2, <1>14
    <3> HIDE DEF a, b, c, d
    <3>4. a >= b + d
      BY <3>2, <3>3
    <3> QED BY <3>4 DEF a, b, d
  <2> QED BY <1>8, <2>1, <2>2 DEF Room
<1>18. SpageOK(q, told)
  BY <1>8, <1>9, <1>10, <1>12, <1>15, <1>16, <1>17 DEF SpageOK
<1> QED BY <1>18 DEF told

(* sp_delete: the slot stays, empty.                                       *)
LEMMA EmptyKeepsPage ==
    ASSUME NEW p, NEW kept, SpageOK(p, kept), NEW i \in LiveSlots(p)
    PROVE  SpageOK(SpEmptied(p, i), [kept EXCEPT ![i] = <<>>])
<1> DEFINE q == SpEmptied(p, i)
           s == p.slots
           n == Len(s)
<1>1. /\ s \in Seq(Spots) /\ p.tuples \in Nat /\ p.data \in Datas /\ n \in Nat /\ DOMAIN s = 1 .. n
      /\ LiveSlots(p) = {j \in 1 .. n : s[j].length > 0}
  BY SpFacts
<1>2. i \in 1 .. n /\ s[i] \in Spots /\ s[i].offset \in Nat /\ s[i].length \in Nat
  BY <1>1, SpFacts
<1>3. p \in Spages /\ p.tuples = Cardinality(LiveSlots(p))
  BY DEF SpageOK
<1>4. q.data = p.data /\ q.tuples = p.tuples - 1 /\ SlotShrunk(p, q, i, 0)
  <2> DEFINE t == p.tuples - 1
             slots == [s EXCEPT ![i] = [s[i] EXCEPT !.length = 0]]
  <2>1. q = [p EXCEPT !.slots = slots, !.tuples = t]
    BY DEF SpEmptied
  <2> HIDE DEF t, slots, q
  <2>2. q.data = p.data /\ q.tuples = t /\ q = [p EXCEPT !.data = q.data, !.tuples = q.tuples, !.slots = slots]
    BY <1>3, <2>1 DEF Spages
  <2> QED BY <2>2 DEF t, slots, SlotShrunk
<1>5. p.tuples - 1 \in Nat
  <2>1. IsFiniteSet(LiveSlots(p))
    <3>1. LiveSlots(p) \subseteq 1 .. n /\ n \in Int /\ 1 \in Int
      BY <1>1
    <3>2. IsFiniteSet(1 .. n)
      BY <3>1, FS_Interval
    <3> QED BY <3>1, <3>2, FS_Subset
  <2>2. Cardinality(LiveSlots(p)) # 0
    BY <2>1, FS_EmptySet
  <2> QED BY <1>1, <1>3, <2>2
<1>6. Reading(p.data, [s[i] EXCEPT !.length = 0]) = <<>>
  <2> DEFINE e == [s[i] EXCEPT !.length = 0]
  <2>1. e.offset \in Nat /\ e.length = 0
    BY <1>2 DEF Spots
  <2> HIDE DEF e
  <2>2. Reading(p.data, e) \in Seq(Cells) /\ Len(Reading(p.data, e)) = 0
    BY <1>1, <2>1, ReadingIs
  <2> HIDE DEF s
  <2>3. Reading(p.data, e) = <<>>
    BY <2>2
  <2> QED BY <2>3 DEF e
<1> HIDE DEF q
<1>7. Len(<<>>) = 0 /\ <<>> \in Seq(Cells) /\ 0 <= s[i].length
  BY <1>2
<1> DEFINE b == <<>>
<1> HIDE DEF b
<1>8. b \in Seq(Cells) /\ Len(b) = 0
  BY <1>7 DEF b
<1>9. q.tuples = p.tuples - (IF Len(b) = 0 THEN 1 ELSE 0)
  BY <1>4, <1>8
<1>10. Reading(q.data, [p.slots[i] EXCEPT !.length = Len(b)]) = b
  BY <1>4, <1>6, <1>8 DEF b
<1>11. SpageOK(q, [kept EXCEPT ![i] = b])
  BY <1>1, <1>4, <1>5, <1>7, <1>8, <1>9, <1>10, ShrinkKeepsPage
<1> QED BY <1>11 DEF q, b

(* sp_update in place.                                                     *)
LEMMA OverwriteKeepsPage ==
    ASSUME NEW p, NEW kept, SpageOK(p, kept), NEW i \in LiveSlots(p), NEW bytes \in Seq(Cells),
           Len(bytes) > 0, Len(bytes) <= p.slots[i].length
    PROVE  SpageOK([p EXCEPT !.data = Written(@, p.slots[i].offset, bytes), !.slots[i].length = Len(bytes)],
                   [kept EXCEPT ![i] = bytes])
<1> DEFINE s == p.slots
           n == Len(s)
           o == s[i].offset
           m == Len(bytes)
           d == Written(p.data, o, bytes)
           q == [p EXCEPT !.data = Written(@, p.slots[i].offset, bytes), !.slots[i].length = Len(bytes)]
<1>1. /\ s \in Seq(Spots) /\ p.tuples \in Nat /\ p.data \in Datas /\ n \in Nat /\ DOMAIN s = 1 .. n
      /\ LiveSlots(p) = {j \in 1 .. n : s[j].length > 0}
  BY SpFacts
<1>2. \A j \in 1 .. n : /\ s[j] \in Spots
                        /\ s[j].offset \in Nat /\ s[j].length \in Nat
                        /\ s[j].length = 0 \/ s[j].offset + s[j].length <= PageSize
  BY SpFacts
<1>3. p \in Spages /\ Apart(p, LiveSlots(p))
  BY DEF SpageOK
<1>4. i \in 1 .. n /\ o \in Nat /\ m \in Nat /\ m > 0 /\ m <= s[i].length /\ o + s[i].length <= PageSize /\ PageSize \in Nat
  BY <1>1, <1>2, PagesAssumption
<1>5. q.data = d /\ q.tuples = p.tuples /\ SlotShrunk(p, q, i, m)
  <2> DEFINE c == [p EXCEPT !.data = d]
             slots == [s EXCEPT ![i] = [s[i] EXCEPT !.length = m]]
  <2>1. c.slots = s /\ c.data = d /\ c.tuples = p.tuples
    <3> HIDE DEF d
    <3> QED BY <1>3 DEF Spages
  <2>2. q = [c EXCEPT !.slots = [c.slots EXCEPT ![i] = [c.slots[i] EXCEPT !.length = m]]]
    OBVIOUS
  <2>3. q = [c EXCEPT !.slots = slots]
    <3> HIDE DEF c, q
    <3> QED BY <2>1, <2>2
  <2> HIDE DEF d, slots, q
  <2>4. q.data = d /\ q.tuples = p.tuples /\ q = [p EXCEPT !.data = q.data, !.tuples = q.tuples, !.slots = slots]
    BY <1>3, <2>3 DEF Spages
  <2> QED BY <2>4 DEF slots, SlotShrunk
<1>6. d \in Datas
  <2>1. o \in Int
    BY <1>4
  <2> HIDE DEF o
  <2> QED BY <1>1, <2>1, WrittenIs
<1>7. ASSUME NEW j \in DOMAIN s, j # i PROVE Reading(d, s[j]) = Reading(p.data, s[j])
  <2>1. s[j].length = 0 \/ s[j].offset + s[j].length <= o \/ o + s[i].length <= s[j].offset
    <3>0. j \in 1 .. n /\ s[j].length \in Nat
      BY <1>1, <1>2
    <3>1. s[j].length # 0 => j \in LiveSlots(p)
      BY <1>1, <3>0
    <3> QED BY <1>3, <1>7, <3>1 DEF Apart
  <2>2. o + s[i].length <= s[j].offset => o + m <= s[j].offset
    <3> DEFINE a == s[i].length
               b == s[j].offset
    <3>1. a \in Nat /\ b \in Nat /\ m \in Nat /\ o \in Nat /\ m <= a
      BY <1>1, <1>2, <1>4
    <3> HIDE DEF a, b, o, m
    <3>2. o + a <= b => o + m <= b
      BY <3>1
    <3> QED BY <3>2 DEF a, b
  <2>3. o \in Int
    BY <1>4
  <2>4. s[j].length = 0 \/ s[j].offset + s[j].length <= o \/ o + Len(bytes) <= s[j].offset
    BY <2>1, <2>2
  <2> HIDE DEF o
  <2> QED BY <1>1, <1>2, <2>3, <2>4, ReadElsewhere
<1>8. Reading(d, [s[i] EXCEPT !.length = m]) = bytes
  <2> DEFINE e == [s[i] EXCEPT !.length = m]
  <2>1. e.offset = o /\ e.length = m
    <3>1. s[i] \in Spots
      BY <1>2, <1>4
    <3> QED BY <3>1 DEF Spots
  <2>2. o + m <= PageSize
    <3> DEFINE a == s[i].length
    <3>1. a \in Nat /\ m \in Nat /\ o \in Nat /\ m <= a /\ o + a <= PageSize /\ PageSize \in Nat
      BY <1>2, <1>4
    <3> HIDE DEF a, o, m
    <3> QED BY <3>1
  <2> HIDE DEF e, o
  <2>3. Reading(d, e) = bytes
    BY <1>1, <1>4, <2>1, <2>2, ReadWritten
  <2> QED BY <2>3 DEF e
<1>9. q.tuples = p.tuples - (IF m = 0 THEN 1 ELSE 0)
  BY <1>1, <1>4, <1>5
<1> HIDE DEF q, d
<1>10. SpageOK(q, [kept EXCEPT ![i] = bytes])
  <2> HIDE DEF o
  <2>1. /\ q.data \in Datas /\ q.tuples \in Nat
        /\ \A j \in DOMAIN p.slots : j # i => Reading(q.data, p.slots[j]) = Reading(p.data, p.slots[j])
        /\ Reading(q.data, [p.slots[i] EXCEPT !.length = Len(bytes)]) = bytes
        /\ q.tuples = p.tuples - (IF Len(bytes) = 0 THEN 1 ELSE 0)
        /\ SlotShrunk(p, q, i, Len(bytes))
    BY <1>1, <1>5, <1>6, <1>7, <1>8, <1>9
  <2> QED BY <2>1, ShrinkKeepsPage
<1> QED BY <1>10 DEF q

LEMMA TupleIs ==
    ASSUME NEW bytes \in TupleBytes
    PROVE  bytes \in Seq(Cells) /\ Len(bytes) \in Nat /\ Len(bytes) > 0
<1>1. PICK v \in TupleVals, n \in TupleSizes : bytes = Tuple(v, n)
  BY DEF TupleBytes
<1>2. n \in Nat /\ n > 0
  BY PagesAssumption
<1>3. bytes = [i \in 1 .. n |-> <<v, i>>]
  BY <1>1 DEF Tuple
<1>4. \A i \in 1 .. n : <<v, i>> \in Cells
  BY <1>2 DEF Cells
<1>5. bytes \in [1 .. n -> Cells]
  BY <1>3, <1>4
<1> QED BY <1>2, <1>5

SpageOf(p, kept, c) == [kind |-> "spage", page |-> p, kept |-> kept, calls |-> c]
SomeSpage == \E p, kept, c : handle = SpageOf(p, kept, c) /\ SpageOK(p, kept)

LEMMA BlankOK == Blank \in Datas
<1>1. Zero \in Cells
  BY DEF Cells
<1> QED BY <1>1 DEF Blank, Datas

LEMMA NewSpageOK ==
    ASSUME handle = [kind |-> "spage", page |-> NewSpage, kept |-> <<>>, calls |-> 0]
    PROVE  SomeSpage
<1>1. NewSpage = [slots |-> <<>>, start |-> PageHeader, end |-> PageSize, tuples |-> 0, data |-> Blank]
  BY DEF NewSpage
<1>2. NewSpage \in Spages /\ NewSpage.slots = <<>> /\ NewSpage.tuples = 0 /\ NewSpage.end = PageSize
  <2>1. PageHeader \in Nat /\ PageSize \in 0 .. PageSize
    BY PagesAssumption
  <2>2. <<>> \in Seq(Spots)
    OBVIOUS
  <2> QED BY <1>1, <2>1, <2>2, BlankOK DEF Spages
<1>3. LiveSlots(NewSpage) = {}
  BY <1>2 DEF LiveSlots
<1>4. Cardinality({}) = 0
  BY FS_EmptySet
<1>5. Room(<<>>, PageSize)
  <2> DEFINE w == [k \in 0 .. 0 |-> 0]
  <2>1. PageSize \in Nat /\ Len(<<>>) = 0
    BY PagesAssumption
  <2>2. w[0] = 0 /\ (\A k \in 0 .. 0 : w[k] \in Nat) /\ w[0] <= PageSize - PageSize
    BY <2>1
  <2> HIDE DEF w
  <2> QED BY <2>1, <2>2 DEF Room
<1>6. <<>> \in Seq(Seq(Cells)) /\ Len(<<>>) = 0
  OBVIOUS
<1>7. SpageOK(NewSpage, <<>>)
  BY <1>2, <1>3, <1>4, <1>5, <1>6 DEF SpageOK, Apart
<1> QED BY <1>7 DEF SomeSpage, SpageOf

LEMMA SpChangeKeeps ==
    ASSUME NEW p, NEW kept, NEW c, handle = SpageOf(p, kept, c),
           NEW q, NEW told, SpageOK(q, told), SpChange(q, told)
    PROVE  SomeSpage'
<1>1. handle' = SpageOf(q, told, c + 1)
  BY DEF SpChange, SpageOf
<1> QED BY <1>1 DEF SomeSpage

(* Every call on a page of the kernel.                                     *)
LEMMA SpageKeeps == SomeSpage /\ SpNext => SomeSpage'
<1> SUFFICES ASSUME SomeSpage, SpNext PROVE SomeSpage'
  OBVIOUS
<1>1. PICK p, kept, c : handle = SpageOf(p, kept, c) /\ SpageOK(p, kept)
  BY DEF SomeSpage
<1>2. handle.page = p /\ handle.kept = kept
  BY <1>1 DEF SpageOf
<1>3. ASSUME NEW b \in TupleBytes, SpInsert(b) PROVE SomeSpage'
  <2>1. SpageOK(SpStored(p, b), SpTold(kept, SpStored(p, b), b))
    BY <1>1, TupleIs, StoreKeepsPage
  <2>2. SpChange(SpStored(p, b), SpTold(kept, SpStored(p, b), b))
    BY <1>2, <1>3 DEF SpInsert
  <2> QED BY <1>1, <2>1, <2>2, SpChangeKeeps
<1>4. ASSUME NEW i \in 1 .. PageSlots, SpDelete(i) PROVE SomeSpage'
  <2>1. i \in LiveSlots(p) /\ SpChange(SpEmptied(p, i), [kept EXCEPT ![i] = <<>>])
    BY <1>2, <1>4 DEF SpDelete
  <2>2. SpageOK(SpEmptied(p, i), [kept EXCEPT ![i] = <<>>])
    BY <1>1, <2>1, EmptyKeepsPage
  <2> QED BY <1>1, <2>1, <2>2, SpChangeKeeps
<1>5. ASSUME NEW i \in 1 .. PageSlots, NEW b \in TupleBytes, SpUpdateInPlace(i, b) PROVE SomeSpage'
  <2> DEFINE q == [p EXCEPT !.data = Written(@, p.slots[i].offset, b), !.slots[i].length = Len(b)]
             told == [kept EXCEPT ![i] = b]
  <2>1. i \in LiveSlots(p) /\ Len(b) <= p.slots[i].length /\ SpChange(q, told)
    BY <1>2, <1>5 DEF SpUpdateInPlace
  <2>2. SpageOK(q, told)
    BY <1>1, <2>1, TupleIs, OverwriteKeepsPage
  <2> HIDE DEF q, told
  <2> QED BY <1>1, <2>1, <2>2, SpChangeKeeps
<1>6. ASSUME NEW i \in 1 .. PageSlots, NEW b \in TupleBytes, SpUpdateElsewhere(i, b) PROVE SomeSpage'
  <2> DEFINE e == SpEmptied(p, i)
             told == [kept EXCEPT ![i] = <<>>]
  <2>1. i \in LiveSlots(p) /\ SpChange(SpStored(e, b), SpTold(told, SpStored(e, b), b))
    BY <1>2, <1>6 DEF SpUpdateElsewhere
  <2>2. SpageOK(e, told)
    BY <1>1, <2>1, EmptyKeepsPage
  <2> HIDE DEF e, told
  <2>3. SpageOK(SpStored(e, b), SpTold(told, SpStored(e, b), b))
    BY <2>2, TupleIs, StoreKeepsPage
  <2> QED BY <1>1, <2>1, <2>3, SpChangeKeeps
<1>7. CASE SpCompact
  <2>1. SpChange(SpCompacted(p), kept)
    BY <1>2, <1>7 DEF SpCompact
  <2> QED BY <1>1, <2>1, CompactKeepsPage, SpChangeKeeps
<1> QED BY <1>3, <1>4, <1>5, <1>6, <1>7 DEF SpNext

(* What a page of the kernel tells.                                        *)
LEMMA SpageTells == SomeSpage => PageKeepsTuples
<1> SUFFICES ASSUME SomeSpage PROVE PageKeepsTuples
  OBVIOUS
<1>1. PICK p, kept, c : handle = SpageOf(p, kept, c) /\ SpageOK(p, kept)
  BY DEF SomeSpage
<1>2. handle.page = p /\ handle.kept = kept /\ handle.kind = "spage"
  BY <1>1 DEF SpageOf
<1>3. DOMAIN p.slots = 1 .. Len(p.slots)
  BY <1>1, SpFacts
<1> QED BY <1>1, <1>2, <1>3 DEF PageKeepsTuples, SpageOK, Holding

-----------------------------------------------------------------------------
(* The page of the relational library: a directory of fixed size.  Room is *)
(* what the tuples of the used slots need, in the order of the slots; a    *)
(* compaction that moves them never takes more of the page than they had.  *)
UsedSlots == [offset : Nat, length : Nat, used : BOOLEAN]
Rpages == [num : 0 .. PageSlots, start : Nat, end : 0 .. PageSize, data : Datas,
           slots : [SlotNumbers -> UsedSlots]]
SlotTakes(p, i) == IF p.slots[i].used THEN p.slots[i].length ELSE 0
UsedRoom(p, w) == /\ w[0] = 0 /\ \A k \in 0 .. PageSlots : w[k] \in Nat
                  /\ \A k \in 1 .. PageSlots : w[k] >= w[k - 1] + SlotTakes(p, k - 1)
                  /\ w[PageSlots] <= PageSize - p.end
RpageOK(p, kept, crowded) ==
    /\ p \in Rpages /\ Apart(p, Used(p)) /\ \E w : UsedRoom(p, w)
    /\ \A i \in SlotNumbers : p.slots[i].used => i < p.num
    /\ kept \in [SlotNumbers -> Seq(Cells)] /\ crowded \in BOOLEAN
    /\ ~crowded => \A i \in SlotNumbers :
         kept[i] = IF i \in Used(p) THEN Reading(p.data, p.slots[i]) ELSE <<>>

LEMMA PlFacts ==
    ASSUME NEW p, NEW kept, NEW crowded, RpageOK(p, kept, crowded)
    PROVE  /\ p.num \in 0 .. PageSlots /\ p.start \in Nat /\ p.end \in 0 .. PageSize /\ p.data \in Datas
           /\ p.slots \in [SlotNumbers -> UsedSlots]
           /\ Used(p) = {i \in SlotNumbers : p.slots[i].used}
           /\ \A i \in SlotNumbers : /\ i \in Nat /\ i + 1 \in 1 .. PageSlots
                                     /\ p.slots[i].offset \in Nat /\ p.slots[i].length \in Nat
                                     /\ p.slots[i].used \in BOOLEAN /\ SlotTakes(p, i) \in Nat
           /\ \A i \in Used(p) : p.slots[i].offset >= p.end /\ p.slots[i].offset + p.slots[i].length <= PageSize
           /\ PageSize \in Nat /\ PageSlots \in Nat
<1>1. p \in Rpages /\ Apart(p, Used(p)) /\ \A i \in SlotNumbers : p.slots[i].used => i < p.num
  BY DEF RpageOK
<1>2. /\ p.num \in 0 .. PageSlots /\ p.start \in Nat /\ p.end \in 0 .. PageSize /\ p.data \in Datas
      /\ p.slots \in [SlotNumbers -> UsedSlots]
  BY <1>1 DEF Rpages
<1>3. PageSize \in Nat /\ PageSlots \in Nat
  BY PagesAssumption
<1>4. ASSUME NEW i \in SlotNumbers
      PROVE  /\ i \in Nat /\ i + 1 \in 1 .. PageSlots
             /\ p.slots[i].offset \in Nat /\ p.slots[i].length \in Nat
             /\ p.slots[i].used \in BOOLEAN /\ SlotTakes(p, i) \in Nat
  <2>1. i \in Nat /\ i + 1 \in 1 .. PageSlots
    BY <1>3 DEF SlotNumbers
  <2>2. p.slots[i] \in UsedSlots
    BY <1>2
  <2>3. p.slots[i].offset \in Nat /\ p.slots[i].length \in Nat /\ p.slots[i].used \in BOOLEAN
    BY <2>2 DEF UsedSlots
  <2> QED BY <2>1, <2>3 DEF SlotTakes
<1>5. Used(p) = {i \in SlotNumbers : p.slots[i].used}
  BY <1>1 DEF Used
<1>6. \A i \in Used(p) : p.slots[i].offset >= p.end /\ p.slots[i].offset + p.slots[i].length <= PageSize
  BY <1>1 DEF Apart
<1> QED BY <1>2, <1>3, <1>4, <1>5, <1>6

LEMMA Ascends ==
    ASSUME NEW n \in Nat, NEW w, \A k \in 0 .. n : w[k] \in Nat, \A k \in 1 .. n : w[k] >= w[k - 1],
           NEW i \in 0 .. n
    PROVE  \A j \in 0 .. n : i <= j => w[i] <= w[j]
<1> DEFINE P == { j \in 0 .. n : i <= j => w[i] <= w[j] }
<1>1. 0 \in P
  <2>1. i <= 0 => i = 0
    OBVIOUS
  <2>2. 0 \in 0 .. n /\ w[0] \in Nat
    OBVIOUS
  <2> QED BY <2>1, <2>2
<1>2. ASSUME NEW k \in 1 .. n, k - 1 \in P PROVE k \in P
  <2>1. k \in 0 .. n /\ k - 1 \in 0 .. n
    OBVIOUS
  <2>2. w[k] \in Nat /\ w[k - 1] \in Nat /\ w[i] \in Nat /\ w[k] >= w[k - 1]
    BY <2>1
  <2>3. CASE i <= k - 1
    BY <1>2, <2>1, <2>2, <2>3
  <2>4. CASE ~(i <= k - 1)
    <3>1. i <= k => i = k
      BY <2>4
    <3> QED BY <2>1, <2>2, <3>1
  <2> QED BY <2>3, <2>4
<1>3. \A k \in 0 .. n : k \in P
  <2> HIDE DEF P
  <2> QED BY <1>1, <1>2, InductionUpTo
<1> QED BY <1>3

(* pl_insert: a tuple below the others, in the first unused slot.          *)
LEMMA PlStoreKeeps ==
    ASSUME NEW p, NEW kept, NEW crowded, RpageOK(p, kept, crowded),
           NEW i \in Unused(p), \A j \in Unused(p) : i <= j, p.num < PageSlots,
           NEW bytes \in Seq(Cells), Len(bytes) <= SpaceLeft(p)
    PROVE  RpageOK(PlStored(p, i, bytes), [kept EXCEPT ![i] = bytes], crowded)
<1> DEFINE m == Len(bytes)
           o == p.end - m
           e == [offset |-> o, length |-> m, used |-> TRUE]
           data == Written(p.data, o, bytes)
           slots == [p.slots EXCEPT ![i] = e]
           num == IF i >= p.num THEN i + 1 ELSE p.num
           q == PlStored(p, i, bytes)
           told == [kept EXCEPT ![i] = bytes]
<1>1. /\ p.num \in 0 .. PageSlots /\ p.start \in Nat /\ p.end \in 0 .. PageSize /\ p.data \in Datas
      /\ p.slots \in [SlotNumbers -> UsedSlots]
      /\ Used(p) = {j \in SlotNumbers : p.slots[j].used}
      /\ PageSize \in Nat /\ PageSlots \in Nat
  BY PlFacts
<1>2. \A j \in SlotNumbers : /\ j \in Nat /\ j + 1 \in 1 .. PageSlots
                             /\ p.slots[j].offset \in Nat /\ p.slots[j].length \in Nat
                             /\ p.slots[j].used \in BOOLEAN /\ SlotTakes(p, j) \in Nat
  BY PlFacts
<1>3. \A j \in Used(p) : p.slots[j].offset >= p.end /\ p.slots[j].offset + p.slots[j].length <= PageSize
  BY PlFacts
<1>4. /\ p \in Rpages /\ Apart(p, Used(p)) /\ \E w : UsedRoom(p, w)
      /\ \A j \in SlotNumbers : p.slots[j].used => j < p.num
      /\ kept \in [SlotNumbers -> Seq(Cells)] /\ crowded \in BOOLEAN
      /\ ~crowded => \A j \in SlotNumbers :
           kept[j] = IF j \in Used(p) THEN Reading(p.data, p.slots[j]) ELSE <<>>
  BY DEF RpageOK
<1>5. i \in SlotNumbers /\ ~p.slots[i].used /\ i \notin Used(p)
  BY <1>1 DEF Unused
<1>6. m \in Nat /\ o \in 0 .. PageSize /\ o \in Nat /\ o + m = p.end /\ o <= p.end
  <2>1. m \in Nat /\ m <= p.end - p.start
    BY DEF SpaceLeft
  <2>2. p.end \in 0 .. PageSize /\ p.start \in Nat /\ PageSize \in Nat
    BY <1>1
  <2> HIDE DEF m
  <2> QED BY <2>1, <2>2
<1>7. num \in 0 .. PageSlots /\ i < num /\ p.num <= num
  BY <1>1, <1>2, <1>5
<1>8. q = [p EXCEPT !.end = o, !.data = data, !.slots = slots, !.num = num]
  BY <1>4 DEF PlStored, Rpages
<1>9. /\ data \in Datas
      /\ Reading(data, e) = bytes
      /\ \A j \in Used(p) : Reading(data, p.slots[j]) = Reading(p.data, p.slots[j])
  <2> HIDE DEF o, m
  <2>1. data \in Datas
    BY <1>1, <1>6, WrittenIs
  <2>2. e.offset = o /\ e.length = m
    OBVIOUS
  <2>3. o \in Nat /\ o + Len(bytes) <= PageSize /\ e.length = Len(bytes)
    BY <1>1, <1>6, <2>2 DEF m
  <2> HIDE DEF e
  <2>4. Reading(data, e) = bytes
    BY <1>1, <2>2, <2>3, ReadWritten
  <2>5. ASSUME NEW j \in Used(p) PROVE Reading(data, p.slots[j]) = Reading(p.data, p.slots[j])
    <3>1. o + Len(bytes) <= p.slots[j].offset /\ p.slots[j].offset + p.slots[j].length <= PageSize
      BY <1>3, <1>6 DEF m
    <3>2. o \in Int /\ p.slots[j].offset \in Nat /\ p.slots[j].length \in Nat
      BY <1>1, <1>2, <1>6
    <3> QED BY <1>1, <3>1, <3>2, ReadElsewhere
  <2> QED BY <2>1, <2>4, <2>5
<1>10. slots \in [SlotNumbers -> UsedSlots] /\ slots[i] = e /\ \A j \in SlotNumbers : j # i => slots[j] = p.slots[j]
  <2>1. e \in UsedSlots
    BY <1>6 DEF UsedSlots
  <2> HIDE DEF e
  <2> QED BY <1>1, <1>5, <2>1
<1>11. e.offset = o /\ e.length = m /\ e.used = TRUE
  OBVIOUS
<1>12. told \in [SlotNumbers -> Seq(Cells)] /\ told[i] = bytes /\ \A j \in SlotNumbers : j # i => told[j] = kept[j]
  BY <1>4, <1>5
<1> HIDE DEF o, m, e, slots, data, num, told, q
<1>13. q \in Rpages /\ q.slots = slots /\ q.end = o /\ q.data = data /\ q.num = num
  BY <1>4, <1>6, <1>7, <1>8, <1>9, <1>10 DEF Rpages
<1>14. \A j \in SlotNumbers : slots[j].used => j < num
  <2> SUFFICES ASSUME NEW j \in SlotNumbers, slots[j].used PROVE j < num
    OBVIOUS
  <2>1. CASE j = i
    BY <1>7, <2>1
  <2>2. CASE j # i
    <3>1. j < p.num /\ j \in Nat
      BY <1>2, <1>4, <1>10, <2>2
    <3> QED BY <1>1, <1>7, <3>1
  <2> QED BY <2>1, <2>2
<1>15. Used(q) = Used(p) \cup {i}
  <2>1. \A j : j \in Used(q) <=> j \in SlotNumbers /\ slots[j].used
    BY <1>13, <1>14 DEF Used
  <2>2. \A j : j \in Used(p) <=> j \in SlotNumbers /\ p.slots[j].used
    BY <1>1
  <2> QED BY <1>5, <1>10, <1>11, <2>1, <2>2
<1>16. Apart(q, Used(q))
  <2>1. \A j \in Used(p) : j # i /\ j \in SlotNumbers
    BY <1>1, <1>5
  <2>2. \A j, k \in Used(p) : j # k => \/ p.slots[j].offset + p.slots[j].length <= p.slots[k].offset
                                       \/ p.slots[k].offset + p.slots[k].length <= p.slots[j].offset
    BY <1>4 DEF Apart
  <2>3. slots[i].offset = o /\ slots[i].length = m
    BY <1>10, <1>11
  <2>4. \A j \in Used(p) : slots[j] = p.slots[j]
    BY <1>10, <2>1
  <2>5. \A j \in Used(q) : slots[j].offset >= o /\ slots[j].offset + slots[j].length <= PageSize
    <3> SUFFICES ASSUME NEW j \in Used(q)
                 PROVE  slots[j].offset >= o /\ slots[j].offset + slots[j].length <= PageSize
      OBVIOUS
    <3>1. CASE j = i
      BY <1>1, <1>6, <2>3, <3>1
    <3>2. CASE j \in Used(p)
      <4>1. p.end >= o /\ p.end \in Nat /\ p.slots[j].offset \in Nat
        BY <1>1, <1>2, <1>6, <2>1, <3>2
      <4> QED BY <1>3, <1>6, <2>4, <3>2, <4>1
    <3> QED BY <1>15, <3>1, <3>2
  <2>6. \A j \in Used(p) : slots[i].offset + slots[i].length <= slots[j].offset
    BY <1>3, <1>6, <2>3, <2>4
  <2>7. \A j, k \in Used(q) : j # k => \/ slots[j].offset + slots[j].length <= slots[k].offset
                                       \/ slots[k].offset + slots[k].length <= slots[j].offset
    BY <1>15, <2>2, <2>4, <2>6
  <2> QED BY <1>13, <2>5, <2>7 DEF Apart
<1>17. \A j \in Used(p) : j # i /\ j \in SlotNumbers
  BY <1>1, <1>5
<1>18. ~crowded => \A j \in SlotNumbers :
         told[j] = IF j \in Used(q) THEN Reading(data, slots[j]) ELSE <<>>
  BY <1>4, <1>5, <1>9, <1>10, <1>12, <1>15, <1>17
<1>19. \E w : UsedRoom(q, w)
  <2>1. PICK w : UsedRoom(p, w)
    BY <1>4
  <2>2. /\ w[0] = 0 /\ \A k \in 0 .. PageSlots : w[k] \in Nat
        /\ \A k \in 1 .. PageSlots : w[k] >= w[k - 1] + SlotTakes(p, k - 1)
        /\ w[PageSlots] <= PageSize - p.end
    BY <2>1 DEF UsedRoom
  <2> DEFINE v == [k \in 0 .. PageSlots |-> IF k > i THEN w[k] + m ELSE w[k]]
  <2>3. \A k \in 0 .. PageSlots : v[k] = IF k > i THEN w[k] + m ELSE w[k]
    OBVIOUS
  <2> HIDE DEF v
  <2>4. v[0] = 0
    <3>1. 0 \in 0 .. PageSlots /\ ~(0 > i)
      BY <1>1, <1>2, <1>5
    <3> QED BY <2>2, <2>3, <3>1
  <2>5. ASSUME NEW k \in 0 .. PageSlots PROVE v[k] \in Nat
    <3>1. w[k] \in Nat /\ w[k] + m \in Nat
      BY <1>6, <2>2
    <3> QED BY <2>3, <3>1
  <2>6. ASSUME NEW k \in 1 .. PageSlots PROVE v[k] >= v[k - 1] + SlotTakes(q, k - 1)
    <3> DEFINE a == w[k]
               b == w[k - 1]
               t == SlotTakes(p, k - 1)
    <3>1. k \in 0 .. PageSlots /\ k - 1 \in 0 .. PageSlots /\ k - 1 \in SlotNumbers
      BY <1>1 DEF SlotNumbers
    <3>2. a \in Nat /\ b \in Nat /\ t \in Nat /\ a >= b + t
      BY <1>2, <2>2, <3>1
    <3>3. v[k] = (IF k > i THEN a + m ELSE a) /\ v[k - 1] = IF k - 1 > i THEN b + m ELSE b
      BY <2>3, <3>1
    <3>4. i \in Nat
      BY <1>2, <1>5
    <3>5. CASE k - 1 = i
      <4>1. SlotTakes(q, i) = m /\ t = 0
        <5>1. SlotTakes(q, i) = m
          BY <1>10, <1>11, <1>13 DEF SlotTakes
        <5>2. SlotTakes(p, i) = 0
          BY <1>5 DEF SlotTakes
        <5> QED BY <3>5, <5>1, <5>2
      <4>2. k > i /\ ~(k - 1 > i)
        BY <3>4, <3>5
      <4> HIDE DEF a, b, t
      <4>3. v[k] = a + m /\ v[k - 1] = b
        BY <3>3, <4>2
      <4>4. a + m >= b + m
        BY <1>6, <3>2, <4>1
      <4> QED BY <3>5, <4>1, <4>3, <4>4
    <3>6. CASE k - 1 # i
      <4>1. SlotTakes(q, k - 1) = t
        BY <1>10, <1>13, <3>1, <3>6 DEF SlotTakes
      <4> HIDE DEF a, b, t
      <4>2. k > i <=> k - 1 > i
        BY <3>4, <3>6
      <4>3. \/ v[k] = a /\ v[k - 1] = b
            \/ v[k] = a + m /\ v[k - 1] = b + m
        BY <3>3, <4>2
      <4>4. a >= b + t /\ a + m >= (b + m) + t
        BY <1>6, <3>2
      <4> QED BY <4>1, <4>3, <4>4
    <3> QED BY <3>5, <3>6
  <2>7. v[PageSlots] <= PageSize - o
    <3> DEFINE a == w[PageSlots]
    <3>1. PageSlots \in 0 .. PageSlots
      BY <1>1
    <3>2. a \in Nat /\ a <= PageSize - p.end /\ p.end \in Nat
      BY <1>1, <2>2, <3>1
    <3>3. v[PageSlots] = a + m \/ v[PageSlots] = a
      BY <2>3, <3>1
    <3> HIDE DEF a
    <3>4. a + m <= PageSize - o /\ a <= PageSize - o
      BY <1>1, <1>6, <3>2
    <3> QED BY <3>3, <3>4
  <2> QED BY <1>13, <2>4, <2>5, <2>6, <2>7 DEF UsedRoom
<1>20. RpageOK(q, told, crowded)
  BY <1>4, <1>12, <1>13, <1>14, <1>16, <1>18, <1>19 DEF RpageOK
<1> QED BY <1>20 DEF q, told

(* pl_delete: the slot is unused, its bytes stay.                          *)
LEMMA PlDropKeeps ==
    ASSUME NEW p, NEW kept, NEW crowded, RpageOK(p, kept, crowded), NEW i \in Used(p)
    PROVE  RpageOK([p EXCEPT !.slots[i].used = FALSE], [kept EXCEPT ![i] = <<>>], crowded)
<1> DEFINE e == [p.slots[i] EXCEPT !.used = FALSE]
           slots == [p.slots EXCEPT ![i] = e]
           q == [p EXCEPT !.slots[i].used = FALSE]
           told == [kept EXCEPT ![i] = <<>>]
<1>1. /\ p.num \in 0 .. PageSlots /\ p.end \in 0 .. PageSize /\ p.data \in Datas
      /\ p.slots \in [SlotNumbers -> UsedSlots]
      /\ Used(p) = {j \in SlotNumbers : p.slots[j].used}
      /\ PageSize \in Nat /\ PageSlots \in Nat
  BY PlFacts
<1>2. \A j \in SlotNumbers : /\ p.slots[j].length \in Nat /\ p.slots[j].offset \in Nat /\ SlotTakes(p, j) \in Nat
  BY PlFacts
<1>3. /\ p \in Rpages /\ Apart(p, Used(p)) /\ \E w : UsedRoom(p, w)
      /\ \A j \in SlotNumbers : p.slots[j].used => j < p.num
      /\ kept \in [SlotNumbers -> Seq(Cells)] /\ crowded \in BOOLEAN
      /\ ~crowded => \A j \in SlotNumbers :
           kept[j] = IF j \in Used(p) THEN Reading(p.data, p.slots[j]) ELSE <<>>
  BY DEF RpageOK
<1>4. i \in SlotNumbers
  BY <1>1
<1>5. q = [p EXCEPT !.slots = slots]
  OBVIOUS
<1>6. e \in UsedSlots /\ e.used = FALSE
  <2> DEFINE x == p.slots[i]
  <2>1. x \in UsedSlots
    BY <1>1, <1>4
  <2> HIDE DEF x
  <2>2. [x EXCEPT !.used = FALSE] \in UsedSlots /\ [x EXCEPT !.used = FALSE].used = FALSE
    BY <2>1 DEF UsedSlots
  <2> QED BY <2>2 DEF x
<1> HIDE DEF e, q
<1>7. slots \in [SlotNumbers -> UsedSlots] /\ slots[i] = e /\ \A j \in SlotNumbers : j # i => slots[j] = p.slots[j]
  BY <1>1, <1>4, <1>6
<1>8. told \in [SlotNumbers -> Seq(Cells)] /\ told[i] = <<>> /\ \A j \in SlotNumbers : j # i => told[j] = kept[j]
  <2> DEFINE S == Seq(Cells)
             b == <<>>
  <2>1. b \in S /\ kept \in [SlotNumbers -> S]
    BY <1>3
  <2> HIDE DEF S, b
  <2>2. [kept EXCEPT ![i] = b] \in [SlotNumbers -> S] /\ [kept EXCEPT ![i] = b][i] = b
        /\ \A j \in SlotNumbers : j # i => [kept EXCEPT ![i] = b][j] = kept[j]
    BY <1>4, <2>1
  <2> QED BY <2>2 DEF S, b
<1> HIDE DEF slots, told
<1>9. q \in Rpages /\ q.slots = slots /\ q.end = p.end /\ q.data = p.data /\ q.num = p.num
  BY <1>3, <1>5, <1>7 DEF Rpages
<1>10. \A j \in SlotNumbers : slots[j].used => j < p.num
  BY <1>3, <1>6, <1>7
<1>11. Used(q) = Used(p) \ {i}
  <2>1. \A j : j \in Used(q) <=> j \in SlotNumbers /\ slots[j].used
    BY <1>9, <1>10 DEF Used
  <2>2. \A j : j \in Used(p) <=> j \in SlotNumbers /\ p.slots[j].used
    BY <1>1
  <2>3. \A j : j \in Used(q) <=> j \in Used(p) /\ j # i
    BY <1>4, <1>6, <1>7, <2>1, <2>2
  <2> QED BY <2>3
<1>12. \A j \in Used(q) : j \in Used(p) /\ j \in SlotNumbers /\ slots[j] = p.slots[j]
  BY <1>1, <1>7, <1>11
<1>13. Apart(q, Used(q))
  BY <1>3, <1>9, <1>12 DEF Apart
<1>14. ~crowded => \A j \in SlotNumbers :
         told[j] = IF j \in Used(q) THEN Reading(p.data, slots[j]) ELSE <<>>
  BY <1>3, <1>7, <1>8, <1>11
<1>15. \E w : UsedRoom(q, w)
  <2>1. PICK w : UsedRoom(p, w)
    BY <1>3
  <2>2. /\ w[0] = 0 /\ \A k \in 0 .. PageSlots : w[k] \in Nat
        /\ \A k \in 1 .. PageSlots : w[k] >= w[k - 1] + SlotTakes(p, k - 1)
        /\ w[PageSlots] <= PageSize - p.end
    BY <2>1 DEF UsedRoom
  <2>3. ASSUME NEW k \in 1 .. PageSlots PROVE w[k] >= w[k - 1] + SlotTakes(q, k - 1)
    <3> DEFINE a == w[k]
               b == w[k - 1]
               t == SlotTakes(p, k - 1)
               u == SlotTakes(q, k - 1)
    <3>1. k \in 0 .. PageSlots /\ k - 1 \in 0 .. PageSlots /\ k - 1 \in SlotNumbers
      BY <1>1 DEF SlotNumbers
    <3>2. a \in Nat /\ b \in Nat /\ t \in Nat /\ a >= b + t
      BY <1>2, <2>2, <3>1
    <3>3. u = t \/ u = 0
      BY <1>6, <1>7, <1>9, <3>1 DEF SlotTakes
    <3> HIDE DEF a, b, t, u
    <3>4. a >= b + u
      BY <3>2, <3>3
    <3> QED BY <3>4 DEF a, b, u
  <2> QED BY <1>9, <2>2, <2>3 DEF UsedRoom
<1>16. RpageOK(q, told, crowded)
  BY <1>3, <1>8, <1>9, <1>10, <1>13, <1>14, <1>15 DEF RpageOK
<1> QED BY <1>16 DEF q, told

(* What a compaction goes through, slot by slot from the highest down.     *)
MovedSlots == [offset : Int, length : Nat, used : BOOLEAN]
Mids == [num : 0 .. PageSlots, start : Nat, end : Int, data : Datas, slots : [SlotNumbers -> MovedSlots]]
MoveSteps(w, p) == /\ w[0] = [p EXCEPT !.end = PageSize]
                   /\ \A k \in 1 .. p.num : w[k] = PlMoving(p, w[k - 1], k)
                   /\ \A k \in 0 .. p.num : w[k] \in Mids

LEMMA UsedIsMoved == ASSUME NEW e \in UsedSlots PROVE e \in MovedSlots
  BY DEF UsedSlots, MovedSlots

LEMMA RpageIsMid ==
    ASSUME NEW p \in Rpages
    PROVE  [p EXCEPT !.end = PageSize] \in Mids
<1>1. p.slots \in [SlotNumbers -> MovedSlots]
  <2>1. p.slots \in [SlotNumbers -> UsedSlots]
    BY DEF Rpages
  <2>2. \A i \in SlotNumbers : p.slots[i] \in MovedSlots
    BY <2>1, UsedIsMoved
  <2> QED BY <2>1, <2>2
<1>2. PageSize \in Int
  BY PagesAssumption
<1> QED BY <1>1, <1>2 DEF Rpages, Mids

(* One step: nothing for an unused slot; a used one goes below the rest.   *)
MovedTo(q, i, off, data) == [q EXCEPT !.end = off, !.slots[i].offset = off, !.data = data]

LEMMA MovedToIs ==
    ASSUME NEW q \in Mids, NEW i \in SlotNumbers, NEW off \in Int, NEW data \in Datas
    PROVE  /\ MovedTo(q, i, off, data) \in Mids /\ MovedTo(q, i, off, data).end = off
           /\ MovedTo(q, i, off, data).data = data
           /\ MovedTo(q, i, off, data).num = q.num /\ MovedTo(q, i, off, data).start = q.start
           /\ MovedTo(q, i, off, data).slots[i].offset = off
           /\ MovedTo(q, i, off, data).slots[i].length = q.slots[i].length
           /\ MovedTo(q, i, off, data).slots[i].used = q.slots[i].used
           /\ \A j \in SlotNumbers : j # i => MovedTo(q, i, off, data).slots[j] = q.slots[j]
<1> DEFINE x == q.slots[i]
           e == [x EXCEPT !.offset = off]
           slots == [q.slots EXCEPT ![i] = e]
           c == [q EXCEPT !.end = off]
           r == MovedTo(q, i, off, data)
<1>1. q.slots \in [SlotNumbers -> MovedSlots]
  BY DEF Mids
<1>2. c.slots = q.slots
  BY DEF Mids
<1>3. r = [[c EXCEPT !.slots = [c.slots EXCEPT ![i] = [c.slots[i] EXCEPT !.offset = off]]] EXCEPT !.data = data]
  BY DEF MovedTo
<1>4. r = [[c EXCEPT !.slots = slots] EXCEPT !.data = data]
  <2> HIDE DEF c, r
  <2> QED BY <1>2, <1>3
<1>5. e \in MovedSlots /\ e.offset = off /\ e.length = x.length /\ e.used = x.used
  <2>1. x \in MovedSlots
    BY <1>1
  <2> HIDE DEF x
  <2> QED BY <2>1 DEF MovedSlots
<1> HIDE DEF e
<1>6. slots \in [SlotNumbers -> MovedSlots] /\ slots[i] = e /\ \A j \in SlotNumbers : j # i => slots[j] = q.slots[j]
  BY <1>1, <1>5
<1> HIDE DEF slots, r
<1>7. r \in Mids /\ r.end = off /\ r.data = data /\ r.num = q.num /\ r.start = q.start /\ r.slots = slots
  BY <1>4, <1>6 DEF Mids
<1> QED BY <1>5, <1>6, <1>7 DEF r

LEMMA MovingIs ==
    ASSUME NEW p, NEW kept, NEW crowded, RpageOK(p, kept, crowded),
           NEW q \in Mids, NEW k \in 1 .. p.num
    PROVE  /\ p.num - k \in SlotNumbers /\ PlMoving(p, q, k) \in Mids
           /\ p.num - k \notin Used(p) => PlMoving(p, q, k) = q
           /\ p.num - k \in Used(p) =>
                PlMoving(p, q, k) = MovedTo(q, p.num - k, q.end - p.slots[p.num - k].length,
                     Written(q.data, q.end - p.slots[p.num - k].length, Reading(q.data, p.slots[p.num - k])))
<1> DEFINE i == p.num - k
           n == p.slots[i].length
           off == q.end - n
           bytes == Reading(q.data, p.slots[i])
           data == Written(q.data, off, bytes)
<1>1. /\ p.num \in 0 .. PageSlots /\ PageSize \in Nat /\ PageSlots \in Nat
      /\ \A j \in SlotNumbers : p.slots[j].offset \in Nat /\ p.slots[j].length \in Nat
      /\ \A j \in Used(p) : p.slots[j].offset + p.slots[j].length <= PageSize
  BY PlFacts
<1>2. i \in SlotNumbers
  BY <1>1 DEF SlotNumbers
<1>3. i \notin Used(p) => PlMoving(p, q, k) = q
  BY DEF PlMoving
<1>4. i \in Used(p) => PlMoving(p, q, k) = MovedTo(q, i, off, data)
  BY DEF PlMoving, MovedTo
<1>5. i \in Used(p) => MovedTo(q, i, off, data) \in Mids
  <2> SUFFICES ASSUME i \in Used(p) PROVE MovedTo(q, i, off, data) \in Mids
    OBVIOUS
  <2>1. q.end \in Int /\ q.data \in Datas
    BY DEF Mids
  <2>2. n \in Nat /\ p.slots[i].offset \in Nat /\ p.slots[i].offset + p.slots[i].length <= PageSize
    BY <1>1, <1>2
  <2>3. off \in Int
    BY <2>1, <2>2
  <2>4. bytes \in Seq(Cells)
    BY <2>1, <2>2, ReadingIs
  <2> HIDE DEF off, bytes
  <2>5. data \in Datas
    BY <2>1, <2>3, <2>4, WrittenIs
  <2> HIDE DEF data, i
  <2> QED BY <1>2, <2>3, <2>5, MovedToIs
<1> QED BY <1>2, <1>3, <1>4, <1>5

LEMMA MovedSteps ==
    ASSUME NEW p, NEW kept, NEW crowded, RpageOK(p, kept, crowded)
    PROVE  \E w : MoveSteps(w, p) /\ PlMoved(p) = w[p.num]
<1> DEFINE n == p.num
           S == Mids
           base == [p EXCEPT !.end = PageSize]
           ks == [k \in 1 .. n |-> k]
           f == [q \in (1 .. n) \X S |-> PlMoving(p, q[2], q[1])]
           Step(g, t) == IF t = {} THEN base ELSE PlMoving(p, g[t \ {Max(t)}], ks[Max(t)])
           Solves(g, d) == g = [t \in SUBSET d |-> Step(g, t)]
           iter == CHOOSE g : Solves(g, DOMAIN ks)
<1>1. PlMoved(p) = iter[DOMAIN ks]
  BY DEF PlMoved, FoldLeft, MapThenFoldSet
<1>2. n \in Nat /\ DOMAIN ks = 1 .. n /\ \A k \in 1 .. n : ks[k] = k
  BY PlFacts
<1>3. \A k \in 1 .. n, x \in S : f[<<k, x>>] = PlMoving(p, x, k)
  OBVIOUS
<1> HIDE DEF f
<1>4. \A k \in 1 .. n, x \in S : f[<<k, x>>] \in S
  <2> TAKE k \in 1 .. n, x \in S
  <2>1. PlMoving(p, x, k) \in S
    BY MovingIs
  <2> HIDE DEF n, S
  <2> QED BY <1>3, <2>1
<1>5. base \in S
  BY RpageIsMid DEF RpageOK
<1> HIDE DEF n, S, base, ks
<1>6. PICK h : Folds(h, n, S, base, f)
  BY <1>2, <1>4, <1>5, FoldSolved DEF StaysIn
<1>7. /\ h \in [SUBSET (1 .. n) -> S]
      /\ \A t \in SUBSET (1 .. n) : h[t] = IF t = {} THEN base ELSE f[<<Max(t), h[t \ {Max(t)}]>>]
  BY <1>6 DEF Folds
<1>8. \A t \in SUBSET (1 .. n) : h[t] = Step(h, t)
  <2> TAKE t \in SUBSET (1 .. n)
  <2>1. CASE t = {}
    BY <1>7, <2>1
  <2>2. CASE t # {}
    <3>1. t \in SUBSET (0 .. n)
      BY <1>2
    <3>2. Max(t) \in t
      BY <1>2, <2>2, <3>1, MaxIsMember
    <3>3. Max(t) \in 1 .. n /\ h[t \ {Max(t)}] \in S
      BY <1>7, <3>2
    <3>4. h[t] = f[<<Max(t), h[t \ {Max(t)}]>>]
      BY <1>7, <2>2
    <3> QED BY <1>2, <1>3, <2>2, <3>3, <3>4
  <2> QED BY <2>1, <2>2
<1>9. Solves(h, 1 .. n)
  <2>1. h = [t \in SUBSET (1 .. n) |-> h[t]]
    BY <1>7
  <2> HIDE DEF Step
  <2> QED BY <1>8, <2>1
<1>10. Solves(iter, 1 .. n)
  <2> HIDE DEF Solves
  <2> QED BY <1>2, <1>9
<1> HIDE DEF iter
<1>11. \A t \in SUBSET (1 .. n) : iter[t] = Step(iter, t)
  <2> HIDE DEF Step
  <2> QED BY <1>10
<1> HIDE DEF Solves
<1> DEFINE w == [k \in 0 .. n |-> iter[1 .. k]]
<1>12. w[0] = base
  <2>1. 1 .. 0 = {} /\ {} \in SUBSET (1 .. n) /\ 0 \in 0 .. n
    BY <1>2
  <2>2. iter[{}] = base
    BY <1>11, <2>1
  <2> QED BY <2>1, <2>2
<1>13. ASSUME NEW k \in 1 .. n PROVE w[k] = PlMoving(p, w[k - 1], k)
  <2>1. k \in Nat /\ k \in 1 .. k /\ 1 .. k \in SUBSET (1 .. n)
    BY <1>2
  <2>2. Max(1 .. k) = k
    BY <2>1, MaxOfTop
  <2>3. (1 .. k) \ {k} = 1 .. k - 1
    BY <2>1
  <2>4. iter[1 .. k] = PlMoving(p, iter[1 .. k - 1], k)
    BY <1>2, <1>11, <2>1, <2>2, <2>3
  <2>5. k \in 0 .. n /\ k - 1 \in 0 .. n
    BY <1>2
  <2> QED BY <2>4, <2>5
<1>14. PlMoved(p) = w[n]
  BY <1>1, <1>2
<1> HIDE DEF w
<1>15. \A k \in 0 .. n : w[k] \in S
  <2> DEFINE P == { k \in 0 .. n : w[k] \in S }
  <2>1. 0 \in P
    BY <1>2, <1>5, <1>12
  <2>2. ASSUME NEW k \in 1 .. n, k - 1 \in P PROVE k \in P
    <3>1. k \in 0 .. n /\ w[k - 1] \in S
      BY <1>2, <2>2
    <3>2. w[k] = PlMoving(p, w[k - 1], k)
      BY <1>13
    <3> QED BY <1>3, <1>4, <3>1, <3>2
  <2>3. \A k \in 0 .. n : k \in P
    <3> HIDE DEF P
    <3> QED BY <1>2, <2>1, <2>2, InductionUpTo
  <2> QED BY <2>3
<1> QED BY <1>12, <1>13, <1>14, <1>15 DEF n, S, base, MoveSteps

LEMMA MoveStep ==
    ASSUME NEW p, NEW kept, NEW crowded, RpageOK(p, kept, crowded), NEW g, MoveSteps(g, p),
           NEW k \in 1 .. p.num, NEW i, i = p.num - k
    PROVE  /\ i \in SlotNumbers /\ k \in 0 .. p.num /\ k - 1 \in 0 .. p.num
           /\ g[k - 1] \in Mids /\ g[k] \in Mids
           /\ g[k].num = g[k - 1].num /\ g[k].start = g[k - 1].start
           /\ g[k].end = g[k - 1].end - SlotTakes(p, i)
           /\ \A j \in SlotNumbers : j # i => g[k].slots[j] = g[k - 1].slots[j]
           /\ g[k].slots[i].length = g[k - 1].slots[i].length
           /\ g[k].slots[i].used = g[k - 1].slots[i].used
           /\ i \notin Used(p) => g[k] = g[k - 1]
           /\ i \in Used(p) => /\ g[k].slots[i].offset = g[k].end
                               /\ SlotTakes(p, i) = p.slots[i].length
                               /\ g[k].data = Written(g[k - 1].data, g[k].end, Reading(g[k - 1].data, p.slots[i]))
<1> DEFINE q == g[k - 1]
           m == p.slots[i].length
           off == q.end - m
           data == Written(q.data, off, Reading(q.data, p.slots[i]))
<1>1. /\ p.num \in 0 .. PageSlots /\ PageSize \in Nat /\ PageSlots \in Nat
      /\ Used(p) = {j \in SlotNumbers : p.slots[j].used}
      /\ \A j \in SlotNumbers : p.slots[j].offset \in Nat /\ p.slots[j].length \in Nat
      /\ \A j \in Used(p) : p.slots[j].offset + p.slots[j].length <= PageSize
  BY PlFacts
<1>2. k \in 0 .. p.num /\ k - 1 \in 0 .. p.num
  BY <1>1
<1>3. q \in Mids /\ g[k] \in Mids /\ g[k] = PlMoving(p, q, k)
  BY <1>2 DEF MoveSteps
<1> HIDE DEF q
<1>4. /\ i \in SlotNumbers
      /\ i \notin Used(p) => g[k] = q
      /\ i \in Used(p) => g[k] = MovedTo(q, i, off, data)
  BY <1>3, MovingIs
<1>5. q.end \in Int /\ q.data \in Datas
  BY <1>3 DEF Mids
<1>6. CASE i \notin Used(p)
  <2>1. SlotTakes(p, i) = 0
    BY <1>1, <1>4, <1>6 DEF SlotTakes
  <2>2. q.end = q.end - 0
    BY <1>5, SMTT(60)
  <2> QED BY <1>2, <1>3, <1>4, <1>6, <2>1, <2>2 DEF q
<1>7. CASE i \in Used(p)
  <2>1. SlotTakes(p, i) = m
    BY <1>1, <1>7 DEF SlotTakes
  <2>2. m \in Nat /\ p.slots[i].offset \in Nat /\ p.slots[i].offset + p.slots[i].length <= PageSize
    BY <1>1, <1>4, <1>7
  <2>3. off \in Int
    BY <1>5, <2>2
  <2>4. Reading(q.data, p.slots[i]) \in Seq(Cells)
    BY <1>5, <2>2, ReadingIs
  <2>5. data \in Datas
    <3> HIDE DEF off
    <3> QED BY <1>5, <2>3, <2>4, WrittenIs
  <2>6. /\ MovedTo(q, i, off, data).end = off
        /\ MovedTo(q, i, off, data).data = data
        /\ MovedTo(q, i, off, data).num = q.num /\ MovedTo(q, i, off, data).start = q.start
        /\ MovedTo(q, i, off, data).slots[i].offset = off
        /\ MovedTo(q, i, off, data).slots[i].length = q.slots[i].length
        /\ MovedTo(q, i, off, data).slots[i].used = q.slots[i].used
        /\ \A j \in SlotNumbers : j # i => MovedTo(q, i, off, data).slots[j] = q.slots[j]
    <3> HIDE DEF off, data
    <3> QED BY <1>3, <1>4, <2>3, <2>5, MovedToIs, SMTT(60)
  <2>7. g[k] = MovedTo(q, i, off, data)
    BY <1>4, <1>7, SMTT(60)
  <2>8. g[k].data = Written(q.data, g[k].end, Reading(q.data, p.slots[i])) /\ g[k].end = q.end - m
    BY <2>6, <2>7
  <2> HIDE DEF off, data, m
  <2> QED BY <1>2, <1>3, <1>4, <1>7, <2>1, <2>6, <2>7, <2>8 DEF q, m
<1> QED BY <1>6, <1>7

(* What stays while the tuples move.                                       *)
MovedAlike(p, q) == /\ q.num = p.num /\ q.start = p.start
                    /\ \A i \in SlotNumbers : /\ q.slots[i].length = p.slots[i].length
                                              /\ q.slots[i].used = p.slots[i].used
                    /\ \A i \in SlotNumbers : i \notin Used(p) => q.slots[i] = p.slots[i]

LEMMA AllMovedAlike ==
    ASSUME NEW p, NEW kept, NEW crowded, RpageOK(p, kept, crowded), NEW g, MoveSteps(g, p)
    PROVE  \A k \in 0 .. p.num : MovedAlike(p, g[k])
<1> DEFINE P == { k \in 0 .. p.num : MovedAlike(p, g[k]) }
<1>1. p.num \in Nat /\ p \in Rpages
  <2>1. p.num \in 0 .. PageSlots /\ PageSlots \in Nat
    BY PlFacts
  <2> QED BY <2>1 DEF RpageOK
<1>2. 0 \in P
  <2>1. g[0] = [p EXCEPT !.end = PageSize]
    BY DEF MoveSteps
  <2>2. g[0].num = p.num /\ g[0].start = p.start /\ g[0].slots = p.slots
    BY <1>1, <2>1 DEF Rpages
  <2> QED BY <1>1, <2>2 DEF MovedAlike
<1>3. ASSUME NEW k \in 1 .. p.num, k - 1 \in P PROVE k \in P
  <2> DEFINE i == p.num - k
             q == g[k - 1]
             r == g[k]
  <2>1. /\ i \in SlotNumbers /\ k \in 0 .. p.num
        /\ r.num = q.num /\ r.start = q.start
        /\ \A j \in SlotNumbers : j # i => r.slots[j] = q.slots[j]
        /\ r.slots[i].length = q.slots[i].length
        /\ r.slots[i].used = q.slots[i].used
        /\ i \notin Used(p) => r = q
    BY MoveStep
  <2>2. MovedAlike(p, q)
    BY <1>3
  <2> HIDE DEF i, q, r
  <2>3. \A j \in SlotNumbers : j \notin Used(p) => r.slots[j] = p.slots[j]
    BY <2>1, <2>2 DEF MovedAlike
  <2>4. \A j \in SlotNumbers : r.slots[j].length = p.slots[j].length /\ r.slots[j].used = p.slots[j].used
    BY <2>1, <2>2 DEF MovedAlike
  <2>5. MovedAlike(p, r)
    BY <2>1, <2>2, <2>3, <2>4 DEF MovedAlike
  <2> QED BY <2>1, <2>5 DEF r
<1>4. \A k \in 0 .. p.num : k \in P
  <2> HIDE DEF P
  <2> QED BY <1>1, <1>2, <1>3, InductionUpTo
<1> QED BY <1>4

(* The tuples moved so far take no more than there was for them.           *)
LEMMA EndsAbove ==
    ASSUME NEW p, NEW kept, NEW crowded, RpageOK(p, kept, crowded), NEW g, MoveSteps(g, p),
           NEW w, UsedRoom(p, w)
    PROVE  \A k \in 0 .. p.num : /\ g[k].end \in 0 .. PageSize
                                 /\ g[k].end >= (PageSize - w[PageSlots]) + w[p.num - k]
<1> DEFINE n == p.num
           W == w[PageSlots]
           P == { k \in 0 .. n : g[k].end <= PageSize /\ g[k].end >= (PageSize - W) + w[n - k] }
<1>1. /\ p.num \in 0 .. PageSlots /\ p.end \in 0 .. PageSize /\ PageSize \in Nat /\ PageSlots \in Nat
      /\ \A j \in SlotNumbers : SlotTakes(p, j) \in Nat
  BY PlFacts
<1>2. n \in Nat /\ p \in Rpages /\ p.end \in Nat /\ n \in 0 .. PageSlots /\ PageSlots \in 0 .. PageSlots
  BY <1>1 DEF RpageOK
<1>3. /\ w[0] = 0 /\ \A k \in 0 .. PageSlots : w[k] \in Nat
      /\ \A k \in 1 .. PageSlots : w[k] >= w[k - 1] + SlotTakes(p, k - 1)
      /\ W <= PageSize - p.end
  BY DEF UsedRoom
<1>4. \A k \in 0 .. n : g[k] \in Mids /\ g[k].end \in Int
  <2>1. \A k \in 0 .. n : g[k] \in Mids
    BY DEF MoveSteps
  <2> QED BY <2>1 DEF Mids
<1>5. W \in Nat /\ w[n] \in Nat /\ w[n] <= W
  <2>1. \A k \in 1 .. PageSlots : w[k] >= w[k - 1]
    <3> SUFFICES ASSUME NEW k \in 1 .. PageSlots PROVE w[k] >= w[k - 1]
      OBVIOUS
    <3>1. k \in 0 .. PageSlots /\ k - 1 \in 0 .. PageSlots /\ k - 1 \in SlotNumbers
      BY <1>1 DEF SlotNumbers
    <3>2. w[k] \in Nat /\ w[k - 1] \in Nat /\ SlotTakes(p, k - 1) \in Nat /\ w[k] >= w[k - 1] + SlotTakes(p, k - 1)
      BY <1>1, <1>3, <3>1
    <3> QED BY <3>2
  <2>2. \A j \in 0 .. PageSlots : n <= j => w[n] <= w[j]
    BY <1>1, <1>2, <1>3, <2>1, Ascends
  <2> QED BY <1>1, <1>2, <1>3, <2>2
<1> HIDE DEF n
<1>6. 0 \in P
  <2>1. g[0].end = PageSize
    <3>1. g[0] = [p EXCEPT !.end = PageSize]
      BY DEF MoveSteps
    <3> QED BY <1>2, <3>1 DEF Rpages
  <2>2. n - 0 = n /\ 0 \in 0 .. n
    BY <1>2
  <2> DEFINE a == w[n]
  <2>3. a \in Nat /\ a <= W
    BY <1>5
  <2> HIDE DEF a, W
  <2>4. PageSize <= PageSize /\ PageSize >= (PageSize - W) + a
    BY <1>1, <1>5, <2>3
  <2> QED BY <2>1, <2>2, <2>4 DEF a
<1>7. ASSUME NEW k \in 1 .. n, k - 1 \in P PROVE k \in P
  <2> DEFINE i == n - k
             t == SlotTakes(p, i)
             a == w[i]
             b == w[i + 1]
             x == g[k].end
             y == g[k - 1].end
  <2>1. i \in SlotNumbers /\ k \in 0 .. n /\ k - 1 \in 0 .. n /\ x = y - t
    BY MoveStep DEF n
  <2>2. i \in 0 .. PageSlots /\ i + 1 \in 1 .. PageSlots /\ i + 1 \in 0 .. PageSlots /\ (i + 1) - 1 = i /\ n - (k - 1) = i + 1
    BY <1>1, <1>2, <2>1 DEF SlotNumbers
  <2>3. a \in Nat /\ b \in Nat /\ b >= a + t /\ t \in Nat
    <3>1. w[i + 1] >= w[(i + 1) - 1] + SlotTakes(p, (i + 1) - 1)
      BY <1>3, <2>2
    <3> HIDE DEF i
    <3> QED BY <1>1, <1>3, <2>1, <2>2, <3>1
  <2>4. y <= PageSize /\ y >= (PageSize - W) + b /\ y \in Int
    BY <1>4, <1>7, <2>1, <2>2
  <2> HIDE DEF i, t, a, b, x, y, W
  <2>5. x <= PageSize /\ x >= (PageSize - W) + a
    BY <1>1, <1>5, <2>1, <2>3, <2>4
  <2> QED BY <2>1, <2>5 DEF a, i, x
<1>8. \A k \in 0 .. n : k \in P
  <2> HIDE DEF P
  <2> QED BY <1>2, <1>6, <1>7, InductionUpTo
<1>9. ASSUME NEW k \in 0 .. n PROVE g[k].end \in 0 .. PageSize /\ g[k].end >= (PageSize - W) + w[n - k]
  <2> DEFINE a == w[n - k]
             x == g[k].end
  <2>1. x \in Int /\ x <= PageSize /\ x >= (PageSize - W) + a
    BY <1>4, <1>8
  <2>2. a \in Nat
    <3>1. n - k \in 0 .. PageSlots
      BY <1>1, <1>2
    <3> QED BY <1>3, <3>1
  <2> HIDE DEF a, x, W
  <2>3. x \in 0 .. PageSize
    BY <1>1, <1>2, <1>3, <1>5, <2>1, <2>2
  <2> QED BY <2>1, <2>3 DEF a, x
<1> QED BY <1>9 DEF n

(* The slots moved so far lie above the free space, apart from each other. *)
MovedApart(p, q, m) ==
    /\ \A i \in Used(p) : i >= m => /\ q.slots[i].offset >= q.end
                                    /\ q.slots[i].offset + q.slots[i].length <= PageSize
    /\ \A i, j \in Used(p) : i >= m /\ j >= m /\ i # j =>
         \/ q.slots[i].offset + q.slots[i].length <= q.slots[j].offset
         \/ q.slots[j].offset + q.slots[j].length <= q.slots[i].offset

LEMMA AllMovedApart ==
    ASSUME NEW p, NEW kept, NEW crowded, RpageOK(p, kept, crowded), NEW g, MoveSteps(g, p)
    PROVE  \A k \in 0 .. p.num : MovedApart(p, g[k], p.num - k)
<1> DEFINE n == p.num
           P == { k \in 0 .. n : MovedApart(p, g[k], n - k) }
<1>1. /\ p.num \in 0 .. PageSlots /\ PageSize \in Nat /\ PageSlots \in Nat
      /\ Used(p) = {j \in SlotNumbers : p.slots[j].used}
      /\ \A j \in SlotNumbers : j \in Nat /\ p.slots[j].length \in Nat
  BY PlFacts
<1>2. n \in Nat /\ \A i \in Used(p) : i < n /\ i \in Nat /\ i \in SlotNumbers
  BY <1>1 DEF RpageOK
<1>3. \A k \in 0 .. n : MovedAlike(p, g[k])
  BY AllMovedAlike
<1>4. \A k \in 0 .. n : g[k].end \in 0 .. PageSize
  <2>1. \E w : UsedRoom(p, w)
    BY DEF RpageOK
  <2> QED BY <2>1, EndsAbove
<1>5. 0 \in P
  <2>1. \A i \in Used(p) : ~(i >= n - 0)
    BY <1>2
  <2>2. 0 \in 0 .. n
    BY <1>2
  <2> HIDE DEF n
  <2> QED BY <2>1, <2>2 DEF MovedApart
<1>6. ASSUME NEW k \in 1 .. n, k - 1 \in P PROVE k \in P
  <2> DEFINE u == n - k
             q == g[k - 1]
             r == g[k]
             t == SlotTakes(p, u)
  <2>1. /\ u \in SlotNumbers /\ k \in 0 .. n /\ k - 1 \in 0 .. n /\ r.end = q.end - t
        /\ \A j \in SlotNumbers : j # u => r.slots[j] = q.slots[j]
        /\ u \notin Used(p) => r = q
        /\ u \in Used(p) => r.slots[u].offset = r.end /\ t = p.slots[u].length
    BY MoveStep
  <2>2. MovedApart(p, q, u + 1)
    <3>1. n - (k - 1) = u + 1
      BY <1>2
    <3>2. MovedApart(p, q, n - (k - 1))
      BY <1>6
    <3> HIDE DEF n, q, u
    <3> QED BY <3>1, <3>2
  <2>3. q.end \in 0 .. PageSize /\ r.end \in 0 .. PageSize
    BY <1>4, <2>1
  <2>4. \A j \in SlotNumbers : r.slots[j].length = p.slots[j].length /\ q.slots[j].length = p.slots[j].length
    BY <1>3, <2>1 DEF MovedAlike
  <2>5. \A i \in Used(p) : i >= u <=> (i = u \/ i >= u + 1)
    BY <1>2
  <2>6. u \in Nat
    BY <1>1, <2>1
  <2>7. CASE u \notin Used(p)
    <3>1. \A i \in Used(p) : i >= u <=> i >= u + 1
      BY <2>5, <2>7
    <3> HIDE DEF u, q, r
    <3>2. MovedApart(p, r, u)
      BY <2>1, <2>2, <2>7, <3>1 DEF MovedApart
    <3> QED BY <2>1, <3>2 DEF u, r
  <2>8. CASE u \in Used(p)
    <3>1. r.slots[u].offset = r.end /\ r.slots[u].length = t /\ t \in Nat /\ r.end + t = q.end
      <4>1. r.slots[u].offset = r.end /\ r.slots[u].length = t /\ t \in Nat
        BY <1>1, <2>1, <2>4, <2>8
      <4> DEFINE x == r.end
                 y == q.end
      <4>2. x = y - t /\ x \in Int /\ y \in Int /\ t \in Int
        BY <2>1, <2>3, <4>1
      <4> HIDE DEF x, y, t
      <4>3. x + t = y
        BY <4>2
      <4> QED BY <4>1, <4>3 DEF x, y
    <3> HIDE DEF q, r, t, u
    <3>2. \A i \in Used(p) : i >= u + 1 => /\ r.slots[i] = q.slots[i]
                                           /\ r.slots[i].offset >= q.end
                                           /\ r.slots[i].offset + r.slots[i].length <= PageSize
      <4>1. \A i \in Used(p) : i >= u + 1 => i # u
        BY <1>2, <2>6
      <4> QED BY <1>2, <2>1, <2>2, <4>1 DEF MovedApart
    <3>3. \A i \in Used(p) : i >= u => /\ r.slots[i].offset >= r.end
                                       /\ r.slots[i].offset + r.slots[i].length <= PageSize
      <4> SUFFICES ASSUME NEW i \in Used(p), i >= u
                   PROVE  r.slots[i].offset >= r.end /\ r.slots[i].offset + r.slots[i].length <= PageSize
        OBVIOUS
      <4>1. CASE i = u
        BY <2>3, <3>1, <4>1
      <4>2. CASE i # u
        <5>1. i >= u + 1
          BY <2>5, <4>2
        <5> DEFINE o == r.slots[i].offset
        <5>2. o >= q.end /\ r.slots[i].offset + r.slots[i].length <= PageSize
          BY <3>2, <5>1
        <5>3. o \in Int
          <6>1. r \in Mids /\ i \in SlotNumbers
            BY <1>2, <2>1, MoveStep DEF r
          <6>2. r.slots[i] \in MovedSlots
            BY <6>1 DEF Mids
          <6> QED BY <6>2 DEF MovedSlots
        <5>4. q.end \in Int /\ r.end \in Int /\ q.end >= r.end
          BY <2>3, <3>1
        <5> HIDE DEF o
        <5>5. o >= r.end
          BY <5>2, <5>3, <5>4
        <5> QED BY <5>2, <5>5 DEF o
      <4> QED BY <4>1, <4>2
    <3>4. \A i \in Used(p) : i >= u + 1 => r.slots[u].offset + r.slots[u].length <= r.slots[i].offset
      BY <3>1, <3>2
    <3>5. \A i, j \in Used(p) : i >= u + 1 /\ j >= u + 1 /\ i # j =>
             \/ r.slots[i].offset + r.slots[i].length <= r.slots[j].offset
             \/ r.slots[j].offset + r.slots[j].length <= r.slots[i].offset
      BY <2>2, <3>2 DEF MovedApart
    <3>6. \A i, j \in Used(p) : i >= u /\ j >= u /\ i # j =>
             \/ r.slots[i].offset + r.slots[i].length <= r.slots[j].offset
             \/ r.slots[j].offset + r.slots[j].length <= r.slots[i].offset
      BY <2>5, <3>4, <3>5
    <3>7. MovedApart(p, r, u)
      BY <3>3, <3>6 DEF MovedApart
    <3> QED BY <2>1, <3>7 DEF u, r
  <2> QED BY <2>7, <2>8
<1>7. \A k \in 0 .. n : k \in P
  <2> HIDE DEF P
  <2> QED BY <1>2, <1>5, <1>6, InductionUpTo
<1> QED BY <1>7

(* A single tuple keeps its bytes.                                         *)
LoneKept(p, u, q, m) == /\ u < m => q.data = p.data
                        /\ u >= m => Reading(q.data, q.slots[u]) = Reading(p.data, p.slots[u])

LEMMA LoneMoves ==
    ASSUME NEW p, NEW kept, NEW crowded, RpageOK(p, kept, crowded), NEW g, MoveSteps(g, p),
           NEW u \in SlotNumbers, Used(p) = {u}
    PROVE  \A k \in 0 .. p.num : LoneKept(p, u, g[k], p.num - k)
<1> DEFINE n == p.num
           P == { k \in 0 .. n : LoneKept(p, u, g[k], n - k) }
<1>1. /\ p.num \in 0 .. PageSlots /\ p.data \in Datas /\ PageSize \in Nat /\ PageSlots \in Nat
      /\ \A j \in SlotNumbers : j \in Nat /\ p.slots[j].offset \in Nat /\ p.slots[j].length \in Nat
      /\ \A j \in Used(p) : p.slots[j].offset + p.slots[j].length <= PageSize
  BY PlFacts
<1>2. n \in Nat /\ u < n /\ u \in Nat /\ p \in Rpages
  BY <1>1 DEF RpageOK, Used
<1>3. \A k \in 0 .. n : g[k].end \in 0 .. PageSize
  <2>1. \E w : UsedRoom(p, w)
    BY DEF RpageOK
  <2> QED BY <2>1, EndsAbove
<1>4. 0 \in P
  <2>1. g[0].data = p.data
    <3>1. g[0] = [p EXCEPT !.end = PageSize]
      BY DEF MoveSteps
    <3> QED BY <1>2, <3>1 DEF Rpages
  <2>2. u < n - 0 /\ ~(u >= n - 0) /\ 0 \in 0 .. n
    BY <1>2
  <2> HIDE DEF n
  <2> QED BY <2>1, <2>2 DEF LoneKept
<1>5. ASSUME NEW k \in 1 .. n, k - 1 \in P PROVE k \in P
  <2> DEFINE i == n - k
             q == g[k - 1]
             r == g[k]
             o == r.end
             m == p.slots[u].length
  <2>1. /\ k \in 0 .. n /\ i \in SlotNumbers /\ q \in Mids /\ r.end = q.end - SlotTakes(p, i)
        /\ r.slots[i].length = q.slots[i].length
        /\ i \notin Used(p) => r = q
        /\ i \in Used(p) => /\ r.slots[i].offset = o
                            /\ SlotTakes(p, i) = p.slots[i].length
                            /\ r.data = Written(q.data, o, Reading(q.data, p.slots[i]))
    BY MoveStep
  <2>2. LoneKept(p, u, q, i + 1) /\ i \in Nat
    <3>1. n - (k - 1) = i + 1
      BY <1>2
    <3>2. LoneKept(p, u, q, n - (k - 1))
      BY <1>5
    <3>3. i \in Nat
      BY <1>1, <2>1
    <3> HIDE DEF n, q, i
    <3> QED BY <3>1, <3>2, <3>3
  <2>3. CASE i # u
    <3>1. r = q
      BY <2>1, <2>3
    <3>2. (u < i <=> u < i + 1) /\ (u >= i <=> u >= i + 1)
      BY <1>2, <2>2, <2>3
    <3> HIDE DEF i, q, r
    <3>3. LoneKept(p, u, r, i)
      BY <2>2, <3>1, <3>2 DEF LoneKept
    <3> QED BY <2>1, <3>3 DEF r, i
  <2>4. CASE i = u
    <3>1. q.data = p.data
      <4>1. u < u + 1
        BY <1>2
      <4> HIDE DEF q, i
      <4> QED BY <2>2, <2>4, <4>1 DEF LoneKept
    <3>2. r.slots[u].offset = o /\ r.slots[u].length = m /\ r.data = Written(p.data, o, Reading(p.data, p.slots[u]))
      <4>1. i \in Used(p)
        BY <2>4
      <4>2. MovedAlike(p, r)
        BY <2>1, AllMovedAlike
      <4> HIDE DEF q, r, i
      <4> QED BY <2>1, <2>4, <3>1, <4>1, <4>2 DEF MovedAlike
    <3>3. Reading(p.data, p.slots[u]) \in Seq(Cells) /\ Len(Reading(p.data, p.slots[u])) = m /\ m \in Nat
      BY <1>1, ReadingIs
    <3>4. o \in Nat /\ o + m <= PageSize
      <4>1. o \in 0 .. PageSize
        BY <1>3, <2>1
      <4>2. q.end \in 0 .. PageSize
        <5>1. k - 1 \in 0 .. n
          BY <1>2
        <5> QED BY <1>3, <5>1
      <4>3. o = q.end - m
        BY <2>1, <2>4
      <4> DEFINE y == q.end
      <4> HIDE DEF o, y, m
      <4>4. o + m <= PageSize
        BY <1>1, <3>3, <4>1, <4>2, <4>3 DEF y
      <4> QED BY <4>1, <4>4
    <3> DEFINE b == Reading(p.data, p.slots[u])
               s == r.slots[u]
    <3>5. b \in Seq(Cells) /\ Len(b) = m /\ s.offset = o /\ s.length = Len(b) /\ o + Len(b) <= PageSize
      BY <3>2, <3>3, <3>4
    <3> HIDE DEF b, s, o
    <3>6. Reading(Written(p.data, o, b), s) = b
      BY <1>1, <3>4, <3>5, ReadWritten, SMTT(60)
    <3>7. Reading(r.data, r.slots[u]) = Reading(p.data, p.slots[u])
      BY <3>2, <3>6 DEF b, s
    <3>8. ~(u < u) /\ u >= u
      BY <1>2
    <3> HIDE DEF r, i
    <3>9. LoneKept(p, u, r, i)
      BY <2>4, <3>7, <3>8 DEF LoneKept
    <3> QED BY <2>1, <3>9 DEF r, i
  <2> QED BY <2>3, <2>4
<1>6. \A k \in 0 .. n : k \in P
  <2> HIDE DEF P
  <2> QED BY <1>2, <1>4, <1>5, InductionUpTo
<1> QED BY <1>6

(* What is needed after the move is what was needed before.                *)
LEMMA RoomMoves ==
    ASSUME NEW p, NEW kept, NEW crowded, RpageOK(p, kept, crowded), NEW g, MoveSteps(g, p),
           NEW q, q = g[p.num]
    PROVE  \E v : UsedRoom(q, v)
<1> DEFINE n == p.num
           z == q.end
           e(k) == g[k].end
           v == [j \in 0 .. PageSlots |-> IF j <= n THEN e(n - j) - z ELSE PageSize - z]
<1>1. /\ n \in 0 .. PageSlots /\ PageSize \in Nat /\ PageSlots \in Nat
      /\ Used(p) = {j \in SlotNumbers : p.slots[j].used}
      /\ \A j \in SlotNumbers : j \in Nat /\ SlotTakes(p, j) \in Nat
  BY PlFacts
<1>2. n \in Nat /\ n \in 0 .. n /\ 0 \in 0 .. n /\ n <= PageSlots /\ p \in Rpages
  BY <1>1 DEF RpageOK
<1>3. \A k \in 0 .. n : e(k) \in 0 .. PageSize
  <2>1. \E w : UsedRoom(p, w)
    BY DEF RpageOK
  <2> QED BY <2>1, EndsAbove
<1>4. \A k \in 1 .. n : e(k) = e(k - 1) - SlotTakes(p, n - k) /\ n - k \in SlotNumbers
  BY MoveStep
<1>5. e(0) = PageSize
  <2>1. g[0] = [p EXCEPT !.end = PageSize]
    BY DEF MoveSteps
  <2> QED BY <1>2, <2>1 DEF Rpages
<1>6. e(n) = z /\ z \in 0 .. PageSize
  BY <1>2, <1>3
<1>7. \A j \in SlotNumbers : SlotTakes(q, j) = SlotTakes(p, j)
  <2>1. MovedAlike(p, q)
    BY <1>2, AllMovedAlike
  <2> QED BY <2>1 DEF MovedAlike, SlotTakes
<1>8. \A j \in 0 .. PageSlots : v[j] = IF j <= n THEN e(n - j) - z ELSE PageSize - z
  OBVIOUS
<1> HIDE DEF n, z, e, v
<1>9. ASSUME NEW i \in SlotNumbers
      PROVE  /\ i \in 0 .. PageSlots /\ i + 1 \in 0 .. PageSlots
             /\ v[i + 1] = v[i] + (IF i < n THEN SlotTakes(p, i) ELSE 0)
  <2>0. i \in 0 .. PageSlots /\ i + 1 \in 0 .. PageSlots /\ i \in Nat
    BY <1>1 DEF SlotNumbers
  <2>1. CASE i < n
    <3> DEFINE k == n - i
    <3>1. k \in 1 .. n /\ n - k = i /\ k - 1 = n - (i + 1) /\ i <= n /\ i + 1 <= n /\ k \in 0 .. n /\ k - 1 \in 0 .. n
      BY <1>2, <2>0, <2>1
    <3>2. v[i] = e(k) - z /\ v[i + 1] = e(k - 1) - z
      BY <1>8, <2>0, <3>1
    <3>3. e(k) = e(k - 1) - SlotTakes(p, i)
      BY <1>4, <3>1
    <3> DEFINE x == e(k)
               y == e(k - 1)
               t == SlotTakes(p, i)
    <3>4. x \in Int /\ y \in Int /\ t \in Int /\ z \in Int
      BY <1>1, <1>3, <1>6, <3>1
    <3>5. x = y - t
      BY <3>3
    <3> HIDE DEF x, y, t, k
    <3>6. y - z = (x - z) + t
      BY <3>4, <3>5
    <3> QED BY <2>0, <2>1, <3>2, <3>6 DEF x, y, t
  <2>2. CASE ~(i < n)
    <3>1. ~(i + 1 <= n) /\ (i <= n => i = n)
      BY <1>2, <2>0, <2>2
    <3>2. v[i + 1] = PageSize - z
      BY <1>8, <2>0, <3>1
    <3>3. v[i] = PageSize - z
      <4>1. CASE i <= n
        <5>1. n - i = 0
          BY <1>2, <3>1, <4>1
        <5> QED BY <1>5, <1>8, <2>0, <4>1, <5>1
      <4>2. CASE ~(i <= n)
        BY <1>8, <2>0, <4>2
      <4> QED BY <4>1, <4>2
    <3>4. PageSize - z = (PageSize - z) + 0
      BY <1>1, <1>6
    <3> QED BY <2>0, <2>2, <3>2, <3>3, <3>4
  <2> QED BY <2>1, <2>2
<1>10. v[0] = 0
  <2>1. v[0] = e(n - 0) - z
    BY <1>1, <1>2, <1>8
  <2>2. n - 0 = n
    BY <1>2
  <2>3. z - z = 0
    BY <1>6
  <2> QED BY <1>6, <2>1, <2>2, <2>3
<1>11. \A j \in 0 .. PageSlots : v[j] \in Nat
  <2> DEFINE P == { j \in 0 .. PageSlots : v[j] \in Nat }
  <2>1. 0 \in P
    BY <1>1, <1>10
  <2>2. ASSUME NEW j \in 1 .. PageSlots, j - 1 \in P PROVE j \in P
    <3>1. j - 1 \in SlotNumbers /\ (j - 1) + 1 = j /\ j \in 0 .. PageSlots
      BY <1>1 DEF SlotNumbers
    <3>2. v[j] = v[j - 1] + (IF j - 1 < n THEN SlotTakes(p, j - 1) ELSE 0)
      BY <1>9, <3>1
    <3>3. (IF j - 1 < n THEN SlotTakes(p, j - 1) ELSE 0) \in Nat /\ v[j - 1] \in Nat
      BY <1>1, <2>2, <3>1
    <3> HIDE DEF v
    <3> QED BY <3>1, <3>2, <3>3
  <2>3. \A j \in 0 .. PageSlots : j \in P
    <3> HIDE DEF P
    <3> QED BY <1>1, <2>1, <2>2, InductionUpTo
  <2> QED BY <2>3
<1>12. ASSUME NEW k \in 1 .. PageSlots PROVE v[k] >= v[k - 1] + SlotTakes(q, k - 1)
  <2> DEFINE i == k - 1
             t == SlotTakes(p, i)
             a == v[k]
             b == v[i]
  <2>1. i \in SlotNumbers /\ i + 1 = k /\ k \in 0 .. PageSlots /\ i \in 0 .. PageSlots
    BY <1>1 DEF SlotNumbers
  <2>2. a = b + (IF i < n THEN t ELSE 0)
    BY <1>9, <2>1
  <2>3. ~(i < n) => t = 0
    <3>1. ~(i < n) => ~p.slots[i].used
      BY <2>1 DEF RpageOK, n
    <3> QED BY <3>1 DEF SlotTakes
  <2>4. a \in Nat /\ b \in Nat /\ t \in Nat
    BY <1>1, <1>11, <2>1
  <2>5. SlotTakes(q, i) = t
    BY <1>7, <2>1
  <2> HIDE DEF a, b, t, i
  <2>6. a >= b + t
    BY <2>2, <2>3, <2>4
  <2> QED BY <2>5, <2>6 DEF a, b, i
<1>13. v[PageSlots] <= PageSize - z
  <2>1. PageSlots \in 0 .. PageSlots
    BY <1>1
  <2>2. v[PageSlots] = PageSize - z
    <3>1. CASE PageSlots <= n
      <4>1. PageSlots = n /\ n - n = 0
        BY <1>1, <1>2, <3>1
      <4> QED BY <1>5, <1>8, <2>1, <3>1, <4>1
    <3>2. CASE ~(PageSlots <= n)
      BY <1>8, <2>1, <3>2
    <3> QED BY <3>1, <3>2
  <2>3. PageSize - z <= PageSize - z
    BY <1>1, <1>6
  <2> QED BY <2>2, <2>3
<1>14. UsedRoom(q, v)
  BY <1>10, <1>11, <1>12, <1>13 DEF UsedRoom, z
<1> QED BY <1>14

LEMMA NewRpageOK ==
    ASSUME NEW kept \in [SlotNumbers -> Seq(Cells)], NEW crowded \in BOOLEAN,
           ~crowded => \A i \in SlotNumbers : kept[i] = <<>>
    PROVE  RpageOK(NewRpage, kept, crowded)
<1> DEFINE slots == [i \in SlotNumbers |-> [offset |-> 0, length |-> 0, used |-> FALSE]]
<1>1. NewRpage = [num |-> 0, start |-> PageHeader, end |-> PageSize, data |-> Blank, slots |-> slots]
  BY DEF NewRpage
<1>2. slots \in [SlotNumbers -> UsedSlots] /\ \A i \in SlotNumbers : ~slots[i].used
  BY DEF UsedSlots
<1> HIDE DEF slots
<1>3. PageHeader \in Nat /\ PageSize \in 0 .. PageSize /\ 0 \in 0 .. PageSlots /\ PageSize \in Nat /\ PageSlots \in Nat
  BY PagesAssumption
<1>4. NewRpage \in Rpages /\ NewRpage.slots = slots /\ NewRpage.end = PageSize /\ NewRpage.num = 0
  BY <1>1, <1>2, <1>3, BlankOK DEF Rpages
<1>5. Used(NewRpage) = {}
  BY <1>2, <1>4 DEF Used
<1>6. \E w : UsedRoom(NewRpage, w)
  <2> DEFINE w == [k \in 0 .. PageSlots |-> 0]
  <2>1. \A k \in 0 .. PageSlots : w[k] = 0
    OBVIOUS
  <2> HIDE DEF w
  <2>2. ASSUME NEW k \in 1 .. PageSlots PROVE w[k] >= w[k - 1] + SlotTakes(NewRpage, k - 1)
    <3>1. k \in 0 .. PageSlots /\ k - 1 \in 0 .. PageSlots /\ k - 1 \in SlotNumbers
      BY <1>3 DEF SlotNumbers
    <3>2. SlotTakes(NewRpage, k - 1) = 0
      BY <1>2, <1>4, <3>1 DEF SlotTakes
    <3> QED BY <2>1, <3>1, <3>2
  <2>3. w[0] = 0 /\ w[PageSlots] = 0 /\ 0 <= PageSize - PageSize
    BY <1>3, <2>1
  <2> QED BY <1>4, <2>1, <2>2, <2>3 DEF UsedRoom
<1> QED BY <1>2, <1>4, <1>5, <1>6 DEF RpageOK, Apart

(* pl_compact: the tuples end up apart; a single one keeps its bytes.      *)
LEMMA PlCompactKeepsPage ==
    ASSUME NEW p, NEW kept, NEW crowded, RpageOK(p, kept, crowded),
           NEW c \in BOOLEAN, c <=> (crowded \/ Cardinality(Used(p)) > 1)
    PROVE  RpageOK(PlCompacted(p), kept, c)
<1>1. /\ kept \in [SlotNumbers -> Seq(Cells)] /\ crowded \in BOOLEAN /\ p \in Rpages
      /\ \A i \in SlotNumbers : p.slots[i].used => i < p.num
      /\ ~crowded => \A i \in SlotNumbers :
           kept[i] = IF i \in Used(p) THEN Reading(p.data, p.slots[i]) ELSE <<>>
  BY DEF RpageOK
<1>2. CASE Used(p) = {}
  <2>1. PlCompacted(p) = NewRpage
    BY <1>2 DEF PlCompacted
  <2>2. ~c => \A i \in SlotNumbers : kept[i] = <<>>
    BY <1>1, <1>2
  <2> QED BY <1>1, <2>1, <2>2, NewRpageOK
<1>3. CASE Used(p) # {}
  <2> DEFINE q == PlCompacted(p)
             n == p.num
  <2>1. q = PlMoved(p)
    BY <1>3 DEF PlCompacted
  <2>2. PICK g : MoveSteps(g, p) /\ q = g[n]
    BY <2>1, MovedSteps
  <2> HIDE DEF q
  <2>3. /\ n \in 0 .. PageSlots /\ PageSize \in Nat /\ PageSlots \in Nat
        /\ Used(p) = {j \in SlotNumbers : p.slots[j].used}
        /\ \A j \in SlotNumbers : j \in Nat
        /\ p.slots \in [SlotNumbers -> UsedSlots]
        /\ \A j \in SlotNumbers : p.slots[j].used \in BOOLEAN /\ p.slots[j].length \in Nat
    BY PlFacts
  <2>4. n \in Nat /\ n \in 0 .. n /\ n - n = 0
    BY <2>3
  <2>5. q \in Mids /\ MovedAlike(p, q)
    BY <2>2, <2>4, AllMovedAlike DEF MoveSteps
  <2>6. q.end \in 0 .. PageSize
    <3>1. \E w : UsedRoom(p, w)
      BY DEF RpageOK
    <3> QED BY <2>2, <2>4, <3>1, EndsAbove
  <2>7. MovedApart(p, q, 0)
    <3>1. MovedApart(p, g[n], n - n)
      BY <2>2, <2>4, AllMovedApart
    <3> HIDE DEF n
    <3> QED BY <2>2, <2>4, <3>1
  <2>8. \E w : UsedRoom(q, w)
    BY <2>2, RoomMoves
  <2>9. /\ q.num = n /\ q.start = p.start
        /\ \A i \in SlotNumbers : /\ q.slots[i].length = p.slots[i].length
                                  /\ q.slots[i].used = p.slots[i].used
        /\ \A i \in SlotNumbers : i \notin Used(p) => q.slots[i] = p.slots[i]
    BY <2>5 DEF MovedAlike
  <2>10. Used(q) = Used(p)
    BY <2>9 DEF Used
  <2>11. \A i \in Used(p) : i \in SlotNumbers /\ i >= 0
    BY <2>3
  <2>12. Apart(q, Used(q))
    BY <2>7, <2>10, <2>11 DEF Apart, MovedApart
  <2>13. ASSUME NEW i \in SlotNumbers PROVE q.slots[i] \in UsedSlots
    <3>1. CASE i \notin Used(p)
      BY <2>3, <2>9, <3>1
    <3>2. CASE i \in Used(p)
      <4>1. q.slots[i] \in MovedSlots
        BY <2>5 DEF Mids
      <4>2. q.slots[i].offset >= q.end
        BY <2>7, <2>11, <3>2 DEF MovedApart
      <4> DEFINE e == q.slots[i]
      <4>3. e \in MovedSlots /\ e.offset >= q.end
        BY <4>1, <4>2
      <4> HIDE DEF e
      <4>4. e.offset \in Nat
        <5>1. e.offset \in Int
          BY <4>3 DEF MovedSlots
        <5> QED BY <2>3, <2>6, <4>3, <5>1
      <4>5. e \in UsedSlots
        BY <4>3, <4>4 DEF MovedSlots, UsedSlots
      <4> QED BY <4>5 DEF e
    <3> QED BY <3>1, <3>2
  <2>14. q \in Rpages
    <3>1. q.slots \in [SlotNumbers -> UsedSlots]
      <4>1. q.slots \in [SlotNumbers -> MovedSlots]
        BY <2>5 DEF Mids
      <4> QED BY <2>13, <4>1
    <3> QED BY <2>5, <2>6, <3>1 DEF Mids, Rpages
  <2>15. ASSUME ~c
         PROVE  \A i \in SlotNumbers : kept[i] = IF i \in Used(q) THEN Reading(q.data, q.slots[i]) ELSE <<>>
    <3>1. ~crowded /\ ~(Cardinality(Used(p)) > 1)
      BY <2>15
    <3>2. PICK u \in Used(p) : TRUE
      BY <1>3
    <3>3. Used(p) = {u}
      <4>1. IsFiniteSet(Used(p))
        <5>1. 0 \in Int /\ PageSlots - 1 \in Int
          BY <2>3
        <5>2. IsFiniteSet(0 .. PageSlots - 1)
          BY <5>1, FS_Interval
        <5>3. Used(p) \subseteq 0 .. PageSlots - 1
          BY <2>11 DEF SlotNumbers
        <5> QED BY <5>2, <5>3, FS_Subset
      <4>2. SUFFICES ASSUME NEW v \in Used(p), v # u PROVE FALSE
        BY <3>2
      <4>3. {u, v} \subseteq Used(p)
        BY <3>2
      <4>4. Cardinality({u, v}) <= Cardinality(Used(p)) /\ Cardinality({u, v}) \in Nat /\ Cardinality(Used(p)) \in Nat
        <5>1. IsFiniteSet({u, v})
          BY <4>1, <4>3, FS_Subset
        <5> QED BY <4>1, <4>3, <5>1, FS_Subset, FS_CardinalityType
      <4>5. Cardinality({u, v}) = 2
        <5>1. Cardinality({u}) = 1 /\ IsFiniteSet({u})
          BY FS_Singleton
        <5>2. {u, v} = {u} \cup {v} /\ v \notin {u}
          BY <4>2
        <5>3. Cardinality({u} \cup {v}) = Cardinality({u}) + 1
          BY <5>1, <5>2, FS_AddElement
        <5> QED BY <5>1, <5>2, <5>3
      <4> QED BY <3>1, <4>4, <4>5
    <3>4. u \in SlotNumbers
      BY <2>11
    <3>5. LoneKept(p, u, q, 0)
      <4>1. LoneKept(p, u, g[n], n - n)
        BY <2>2, <2>4, <3>3, <3>4, LoneMoves
      <4> HIDE DEF n
      <4> QED BY <2>2, <2>4, <4>1
    <3>6. Reading(q.data, q.slots[u]) = Reading(p.data, p.slots[u])
      BY <2>11, <3>5 DEF LoneKept
    <3> QED BY <1>1, <2>10, <3>1, <3>3, <3>6
  <2>16. RpageOK(q, kept, c)
    BY <1>1, <2>8, <2>9, <2>12, <2>14, <2>15 DEF RpageOK
  <2> QED BY <2>16 DEF q
<1> QED BY <1>2, <1>3

RpageOf(p, kept, c, crowded) ==
  [kind |-> "rpage", page |-> p, calls |-> c, crowded |-> crowded, kept |-> kept]
SomeRpage == \E p, kept, c, crowded : handle = RpageOf(p, kept, c, crowded) /\ RpageOK(p, kept, crowded)

LEMMA FirstRpageOK ==
    ASSUME handle = [kind |-> "rpage", page |-> NewRpage, calls |-> 0, crowded |-> FALSE,
                     kept |-> [i \in SlotNumbers |-> <<>>]]
    PROVE  SomeRpage
<1> DEFINE kept == [i \in SlotNumbers |-> <<>>]
<1>1. kept \in [SlotNumbers -> Seq(Cells)] /\ \A i \in SlotNumbers : kept[i] = <<>>
  <2>1. <<>> \in Seq(Cells)
    OBVIOUS
  <2> QED BY <2>1
<1>2. handle = RpageOf(NewRpage, kept, 0, FALSE)
  BY DEF RpageOf
<1> HIDE DEF kept
<1>3. RpageOK(NewRpage, kept, FALSE)
  BY <1>1, NewRpageOK
<1> QED BY <1>2, <1>3 DEF SomeRpage

LEMMA PlChangeKeeps ==
    ASSUME NEW p, NEW kept, NEW c, NEW crowded, handle = RpageOf(p, kept, c, crowded),
           NEW q, NEW told, RpageOK(q, told, crowded), PlChange(q, told)
    PROVE  SomeRpage'
<1>1. handle' = RpageOf(q, told, c + 1, crowded)
  BY DEF PlChange, RpageOf
<1> QED BY <1>1 DEF SomeRpage

(* Every call on a page of the relational library.                         *)
LEMMA RpageKeeps == SomeRpage /\ PlNext => SomeRpage'
<1> SUFFICES ASSUME SomeRpage, PlNext PROVE SomeRpage'
  OBVIOUS
<1>1. PICK p, kept, c, crowded : handle = RpageOf(p, kept, c, crowded) /\ RpageOK(p, kept, crowded)
  BY DEF SomeRpage
<1>2. handle.page = p /\ handle.kept = kept /\ handle.crowded = crowded /\ handle.calls = c
  BY <1>1 DEF RpageOf
<1>3. ASSUME NEW b \in TupleBytes, PlInsert(b) PROVE SomeRpage'
  <2>1. PICK i \in Unused(p) :
          /\ \A j \in Unused(p) : i <= j
          /\ p.num < PageSlots /\ Len(b) <= SpaceLeft(p)
          /\ PlChange(PlStored(p, i, b), [kept EXCEPT ![i] = b])
    BY <1>2, <1>3 DEF PlInsert
  <2>2. RpageOK(PlStored(p, i, b), [kept EXCEPT ![i] = b], crowded)
    BY <1>1, <2>1, TupleIs, PlStoreKeeps
  <2> QED BY <1>1, <2>1, <2>2, PlChangeKeeps
<1>4. ASSUME NEW i \in SlotNumbers, PlDelete(i) PROVE SomeRpage'
  <2> DEFINE q == [p EXCEPT !.slots[i].used = FALSE]
             told == [kept EXCEPT ![i] = <<>>]
  <2>1. i \in Used(p) /\ PlChange(q, told)
    BY <1>2, <1>4 DEF PlDelete
  <2>2. RpageOK(q, told, crowded)
    BY <1>1, <2>1, PlDropKeeps
  <2> HIDE DEF q, told
  <2> QED BY <1>1, <2>1, <2>2, PlChangeKeeps
<1>5. CASE PlCompact
  <2> DEFINE x == crowded \/ Cardinality(Used(p)) > 1
             q == PlCompacted(p)
  <2>1. handle' = [handle EXCEPT !.page = q, !.calls = @ + 1, !.crowded = x]
    BY <1>2, <1>5 DEF PlCompact
  <2>2. x \in BOOLEAN /\ (x <=> (crowded \/ Cardinality(Used(p)) > 1))
    OBVIOUS
  <2> HIDE DEF x
  <2>3. RpageOK(q, kept, x)
    <3>1. RpageOK(p, kept, crowded)
      BY <1>1
    <3> QED BY <2>2, <3>1, PlCompactKeepsPage
  <2> HIDE DEF q
  <2>4. handle' = RpageOf(q, kept, c + 1, x)
    BY <1>1, <2>1 DEF RpageOf
  <2> QED BY <2>3, <2>4 DEF SomeRpage
<1> QED BY <1>3, <1>4, <1>5 DEF PlNext

(* What a page of the relational library tells.                            *)
LEMMA RpageTells == SomeRpage => PageKeepsTuples
<1> SUFFICES ASSUME SomeRpage PROVE PageKeepsTuples
  OBVIOUS
<1>1. PICK p, kept, c, crowded : handle = RpageOf(p, kept, c, crowded) /\ RpageOK(p, kept, crowded)
  BY DEF SomeRpage
<1>2. handle.page = p /\ handle.kept = kept /\ handle.crowded = crowded /\ handle.kind = "rpage"
  BY <1>1 DEF RpageOf
<1> QED BY <1>1, <1>2 DEF PageKeepsTuples, RpageOK, Holding

(* Slotted pages and pools do not meet.                                    *)
LEMMA PoolIsNoPage == PoolOrDisk => PageKeepsTuples
  BY DEF PoolOrDisk, SomePool, SomeDisk, PoolOf, DiskOf, PageKeepsTuples, Holding

LEMMA PageIsNoPool == SomeSpage \/ SomeRpage => PoolFindsPages
  BY DEF SomeSpage, SomeRpage, SpageOf, RpageOf, PoolFindsPages, Holding

PagesOK == SomeSpage \/ SomeRpage \/ PoolOrDisk

LEMMA PagesStay == PagesOK /\ UNCHANGED handle => PagesOK'
  BY DEF PagesOK, SomeSpage, SomeRpage, PoolOrDisk, SomePool, SomeDisk

(* Whatever was inserted, shrunk in place, moved by an update or by a      *)
(* compaction in the middle of an insertion, each live slot of a kernel    *)
(* page reads the bytes last stored under its number, and no two tuples    *)
(* share bytes; a relational page keeps its tuples so until pl_compact     *)
(* meets more than one, and even then no two share bytes.  And the pool of *)
(* the kernel finds its pages and a disk reads back what was written       *)
(* (PoolFindsPagesHolds).                                                  *)
THEOREM PagesKeptHolds ==
    (PagesInit \/ KernelPoolInit) /\ [][PagesNext \/ KernelPoolNext]_handle => []PagesKept
<1>1. PagesInit \/ KernelPoolInit => PagesOK
  <2>1. PagesInit => SomeSpage \/ SomeRpage
    BY NewSpageOK, FirstRpageOK DEF PagesInit
  <2> QED BY <2>1, NewPoolOK DEF PagesOK
<1>2. PagesOK /\ [PagesNext \/ KernelPoolNext]_handle => PagesOK'
  <2> SUFFICES ASSUME PagesOK, [PagesNext \/ KernelPoolNext]_handle PROVE PagesOK'
    OBVIOUS
  <2>1. CASE UNCHANGED handle
    BY <2>1, PagesStay
  <2>2. CASE SpNext
    <3>1. SomeSpage
      BY <2>2 DEF PagesOK, SpNext, Holding, SomeRpage, RpageOf, PoolOrDisk, SomePool, PoolOf, SomeDisk, DiskOf
    <3> QED BY <2>2, <3>1, SpageKeeps DEF PagesOK
  <2>3. CASE PlNext
    <3>1. SomeRpage
      BY <2>3 DEF PagesOK, PlNext, Holding, SomeSpage, SpageOf, PoolOrDisk, SomePool, PoolOf, SomeDisk, DiskOf
    <3> QED BY <2>3, <3>1, RpageKeeps DEF PagesOK
  <2>4. CASE KernelPoolNext
    <3>1. PoolOrDisk
      BY <2>4 DEF PagesOK, KernelPoolNext, KpNext, DmNext, Holding, SomeSpage, SpageOf, SomeRpage, RpageOf
    <3> QED BY <2>4, <3>1, PoolOrDiskNext DEF PagesOK
  <2> QED BY <2>1, <2>2, <2>3, <2>4 DEF PagesNext
<1>3. PagesOK => PagesKept
  BY SpageTells, RpageTells, PoolFinds, PoolIsNoPage, PageIsNoPool DEF PagesOK, PagesKept
<1> QED BY <1>1, <1>2, <1>3, PTL

-----------------------------------------------------------------------------
(***************************************************************************)
(* The block cache of mini-file-storage.                                   *)
(***************************************************************************)
(* The links of the block cache.                                           *)
BlockFields == {"kind", "head", "tail", "size", "prev", "next", "data", "chain", "used", "last"}
BlockShape(c) == c = [f \in BlockFields |-> c[f]]

(* Two caches that differ in their links at most.                          *)
SameContent(d, c) ==
    /\ d.kind = c.kind /\ d.size = c.size /\ d.data = c.data /\ d.chain = c.chain
    /\ d.used = c.used /\ d.last = c.last

(* The links are those of a list of entries, D those that have links.      *)
LinksOK(c, s, D) ==
    /\ Linked(c, s) /\ ToSet(s) \subseteq D
    /\ c.next = [k \in D |-> c.next[k]] /\ c.prev = [k \in D |-> c.prev[k]]

LEMMA Beside ==
    ASSUME NEW n \in Nat, NEW p \in 1 .. n
    PROVE  /\ p - 1 \in Int /\ p + 1 \in Int
           /\ p - 1 \in 1 .. n <=> p # 1
           /\ p + 1 \in 1 .. n <=> p # n
OBVIOUS

(* The list without one entry.                                             *)
LEMMA DetachIs ==
    ASSUME NEW c, BlockShape(c), NEW s \in Seq(BlockKeys), Distinct(s), NEW D, LinksOK(c, s, D),
           NEW p \in 1 .. Len(s)
    PROVE  /\ BlockShape(Detach(c, s[p])) /\ SameContent(Detach(c, s[p]), c)
           /\ LinksOK(Detach(c, s[p]), RemoveAt(s, p), D)
<1> DEFINE n == Len(s)
           e == s[p]
           b == c.prev[e]
           a == c.next[e]
           d == Detach(c, e)
           r == RemoveAt(s, p)
           m == Len(r)
<1>1. n \in Nat /\ DOMAIN s = 1 .. n /\ p \in 1 .. n /\ \A i \in 1 .. n : s[i] \in BlockKeys
  OBVIOUS
<1>2. \A i \in 1 .. n : s[i] # None /\ s[i] \in D
  <2>1. ToSet(s) = {s[i] : i \in 1 .. n}
    BY PrecedesIs
  <2> QED BY <1>1, <2>1, CacheAssumption DEF LinksOK, None
<1>3. \A i, j \in 1 .. n : s[i] = s[j] => i = j
  BY DEF Distinct
<1>4. /\ c.head = Nth(s, 1) /\ c.tail = Nth(s, n)
      /\ \A i \in 1 .. n : c.next[s[i]] = Nth(s, i + 1) /\ c.prev[s[i]] = Nth(s, i - 1)
  BY <1>1 DEF LinksOK, Linked
<1>5. b = Nth(s, p - 1) /\ a = Nth(s, p + 1)
  BY <1>4
<1>6. r \in Seq(BlockKeys) /\ m = n - 1 /\ \A i \in 1 .. n - 1 : r[i] = IF i < p THEN s[i] ELSE s[i + 1]
  BY RemovedIs DEF OneLess
<1>7. /\ BlockShape(d) /\ SameContent(d, c)
      /\ d.head = IF b = None THEN a ELSE c.head
      /\ d.tail = IF a = None THEN b ELSE c.tail
      /\ d.next = IF b = None THEN c.next ELSE [c.next EXCEPT ![b] = a]
      /\ d.prev = IF a = None THEN c.prev ELSE [c.prev EXCEPT ![a] = b]
  BY DEF Detach, BlockShape, BlockFields, SameContent
<1> HIDE DEF r, d, b, a
<1>8. m = n - 1 /\ DOMAIN r = 1 .. n - 1
  BY <1>6
<1>9. \A i \in Int : Nth(s, i) = IF i \in 1 .. n THEN s[i] ELSE 0
  BY <1>1 DEF Nth, None
<1>10. \A i \in Int : Nth(r, i) = IF i \in 1 .. n - 1 THEN r[i] ELSE 0
  BY <1>8 DEF Nth, None
<1>11. b = (IF p = 1 THEN 0 ELSE s[p - 1]) /\ a = (IF p = n THEN 0 ELSE s[p + 1])
  <2>1. p - 1 \in Int /\ p + 1 \in Int /\ (p - 1 \in 1 .. n <=> p # 1) /\ (p + 1 \in 1 .. n <=> p # n)
    BY <1>1, Beside
  <2>2. Nth(s, p - 1) = IF p - 1 \in 1 .. n THEN s[p - 1] ELSE 0
    BY <1>9, <2>1
  <2>3. Nth(s, p + 1) = IF p + 1 \in 1 .. n THEN s[p + 1] ELSE 0
    BY <1>9, <2>1
  <2> QED BY <1>5, <2>1, <2>2, <2>3
<1>12. (b = None <=> p = 1) /\ (a = None <=> p = n)
  <2>1. (p # 1 => p - 1 \in 1 .. n) /\ (p # n => p + 1 \in 1 .. n)
    BY <1>1, Beside
  <2>2. (p # 1 => s[p - 1] # None) /\ (p # n => s[p + 1] # None)
    BY <1>2, <2>1
  <2> QED BY <1>11, <2>2, SMTT(60) DEF None
<1> HIDE DEF m, n
<1>13. d.head = Nth(r, 1)
  <2>1. Nth(r, 1) = IF n = 1 THEN 0 ELSE IF p = 1 THEN s[2] ELSE s[1]
    BY <1>1, <1>6, <1>10
  <2>2. Nth(s, 1) = s[1]
    BY <1>1, <1>9
  <2> QED BY <1>1, <1>4, <1>7, <1>11, <1>12, <2>1, <2>2
<1>14. d.tail = Nth(r, m)
  <2>1. Nth(r, m) = IF n = 1 THEN 0 ELSE IF p = n THEN s[n - 1] ELSE s[n]
    BY <1>1, <1>6, <1>8, <1>10
  <2>2. Nth(s, n) = s[n]
    BY <1>1, <1>9
  <2> QED BY <1>1, <1>4, <1>7, <1>11, <1>12, <2>1, <2>2
<1>15. ASSUME NEW i \in 1 .. n - 1 PROVE d.next[r[i]] = Nth(r, i + 1)
  <2> DEFINE j == IF i < p THEN i ELSE i + 1
  <2>1. j \in 1 .. n /\ j # p /\ r[i] = s[j] /\ s[j] \in D
    BY <1>1, <1>2, <1>6
  <2>2. c.next[s[j]] = Nth(s, j + 1)
    BY <1>4, <2>1
  <2>3. CASE p # 1 /\ j = p - 1
    <3>1. s[j] = b /\ b # None /\ b \in D
      BY <1>11, <1>12, <2>1, <2>3
    <3>2. d.next[s[j]] = a
      BY <1>7, <3>1 DEF LinksOK
    <3>3. i = p - 1
      BY <1>1, <2>3
    <3>4. Nth(r, i + 1) = a
      BY <1>1, <1>6, <1>10, <1>11, <3>3
    <3> QED BY <2>1, <3>2, <3>4
  <2>4. CASE ~(p # 1 /\ j = p - 1)
    <3>1. d.next[s[j]] = c.next[s[j]]
      <4>1. CASE p = 1
        BY <1>7, <1>12, <4>1
      <4>2. CASE p # 1
        <5>1. p - 1 \in 1 .. n /\ b = s[p - 1] /\ s[p - 1] # s[j]
          BY <1>1, <1>3, <1>11, <2>1, <2>4, <4>2
        <5> QED BY <1>7, <1>12, <2>1, <4>2, <5>1 DEF LinksOK
      <4> QED BY <4>1, <4>2
    <3>2. Nth(r, i + 1) = Nth(s, j + 1)
      BY <1>1, <1>6, <1>9, <1>10, <2>4
    <3> QED BY <2>1, <2>2, <3>1, <3>2
  <2> QED BY <2>3, <2>4
<1>16. ASSUME NEW i \in 1 .. n - 1 PROVE d.prev[r[i]] = Nth(r, i - 1)
  <2> DEFINE j == IF i < p THEN i ELSE i + 1
  <2>1. j \in 1 .. n /\ j # p /\ r[i] = s[j] /\ s[j] \in D
    BY <1>1, <1>2, <1>6
  <2>2. c.prev[s[j]] = Nth(s, j - 1)
    BY <1>4, <2>1
  <2>3. CASE p # n /\ j = p + 1
    <3>1. s[j] = a /\ a # None /\ a \in D
      BY <1>11, <1>12, <2>1, <2>3
    <3>2. d.prev[s[j]] = b
      BY <1>7, <3>1 DEF LinksOK
    <3>3. i = p
      BY <1>1, <2>3
    <3>4. Nth(r, i - 1) = b
      BY <1>1, <1>6, <1>10, <1>11, <3>3
    <3> QED BY <2>1, <3>2, <3>4
  <2>4. CASE ~(p # n /\ j = p + 1)
    <3>1. d.prev[s[j]] = c.prev[s[j]]
      <4>1. CASE p = n
        BY <1>7, <1>12, <4>1
      <4>2. CASE p # n
        <5>1. p + 1 \in 1 .. n /\ a = s[p + 1] /\ s[p + 1] # s[j]
          BY <1>1, <1>3, <1>11, <2>1, <2>4, <4>2
        <5> QED BY <1>7, <1>12, <2>1, <4>2, <5>1 DEF LinksOK
      <4> QED BY <4>1, <4>2
    <3>2. Nth(r, i - 1) = Nth(s, j - 1)
      BY <1>1, <1>6, <1>9, <1>10, <2>4
    <3> QED BY <2>1, <2>2, <3>1, <3>2
  <2> QED BY <2>3, <2>4
<1>17. ToSet(r) \subseteq D
  <2>1. ToSet(r) = {r[i] : i \in 1 .. n - 1}
    BY <1>8 DEF ToSet
  <2>2. \A i \in 1 .. n - 1 : r[i] \in D
    BY <1>1, <1>2, <1>6
  <2> QED BY <2>1, <2>2
<1>18. d.next = [k \in D |-> d.next[k]] /\ d.prev = [k \in D |-> d.prev[k]]
  BY <1>7 DEF LinksOK
<1>19. Linked(d, r)
  BY <1>8, <1>13, <1>14, <1>15, <1>16 DEF Linked, m
<1> QED BY <1>7, <1>17, <1>18, <1>19 DEF LinksOK, d, r, e

(* The list with an entry in front.                                        *)
LEMMA AttachIs ==
    ASSUME NEW c, BlockShape(c), NEW s \in Seq(BlockKeys), Distinct(s), NEW D, LinksOK(c, s, D),
           NEW e \in BlockKeys, e \notin ToSet(s)
    PROVE  /\ BlockShape(AttachHead(c, e)) /\ SameContent(AttachHead(c, e), c)
           /\ LinksOK(AttachHead(c, e), <<e>> \o s, D \cup {e})
<1> DEFINE n == Len(s)
           d == AttachHead(c, e)
           q == <<e>> \o s
<1>1. n \in Nat /\ DOMAIN s = 1 .. n /\ \A i \in 1 .. n : s[i] \in BlockKeys
  OBVIOUS
<1>2. \A i \in 1 .. n : s[i] # None /\ s[i] \in D /\ s[i] # e
  <2>1. ToSet(s) = {s[i] : i \in 1 .. n}
    BY PrecedesIs
  <2> QED BY <1>1, <2>1, CacheAssumption DEF LinksOK, None
<1>3. /\ c.head = Nth(s, 1) /\ c.tail = Nth(s, n)
      /\ \A i \in 1 .. n : c.next[s[i]] = Nth(s, i + 1) /\ c.prev[s[i]] = Nth(s, i - 1)
  BY <1>1 DEF LinksOK, Linked
<1>4. q \in Seq(BlockKeys) /\ Len(q) = n + 1 /\ q[1] = e /\ \A i \in 2 .. n + 1 : q[i] = s[i - 1]
  BY <1>1
<1>5. DOMAIN q = 1 .. n + 1 /\ ToSet(q) = {q[i] : i \in 1 .. n + 1}
  <2>1. DOMAIN q = 1 .. n + 1
    BY <1>1, <1>4
  <2>2. ToSet(q) = {q[i] : i \in DOMAIN q}
    BY DEF ToSet
  <2> QED BY <2>1, <2>2
<1>6. /\ BlockShape(d) /\ SameContent(d, c) /\ d.head = e
      /\ d.tail = (IF c.head = None THEN e ELSE c.tail)
      /\ d.next = Noting(c.next, e, c.head)
      /\ d.prev = Noting(IF c.head = None THEN c.prev ELSE [c.prev EXCEPT ![c.head] = e], e, None)
  BY DEF AttachHead, BlockShape, BlockFields, SameContent
<1>7. \A i \in Int : Nth(s, i) = IF i \in 1 .. n THEN s[i] ELSE 0
  BY <1>1 DEF Nth, None
<1> HIDE DEF q, d
<1>8. \A i \in Int : Nth(q, i) = IF i \in 1 .. n + 1 THEN q[i] ELSE 0
  BY <1>5 DEF Nth, None
<1> HIDE DEF n
<1>9. c.head = (IF n = 0 THEN 0 ELSE s[1]) /\ c.tail = (IF n = 0 THEN 0 ELSE s[n])
  BY <1>1, <1>3, <1>7
<1>10. c.head = None <=> n = 0
  BY <1>1, <1>2, <1>9 DEF None
<1>11. DOMAIN c.next = D /\ DOMAIN c.prev = D
  BY DEF LinksOK
<1>12. /\ d.next = [k \in D \cup {e} |-> IF k = e THEN c.head ELSE c.next[k]]
       /\ d.prev = [k \in D \cup {e} |-> IF k = e THEN None
                                         ELSE IF n # 0 /\ k = s[1] THEN e ELSE c.prev[k]]
  <2>1. d.next = [k \in D \cup {e} |-> IF k = e THEN c.head ELSE c.next[k]]
    BY <1>6, <1>11 DEF Noting
  <2>2. CASE n = 0
    BY <1>6, <1>10, <1>11, <2>1, <2>2 DEF Noting
  <2>3. CASE n # 0
    <3>1. c.head = s[1] /\ c.head # None /\ s[1] \in D
      BY <1>1, <1>2, <1>9, <1>10, <2>3
    <3> DEFINE g == [c.prev EXCEPT ![c.head] = e]
    <3>2. DOMAIN g = D /\ \A k \in D : g[k] = IF k = s[1] THEN e ELSE c.prev[k]
      BY <1>11, <3>1
    <3>3. d.prev = Noting(g, e, None)
      BY <1>6, <3>1
    <3> HIDE DEF g
    <3> QED BY <2>1, <2>3, <3>2, <3>3 DEF Noting
  <2> QED BY <2>2, <2>3
<1>13. d.head = Nth(q, 1)
  BY <1>1, <1>4, <1>6, <1>8
<1>14. d.tail = Nth(q, n + 1)
  <2>1. Nth(q, n + 1) = q[n + 1]
    BY <1>1, <1>8
  <2>2. CASE n = 0
    BY <1>4, <1>6, <1>10, <2>1, <2>2
  <2>3. CASE n # 0
    <3>1. q[n + 1] = s[n]
      BY <1>1, <1>4, <2>3
    <3> QED BY <1>6, <1>9, <1>10, <2>1, <2>3, <3>1
  <2> QED BY <2>2, <2>3
<1>15. ASSUME NEW i \in 1 .. n + 1
       PROVE  d.next[q[i]] = Nth(q, i + 1) /\ d.prev[q[i]] = Nth(q, i - 1)
  <2>1. CASE i = 1
    <3>1. q[i] = e /\ Nth(q, i - 1) = 0
      BY <1>1, <1>4, <1>8, <2>1
    <3>2. Nth(q, i + 1) = IF n = 0 THEN 0 ELSE s[1]
      BY <1>1, <1>4, <1>8, <2>1
    <3> QED BY <1>9, <1>12, <3>1, <3>2 DEF None
  <2>2. CASE i # 1
    <3>1. i - 1 \in 1 .. n /\ q[i] = s[i - 1] /\ s[i - 1] # e /\ s[i - 1] \in D /\ n # 0
      <4>1. i - 1 \in 1 .. n /\ i \in 2 .. n + 1 /\ n # 0
        BY <1>1, <2>2
      <4> QED BY <1>2, <1>4, <4>1
    <3>2. d.next[s[i - 1]] = Nth(s, (i - 1) + 1)
      BY <1>3, <1>12, <3>1
    <3>3. Nth(s, (i - 1) + 1) = Nth(q, i + 1)
      BY <1>1, <1>4, <1>7, <1>8, <2>2
    <3>4. d.prev[s[i - 1]] = Nth(q, i - 1)
      <4>1. CASE i = 2
        <5>1. d.prev[s[i - 1]] = e
          BY <1>12, <3>1, <4>1
        <5>2. Nth(q, i - 1) = e
          BY <1>1, <1>4, <1>8, <4>1
        <5> QED BY <5>1, <5>2
      <4>2. CASE i # 2
        <5>1. s[i - 1] # s[1]
          BY <1>1, <2>2, <3>1, <4>2 DEF Distinct, n
        <5>2. d.prev[s[i - 1]] = Nth(s, (i - 1) - 1)
          BY <1>3, <1>12, <3>1, <5>1
        <5>3. Nth(s, (i - 1) - 1) = Nth(q, i - 1)
          BY <1>1, <1>4, <1>7, <1>8, <2>2, <4>2
        <5> QED BY <5>2, <5>3
      <4> QED BY <4>1, <4>2
    <3> QED BY <3>1, <3>2, <3>3, <3>4
  <2> QED BY <2>1, <2>2
<1>16. ToSet(q) \subseteq D \cup {e}
  <2>1. \A i \in 1 .. n + 1 : q[i] \in D \cup {e}
    <3> TAKE i \in 1 .. n + 1
    <3>1. i # 1 => i - 1 \in 1 .. n /\ q[i] = s[i - 1]
      BY <1>1, <1>4
    <3> QED BY <1>2, <1>4, <3>1
  <2> QED BY <1>5, <2>1
<1>17. Linked(d, q)
  <2>1. Len(q) = n + 1
    BY <1>4
  <2> QED BY <1>5, <1>13, <1>14, <1>15, <2>1 DEF Linked
<1>18. d.next = [k \in D \cup {e} |-> d.next[k]] /\ d.prev = [k \in D \cup {e} |-> d.prev[k]]
  BY <1>12
<1> QED BY <1>6, <1>16, <1>17, <1>18 DEF LinksOK, d, q


(* RemoveFirst takes out the one place that has the entry.                 *)
LEMMA RemoveFirstAt ==
    ASSUME NEW S, NEW s \in Seq(S), Distinct(s), NEW p \in 1 .. Len(s)
    PROVE  RemoveFirst(s, s[p]) = RemoveAt(s, p)
<1> DEFINE I == { i \in 1 .. Len(s) : s[i] = s[p] }
           k == SelectInSeq(s, LAMBDA v : v = s[p])
<1>1. I = {p} /\ I \in SUBSET Nat
  BY DEF Distinct
<1>2. k = IF I # {} THEN Min(I) ELSE 0
  BY DEF SelectInSeq
<1>3. \E i \in 1 .. Len(s) : s[i] = s[p]
  OBVIOUS
<1>4. RemoveFirst(s, s[p]) = RemoveAt(s, k)
  BY <1>3 DEF RemoveFirst
<1> HIDE DEF I, k
<1>5. Min(I) = p
  <2>1. I # {} /\ Min(I) \in I
    BY <1>1, MinIsMember
  <2> QED BY <1>1, <2>1
<1> QED BY <1>1, <1>2, <1>4, <1>5

LEMMA RemoveFirstNone ==
    ASSUME NEW S, NEW s \in Seq(S), NEW x, x \notin ToSet(s)
    PROVE  RemoveFirst(s, x) = s
<1>1. ~ \E i \in 1 .. Len(s) : s[i] = x
  BY PrecedesIs
<1> QED BY <1>1 DEF RemoveFirst

(* The first entries of a list.                                            *)
UpTo(s, n) == SubSeq(s, 1, n)

LEMMA FrontIs ==
    ASSUME NEW S, NEW s \in Seq(S), Distinct(s), NEW n \in 0 .. Len(s)
    PROVE  /\ UpTo(s, n) \in Seq(S) /\ Len(UpTo(s, n)) = n /\ Distinct(UpTo(s, n))
           /\ \A i \in 1 .. n : UpTo(s, n)[i] = s[i]
           /\ ToSet(UpTo(s, n)) = {s[i] : i \in 1 .. n}
<1> DEFINE f == UpTo(s, n)
<1>1. f \in Seq(S) /\ Len(f) = n /\ \A i \in 1 .. n : f[i] = s[i]
  BY DEF UpTo
<1>2. DOMAIN f = 1 .. n
  BY <1>1
<1> HIDE DEF f
<1>3. Distinct(f)
  BY <1>1 DEF Distinct
<1>4. ToSet(f) = {s[i] : i \in 1 .. n}
  BY <1>1, <1>2 DEF ToSet
<1> QED BY <1>1, <1>3, <1>4 DEF f

(* What is left of a list without one place, and of a list with an entry   *)
(* in front.                                                               *)
LEMMA LessIs ==
    ASSUME NEW S, NEW s \in Seq(S), Distinct(s), NEW p \in 1 .. Len(s)
    PROVE  /\ RemoveAt(s, p) \in Seq(S) /\ Len(RemoveAt(s, p)) = Len(s) - 1
           /\ Distinct(RemoveAt(s, p)) /\ ToSet(RemoveAt(s, p)) = ToSet(s) \ {s[p]}
<1>1. OneLess(S, s, p, RemoveAt(s, p))
  BY RemovedIs
<1>2. Left(S, s, s[p], RemoveFirst(s, s[p]))
  BY RemoveFirstIs
<1>3. RemoveFirst(s, s[p]) = RemoveAt(s, p)
  BY RemoveFirstAt
<1> QED BY <1>1, <1>2, <1>3 DEF OneLess, Left

LEMMA MoreIs ==
    ASSUME NEW S, NEW s \in Seq(S), Distinct(s), NEW e \in S, e \notin ToSet(s)
    PROVE  /\ <<e>> \o s \in Seq(S) /\ Len(<<e>> \o s) = Len(s) + 1
           /\ Distinct(<<e>> \o s) /\ ToSet(<<e>> \o s) = ToSet(s) \cup {e}
<1> DEFINE q == <<e>> \o s
           n == Len(s)
<1>1. n \in Nat /\ q \in Seq(S) /\ Len(q) = n + 1 /\ q[1] = e /\ \A i \in 2 .. n + 1 : q[i] = s[i - 1]
  OBVIOUS
<1>2. \A i \in 1 .. n : s[i] # e
  BY PrecedesIs
<1>3. \A i, j \in 1 .. n : s[i] = s[j] => i = j
  BY DEF Distinct
<1> HIDE DEF q
<1>4. \A i \in 2 .. n + 1 : i - 1 \in 1 .. n
  BY <1>1
<1> HIDE DEF n
<1>5. Distinct(q)
  <2> SUFFICES ASSUME NEW i \in 1 .. n + 1, NEW j \in 1 .. n + 1, q[i] = q[j] PROVE i = j
    BY <1>1 DEF Distinct
  <2>1. CASE i # 1 /\ j # 1
    <3>1. i \in 2 .. n + 1 /\ j \in 2 .. n + 1 /\ i - 1 \in 1 .. n /\ j - 1 \in 1 .. n
      BY <1>1, <2>1
    <3>2. i - 1 = j - 1
      BY <1>1, <1>3, <3>1
    <3> QED BY <3>1, <3>2
  <2>2. CASE i = 1 \/ j = 1
    <3>1. (i # 1 => i \in 2 .. n + 1) /\ (j # 1 => j \in 2 .. n + 1)
      BY <1>1
    <3> QED BY <1>1, <1>2, <1>4, <2>2, <3>1
  <2> QED BY <2>1, <2>2
<1>6. ToSet(q) = ToSet(s) \cup {e}
  <2>1. ToSet(q) = {q[i] : i \in 1 .. n + 1}
    BY <1>1, PrecedesIs
  <2>2. ToSet(s) = {s[i] : i \in 1 .. n}
    BY PrecedesIs DEF n
  <2>3. \A i \in 1 .. n + 1 : q[i] \in ToSet(s) \cup {e}
    <3> TAKE i \in 1 .. n + 1
    <3>1. i # 1 => i \in 2 .. n + 1
      BY <1>1
    <3> QED BY <1>1, <1>4, <2>2, <3>1
  <2>4. \A i \in 1 .. n : s[i] \in ToSet(q)
    <3> TAKE i \in 1 .. n
    <3>1. i + 1 \in 2 .. n + 1 /\ (i + 1) - 1 = i /\ i + 1 \in 1 .. n + 1
      BY <1>1
    <3> QED BY <1>1, <2>1, <3>1
  <2>5. e \in ToSet(q)
    <3>1. 1 \in 1 .. n + 1
      BY <1>1
    <3> QED BY <1>1, <2>1, <3>1
  <2> QED BY <2>1, <2>2, <2>3, <2>4, <2>5
<1> QED BY <1>1, <1>5, <1>6 DEF q, n

(* The first entries of a list that lost one, or got one in front.         *)
LEMMA FrontLess ==
    ASSUME NEW S, NEW s \in Seq(S), Distinct(s), NEW n \in 0 .. Len(s), NEW p \in 1 .. n
    PROVE  UpTo(RemoveAt(s, p), n - 1) = RemoveAt(UpTo(s, n), p)
<1> DEFINE a == UpTo(RemoveAt(s, p), n - 1)
           b == RemoveAt(UpTo(s, n), p)
           r == RemoveAt(s, p)
           f == UpTo(s, n)
<1>1. n \in Nat /\ Len(s) \in Nat /\ n - 1 \in 0 .. Len(s) - 1 /\ p \in 1 .. Len(s)
  OBVIOUS
<1>2. r \in Seq(S) /\ Len(r) = Len(s) - 1 /\ Distinct(r)
  BY <1>1, LessIs
<1>3. \A i \in 1 .. Len(s) - 1 : r[i] = IF i < p THEN s[i] ELSE s[i + 1]
  BY <1>1, RemovedIs DEF OneLess
<1>4. f \in Seq(S) /\ Len(f) = n /\ \A i \in 1 .. n : f[i] = s[i]
  BY FrontIs
<1> HIDE DEF r, f
<1>5. a \in Seq(S) /\ Len(a) = n - 1 /\ \A i \in 1 .. n - 1 : a[i] = r[i]
  <2>1. n - 1 \in 0 .. Len(r)
    BY <1>1, <1>2
  <2> QED BY <1>2, <2>1, FrontIs DEF r
<1>6. b \in Seq(S) /\ Len(b) = n - 1 /\ \A i \in 1 .. n - 1 : b[i] = IF i < p THEN f[i] ELSE f[i + 1]
  <2>1. OneLess(S, f, p, RemoveAt(f, p))
    BY <1>4, RemovedIs
  <2> QED BY <1>4, <2>1 DEF OneLess, f
<1> HIDE DEF a, b
<1>7. \A i \in 1 .. n - 1 : a[i] = b[i]
  <2> TAKE i \in 1 .. n - 1
  <2>1. i \in 1 .. Len(s) - 1 /\ i \in 1 .. n /\ i + 1 \in 1 .. n
    BY <1>1
  <2> QED BY <1>3, <1>4, <1>5, <1>6, <2>1
<1>8. a = b
  BY <1>5, <1>6, <1>7, SeqEqual
<1> QED BY <1>8 DEF a, b

LEMMA FrontMore ==
    ASSUME NEW S, NEW s \in Seq(S), Distinct(s), NEW n \in 0 .. Len(s), NEW e \in S
    PROVE  UpTo(<<e>> \o s, n + 1) = <<e>> \o UpTo(s, n)
<1> DEFINE q == <<e>> \o s
           a == UpTo(q, n + 1)
           f == UpTo(s, n)
           b == <<e>> \o f
<1>1. n \in Nat /\ Len(s) \in Nat /\ q \in Seq(S) /\ Len(q) = Len(s) + 1
  OBVIOUS
<1>2. q[1] = e /\ \A i \in 2 .. Len(s) + 1 : q[i] = s[i - 1]
  OBVIOUS
<1>3. f \in Seq(S) /\ Len(f) = n /\ \A i \in 1 .. n : f[i] = s[i]
  BY FrontIs
<1>4. a \in Seq(S) /\ Len(a) = n + 1 /\ \A i \in 1 .. n + 1 : a[i] = q[i]
  <2> HIDE DEF q
  <2> QED BY <1>1 DEF UpTo
<1> HIDE DEF f, a, q
<1>5. b \in Seq(S) /\ Len(b) = n + 1 /\ b[1] = e /\ \A i \in 2 .. n + 1 : b[i] = f[i - 1]
  BY <1>1, <1>3
<1> HIDE DEF b
<1>6. \A i \in 1 .. n + 1 : a[i] = b[i]
  <2> TAKE i \in 1 .. n + 1
  <2>1. i # 1 => i \in 2 .. n + 1 /\ i \in 2 .. Len(s) + 1 /\ i - 1 \in 1 .. n
    BY <1>1
  <2> QED BY <1>2, <1>3, <1>4, <1>5, <2>1
<1>7. a = b
  BY <1>4, <1>5, <1>6, SeqEqual
<1> QED BY <1>7 DEF a, b, f, q


(* The chains hold the entries, each in its bucket and once.               *)
Chained(ch, D) ==
    /\ ch \in [0 .. Buckets - 1 -> Seq(BlockKeys)]
    /\ \A b \in 0 .. Buckets - 1 : Distinct(ch[b]) /\ ToSet(ch[b]) = {k \in D : Bucket(k) = b}

(* A block cache with a list of entries.                                   *)
BlockHeld(c, s) ==
    /\ BlockShape(c) /\ s \in Seq(BlockKeys) /\ Distinct(s) /\ c.size = Len(s)
    /\ LinksOK(c, s, ToSet(s)) /\ Chained(c.chain, ToSet(s)) /\ DOMAIN c.data = ToSet(s)

(* What no operation on the list or the chains touches.                    *)
SameNotes(d, c) == d.kind = c.kind /\ d.used = c.used /\ d.last = c.last

LEMMA BucketIs == \A k \in BlockKeys : Bucket(k) \in 0 .. Buckets - 1
BY CacheAssumption DEF Bucket

(* The chains without an entry, and with one more.                         *)
ChainsLess(ch, e) == [ch EXCEPT ![Bucket(e)] = RemoveFirst(@, e)]
ChainsMore(ch, e) == [ch EXCEPT ![Bucket(e)] = <<e>> \o @]

LEMMA ChainLost ==
    ASSUME NEW ch, NEW D \in SUBSET BlockKeys, Chained(ch, D), NEW e \in D
    PROVE  Chained(ChainsLess(ch, e), D \ {e})
<1> DEFINE h == ChainsLess(ch, e)
<1>1. Bucket(e) \in 0 .. Buckets - 1
  BY BucketIs
<1>2. Left(BlockKeys, ch[Bucket(e)], e, RemoveFirst(ch[Bucket(e)], e))
  BY <1>1, RemoveFirstIs DEF Chained
<1>3. h \in [0 .. Buckets - 1 -> Seq(BlockKeys)]
  BY <1>1, <1>2 DEF Chained, Left, ChainsLess
<1>4. ASSUME NEW b \in 0 .. Buckets - 1
      PROVE  Distinct(h[b]) /\ ToSet(h[b]) = {k \in D \ {e} : Bucket(k) = b}
  <2>1. CASE b = Bucket(e)
    <3>1. h[b] = RemoveFirst(ch[b], e)
      BY <1>1, <2>1 DEF Chained, ChainsLess
    <3>2. ToSet(ch[b]) = {k \in D : Bucket(k) = b}
      BY DEF Chained
    <3> HIDE DEF h
    <3> QED BY <1>2, <2>1, <3>1, <3>2 DEF Left
  <2>2. CASE b # Bucket(e)
    <3>1. h[b] = ch[b]
      BY <2>2 DEF Chained, ChainsLess
    <3> HIDE DEF h
    <3> QED BY <2>2, <3>1 DEF Chained
  <2> QED BY <2>1, <2>2
<1> QED BY <1>3, <1>4 DEF Chained

LEMMA ChainGot ==
    ASSUME NEW ch, NEW D \in SUBSET BlockKeys, Chained(ch, D), NEW e \in BlockKeys, e \notin D
    PROVE  Chained(ChainsMore(ch, e), D \cup {e})
<1> DEFINE h == ChainsMore(ch, e)
           o == ch[Bucket(e)]
<1>1. Bucket(e) \in 0 .. Buckets - 1
  BY BucketIs
<1>2. o \in Seq(BlockKeys) /\ Distinct(o) /\ ToSet(o) = {k \in D : Bucket(k) = Bucket(e)}
  BY <1>1 DEF Chained
<1>3. /\ <<e>> \o o \in Seq(BlockKeys) /\ Distinct(<<e>> \o o)
      /\ ToSet(<<e>> \o o) = ToSet(o) \cup {e}
  <2> HIDE DEF o
  <2> QED BY <1>2, MoreIs
<1>4. h \in [0 .. Buckets - 1 -> Seq(BlockKeys)]
  BY <1>1, <1>3 DEF Chained, ChainsMore
<1>5. ASSUME NEW b \in 0 .. Buckets - 1
      PROVE  Distinct(h[b]) /\ ToSet(h[b]) = {k \in D \cup {e} : Bucket(k) = b}
  <2>1. CASE b = Bucket(e)
    <3>1. h[b] = <<e>> \o o
      BY <1>1, <2>1 DEF Chained, ChainsMore
    <3> HIDE DEF h, o
    <3> QED BY <1>2, <1>3, <2>1, <3>1
  <2>2. CASE b # Bucket(e)
    <3>1. h[b] = ch[b]
      BY <2>2 DEF Chained, ChainsMore
    <3> HIDE DEF h
    <3> QED BY <2>2, <3>1 DEF Chained
  <2> QED BY <2>1, <2>2
<1> QED BY <1>4, <1>5 DEF Chained

LEMMA HeldSet == ASSUME NEW c, NEW s, BlockHeld(c, s) PROVE ToSet(s) \in SUBSET BlockKeys
<1>1. ToSet(s) = {s[i] : i \in 1 .. Len(s)}
  BY PrecedesIs DEF BlockHeld
<1> QED BY <1>1 DEF BlockHeld

(* An entry is freed.                                                      *)
LEMMA DroppedIs ==
    ASSUME NEW c, NEW s, BlockHeld(c, s), NEW p \in 1 .. Len(s)
    PROVE  /\ BlockHeld(Dropped(c, s[p]), RemoveAt(s, p)) /\ SameNotes(Dropped(c, s[p]), c)
           /\ \A k \in ToSet(s) \ {s[p]} : Dropped(c, s[p]).data[k] = c.data[k]
<1> DEFINE e == s[p]
           d == Detach(c, e)
           g == Dropped(c, e)
           r == RemoveAt(s, p)
<1>1. /\ BlockShape(c) /\ s \in Seq(BlockKeys) /\ Distinct(s) /\ c.size = Len(s) /\ Len(s) \in Nat
      /\ LinksOK(c, s, ToSet(s)) /\ Chained(c.chain, ToSet(s)) /\ DOMAIN c.data = ToSet(s)
  BY DEF BlockHeld
<1>2. BlockShape(d) /\ SameContent(d, c) /\ LinksOK(d, r, ToSet(s))
  BY <1>1, DetachIs
<1>3. /\ r \in Seq(BlockKeys) /\ Len(r) = Len(s) - 1
      /\ Distinct(r) /\ ToSet(r) = ToSet(s) \ {e}
  BY <1>1, LessIs
<1>4. ToSet(s) \in SUBSET BlockKeys /\ e \in ToSet(s)
  <2>1. ToSet(s) = {s[i] : i \in 1 .. Len(s)}
    BY <1>1, PrecedesIs
  <2> QED BY <2>1, HeldSet
<1> HIDE DEF d, r, e
<1>5. /\ BlockShape(g) /\ g.head = d.head /\ g.tail = d.tail /\ g.kind = d.kind /\ g.used = d.used
      /\ g.last = d.last /\ g.next = Without(d.next, e) /\ g.prev = Without(d.prev, e)
      /\ g.data = Without(d.data, e) /\ g.size = d.size - 1
      /\ g.chain = ChainsLess(d.chain, e)
  BY <1>2 DEF Dropped, BlockShape, BlockFields, ChainsLess, d
<1> HIDE DEF g
<1>6. Chained(g.chain, ToSet(r))
  <2>1. g.chain = ChainsLess(c.chain, e)
    BY <1>2, <1>5 DEF SameContent
  <2>2. Chained(g.chain, ToSet(s) \ {e})
    BY <1>1, <1>4, <2>1, ChainLost
  <2> QED BY <1>3, <2>2
<1>7. LinksOK(g, r, ToSet(r))
  <2>1. DOMAIN d.next = ToSet(s) /\ DOMAIN d.prev = ToSet(s)
    BY <1>2 DEF LinksOK
  <2>2. /\ g.next = [k \in ToSet(r) |-> d.next[k]]
        /\ g.prev = [k \in ToSet(r) |-> d.prev[k]]
    BY <1>3, <1>5, <2>1 DEF Without
  <2>3. \A i \in DOMAIN r : r[i] \in ToSet(r)
    BY DEF ToSet
  <2>4. Linked(g, r)
    BY <1>2, <1>5, <2>2, <2>3 DEF LinksOK, Linked
  <2> QED BY <2>2, <2>4 DEF LinksOK
<1>8. DOMAIN g.data = ToSet(r) /\ \A k \in ToSet(r) : g.data[k] = c.data[k]
  BY <1>1, <1>2, <1>3, <1>5 DEF Without, SameContent
<1>9. g.size = Len(r) /\ SameNotes(g, c)
  BY <1>1, <1>2, <1>3, <1>5 DEF SameContent, SameNotes
<1> QED BY <1>3, <1>5, <1>6, <1>7, <1>8, <1>9 DEF BlockHeld, g, r, e

(* An entry goes to the front.                                             *)
LEMMA ToFrontIs ==
    ASSUME NEW c, NEW s, BlockHeld(c, s), NEW p \in 1 .. Len(s)
    PROVE  /\ BlockHeld(ToFront(c, s[p]), <<s[p]>> \o RemoveAt(s, p))
           /\ SameContent(ToFront(c, s[p]), c)
<1> DEFINE e == s[p]
           d == Detach(c, e)
           g == ToFront(c, e)
           r == RemoveAt(s, p)
           q == <<e>> \o r
<1>1. /\ BlockShape(c) /\ s \in Seq(BlockKeys) /\ Distinct(s) /\ c.size = Len(s) /\ Len(s) \in Nat
      /\ LinksOK(c, s, ToSet(s)) /\ Chained(c.chain, ToSet(s)) /\ DOMAIN c.data = ToSet(s)
  BY DEF BlockHeld
<1>2. BlockShape(d) /\ SameContent(d, c) /\ LinksOK(d, r, ToSet(s))
  BY <1>1, DetachIs
<1>3. /\ r \in Seq(BlockKeys) /\ Len(r) = Len(s) - 1
      /\ Distinct(r) /\ ToSet(r) = ToSet(s) \ {e}
  BY <1>1, LessIs
<1>4. e \in BlockKeys /\ e \in ToSet(s) /\ g = AttachHead(d, e)
  <2>1. ToSet(s) = {s[i] : i \in 1 .. Len(s)}
    BY <1>1, PrecedesIs
  <2> QED BY <1>1, <2>1 DEF ToFront
<1> HIDE DEF d, r, e
<1>5. BlockShape(g) /\ SameContent(g, d) /\ LinksOK(g, q, ToSet(s) \cup {e})
  <2> HIDE DEF g
  <2> QED BY <1>2, <1>3, <1>4, AttachIs
<1>6. q \in Seq(BlockKeys) /\ Len(q) = Len(s) /\ Distinct(q) /\ ToSet(q) = ToSet(s)
  <2>1. q \in Seq(BlockKeys) /\ Len(q) = Len(r) + 1 /\ Distinct(q) /\ ToSet(q) = ToSet(r) \cup {e}
    <3>1. e \notin ToSet(r)
      BY <1>3
    <3> QED BY <1>3, <1>4, <3>1, MoreIs
  <2> HIDE DEF q
  <2> QED BY <1>1, <1>3, <1>4, <2>1
<1> HIDE DEF q, g
<1>7. ToSet(s) \cup {e} = ToSet(q)
  BY <1>4, <1>6
<1>8. SameContent(g, c)
  BY <1>2, <1>5 DEF SameContent
<1>9. BlockHeld(g, q)
  BY <1>1, <1>5, <1>6, <1>7, <1>8 DEF BlockHeld, SameContent
<1> QED BY <1>8, <1>9 DEF g, q, r, e

(* A new entry comes in.                                                   *)
Added(d, k, v) ==
    AttachHead([d EXCEPT !.data = Noting(@, k, v), !.size = @ + 1,
                         !.chain[Bucket(k)] = <<k>> \o @], k)

LEMMA AddedIs ==
    ASSUME NEW c, NEW s, BlockHeld(c, s), NEW k \in BlockKeys, k \notin ToSet(s), NEW v
    PROVE  /\ BlockHeld(Added(c, k, v), <<k>> \o s) /\ SameNotes(Added(c, k, v), c)
           /\ Added(c, k, v).data = Noting(c.data, k, v)
<1> DEFINE d == [c EXCEPT !.data = Noting(@, k, v), !.size = @ + 1, !.chain[Bucket(k)] = <<k>> \o @]
           g == Added(c, k, v)
           q == <<k>> \o s
<1>1. /\ BlockShape(c) /\ s \in Seq(BlockKeys) /\ Distinct(s) /\ c.size = Len(s) /\ Len(s) \in Nat
      /\ LinksOK(c, s, ToSet(s)) /\ Chained(c.chain, ToSet(s)) /\ DOMAIN c.data = ToSet(s)
  BY DEF BlockHeld
<1>2. g = AttachHead(d, k)
  BY DEF Added
<1>3. /\ BlockShape(d) /\ SameNotes(d, c) /\ d.head = c.head /\ d.tail = c.tail /\ d.next = c.next
      /\ d.prev = c.prev /\ d.data = Noting(c.data, k, v) /\ d.size = c.size + 1
      /\ d.chain = ChainsMore(c.chain, k)
  BY <1>1 DEF BlockShape, BlockFields, SameNotes, ChainsMore
<1> HIDE DEF d, g
<1>4. LinksOK(d, s, ToSet(s))
  BY <1>1, <1>3 DEF LinksOK, Linked
<1>5. BlockShape(g) /\ SameContent(g, d) /\ LinksOK(g, q, ToSet(s) \cup {k})
  BY <1>1, <1>2, <1>3, <1>4, AttachIs
<1>6. q \in Seq(BlockKeys) /\ Len(q) = Len(s) + 1 /\ Distinct(q) /\ ToSet(q) = ToSet(s) \cup {k}
  BY <1>1, MoreIs
<1> HIDE DEF q
<1>7. Chained(g.chain, ToSet(q))
  <2>1. ToSet(s) \in SUBSET BlockKeys
    BY HeldSet
  <2>2. g.chain = ChainsMore(c.chain, k)
    BY <1>3, <1>5 DEF SameContent
  <2> QED BY <1>1, <1>6, <2>1, <2>2, ChainGot
<1>8. g.data = Noting(c.data, k, v) /\ DOMAIN g.data = ToSet(q)
  BY <1>1, <1>3, <1>5, <1>6 DEF SameContent, Noting
<1>9. g.size = Len(q) /\ SameNotes(g, c)
  BY <1>1, <1>3, <1>5, <1>6 DEF SameContent, SameNotes
<1>10. LinksOK(g, q, ToSet(q))
  BY <1>5, <1>6
<1> QED BY <1>5, <1>6, <1>7, <1>8, <1>9, <1>10 DEF BlockHeld, g, q


(* A loop that does something once and then nothing more.                  *)
LEMMA EvictSteps ==
    ASSUME NEW c, c.size \in Nat \ {0}, NEW n, NEW d, TailDropped(c, n) = d, TailDropped(d, n) = d
    PROVE  EvictDownTo(c, n) = d
<1> DEFINE m == c.size
           S == {c, d}
           f == [x \in S |-> TailDropped(x, n)]
           Solves(r) == r = [i \in 0 .. m |-> IF i = 0 THEN c ELSE TailDropped(r[i - 1], n)]
           w == CHOOSE r : Solves(r)
<1>1. EvictDownTo(c, n) = w[m]
  BY DEF EvictDownTo, Iterated
<1>2. m \in Nat \ {0}
  OBVIOUS
<1> HIDE DEF m
<1>3. c \in S /\ \A x \in S : TailDropped(x, n) = d
  OBVIOUS
<1>4. f \in [S -> S] /\ \A x \in S : f[x] = TailDropped(x, n)
  BY <1>3
<1> HIDE DEF S
<1> HIDE DEF f
<1>5. PICK r \in [0 .. m -> S] : Repeats(r, m, c, f)
  BY <1>2, <1>3, <1>4, RepeatSolved
<1>6. \A i \in 0 .. m : r[i] = IF i = 0 THEN c ELSE TailDropped(r[i - 1], n)
  <2> TAKE i \in 0 .. m
  <2>1. i # 0 => i - 1 \in 0 .. m
    BY <1>2
  <2>2. i # 0 => r[i - 1] \in S
    BY <1>5, <2>1
  <2> QED BY <1>4, <1>5, <2>2 DEF Repeats
<1>7. Solves(r)
  <2>1. r = [i \in 0 .. m |-> r[i]]
    BY <1>5
  <2> QED BY <1>6, <2>1
<1>8. Solves(w)
  <2> HIDE DEF Solves
  <2> QED BY <1>7
<1> HIDE DEF w
<1>9. w[0] = c /\ \A i \in 1 .. m : w[i] = TailDropped(w[i - 1], n)
  BY <1>2, <1>8
<1> HIDE DEF Solves
<1> DEFINE P == {i \in 0 .. m : w[i] \in S /\ (i # 0 => w[i] = d)}
<1>10. 0 \in P
  BY <1>2, <1>3, <1>9
<1>11. ASSUME NEW i \in 1 .. m, i - 1 \in P PROVE i \in P
  <2>1. d \in S
    BY DEF S
  <2>2. w[i] = d /\ i \in 0 .. m
    BY <1>3, <1>9, <1>11
  <2> QED BY <2>1, <2>2
<1>12. m \in P
  <2> HIDE DEF P
  <2> QED BY <1>2, <1>10, <1>11, InductionUpTo, SMTT(60)
<1> QED BY <1>1, <1>2, <1>12

(* Spared for one more entry: the last one goes if the cache is full.        *)
Spared(s) == UpTo(s, IF Len(s) < CacheCap THEN Len(s) ELSE CacheCap - 1)

LEMMA SparedIs ==
    ASSUME NEW c, NEW s, BlockHeld(c, s), Len(s) <= CacheCap
    PROVE  /\ BlockHeld(EvictDownTo(c, CacheCap - 1), Spared(s))
           /\ SameNotes(EvictDownTo(c, CacheCap - 1), c)
           /\ \A k \in ToSet(Spared(s)) : EvictDownTo(c, CacheCap - 1).data[k] = c.data[k]
<1> DEFINE n == Len(s)
           d == EvictDownTo(c, CacheCap - 1)
<1>1. /\ s \in Seq(BlockKeys) /\ Distinct(s) /\ c.size = n /\ n \in Nat
      /\ CacheCap \in Nat \ {0} /\ n <= CacheCap
  BY CacheAssumption DEF BlockHeld
<1>2. CASE n < CacheCap
  <2>1. TailDropped(c, CacheCap - 1) = c
    BY <1>1, <1>2 DEF TailDropped
  <2>2. d = c
    <3>1. CASE n = 0
      <4> DEFINE Solves(r) == r = [i \in 0 .. 0 |-> IF i = 0 THEN c ELSE TailDropped(r[i - 1], CacheCap - 1)]
                 w == CHOOSE r : Solves(r)
                 r0 == [i \in 0 .. 0 |-> c]
      <4>1. d = w[0]
        BY <1>1, <3>1 DEF EvictDownTo, Iterated
      <4>2. \A i \in 0 .. 0 : i = 0
        OBVIOUS
      <4>3. Solves(r0)
        BY <4>2
      <4>4. Solves(w)
        <5> HIDE DEF Solves, r0
        <5> QED BY <4>3
      <4> HIDE DEF w
      <4>5. w[0] = c
        BY <4>4
      <4> QED BY <4>1, <4>5
    <3>2. CASE n # 0
      BY <1>1, <2>1, <3>2, EvictSteps
    <3> QED BY <3>1, <3>2
  <2>3. Spared(s) = s
    <3>1. UpTo(s, n) \in Seq(BlockKeys) /\ Len(UpTo(s, n)) = n /\ \A i \in 1 .. n : UpTo(s, n)[i] = s[i]
      BY <1>1 DEF UpTo
    <3>2. UpTo(s, n) = s
      <4> HIDE DEF n
      <4> QED BY <1>1, <3>1, SeqEqual DEF n
    <3> QED BY <1>2, <3>2 DEF Spared
  <2> QED BY <2>2, <2>3 DEF SameNotes
<1>3. CASE ~(n < CacheCap)
  <2> DEFINE g == Dropped(c, s[n])
             r == RemoveAt(s, n)
  <2>1. n = CacheCap /\ n \in 1 .. n
    BY <1>1, <1>3
  <2>2. c.tail = s[n] /\ s[n] # None
    <3>1. c.tail = Nth(s, n) /\ n \in DOMAIN s
      BY <1>1, <2>1 DEF BlockHeld, LinksOK, Linked
    <3>2. s[n] \in BlockKeys
      BY <1>1, <2>1
    <3> QED BY <3>1, <3>2, CacheAssumption DEF Nth, None
  <2>3. TailDropped(c, CacheCap - 1) = g
    BY <1>1, <2>1, <2>2 DEF TailDropped
  <2>4. /\ BlockHeld(g, r) /\ SameNotes(g, c)
        /\ \A k \in ToSet(s) \ {s[n]} : g.data[k] = c.data[k]
    BY <2>1, DroppedIs
  <2>5. r \in Seq(BlockKeys) /\ Len(r) = n - 1 /\ ToSet(r) = ToSet(s) \ {s[n]}
    BY <1>1, <2>1, LessIs
  <2>6. TailDropped(g, CacheCap - 1) = g
    <3>1. g.size = CacheCap - 1
      BY <2>1, <2>4, <2>5 DEF BlockHeld
    <3> HIDE DEF g
    <3> QED BY <1>1, <3>1 DEF TailDropped
  <2> HIDE DEF g
  <2>7. d = g
    <3>1. c.size \in Nat \ {0}
      BY <1>1, <2>1
    <3> QED BY <2>3, <2>6, <3>1, EvictSteps
  <2>8. Spared(s) = r
    <3> DEFINE u == UpTo(s, n - 1)
    <3>1. Spared(s) = u
      BY <1>3, <2>1 DEF Spared
    <3>2. n - 1 \in 0 .. n /\ n - 1 \in Nat
      BY <1>1, <2>1
    <3>3. u \in Seq(BlockKeys) /\ Len(u) = n - 1 /\ \A i \in 1 .. n - 1 : u[i] = s[i]
      BY <1>1, <3>2, FrontIs
    <3>4. \A i \in 1 .. n - 1 : r[i] = s[i]
      <4>1. \A i \in 1 .. n - 1 : r[i] = IF i < n THEN s[i] ELSE s[i + 1]
        BY <1>1, <2>1, RemovedIs DEF OneLess
      <4>2. \A i \in 1 .. n - 1 : i < n
        BY <1>1
      <4> QED BY <4>1, <4>2
    <3> HIDE DEF u, r
    <3>5. u = r
      BY <2>5, <3>3, <3>4, SeqEqual
    <3> QED BY <3>1, <3>5
  <2>9. BlockHeld(d, Spared(s)) /\ SameNotes(d, c)
    BY <2>4, <2>7, <2>8
  <2>10. \A k \in ToSet(Spared(s)) : d.data[k] = c.data[k]
    BY <2>4, <2>5, <2>7, <2>8
  <2> QED BY <2>9, <2>10
<1> QED BY <1>2, <1>3


(* The block cache holds the keys used last, each with what was last put.  *)
RecentHeld(c) ==
    /\ c.kind = "bcache" /\ c.used \in Seq(BlockKeys) /\ Distinct(c.used)
    /\ c.size \in 0 .. Len(c.used) /\ c.size <= CacheCap
    /\ BlockHeld(c, UpTo(c.used, c.size))
BlockOK(c) ==
    /\ RecentHeld(c)
    /\ \A k \in ToSet(UpTo(c.used, c.size)) : k \in DOMAIN c.last /\ c.data[k] = c.last[k]

LEMMA UsedIs ==
    ASSUME NEW S, NEW s \in Seq(S), Distinct(s), NEW k \in S
    PROVE  UsedNow(s, k) \in Seq(S) /\ Distinct(UsedNow(s, k))
<1>1. Left(S, s, k, RemoveFirst(s, k))
  BY RemoveFirstIs
<1> DEFINE r == RemoveFirst(s, k)
<1>2. r \in Seq(S) /\ Distinct(r) /\ k \notin ToSet(r)
  BY <1>1 DEF Left
<1> HIDE DEF r
<1>3. <<k>> \o r \in Seq(S) /\ Distinct(<<k>> \o r)
  BY <1>2, MoreIs
<1> QED BY <1>3 DEF UsedNow, r

(* An entry of the cache is used.                                          *)
LEMMA UsedHit ==
    ASSUME NEW S, NEW u \in Seq(S), Distinct(u), NEW n \in 0 .. Len(u), NEW p \in 1 .. n
    PROVE  /\ UpTo(u, n)[p] = u[p] /\ UpTo(u, n) \in Seq(S) /\ Len(UpTo(u, n)) = n
           /\ n \in 0 .. Len(UsedNow(u, u[p]))
           /\ UpTo(UsedNow(u, u[p]), n) = <<u[p]>> \o RemoveAt(UpTo(u, n), p)
<1> DEFINE r == RemoveAt(u, p)
           e == u[p]
<1>1. p \in 1 .. Len(u) /\ n \in Nat /\ Len(u) \in Nat /\ n - 1 \in 0 .. Len(u) - 1
  OBVIOUS
<1>2. UsedNow(u, u[p]) = <<e>> \o r
  BY <1>1, RemoveFirstAt DEF UsedNow
<1>3. r \in Seq(S) /\ Len(r) = Len(u) - 1 /\ Distinct(r) /\ ToSet(r) = ToSet(u) \ {e}
  BY <1>1, LessIs
<1>4. e \in S
  BY <1>1
<1> HIDE DEF r, e
<1>5. UpTo(<<e>> \o r, (n - 1) + 1) = <<e>> \o UpTo(r, n - 1)
  <2>1. n - 1 \in 0 .. Len(r)
    BY <1>1, <1>3
  <2> QED BY <1>3, <1>4, <2>1, FrontMore, ZenonT(120)
<1>6. UpTo(r, n - 1) = RemoveAt(UpTo(u, n), p)
  BY FrontLess DEF r
<1>7. UpTo(u, n)[p] = u[p] /\ UpTo(u, n) \in Seq(S) /\ Len(UpTo(u, n)) = n
  BY FrontIs
<1>8. Len(<<e>> \o r) = Len(r) + 1
  BY <1>3, <1>4
<1>9. (n - 1) + 1 = n /\ n \in 0 .. Len(<<e>> \o r)
  BY <1>1, <1>3, <1>8
<1> QED BY <1>2, <1>5, <1>6, <1>7, <1>9 DEF e

(* A key comes in in front of the first m entries.                         *)
LEMMA UsedMiss ==
    ASSUME NEW S, NEW u \in Seq(S), Distinct(u), NEW n \in 0 .. Len(u), NEW k \in S,
           k \notin ToSet(UpTo(u, n)), NEW m \in 0 .. n
    PROVE  /\ m + 1 \in 0 .. Len(UsedNow(u, k))
           /\ UpTo(UsedNow(u, k), m + 1) = <<k>> \o UpTo(u, m)
           /\ UpTo(UpTo(u, n), m) = UpTo(u, m) /\ k \notin ToSet(UpTo(u, m))
<1> DEFINE r == RemoveFirst(u, k)
           f == UpTo(u, n)
           g == UpTo(u, m)
<1>1. n \in Nat /\ m \in Nat /\ Len(u) \in Nat /\ m \in 0 .. Len(u) /\ m <= n /\ n <= Len(u)
  OBVIOUS
<1>2. f \in Seq(S) /\ Len(f) = n /\ Distinct(f) /\ (\A i \in 1 .. n : f[i] = u[i]) /\ ToSet(f) = {u[i] : i \in 1 .. n}
  BY FrontIs
<1>3. g \in Seq(S) /\ Len(g) = m /\ (\A i \in 1 .. m : g[i] = u[i]) /\ ToSet(g) = {u[i] : i \in 1 .. m}
  BY <1>1, FrontIs
<1>4. Left(S, u, k, r)
  BY RemoveFirstIs
<1>5. r \in Seq(S) /\ Distinct(r)
  BY <1>4 DEF Left
<1>6. m <= Len(r) /\ \A i \in 1 .. m : r[i] = u[i]
  <2>1. CASE k \in ToSet(u)
    <3>1. PICK p \in 1 .. Len(u) : u[p] = k
      BY <2>1, PrecedesIs
    <3>2. ~(p \in 1 .. n)
      BY <1>2, <3>1
    <3>3. p > n /\ m <= Len(u) - 1
      BY <1>1, <3>2
    <3>4. r = RemoveAt(u, p)
      BY <3>1, RemoveFirstAt
    <3>5. Len(r) = Len(u) - 1 /\ \A i \in 1 .. Len(u) - 1 : r[i] = IF i < p THEN u[i] ELSE u[i + 1]
      BY <3>4, RemovedIs DEF OneLess
    <3>6. \A i \in 1 .. m : i \in 1 .. Len(u) - 1 /\ i < p
      BY <1>1, <3>3
    <3> HIDE DEF r
    <3> QED BY <1>1, <3>3, <3>5, <3>6
  <2>2. CASE k \notin ToSet(u)
    <3>1. r = u
      BY <2>2, RemoveFirstNone
    <3> QED BY <1>1, <3>1
  <2> QED BY <2>1, <2>2
<1> HIDE DEF r, f, g
<1>7. m \in 0 .. Len(r) /\ Len(r) \in Nat
  BY <1>1, <1>5, <1>6
<1>8. UpTo(r, m) = g
  <2>1. /\ UpTo(r, m) \in Seq(S) /\ Len(UpTo(r, m)) = m
        /\ \A i \in 1 .. m : UpTo(r, m)[i] = r[i]
    BY <1>5, <1>7, FrontIs
  <2> QED BY <1>3, <1>6, <2>1, SeqEqual
<1>9. UpTo(<<k>> \o r, m + 1) = <<k>> \o UpTo(r, m)
  BY <1>5, <1>7, FrontMore
<1>10. Len(<<k>> \o r) = Len(r) + 1
  BY <1>5
<1>11. m + 1 \in 0 .. Len(<<k>> \o r)
  BY <1>1, <1>7, <1>10
<1>12. UpTo(f, m) = g
  <2>1. UpTo(f, m) \in Seq(S) /\ Len(UpTo(f, m)) = m /\ \A i \in 1 .. m : UpTo(f, m)[i] = f[i]
    BY <1>2, FrontIs
  <2>2. \A i \in 1 .. m : i \in 1 .. n
    BY <1>1
  <2> QED BY <1>2, <1>3, <2>1, <2>2, SeqEqual
<1>13. k \notin ToSet(g)
  <2>1. \A i \in 1 .. m : i \in 1 .. n
    BY <1>1
  <2> QED BY <1>2, <1>3, <2>1 DEF f
<1> QED BY <1>8, <1>9, <1>11, <1>12, <1>13 DEF UsedNow, r, f, g

LEMMA FoundIs ==
    ASSUME NEW c, NEW s, BlockHeld(c, s), NEW k \in BlockKeys
    PROVE  Found(c, k) <=> k \in ToSet(s)
<1>1. Bucket(k) \in 0 .. Buckets - 1
  BY BucketIs
<1> QED BY <1>1 DEF Found, BlockHeld, Chained

LEMMA EmptyOK == BlockOK(Empty)
<1>1. Empty.used = <<>> /\ Empty.size = 0 /\ UpTo(<<>>, 0) = <<>>
  BY DEF Empty, UpTo
<1>2. Distinct(<<>>) /\ ToSet(<<>>) = {} /\ Len(<<>>) = 0 /\ <<>> \in Seq(BlockKeys) /\ DOMAIN <<>> = {}
  BY DEF Distinct, ToSet
<1>3. BlockShape(Empty) /\ Empty.kind = "bcache"
  BY DEF Empty, BlockShape, BlockFields
<1>4. LinksOK(Empty, <<>>, {})
  BY <1>2 DEF LinksOK, Linked, Nth, Empty, NoneYet
<1>5. Chained(Empty.chain, {})
  BY <1>2 DEF Chained, Empty
<1>6. DOMAIN Empty.data = {}
  BY DEF Empty, NoneYet
<1>7. BlockHeld(Empty, <<>>)
  BY <1>1, <1>2, <1>3, <1>4, <1>5, <1>6 DEF BlockHeld
<1>8. 0 \in 0 .. Len(<<>>) /\ 0 <= CacheCap
  BY <1>2, CacheAssumption
<1> QED BY <1>1, <1>2, <1>3, <1>7, <1>8 DEF BlockOK, RecentHeld


(* What does not matter to the list: what was used, and what was put last. *)
WithNotes(d, u, l) == [d EXCEPT !.used = u, !.last = l]
Reput(c, k, v) == [c EXCEPT !.data[k] = v]

LEMMA HeldNoted ==
    ASSUME NEW d, NEW s, BlockHeld(d, s), NEW u, NEW l
    PROVE  /\ BlockHeld(WithNotes(d, u, l), s)
           /\ WithNotes(d, u, l).used = u /\ WithNotes(d, u, l).last = l /\ WithNotes(d, u, l).kind = d.kind
           /\ WithNotes(d, u, l).data = d.data /\ WithNotes(d, u, l).size = d.size
<1> DEFINE g == WithNotes(d, u, l)
<1>1. BlockShape(d)
  BY DEF BlockHeld
<1>2. /\ BlockShape(g) /\ g.used = u /\ g.last = l /\ g.kind = d.kind /\ g.data = d.data
      /\ g.size = d.size /\ g.head = d.head /\ g.tail = d.tail /\ g.next = d.next /\ g.prev = d.prev
      /\ g.chain = d.chain
  BY <1>1 DEF BlockShape, BlockFields, WithNotes
<1> HIDE DEF g
<1>3. LinksOK(g, s, ToSet(s))
  BY <1>2 DEF BlockHeld, LinksOK, Linked
<1>4. BlockHeld(g, s)
  BY <1>2, <1>3 DEF BlockHeld
<1> QED BY <1>2, <1>4 DEF g

LEMMA HeldData ==
    ASSUME NEW c, NEW s, BlockHeld(c, s), NEW k, NEW v
    PROVE  /\ BlockHeld(Reput(c, k, v), s) /\ SameNotes(Reput(c, k, v), c)
           /\ Reput(c, k, v).size = c.size
           /\ \A x \in ToSet(s) : Reput(c, k, v).data[x] = IF x = k THEN v ELSE c.data[x]
<1> DEFINE g == Reput(c, k, v)
<1>1. BlockShape(c) /\ DOMAIN c.data = ToSet(s)
  BY DEF BlockHeld
<1>2. /\ BlockShape(g) /\ g.used = c.used /\ g.last = c.last /\ g.kind = c.kind /\ g.data = [c.data EXCEPT ![k] = v]
      /\ g.size = c.size /\ g.head = c.head /\ g.tail = c.tail /\ g.next = c.next /\ g.prev = c.prev
      /\ g.chain = c.chain
  BY <1>1 DEF BlockShape, BlockFields, Reput
<1> HIDE DEF g
<1>3. LinksOK(g, s, ToSet(s))
  BY <1>2 DEF BlockHeld, LinksOK, Linked
<1>4. DOMAIN g.data = ToSet(s) /\ \A x \in ToSet(s) : g.data[x] = IF x = k THEN v ELSE c.data[x]
  BY <1>1, <1>2
<1>5. BlockHeld(g, s)
  BY <1>2, <1>3, <1>4 DEF BlockHeld
<1> QED BY <1>2, <1>4, <1>5 DEF SameNotes, g

(* What makes a cache right: its list is of the keys used last.            *)
LEMMA BlockOKBy ==
    ASSUME NEW d, NEW s, NEW w, NEW l, BlockHeld(d, s), d.kind = "bcache", w \in Seq(BlockKeys), Distinct(w),
           d.size \in 0 .. Len(w), d.size <= CacheCap,
           UpTo(w, d.size) = s, \A k \in ToSet(s) : k \in DOMAIN l /\ d.data[k] = l[k]
    PROVE  BlockOK(WithNotes(d, w, l))
BY HeldNoted DEF BlockOK, RecentHeld

LEMMA HitKept ==
    ASSUME NEW h, RecentHeld(h), NEW k \in BlockKeys, Found(h, k)
    PROVE  /\ BlockHeld(ToFront(h, k), UpTo(UsedNow(h.used, k), h.size)) /\ SameContent(ToFront(h, k), h)
           /\ UsedNow(h.used, k) \in Seq(BlockKeys) /\ Distinct(UsedNow(h.used, k))
           /\ h.size \in 0 .. Len(UsedNow(h.used, k))
           /\ ToSet(UpTo(UsedNow(h.used, k), h.size)) = DOMAIN h.data
           /\ DOMAIN h.data = ToSet(UpTo(h.used, h.size))
<1> DEFINE n == h.size
           s == UpTo(h.used, n)
           w == UsedNow(h.used, k)
<1>1. /\ h.used \in Seq(BlockKeys) /\ Distinct(h.used) /\ n \in 0 .. Len(h.used) /\ BlockHeld(h, s)
  BY DEF RecentHeld
<1>2. k \in ToSet(s)
  BY <1>1, FoundIs
<1>3. s \in Seq(BlockKeys) /\ Len(s) = n /\ (\A i \in 1 .. n : s[i] = h.used[i]) /\ ToSet(s) = {h.used[i] : i \in 1 .. n}
  BY <1>1, FrontIs
<1>4. PICK p \in 1 .. n : h.used[p] = k
  BY <1>2, <1>3
<1> HIDE DEF n, s, w
<1>5. s[p] = k /\ UpTo(w, n) = <<k>> \o RemoveAt(s, p) /\ n \in 0 .. Len(w)
  BY <1>1, <1>4, UsedHit DEF s, w
<1>6. BlockHeld(ToFront(h, k), <<k>> \o RemoveAt(s, p)) /\ SameContent(ToFront(h, k), h)
  BY <1>1, <1>3, <1>5, ToFrontIs
<1>7. w \in Seq(BlockKeys) /\ Distinct(w)
  BY <1>1, UsedIs DEF w
<1>8. DOMAIN h.data = ToSet(s)
  BY <1>1 DEF BlockHeld
<1>9. ToSet(UpTo(w, n)) = DOMAIN h.data
  BY <1>5, <1>6 DEF BlockHeld, SameContent
<1> QED BY <1>5, <1>6, <1>7, <1>8, <1>9 DEF n, s, w

(* A hit keeps the cache right.                                            *)
LEMMA FrontKeeps ==
    ASSUME NEW h, RecentHeld(h), NEW k \in BlockKeys, Found(h, k), NEW l,
           \A x \in ToSet(UpTo(h.used, h.size)) : x \in DOMAIN l /\ h.data[x] = l[x]
    PROVE  /\ BlockOK(WithNotes(ToFront(h, k), UsedNow(h.used, k), l))
           /\ ToFront(h, k).used = h.used /\ ToFront(h, k).last = h.last /\ BlockShape(ToFront(h, k))
<1> DEFINE d == ToFront(h, k)
           w == UsedNow(h.used, k)
           s == UpTo(w, h.size)
<1>1. /\ BlockHeld(d, s) /\ SameContent(d, h) /\ w \in Seq(BlockKeys) /\ Distinct(w)
      /\ h.size \in 0 .. Len(w) /\ ToSet(s) = ToSet(UpTo(h.used, h.size))
  BY HitKept
<1>2. h.kind = "bcache" /\ h.size <= CacheCap
  BY DEF RecentHeld
<1>3. d.used = h.used /\ d.last = h.last /\ d.kind = h.kind /\ d.size = h.size /\ d.data = h.data /\ BlockShape(d)
  BY <1>1 DEF SameContent, BlockHeld
<1> HIDE DEF d, s, w
<1>4. UpTo(w, d.size) = s
  BY <1>3 DEF s
<1>5. BlockOK(WithNotes(d, w, l))
  BY <1>1, <1>2, <1>3, <1>4, BlockOKBy
<1> QED BY <1>3, <1>5 DEF d, w

LEMMA BlockGetKeeps ==
    ASSUME BlockOK(handle), NEW k \in BlockKeys, BlockGet(k)
    PROVE  BlockOK(handle')
<1> DEFINE h == handle
           d == ToFront(h, k)
           w == UsedNow(h.used, k)
<1>1. BlockOK(WithNotes(d, w, h.last)) /\ d.used = h.used /\ d.last = h.last /\ BlockShape(d)
  BY FrontKeeps DEF BlockOK, BlockGet
<1>2. handle' = [d EXCEPT !.used = UsedNow(d.used, k)]
  BY DEF BlockGet
<1> HIDE DEF d
<1>3. handle' = [d EXCEPT !.used = w]
  BY <1>1, <1>2
<1> HIDE DEF w, h
<1>4. handle' = WithNotes(d, w, h.last)
  BY <1>1, <1>3 DEF BlockShape, BlockFields, WithNotes
<1> QED BY <1>1, <1>4

LEMMA BlockPutFoundKeeps ==
    ASSUME BlockOK(handle), NEW k \in BlockKeys, NEW v, Found(handle, k), BlockPut(k, v)
    PROVE  BlockOK(handle')
<1> DEFINE h == handle
           a == Reput(h, k, v)
           d == ToFront(a, k)
           w == UsedNow(h.used, k)
           l == Noting(h.last, k, v)
           s == UpTo(h.used, h.size)
<1>1. /\ h.kind = "bcache" /\ h.size <= CacheCap /\ BlockHeld(h, s)
      /\ h.used \in Seq(BlockKeys) /\ Distinct(h.used) /\ h.size \in 0 .. Len(h.used)
      /\ \A x \in ToSet(s) : x \in DOMAIN h.last /\ h.data[x] = h.last[x]
  BY DEF BlockOK, RecentHeld
<1>2. handle' = [d EXCEPT !.used = UsedNow(@, k), !.last = Noting(@, k, v)]
  BY DEF BlockPut, Stored, Reput
<1> HIDE DEF h, s
<1>3. /\ BlockHeld(a, s) /\ SameNotes(a, h) /\ a.size = h.size
      /\ \A x \in ToSet(s) : a.data[x] = IF x = k THEN v ELSE h.data[x]
  BY <1>1, HeldData
<1> HIDE DEF a
<1>4. Found(a, k)
  BY <1>1, <1>3, FoundIs DEF h
<1>5. RecentHeld(a)
  BY <1>1, <1>3 DEF RecentHeld, SameNotes, s
<1>6. \A x \in ToSet(UpTo(a.used, a.size)) : x \in DOMAIN l /\ a.data[x] = l[x]
  <2>1. ToSet(UpTo(a.used, a.size)) = ToSet(s)
    BY <1>3 DEF s, SameNotes
  <2> QED BY <1>1, <1>3, <2>1 DEF Noting
<1> HIDE DEF l
<1>7. BlockOK(WithNotes(d, UsedNow(a.used, k), l)) /\ d.used = a.used /\ d.last = a.last /\ BlockShape(d)
  BY <1>4, <1>5, <1>6, FrontKeeps
<1> HIDE DEF d
<1>8. handle' = WithNotes(d, UsedNow(a.used, k), l)
  BY <1>2, <1>3, <1>7 DEF WithNotes, SameNotes, l
<1> QED BY <1>7, <1>8


LEMMA BlockPutNewKeeps ==
    ASSUME BlockOK(handle), NEW k \in BlockKeys, NEW v, ~Found(handle, k), BlockPut(k, v)
    PROVE  BlockOK(handle')
<1> DEFINE h == handle
           n == h.size
           s == UpTo(h.used, n)
           e == EvictDownTo(h, CacheCap - 1)
           d == Added(e, k, v)
           w == UsedNow(h.used, k)
           l == Noting(h.last, k, v)
           m == IF n < CacheCap THEN n ELSE CacheCap - 1
           r == Spared(s)
           q == <<k>> \o r
<1>1. /\ h.kind = "bcache" /\ n <= CacheCap /\ BlockHeld(h, s)
      /\ h.used \in Seq(BlockKeys) /\ Distinct(h.used) /\ n \in 0 .. Len(h.used)
      /\ \A x \in ToSet(s) : x \in DOMAIN h.last /\ h.data[x] = h.last[x]
  BY DEF BlockOK, RecentHeld
<1>2. handle' = [d EXCEPT !.used = UsedNow(@, k), !.last = Noting(@, k, v)]
  BY DEF BlockPut, Stored, Added
<1> HIDE DEF h
<1>3. s \in Seq(BlockKeys) /\ Len(s) = n /\ n \in Nat
  <2>1. s \in Seq(BlockKeys) /\ Len(s) = n
    BY <1>1, FrontIs
  <2> QED BY <1>1, <2>1
<1> HIDE DEF n, s
<1>4. k \notin ToSet(s)
  BY <1>1, FoundIs DEF h
<1>5. /\ BlockHeld(e, r) /\ SameNotes(e, h)
      /\ \A x \in ToSet(r) : e.data[x] = h.data[x]
  BY <1>1, <1>3, SparedIs
<1>6. m \in 0 .. n /\ m + 1 <= CacheCap
  BY <1>1, <1>3, CacheAssumption
<1>7. r = UpTo(s, m)
  BY <1>3 DEF Spared
<1> HIDE DEF m, e, r
<1>8. /\ m + 1 \in 0 .. Len(w) /\ UpTo(w, m + 1) = <<k>> \o UpTo(h.used, m)
      /\ UpTo(s, m) = UpTo(h.used, m) /\ k \notin ToSet(UpTo(h.used, m))
  <2>1. s = UpTo(h.used, n) /\ k \notin ToSet(UpTo(h.used, n))
    BY <1>4 DEF s
  <2> DEFINE u == h.used
  <2>2. u \in Seq(BlockKeys) /\ Distinct(u) /\ n \in 0 .. Len(u) /\ m \in 0 .. n /\ k \notin ToSet(UpTo(u, n))
    BY <1>1, <1>6, <2>1
  <2>3. s = UpTo(u, n) /\ w = UsedNow(u, k)
    BY <2>1
  <2> HIDE DEF u, w
  <2>4. /\ m + 1 \in 0 .. Len(UsedNow(u, k))
        /\ UpTo(UsedNow(u, k), m + 1) = <<k>> \o UpTo(u, m)
        /\ UpTo(UpTo(u, n), m) = UpTo(u, m) /\ k \notin ToSet(UpTo(u, m))
    BY <2>2, UsedMiss
  <2> QED BY <2>3, <2>4 DEF u
<1>9. k \notin ToSet(r) /\ UpTo(w, m + 1) = q
  BY <1>7, <1>8
<1>10. BlockHeld(d, q) /\ SameNotes(d, e) /\ d.data = Noting(e.data, k, v)
  BY <1>5, <1>9, AddedIs
<1>11. w \in Seq(BlockKeys) /\ Distinct(w)
  BY <1>1, UsedIs
<1> HIDE DEF d, w
<1>12. Len(r) = m /\ r \in Seq(BlockKeys) /\ Distinct(r) /\ \A x \in ToSet(r) : x \in ToSet(s)
  <2>1. m \in 0 .. Len(s) /\ Distinct(s) /\ \A i \in 1 .. m : i \in 1 .. n
    BY <1>1, <1>3, <1>6 DEF BlockHeld
  <2>2. r \in Seq(BlockKeys) /\ Len(r) = m /\ Distinct(r) /\ ToSet(r) = {s[i] : i \in 1 .. m}
    BY <1>3, <1>7, <2>1, FrontIs
  <2>3. ToSet(s) = {s[i] : i \in 1 .. n}
    BY <1>3, PrecedesIs
  <2> QED BY <2>1, <2>2, <2>3
<1>13. ToSet(q) = ToSet(r) \cup {k} /\ Len(q) = m + 1
  <2>1. Len(q) = Len(r) + 1 /\ ToSet(q) = ToSet(r) \cup {k}
    BY <1>9, <1>12, MoreIs
  <2> QED BY <1>12, <2>1
<1> HIDE DEF q
<1>14. d.size = m + 1 /\ d.kind = "bcache" /\ d.used = h.used /\ d.last = h.last /\ BlockShape(d)
  BY <1>1, <1>5, <1>10, <1>13 DEF BlockHeld, SameNotes
<1>15. \A x \in ToSet(q) : x \in DOMAIN l /\ d.data[x] = l[x]
  <2> TAKE x \in ToSet(q)
  <2>1. DOMAIN e.data = ToSet(r)
    BY <1>5 DEF BlockHeld
  <2>2. CASE x = k
    BY <1>10, <2>2 DEF Noting
  <2>3. CASE x # k
    <3>1. x \in ToSet(r) /\ x \in DOMAIN h.last /\ e.data[x] = h.last[x]
      BY <1>1, <1>5, <1>12, <1>13, <2>3
    <3> QED BY <1>10, <2>1, <2>3, <3>1 DEF Noting
  <2> QED BY <2>2, <2>3
<1> HIDE DEF l
<1>16. BlockOK(WithNotes(d, w, l))
  BY <1>6, <1>8, <1>9, <1>10, <1>11, <1>14, <1>15, BlockOKBy
<1>17. handle' = WithNotes(d, w, l)
  BY <1>2, <1>14 DEF WithNotes, w, l
<1> QED BY <1>16, <1>17

LEMMA BlockInvalidateKeeps ==
    ASSUME BlockOK(handle), NEW k \in BlockKeys, BlockInvalidate(k)
    PROVE  BlockOK(handle')
<1> DEFINE h == handle
           n == h.size
           s == UpTo(h.used, n)
           d == Dropped(h, k)
           w == RemoveFirst(h.used, k)
<1>1. /\ h.kind = "bcache" /\ n <= CacheCap /\ BlockHeld(h, s)
      /\ h.used \in Seq(BlockKeys) /\ Distinct(h.used) /\ n \in 0 .. Len(h.used)
      /\ \A x \in ToSet(s) : x \in DOMAIN h.last /\ h.data[x] = h.last[x]
  BY DEF BlockOK, RecentHeld
<1>2. Found(h, k) /\ handle' = [d EXCEPT !.used = RemoveFirst(@, k)]
  BY DEF BlockInvalidate
<1> HIDE DEF h
<1>3. s \in Seq(BlockKeys) /\ Len(s) = n /\ Distinct(s) /\ ToSet(s) = {h.used[i] : i \in 1 .. n} /\ \A i \in 1 .. n : s[i] = h.used[i]
  BY <1>1, FrontIs
<1>4. PICK p \in 1 .. n : h.used[p] = k
  <2>1. k \in ToSet(s)
    BY <1>1, <1>2, FoundIs
  <2> QED BY <1>3, <2>1
<1>5. p \in 1 .. Len(s) /\ s[p] = k /\ p \in 1 .. Len(h.used) /\ n \in Nat /\ n # 0 /\ CacheCap \in Nat
  BY <1>1, <1>3, <1>4, CacheAssumption
<1> DEFINE r == RemoveAt(s, p)
<1> HIDE DEF n, s
<1>6. /\ BlockHeld(d, r) /\ SameNotes(d, h) /\ \A x \in ToSet(s) \ {k} : d.data[x] = h.data[x]
  BY <1>1, <1>5, DroppedIs
<1>7. Len(r) = n - 1 /\ ToSet(r) = ToSet(s) \ {k}
  BY <1>3, <1>5, LessIs
<1>8. w = RemoveAt(h.used, p)
  BY <1>1, <1>4, <1>5, RemoveFirstAt
<1> HIDE DEF w
<1>9. w \in Seq(BlockKeys) /\ Len(w) = Len(h.used) - 1 /\ Distinct(w)
  BY <1>1, <1>5, <1>8, LessIs
<1>10. UpTo(w, n - 1) = r
  BY <1>1, <1>4, <1>8, FrontLess DEF s
<1> HIDE DEF d, r
<1>11. d.size = n - 1 /\ d.kind = "bcache" /\ d.used = h.used /\ d.last = h.last /\ BlockShape(d)
  BY <1>1, <1>6, <1>7 DEF BlockHeld, SameNotes
<1>12. n - 1 \in 0 .. Len(w) /\ n - 1 <= CacheCap
  BY <1>1, <1>5, <1>9
<1>13. \A x \in ToSet(r) : x \in DOMAIN h.last /\ d.data[x] = h.last[x]
  BY <1>1, <1>6, <1>7
<1>14. BlockOK(WithNotes(d, w, h.last))
  BY <1>6, <1>9, <1>10, <1>11, <1>12, <1>13, BlockOKBy
<1>15. handle' = [d EXCEPT !.used = w]
  BY <1>2, <1>11 DEF w
<1>16. handle' = WithNotes(d, w, h.last)
  BY <1>11, <1>15 DEF WithNotes, BlockShape, BlockFields
<1> QED BY <1>14, <1>16

LEMMA BlockNextKeeps ==
    ASSUME BlockOK(handle), BlockNext
    PROVE  BlockOK(handle')
<1>1. ASSUME NEW k \in BlockKeys, NEW v \in BlockVals, BlockPut(k, v) PROVE BlockOK(handle')
  BY <1>1, BlockPutFoundKeeps, BlockPutNewKeeps
<1>2. ASSUME NEW k \in BlockKeys, BlockGet(k) PROVE BlockOK(handle')
  BY <1>2, BlockGetKeeps
<1>3. ASSUME NEW k \in BlockKeys, BlockInvalidate(k) PROVE BlockOK(handle')
  BY <1>3, BlockInvalidateKeeps
<1>4. BlockClear => BlockOK(handle')
  BY EmptyOK DEF BlockClear
<1> QED BY <1>1, <1>2, <1>3, <1>4 DEF BlockNext

LEMMA BlockTells == BlockOK(handle) => CacheKeepsRecent
<1> SUFFICES ASSUME BlockOK(handle) PROVE CacheKeepsRecent
  OBVIOUS
<1> DEFINE h == handle
           s == UpTo(h.used, h.size)
<1>1. /\ h.size <= CacheCap /\ BlockHeld(h, s)
      /\ \A x \in ToSet(s) : x \in DOMAIN h.last /\ h.data[x] = h.last[x]
  BY DEF BlockOK, RecentHeld
<1>2. s = SubSeq(h.used, 1, h.size)
  BY DEF UpTo
<1> HIDE DEF s
<1>3. ASSUME NEW b \in DOMAIN h.chain
      PROVE  ToSet(h.chain[b]) = {k \in ToSet(s) : Bucket(k) = b} /\ IsInjective(h.chain[b])
  <2>1. b \in 0 .. Buckets - 1 /\ h.chain[b] \in Seq(BlockKeys) /\ Distinct(h.chain[b])
    BY <1>1 DEF BlockHeld, Chained
  <2>2. DOMAIN h.chain[b] = 1 .. Len(h.chain[b])
    BY <2>1
  <2> QED BY <1>1, <2>1, <2>2 DEF BlockHeld, Chained, Distinct, IsInjective
<1>4. Linked(h, s) /\ Len(s) = h.size /\ DOMAIN h.data = ToSet(s)
  BY <1>1 DEF BlockHeld, LinksOK
<1> QED BY <1>1, <1>2, <1>3, <1>4 DEF CacheKeepsRecent

-----------------------------------------------------------------------------
(***************************************************************************)
(* The second-chance cache of mini-nosql-store.                            *)
(***************************************************************************)
ValidIn(h) == {i \in Slots : h.slots[i].valid}

ClockFields == {"kind", "count", "hand", "last", "evicted", "slots"}
SlotFields == {"valid", "key", "val", "ref"}

SlotsShaped(sl) ==
    /\ DOMAIN sl = Slots
    /\ \A i \in Slots : /\ sl[i] = [f \in SlotFields |-> sl[i][f]]
                        /\ sl[i].valid \in BOOLEAN /\ sl[i].ref \in {0, 1}

ClockShape(h) ==
    /\ h = [f \in ClockFields |-> h[f]] /\ h.kind = "clock"
    /\ h.hand \in Slots /\ h.evicted \in BOOLEAN /\ SlotsShaped(h.slots)
    /\ h.slots = [i \in Slots |-> h.slots[i]]

(* Keys stand once, each with its last value.                              *)
SlotsRight(sl, last) ==
    /\ \A i, j \in Slots : sl[i].valid /\ sl[j].valid /\ sl[i].key = sl[j].key => i = j
    /\ \A i \in Slots : sl[i].valid => sl[i].key \in DOMAIN last /\ sl[i].val = last[sl[i].key]

ClockOK(h) ==
    /\ ClockShape(h) /\ SlotsRight(h.slots, h.last)
    /\ ~h.evicted => h.count = Cardinality(ValidIn(h))
    /\ h.evicted => ValidIn(h) = Slots /\ h.count = NcCap - 1

LEMMA SlotsFacts == NcCap \in Nat \ {0} /\ IsFiniteSet(Slots) /\ Cardinality(Slots) = NcCap /\ 0 \in Slots
<1>1. NcCap \in Nat \ {0}
  BY CacheAssumption
<1>2. IsFiniteSet(0 .. NcCap - 1) /\ Cardinality(0 .. NcCap - 1) = (NcCap - 1) - 0 + 1
  BY <1>1, FS_Interval
<1> QED BY <1>1, <1>2 DEF Slots

LEMMA NewClockOK == ClockOK(NewClock)
<1>1. ValidIn(NewClock) = {}
  BY DEF ValidIn, NewClock
<1>2. ClockShape(NewClock)
  BY SlotsFacts DEF ClockShape, SlotsShaped, NewClock, ClockFields, SlotFields
<1>3. SlotsRight(NewClock.slots, NewClock.last)
  BY DEF SlotsRight, NewClock
<1>4. NewClock.count = Cardinality({}) /\ ~NewClock.evicted
  BY FS_EmptySet DEF NewClock
<1> QED BY <1>1, <1>2, <1>3, <1>4 DEF ClockOK

(* A slot gets an entry.                                                   *)
LEMMA FillingIs ==
    ASSUME NEW h, ClockShape(h), SlotsRight(h.slots, h.last), NEW i \in Slots, NEW k, NEW v,
           \A j \in Slots : j # i /\ h.slots[j].valid => h.slots[j].key # k
    PROVE  /\ ClockShape(Filling(h, i, k, v)) /\ SlotsRight(Filling(h, i, k, v).slots, Filling(h, i, k, v).last)
           /\ ValidIn(Filling(h, i, k, v)) = ValidIn(h) \cup {i}
           /\ Filling(h, i, k, v).count = h.count /\ Filling(h, i, k, v).evicted = h.evicted
<1> DEFINE g == Filling(h, i, k, v)
           e == [valid |-> TRUE, key |-> k, val |-> v, ref |-> 1]
<1>1. /\ g = [f \in ClockFields |-> g[f]] /\ g.kind = "clock"
      /\ g.count = h.count /\ g.hand = h.hand /\ g.evicted = h.evicted
      /\ g.slots = [h.slots EXCEPT ![i] = e] /\ g.last = Noting(h.last, k, v)
  BY DEF Filling, ClockShape, ClockFields
<1> HIDE DEF g
<1>2. \A j \in Slots : g.slots[j] = IF j = i THEN e ELSE h.slots[j]
  BY <1>1 DEF ClockShape, SlotsShaped
<1>3. g.slots = [j \in Slots |-> g.slots[j]] /\ DOMAIN g.slots = Slots
  BY <1>1 DEF ClockShape, SlotsShaped
<1>4. SlotsShaped(g.slots)
  <2>1. e = [f \in SlotFields |-> e[f]] /\ e.valid \in BOOLEAN /\ e.ref \in {0, 1}
    BY DEF SlotFields
  <2> HIDE DEF e
  <2> QED BY <1>2, <1>3, <2>1 DEF ClockShape, SlotsShaped
<1>5. ClockShape(g)
  BY <1>1, <1>3, <1>4 DEF ClockShape
<1>6. SlotsRight(g.slots, g.last)
  <2>1. \A j, m \in Slots : g.slots[j].valid /\ g.slots[m].valid /\ g.slots[j].key = g.slots[m].key => j = m
    BY <1>2 DEF SlotsRight
  <2>2. ASSUME NEW j \in Slots, g.slots[j].valid
        PROVE  g.slots[j].key \in DOMAIN g.last /\ g.slots[j].val = g.last[g.slots[j].key]
    <3>1. CASE j = i
      <4>1. g.slots[j] = e /\ e.key = k /\ e.val = v
        BY <1>2, <3>1
      <4>2. k \in DOMAIN g.last /\ g.last[k] = v
        BY <1>1 DEF Noting
      <4> HIDE DEF e
      <4> QED BY <4>1, <4>2
    <3>2. CASE j # i
      <4>1. /\ h.slots[j].valid /\ h.slots[j].key # k /\ h.slots[j].key \in DOMAIN h.last
            /\ h.slots[j].val = h.last[h.slots[j].key] /\ g.slots[j] = h.slots[j]
        BY <1>2, <2>2, <3>2 DEF SlotsRight
      <4> QED BY <1>1, <4>1 DEF Noting
    <3> QED BY <3>1, <3>2
  <2> QED BY <2>1, <2>2 DEF SlotsRight
<1>7. ValidIn(g) = ValidIn(h) \cup {i}
  BY <1>2 DEF ValidIn
<1> QED BY <1>1, <1>5, <1>6, <1>7 DEF g

LEMMA ClockPutThereKeeps ==
    ASSUME ClockOK(handle), NEW k, NEW v, ClockPutThere(k, v)
    PROVE  ClockOK(handle')
<1>1. PICK i \in SlotsOf(handle, k) : handle' = Filling(handle, i, k, v)
  BY DEF ClockPutThere
<1>2. i \in Slots /\ i \in ValidIn(handle) /\ handle.slots[i].valid /\ handle.slots[i].key = k
  BY DEF SlotsOf, ValidIn
<1>3. ClockShape(handle) /\ SlotsRight(handle.slots, handle.last)
  BY DEF ClockOK
<1>4. \A j \in Slots : j # i /\ handle.slots[j].valid => handle.slots[j].key # k
  BY <1>2, <1>3 DEF SlotsRight
<1> DEFINE g == Filling(handle, i, k, v)
<1>5. /\ ClockShape(g) /\ SlotsRight(g.slots, g.last) /\ ValidIn(g) = ValidIn(handle) \cup {i}
      /\ g.count = handle.count /\ g.evicted = handle.evicted
  BY <1>2, <1>3, <1>4, FillingIs
<1> HIDE DEF g
<1>6. ValidIn(g) = ValidIn(handle)
  BY <1>2, <1>5
<1>7. ClockOK(g)
  BY <1>5, <1>6 DEF ClockOK
<1> QED BY <1>1, <1>7 DEF g

LEMMA ClockPutFreeKeeps ==
    ASSUME ClockOK(handle), NEW k, NEW v, ClockPutFree(k, v)
    PROVE  ClockOK(handle')
<1> DEFINE h == [handle EXCEPT !.count = @ + 1]
<1>1. PICK i \in Slots : ~handle.slots[i].valid /\ handle' = Filling(h, i, k, v)
  BY DEF ClockPutFree
<1>2. SlotsOf(handle, k) = {}
  BY DEF ClockPutFree
<1>3. ClockShape(handle) /\ SlotsRight(handle.slots, handle.last)
  BY DEF ClockOK
<1>4. /\ ClockShape(h) /\ SlotsRight(h.slots, h.last) /\ h.slots = handle.slots /\ h.evicted = handle.evicted
      /\ h.count = handle.count + 1
  BY <1>3 DEF ClockShape
<1> DEFINE g == Filling(h, i, k, v)
<1> HIDE DEF h
<1>5. \A j \in Slots : j # i /\ h.slots[j].valid => h.slots[j].key # k
  BY <1>2, <1>4 DEF SlotsOf
<1>6. /\ ClockShape(g) /\ SlotsRight(g.slots, g.last) /\ ValidIn(g) = ValidIn(h) \cup {i}
      /\ g.count = h.count /\ g.evicted = h.evicted
  BY <1>4, <1>5, FillingIs
<1> HIDE DEF g
<1>7. ValidIn(h) = ValidIn(handle) /\ i \notin ValidIn(handle) /\ ~handle.evicted
  BY <1>1, <1>4 DEF ValidIn, ClockOK
<1>8. IsFiniteSet(ValidIn(handle))
  BY SlotsFacts, FS_Subset DEF ValidIn
<1>9. Cardinality(ValidIn(handle) \cup {i}) = Cardinality(ValidIn(handle)) + 1
  BY <1>7, <1>8, FS_AddElement
<1>10. ClockOK(g)
  BY <1>4, <1>6, <1>7, <1>9 DEF ClockOK
<1> QED BY <1>1, <1>10 DEF g

(* The states that the hand of the clock passes.                           *)
Ticked(h, r, n) == [h EXCEPT !.slots = [i \in Slots |-> [h.slots[i] EXCEPT !.ref = r[i]]], !.hand = n]
Ticks(h) == {Ticked(h, r, n) : r \in [Slots -> {0, 1}], n \in Slots}

LEMMA TickedIs ==
    ASSUME NEW h, ClockShape(h), SlotsRight(h.slots, h.last), NEW x \in Ticks(h)
    PROVE  /\ ClockShape(x) /\ SlotsRight(x.slots, x.last) /\ x.last = h.last /\ x.count = h.count /\ x.evicted = h.evicted
           /\ \A i \in Slots : x.slots[i].valid = h.slots[i].valid /\ x.slots[i].key = h.slots[i].key
<1>1. PICK r \in [Slots -> {0, 1}], n \in Slots : x = Ticked(h, r, n)
  BY DEF Ticks
<1>2. /\ x = [f \in ClockFields |-> x[f]] /\ x.kind = "clock"
      /\ x.last = h.last /\ x.count = h.count /\ x.evicted = h.evicted /\ x.hand = n
      /\ x.slots = [i \in Slots |-> [h.slots[i] EXCEPT !.ref = r[i]]]
  BY <1>1 DEF Ticked, ClockShape, ClockFields
<1>3. ASSUME NEW i \in Slots
      PROVE  /\ x.slots[i] = [f \in SlotFields |-> x.slots[i][f]] /\ x.slots[i].ref = r[i]
             /\ x.slots[i].valid = h.slots[i].valid /\ x.slots[i].key = h.slots[i].key
             /\ x.slots[i].val = h.slots[i].val /\ h.slots[i].valid \in BOOLEAN
  <2>1. h.slots[i] = [f \in SlotFields |-> h.slots[i][f]] /\ h.slots[i].valid \in BOOLEAN
    BY DEF ClockShape, SlotsShaped
  <2>2. x.slots[i] = [h.slots[i] EXCEPT !.ref = r[i]]
    BY <1>2
  <2> QED BY <2>1, <2>2 DEF SlotFields
<1>4. DOMAIN x.slots = Slots /\ x.slots = [i \in Slots |-> x.slots[i]]
  BY <1>2
<1>5. SlotsShaped(x.slots)
  BY <1>3, <1>4 DEF SlotsShaped
<1>6. ClockShape(x)
  BY <1>2, <1>4, <1>5 DEF ClockShape
<1>7. SlotsRight(x.slots, x.last)
  <2>1. x.last = h.last /\ \A i \in Slots : /\ x.slots[i].valid = h.slots[i].valid
                                           /\ x.slots[i].key = h.slots[i].key
                                           /\ x.slots[i].val = h.slots[i].val
    BY <1>2, <1>3
  <2> QED BY <2>1 DEF SlotsRight
<1> QED BY <1>2, <1>3, <1>6, <1>7

LEMMA TickStays ==
    ASSUME NEW h, ClockShape(h), SlotsRight(h.slots, h.last), NEW x \in Ticks(h)
    PROVE  OnePassed(x) \in Ticks(h)
<1>1. PICK r \in [Slots -> {0, 1}], n \in Slots : x = Ticked(h, r, n)
  BY DEF Ticks
<1> DEFINE q == [r EXCEPT ![n] = 0]
           m == (n + 1) % NcCap
<1>2. q \in [Slots -> {0, 1}] /\ m \in Slots
  BY SlotsFacts DEF Slots
<1>3. OnePassed(x) = x \/ OnePassed(x) = [x EXCEPT !.slots[x.hand].ref = 0, !.hand = (x.hand + 1) % NcCap]
  BY DEF OnePassed
<1>4. x.hand = n /\ x.slots = [i \in Slots |-> [h.slots[i] EXCEPT !.ref = r[i]]]
  BY <1>1 DEF Ticked, ClockShape, ClockFields
<1>5. [x EXCEPT !.slots[x.hand].ref = 0, !.hand = (x.hand + 1) % NcCap] = Ticked(h, q, m)
  <2>1. [x.slots EXCEPT ![n].ref = 0] = [i \in Slots |-> [h.slots[i] EXCEPT !.ref = q[i]]]
    <3>1. \A i \in Slots : [h.slots[i] EXCEPT !.ref = 0] = [[h.slots[i] EXCEPT !.ref = r[i]] EXCEPT !.ref = 0]
      BY DEF ClockShape, SlotsShaped, SlotFields
    <3> QED BY <1>4, <3>1
  <2>2. [x EXCEPT !.slots[x.hand].ref = 0, !.hand = (x.hand + 1) % NcCap] = [x EXCEPT !.slots = [x.slots EXCEPT ![n].ref = 0], !.hand = m]
    BY <1>4
  <2> QED BY <1>1, <2>1, <2>2 DEF Ticked, ClockShape
<1> HIDE DEF q, m
<1> QED BY <1>2, <1>3, <1>5 DEF Ticks

LEMMA SweptStays ==
    ASSUME NEW h, ClockShape(h), SlotsRight(h.slots, h.last)
    PROVE  Swept(h) \in Ticks(h)
<1> DEFINE m == NcCap
           S == Ticks(h)
           f == [x \in S |-> OnePassed(x)]
           Solves(r) == r = [i \in 0 .. m |-> IF i = 0 THEN h ELSE OnePassed(r[i - 1])]
           w == CHOOSE r : Solves(r)
<1>1. Swept(h) = w[m]
  BY DEF Swept, Iterated
<1>2. m \in Nat \ {0}
  BY SlotsFacts
<1> HIDE DEF m
<1>3. h \in S /\ \A x \in S : OnePassed(x) \in S
  <2>1. h = Ticked(h, [i \in Slots |-> h.slots[i].ref], h.hand)
    <3>1. h.slots = [i \in Slots |-> [h.slots[i] EXCEPT !.ref = h.slots[i].ref]]
      BY DEF ClockShape, SlotsShaped
    <3> QED BY <3>1 DEF ClockShape, Ticked
  <2>2. [i \in Slots |-> h.slots[i].ref] \in [Slots -> {0, 1}] /\ h.hand \in Slots
    BY DEF ClockShape, SlotsShaped
  <2>3. h \in S
    BY <2>1, <2>2 DEF Ticks
  <2> QED BY <2>3, TickStays
<1> HIDE DEF S
<1>4. f \in [S -> S] /\ \A x \in S : f[x] = OnePassed(x)
  BY <1>3
<1> HIDE DEF f
<1>5. PICK r \in [0 .. m -> S] : Repeats(r, m, h, f)
  BY <1>2, <1>3, <1>4, RepeatSolved
<1>6. \A i \in 0 .. m : r[i] = IF i = 0 THEN h ELSE OnePassed(r[i - 1])
  <2> TAKE i \in 0 .. m
  <2>1. i # 0 => i - 1 \in 0 .. m
    BY <1>2
  <2>2. i # 0 => r[i - 1] \in S
    BY <1>5, <2>1
  <2> QED BY <1>4, <1>5, <2>2 DEF Repeats
<1>7. Solves(r)
  <2>1. r = [i \in 0 .. m |-> r[i]]
    BY <1>5
  <2> QED BY <1>6, <2>1
<1>8. Solves(w)
  <2> HIDE DEF Solves
  <2> QED BY <1>7
<1> HIDE DEF w
<1>9. w[0] = h /\ \A i \in 1 .. m : w[i] = OnePassed(w[i - 1])
  BY <1>2, <1>8
<1> HIDE DEF Solves
<1> DEFINE P == {i \in 0 .. m : w[i] \in S}
<1>10. 0 \in P
  BY <1>2, <1>3, <1>9
<1>11. ASSUME NEW i \in 1 .. m, i - 1 \in P PROVE i \in P
  BY <1>2, <1>3, <1>9, <1>11
<1>12. m \in P
  <2> HIDE DEF P
  <2> QED BY <1>2, <1>10, <1>11, InductionUpTo, SMTT(60)
<1> QED BY <1>1, <1>12 DEF S


LEMMA ClockPutOverKeeps ==
    ASSUME ClockOK(handle), NEW k, NEW v, ClockPutOver(k, v)
    PROVE  ClockOK(handle')
<1> DEFINE x == Swept(handle)
           h == [x EXCEPT !.hand = (@ + 1) % NcCap, !.count = @ - 1, !.evicted = TRUE]
           i == x.hand
           g == Filling(h, i, k, v)
<1>1. SlotsOf(handle, k) = {} /\ handle.count >= NcCap /\ handle' = g
  BY DEF ClockPutOver
<1>2. ClockShape(handle) /\ SlotsRight(handle.slots, handle.last)
  BY DEF ClockOK
<1>3. x \in Ticks(handle)
  BY <1>2, SweptStays
<1> HIDE DEF x
<1>4. /\ ClockShape(x) /\ SlotsRight(x.slots, x.last) /\ x.last = handle.last /\ x.count = handle.count
      /\ \A j \in Slots : x.slots[j].valid = handle.slots[j].valid /\ x.slots[j].key = handle.slots[j].key
  BY <1>2, <1>3, TickedIs
<1>5. i \in Slots /\ (i + 1) % NcCap \in Slots
  BY <1>4, SlotsFacts DEF ClockShape, Slots
<1>6. /\ ClockShape(h) /\ SlotsRight(h.slots, h.last) /\ h.slots = x.slots /\ h.evicted = TRUE
      /\ h.count = x.count - 1
  <2>1. /\ h = [f \in ClockFields |-> h[f]] /\ h.kind = "clock" /\ h.last = x.last /\ h.slots = x.slots
        /\ h.evicted = TRUE /\ h.count = x.count - 1 /\ h.hand = (i + 1) % NcCap
    BY <1>4 DEF ClockShape, ClockFields
  <2> HIDE DEF h
  <2> QED BY <1>4, <1>5, <2>1 DEF ClockShape
<1> HIDE DEF h
<1>7. \A j \in Slots : j # i /\ h.slots[j].valid => h.slots[j].key # k
  BY <1>1, <1>4, <1>6 DEF SlotsOf
<1> HIDE DEF i
<1>8. /\ ClockShape(g) /\ SlotsRight(g.slots, g.last) /\ ValidIn(g) = ValidIn(h) \cup {i}
      /\ g.count = h.count /\ g.evicted = h.evicted
  BY <1>5, <1>6, <1>7, FillingIs
<1> HIDE DEF g
<1>9. handle.evicted \in BOOLEAN /\ NcCap \in Nat \ {0}
  BY <1>2, SlotsFacts DEF ClockShape
<1>10. ~handle.evicted
  BY <1>1, <1>9 DEF ClockOK
<1>11. ValidIn(handle) \in SUBSET Slots /\ handle.count = Cardinality(ValidIn(handle))
  BY <1>10 DEF ValidIn, ClockOK
<1>12. Cardinality(ValidIn(handle)) <= NcCap /\ Cardinality(ValidIn(handle)) \in Nat
  BY <1>11, SlotsFacts, FS_Subset, FS_CardinalityType
<1>13. handle.count = NcCap
  BY <1>1, <1>9, <1>11, <1>12
<1>14. ValidIn(handle) = Slots
  BY <1>11, <1>13, SlotsFacts, FS_Subset
<1>15. ValidIn(h) = ValidIn(handle)
  BY <1>4, <1>6 DEF ValidIn
<1>16. ClockOK(g)
  BY <1>4, <1>5, <1>6, <1>8, <1>13, <1>14, <1>15 DEF ClockOK
<1> QED BY <1>1, <1>16

LEMMA ClockGetKeeps ==
    ASSUME ClockOK(handle), NEW k, ClockGet(k)
    PROVE  ClockOK(handle')
<1>1. PICK i \in Slots : handle' = [handle EXCEPT !.slots[i].ref = 1]
  BY DEF ClockGet, SlotsOf
<1> DEFINE h == handle
           g == [h EXCEPT !.slots[i].ref = 1]
<1>2. ClockShape(h) /\ SlotsRight(h.slots, h.last)
  BY DEF ClockOK
<1>3. handle' = g
  BY <1>1
<1>4. /\ g = [f \in ClockFields |-> g[f]] /\ g.kind = "clock" /\ g.last = h.last /\ g.count = h.count
      /\ g.hand = h.hand /\ g.evicted = h.evicted /\ g.slots = [h.slots EXCEPT ![i].ref = 1]
  BY <1>2 DEF ClockShape, ClockFields
<1> HIDE DEF g
<1>5. ASSUME NEW j \in Slots
      PROVE  /\ g.slots[j] = [f \in SlotFields |-> g.slots[j][f]] /\ g.slots[j].ref \in {0, 1}
             /\ g.slots[j].valid = h.slots[j].valid /\ g.slots[j].key = h.slots[j].key
             /\ g.slots[j].val = h.slots[j].val /\ h.slots[j].valid \in BOOLEAN
  <2>1. /\ h.slots[j] = [f \in SlotFields |-> h.slots[j][f]] /\ h.slots[j].valid \in BOOLEAN
        /\ h.slots[j].ref \in {0, 1} /\ DOMAIN h.slots = Slots
    BY <1>2 DEF ClockShape, SlotsShaped
  <2>2. g.slots[j] = IF j = i THEN [h.slots[j] EXCEPT !.ref = 1] ELSE h.slots[j]
    BY <1>4, <2>1
  <2>3. CASE j = i
    <3>1. g.slots[j] = [h.slots[j] EXCEPT !.ref = 1]
      BY <2>2, <2>3
    <3> QED BY <2>1, <3>1 DEF SlotFields
  <2>4. CASE j # i
    BY <2>1, <2>2, <2>4
  <2> QED BY <2>3, <2>4
<1>6. g.slots = [j \in Slots |-> g.slots[j]] /\ DOMAIN g.slots = Slots
  BY <1>2, <1>4 DEF ClockShape, SlotsShaped
<1>7. ClockShape(g)
  <2>1. SlotsShaped(g.slots)
    BY <1>5, <1>6 DEF SlotsShaped
  <2> QED BY <1>2, <1>4, <1>6, <2>1 DEF ClockShape
<1>8. \A j \in Slots : /\ g.slots[j].valid = h.slots[j].valid /\ g.slots[j].key = h.slots[j].key
                       /\ g.slots[j].val = h.slots[j].val
  BY <1>5
<1>9. SlotsRight(g.slots, g.last)
  <2>1. g.last = h.last /\ SlotsRight(h.slots, h.last)
    BY <1>2, <1>4
  <2> HIDE DEF h
  <2> QED BY <1>8, <2>1 DEF SlotsRight
<1>10. ValidIn(g) = ValidIn(h)
  BY <1>8 DEF ValidIn
<1>11. ClockOK(g)
  BY <1>4, <1>7, <1>9, <1>10 DEF ClockOK
<1> QED BY <1>3, <1>11

LEMMA ClockNextKeeps == ClockOK(handle) /\ ClockNext => ClockOK(handle')
BY ClockPutThereKeeps, ClockPutFreeKeeps, ClockPutOverKeeps, ClockGetKeeps DEF ClockNext

LEMMA ClockTells == ClockOK(handle) => ClockCountsSlots
<1> SUFFICES ASSUME ClockOK(handle) PROVE ClockCountsSlots
  OBVIOUS
<1>1. ClockShape(handle) /\ SlotsRight(handle.slots, handle.last)
  BY DEF ClockOK
<1>2. ASSUME NEW k \in NcKeys PROVE Cardinality(SlotsOf(handle, k)) <= 1
  <2>1. CASE SlotsOf(handle, k) = {}
    BY <2>1, FS_EmptySet
  <2>2. CASE SlotsOf(handle, k) # {}
    <3>1. PICK i : i \in SlotsOf(handle, k)
      BY <2>2
    <3>2. SlotsOf(handle, k) = {i}
      BY <1>1, <3>1 DEF SlotsOf, SlotsRight
    <3> QED BY <3>2, FS_Singleton
  <2> QED BY <2>1, <2>2
<1>3. {i \in Slots : handle.slots[i].valid} = ValidIn(handle)
  BY DEF ValidIn
<1>4. \A i \in ValidIn(handle) : handle.slots[i].val = handle.last[handle.slots[i].key]
  BY <1>1 DEF ValidIn, SlotsRight
<1> QED BY <1>2, <1>3, <1>4 DEF ClockCountsSlots, ClockOK

-----------------------------------------------------------------------------
(***************************************************************************)
(* The least-recently-used cache of mini-nosql-store.                      *)
(***************************************************************************)
LruEntries == [key : NcKeys, val : NcVals, ttl : NcTimes]

(* The entries stand in the order in which their keys were used, each with *)
(* what was put last.                                                      *)
Recent(s, u, l) ==
    /\ s \in Seq(LruEntries)
    /\ \A i \in 1 .. Len(s) : s[i].key \in ToSet(u) /\ s[i].key \in DOMAIN l /\ s[i].val = l[s[i].key]
    /\ \A i, j \in 1 .. Len(s) : i < j => Precedes(u, s[i].key, s[j].key)

LruFields == {"kind", "list", "now", "last", "used"}
LruShape(h) == h = [f \in LruFields |-> h[f]] /\ h.kind = "lru"

LruKept(h) ==
    /\ LruShape(h) /\ h.used \in Seq(NcKeys) /\ Distinct(h.used) /\ Len(h.list) <= NcCap
    /\ Recent(h.list, h.used, h.last)

(* Some of the entries, in their order.                                    *)
Some(t, s) ==
    /\ t \in Seq(LruEntries)
    /\ \E p \in [1 .. Len(t) -> 1 .. Len(s)] :
          /\ \A i, j \in 1 .. Len(t) : i < j => p[i] < p[j]
          /\ \A i \in 1 .. Len(t) : t[i] = s[p[i]]

LEMMA SomeRecent ==
    ASSUME NEW s, NEW u, NEW l, Recent(s, u, l), NEW t, Some(t, s)
    PROVE  Recent(t, u, l)
<1>1. PICK p \in [1 .. Len(t) -> 1 .. Len(s)] : /\ \A i, j \in 1 .. Len(t) : i < j => p[i] < p[j]
                                               /\ \A i \in 1 .. Len(t) : t[i] = s[p[i]]
  BY DEF Some
<1>2. /\ \A i \in 1 .. Len(s) : s[i].key \in ToSet(u) /\ s[i].key \in DOMAIN l /\ s[i].val = l[s[i].key]
      /\ \A i, j \in 1 .. Len(s) : i < j => Precedes(u, s[i].key, s[j].key)
  BY DEF Recent
<1>3. \A i \in 1 .. Len(t) : p[i] \in 1 .. Len(s)
  OBVIOUS
<1>4. \A i \in 1 .. Len(t) : t[i].key \in ToSet(u) /\ t[i].key \in DOMAIN l /\ t[i].val = l[t[i].key]
  BY <1>1, <1>2, <1>3
<1>5. \A i, j \in 1 .. Len(t) : i < j => Precedes(u, t[i].key, t[j].key)
  BY <1>1, <1>2, <1>3
<1> QED BY <1>4, <1>5 DEF Recent, Some

LEMMA SomeLess ==
    ASSUME NEW s \in Seq(LruEntries), NEW p \in 1 .. Len(s)
    PROVE  Some(RemoveAt(s, p), s) /\ Len(RemoveAt(s, p)) = Len(s) - 1
<1> DEFINE r == RemoveAt(s, p)
           n == Len(s)
           q == [i \in 1 .. n - 1 |-> IF i < p THEN i ELSE i + 1]
<1>1. r \in Seq(LruEntries) /\ Len(r) = n - 1 /\ \A i \in 1 .. n - 1 : r[i] = IF i < p THEN s[i] ELSE s[i + 1]
  BY RemovedIs DEF OneLess
<1>2. n \in Nat /\ p \in 1 .. n
  OBVIOUS
<1> HIDE DEF r, n
<1>3. q \in [1 .. n - 1 -> 1 .. n] /\ \A i, j \in 1 .. n - 1 : i < j => q[i] < q[j]
  BY <1>2
<1>4. \A i \in 1 .. n - 1 : r[i] = s[q[i]]
  BY <1>1
<1> HIDE DEF q
<1> QED BY <1>1, <1>3, <1>4 DEF Some, r, n

LEMMA SomeFirst ==
    ASSUME NEW s \in Seq(LruEntries), NEW m \in 0 .. Len(s)
    PROVE  Some(SubSeq(s, 1, m), s) /\ Len(SubSeq(s, 1, m)) = m
<1> DEFINE t == SubSeq(s, 1, m)
           n == Len(s)
           q == [i \in 1 .. m |-> i]
<1>1. t \in Seq(LruEntries) /\ Len(t) = m /\ \A i \in 1 .. m : t[i] = s[i]
  OBVIOUS
<1>2. n \in Nat /\ m \in 0 .. n
  OBVIOUS
<1> HIDE DEF t, n
<1>3. q \in [1 .. m -> 1 .. n] /\ (\A i, j \in 1 .. m : i < j => q[i] < q[j]) /\ \A i \in 1 .. m : t[i] = s[q[i]]
  BY <1>1, <1>2
<1> HIDE DEF q
<1> QED BY <1>1, <1>3 DEF Some, t, n

LEMMA SomeThose ==
    ASSUME NEW s \in Seq(LruEntries), NEW I \in SUBSET (1 .. Len(s))
    PROVE  Some(Those(s, I), s) /\ Len(Those(s, I)) <= Len(s)
<1> DEFINE n == Len(s)
           c == Cardinality(I)
           p == Ordered(I)
           t == Those(s, I)
<1>1. n \in Nat /\ IsFiniteSet(1 .. n) /\ Cardinality(1 .. n) = n
  <2>1. n \in Nat
    OBVIOUS
  <2> HIDE DEF n
  <2> QED BY <2>1, FS_Interval
<1>2. IsFiniteSet(I) /\ c <= n
  BY <1>1, FS_Subset
<1>3. p = Ranking(I)
  BY DEF Ordered, Ranking
<1>4. I \in SUBSET Int
  OBVIOUS
<1>5. p \in [1 .. c -> I] /\ c \in Nat /\ \A i, j \in 1 .. c : i < j => p[i] < p[j]
  BY <1>2, <1>3, <1>4, RankingRanks DEF Ranks
<1>6. t = [i \in DOMAIN p |-> s[p[i]]]
  BY DEF Those
<1> HIDE DEF p, t, n, c
<1>7. t = [i \in 1 .. c |-> s[p[i]]] /\ \A i \in 1 .. c : s[p[i]] \in LruEntries /\ p[i] \in 1 .. n
  <2>1. DOMAIN p = 1 .. c /\ \A i \in 1 .. c : p[i] \in I
    BY <1>5
  <2>2. I \subseteq 1 .. n /\ \A j \in 1 .. n : s[j] \in LruEntries
    BY DEF n
  <2> QED BY <1>6, <2>1, <2>2
<1>8. t \in Seq(LruEntries) /\ Len(t) = c /\ \A i \in 1 .. c : t[i] = s[p[i]]
  BY <1>5, <1>7
<1>9. p \in [1 .. c -> 1 .. n]
  BY <1>5, <1>7
<1> QED BY <1>2, <1>5, <1>8, <1>9 DEF Some, t, n

(* An entry comes to the front.                                            *)
LEMMA RecentMore ==
    ASSUME NEW t, NEW u \in Seq(NcKeys), Distinct(u), NEW l, Recent(t, u, l), NEW e \in LruEntries,
           \A i \in 1 .. Len(t) : t[i].key # e.key, NEW m, e.key \in DOMAIN m, m[e.key] = e.val,
           \A x \in DOMAIN l \ {e.key} : x \in DOMAIN m /\ m[x] = l[x]
    PROVE  /\ Recent(<<e>> \o t, UsedNow(u, e.key), m) /\ UsedNow(u, e.key) \in Seq(NcKeys)
           /\ Distinct(UsedNow(u, e.key)) /\ Len(<<e>> \o t) = Len(t) + 1
<1> DEFINE k == e.key
           w == UsedNow(u, k)
           q == <<e>> \o t
           n == Len(t)
<1>1. k \in NcKeys
  BY DEF LruEntries
<1>2. w = LruTouch(u, k)
  BY DEF UsedNow, LruTouch
<1>3. Touched(NcKeys, u, k, w)
  BY <1>1, <1>2, TouchIs
<1> HIDE DEF w
<1>4. w \in Seq(NcKeys) /\ Distinct(w) /\ ToSet(w) = ToSet(u) \cup {k}
  BY <1>3 DEF Touched
<1>5. \A y, z : Precedes(w, y, z) <=> \/ y = k /\ z # k /\ z \in ToSet(u)
                                      \/ y # k /\ z # k /\ Precedes(u, y, z)
  BY <1>3 DEF Touched
<1>6. t \in Seq(LruEntries) /\ n \in Nat
  BY DEF Recent
<1>7. q \in Seq(LruEntries) /\ Len(q) = n + 1 /\ q[1] = e /\ \A i \in 2 .. n + 1 : q[i] = t[i - 1]
  BY <1>6
<1>8. \A i \in 1 .. n : t[i].key \in ToSet(u) /\ t[i].key \in DOMAIN l /\ t[i].val = l[t[i].key] /\ t[i].key # k
  BY DEF Recent
<1>9. \A i, j \in 1 .. n : i < j => Precedes(u, t[i].key, t[j].key)
  BY DEF Recent
<1> HIDE DEF q, n
<1>10. \A i \in 2 .. n + 1 : i - 1 \in 1 .. n
  BY <1>6
<1>11. \A i \in 1 .. n + 1 : i = 1 \/ i \in 2 .. n + 1
  BY <1>6
<1>12. ASSUME NEW i \in 1 .. n + 1
       PROVE  q[i].key \in ToSet(w) /\ q[i].key \in DOMAIN m /\ q[i].val = m[q[i].key]
  <2>1. CASE i = 1
    BY <1>4, <1>7, <2>1
  <2>2. CASE i \in 2 .. n + 1
    <3>1. q[i] = t[i - 1] /\ i - 1 \in 1 .. n
      BY <1>7, <1>10, <2>2
    <3> HIDE DEF k
    <3> QED BY <1>4, <1>8, <3>1 DEF k
  <2> QED BY <1>11, <2>1, <2>2
<1>13. ASSUME NEW i \in 1 .. n + 1, NEW j \in 1 .. n + 1, i < j
       PROVE  Precedes(w, q[i].key, q[j].key)
  <2>1. j \in 2 .. n + 1 /\ j - 1 \in 1 .. n /\ q[j] = t[j - 1]
    <3>1. j \in 2 .. n + 1
      BY <1>6, <1>13
    <3> QED BY <1>7, <1>10, <3>1
  <2>2. CASE i = 1
    BY <1>5, <1>7, <1>8, <2>1, <2>2
  <2>3. CASE i \in 2 .. n + 1
    <3>1. q[i] = t[i - 1] /\ i - 1 \in 1 .. n /\ i - 1 < j - 1
      BY <1>6, <1>7, <1>10, <1>13, <2>3
    <3> QED BY <1>5, <1>8, <1>9, <2>1, <3>1
  <2> QED BY <1>11, <2>2, <2>3
<1>14. Recent(q, w, m)
  BY <1>7, <1>12, <1>13 DEF Recent
<1> QED BY <1>4, <1>7, <1>14 DEF w, q, n, k


LEMMA PlaceIs ==
    ASSUME NEW S, NEW s \in Seq(S), NEW k, Keyed(s, k)
    PROVE  PlaceOf(s, k) \in 1 .. Len(s) /\ s[PlaceOf(s, k)].key = k
BY DEF PlaceOf, Keyed

LEMMA NoneKeyed ==
    ASSUME NEW S, NEW s \in Seq(S), NEW k, ~Keyed(s, k)
    PROVE  \A i \in 1 .. Len(s) : s[i].key # k
BY DEF Keyed

LEMMA KeysOnce ==
    ASSUME NEW s, NEW u \in Seq(NcKeys), Distinct(u), NEW l, Recent(s, u, l),
           NEW i \in 1 .. Len(s), NEW j \in 1 .. Len(s), s[i].key = s[j].key
    PROVE  i = j
<1>1. \A x : ~Precedes(u, x, x)
  <2>1. \A a, b \in 1 .. Len(u) : u[a] = u[b] => a = b
    BY DEF Distinct
  <2>2. \A a \in 1 .. Len(u) : ~(a < a)
    OBVIOUS
  <2> QED BY <2>1, <2>2, PrecedesIs
<1>2. i < j \/ j < i \/ i = j
  BY DEF Recent
<1> QED BY <1>1, <1>2 DEF Recent

LEMMA NewLruKept == LruKept(NewLru)
<1>1. LruShape(NewLru) /\ NewLru.list = <<>> /\ NewLru.used = <<>> /\ NewLru.last = NoneYet
  BY DEF NewLru, LruShape, LruFields
<1>2. Len(<<>>) = 0 /\ <<>> \in Seq(NcKeys) /\ <<>> \in Seq(LruEntries) /\ Len(<<>>) <= NcCap
  BY SlotsFacts
<1>3. Distinct(<<>>) /\ Recent(<<>>, <<>>, NoneYet)
  BY <1>2 DEF Distinct, Recent
<1> QED BY <1>1, <1>2, <1>3 DEF LruKept

(* The list changes, nothing else does.                                    *)
LEMMA LruListed ==
    ASSUME LruKept(handle), NEW t, Some(t, handle.list), Len(t) <= Len(handle.list)
    PROVE  LruKept([handle EXCEPT !.list = t])
<1> DEFINE g == [handle EXCEPT !.list = t]
<1>1. LruShape(g) /\ g.list = t /\ g.used = handle.used /\ g.last = handle.last
  BY DEF LruShape, LruFields, LruKept
<1> HIDE DEF g
<1>2. Recent(t, handle.used, handle.last)
  BY SomeRecent DEF LruKept
<1>3. Len(t) <= NcCap
  <2>1. Len(t) \in Nat /\ Len(handle.list) \in Nat /\ NcCap \in Nat
    BY SlotsFacts DEF Some, LruKept, Recent
  <2> QED BY <2>1 DEF LruKept
<1>4. LruKept(g)
  BY <1>1, <1>2, <1>3 DEF LruKept
<1> QED BY <1>4 DEF g

LEMMA DroppingIs ==
    ASSUME NEW s \in Seq(LruEntries), NEW k
    PROVE  Some(Dropping(s, k), s) /\ Len(Dropping(s, k)) <= Len(s)
<1>1. CASE Keyed(s, k)
  <2>1. Dropping(s, k) = RemoveAt(s, PlaceOf(s, k)) /\ PlaceOf(s, k) \in 1 .. Len(s)
    BY <1>1, PlaceIs DEF Dropping
  <2>2. Some(Dropping(s, k), s) /\ Len(Dropping(s, k)) = Len(s) - 1
    BY <2>1, SomeLess
  <2> QED BY <2>2
<1>2. CASE ~Keyed(s, k)
  <2>1. Dropping(s, k) = s
    BY <1>2 DEF Dropping
  <2>2. SubSeq(s, 1, Len(s)) = s /\ Len(s) \in 0 .. Len(s) /\ Len(s) \in Nat
    OBVIOUS
  <2>3. Some(SubSeq(s, 1, Len(s)), s)
    BY <2>2, SomeFirst
  <2>4. Some(s, s)
    BY <2>2, <2>3
  <2>5. Len(s) <= Len(s)
    BY <2>2
  <2> QED BY <2>1, <2>4, <2>5
<1> QED BY <1>1, <1>2

(* A list without its entry at the place of a key does not have the key.   *)
LEMMA LessHasNot ==
    ASSUME NEW s, NEW u \in Seq(NcKeys), Distinct(u), NEW l, Recent(s, u, l), NEW p \in 1 .. Len(s)
    PROVE  \A i \in 1 .. Len(RemoveAt(s, p)) : RemoveAt(s, p)[i].key # s[p].key
<1> DEFINE r == RemoveAt(s, p)
           n == Len(s)
<1>1. s \in Seq(LruEntries) /\ n \in Nat
  BY DEF Recent
<1>2. Len(r) = n - 1 /\ \A i \in 1 .. n - 1 : r[i] = IF i < p THEN s[i] ELSE s[i + 1]
  BY <1>1, RemovedIs DEF OneLess
<1> HIDE DEF r
<1>3. ASSUME NEW i \in 1 .. n - 1 PROVE r[i].key # s[p].key
  <2> DEFINE j == IF i < p THEN i ELSE i + 1
  <2>1. j \in 1 .. n /\ j # p /\ r[i] = s[j]
    BY <1>1, <1>2
  <2> QED BY <2>1, KeysOnce
<1> QED BY <1>2, <1>3 DEF r

(* The key of an entry is used: it goes to the front.                      *)
LEMMA LruPutFront ==
    ASSUME LruKept(handle), NEW t, Some(t, handle.list), NEW e \in LruEntries,
           \A i \in 1 .. Len(t) : t[i].key # e.key, Len(t) < NcCap,
           NEW m, e.key \in DOMAIN m, m[e.key] = e.val,
           \A x \in DOMAIN handle.last \ {e.key} : x \in DOMAIN m /\ m[x] = handle.last[x]
    PROVE  LruKept([handle EXCEPT !.list = <<e>> \o t, !.last = m, !.used = UsedNow(@, e.key)])
<1> DEFINE q == <<e>> \o t
           w == UsedNow(handle.used, e.key)
           g == [handle EXCEPT !.list = q, !.last = m, !.used = w]
<1>1. Recent(t, handle.used, handle.last) /\ handle.used \in Seq(NcKeys) /\ Distinct(handle.used)
  BY SomeRecent DEF LruKept
<1>2. Recent(q, w, m) /\ w \in Seq(NcKeys) /\ Distinct(w) /\ Len(q) = Len(t) + 1
  BY <1>1, RecentMore
<1>3. Len(t) \in Nat /\ NcCap \in Nat
  BY SlotsFacts DEF Some
<1> HIDE DEF q, w
<1>4. LruShape(g) /\ g.list = q /\ g.used = w /\ g.last = m
  BY DEF LruShape, LruFields, LruKept
<1> HIDE DEF g
<1>5. Len(q) <= NcCap
  BY <1>2, <1>3
<1>6. LruKept(g)
  BY <1>2, <1>4, <1>5 DEF LruKept
<1> QED BY <1>6 DEF g, q, w


LEMMA LruPutKeeps ==
    ASSUME LruKept(handle), NEW k \in NcKeys, NEW v \in NcVals, NEW ttl \in NcTimes, LruPut(k, v, ttl)
    PROVE  LruKept(handle')
<1> DEFINE h == handle
           s == h.list
           n == Len(s)
           e == [key |-> k, val |-> v, ttl |-> ttl]
           m == Noting(h.last, k, v)
           p == PlaceOf(s, k)
           a == [s EXCEPT ![p] = e]
           q == IF Keyed(s, k) THEN Promoted(a, k)
                ELSE IF n < NcCap THEN <<e>> \o s ELSE <<e>> \o SubSeq(s, 1, NcCap - 1)
<1>1. handle' = [handle EXCEPT !.list = q, !.last = m, !.used = UsedNow(@, k)]
  BY DEF LruPut
<1>2. e \in LruEntries /\ e.key = k /\ e.val = v
  BY DEF LruEntries
<1>3. /\ Recent(s, h.used, h.last) /\ h.used \in Seq(NcKeys) /\ Distinct(h.used)
      /\ s \in Seq(LruEntries) /\ n \in Nat /\ n <= NcCap /\ NcCap \in Nat \ {0}
  BY SlotsFacts DEF LruKept, Recent
<1>4. k \in DOMAIN m /\ m[k] = v /\ \A x \in DOMAIN h.last \ {k} : x \in DOMAIN m /\ m[x] = h.last[x]
  BY DEF Noting
<1>5. ASSUME NEW t, Some(t, s), \A i \in 1 .. Len(t) : t[i].key # k, Len(t) < NcCap, q = <<e>> \o t
      PROVE  LruKept(handle')
  <2> HIDE DEF e, m, q
  <2>1. LruKept([handle EXCEPT !.list = <<e>> \o t, !.last = m, !.used = UsedNow(@, e.key)])
    BY <1>2, <1>4, <1>5, LruPutFront
  <2> QED BY <1>1, <1>2, <1>5, <2>1
<1>6. CASE Keyed(s, k)
  <2> DEFINE t == RemoveAt(s, p)
             b == RemoveAt(a, p)
  <2>1. p \in 1 .. n /\ s[p].key = k
    BY <1>3, <1>6, PlaceIs
  <2>2. Some(t, s) /\ Len(t) = n - 1
    BY <1>3, <2>1, SomeLess
  <2>3. \A i \in 1 .. Len(t) : t[i].key # k
    BY <1>3, <2>1, LessHasNot
  <2> HIDE DEF p, e
  <2>4. a \in Seq(LruEntries) /\ Len(a) = n /\ \A i \in 1 .. n : a[i] = IF i = p THEN e ELSE s[i]
    BY <1>2, <1>3, <2>1
  <2> HIDE DEF a
  <2>5. \A i \in 1 .. n : a[i].key = k => i = p
    <3>1. \A i \in 1 .. n : s[i].key = k => i = p
      BY <1>3, <2>1, KeysOnce
    <3> QED BY <2>4, <3>1
  <2>6. Keyed(a, k) /\ PlaceOf(a, k) = p
    <3>1. DOMAIN a = 1 .. n /\ a[p].key = k
      BY <1>2, <2>1, <2>4
    <3>2. Keyed(a, k)
      BY <2>1, <3>1 DEF Keyed
    <3>3. PlaceOf(a, k) \in 1 .. n /\ a[PlaceOf(a, k)].key = k
      BY <2>4, <3>2, PlaceIs
    <3> QED BY <2>5, <3>2, <3>3
  <2>7. q = <<e>> \o b
    BY <1>6, <2>1, <2>4, <2>6 DEF Promoted, Dropping
  <2>8. b = t
    <3>1. b \in Seq(LruEntries) /\ Len(b) = n - 1 /\ \A i \in 1 .. n - 1 : b[i] = IF i < p THEN a[i] ELSE a[i + 1]
      BY <2>1, <2>4, RemovedIs DEF OneLess
    <3>2. t \in Seq(LruEntries) /\ Len(t) = n - 1 /\ \A i \in 1 .. n - 1 : t[i] = IF i < p THEN s[i] ELSE s[i + 1]
      BY <1>3, <2>1, RemovedIs DEF OneLess
    <3> HIDE DEF b, t, n
    <3>3. ASSUME NEW i \in 1 .. n - 1 PROVE b[i] = t[i]
      <4>1. i \in 1 .. n /\ i + 1 \in 1 .. n /\ (i < p => i # p) /\ (~(i < p) => i + 1 # p)
        BY <1>3, <2>1
      <4> QED BY <2>4, <3>1, <3>2, <4>1
    <3> QED BY <3>1, <3>2, <3>3, SeqEqual
  <2>9. Len(t) < NcCap
    BY <1>3, <2>2
  <2> HIDE DEF q, t
  <2> QED BY <1>5, <2>2, <2>3, <2>7, <2>8, <2>9
<1>7. CASE ~Keyed(s, k)
  <2> DEFINE c == IF n < NcCap THEN n ELSE NcCap - 1
             t == SubSeq(s, 1, c)
  <2>1. c \in 0 .. n /\ c < NcCap
    BY <1>3
  <2>2. \A i \in 1 .. n : s[i].key # k
    BY <1>3, <1>7, NoneKeyed
  <2>3. Some(t, s) /\ Len(t) = c
    BY <1>3, <2>1, SomeFirst
  <2>4. \A i \in 1 .. Len(t) : t[i].key # k
    BY <2>2, <2>3 DEF Some
  <2>5. q = <<e>> \o t
    <3>1. n < NcCap => t = s
      BY <1>3
    <3> HIDE DEF e
    <3> QED BY <1>7, <3>1
  <2>6. Len(t) < NcCap
    BY <2>1, <2>3
  <2> HIDE DEF q, t
  <2> QED BY <1>5, <2>3, <2>4, <2>5, <2>6
<1> QED BY <1>6, <1>7

LEMMA LruGetKeeps ==
    ASSUME LruKept(handle), NEW k \in NcKeys, LruGet(k)
    PROVE  LruKept(handle')
<1> DEFINE h == handle
           s == h.list
           p == PlaceOf(s, k)
           t == RemoveAt(s, p)
           e == s[p]
<1>1. /\ Recent(s, h.used, h.last) /\ h.used \in Seq(NcKeys) /\ Distinct(h.used)
      /\ s \in Seq(LruEntries) /\ Len(s) \in Nat /\ Len(s) <= NcCap /\ NcCap \in Nat \ {0}
  BY SlotsFacts DEF LruKept, Recent
<1>2. Keyed(s, k) /\ (handle' = [h EXCEPT !.list = Dropping(@, k)]
                      \/ handle' = [h EXCEPT !.list = Promoted(@, k), !.used = UsedNow(@, k)])
  BY DEF LruGet
<1>3. p \in 1 .. Len(s) /\ e.key = k /\ e \in LruEntries
  BY <1>1, <1>2, PlaceIs
<1>4. CASE handle' = [h EXCEPT !.list = Dropping(@, k)]
  BY <1>1, <1>4, DroppingIs, LruListed
<1>5. CASE handle' = [h EXCEPT !.list = Promoted(@, k), !.used = UsedNow(@, k)]
  <2>1. Some(t, s) /\ Len(t) < NcCap
    BY <1>1, <1>3, SomeLess
  <2>2. \A i \in 1 .. Len(t) : t[i].key # e.key
    BY <1>1, <1>3, LessHasNot
  <2>3. e.key \in DOMAIN h.last /\ h.last[e.key] = e.val
    BY <1>1, <1>3 DEF Recent
  <2>4. Promoted(s, k) = <<e>> \o t
    BY <1>2 DEF Promoted, Dropping
  <2> HIDE DEF t, e, p
  <2>5. LruKept([handle EXCEPT !.list = <<e>> \o t, !.last = h.last, !.used = UsedNow(@, e.key)])
    BY <1>3, <2>1, <2>2, <2>3, LruPutFront
  <2>6. handle' = [handle EXCEPT !.list = <<e>> \o t, !.last = h.last, !.used = UsedNow(@, e.key)]
    BY <1>3, <1>5, <2>4 DEF LruKept, LruShape, LruFields
  <2> QED BY <2>5, <2>6
<1> QED BY <1>2, <1>4, <1>5

LEMMA LruNextKeeps ==
    ASSUME LruKept(handle), LruNext
    PROVE  LruKept(handle')
<1>1. ASSUME NEW k \in NcKeys, NEW v \in NcVals, NEW t \in NcTimes, LruPut(k, v, t) PROVE LruKept(handle')
  BY <1>1, LruPutKeeps
<1>2. ASSUME NEW k \in NcKeys, LruGet(k) PROVE LruKept(handle')
  BY <1>2, LruGetKeeps
<1>3. ASSUME NEW k \in NcKeys, LruDel(k) PROVE LruKept(handle')
  <2>1. handle.list \in Seq(LruEntries)
    BY DEF LruKept, Recent
  <2> QED BY <1>3, <2>1, DroppingIs, LruListed DEF LruDel
<1>4. LruCleanup => LruKept(handle')
  <2> SUFFICES ASSUME LruCleanup PROVE LruKept(handle')
    OBVIOUS
  <2> DEFINE s == handle.list
             I == {i \in DOMAIN s : ~Expired(s[i], handle.now)}
             t == Those(s, I)
  <2>1. s \in Seq(LruEntries) /\ I \in SUBSET (1 .. Len(s))
    BY DEF LruKept, Recent
  <2>2. handle' = [handle EXCEPT !.list = t]
    BY DEF LruCleanup
  <2> HIDE DEF I
  <2>3. Some(t, s) /\ Len(t) <= Len(s)
    BY <2>1, SomeThose
  <2> HIDE DEF t
  <2> QED BY <2>2, <2>3, LruListed
<1>5. ASSUME NEW t \in NcTimes, LruTime(t) PROVE LruKept(handle')
  <2>1. /\ LruShape(handle') /\ handle'.list = handle.list /\ handle'.used = handle.used
        /\ handle'.last = handle.last
    BY <1>5 DEF LruTime, LruKept, LruShape, LruFields
  <2> QED BY <2>1 DEF LruKept
<1> QED BY <1>1, <1>2, <1>3, <1>4, <1>5 DEF LruNext

LEMMA LruTells == LruKept(handle) => LruKeepsRecent
<1> SUFFICES ASSUME LruKept(handle) PROVE LruKeepsRecent
  OBVIOUS
<1>1. /\ Recent(handle.list, handle.used, handle.last) /\ handle.used \in Seq(NcKeys) /\ Distinct(handle.used)
      /\ handle.list \in Seq(LruEntries) /\ Len(handle.list) <= NcCap
  BY DEF LruKept, Recent
<1>2. DOMAIN handle.used = 1 .. Len(handle.used) /\ DOMAIN handle.list = 1 .. Len(handle.list)
  BY <1>1
<1>3. IsInjective(handle.used)
  BY <1>1, <1>2 DEF IsInjective, Distinct
<1> QED BY <1>1, <1>2, <1>3 DEF LruKeepsRecent, Recent

-----------------------------------------------------------------------------
(***************************************************************************)
(* The least-frequently-used cache of mini-nosql-store.                    *)
(***************************************************************************)
LfuEntries == [key : NcKeys, val : NcVals]
Levels == [freq : Nat \ {0}, entries : Seq(LfuEntries)]
Has(lv, x) == \E j \in 1 .. Len(lv.entries) : lv.entries[j].key = x

(* A level has entries of its frequency, each once, with what was put last. *)
LevelOK(lv, K, u, l) ==
    /\ lv \in Levels
    /\ \A j \in 1 .. Len(lv.entries) :
          /\ lv.entries[j].key \in K /\ u[lv.entries[j].key] = lv.freq
          /\ lv.entries[j].key \in DOMAIN l /\ lv.entries[j].val = l[lv.entries[j].key]
    /\ \A j, m \in 1 .. Len(lv.entries) : lv.entries[j].key = lv.entries[m].key => j = m

(* The levels ascend and have the entries of the keys of K, no other.      *)
Filed(ls, K, u, l) ==
    /\ ls \in Seq(Levels)
    /\ \A i, j \in 1 .. Len(ls) : i < j => ls[i].freq < ls[j].freq
    /\ \A i \in 1 .. Len(ls) : LevelOK(ls[i], K, u, l)
    /\ \A x \in K : \E i \in 1 .. Len(ls) : Has(ls[i], x)

LEMMA LevelSame ==
    ASSUME NEW lv, NEW K, NEW u, NEW l, LevelOK(lv, K, u, l), NEW Q, NEW v, NEW m,
           \A x \in K : Has(lv, x) => x \in Q /\ v[x] = u[x] /\ (x \in DOMAIN l => x \in DOMAIN m /\ m[x] = l[x])
    PROVE  LevelOK(lv, Q, v, m)
<1>1. lv \in Levels /\ \A j, i \in 1 .. Len(lv.entries) : lv.entries[j].key = lv.entries[i].key => j = i
  BY DEF LevelOK
<1>2. ASSUME NEW j \in 1 .. Len(lv.entries)
      PROVE  /\ lv.entries[j].key \in Q /\ v[lv.entries[j].key] = lv.freq
             /\ lv.entries[j].key \in DOMAIN m /\ lv.entries[j].val = m[lv.entries[j].key]
  <2> DEFINE x == lv.entries[j].key
  <2>1. x \in K /\ u[x] = lv.freq /\ x \in DOMAIN l /\ lv.entries[j].val = l[x]
    BY DEF LevelOK
  <2>2. Has(lv, x)
    BY DEF Has
  <2> HIDE DEF x
  <2>3. x \in Q /\ v[x] = u[x] /\ x \in DOMAIN m /\ m[x] = l[x]
    BY <2>1, <2>2
  <2>4. x \in Q /\ v[x] = lv.freq /\ x \in DOMAIN m /\ lv.entries[j].val = m[x]
    BY <2>1, <2>3
  <2> QED BY <2>4 DEF x
<1> QED BY <1>1, <1>2 DEF LevelOK

(* A key is in the one level of its frequency.                             *)
LEMMA LevelsApart ==
    ASSUME NEW ls, NEW K, NEW u, NEW l, Filed(ls, K, u, l),
           NEW i \in 1 .. Len(ls), NEW j \in 1 .. Len(ls), NEW x, Has(ls[i], x), Has(ls[j], x)
    PROVE  i = j /\ x \in K /\ u[x] = ls[i].freq
<1>1. ls[i].freq = u[x] /\ ls[j].freq = u[x] /\ x \in K
  BY SMTT(60) DEF Filed, LevelOK, Has
<1>2. Len(ls) \in Nat /\ ls[i].freq \in Nat /\ ls[j].freq \in Nat
  <2>1. ls \in Seq(Levels) /\ ls[i] \in Levels /\ ls[j] \in Levels
    BY DEF Filed, LevelOK
  <2> QED BY <2>1 DEF Levels
<1>3. i < j \/ j < i \/ i = j
  BY <1>2
<1>4. ~(ls[i].freq < ls[j].freq) /\ ~(ls[j].freq < ls[i].freq)
  BY <1>1, <1>2
<1> QED BY <1>1, <1>3, <1>4 DEF Filed

(* One level is another.                                                   *)
LEMMA FiledEdited ==
    ASSUME NEW ls, NEW K, NEW u, NEW l, Filed(ls, K, u, l), NEW i \in 1 .. Len(ls),
           NEW lv, lv.freq = ls[i].freq, NEW Q, NEW v, NEW m, LevelOK(lv, Q, v, m),
           \A j \in 1 .. Len(ls) : j # i => LevelOK(ls[j], Q, v, m),
           \A x \in Q : Has(lv, x) \/ \E j \in 1 .. Len(ls) : j # i /\ Has(ls[j], x)
    PROVE  Filed([ls EXCEPT ![i] = lv], Q, v, m) /\ Len([ls EXCEPT ![i] = lv]) = Len(ls)
<1> DEFINE n == Len(ls)
           t == [ls EXCEPT ![i] = lv]
<1>1. ls \in Seq(Levels) /\ lv \in Levels /\ n \in Nat
  BY DEF Filed, LevelOK
<1>2. t \in Seq(Levels) /\ Len(t) = n /\ \A j \in 1 .. n : t[j] = IF j = i THEN lv ELSE ls[j]
  BY <1>1
<1> HIDE DEF t, n
<1>3. \A j \in 1 .. n : t[j].freq = ls[j].freq
  BY <1>2
<1>4. \A j, k \in 1 .. n : j < k => t[j].freq < t[k].freq
  BY <1>3 DEF Filed, n
<1>5. \A j \in 1 .. n : LevelOK(t[j], Q, v, m)
  BY <1>2 DEF n
<1>6. \A x \in Q : \E j \in 1 .. n : Has(t[j], x)
  BY <1>2 DEF n
<1> QED BY <1>2, <1>4, <1>5, <1>6 DEF Filed, t, n

(* A level without entries is given up.                                    *)
LEMMA FiledGone ==
    ASSUME NEW ls, NEW K, NEW u, NEW l, Filed(ls, K, u, l), NEW i \in 1 .. Len(ls), ls[i].entries = <<>>
    PROVE  Filed(RemoveAt(ls, i), K, u, l)
<1> DEFINE n == Len(ls)
           t == RemoveAt(ls, i)
<1>1. ls \in Seq(Levels) /\ n \in Nat /\ i \in 1 .. n
  BY DEF Filed
<1>2. t \in Seq(Levels) /\ Len(t) = n - 1 /\ \A j \in 1 .. n - 1 : t[j] = IF j < i THEN ls[j] ELSE ls[j + 1]
  BY <1>1, RemovedIs DEF OneLess
<1> HIDE DEF t, n
<1> DEFINE o(j) == IF j < i THEN j ELSE j + 1
<1>3. \A j \in 1 .. n - 1 : o(j) \in 1 .. n
  BY <1>1
<1>4. \A j, k \in 1 .. n - 1 : j < k => o(j) < o(k)
  BY <1>1
<1>5. \A j \in 1 .. n - 1 : t[j] = ls[o(j)]
  BY <1>2
<1>6. \A k \in 1 .. n : k # i => \E j \in 1 .. n - 1 : o(j) = k
  <2> TAKE k \in 1 .. n
  <2>1. CASE k < i
    <3>1. k \in 1 .. n - 1 /\ o(k) = k
      BY <1>1, <2>1
    <3> HIDE DEF o
    <3> QED BY <3>1
  <2>2. CASE ~(k < i) /\ k # i
    <3>1. k - 1 \in 1 .. n - 1 /\ o(k - 1) = k
      BY <1>1, <2>2
    <3> HIDE DEF o
    <3> QED BY <3>1
  <2> QED BY <2>1, <2>2
<1> HIDE DEF o
<1>7. \A j, k \in 1 .. n - 1 : j < k => t[j].freq < t[k].freq
  <2>1. \A j, k \in 1 .. n : j < k => ls[j].freq < ls[k].freq
    BY DEF Filed, n
  <2> QED BY <1>3, <1>4, <1>5, <2>1
<1>8. \A j \in 1 .. n - 1 : LevelOK(t[j], K, u, l)
  <2>1. \A j \in 1 .. n : LevelOK(ls[j], K, u, l)
    BY DEF Filed, n
  <2> QED BY <1>3, <1>5, <2>1
<1>9. \A x \in K : \E j \in 1 .. n - 1 : Has(t[j], x)
  <2> TAKE x \in K
  <2>1. PICK k \in 1 .. n : Has(ls[k], x)
    BY DEF Filed, n
  <2>2. ~Has(ls[i], x)
    BY DEF Has
  <2>3. PICK j \in 1 .. n - 1 : o(j) = k
    BY <1>6, <2>1, <2>2
  <2> QED BY <1>5, <2>1, <2>3
<1> QED BY <1>2, <1>7, <1>8, <1>9 DEF Filed, t


(* A level without one of its entries.                                     *)
LEMMA LevelLess ==
    ASSUME NEW lv, NEW K, NEW u, NEW l, LevelOK(lv, K, u, l), NEW p \in 1 .. Len(lv.entries),
           NEW lw \in Levels, lw.freq = lv.freq, lw.entries = RemoveAt(lv.entries, p)
    PROVE  /\ LevelOK(lw, K \ {lv.entries[p].key}, u, l)
           /\ \A x : Has(lw, x) <=> Has(lv, x) /\ x # lv.entries[p].key
<1> DEFINE s == lv.entries
           n == Len(s)
           r == lw.entries
           k == s[p].key
<1>1. s \in Seq(LfuEntries) /\ n \in Nat /\ p \in 1 .. n
  BY DEF LevelOK, Levels
<1>2. Len(r) = n - 1 /\ \A j \in 1 .. n - 1 : r[j] = IF j < p THEN s[j] ELSE s[j + 1]
  BY <1>1, RemovedIs DEF OneLess
<1>3. /\ \A j \in 1 .. n : s[j].key \in K /\ u[s[j].key] = lv.freq /\ s[j].key \in DOMAIN l /\ s[j].val = l[s[j].key]
      /\ \A j, m \in 1 .. n : s[j].key = s[m].key => j = m
  BY DEF LevelOK
<1> HIDE DEF s, n, r
<1> DEFINE o(j) == IF j < p THEN j ELSE j + 1
<1>4. /\ \A j \in 1 .. n - 1 : o(j) \in 1 .. n /\ o(j) # p
      /\ \A j, m \in 1 .. n - 1 : o(j) = o(m) => j = m
  BY <1>1
<1>5. \A j \in 1 .. n - 1 : r[j] = s[o(j)]
  BY <1>2
<1>6. \A m \in 1 .. n : m # p => \E j \in 1 .. n - 1 : o(j) = m
  <2> TAKE m \in 1 .. n
  <2>1. CASE m < p
    <3>1. m \in 1 .. n - 1 /\ o(m) = m
      BY <1>1, <2>1
    <3> HIDE DEF o
    <3> QED BY <3>1
  <2>2. CASE ~(m < p) /\ m # p
    <3>1. m - 1 \in 1 .. n - 1 /\ o(m - 1) = m
      BY <1>1, <2>2
    <3> HIDE DEF o
    <3> QED BY <3>1
  <2> QED BY <2>1, <2>2
<1> HIDE DEF o, k
<1>7. \A j \in 1 .. n - 1 : r[j].key # k
  BY <1>1, <1>3, <1>4, <1>5 DEF k
<1>8. \A j \in 1 .. n - 1 : r[j].key \in K \ {k} /\ u[r[j].key] = lv.freq /\ r[j].key \in DOMAIN l /\ r[j].val = l[r[j].key]
  BY <1>3, <1>4, <1>5, <1>7
<1>9. \A j, m \in 1 .. n - 1 : r[j].key = r[m].key => j = m
  BY <1>3, <1>4, <1>5
<1>10. LevelOK(lw, K \ {k}, u, l)
  BY <1>2, <1>8, <1>9 DEF LevelOK, r
<1>11. ASSUME NEW x PROVE Has(lw, x) <=> Has(lv, x) /\ x # k
  <2>1. Has(lw, x) <=> \E j \in 1 .. n - 1 : r[j].key = x
    BY <1>2 DEF Has, r
  <2>2. Has(lv, x) <=> \E j \in 1 .. n : s[j].key = x
    BY DEF Has, s, n
  <2>3. s[p].key = k
    BY DEF k
  <2> QED BY <1>4, <1>5, <1>6, <1>7, <2>1, <2>2, <2>3
<1> QED BY <1>10, <1>11 DEF k, s

(* An entry goes out of its level.                                         *)
Lessened(ls, i, p) == [ls EXCEPT ![i].entries = RemoveAt(@, p)]

LEMMA FiledLess ==
    ASSUME NEW ls, NEW K, NEW u, NEW l, Filed(ls, K, u, l), NEW i \in 1 .. Len(ls),
           NEW p \in 1 .. Len(ls[i].entries)
    PROVE  /\ Filed(Lessened(ls, i, p), K \ {ls[i].entries[p].key}, u, l)
           /\ Len(Lessened(ls, i, p)) = Len(ls)
<1> DEFINE k == ls[i].entries[p].key
           r == RemoveAt(ls[i].entries, p)
           lw == [freq |-> ls[i].freq, entries |-> r]
           t == [ls EXCEPT ![i] = lw]
<1>1. ls \in Seq(Levels) /\ ls[i] \in Levels /\ LevelOK(ls[i], K, u, l)
  BY DEF Filed
<1>2. ls[i].entries \in Seq(LfuEntries) /\ ls[i].freq \in Nat \ {0}
  BY <1>1 DEF Levels
<1>3. r \in Seq(LfuEntries)
  BY <1>2, RemovedIs DEF OneLess
<1> HIDE DEF r
<1>4. lw \in Levels /\ lw.freq = ls[i].freq /\ lw.entries = r
  BY <1>2, <1>3 DEF Levels
<1>5. Lessened(ls, i, p) = t
  <2>1. [ls[i] EXCEPT !.entries = r] = lw
    BY <1>1 DEF Levels
  <2>2. Lessened(ls, i, p) = [ls EXCEPT ![i] = [ls[i] EXCEPT !.entries = r]]
    BY DEF Lessened, r
  <2> QED BY <2>1, <2>2
<1> HIDE DEF lw
<1>6. LevelOK(lw, K \ {k}, u, l) /\ \A x : Has(lw, x) <=> Has(ls[i], x) /\ x # k
  BY <1>1, <1>4, LevelLess DEF r
<1>7. Has(ls[i], k)
  BY DEF Has
<1> HIDE DEF k
<1>8. ASSUME NEW j \in 1 .. Len(ls), j # i PROVE LevelOK(ls[j], K \ {k}, u, l)
  <2>1. ~Has(ls[j], k)
    BY <1>7, <1>8, LevelsApart, ZenonT(120)
  <2>2. LevelOK(ls[j], K, u, l)
    BY DEF Filed
  <2> QED BY <2>1, <2>2, LevelSame
<1>9. ASSUME NEW x \in K \ {k} PROVE Has(lw, x) \/ \E j \in 1 .. Len(ls) : j # i /\ Has(ls[j], x)
  <2>1. PICK j \in 1 .. Len(ls) : Has(ls[j], x)
    BY DEF Filed
  <2> QED BY <1>6, <2>1
<1>10. Filed(t, K \ {k}, u, l) /\ Len(t) = Len(ls)
  BY <1>4, <1>6, <1>8, <1>9, FiledEdited
<1> QED BY <1>5, <1>10 DEF k

(* An entry comes in at a frequency, in front of those of a level.         *)
Comes(K, u, l, e, v, m, f) ==
    /\ e \in LfuEntries /\ e.key \notin K /\ v[e.key] = f /\ e.key \in DOMAIN m /\ m[e.key] = e.val
    /\ \A x \in K : v[x] = u[x] /\ (x \in DOMAIN l => x \in DOMAIN m /\ m[x] = l[x])
Pushed(lv, e, lw) ==
    lv \in Levels /\ lw \in Levels /\ lw.freq = lv.freq /\ lw.entries = <<e>> \o lv.entries
Topped(lw, lv, K, e, v, m) ==
    LevelOK(lw, K \cup {e.key}, v, m) /\ \A x : Has(lw, x) <=> Has(lv, x) \/ x = e.key

LEMMA LevelMore ==
    ASSUME NEW lv, NEW K, NEW u, NEW l, LevelOK(lv, K, u, l), NEW e, NEW v, NEW m,
           Comes(K, u, l, e, v, m, lv.freq), NEW lw, Pushed(lv, e, lw)
    PROVE  Topped(lw, lv, K, e, v, m)
<1>0. /\ lv \in Levels /\ e \in LfuEntries /\ e.key \notin K /\ v[e.key] = lv.freq
      /\ e.key \in DOMAIN m /\ m[e.key] = e.val /\ lw \in Levels /\ lw.freq = lv.freq
      /\ lw.entries = <<e>> \o lv.entries
      /\ \A x \in K : v[x] = u[x] /\ (x \in DOMAIN l => x \in DOMAIN m /\ m[x] = l[x])
  BY DEF Comes, Pushed
<1> DEFINE s == lv.entries
           n == Len(s)
           q == lw.entries
           k == e.key
           Q == K \cup {k}
<1>1. s \in Seq(LfuEntries) /\ n \in Nat /\ q = <<e>> \o s
  BY <1>0 DEF Levels
<1>2. Len(q) = n + 1 /\ q[1] = e /\ \A j \in 2 .. n + 1 : q[j] = s[j - 1]
  BY <1>0, <1>1
<1>3. LevelOK(lv, Q, v, m)
  BY <1>0, LevelSame
<1>4. /\ \A j \in 1 .. n : s[j].key \in Q /\ v[s[j].key] = lv.freq /\ s[j].key \in DOMAIN m /\ s[j].val = m[s[j].key]
      /\ \A j, i \in 1 .. n : s[j].key = s[i].key => j = i
  BY <1>3 DEF LevelOK
<1>5. \A j \in 1 .. n : s[j].key # k
  BY <1>0 DEF LevelOK
<1> HIDE DEF s, n, q, k
<1>6. /\ \A j \in 1 .. n + 1 : j = 1 \/ (j \in 2 .. n + 1 /\ j - 1 \in 1 .. n)
      /\ \A j \in 1 .. n : j + 1 \in 2 .. n + 1 /\ j + 1 \in 1 .. n + 1 /\ (j + 1) - 1 = j
      /\ 1 \in 1 .. n + 1
      /\ \A i, j \in 1 .. n + 1 : i - 1 = j - 1 => i = j
  BY <1>1
<1>7. k \in Q /\ v[k] = lv.freq /\ k \in DOMAIN m /\ e.val = m[k] /\ e.key = k
  BY <1>0 DEF k
<1>8. ASSUME NEW j \in 1 .. n + 1
      PROVE  q[j].key \in Q /\ v[q[j].key] = lv.freq /\ q[j].key \in DOMAIN m /\ q[j].val = m[q[j].key]
  <2>1. CASE j = 1
    BY <1>2, <1>7, <2>1
  <2>2. CASE j # 1
    <3>1. j - 1 \in 1 .. n /\ q[j] = s[j - 1]
      BY <1>2, <1>6, <2>2
    <3> HIDE DEF Q
    <3> QED BY <1>4, <3>1
  <2> QED BY <2>1, <2>2
<1>9. ASSUME NEW j \in 1 .. n + 1, NEW i \in 1 .. n + 1, q[j].key = q[i].key PROVE j = i
  <2>1. \A a \in 1 .. n + 1 : a # 1 => a - 1 \in 1 .. n /\ q[a] = s[a - 1]
    BY <1>2, <1>6
  <2>2. CASE j # 1 /\ i # 1
    <3>1. j - 1 = i - 1
      BY <1>4, <1>9, <2>1, <2>2
    <3> QED BY <1>6, <3>1
  <2>3. CASE ~(j # 1 /\ i # 1)
    BY <1>2, <1>5, <1>7, <1>9, <2>1, <2>3
  <2> QED BY <2>2, <2>3
<1> HIDE DEF Q
<1>10. LevelOK(lw, Q, v, m)
  BY <1>0, <1>2, <1>8, <1>9 DEF LevelOK, q
<1>11. ASSUME NEW x PROVE Has(lw, x) <=> Has(lv, x) \/ x = k
  <2>1. Has(lw, x) <=> \E j \in 1 .. n + 1 : q[j].key = x
    BY <1>2 DEF Has, q
  <2>2. Has(lv, x) <=> \E j \in 1 .. n : s[j].key = x
    BY DEF Has, s, n
  <2> QED BY <1>2, <1>6, <1>7, <2>1, <2>2
<1> QED BY <1>10, <1>11 DEF Topped, k, Q


(* A list with one more entry at a place.                                  *)
OneMore(S, s, i, e, c) ==
    /\ c \in Seq(S) /\ Len(c) = Len(s) + 1
    /\ \A j \in 1 .. Len(s) + 1 : c[j] = IF j < i THEN s[j] ELSE IF j = i THEN e ELSE s[j - 1]

LEMMA InsertedIs ==
    ASSUME NEW S, NEW s \in Seq(S), NEW i \in 1 .. Len(s) + 1, NEW e \in S
    PROVE  OneMore(S, s, i, e, InsertAt(s, i, e))
<1> DEFINE n == Len(s)
           a == SubSeq(s, 1, i - 1)
           b == SubSeq(s, i, n)
           c == a \o <<e>>
           t == c \o b
<1>1. n \in Nat /\ i \in 1 .. n + 1
  OBVIOUS
<1>2. a \in Seq(S) /\ Len(a) = i - 1 /\ \A j \in 1 .. i - 1 : a[j] = s[j]
  OBVIOUS
<1>3. b \in Seq(S) /\ Len(b) = n - i + 1 /\ \A j \in 1 .. n - i + 1 : b[j] = s[i + j - 1]
  OBVIOUS
<1> HIDE DEF a, b, n
<1>4. c \in Seq(S) /\ Len(c) = i /\ (\A j \in 1 .. i - 1 : c[j] = a[j]) /\ c[i] = e
  BY <1>1, <1>2
<1> HIDE DEF c
<1>5. t \in Seq(S) /\ Len(t) = n + 1 /\ \A j \in 1 .. n + 1 : t[j] = IF j <= i THEN c[j] ELSE b[j - i]
  <2>1. t \in Seq(S) /\ Len(t) = Len(c) + Len(b)
    <3>1. t \in Seq(S)
      BY <1>3, <1>4
    <3>2. Len(t) = Len(c) + Len(b)
      BY <1>3, <1>4, ConcatProperties
    <3> QED BY <3>1, <3>2
  <2>2. Len(c) + Len(b) = n + 1
    BY <1>1, <1>3, <1>4
  <2>3. \A j \in 1 .. Len(c) + Len(b) : t[j] = IF j <= Len(c) THEN c[j] ELSE b[j - Len(c)]
    BY <1>3, <1>4, ConcatProperties
  <2> HIDE DEF t
  <2> QED BY <1>4, <2>1, <2>2, <2>3
<1>6. InsertAt(s, i, e) = t
  BY DEF InsertAt, t, c, a, b, n
<1> HIDE DEF t
<1>7. ASSUME NEW j \in 1 .. n + 1 PROVE t[j] = IF j < i THEN s[j] ELSE IF j = i THEN e ELSE s[j - 1]
  <2>1. CASE j < i
    <3>1. j \in 1 .. i - 1 /\ j <= i
      BY <1>1, <2>1
    <3> QED BY <1>2, <1>4, <1>5, <2>1, <3>1
  <2>2. CASE j = i
    <3>1. j <= i /\ ~(j < i)
      BY <1>1, <2>2
    <3> QED BY <1>4, <1>5, <2>2, <3>1
  <2>3. CASE ~(j < i) /\ j # i
    <3>1. j - i \in 1 .. n - i + 1 /\ ~(j <= i) /\ i + (j - i) - 1 = j - 1
      BY <1>1, <2>3
    <3>2. t[j] = b[j - i] /\ b[j - i] = s[i + (j - i) - 1]
      BY <1>3, <1>5, <3>1
    <3> QED BY <2>3, <3>1, <3>2
  <2> QED BY <2>1, <2>2, <2>3
<1> QED BY <1>5, <1>6, <1>7 DEF n, OneMore

(* The places of lower levels are the first ones.                          *)
LEMMA LowerFirst ==
    ASSUME NEW ls \in Seq(Levels), \A i, j \in 1 .. Len(ls) : i < j => ls[i].freq < ls[j].freq,
           NEW f \in Nat
    PROVE  /\ Cardinality({i \in DOMAIN ls : ls[i].freq < f}) \in 0 .. Len(ls)
           /\ \A i \in 1 .. Len(ls) : ls[i].freq < f <=> i <= Cardinality({j \in DOMAIN ls : ls[j].freq < f})
<1> DEFINE n == Len(ls)
           I == {i \in DOMAIN ls : ls[i].freq < f}
<1>1. n \in Nat /\ DOMAIN ls = 1 .. n /\ \A i \in 1 .. n : ls[i].freq \in Nat
  <2>1. n \in Nat /\ DOMAIN ls = 1 .. n /\ \A i \in 1 .. n : ls[i] \in Levels
    OBVIOUS
  <2> HIDE DEF n
  <2> QED BY <2>1 DEF Levels
<1>2. \A i \in 1 .. n, j \in 1 .. n : i < j /\ j \in I => i \in I
  <2> TAKE i \in 1 .. n, j \in 1 .. n
  <2> HAVE i < j /\ j \in I
  <2>1. ls[i].freq < ls[j].freq /\ ls[j].freq < f
    OBVIOUS
  <2>2. ls[i].freq < f
    BY <1>1, <2>1
  <2> QED BY <1>1, <2>2
<1>3. I \in SUBSET (1 .. n) /\ \A i \in 1 .. n : i \in I <=> ls[i].freq < f
  BY <1>1
<1> HIDE DEF n, I
<1>4. PICK c \in 0 .. n : I = 1 .. c
  <2>1. CASE I = {}
    <3>1. 1 .. 0 = {} /\ 0 \in 0 .. n
      BY <1>1
    <3> QED BY <2>1, <3>1
  <2>2. CASE I # {}
    <3>1. I \in SUBSET (0 .. n)
      BY <1>1, <1>3
    <3>2. PICK c \in I : \A i \in I : i <= c
      BY <1>1, <2>2, <3>1, GreatestExists
    <3>3. c \in 1 .. n
      BY <1>3, <3>2
    <3>4. \A i \in I : i \in 1 .. c
      <4> TAKE i \in I
      <4>1. i \in 1 .. n /\ i <= c
        BY <1>3, <3>2
      <4> QED BY <1>1, <3>3, <4>1
    <3>5. \A i \in 1 .. c : i \in I
      <4> TAKE i \in 1 .. c
      <4>1. i \in 1 .. n /\ (i < c \/ i = c)
        BY <1>1, <3>3
      <4> QED BY <1>2, <3>2, <3>3, <4>1
    <3>6. I = 1 .. c
      BY <3>4, <3>5
    <3>7. c \in 0 .. n
      BY <1>1, <3>3
    <3> QED BY <3>6, <3>7
  <2> QED BY <2>1, <2>2
<1>5. Cardinality(I) = c
  <2>1. c \in Nat
    BY <1>1
  <2>2. 1 \in Int /\ c \in Int
    BY <2>1
  <2>3. Cardinality(1 .. c) = IF 1 > c THEN 0 ELSE c - 1 + 1
    BY <2>2, FS_Interval
  <2>4. Cardinality(1 .. c) = c
    BY <2>1, <2>3
  <2> QED BY <1>4, <2>4
<1>6. \A i \in 1 .. n : ls[i].freq < f <=> i <= c
  BY <1>1, <1>3, <1>4
<1> QED BY <1>4, <1>5, <1>6 DEF n, I

(* An entry comes in, in front of the level of its frequency.              *)
NowFiled(ls, t, f) ==
    /\ \E j \in 1 .. Len(t) : t[j].freq = f
    /\ \A i \in 1 .. Len(ls) : \E j \in 1 .. Len(t) : t[j].freq = ls[i].freq
    /\ \A i \in 1 .. Len(ls) : ls[i].freq < f => i \in 1 .. Len(t) /\ t[i] = ls[i]

LEMMA FiledMore ==
    ASSUME NEW ls, NEW K, NEW u, NEW l, Filed(ls, K, u, l), NEW e, NEW v, NEW m, NEW f \in Nat \ {0},
           Comes(K, u, l, e, v, m, f)
    PROVE  Filed(Leveled(ls, f, e), K \cup {e.key}, v, m) /\ NowFiled(ls, Leveled(ls, f, e), f)
<1>0. /\ e \in LfuEntries /\ e.key \notin K /\ v[e.key] = f /\ e.key \in DOMAIN m /\ m[e.key] = e.val
      /\ \A x \in K : v[x] = u[x] /\ (x \in DOMAIN l => x \in DOMAIN m /\ m[x] = l[x])
  BY DEF Comes
<1> DEFINE n == Len(ls)
           k == e.key
           Q == K \cup {k}
           t == Leveled(ls, f, e)
<1>1. /\ ls \in Seq(Levels) /\ n \in Nat /\ DOMAIN ls = 1 .. n
      /\ \A i \in 1 .. n : LevelOK(ls[i], K, u, l) /\ ls[i] \in Levels /\ ls[i].freq \in Nat
      /\ \A i, j \in 1 .. n : i < j => ls[i].freq < ls[j].freq
      /\ \A x \in K : \E i \in 1 .. n : Has(ls[i], x)
  BY DEF Filed, LevelOK, Levels
<1>2. \A lv : LevelOK(lv, K, u, l) => LevelOK(lv, Q, v, m)
  BY <1>0, LevelSame
<1>3. CASE LevelAt(ls, f) # {}
  <2> DEFINE i == CHOOSE x \in LevelAt(ls, f) : TRUE
             lw == [freq |-> f, entries |-> <<e>> \o ls[i].entries]
             r == [ls EXCEPT ![i] = lw]
  <2>1. i \in 1 .. n /\ ls[i].freq = f
    BY <1>1, <1>3 DEF LevelAt
  <2>2. t = [ls EXCEPT ![i].entries = <<e>> \o @]
    BY <1>3 DEF Leveled
  <2> HIDE DEF i
  <2>3. ls[i] \in Levels /\ ls[i].entries \in Seq(LfuEntries) /\ LevelOK(ls[i], K, u, l)
    BY <1>1, <2>1 DEF Levels
  <2>4. lw \in Levels /\ lw.freq = ls[i].freq /\ lw.entries = <<e>> \o ls[i].entries
    BY <1>0, <2>1, <2>3 DEF Levels
  <2>5. t = r
    <3> DEFINE q == <<e>> \o ls[i].entries
    <3>1. t = [ls EXCEPT ![i] = [ls[i] EXCEPT !.entries = q]]
      BY <2>2
    <3> HIDE DEF q
    <3>2. [ls[i] EXCEPT !.entries = q] = [freq |-> ls[i].freq, entries |-> q]
      BY <2>3 DEF Levels
    <3> QED BY <2>1, <3>1, <3>2 DEF q
  <2> HIDE DEF lw, t
  <2>6. LevelOK(lw, Q, v, m) /\ \A x : Has(lw, x) <=> Has(ls[i], x) \/ x = k
    <3>1. v[e.key] = ls[i].freq
      BY <1>0, <2>1
    <3> HIDE DEF Q, k
    <3>2. Comes(K, u, l, e, v, m, ls[i].freq)
      BY <1>0, <3>1 DEF Comes
    <3>3. Pushed(ls[i], e, lw)
      BY <2>3, <2>4 DEF Pushed
    <3>4. Topped(lw, ls[i], K, e, v, m)
      BY <2>3, <3>2, <3>3, LevelMore
    <3> QED BY <3>4 DEF Topped, Q, k
  <2>7. \A j \in 1 .. n : j # i => LevelOK(ls[j], Q, v, m)
    BY <1>1, <1>2
  <2> HIDE DEF k
  <2>8. \A x \in Q : Has(lw, x) \/ \E j \in 1 .. n : j # i /\ Has(ls[j], x)
    BY <1>1, <2>6
  <2> HIDE DEF Q
  <2>9. Filed(r, Q, v, m) /\ Len(r) = n
    BY <2>1, <2>4, <2>6, <2>7, <2>8, FiledEdited
  <2>10. \A j \in 1 .. n : r[j].freq = ls[j].freq /\ (j # i => r[j] = ls[j])
    <3>1. \A j \in 1 .. n : r[j] = IF j = i THEN lw ELSE ls[j]
      BY <1>1, <2>1
    <3> HIDE DEF r
    <3> QED BY <2>4, <3>1
  <2> HIDE DEF r
  <2>11. NowFiled(ls, r, f)
    <3>1. \A j \in 1 .. n : ls[j].freq < f => j # i
      BY <1>1, <2>1
    <3> QED BY <2>1, <2>9, <2>10, <3>1 DEF NowFiled
  <2> QED BY <2>5, <2>9, <2>11 DEF t, k, Q
<1>4. CASE LevelAt(ls, f) = {}
  <2> DEFINE c == Cardinality({i \in DOMAIN ls : ls[i].freq < f})
             lw == [freq |-> f, entries |-> <<e>>]
  <2>1. t = InsertAt(ls, c + 1, lw)
    BY <1>4 DEF Leveled
  <2>2. c \in 0 .. n /\ \A i \in 1 .. n : ls[i].freq < f <=> i <= c
    BY <1>1, LowerFirst
  <2> HIDE DEF c, t
  <2>3. lw \in Levels /\ lw.freq = f /\ Len(lw.entries) = 1 /\ lw.entries[1] = e
    BY <1>0 DEF Levels
  <2>4. c + 1 \in 1 .. n + 1
    BY <1>1, <2>2
  <2> HIDE DEF lw, n
  <2>5. /\ t \in Seq(Levels) /\ Len(t) = n + 1
        /\ \A j \in 1 .. n + 1 : t[j] = IF j < c + 1 THEN ls[j] ELSE IF j = c + 1 THEN lw ELSE ls[j - 1]
    <3>1. ls \in Seq(Levels) /\ lw \in Levels /\ c + 1 \in 1 .. Len(ls) + 1
      BY <1>1, <2>3, <2>4 DEF n
    <3>2. OneMore(Levels, ls, c + 1, lw, t)
      BY <2>1, <3>1, InsertedIs
    <3> QED BY <3>2 DEF n, OneMore
  <2>6. \A i \in 1 .. n : ls[i].freq # f
    BY <1>1, <1>4 DEF LevelAt
  <2>7. \A i \in 1 .. n : i > c => f < ls[i].freq
    <3> TAKE i \in 1 .. n
    <3> HAVE i > c
    <3>1. ~(i <= c)
      BY <1>1, <2>2
    <3> QED BY <1>1, <2>2, <2>6, <3>1
  <2>8. \A j \in 1 .. n + 1 : \/ j \in 1 .. c /\ j \in 1 .. n /\ t[j] = ls[j]
                              \/ j = c + 1 /\ t[j] = lw
                              \/ j - 1 \in 1 .. n /\ j - 1 > c /\ t[j] = ls[j - 1] /\ j > c + 1
    <3> TAKE j \in 1 .. n + 1
    <3>1. \/ j < c + 1 /\ j \in 1 .. c /\ j \in 1 .. n
          \/ j = c + 1 /\ ~(j < c + 1)
          \/ j > c + 1 /\ ~(j < c + 1) /\ j # c + 1 /\ j - 1 \in 1 .. n /\ j - 1 > c
      BY <1>1, <2>2
    <3> QED BY <2>5, <3>1
  <2>9. \A i \in 1 .. n : /\ i <= c => i \in 1 .. n + 1 /\ t[i] = ls[i]
                          /\ i > c => i + 1 \in 1 .. n + 1 /\ t[i + 1] = ls[i]
    <3> TAKE i \in 1 .. n
    <3>1. /\ i <= c => i \in 1 .. n + 1 /\ i < c + 1
          /\ i > c => i + 1 \in 1 .. n + 1 /\ ~(i + 1 < c + 1) /\ i + 1 # c + 1 /\ (i + 1) - 1 = i
      BY <1>1, <2>2
    <3> QED BY <2>5, <3>1
  <2>10. LevelOK(lw, Q, v, m) /\ Has(lw, k)
    <3>1. 1 .. 1 = {1}
      OBVIOUS
    <3>2. \A j \in 1 .. 1 : j = 1
      OBVIOUS
    <3>3. k \in Q /\ v[k] = f /\ k \in DOMAIN m /\ e.val = m[k]
      BY <1>0
    <3> QED BY <2>3, <3>1, <3>2, <3>3 DEF LevelOK, Has
  <2>11. \A j \in 1 .. n + 1 : LevelOK(t[j], Q, v, m)
    BY <1>1, <1>2, <2>8, <2>10
  <2>12. ASSUME NEW j \in 1 .. n + 1, NEW i \in 1 .. n + 1, j < i PROVE t[j].freq < t[i].freq
    <3>1. CASE j \in 1 .. c /\ j \in 1 .. n /\ t[j] = ls[j]
      <4>1. ls[j].freq < f
        BY <1>1, <2>2, <3>1
      <4>2. CASE i \in 1 .. n /\ t[i] = ls[i]
        BY <1>1, <2>12, <3>1, <4>2
      <4>3. CASE t[i] = lw
        BY <2>3, <3>1, <4>1, <4>3
      <4>4. CASE i - 1 \in 1 .. n /\ i - 1 > c /\ t[i] = ls[i - 1]
        <5>1. f < ls[i - 1].freq
          BY <2>7, <4>4
        <5>2. ls[j].freq \in Nat /\ ls[i - 1].freq \in Nat
          BY <1>1, <3>1, <4>4
        <5> QED BY <3>1, <4>1, <4>4, <5>1, <5>2
      <4> QED BY <2>8, <4>2, <4>3, <4>4
    <3>2. CASE j = c + 1 /\ t[j] = lw
      <4>1. i - 1 \in 1 .. n /\ i - 1 > c /\ t[i] = ls[i - 1]
        <5>1. ~(i \in 1 .. c) /\ i # c + 1
          BY <2>2, <2>12, <3>2
        <5> QED BY <2>8, <5>1
      <4> QED BY <2>3, <2>7, <3>2, <4>1
    <3>3. CASE j - 1 \in 1 .. n /\ j - 1 > c /\ t[j] = ls[j - 1] /\ j > c + 1
      <4>1. i - 1 \in 1 .. n /\ t[i] = ls[i - 1]
        <5>1. ~(i \in 1 .. c) /\ i # c + 1
          BY <2>2, <2>12, <3>3
        <5> QED BY <2>8, <5>1
      <4>2. j - 1 < i - 1
        BY <1>1, <2>12
      <4> QED BY <1>1, <3>3, <4>1, <4>2
    <3> QED BY <2>8, <3>1, <3>2, <3>3
  <2>13. \A i \in 1 .. n : \E j \in 1 .. n + 1 : t[j] = ls[i]
    <3> TAKE i \in 1 .. n
    <3>1. i <= c \/ i > c
      BY <1>1, <2>2
    <3> QED BY <2>9, <3>1
  <2>14. \E j \in 1 .. n + 1 : t[j] = lw
    <3>1. ~(c + 1 < c + 1)
      BY <1>1, <2>2
    <3> QED BY <2>4, <2>5, <3>1
  <2>15. \A x \in Q : \E j \in 1 .. n + 1 : Has(t[j], x)
    <3> TAKE x \in Q
    <3>1. CASE x = k
      BY <2>10, <2>14, <3>1
    <3>2. CASE x # k
      BY <1>1, <2>13, <3>2
    <3> QED BY <3>1, <3>2
  <2>16. Filed(t, Q, v, m)
    BY <2>5, <2>11, <2>12, <2>15 DEF Filed
  <2>17. NowFiled(ls, t, f)
    <3>1. \A i \in 1 .. n : ls[i].freq < f => i \in 1 .. n + 1 /\ t[i] = ls[i]
      BY <2>2, <2>9
    <3> QED BY <2>3, <2>5, <2>13, <2>14, <3>1 DEF NowFiled, n
  <2> QED BY <2>16, <2>17 DEF t
<1> QED BY <1>3, <1>4


LfuFields == {"kind", "levels", "min", "count", "last", "uses", "used", "ahead"}
LfuShape(h) == h = [f \in LfuFields |-> h[f]] /\ h.kind = "lfu"
OfUses(u) == u = [x \in DOMAIN u |-> u[x]] /\ IsFiniteSet(DOMAIN u)

(* What is known of the lowest frequency: none without entries, and the     *)
(* level of frequency one is there while the cache takes it for the lowest. *)
LowKnown(ls, min, K) ==
    /\ min \in Nat /\ (min = 0 => K = {})
    /\ min = 1 => \E i \in 1 .. Len(ls) : ls[i].freq = 1

LfuSound(h) ==
    /\ LfuShape(h) /\ OfUses(h.uses) /\ h.count = Cardinality(DOMAIN h.uses) /\ h.ahead \in BOOLEAN
    /\ Filed(h.levels, DOMAIN h.uses, h.uses, h.last) /\ LowKnown(h.levels, h.min, DOMAIN h.uses)

LfuKept(h) == LfuSound(h) /\ (h.count > NcCap => h.ahead)

LEMMA NewLfuKept == LfuKept(NewLfu)
<1>1. LfuShape(NewLfu)
  BY DEF LfuShape, LfuFields, NewLfu
<1>2. DOMAIN NoneYet = {} /\ NoneYet = [x \in DOMAIN NoneYet |-> NoneYet[x]]
  BY DEF NoneYet
<1>3. NewLfu.uses = NoneYet /\ NewLfu.last = NoneYet /\ NewLfu.count = 0 /\ NewLfu.min = 0 /\ NewLfu.levels = <<>>
      /\ NewLfu.ahead = FALSE
  BY DEF NewLfu
<1>4. OfUses(NoneYet) /\ Cardinality({}) = 0
  BY <1>2, FS_EmptySet DEF OfUses
<1>5. Filed(<<>>, {}, NoneYet, NoneYet)
  BY DEF Filed
<1>6. LowKnown(<<>>, 0, {})
  BY DEF LowKnown
<1>7. 0 > NcCap => FALSE
  BY SlotsFacts
<1> QED BY <1>1, <1>2, <1>3, <1>4, <1>5, <1>6, <1>7 DEF LfuKept, LfuSound

(* Where a key is.                                                         *)
LEMMA LevelFacts ==
    ASSUME NEW ls, NEW K, NEW u, NEW l, Filed(ls, K, u, l)
    PROVE  /\ ls \in Seq(Levels) /\ Len(ls) \in Nat /\ DOMAIN ls = 1 .. Len(ls)
           /\ \A i \in 1 .. Len(ls) : /\ ls[i] \in Levels /\ ls[i].freq \in Nat \ {0}
                                      /\ ls[i].entries \in Seq(LfuEntries) /\ LevelOK(ls[i], K, u, l)
           /\ \A k : InLevels(ls, k) <=> k \in K
<1>1. ls \in Seq(Levels) /\ Len(ls) \in Nat /\ DOMAIN ls = 1 .. Len(ls)
  BY DEF Filed
<1>2. ASSUME NEW i \in 1 .. Len(ls)
      PROVE  /\ ls[i] \in Levels /\ ls[i].freq \in Nat \ {0}
             /\ ls[i].entries \in Seq(LfuEntries) /\ LevelOK(ls[i], K, u, l)
  <2>1. ls[i] \in Levels /\ LevelOK(ls[i], K, u, l)
    BY <1>1 DEF Filed
  <2> QED BY <2>1 DEF Levels
<1>3. ASSUME NEW k, NEW i \in 1 .. Len(ls) PROVE Keyed(ls[i].entries, k) <=> Has(ls[i], k)
  <2>1. DOMAIN ls[i].entries = 1 .. Len(ls[i].entries)
    BY <1>2
  <2> QED BY <2>1 DEF Keyed, Has
<1>4. ASSUME NEW k PROVE InLevels(ls, k) <=> k \in K
  <2>1. InLevels(ls, k) <=> \E i \in 1 .. Len(ls) : Has(ls[i], k)
    BY <1>1, <1>3 DEF InLevels
  <2>2. \A i \in 1 .. Len(ls) : Has(ls[i], k) => k \in K
    BY <1>2 DEF LevelOK, Has
  <2>3. k \in K => \E i \in 1 .. Len(ls) : Has(ls[i], k)
    BY DEF Filed
  <2> QED BY <2>1, <2>2, <2>3
<1> QED BY <1>1, <1>2, <1>4

FoundAt(ls, K, u, l, k, i, p) ==
    /\ i \in 1 .. Len(ls) /\ p \in 1 .. Len(ls[i].entries) /\ ls[i].entries[p].key = k
    /\ ls[i].freq = u[k] /\ ls[i].entries[p] \in LfuEntries /\ Keyed(ls[i].entries, k)
    /\ k \in DOMAIN l /\ ls[i].entries[p].val = l[k]

LEMMA LevelOfIs ==
    ASSUME NEW ls, NEW K, NEW u, NEW l, Filed(ls, K, u, l), NEW k \in K
    PROVE  FoundAt(ls, K, u, l, k, LevelOf(ls, k), PlaceOf(ls[LevelOf(ls, k)].entries, k))
<1> DEFINE i == LevelOf(ls, k)
           s == ls[i].entries
           p == PlaceOf(s, k)
<1>1. i \in 1 .. Len(ls) /\ Keyed(s, k)
  BY LevelFacts DEF InLevels, LevelOf
<1> HIDE DEF i
<1>2. s \in Seq(LfuEntries) /\ LevelOK(ls[i], K, u, l)
  BY <1>1, LevelFacts
<1>3. p \in 1 .. Len(s) /\ s[p].key = k /\ s[p] \in LfuEntries
  <2> HIDE DEF s
  <2> QED BY <1>1, <1>2, PlaceIs
<1> HIDE DEF p
<1>4. u[s[p].key] = ls[i].freq /\ s[p].key \in DOMAIN l /\ s[p].val = l[s[p].key]
  BY <1>2, <1>3 DEF LevelOK
<1> QED BY <1>1, <1>3, <1>4 DEF FoundAt, i, p


(* An entry of a level gets another value.                                 *)
Revalued(ls, i, p, v) == [ls EXCEPT ![i].entries[p].val = v]

LEMMA RevaluedFiled ==
    ASSUME NEW ls, NEW K, NEW u, NEW l, Filed(ls, K, u, l), NEW k \in K, NEW v \in NcVals, NEW i, NEW p,
           FoundAt(ls, K, u, l, k, i, p)
    PROVE  /\ Filed(Revalued(ls, i, p, v), K, u, Noting(l, k, v))
           /\ Len(Revalued(ls, i, p, v)) = Len(ls)
           /\ \A j \in 1 .. Len(ls) : Revalued(ls, i, p, v)[j].freq = ls[j].freq
<1> DEFINE s == ls[i].entries
           e == [key |-> k, val |-> v]
           t == [s EXCEPT ![p] = e]
           lv == [freq |-> ls[i].freq, entries |-> t]
           m == Noting(l, k, v)
           r == [ls EXCEPT ![i] = lv]
<1>1. /\ i \in 1 .. Len(ls) /\ p \in 1 .. Len(s) /\ s[p].key = k /\ ls[i].freq = u[k] /\ s[p] \in LfuEntries
      /\ k \in DOMAIN l
  BY DEF FoundAt
<1>2. /\ ls \in Seq(Levels) /\ Len(ls) \in Nat /\ ls[i] \in Levels /\ ls[i].freq \in Nat \ {0}
      /\ s \in Seq(LfuEntries) /\ LevelOK(ls[i], K, u, l)
  BY <1>1, LevelFacts
<1>3. e \in LfuEntries /\ e.key = k /\ e.val = v
  BY <1>1 DEF LfuEntries
<1>4. Revalued(ls, i, p, v) = r
  <2>1. s[p] = [key |-> k, val |-> s[p].val]
    BY <1>1 DEF LfuEntries
  <2>2. [s[p] EXCEPT !.val = v] = e
    BY <2>1
  <2>3. [s EXCEPT ![p].val = v] = t
    BY <1>1, <1>2, <2>2
  <2>4. ls[i] = [freq |-> ls[i].freq, entries |-> s]
    BY <1>2 DEF Levels
  <2> HIDE DEF t
  <2>5. [ls[i] EXCEPT !.entries = t] = lv
    BY <2>4
  <2>6. Revalued(ls, i, p, v) = [ls EXCEPT ![i] = [ls[i] EXCEPT !.entries = [s EXCEPT ![p].val = v]]]
    BY DEF Revalued
  <2> HIDE DEF lv, s
  <2> QED BY <2>3, <2>5, <2>6
<1> HIDE DEF e
<1>5. t \in Seq(LfuEntries) /\ Len(t) = Len(s) /\ \A j \in 1 .. Len(s) : t[j] = IF j = p THEN e ELSE s[j]
  BY <1>1, <1>2, <1>3
<1> HIDE DEF t
<1>6. lv \in Levels /\ lv.freq = ls[i].freq /\ lv.entries = t
  BY <1>2, <1>5 DEF Levels
<1> HIDE DEF lv
<1>7. k \in DOMAIN m /\ m[k] = v /\ \A x \in DOMAIN l : x \in DOMAIN m /\ (x # k => m[x] = l[x])
  BY DEF Noting
<1> HIDE DEF m
<1>8. /\ \A j \in 1 .. Len(s) : s[j].key \in K /\ u[s[j].key] = ls[i].freq /\ s[j].key \in DOMAIN l /\ s[j].val = l[s[j].key]
      /\ \A j, n \in 1 .. Len(s) : s[j].key = s[n].key => j = n
  BY <1>2 DEF LevelOK
<1> HIDE DEF s
<1>9. \A j \in 1 .. Len(s) : t[j].key = s[j].key /\ (j # p => s[j].key # k /\ t[j].val = s[j].val)
  BY <1>1, <1>3, <1>5, <1>8
<1>10. \A j \in 1 .. Len(s) : t[j].key \in DOMAIN m /\ t[j].val = m[t[j].key]
  <2> TAKE j \in 1 .. Len(s)
  <2>1. CASE j = p
    BY <1>1, <1>3, <1>5, <1>7, <2>1
  <2>2. CASE j # p
    BY <1>7, <1>8, <1>9, <2>2
  <2> QED BY <2>1, <2>2
<1>11. LevelOK(lv, K, u, m)
  BY <1>5, <1>6, <1>8, <1>9, <1>10 DEF LevelOK
<1>12. \A x : Has(lv, x) <=> Has(ls[i], x)
  BY <1>5, <1>6, <1>9 DEF Has, s
<1>13. Has(ls[i], k)
  BY <1>1 DEF Has, s
<1>14. ASSUME NEW j \in 1 .. Len(ls), j # i PROVE LevelOK(ls[j], K, u, m)
  <2>1. ~Has(ls[j], k)
    BY <1>1, <1>13, <1>14, LevelsApart
  <2>2. LevelOK(ls[j], K, u, l)
    BY DEF Filed
  <2>3. \A x \in K : Has(ls[j], x) => x \in K /\ u[x] = u[x] /\ (x \in DOMAIN l => x \in DOMAIN m /\ m[x] = l[x])
    BY <1>7, <2>1
  <2> QED BY <2>2, <2>3, LevelSame
<1>15. \A x \in K : Has(lv, x) \/ \E j \in 1 .. Len(ls) : j # i /\ Has(ls[j], x)
  BY <1>12 DEF Filed
<1>16. Filed(r, K, u, m) /\ Len(r) = Len(ls)
  BY <1>1, <1>6, <1>11, <1>14, <1>15, FiledEdited
<1>17. \A j \in 1 .. Len(ls) : r[j].freq = ls[j].freq
  <2>1. \A j \in 1 .. Len(ls) : r[j] = IF j = i THEN lv ELSE ls[j]
    BY <1>1, <1>2
  <2> HIDE DEF r
  <2> QED BY <1>6, <2>1
<1> HIDE DEF r
<1> QED BY <1>4, <1>16, <1>17 DEF m

(* The levels after one more use of a key.                                 *)
LeftLevels(ls, k) == [ls EXCEPT ![LevelOf(ls, k)].entries = Dropping(@, k)]
Raised(ls, k) ==
    Leveled(LeftLevels(ls, k), ls[LevelOf(ls, k)].freq + 1,
            ls[LevelOf(ls, k)].entries[PlaceOf(ls[LevelOf(ls, k)].entries, k)])
Gone(ls, min, k) == LeftLevels(ls, k)[LevelOf(ls, k)].entries = <<>> /\ min = ls[LevelOf(ls, k)].freq

LEMMA RaisedFiled ==
    ASSUME NEW ls, NEW K, NEW u, NEW l, Filed(ls, K, u, l), NEW k \in K, NEW v, v[k] = u[k] + 1,
           \A x \in K \ {k} : v[x] = u[x]
    PROVE  /\ Filed(Raised(ls, k), K, v, l)
           /\ \A j \in 1 .. Len(ls) : \E i \in 1 .. Len(Raised(ls, k)) : Raised(ls, k)[i].freq = ls[j].freq
           /\ \A min : Gone(ls, min, k) => Filed(RemoveAt(Raised(ls, k), LevelOf(ls, k)), K, v, l)
<1> DEFINE i == LevelOf(ls, k)
           s == ls[i].entries
           p == PlaceOf(s, k)
           e == s[p]
           f == ls[i].freq
           left == LeftLevels(ls, k)
           up == Raised(ls, k)
<1>1. FoundAt(ls, K, u, l, k, i, p)
  BY LevelOfIs
<1> HIDE DEF i, p
<1>2. /\ i \in 1 .. Len(ls) /\ p \in 1 .. Len(s) /\ s[p].key = k /\ f = u[k] /\ s[p] \in LfuEntries /\ Keyed(s, k)
      /\ k \in DOMAIN l /\ s[p].val = l[k]
  BY <1>1 DEF FoundAt
<1>3. f \in Nat \ {0} /\ ls \in Seq(Levels) /\ Len(ls) \in Nat
  BY <1>2, LevelFacts
<1>4. left = Lessened(ls, i, p)
  <2>1. left = [ls EXCEPT ![i] = [ls[i] EXCEPT !.entries = Dropping(s, k)]]
    BY DEF LeftLevels, i
  <2>2. Dropping(s, k) = RemoveAt(s, p)
    BY <1>2 DEF Dropping, p
  <2> QED BY <2>1, <2>2 DEF Lessened
<1>5. Filed(left, K \ {k}, u, l) /\ Len(left) = Len(ls)
  BY <1>2, <1>4, FiledLess
<1>6. \A j \in 1 .. Len(ls) : left[j].freq = ls[j].freq
  <2> DEFINE r == RemoveAt(s, p)
             lw == [ls[i] EXCEPT !.entries = r]
  <2>1. left = [ls EXCEPT ![i] = lw]
    BY <1>4 DEF Lessened
  <2>2. ls[i] \in Levels
    BY <1>2, <1>3
  <2> HIDE DEF r
  <2>3. lw.freq = f
    BY <2>2 DEF Levels
  <2> HIDE DEF lw, left
  <2>4. \A j \in 1 .. Len(ls) : left[j] = IF j = i THEN lw ELSE ls[j]
    BY <1>2, <1>3, <2>1
  <2> QED BY <2>3, <2>4
<1>7. up = Leveled(left, f + 1, e)
  BY DEF Raised, i, p
<1> HIDE DEF left, up
<1>8. Comes(K \ {k}, u, l, e, v, l, f + 1)
  BY <1>2, <1>3 DEF Comes
<1>9. f + 1 \in Nat \ {0} /\ f < f + 1
  BY <1>3
<1>10. Filed(up, (K \ {k}) \cup {e.key}, v, l) /\ NowFiled(left, up, f + 1)
  <2> HIDE DEF e, f
  <2> QED BY <1>5, <1>7, <1>8, <1>9, FiledMore
<1>11. (K \ {k}) \cup {e.key} = K
  BY <1>2
<1>12. Filed(up, K, v, l)
  BY <1>10, <1>11
<1>13. \A j \in 1 .. Len(ls) : \E q \in 1 .. Len(up) : up[q].freq = ls[j].freq
  BY <1>5, <1>6, <1>10 DEF NowFiled
<1>14. i \in 1 .. Len(up) /\ up[i] = left[i]
  BY <1>2, <1>5, <1>6, <1>9, <1>10 DEF NowFiled
<1>15. ASSUME NEW min, Gone(ls, min, k) PROVE Filed(RemoveAt(up, i), K, v, l)
  <2>1. up[i].entries = <<>>
    BY <1>14, <1>15 DEF Gone, left, i
  <2> QED BY <1>12, <1>14, <2>1, FiledGone
<1> QED BY <1>12, <1>13, <1>15 DEF up, i


(* One more use of a key, in the cache.                                    *)
LEMMA IncrementedIs ==
    ASSUME NEW h, LfuSound(h), NEW k \in DOMAIN h.uses
    PROVE  /\ LfuSound(Incremented(h, k)) /\ Incremented(h, k).count = h.count
           /\ Incremented(h, k).ahead = h.ahead
<1> DEFINE g == Incremented(h, k)
           ls == h.levels
           K == DOMAIN h.uses
           v == [h.uses EXCEPT ![k] = @ + 1]
           f == ls[LevelOf(ls, k)].freq
           up == Raised(ls, k)
           gone == Gone(ls, h.min, k)
           min == IF gone THEN f + 1 ELSE IF h.min = 0 THEN 1 ELSE h.min
           new == IF gone THEN RemoveAt(up, LevelOf(ls, k)) ELSE up
<1>1. /\ LfuShape(h) /\ OfUses(h.uses) /\ h.count = Cardinality(K) /\ h.ahead \in BOOLEAN
      /\ Filed(ls, K, h.uses, h.last) /\ LowKnown(ls, h.min, K)
  BY DEF LfuSound
<1>2. g = [h EXCEPT !.levels = new, !.min = min, !.uses = v, !.used = UsedNow(@, k)]
  BY DEF Incremented, Raised, LeftLevels, Gone
<1>3. f \in Nat \ {0}
  BY <1>1, LevelOfIs, LevelFacts DEF FoundAt
<1>4. DOMAIN v = K /\ v[k] = h.uses[k] + 1 /\ \A x \in K \ {k} : v[x] = h.uses[x]
  BY <1>1 DEF OfUses
<1>5. OfUses(v)
  BY <1>1 DEF OfUses
<1> HIDE DEF v
<1>6. /\ Filed(up, K, v, h.last)
      /\ \A j \in 1 .. Len(ls) : \E i \in 1 .. Len(up) : up[i].freq = ls[j].freq
      /\ gone => Filed(RemoveAt(up, LevelOf(ls, k)), K, v, h.last)
  BY <1>1, <1>4, RaisedFiled
<1> HIDE DEF up, gone
<1>7. Filed(new, K, v, h.last)
  BY <1>6
<1>8. LowKnown(new, min, K)
  <2>1. CASE gone
    <3>1. min = f + 1 /\ f + 1 \in Nat /\ f + 1 # 0 /\ f + 1 # 1
      BY <1>3, <2>1
    <3> HIDE DEF min, new
    <3> QED BY <3>1 DEF LowKnown
  <2>2. CASE ~gone
    <3>1. h.min # 0 /\ min = h.min /\ new = up /\ min \in Nat
      BY <1>1, <2>2 DEF LowKnown
    <3> HIDE DEF min, new
    <3>2. min = 1 => \E i \in 1 .. Len(up) : up[i].freq = 1
      <4> SUFFICES ASSUME min = 1 PROVE \E i \in 1 .. Len(up) : up[i].freq = 1
        OBVIOUS
      <4>1. PICK j \in 1 .. Len(ls) : ls[j].freq = 1
        BY <1>1, <3>1 DEF LowKnown
      <4> QED BY <1>6, <4>1
    <3> QED BY <3>1, <3>2 DEF LowKnown
  <2> QED BY <2>1, <2>2
<1> HIDE DEF new, min
<1>9. /\ g = [x \in LfuFields |-> g[x]] /\ g.kind = "lfu" /\ g.levels = new /\ g.min = min /\ g.uses = v
      /\ g.count = h.count /\ g.last = h.last /\ g.ahead = h.ahead
  BY <1>1, <1>2 DEF LfuShape, LfuFields
<1> HIDE DEF g
<1>10. LfuShape(g) /\ OfUses(g.uses) /\ g.count = Cardinality(DOMAIN g.uses) /\ g.ahead \in BOOLEAN
  BY <1>1, <1>4, <1>5, <1>9 DEF LfuShape
<1>11. Filed(g.levels, DOMAIN g.uses, g.uses, g.last) /\ LowKnown(g.levels, g.min, DOMAIN g.uses)
  BY <1>4, <1>7, <1>8, <1>9
<1> QED BY <1>9, <1>10, <1>11 DEF LfuSound, g

(* The end of every step: once ahead, for ever ahead.                      *)
LEMMA LfuStepKeeps ==
    ASSUME NEW h, LfuSound(h), h.count > NcCap => h.ahead, LfuStep(h)
    PROVE  LfuKept(handle')
<1> DEFINE b == h.ahead \/ \E i \in DOMAIN h.levels : h.levels[i].freq < h.min /\ h.levels[i].entries # <<>>
           g == handle'
<1>1. g = [h EXCEPT !.ahead = b]
  BY DEF LfuStep
<1>2. b \in BOOLEAN /\ (h.count > NcCap => b)
  OBVIOUS
<1> HIDE DEF b
<1>3. /\ LfuShape(g) /\ g.levels = h.levels /\ g.min = h.min /\ g.uses = h.uses
      /\ g.count = h.count /\ g.last = h.last /\ g.ahead = b
  BY <1>1 DEF LfuSound, LfuShape, LfuFields
<1> HIDE DEF g
<1>4. LfuSound(g) /\ (g.count > NcCap => g.ahead)
  BY <1>2, <1>3 DEF LfuSound
<1> QED BY <1>4 DEF LfuKept, g

LEMMA LfuGetKeeps ==
    ASSUME LfuKept(handle), NEW k, LfuGet(k)
    PROVE  LfuKept(handle')
<1>1. LfuSound(handle) /\ (handle.count > NcCap => handle.ahead)
  BY DEF LfuKept
<1>2. Filed(handle.levels, DOMAIN handle.uses, handle.uses, handle.last)
  BY <1>1 DEF LfuSound
<1>3. InLevels(handle.levels, k) /\ LfuStep(Incremented(handle, k))
  BY DEF LfuGet
<1>4. k \in DOMAIN handle.uses
  BY <1>2, <1>3, LevelFacts
<1> DEFINE g == Incremented(handle, k)
<1>5. LfuSound(g) /\ g.count = handle.count /\ g.ahead = handle.ahead
  BY <1>1, <1>4, IncrementedIs
<1>6. LfuStep(g)
  BY <1>3
<1> HIDE DEF g
<1> QED BY <1>1, <1>5, <1>6, LfuStepKeeps

LEMMA LfuPutThereKeeps ==
    ASSUME LfuKept(handle), NEW k, NEW v \in NcVals, LfuPutThere(k, v)
    PROVE  LfuKept(handle')
<1> DEFINE ls == handle.levels
           K == DOMAIN handle.uses
           i == LevelOf(ls, k)
           p == PlaceOf(ls[i].entries, k)
           w == Revalued(ls, i, p, v)
           h == [handle EXCEPT !.levels = w, !.last = Noting(handle.last, k, v)]
           g == Incremented(h, k)
<1>1. LfuSound(handle) /\ (handle.count > NcCap => handle.ahead)
  BY DEF LfuKept
<1>2. Filed(ls, K, handle.uses, handle.last) /\ LowKnown(ls, handle.min, K)
  BY <1>1 DEF LfuSound
<1>3. InLevels(ls, k)
  BY DEF LfuPutThere
<1>4. k \in K
  BY <1>2, <1>3, LevelFacts
<1>5. LfuStep(Incremented([handle EXCEPT !.levels[i].entries[p].val = v, !.last = Noting(@, k, v)], k))
  BY DEF LfuPutThere
<1>6. [handle EXCEPT !.levels[i].entries[p].val = v, !.last = Noting(@, k, v)] = h
  BY DEF Revalued
<1>7. FoundAt(ls, K, handle.uses, handle.last, k, i, p)
  BY <1>2, <1>4, LevelOfIs
<1> HIDE DEF h, i, p
<1>8. LfuStep(g)
  BY <1>5, <1>6
<1>9. /\ Filed(w, K, handle.uses, Noting(handle.last, k, v)) /\ Len(w) = Len(ls)
      /\ \A j \in 1 .. Len(ls) : w[j].freq = ls[j].freq
  BY <1>2, <1>4, <1>7, RevaluedFiled
<1> HIDE DEF w
<1>10. /\ LfuShape(h) /\ h.levels = w /\ h.min = handle.min /\ h.uses = handle.uses
       /\ h.count = handle.count /\ h.last = Noting(handle.last, k, v) /\ h.ahead = handle.ahead
  BY <1>1 DEF h, LfuSound, LfuShape, LfuFields
<1>11. LowKnown(w, handle.min, K)
  BY <1>2, <1>9 DEF LowKnown
<1>12. LfuSound(h)
  BY <1>1, <1>9, <1>10, <1>11 DEF LfuSound
<1>13. k \in DOMAIN h.uses
  BY <1>4, <1>10
<1>14. LfuSound(g) /\ g.count = h.count /\ g.ahead = h.ahead
  BY <1>12, <1>13, IncrementedIs
<1> HIDE DEF g
<1>15. g.count > NcCap => g.ahead
  BY <1>1, <1>10, <1>14
<1> QED BY <1>8, <1>14, <1>15, LfuStepKeeps


LEMMA FiledSame ==
    ASSUME NEW ls, NEW K, NEW u, NEW l, Filed(ls, K, u, l), NEW v, \A x \in K : v[x] = u[x]
    PROVE  Filed(ls, K, v, l)
<1>1. ASSUME NEW i \in 1 .. Len(ls) PROVE LevelOK(ls[i], K, v, l)
  <2>1. LevelOK(ls[i], K, u, l)
    BY DEF Filed
  <2>2. \A x \in K : Has(ls[i], x) => x \in K /\ v[x] = u[x] /\ (x \in DOMAIN l => x \in DOMAIN l /\ l[x] = l[x])
    OBVIOUS
  <2> QED BY <2>1, <2>2, LevelSame
<1> QED BY <1>1 DEF Filed

LEMMA TailIs ==
    ASSUME NEW S, NEW s \in Seq(S), s # <<>>
    PROVE  RemoveAt(s, 1) = Tail(s) /\ Len(Tail(s)) = Len(s) - 1 /\ Tail(s) \in Seq(S) /\ 1 \in 1 .. Len(s)
<1> DEFINE r == RemoveAt(s, 1)
           t == Tail(s)
           n == Len(s)
<1>1. n \in Nat /\ 1 \in 1 .. n
  OBVIOUS
<1>2. t \in Seq(S) /\ Len(t) = n - 1 /\ \A i \in 1 .. n - 1 : t[i] = s[i + 1]
  OBVIOUS
<1>3. r \in Seq(S) /\ Len(r) = n - 1 /\ \A i \in 1 .. n - 1 : r[i] = IF i < 1 THEN s[i] ELSE s[i + 1]
  BY <1>1, RemovedIs DEF OneLess
<1> HIDE DEF r, t, n
<1>4. \A i \in 1 .. n - 1 : r[i] = t[i]
  <2> TAKE i \in 1 .. n - 1
  <2>1. ~(i < 1)
    BY <1>1
  <2> QED BY <1>2, <1>3, <2>1
<1>5. r = t
  BY <1>2, <1>3, <1>4, SeqEqual
<1> QED BY <1>1, <1>2, <1>5 DEF r, t, n

(* A level that is given up takes what it had along.                       *)
LEMMA LessenedGone ==
    ASSUME NEW ls \in Seq(Levels), NEW i \in 1 .. Len(ls), ls[i].entries \in Seq(LfuEntries), NEW p \in 1 .. Len(ls[i].entries)
    PROVE  /\ RemoveAt(Lessened(ls, i, p), i) = RemoveAt(ls, i)
           /\ Lessened(ls, i, p) \in Seq(Levels) /\ Len(Lessened(ls, i, p)) = Len(ls)
           /\ Lessened(ls, i, p)[i].entries = RemoveAt(ls[i].entries, p)
           /\ \A j \in 1 .. Len(ls) : Lessened(ls, i, p)[j].freq = ls[j].freq
<1> DEFINE r == RemoveAt(ls[i].entries, p)
           lw == [ls[i] EXCEPT !.entries = r]
           t == Lessened(ls, i, p)
           n == Len(ls)
           a == RemoveAt(t, i)
           b == RemoveAt(ls, i)
<1>1. t = [ls EXCEPT ![i] = lw]
  BY DEF Lessened
<1>2. r \in Seq(LfuEntries)
  BY RemovedIs DEF OneLess
<1> HIDE DEF r
<1>3. lw \in Levels /\ lw.freq = ls[i].freq /\ lw.entries = r
  <2>1. ls[i] \in Levels
    OBVIOUS
  <2> QED BY <1>2, <2>1 DEF Levels
<1> HIDE DEF lw, t
<1>4. t \in Seq(Levels) /\ Len(t) = n /\ \A j \in 1 .. n : t[j] = IF j = i THEN lw ELSE ls[j]
  BY <1>1, <1>3
<1>5. n \in Nat /\ i \in 1 .. n
  OBVIOUS
<1>6. b \in Seq(Levels) /\ Len(b) = n - 1 /\ \A j \in 1 .. n - 1 : b[j] = IF j < i THEN ls[j] ELSE ls[j + 1]
  BY <1>5, RemovedIs DEF OneLess
<1>7. a \in Seq(Levels) /\ Len(a) = n - 1 /\ \A j \in 1 .. n - 1 : a[j] = IF j < i THEN t[j] ELSE t[j + 1]
  BY <1>4, <1>5, RemovedIs DEF OneLess
<1> HIDE DEF a, b, n
<1>8. \A j \in 1 .. n - 1 : a[j] = b[j]
  <2> TAKE j \in 1 .. n - 1
  <2>1. j \in 1 .. n /\ j + 1 \in 1 .. n /\ (j < i => j # i) /\ (~(j < i) => j + 1 # i)
    BY <1>5
  <2> QED BY <1>4, <1>6, <1>7, <2>1
<1>9. a = b
  BY <1>6, <1>7, <1>8, SeqEqual
<1>10. \A j \in 1 .. n : t[j].freq = ls[j].freq
  BY <1>3, <1>4
<1> QED BY <1>3, <1>4, <1>5, <1>9, <1>10 DEF a, b, t, n, r

(* One entry less, or the lowest frequency known to be higher.              *)
Done(h) == h.count < NcCap \/ LevelAt(h.levels, h.min) = {}
Capped(ls, T) == \A i \in 1 .. Len(ls) : ls[i].freq <= T

Outed(h, g, T) ==
    /\ LfuSound(g) /\ g.ahead = h.ahead /\ g.last = h.last /\ Capped(g.levels, T)
    /\ g.count <= h.count /\ DOMAIN g.uses \subseteq DOMAIN h.uses
    /\ g.count + (T + 1 - g.min) < h.count + (T + 1 - h.min)

LEMMA CountFacts ==
    ASSUME NEW h, LfuSound(h)
    PROVE  h.count \in Nat /\ h.min \in Nat /\ Filed(h.levels, DOMAIN h.uses, h.uses, h.last)
BY FS_CardinalityType DEF LfuSound, OfUses, LowKnown

LEMMA OneOutIs ==
    ASSUME NEW h, LfuSound(h), ~Done(h), NEW T \in Nat, Capped(h.levels, T)
    PROVE  Outed(h, OneOut(h), T) /\ h.min <= T /\ h.count > 0
<1> DEFINE ls == h.levels
           K == DOMAIN h.uses
           u == h.uses
           at == LevelAt(ls, h.min)
           i == CHOOSE x \in at : TRUE
           es == ls[i].entries
           g == OneOut(h)
           cut == [ls EXCEPT ![i].entries = Tail(es)]
           Fewer(lv, mn) == [h EXCEPT !.levels = lv, !.min = mn, !.count = @ - 1, !.uses = Without(@, es[1].key)]
<1>1. /\ LfuShape(h) /\ OfUses(u) /\ h.count = Cardinality(K) /\ h.ahead \in BOOLEAN
      /\ Filed(ls, K, u, h.last) /\ LowKnown(ls, h.min, K)
  BY DEF LfuSound
<1>2. ~(h.count < NcCap) /\ at # {}
  BY DEF Done
<1>3. /\ ls \in Seq(Levels) /\ Len(ls) \in Nat /\ DOMAIN ls = 1 .. Len(ls)
      /\ \A j \in 1 .. Len(ls) : /\ ls[j] \in Levels /\ ls[j].freq \in Nat \ {0}
                                 /\ ls[j].entries \in Seq(LfuEntries) /\ LevelOK(ls[j], K, u, h.last)
  BY <1>1, LevelFacts
<1>4. i \in 1 .. Len(ls) /\ ls[i].freq = h.min
  BY <1>2, <1>3 DEF LevelAt
<1>5. /\ es = <<>> => g = [h EXCEPT !.min = @ + 1]
      /\ es # <<>> => g = Fewer(IF Len(es) = 1 THEN RemoveAt(ls, i) ELSE cut, IF Len(es) = 1 THEN h.min + 1 ELSE h.min)
  BY <1>2 DEF OneOut
<1> HIDE DEF i, at
<1>6. h.min \in Nat \ {0} /\ h.min <= T /\ h.count \in Nat /\ h.count > 0 /\ NcCap \in Nat \ {0}
  <2>1. h.min \in Nat \ {0} /\ h.min <= T
    BY <1>3, <1>4 DEF Capped
  <2>2. h.count \in Nat /\ NcCap \in Nat \ {0}
    BY CountFacts, SlotsFacts
  <2> QED BY <1>2, <2>1, <2>2
<1>7. h.min + 1 \in Nat /\ h.min + 1 # 0 /\ h.min + 1 # 1
  BY <1>6
<1>8. CASE es = <<>>
  <2>1. /\ LfuShape(g) /\ g.levels = ls /\ g.min = h.min + 1 /\ g.uses = u
        /\ g.count = h.count /\ g.last = h.last /\ g.ahead = h.ahead
    BY <1>1, <1>5, <1>8 DEF LfuShape, LfuFields
  <2> HIDE DEF g
  <2>2. LowKnown(ls, h.min + 1, K)
    BY <1>7 DEF LowKnown
  <2>3. LfuSound(g)
    BY <1>1, <2>1, <2>2 DEF LfuSound
  <2>4. g.count + (T + 1 - g.min) < h.count + (T + 1 - h.min) /\ g.count <= h.count
    BY <1>6, <2>1
  <2>5. Outed(h, g, T)
    BY <2>1, <2>3, <2>4 DEF Outed
  <2> QED BY <1>6, <2>5 DEF g
<1>9. CASE es # <<>>
  <2> DEFINE x == es[1].key
             w == Without(u, x)
             left == Lessened(ls, i, 1)
             new == IF Len(es) = 1 THEN RemoveAt(ls, i) ELSE left
             min == IF Len(es) = 1 THEN h.min + 1 ELSE h.min
  <2>1. es \in Seq(LfuEntries) /\ LevelOK(ls[i], K, u, h.last)
    BY <1>3, <1>4
  <2>2. RemoveAt(es, 1) = Tail(es) /\ Len(Tail(es)) = Len(es) - 1 /\ 1 \in 1 .. Len(es)
    <3> HIDE DEF es
    <3> QED BY <1>9, <2>1, TailIs
  <2>3. x \in K
    BY <2>1, <2>2 DEF LevelOK
  <2>4. left = [ls EXCEPT ![i].entries = Tail(es)]
    <3>1. left = [ls EXCEPT ![i] = [ls[i] EXCEPT !.entries = RemoveAt(es, 1)]]
      BY DEF Lessened
    <3>2. [ls EXCEPT ![i].entries = Tail(es)] = [ls EXCEPT ![i] = [ls[i] EXCEPT !.entries = Tail(es)]]
      OBVIOUS
    <3> QED BY <2>2, <3>1, <3>2
  <2>5. g = [h EXCEPT !.levels = new, !.min = min, !.count = @ - 1, !.uses = w]
    <3>1. g = Fewer(new, min)
      <4> HIDE DEF Fewer, cut, left
      <4>1. CASE Len(es) = 1
        <5>1. new = RemoveAt(ls, i) /\ min = h.min + 1
          BY <4>1
        <5> HIDE DEF new, min
        <5> QED BY <1>5, <1>9, <4>1, <5>1
      <4>2. CASE Len(es) # 1
        <5>1. new = cut /\ min = h.min
          BY <2>4, <4>2 DEF cut
        <5> HIDE DEF new, min
        <5> QED BY <1>5, <1>9, <4>2, <5>1
      <4> QED BY <4>1, <4>2
    <3> HIDE DEF new, min
    <3> QED BY <3>1 DEF Fewer
  <2>6. w = [y \in K \ {x} |-> u[y]]
    BY DEF Without
  <2> HIDE DEF w
  <2>7. DOMAIN w = K \ {x} /\ (\A y \in K \ {x} : w[y] = u[y])
    BY <2>6, SMTT(60)
  <2>8. OfUses(w) /\ Cardinality(K \ {x}) = h.count - 1
    <3>1. IsFiniteSet(K) /\ h.count = Cardinality(K)
      BY <1>1 DEF OfUses
    <3>2. IsFiniteSet(K \ {x}) /\ Cardinality(K \ {x}) = Cardinality(K) - 1
      BY <2>3, <3>1, FS_RemoveElement
    <3>3. w = [y \in DOMAIN w |-> w[y]]
      BY <2>6
    <3> QED BY <2>7, <3>1, <3>2, <3>3 DEF OfUses
  <2>9. Filed(left, K \ {x}, u, h.last) /\ Len(left) = Len(ls)
    <3>1. Filed(left, K \ {ls[i].entries[1].key}, u, h.last) /\ Len(left) = Len(ls)
      <4> HIDE DEF left
      <4> QED BY <1>1, <1>4, <2>2, FiledLess, ZenonT(120) DEF left
    <3> QED BY <3>1
  <2>10. Filed(left, K \ {x}, w, h.last)
    <3> HIDE DEF x, left
    <3> QED BY <2>7, <2>9, FiledSame
  <2>11. /\ RemoveAt(left, i) = RemoveAt(ls, i) /\ left[i].entries = RemoveAt(es, 1)
         /\ \A j \in 1 .. Len(ls) : left[j].freq = ls[j].freq
    BY <1>3, <1>4, <2>1, <2>2, LessenedGone
  <2> HIDE DEF x, left, es
  <2>12. CASE Len(es) = 1
    <3>1. new = RemoveAt(left, i) /\ min = h.min + 1
      BY <2>11, <2>12
    <3>2. left[i].entries = <<>>
      <4>1. Tail(es) \in Seq(LfuEntries) /\ Len(Tail(es)) = 0
        BY <1>9, <2>1, <2>2, <2>12, TailIs
      <4> QED BY <2>2, <2>11, <4>1
    <3>3. Filed(new, K \ {x}, w, h.last)
      BY <1>4, <2>9, <2>10, <3>1, <3>2, FiledGone
    <3>4. LowKnown(new, min, K \ {x})
      BY <1>7, <3>1 DEF LowKnown
    <3>5. Capped(new, T)
      <4>1. new = RemoveAt(ls, i)
        BY <2>12
      <4>2. Len(new) = Len(ls) - 1 /\ \A j \in 1 .. Len(ls) - 1 : new[j] = IF j < i THEN ls[j] ELSE ls[j + 1]
        BY <1>3, <1>4, <4>1, RemovedIs, ZenonT(120) DEF OneLess
      <4>3. \A j \in 1 .. Len(ls) - 1 : j \in 1 .. Len(ls) /\ j + 1 \in 1 .. Len(ls)
        BY <1>3
      <4> HIDE DEF new
      <4> QED BY <4>2, <4>3 DEF Capped
    <3> HIDE DEF new, min
    <3>6. /\ LfuShape(g) /\ g.levels = new /\ g.min = h.min + 1 /\ g.uses = w
          /\ g.count = h.count - 1 /\ g.last = h.last /\ g.ahead = h.ahead
      BY <1>1, <2>5, <3>1 DEF LfuShape, LfuFields
    <3> HIDE DEF g
    <3>7. LfuSound(g)
      BY <1>1, <2>7, <2>8, <3>1, <3>3, <3>4, <3>6 DEF LfuSound
    <3>8. g.count + (T + 1 - g.min) < h.count + (T + 1 - h.min) /\ g.count <= h.count
      BY <1>6, <3>6
    <3>9. Outed(h, g, T)
      BY <2>7, <3>5, <3>6, <3>7, <3>8 DEF Outed
    <3> QED BY <1>6, <3>9 DEF g
  <2>13. CASE Len(es) # 1
    <3>1. new = left /\ min = h.min
      BY <2>13
    <3>2. LowKnown(left, h.min, K \ {x})
      <4>1. h.min = 1 => left[i].freq = 1
        BY <1>4, <2>11
      <4> QED BY <1>4, <1>6, <2>9, <4>1 DEF LowKnown
    <3>3. Capped(left, T)
      BY <2>9, <2>11 DEF Capped
    <3> HIDE DEF new, min
    <3>4. /\ LfuShape(g) /\ g.levels = left /\ g.min = h.min /\ g.uses = w
          /\ g.count = h.count - 1 /\ g.last = h.last /\ g.ahead = h.ahead
      BY <1>1, <2>5, <3>1 DEF LfuShape, LfuFields
    <3> HIDE DEF g
    <3>5. LfuSound(g)
      BY <1>1, <2>7, <2>8, <2>10, <3>2, <3>4 DEF LfuSound
    <3>6. g.count + (T + 1 - g.min) < h.count + (T + 1 - h.min) /\ g.count <= h.count
      BY <1>6, <3>4
    <3>7. Outed(h, g, T)
      BY <2>7, <3>3, <3>4, <3>5, <3>6 DEF Outed
    <3> QED BY <1>6, <3>7 DEF g
  <2> QED BY <2>12, <2>13
<1> QED BY <1>8, <1>9


(* What the loop makes of a cache, step by step.                           *)
Outs(c, m, r) == r = [i \in 0 .. m |-> IF i = 0 THEN c ELSE OneOut(r[i - 1])]

LEMMA OutsExist == ASSUME NEW c, NEW m \in Nat PROVE \E r : Outs(c, m, r)
<1> DEFINE P == {n \in 0 .. m : \E r : Outs(c, n, r)}
<1>1. 0 \in P
  <2> DEFINE r == [i \in 0 .. 0 |-> c]
  <2>1. r = [i \in 0 .. 0 |-> IF i = 0 THEN c ELSE OneOut(r[i - 1])]
    <3>1. \A i \in 0 .. 0 : i = 0
      OBVIOUS
    <3> QED BY <3>1
  <2> HIDE DEF r
  <2>2. Outs(c, 0, r) /\ 0 \in 0 .. m
    BY <2>1 DEF Outs
  <2> QED BY <2>2
<1>2. ASSUME NEW n \in 1 .. m, n - 1 \in P PROVE n \in P
  <2>1. PICK s : Outs(c, n - 1, s)
    BY <1>2
  <2> DEFINE r == [i \in 0 .. n |-> IF i = n THEN OneOut(s[n - 1]) ELSE s[i]]
  <2>2. n - 1 \in Nat /\ n \in Nat \ {0} /\ n \in 0 .. m
    OBVIOUS
  <2>3. \A i \in 0 .. n - 1 : s[i] = IF i = 0 THEN c ELSE OneOut(s[i - 1])
    BY <2>1 DEF Outs
  <2>4. ASSUME NEW i \in 0 .. n PROVE r[i] = IF i = 0 THEN c ELSE OneOut(r[i - 1])
    <3>1. CASE i = n
      <4>1. r[i] = OneOut(s[n - 1]) /\ r[n - 1] = s[n - 1] /\ i # 0
        BY <2>2, <3>1
      <4> QED BY <3>1, <4>1
    <3>2. CASE i # n
      <4>1. i \in 0 .. n - 1 /\ r[i] = s[i] /\ (i # 0 => r[i - 1] = s[i - 1])
        BY <2>2, <3>2
      <4> QED BY <2>3, <4>1
    <3> QED BY <3>1, <3>2
  <2>5. r = [i \in 0 .. n |-> r[i]]
    OBVIOUS
  <2> HIDE DEF r
  <2>6. Outs(c, n, r)
    BY <2>4, <2>5 DEF Outs
  <2> QED BY <2>2, <2>6
<1>3. m \in P
  <2> HIDE DEF P
  <2> QED BY <1>1, <1>2, InductionUpTo
<1> QED BY <1>3

(* Room for one more, or no level of the lowest frequency known.            *)
Roomed(h, g) ==
    /\ LfuSound(g) /\ g.ahead = h.ahead /\ g.last = h.last /\ Done(g)
    /\ g.count <= h.count /\ DOMAIN g.uses \subseteq DOMAIN h.uses

LEMMA EvictedIs ==
    ASSUME NEW h, LfuSound(h)
    PROVE  Roomed(h, Evicted(h))
<1> DEFINE ls == h.levels
           T == TopFreq(ls)
           m == h.count + T + 1
           Solves(r) == r = [i \in 0 .. m |-> IF i = 0 THEN h ELSE OneOut(r[i - 1])]
           w == CHOOSE r : Solves(r)
           Near(g, i) == Done(g) \/ g.count + (T + 1 - g.min) + i <= m
           Ok(g, i) == /\ LfuSound(g) /\ g.ahead = h.ahead /\ g.last = h.last /\ Capped(g.levels, T)
                       /\ g.count <= h.count /\ DOMAIN g.uses \subseteq DOMAIN h.uses /\ Near(g, i)
           P == {i \in 0 .. m : Ok(w[i], i)}
<1>1. Evicted(h) = w[m]
  BY DEF Evicted, Iterated
<1>2. h.count \in Nat /\ h.min \in Nat /\ Filed(ls, DOMAIN h.uses, h.uses, h.last)
  BY CountFacts
<1>3. T \in Nat /\ Capped(ls, T)
  <2>1. /\ ls \in Seq(Levels) /\ Len(ls) \in Nat
        /\ \A i \in 1 .. Len(ls) : ls[i].freq \in Nat \ {0}
    BY <1>2, LevelFacts
  <2>2. CASE ls = <<>>
    BY <2>2 DEF TopFreq, Capped
  <2>3. CASE ls # <<>>
    <3>1. Len(ls) \in 1 .. Len(ls) /\ T = ls[Len(ls)].freq
      BY <2>1, <2>3 DEF TopFreq, Last
    <3>2. \A i \in 1 .. Len(ls) : i < Len(ls) => ls[i].freq < ls[Len(ls)].freq
      BY <1>2, <3>1 DEF Filed
    <3> HIDE DEF T
    <3>3. ASSUME NEW i \in 1 .. Len(ls) PROVE ls[i].freq <= T
      <4>1. i < Len(ls) \/ i = Len(ls)
        BY <2>1
      <4>2. ls[i].freq \in Nat /\ T \in Nat
        BY <2>1, <3>1
      <4> QED BY <3>1, <3>2, <4>1, <4>2
    <3> QED BY <2>1, <3>1, <3>3 DEF Capped
  <2> QED BY <2>2, <2>3
<1>4. m \in Nat
  BY <1>2, <1>3
<1> HIDE DEF T
<1>5. Solves(w)
  <2>1. \E r : Solves(r)
    <3>1. PICK r : Outs(h, m, r)
      BY <1>4, OutsExist
    <3> QED BY <3>1 DEF Outs
  <2> HIDE DEF Solves
  <2> QED BY <2>1
<1> HIDE DEF w
<1>6. w[0] = h /\ \A i \in 1 .. m : w[i] = OneOut(w[i - 1])
  BY <1>4, <1>5
<1> HIDE DEF Solves
<1>7. 0 \in P
  <2>1. h.count + (T + 1 - h.min) + 0 <= m
    BY <1>2, <1>3
  <2>2. h.count <= h.count
    BY <1>2
  <2>3. 0 \in 0 .. m
    BY <1>4
  <2> HIDE DEF m
  <2> QED BY <1>3, <1>6, <2>1, <2>2, <2>3
<1>8. ASSUME NEW i \in 1 .. m, i - 1 \in P PROVE i \in P
  <2> DEFINE a == w[i - 1]
             b == w[i]
  <2>1. b = OneOut(a) /\ i \in 0 .. m /\ i \in Nat
    BY <1>4, <1>6
  <2>2. Ok(a, i - 1)
    BY <1>8
  <2> HIDE DEF a, b, m
  <2>3. CASE Done(a)
    <3>1. b = a
      BY <2>1, <2>3 DEF OneOut, Done
    <3>2. Ok(b, i)
      BY <2>2, <2>3, <3>1
    <3> QED BY <2>1, <3>2 DEF b
  <2>4. CASE ~Done(a)
    <3>1. Outed(a, b, T) /\ a.min <= T /\ a.count > 0
      BY <1>3, <2>1, <2>2, <2>4, OneOutIs
    <3>2. /\ LfuSound(b) /\ b.ahead = a.ahead /\ b.last = a.last /\ Capped(b.levels, T)
          /\ b.count <= a.count /\ DOMAIN b.uses \subseteq DOMAIN a.uses
          /\ b.count + (T + 1 - b.min) < a.count + (T + 1 - a.min)
      BY <3>1 DEF Outed
    <3>3. a.count \in Nat /\ a.min \in Nat
      BY <2>2, CountFacts
    <3>4. b.count \in Nat /\ b.min \in Nat
      BY <3>2, CountFacts
    <3>5. a.count + (T + 1 - a.min) + (i - 1) <= m
      BY <2>2, <2>4
    <3>6. b.count + (T + 1 - b.min) + i <= m
      BY <1>3, <1>4, <2>1, <3>2, <3>3, <3>4, <3>5 DEF m
    <3>7. b.count <= h.count
      BY <1>2, <2>2, <3>2, <3>3, <3>4
    <3>8. Ok(b, i)
      BY <2>2, <3>2, <3>6, <3>7
    <3> QED BY <2>1, <3>8 DEF b
  <2> QED BY <2>3, <2>4
<1>9. m \in P
  <2> HIDE DEF P, m
  <2> QED BY <1>4, <1>7, <1>8, InductionUpTo
<1> DEFINE g == w[m]
<1>10. Ok(g, m)
  BY <1>9
<1> HIDE DEF g, m
<1>11. Done(g)
  <2> SUFFICES ASSUME ~Done(g) PROVE FALSE
    OBVIOUS
  <2>1. Outed(g, OneOut(g), T) /\ g.min <= T /\ g.count > 0
    BY <1>3, <1>10, OneOutIs
  <2>2. g.count \in Nat /\ g.min \in Nat
    BY <1>10, CountFacts
  <2>3. g.count + (T + 1 - g.min) + m <= m
    BY <1>10
  <2> QED BY <1>3, <1>4, <2>1, <2>2, <2>3
<1> QED BY <1>1, <1>10, <1>11 DEF g, Roomed


LEMMA LfuPutNewKeeps ==
    ASSUME LfuKept(handle), NEW k \in NcKeys, NEW v \in NcVals, LfuPutNew(k, v)
    PROVE  LfuKept(handle')
<1> DEFINE h == Evicted(handle)
           ls == h.levels
           K == DOMAIN h.uses
           e == [key |-> k, val |-> v]
           t == Leveled(ls, 1, e)
           w == Noting(h.uses, k, 1)
           m == Noting(h.last, k, v)
           min == IF h.min = 0 THEN 1 ELSE h.min
           g == [h EXCEPT !.levels = t, !.min = min, !.count = @ + 1, !.uses = w,
                         !.used = UsedNow(@, k), !.last = m]
<1>1. LfuSound(handle) /\ (handle.count > NcCap => handle.ahead)
  BY DEF LfuKept
<1>2. Roomed(handle, h)
  BY <1>1, EvictedIs
<1>3. LfuStep(g) /\ ~InLevels(handle.levels, k)
  BY DEF LfuPutNew
<1> HIDE DEF h
<1>4. /\ LfuShape(h) /\ OfUses(h.uses) /\ h.count = Cardinality(K) /\ h.ahead \in BOOLEAN
      /\ Filed(ls, K, h.uses, h.last) /\ LowKnown(ls, h.min, K) /\ h.count \in Nat /\ h.min \in Nat
      /\ Done(h)
  BY <1>2, CountFacts DEF Roomed, LfuSound
<1>5. k \notin K
  <2>1. Filed(handle.levels, DOMAIN handle.uses, handle.uses, handle.last)
    BY <1>1 DEF LfuSound
  <2>2. k \notin DOMAIN handle.uses
    BY <1>3, <2>1, LevelFacts
  <2> QED BY <1>2, <2>2 DEF Roomed
<1>6. e \in LfuEntries /\ e.key = k /\ e.val = v
  BY DEF LfuEntries
<1> HIDE DEF e
<1>7. DOMAIN w = K \cup {k} /\ w[k] = 1 /\ \A x \in K : w[x] = h.uses[x]
  BY <1>5 DEF Noting
<1>8. k \in DOMAIN m /\ m[k] = v /\ \A x \in K : x \in DOMAIN h.last => x \in DOMAIN m /\ m[x] = h.last[x]
  BY <1>5 DEF Noting
<1>9. OfUses(w) /\ Cardinality(K \cup {k}) = h.count + 1
  <2>1. IsFiniteSet(K) /\ h.count = Cardinality(K)
    BY <1>4 DEF OfUses
  <2>2. IsFiniteSet(K \cup {k}) /\ Cardinality(K \cup {k}) = Cardinality(K) + 1
    BY <1>5, <2>1, FS_AddElement
  <2>3. w = [x \in DOMAIN w |-> w[x]]
    BY DEF Noting
  <2> HIDE DEF w
  <2> QED BY <1>7, <2>1, <2>2, <2>3 DEF OfUses
<1> HIDE DEF w, m
<1>10. Comes(K, h.uses, h.last, e, w, m, 1)
  BY <1>5, <1>6, <1>7, <1>8 DEF Comes
<1>11. Filed(t, K \cup {k}, w, m) /\ NowFiled(ls, t, 1)
  <2>1. 1 \in Nat \ {0}
    OBVIOUS
  <2>2. Filed(t, K \cup {e.key}, w, m) /\ NowFiled(ls, t, 1)
    BY <1>4, <1>10, <2>1, FiledMore
  <2> QED BY <1>6, <2>2
<1> HIDE DEF t
<1>12. LowKnown(t, min, K \cup {k})
  <2>1. min \in Nat /\ min # 0
    BY <1>4
  <2> HIDE DEF min
  <2> QED BY <1>11, <2>1 DEF LowKnown, NowFiled
<1>13. h.min # 0 => min = h.min
  OBVIOUS
<1> HIDE DEF min
<1>14. /\ LfuShape(g) /\ g.levels = t /\ g.min = min /\ g.uses = w
       /\ g.count = h.count + 1 /\ g.last = m /\ g.ahead = h.ahead
  BY <1>4 DEF LfuShape, LfuFields
<1> HIDE DEF g
<1>15. LfuSound(g)
  BY <1>4, <1>7, <1>9, <1>11, <1>12, <1>14 DEF LfuSound
<1>16. CASE h.count < NcCap
  <2>1. ~(g.count > NcCap)
    BY <1>4, <1>14, <1>16, SlotsFacts
  <2> QED BY <1>3, <1>15, <2>1, LfuStepKeeps
<1>17. CASE ~(h.count < NcCap)
  <2> DEFINE b == \E i \in DOMAIN g.levels : g.levels[i].freq < g.min /\ g.levels[i].entries # <<>>
  <2>1. NcCap \in Nat \ {0} /\ h.count # 0
    BY <1>4, <1>17, SlotsFacts
  <2>2. LevelAt(ls, h.min) = {}
    BY <1>4, <1>17 DEF Done
  <2>3. h.min # 0
    <3>1. Cardinality({}) = 0
      BY FS_EmptySet
    <3> QED BY <1>4, <2>1, <3>1 DEF LowKnown
  <2>4. h.min # 1
    <3>1. DOMAIN ls = 1 .. Len(ls)
      BY <1>4, LevelFacts
    <3> QED BY <1>4, <2>2, <3>1 DEF LowKnown, LevelAt
  <2>5. 1 < g.min
    BY <1>4, <1>13, <1>14, <2>3, <2>4
  <2>6. PICK j \in 1 .. Len(t) : Has(t[j], k)
    BY <1>11 DEF Filed
  <2>7. LevelOK(t[j], K \cup {k}, w, m) /\ DOMAIN t = 1 .. Len(t)
    BY <1>11, LevelFacts
  <2>8. t[j].freq = 1 /\ t[j].entries # <<>>
    BY <1>7, <2>6, <2>7 DEF LevelOK, Has
  <2>9. b
    BY <1>14, <2>5, <2>7, <2>8
  <2> HIDE DEF b
  <2>10. handle' = [g EXCEPT !.ahead = @ \/ b]
    BY <1>3 DEF LfuStep, b
  <2>11. /\ LfuShape(handle') /\ handle'.levels = g.levels /\ handle'.min = g.min /\ handle'.uses = g.uses
         /\ handle'.count = g.count /\ handle'.last = g.last /\ handle'.ahead = TRUE
    BY <1>14, <2>9, <2>10 DEF LfuShape, LfuFields
  <2>12. LfuSound(handle')
    BY <1>15, <2>11 DEF LfuSound
  <2> QED BY <2>11, <2>12 DEF LfuKept
<1> QED BY <1>16, <1>17

LEMMA LfuNextKeeps ==
    ASSUME LfuKept(handle), LfuNext
    PROVE  LfuKept(handle')
<1>1. ASSUME NEW k \in NcKeys, NEW v \in NcVals, LfuPutThere(k, v) PROVE LfuKept(handle')
  BY <1>1, LfuPutThereKeeps
<1>2. ASSUME NEW k \in NcKeys, NEW v \in NcVals, LfuPutNew(k, v) PROVE LfuKept(handle')
  BY <1>2, LfuPutNewKeeps
<1>3. ASSUME NEW k \in NcKeys, LfuGet(k) PROVE LfuKept(handle')
  BY <1>3, LfuGetKeeps
<1> QED BY <1>1, <1>2, <1>3 DEF LfuNext

LEMMA LfuTells == LfuKept(handle) => LfuCountsUses
<1> SUFFICES ASSUME LfuKept(handle) PROVE LfuCountsUses
  OBVIOUS
<1> DEFINE ls == handle.levels
           K == DOMAIN handle.uses
<1>1. /\ Filed(ls, K, handle.uses, handle.last) /\ handle.count = Cardinality(K)
      /\ (handle.count > NcCap => handle.ahead)
  BY DEF LfuKept, LfuSound
<1>2. /\ DOMAIN ls = 1 .. Len(ls)
      /\ \A i \in 1 .. Len(ls) : ls[i].entries \in Seq(LfuEntries) /\ LevelOK(ls[i], K, handle.uses, handle.last)
      /\ \A k : InLevels(ls, k) <=> k \in K
  BY <1>1, LevelFacts
<1>3. \A i, j \in DOMAIN ls : i < j => ls[i].freq < ls[j].freq
  BY <1>1, <1>2 DEF Filed
<1>4. ASSUME NEW i \in DOMAIN ls
      PROVE  /\ \A j \in DOMAIN ls[i].entries :
                  /\ ls[i].entries[j].key \in K /\ handle.uses[ls[i].entries[j].key] = ls[i].freq
                  /\ ls[i].entries[j].val = handle.last[ls[i].entries[j].key]
             /\ \A j, m \in DOMAIN ls[i].entries : ls[i].entries[j].key = ls[i].entries[m].key => j = m
  <2>1. DOMAIN ls[i].entries = 1 .. Len(ls[i].entries) /\ LevelOK(ls[i], K, handle.uses, handle.last)
    BY <1>2
  <2> QED BY <2>1 DEF LevelOK
<1> QED BY <1>1, <1>2, <1>3, <1>4 DEF LfuCountsUses

-----------------------------------------------------------------------------
(***************************************************************************)
(* The four caches together.                                               *)
(***************************************************************************)
CachesOK == BlockOK(handle) \/ LruKept(handle) \/ LfuKept(handle) \/ ClockOK(handle)

LEMMA KindsOfCaches ==
    /\ BlockOK(handle) => Holding("bcache")
    /\ LruKept(handle) => Holding("lru")
    /\ LfuKept(handle) => Holding("lfu")
    /\ ClockOK(handle) => Holding("clock")
<1>1. BlockOK(handle) => Holding("bcache")
  BY DEF BlockOK, RecentHeld, Holding
<1>2. LruKept(handle) => Holding("lru")
  BY DEF LruKept, LruShape, Holding
<1>3. LfuKept(handle) => Holding("lfu")
  BY DEF LfuKept, LfuSound, LfuShape, Holding
<1>4. ClockOK(handle) => Holding("clock")
  BY DEF ClockOK, ClockShape, Holding
<1> QED BY <1>1, <1>2, <1>3, <1>4

LEMMA CachesOKInit == CachesInit => CachesOK
<1>1. handle = Empty => BlockOK(handle)
  BY EmptyOK
<1>2. handle = NewLru => LruKept(handle)
  BY NewLruKept
<1>3. handle = NewLfu => LfuKept(handle)
  BY NewLfuKept
<1>4. handle = NewClock => ClockOK(handle)
  BY NewClockOK
<1> QED BY <1>1, <1>2, <1>3, <1>4 DEF CachesInit, CachesOK

LEMMA CachesOKNext == CachesOK /\ [CachesNext]_handle => CachesOK'
<1> SUFFICES ASSUME CachesOK, CachesNext \/ UNCHANGED handle PROVE CachesOK'
  OBVIOUS
<1>1. ASSUME UNCHANGED handle PROVE CachesOK'
  <2>1. handle' = handle
    BY <1>1
  <2> QED BY <2>1 DEF CachesOK
<1>2. CASE BlockNext
  <2>1. ~LruKept(handle) /\ ~LfuKept(handle) /\ ~ClockOK(handle)
    BY <1>2, KindsOfCaches DEF BlockNext, Holding
  <2>2. BlockOK(handle')
    BY <1>2, <2>1, BlockNextKeeps DEF CachesOK
  <2> QED BY <2>2 DEF CachesOK
<1>3. CASE LruNext
  <2>1. ~BlockOK(handle) /\ ~LfuKept(handle) /\ ~ClockOK(handle)
    BY <1>3, KindsOfCaches DEF LruNext, Holding
  <2>2. LruKept(handle')
    BY <1>3, <2>1, LruNextKeeps DEF CachesOK
  <2> QED BY <2>2 DEF CachesOK
<1>4. CASE LfuNext
  <2>1. ~BlockOK(handle) /\ ~LruKept(handle) /\ ~ClockOK(handle)
    BY <1>4, KindsOfCaches DEF LfuNext, Holding
  <2>2. LfuKept(handle')
    BY <1>4, <2>1, LfuNextKeeps DEF CachesOK
  <2> QED BY <2>2 DEF CachesOK
<1>5. CASE ClockNext
  <2>1. ~BlockOK(handle) /\ ~LruKept(handle) /\ ~LfuKept(handle)
    BY <1>5, KindsOfCaches DEF ClockNext, Holding
  <2>2. ClockOK(handle')
    BY <1>5, <2>1, ClockNextKeeps DEF CachesOK
  <2> QED BY <2>2 DEF CachesOK
<1> QED BY <1>1, <1>2, <1>3, <1>4, <1>5 DEF CachesNext

(* After any puts, gets, deletions and evictions, the block cache of the    *)
(* file storage holds exactly the keys used last within its capacity, in    *)
(* that order along its list from either end and in the chains of their     *)
(* buckets; the LRU cache of the nosql store has its entries in the order   *)
(* of their last use; the LFU cache files each entry, once, under the       *)
(* number of its uses and outgrows its capacity only after the lowest       *)
(* frequency it knows went past an entry; the second-chance cache counts    *)
(* its slots until the first eviction and one too few ever after; and none  *)
(* of the four returns anything but what was last put (bcache_put,          *)
(* bcache_get, bcache_evict and the operations of nosql_cache.c).           *)
THEOREM CachesKeepHolds == CachesInit /\ [][CachesNext]_handle => []CachesKeep
<1>1. CachesInit => CachesOK
  BY CachesOKInit
<1>2. CachesOK /\ [CachesNext]_handle => CachesOK'
  BY CachesOKNext
<1>3. CachesOK => CachesKeep
  <2>1. BlockOK(handle) => CachesKeep
    BY KindsOfCaches, BlockTells DEF CachesKeep, Holding, CacheKeepsRecent, LruKeepsRecent, LfuCountsUses, ClockCountsSlots
  <2>2. LruKept(handle) => CachesKeep
    BY KindsOfCaches, LruTells DEF CachesKeep, Holding, CacheKeepsRecent, LruKeepsRecent, LfuCountsUses, ClockCountsSlots
  <2>3. LfuKept(handle) => CachesKeep
    BY KindsOfCaches, LfuTells DEF CachesKeep, Holding, CacheKeepsRecent, LruKeepsRecent, LfuCountsUses, ClockCountsSlots
  <2>4. ClockOK(handle) => CachesKeep
    BY KindsOfCaches, ClockTells DEF CachesKeep, Holding, CacheKeepsRecent, LruKeepsRecent, LfuCountsUses, ClockCountsSlots
  <2> QED BY <2>1, <2>2, <2>3, <2>4 DEF CachesOK
<1> QED BY <1>1, <1>2, <1>3, PTL
=============================================================================
