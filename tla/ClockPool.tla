------------------------------- MODULE ClockPool -------------------------------
(***************************************************************************)
(* The buffer pool of mini-relational-db (src/buffer_pool.c): frames over  *)
(* a simulated disk, with CLOCK eviction.                                  *)
(*                                                                         *)
(* A page is the number file_id * 31 + page_number that disk_hash makes of *)
(* its id.  Callers fetch a page, change its data through the pointer they *)
(* got, mark it dirty, and unpin it; latest is what they wrote last, and   *)
(* unmarked the frames they have changed and not marked yet.               *)
(***************************************************************************)
EXTENDS Integers, FiniteSets, FiniteSetsExt

CONSTANTS Pages,
          NumFrames,        \* max_frames of bp_init
          DiskPages,        \* DISK_MAX_PAGES
          Data, Zeros,      \* page contents; what a page is before it is written
          NoPage,           \* in_use = 0
          MaxPins           \* bound on the pins of a frame

(* No two pages share a slot of the disk.                                  *)
ASSUME PoolAssumption ==
    /\ Pages \subseteq Nat /\ NoPage \notin Pages
    /\ NumFrames \in Nat \ {0} /\ DiskPages \in Nat \ {0} /\ MaxPins \in Nat \ {0}
    /\ \A p, q \in Pages : p % DiskPages = q % DiskPages => p = q

VARIABLES frames, hand,         \* frames and clock_hand of the BufferPool
          disk,                 \* disk_pages
          latest, unmarked      \* the callers
vars == <<frames, hand, disk, latest, unmarked>>

Frames == 0 .. NumFrames - 1
Slot(p) == p % DiskPages
Contents == Data \cup {Zeros}

Free == [page |-> NoPage, data |-> Zeros, dirty |-> FALSE, pins |-> 0, bit |-> 0]
InUse == { f \in Frames : frames[f].page # NoPage }
FramesOf(p) == { f \in Frames : frames[f].page = p }

Init ==
    /\ frames = [f \in Frames |-> Free] /\ hand = 0
    /\ disk = [s \in 0 .. DiskPages - 1 |-> Zeros]
    /\ latest = [p \in Pages |-> Zeros] /\ unmarked = {}

-----------------------------------------------------------------------------
(* clock_evict goes twice round from the hand.  It takes the first         *)
(* unpinned frame whose bit is clear and clears the bits on its way; when  *)
(* all are set it clears them all and takes the first in the second round. *)
Steps(f) == (f - hand) % NumFrames
(* Slip: pinned frames are not passed over.                                *)
EvictableAll == InUse

Evictable == { f \in InUse : frames[f].pins = 0 }
FirstFrom(S) == CHOOSE f \in S : \A g \in S : Steps(f) <= Steps(g)
Unreferenced == { f \in Evictable : frames[f].bit = 0 }
Victim == IF Unreferenced # {} THEN FirstFrom(Unreferenced) ELSE FirstFrom(Evictable)
Passed ==
    IF Unreferenced # {} THEN { f \in Evictable : Steps(f) < Steps(Victim) } ELSE Evictable

(* The frame of a page that was not in the pool.                           *)
Loaded(p, d) == [page |-> p, data |-> d, dirty |-> FALSE, pins |-> 1, bit |-> 1]

(* bp_fetch of a page in the pool; in an empty frame; in place of another. *)
FetchHit(p) ==
    \E f \in FramesOf(p) :
        /\ frames[f].pins < MaxPins
        /\ frames' = [frames EXCEPT ![f].bit = 1, ![f].pins = @ + 1]
        /\ UNCHANGED <<hand, disk, latest, unmarked>>

FetchFree(p) ==
    /\ FramesOf(p) = {} /\ InUse # Frames
    /\ frames' = [frames EXCEPT ![Min(Frames \ InUse)] = Loaded(p, disk[Slot(p)])]
    /\ UNCHANGED <<hand, disk, latest, unmarked>>

WrittenBack(f) ==
    IF frames[f].dirty THEN [disk EXCEPT ![Slot(frames[f].page)] = frames[f].data] ELSE disk
FetchEvict(p) ==
    /\ FramesOf(p) = {} /\ InUse = Frames /\ Evictable # {}
    /\ disk' = WrittenBack(Victim)
    /\ frames' = [f \in Frames |->
          IF f = Victim THEN Loaded(p, disk'[Slot(p)])
          ELSE IF f \in Passed THEN [frames[f] EXCEPT !.bit = 0] ELSE frames[f]]
    /\ hand' = (Victim + 1) % NumFrames
    /\ UNCHANGED <<latest, unmarked>>

Pin(f) ==
    /\ f \in InUse /\ frames[f].pins \in 1 .. MaxPins - 1
    /\ frames' = [frames EXCEPT ![f].pins = @ + 1]
    /\ UNCHANGED <<hand, disk, latest, unmarked>>

(* The last pin goes after the change is marked.                           *)
Unpin(f) ==
    /\ f \in InUse /\ frames[f].pins > 0
    /\ frames[f].pins > 1 \/ f \notin unmarked
    /\ frames' = [frames EXCEPT ![f].pins = @ - 1]
    /\ UNCHANGED <<hand, disk, latest, unmarked>>

(* A write through bp_get_page_data, and bp_mark_dirty after it.           *)
WriteData(f, d) ==
    /\ f \in InUse /\ frames[f].pins > 0
    /\ frames' = [frames EXCEPT ![f].data = d]
    /\ latest' = [latest EXCEPT ![frames[f].page] = d]
    /\ unmarked' = unmarked \cup {f}
    /\ UNCHANGED <<hand, disk>>

MarkDirty(f) ==
    /\ f \in unmarked
    /\ frames' = [frames EXCEPT ![f].dirty = TRUE]
    /\ unmarked' = unmarked \ {f}
    /\ UNCHANGED <<hand, disk, latest>>

(* bp_flush_page and bp_flush_all, at any time.                            *)
(* Slip: a page that is in use is marked clean and not written.            *)
FlushedUnpinned(S) ==
    [s \in DOMAIN disk |->
        LET dirty == { f \in S : frames[f].dirty /\ frames[f].pins = 0 /\ Slot(frames[f].page) = s }
        IN  IF dirty = {} THEN disk[s] ELSE frames[Max(dirty)].data]

Flushed(S) ==
    [s \in DOMAIN disk |->
        LET dirty == { f \in S : frames[f].dirty /\ Slot(frames[f].page) = s }
        IN  IF dirty = {} THEN disk[s] ELSE frames[Max(dirty)].data]
Flush(S) ==
    /\ disk' = Flushed(S)
    /\ frames' = [f \in Frames |-> IF f \in S THEN [frames[f] EXCEPT !.dirty = FALSE] ELSE frames[f]]
    /\ UNCHANGED <<hand, latest, unmarked>>

(* bp_destroy flushes, and bp_init starts again over the same disk.        *)
Reopen ==
    /\ unmarked = {}
    /\ disk' = Flushed(InUse)
    /\ frames' = [f \in Frames |-> Free] /\ hand' = 0
    /\ UNCHANGED <<latest, unmarked>>

-----------------------------------------------------------------------------
Fetch(p) == FetchHit(p) \/ FetchFree(p) \/ FetchEvict(p)
Use(f) == Pin(f) \/ Unpin(f) \/ MarkDirty(f) \/ \E d \in Data : WriteData(f, d)
Next ==
    \/ \E p \in Pages : Fetch(p)
    \/ \E f \in Frames : Use(f) \/ Flush({f} \cap InUse)
    \/ Flush(InUse)
    \/ Reopen

Spec == Init /\ [][Next]_vars

-----------------------------------------------------------------------------
PoolTypeOK ==
    /\ frames \in [Frames -> [page : Pages \cup {NoPage}, data : Contents, dirty : BOOLEAN,
                              pins : 0 .. MaxPins, bit : {0, 1}]]
    /\ hand \in Frames
    /\ disk \in [0 .. DiskPages - 1 -> Contents]
    /\ latest \in [Pages -> Contents]
    /\ unmarked \subseteq InUse

(* Nothing written is lost: a page in the pool has one frame, with what    *)
(* was last written to the page, and a page that is not in the pool has it *)
(* on disk, through evictions, flushes between a write and its mark, and   *)
(* new starts.                                                             *)
NothingWrittenIsLost ==
    \A p \in Pages :
        /\ Cardinality(FramesOf(p)) <= 1
        /\ \A f \in FramesOf(p) : frames[f].data = latest[p]
        /\ FramesOf(p) = {} => disk[Slot(p)] = latest[p]

(* A pinned frame keeps its page, whatever others fetch, as long as the    *)
(* pool is open.                                                           *)
PinnedStays ==
    [][\A f \in Frames : frames[f].pins > 0 /\ ~Reopen => frames'[f].page = frames[f].page]_vars
=============================================================================
