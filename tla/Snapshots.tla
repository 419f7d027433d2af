----------------------------- MODULE Snapshots ------------------------------
(***************************************************************************)
(* Snapshots and versions of mini-file-storage (snapshot.c).  A writer     *)
(* takes a sequence number and puts a version under it, in two calls.      *)
(***************************************************************************)
EXTENDS Handle, Integers, SequencesExt

CONSTANTS SnapKeys,
          SnapSeq,        \* bound on the sequence numbers
          SnapMax         \* SNAPSHOT_MAX_STACK

ASSUME SnapAssumption == SnapSeq \in Nat

NoSnapshot == SnapSeq + 2       \* UINT64_MAX
Absent     == 0                 \* "not found"; versions count from 1

\* chain[k] is the version chain of k, newest first; pending are the numbers
\* that were handed out and not yet used.
NewStore ==
  [kind |-> "snapshots", seqno |-> 1, active |-> <<>>, oldest |-> NoSnapshot,
   chain |-> [k \in SnapKeys |-> <<>>], pending |-> {}]

Oldest(active) == Min(ToSet(active) \cup {NoSnapshot})

\* The place of the first version that is not newer than the snapshot, or 0.
Seen(chain, snap) == SelectInSeq(chain, LAMBDA v : v.seqno <= snap)

ReadAt(chain, snap) ==
  LET i == Seen(chain, snap)
  IN  IF i = 0 \/ chain[i].deleted THEN Absent ELSE chain[i].seqno

\* Slip: versions as old as the oldest snapshot go too.
CollectedTooMuch(chain, oldest) ==
  FlattenSeq([i \in DOMAIN chain |->
               IF i < Len(chain) /\ chain[i].seqno <= oldest THEN <<>> ELSE <<chain[i]>>])

\* Every version that is older than the oldest snapshot goes, except the last
\* of the chain.
Collected(chain, oldest) ==
  FlattenSeq([i \in DOMAIN chain |->
               IF i < Len(chain) /\ chain[i].seqno < oldest THEN <<>> ELSE <<chain[i]>>])

SnapInit == handle = NewStore

CreateSnapshot ==
  /\ Holding("snapshots") /\ Len(handle.active) < SnapMax
  /\ handle' = [handle EXCEPT
       !.active = Append(@, handle.seqno),
       !.oldest = IF handle.seqno < @ THEN handle.seqno ELSE @]

ReleaseSnapshot(i) ==
  /\ Holding("snapshots")
  /\ handle' = [handle EXCEPT !.active = RemoveAt(@, i),
                              !.oldest = Oldest(RemoveAt(handle.active, i))]

NextSeqno ==
  /\ Holding("snapshots") /\ handle.seqno <= SnapSeq
  /\ handle' = [handle EXCEPT !.seqno = @ + 1, !.pending = @ \cup {handle.seqno}]

PutVersion(k, n, deleted) ==
  /\ Holding("snapshots")
  /\ handle' = [handle EXCEPT
       !.pending = @ \ {n},
       !.chain[k] = <<[seqno |-> n, deleted |-> deleted]>> \o @]

\* The caller passes snap_mgr_get_oldest_active.
CollectVersions ==
  /\ Holding("snapshots")
  /\ handle' = [handle EXCEPT
       !.chain = [k \in SnapKeys |-> Collected(@[k], handle.oldest)]]

SnapNext ==
  \/ CreateSnapshot
  \/ Holding("snapshots") /\ \E i \in DOMAIN handle.active : ReleaseSnapshot(i)
  \/ NextSeqno
  \/ Holding("snapshots") /\ \E k \in SnapKeys, n \in handle.pending, d \in BOOLEAN : PutVersion(k, n, d)
  \/ CollectVersions

\* Numbers up to that of the snapshot are all used: the next one was handed
\* out after the snapshot was taken, and nobody holds an old one.
Settled(snap) == snap < handle.seqno /\ \A n \in handle.pending : n > snap

\* The version that a snapshot reads of k, if any, is not older than every
\* snapshot that is held, or it is the last of its chain.
Spared(k, snap) ==
  LET i == Seen(handle.chain[k], snap)
  IN  i \in {0, Len(handle.chain[k])} \/ handle.chain[k][i].seqno >= Oldest(handle.active)

\* Once a snapshot is settled, what it reads of a key never changes: not by
\* later writes that arrive in any order, not by other snapshots that come and
\* go, and not by a collection that spares it.
SettledReadsStay ==
  [][Holding("snapshots") => \A i \in DOMAIN handle.active, k \in SnapKeys :
       LET snap == handle.active[i]
       IN  Settled(snap) /\ (CollectVersions => Spared(k, snap))
           => ReadAt(handle'.chain[k], snap) = ReadAt(handle.chain[k], snap)]_handle
=============================================================================
