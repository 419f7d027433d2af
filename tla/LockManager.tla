---------------------------- MODULE LockManager ----------------------------
(***************************************************************************)
(* The lock manager of mini-db-kernel (src/lock_manager.c).                *)
(*                                                                         *)
(* Each bucket of the hash table is a list of lock entries, most recent    *)
(* first.  Entries of the list are granted locks; a request that meets a   *)
(* conflict is appended to the queue_next chain of the FIRST entry of its  *)
(* resource.  An entry is therefore a record that carries its own queue.   *)
(* alloc_entry hands out a fixed pool of entries and never takes one back: *)
(* poolIdx counts the entries ever used.                                   *)
(***************************************************************************)
EXTENDS Integers, Sequences, SequencesExt

CONSTANTS Txns,         \* transaction ids, numbers >= 1
          Resources,    \* resource ids
          NumBuckets,   \* LM_NUM_BUCKETS
          PoolSize      \* entries_pool: LM_NUM_BUCKETS * 16 entries

ASSUME LMAssumption ==
    /\ Txns \subseteq Nat \ {0}
    /\ Resources \subseteq Nat
    /\ NumBuckets \in Nat \ {0}
    /\ PoolSize \in Nat

VARIABLES chain,        \* buckets
          poolIdx       \* pool_idx
lmVars == <<chain, poolIdx>>

Buckets == 0 .. NumBuckets - 1

(* hash_resource multiplies by an odd constant before the modulus, so two  *)
(* ids share a bucket exactly when they are equal modulo the bucket count. *)
Bucket(id) == id % NumBuckets

Modes == {"S", "X"}

Requests == [txn : Txns, mode : Modes]

Entries == [txn : Txns, res : Resources, mode : Modes, granted : BOOLEAN,
            queue : Seq(Requests)]

NewEntry(t, r, m, g) ==
    [txn |-> t, res |-> r, mode |-> m, granted |-> g, queue |-> <<>>]

LMInit ==
    /\ chain = [b \in Buckets |-> <<>>]
    /\ poolIdx = 0

(* The positions of a bucket at which has_conflict reaches a verdict on a  *)
(* request: an own lock that already covers it says no, any other lock     *)
(* that is exclusive, or any lock at all for an exclusive request, yes.    *)
Covers(e, t, m) == e.txn = t /\ (e.mode = "X" \/ m = "S")
(* Slip: an exclusive request that passes shared locks.                    *)
DecidesOnlyX(e, t, r, m) == e.res = r /\ e.granted /\ (Covers(e, t, m) \/ e.mode = "X")

Decides(e, t, r, m) ==
    /\ e.res = r
    /\ e.granted
    /\ Covers(e, t, m) \/ e.mode = "X" \/ m = "X"

(* has_conflict: the first entry that decides.  A shared lock of t itself  *)
(* conflicts with an exclusive request of t.                               *)
HasConflict(c, t, r, m) ==
    \E i \in DOMAIN c :
        /\ Decides(c[i], t, r, m)
        /\ ~Covers(c[i], t, m)
        /\ \A j \in 1 .. i - 1 : ~Decides(c[j], t, r, m)

PushFront(e, c) == <<e>> \o c

(* The waiting half of lm_lock_acquire.  The push of an entry that is not  *)
(* granted, for a resource without any entry, is the code's last resort.   *)
Enqueue(c, t, r, m) ==
    LET same == { i \in DOMAIN c : c[i].res = r }
    IN  IF same # {}
        THEN [c EXCEPT ![Min(same)].queue = Append(@, [txn |-> t, mode |-> m])]
        ELSE PushFront(NewEntry(t, r, m, FALSE), c)

PoolFree == poolIdx < PoolSize

(* lm_lock_acquire: what it does to the bucket c of r when the pool has an *)
(* entry left, and whether it answers true.                                *)
AfterAcquire(c, t, r, m) ==
    IF HasConflict(c, t, r, m) THEN Enqueue(c, t, r, m)
                               ELSE PushFront(NewEntry(t, r, m, TRUE), c)
AcquireGrants(c, t, r, m) == PoolFree /\ ~HasConflict(c, t, r, m)

Acquire(t, r, m) ==
    IF PoolFree
    THEN /\ chain' = [chain EXCEPT ![Bucket(r)] = AfterAcquire(@, t, r, m)]
         /\ poolIdx' = poolIdx + 1
    ELSE UNCHANGED lmVars

(* The head of a released entry's queue becomes a granted entry and keeps  *)
(* the rest of the queue.  Other holders of the resource are not looked at.*)
(* Slips: the rest of the queue is lost; the new holder is not marked.     *)
PromoteAlone(e) ==
    IF e.queue = <<>> THEN <<>>
    ELSE << NewEntry(Head(e.queue).txn, e.res, Head(e.queue).mode, TRUE) >>

Promote(e) ==
    IF e.queue = <<>> THEN <<>>
    ELSE << [txn |-> Head(e.queue).txn, res |-> e.res, mode |-> Head(e.queue).mode,
             granted |-> TRUE, queue |-> Tail(e.queue)] >>

(* The positions of the granted entries of t on r; find_granted_entry      *)
(* returns the first.                                                      *)
OwnGranted(c, t, r) ==
    { i \in DOMAIN c : c[i].txn = t /\ c[i].res = r /\ c[i].granted }

(* lm_lock_release: the first granted entry of t on r leaves the bucket    *)
(* and its waiter is pushed in front.                                      *)
AfterRelease(c, t, r) ==
    IF OwnGranted(c, t, r) = {} THEN c
    ELSE LET i == Min(OwnGranted(c, t, r)) IN Promote(c[i]) \o RemoveAt(c, i)

Release(t, r) ==
    /\ chain' = [chain EXCEPT ![Bucket(r)] = AfterRelease(@, t, r)]
    /\ UNCHANGED poolIdx

(* lm_release_all walks a bucket with a pointer prev to the last entry it  *)
(* kept.  While it has kept none, unlinking an own entry overwrites the    *)
(* head of the bucket, and a waiter promoted there just before is dropped. *)
Visit(acc, e, t) ==
    IF e.txn = t /\ e.granted
    THEN [acc EXCEPT !.list = Promote(e) \o (IF acc.kept THEN acc.list ELSE <<>>)]
    ELSE [list |-> Append(acc.list, e), kept |-> TRUE]
AfterReleaseAll(c, t) ==
    FoldLeft(LAMBDA acc, e : Visit(acc, e, t), [list |-> <<>>, kept |-> FALSE], c).list

ReleaseAll(t) ==
    /\ chain' = [b \in Buckets |-> AfterReleaseAll(chain[b], t)]
    /\ UNCHANGED poolIdx

(* lm_lock_upgrade looks at the first granted entry of t on r; it succeeds *)
(* when that is exclusive already or when no other transaction shares r.   *)
OtherSharers(c, t, r) ==
    \E i \in DOMAIN c : c[i].res = r /\ c[i].granted /\ c[i].txn # t /\ c[i].mode = "S"

UpgradeSucceeds(c, t, r) ==
    /\ OwnGranted(c, t, r) # {}
    /\ \/ c[Min(OwnGranted(c, t, r))].mode = "X"
       \/ ~HasConflict(c, t, r, "X")
       \/ ~OtherSharers(c, t, r)

AfterUpgrade(c, t, r) ==
    IF UpgradeSucceeds(c, t, r)
    THEN [c EXCEPT ![Min(OwnGranted(c, t, r))].mode = "X"]
    ELSE c

Upgrade(t, r) ==
    /\ chain' = [chain EXCEPT ![Bucket(r)] = AfterUpgrade(@, t, r)]
    /\ UNCHANGED poolIdx

-----------------------------------------------------------------------------
(* What a lock table says.                                                 *)
InBucket(ch, b) == { ch[b][i] : i \in DOMAIN ch[b] }
Holds(ch, t, r, m) ==
    \E e \in InBucket(ch, Bucket(r)) : e.granted /\ e.txn = t /\ e.res = r /\ e.mode = m
HoldsAny(ch, t, r) == \E m \in Modes : Holds(ch, t, r, m)
Waits(ch, t, r) ==
    \E e \in InBucket(ch, Bucket(r)) :
        /\ e.res = r
        /\ (e.txn = t /\ ~e.granted) \/ \E i \in DOMAIN e.queue : e.queue[i].txn = t

Compatible(ch) ==
    \A t1, t2 \in Txns : \A r \in Resources :
        t1 # t2 /\ Holds(ch, t1, r, "X") => ~HoldsAny(ch, t2, r)

-----------------------------------------------------------------------------
(* Callers may ask for what they hold or wait for: kvs_put and kvs_delete  *)
(* ask for the exclusive lock of a key before each of their writes.        *)
LMNext ==
    \E t \in Txns :
        \/ \E r \in Resources, m \in Modes : Acquire(t, r, m)
        \/ \E r \in Resources : Release(t, r)
        \/ \E r \in Resources : Upgrade(t, r)
        \/ ReleaseAll(t)

(* Every transaction that holds a lock ends, and ending releases it.       *)
LMSpec == LMInit /\ [][LMNext]_lmVars /\ \A t \in Txns : WF_lmVars(ReleaseAll(t))

-----------------------------------------------------------------------------
(* Buckets are lists of entries; the pool counter is a number.             *)
LMTypeOK ==
    /\ chain \in [Buckets -> Seq(Entries)]
    /\ poolIdx \in Nat

(* Taking a lock never creates an incompatible pair: whatever hand-overs   *)
(* have made of the table, an acquisition or an upgrade that finds the     *)
(* compatibility matrix respected leaves it respected.                     *)
GrantStep ==
    \E t \in Txns, r \in Resources : (\E m \in Modes : Acquire(t, r, m)) \/ Upgrade(t, r)
GrantsKeepCompatibility ==
    [][GrantStep /\ Compatible(chain) => Compatible(chain')]_lmVars

(* No two resources share a bucket.                                        *)
Apart == \A r1, r2 \in Resources : Bucket(r1) = Bucket(r2) => r1 = r2

(* lm_release_all of t drops a waiter of this bucket: before it has kept   *)
(* an entry it unlinks one whose waiter it promotes, and then another one. *)
(* The bucket then starts with locks of t, on two resources that share it  *)
(* or on one resource that t has asked for twice.                          *)
DropsWaiter(c, t) ==
    \E i, j \in DOMAIN c :
        /\ i < j /\ c[i].queue # <<>>
        /\ \A k \in 1 .. j : c[k].txn = t /\ c[k].granted

(* A queued request stays queued until it is granted, through releases,    *)
(* hand-overs and the end of transactions, whatever was asked for twice,   *)
(* unless a transaction ends of which lm_release_all drops a waiter.       *)
NoWaiterLost ==
    [][\A t \in Txns, r \in Resources :
          Waits(chain, t, r) =>
              \/ Waits(chain', t, r) \/ HoldsAny(chain', t, r)
              \/ \E u \in Txns : DropsWaiter(chain[Bucket(r)], u) /\ ReleaseAll(u)]_lmVars

=============================================================================
