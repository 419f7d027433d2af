-------------------------------- MODULE KVStore --------------------------------
(***************************************************************************)
(* The transactional key-value store of mini-db-kernel (src/kv_store.c):   *)
(* the lock manager, the write-ahead log and the transaction ids of the    *)
(* multi-version store, around one B+tree index.                           *)
(*                                                                         *)
(* A key stands for the integer hash_key makes of it, which is the id of   *)
(* its lock, of its log records and of its index entry.  The index is a    *)
(* map, which the B+tree is while it is a single leaf (BTREE_ORDER - 1     *)
(* keys).  Every function of the store runs to its end before another one  *)
(* starts: a lock that is not granted makes the call fail, never wait.     *)
(***************************************************************************)
EXTENDS Integers, Sequences, SequencesExt

CONSTANTS Keys, Data, NoData,
          NumBuckets, PoolSize,     \* of the lock manager
          ArrayCap,                 \* MVCC_MAX_TXNS and KVS_MAX_TXNS
          TableCap,                 \* TxnTable of wal_recover
          Cursors,                  \* the cursors callers hold
          MaxTxns, MaxRecords       \* bounds on the ids and on the log

ASSUME KVAssumption ==
    /\ Keys \subseteq Nat /\ Cardinality(Keys) <= 4
    /\ NoData \notin Data
    /\ NumBuckets \in Nat \ {0} /\ PoolSize \in Nat
    /\ ArrayCap \in Nat /\ TableCap \in Nat
    /\ MaxTxns \in Nat /\ MaxRecords \in Nat

VARIABLES chain, poolIdx,                       \* lm_handle
          records, flushLsn, checkpointLsn,     \* wal_handle
          nextTxn, active, committed, aborted,  \* the arrays of mvcc.c
          txns,                                 \* txns, num_txns
          index,                                \* btree
          cursor                                \* a KVCursor per cursor

lmVars   == <<chain, poolIdx>>
walVars  == <<records, flushLsn, checkpointLsn>>
mvccVars == <<nextTxn, active, committed, aborted>>
kvVars   == <<chain, poolIdx, records, flushLsn, checkpointLsn,
              nextTxn, active, committed, aborted, txns, index, cursor>>

Txns == 1 .. MaxTxns

LM == INSTANCE LockManager WITH Resources <- Keys
W  == INSTANCE Wal WITH Pages <- Keys
M  == INSTANCE Mvcc WITH Tuples <- {}, Cap <- ArrayCap, MaxVersions <- 0,
                         versions <- <<>>, written <- <<>>, caller <- <<>>

Stored == Data \cup {NoData}
NoCursor == [txn |-> 0, items |-> <<>>, position |-> 0, exhausted |-> TRUE]

KVInit ==
    /\ LM!LMInit /\ W!WalInit /\ M!MvccInit
    /\ txns = <<>>
    /\ index = [k \in Keys |-> NoData]
    /\ cursor = [c \in Cursors |-> NoCursor]

-----------------------------------------------------------------------------
(* Callers use the ids they were given until they end them.                *)
Ended(t) == W!Ends(records, t) # {}
Open == { t \in 1 .. nextTxn - 1 : ~Ended(t) }
LogHasRoom == Len(records) < MaxRecords

(* kvs_begin_txn: the id counts even when txns has no slot left for it.    *)
BeginTxn ==
    /\ nextTxn <= MaxTxns
    /\ M!MvccBegin
    /\ txns' = IF Len(txns) < ArrayCap
               THEN Append(txns, [id |-> nextTxn, active |-> TRUE]) ELSE txns
    /\ UNCHANGED <<lmVars, walVars, index, cursor>>

(* The slot of an ended transaction is marked, never reused.               *)
Deactivated(t) == [i \in DOMAIN txns |->
    IF txns[i].id = t THEN [txns[i] EXCEPT !.active = FALSE] ELSE txns[i]]

(* kvs_commit_txn: log COMMIT, flush the whole log, release every lock.    *)
CommitTxn(t) ==
    /\ t \in Open /\ LogHasRoom
    /\ records' = Append(records, W!EndRecord("COMMIT", t))
    /\ flushLsn' = W!Flushed(records', Len(records'))
    /\ M!MvccCommit(t)
    /\ LM!ReleaseAll(t)
    /\ txns' = Deactivated(t)
    /\ UNCHANGED <<checkpointLsn, index, cursor>>

(* kvs_rollback_txn: log ABORT, release every lock; the index stays.       *)
RollbackTxn(t) ==
    /\ t \in Open /\ LogHasRoom
    /\ W!WalWrite(W!EndRecord("ABORT", t))
    /\ M!MvccAbort(t)
    /\ LM!ReleaseAll(t)
    /\ txns' = Deactivated(t)
    /\ UNCHANGED <<index, cursor>>

(* The lock of kvs_put and kvs_delete: an exclusive acquire and, when that *)
(* is refused (the request is queued then), an upgrade of a lock held.     *)
Bucket(k) == chain[LM!Bucket(k)]
AfterAcquireX(t, k) ==
    IF LM!PoolFree THEN LM!AfterAcquire(Bucket(k), t, k, "X") ELSE Bucket(k)
AcquiresX(t, k) == LM!AcquireGrants(Bucket(k), t, k, "X")
UpgradesX(t, k) == LM!UpgradeSucceeds(AfterAcquireX(t, k), t, k)
(* Slip: the answers of the lock manager are ignored.                      *)
MayWriteAnyway(t, k) == TRUE

MayWrite(t, k) == AcquiresX(t, k) \/ UpgradesX(t, k)
LockForWrite(t, k) ==
    /\ chain' = [chain EXCEPT ![LM!Bucket(k)] =
                    IF AcquiresX(t, k) THEN AfterAcquireX(t, k)
                    ELSE LM!AfterUpgrade(AfterAcquireX(t, k), t, k)]
    /\ poolIdx' = IF LM!PoolFree THEN poolIdx + 1 ELSE poolIdx

(* kvs_put and kvs_delete log the before and the after image, then change  *)
(* the index.  The delete of an absent key logs nothing.                   *)
WriteType(k, d) ==
    IF d = NoData THEN "DELETE" ELSE IF index[k] = NoData THEN "INSERT" ELSE "UPDATE"

LogAndSet(t, k, d) ==
    /\ W!WalWrite(W!Record(WriteType(k, d), k, t, index[k], d))
    /\ index' = [index EXCEPT ![k] = d]

Put(t, k, d) ==
    /\ t \in Open /\ LogHasRoom
    /\ LockForWrite(t, k)
    /\ IF MayWrite(t, k) THEN LogAndSet(t, k, d) ELSE UNCHANGED <<walVars, index>>
    /\ UNCHANGED <<mvccVars, txns, cursor>>

(* Slip: a delete that is not logged.                                      *)
DeleteUnlogged(t, k) ==
    /\ t \in Open /\ LogHasRoom
    /\ LockForWrite(t, k)
    /\ index' = IF MayWrite(t, k) THEN [index EXCEPT ![k] = NoData] ELSE index
    /\ UNCHANGED <<walVars, mvccVars, txns, cursor>>

Delete(t, k) ==
    /\ t \in Open /\ LogHasRoom
    /\ LockForWrite(t, k)
    /\ IF MayWrite(t, k) /\ index[k] # NoData
       THEN LogAndSet(t, k, NoData) ELSE UNCHANGED <<walVars, index>>
    /\ UNCHANGED <<mvccVars, txns, cursor>>

(* kvs_get answers index[k] when the shared lock is granted.               *)
Get(t, k) ==
    /\ t \in Open
    /\ LM!Acquire(t, k, "S")
    /\ UNCHANGED <<walVars, mvccVars, txns, index, cursor>>

(* kvs_scan_open asks for a shared lock on the start key only, ignores the *)
(* answer, and copies the entries of the range into the cursor.            *)
InRange(lo, hi) == { k \in Keys : lo <= k /\ k <= hi /\ index[k] # NoData }
ScanOpen(t, c, lo, hi) ==
    /\ t \in Open
    /\ LM!Acquire(t, lo, "S")
    /\ LET found == SetToSortSeq(InRange(lo, hi), <) IN
       cursor' = [cursor EXCEPT ![c] =
           [txn |-> t, position |-> 0, exhausted |-> found = <<>>,
            items |-> [i \in DOMAIN found |-> [key |-> found[i], value |-> index[found[i]]]]]]
    /\ UNCHANGED <<walVars, mvccVars, txns, index>>

(* kvs_scan_next hands out the item at position, or marks the end.         *)
ScanNext(c) ==
    /\ ~cursor[c].exhausted
    /\ cursor' = IF cursor[c].position < Len(cursor[c].items)
                 THEN [cursor EXCEPT ![c].position = @ + 1]
                 ELSE [cursor EXCEPT ![c].exhausted = TRUE]
    /\ UNCHANGED <<lmVars, walVars, mvccVars, txns, index>>

(* kvs_scan_close frees the items; position and exhausted stay.            *)
ScanClose(c) ==
    /\ cursor' = [cursor EXCEPT ![c].items = <<>>]
    /\ UNCHANGED <<lmVars, walVars, mvccVars, txns, index>>

(* The owner of the store flushes and checkpoints its log, with any LSN a  *)
(* record has.                                                             *)
FlushLog(lsn) ==
    /\ W!WalFlush(lsn)
    /\ UNCHANGED <<lmVars, mvccVars, txns, index, cursor>>
CheckpointLog ==
    /\ LogHasRoom
    /\ W!WalCheckpoint
    /\ UNCHANGED <<lmVars, mvccVars, txns, index, cursor>>

-----------------------------------------------------------------------------
Write ==
    \E t \in Txns, k \in Keys : Delete(t, k) \/ \E d \in Data : Put(t, k, d)
EndTxn == \E t \in Txns : CommitTxn(t) \/ RollbackTxn(t)
Scan ==
    \E c \in Cursors :
        \/ \E t \in Txns, lo, hi \in Keys : ScanOpen(t, c, lo, hi)
        \/ ScanNext(c)
        \/ ScanClose(c)
KeepLog == CheckpointLog \/ \E lsn \in DOMAIN records : FlushLog(lsn)

(* Callers that only write, and callers that do everything.                *)
WriterNext == BeginTxn \/ EndTxn \/ Write
KVNext == WriterNext \/ (\E t \in Txns, k \in Keys : Get(t, k)) \/ Scan \/ KeepLog

KVSpec == KVInit /\ [][KVNext]_kvVars
WriterSpec == KVInit /\ [][WriterNext]_kvVars

-----------------------------------------------------------------------------
(* The data records of a key, and the last of them.                        *)
RecordsOf(log, k) == { i \in DOMAIN log : log[i].page = k }
IsLastOf(log, k, i) == i \in RecordsOf(log, k) /\ \A j \in RecordsOf(log, k) : j <= i

(* The log describes the index: an entry is the after image of the last    *)
(* record of its key, and absent when there is none, whatever locks were   *)
(* refused, upgraded or handed over.  Replaying the log gives the index.   *)
LogDescribesIndex ==
    \A k \in Keys :
        /\ RecordsOf(records, k) = {} => index[k] = NoData
        /\ \A i \in DOMAIN records : IsLastOf(records, k, i) => index[k] = records[i].after

(* The before image of a record is the after image of the record of that   *)
(* key before it, so undoing from the end walks back through every state.  *)
ImagesChain ==
    \A k \in Keys, j \in DOMAIN records : records[j].page = k =>
        LET earlier == { i \in RecordsOf(records, k) : i < j } IN
        /\ earlier = {} => records[j].before = NoData
        /\ \A i \in earlier : (\A h \in earlier : h <= i) => records[j].before = records[i].after

(* A commit is durable when it returns: every record of a transaction that *)
(* committed, its COMMIT included, has been flushed.                       *)
CommittedIsFlushed ==
    \A i, j \in DOMAIN records :
        records[i].type = "COMMIT" /\ records[j].txn = records[i].txn
        => i <= flushLsn /\ j <= flushLsn

(* Recovery from the log of the store undoes a data record exactly when    *)
(* its transaction has no commit, with checkpoints in between.             *)
RecoveryUndoesOnlyUncommitted == W!RecoveryUndoesOnlyUncommitted

(* The transaction that wrote the last record of a key and has not ended.  *)
Writer(k) ==
    LET live == { i \in RecordsOf(records, k) : IsLastOf(records, k, i) /\ ~Ended(records[i].txn) }
    IN  IF live = {} THEN W!NoTxn ELSE records[Max(live)].txn

(* Callers that only write get strict two-phase locking: a key written by  *)
(* a transaction that has not ended is changed by nobody else.             *)
OW == INSTANCE OneWriter WITH value <- index, writer <- [k \in Keys |-> Writer(k)],
                              NoTxn <- W!NoTxn
OneWriterSpec == OW!Spec

(* The same for every caller, as a statement about the log: between a      *)
(* record of a transaction and its end, nobody else writes that key.       *)
NoDirtyWrite ==
    \A i, j \in DOMAIN records :
        /\ i < j
        /\ records[i].page \in Keys /\ records[i].page = records[j].page
        /\ records[i].txn # records[j].txn
        => \E e \in i + 1 .. j - 1 :
              records[e].type \in W!EndTypes /\ records[e].txn = records[i].txn
=============================================================================
