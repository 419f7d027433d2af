---------------------------- MODULE KVStoreProofs ----------------------------
(***************************************************************************)
(* Proofs about the two stores that write a log, and about the tree of     *)
(* tables of the kernel.                                                   *)
(*                                                                         *)
(* The key-value store of the kernel: its log describes its index, the     *)
(* before images chain, a commit is durable when it returns, and recovery  *)
(* undoes what was not committed.  These hold whatever the lock manager    *)
(* answers, so nothing is assumed of it.  Callers that only write          *)
(* implement OneWriter, for which the locks do matter.                     *)
(*                                                                         *)
(* The nosql store: its log rebuilds what was made durable, and its engine *)
(* reads the latest value of each key.                                     *)
(*                                                                         *)
(* Last part, the LSM tree of the kernel: a key reads as it was last       *)
(* written.                                                                *)
(***************************************************************************)
EXTENDS KVStore, NosqlLog, KernelLsm, LeastNumber, SequenceTheorems, TLAPS

StateOK ==
    /\ records \in Seq(W!Records)
    /\ index \in [Keys -> Stored]
    /\ nextTxn \in 1 .. MaxTxns + 1
    /\ flushLsn \in Nat /\ flushLsn <= Len(records)

(* A commit record names the transaction it ends.                          *)
CommitsNamed ==
    \A i \in DOMAIN records : records[i].type = "COMMIT" => records[i].txn # W!NoTxn

IInv == StateOK /\ LogDescribesIndex /\ ImagesChain /\ CommittedIsFlushed /\ CommitsNamed

-----------------------------------------------------------------------------
(* A step either leaves log and index alone or is one of five kinds.       *)
Logs(rec) == records' = Append(records, rec) /\ UNCHANGED nextTxn
Sets(t, k, d) ==
    /\ Logs(W!Record(WriteType(k, d), k, t, index[k], d))
    /\ index' = [index EXCEPT ![k] = d]
    /\ UNCHANGED flushLsn
Commits(t) ==
    /\ Logs(W!EndRecord("COMMIT", t))
    /\ flushLsn' = W!Flushed(records', Len(records'))
    /\ UNCHANGED index
Aborts(t) == Logs(W!EndRecord("ABORT", t)) /\ UNCHANGED <<flushLsn, index>>
Checkpoints == Logs(W!EndRecord("CHECKPOINT", W!NoTxn)) /\ UNCHANGED <<flushLsn, index>>
Flushes(lsn) ==
    /\ flushLsn' = W!Flushed(records, lsn)
    /\ UNCHANGED <<records, index, nextTxn>>

LEMMA StepKinds ==
    ASSUME [KVNext]_kvVars, StateOK
    PROVE  \/ UNCHANGED <<records, flushLsn, index>> /\ nextTxn' \in 1 .. MaxTxns + 1
           \/ \E t \in Open, k \in Keys, d \in Stored : Sets(t, k, d)
           \/ \E t \in Open : Commits(t) \/ Aborts(t)
           \/ Checkpoints
           \/ \E lsn \in DOMAIN records : Flushes(lsn)
<1>1. CASE BeginTxn
  BY <1>1, KVAssumption DEF BeginTxn, M!MvccBegin, walVars, StateOK
<1>2. ASSUME NEW t \in Txns, NEW k \in Keys, NEW d \in Data, Put(t, k, d)
      PROVE  \/ UNCHANGED <<records, flushLsn, index, nextTxn>>
             \/ \E u \in Open, j \in Keys, e \in Stored : Sets(u, j, e)
  BY <1>2 DEF Put, LogAndSet, W!WalWrite, walVars, mvccVars, Sets, Logs, Stored
<1>3. ASSUME NEW t \in Txns, NEW k \in Keys, Delete(t, k)
      PROVE  \/ UNCHANGED <<records, flushLsn, index, nextTxn>>
             \/ \E u \in Open, j \in Keys, e \in Stored : Sets(u, j, e)
  BY <1>3 DEF Delete, LogAndSet, W!WalWrite, walVars, mvccVars, Sets, Logs, Stored
<1>4. ASSUME NEW t \in Txns, CommitTxn(t) \/ RollbackTxn(t)
      PROVE  \E u \in Open : Commits(u) \/ Aborts(u)
  BY <1>4 DEF CommitTxn, RollbackTxn, W!WalWrite, M!MvccCommit, M!MvccAbort,
              Commits, Aborts, Logs
<1>5. CASE (\E t \in Txns, k \in Keys : Get(t, k)) \/ Scan \/ UNCHANGED kvVars
  BY <1>5 DEF Get, Scan, ScanOpen, ScanNext, ScanClose, walVars, mvccVars, kvVars, StateOK
<1>6. CASE CheckpointLog
  BY <1>6 DEF CheckpointLog, W!WalCheckpoint, mvccVars, Checkpoints, Logs
<1>7. ASSUME NEW lsn \in DOMAIN records, FlushLog(lsn)
      PROVE  Flushes(lsn)
  BY <1>7 DEF FlushLog, W!WalFlush, mvccVars, Flushes
<1> QED BY <1>1, <1>2, <1>3, <1>4, <1>5, <1>6, <1>7
        DEF KVNext, WriterNext, EndTxn, Write, KeepLog, StateOK

-----------------------------------------------------------------------------
(* What appending one record does to the log and to the records of a key.  *)
LEMMA AppendOne ==
    ASSUME NEW R, NEW log \in Seq(R), NEW rec \in R, NEW log2, log2 = Append(log, rec)
    PROVE  /\ log2 \in Seq(R)
           /\ Len(log) \in Nat /\ Len(log2) = Len(log) + 1
           /\ DOMAIN log = 1 .. Len(log) /\ DOMAIN log2 = 1 .. Len(log) + 1
           /\ \A i \in 1 .. Len(log) : log2[i] = log[i]
           /\ log2[Len(log) + 1] = rec
OBVIOUS

(* ImagesChain for one record: what its before image is.                   *)
Earlier(log, k, i) == { h \in RecordsOf(log, k) : h < i }
BeforeIs(log, E, i) ==
    /\ E = {} => log[i].before = NoData
    /\ \A h \in E : (\A g \in E : g <= h) => log[i].before = log[h].after

LEMMA RecordTypes ==
    ASSUME StateOK
    PROVE  /\ \A t \in Open, k \in Keys, d \in Stored :
                 /\ W!Record(WriteType(k, d), k, t, index[k], d) \in W!Records
                 /\ WriteType(k, d) # "COMMIT"
           /\ \A t \in Open, type \in {"COMMIT", "ABORT"} :
                 W!EndRecord(type, t) \in W!Records /\ W!EndRecord(type, t).page \notin Keys
           /\ W!EndRecord("CHECKPOINT", W!NoTxn) \in W!Records
           /\ W!EndRecord("CHECKPOINT", W!NoTxn).page \notin Keys
BY KVAssumption DEF StateOK, Open, Txns, Stored, WriteType, W!Record, W!EndRecord, W!Records,
   W!DataTypes, W!EndTypes, W!NoPage, W!NoTxn

(* Flushing up to the end of the log flushes all of it.                    *)
LEMMA FlushAll ==
    ASSUME NEW R, NEW log \in Seq(R), flushLsn \in Nat, flushLsn <= Len(log)
    PROVE  W!Flushed(log, Len(log)) = Len(log)
<1> DEFINE S == {flushLsn} \cup { i \in DOMAIN log : i <= Len(log) }
<1>1. Len(log) \in S /\ \A i \in S : Len(log) >= i
  OBVIOUS
<1>2. \A x \in S : (\A y \in S : x >= y) => x = Len(log)
  BY <1>1
<1> QED BY <1>1, <1>2 DEF W!Flushed, W!Max

(* A flush moves flush_lsn forwards and not past the end of the log.       *)
LEMMA FlushSome ==
    ASSUME NEW R, NEW log \in Seq(R), flushLsn \in Nat, flushLsn <= Len(log),
           NEW lsn \in DOMAIN log
    PROVE  /\ W!Flushed(log, lsn) \in Nat
           /\ flushLsn <= W!Flushed(log, lsn) /\ W!Flushed(log, lsn) <= Len(log)
<1> DEFINE S == {flushLsn} \cup { i \in DOMAIN log : i <= lsn }
           m == IF flushLsn <= lsn THEN lsn ELSE flushLsn
<1>1. m \in S /\ \A i \in S : m >= i
  OBVIOUS
<1>2. \A x \in S : (\A y \in S : x >= y) => x = m
  BY <1>1
<1>3. W!Flushed(log, lsn) = m
  BY <1>1, <1>2 DEF W!Flushed, W!Max
<1> QED BY <1>3

-----------------------------------------------------------------------------
LEMMA InitIInv == KVInit => IInv
BY KVAssumption DEF KVInit, W!WalInit, M!MvccInit, IInv, StateOK, Stored, LogDescribesIndex, ImagesChain,
   CommittedIsFlushed, CommitsNamed, RecordsOf, IsLastOf

(* A put or a delete: the new record describes the new entry, and its      *)
(* before image is the old entry, which the last record described.         *)
LEMMA SetsIInv ==
    ASSUME IInv, NEW t \in Open, NEW k \in Keys, NEW d \in Stored, Sets(t, k, d)
    PROVE  IInv'
<1> DEFINE rec == W!Record(WriteType(k, d), k, t, index[k], d)
           n == Len(records) + 1
<1> USE DEF IInv
<1>1. rec \in W!Records /\ rec.type # "COMMIT" /\ rec.page = k /\ rec.txn = t
      /\ rec.before = index[k] /\ rec.after = d
  BY RecordTypes DEF W!Record
<1>2. records \in Seq(W!Records) /\ records' = Append(records, rec)
  BY DEF StateOK, Sets, Logs
<1> HIDE DEF rec
<1>3. /\ records' \in Seq(W!Records)
      /\ Len(records) \in Nat /\ Len(records') = n
      /\ DOMAIN records = 1 .. Len(records) /\ DOMAIN records' = 1 .. n
      /\ \A i \in 1 .. Len(records) : records'[i] = records[i]
      /\ records'[n] = rec
  BY <1>1, <1>2, AppendOne
<1>4. \A j \in Keys : RecordsOf(records', j) =
          IF j = k THEN RecordsOf(records, k) \cup {n} ELSE RecordsOf(records, j)
  BY <1>1, <1>3 DEF RecordsOf
<1>5. \A j \in Keys : RecordsOf(records, j) \subseteq 1 .. Len(records)
  BY <1>3 DEF RecordsOf
<1>6. index' = [index EXCEPT ![k] = d] /\ index \in [Keys -> Stored]
  BY DEF Sets, StateOK
<1>7. StateOK'
  BY <1>3, <1>6 DEF StateOK, Sets, Logs
<1>8. LogDescribesIndex'
  <2> SUFFICES ASSUME NEW j \in Keys
               PROVE  /\ RecordsOf(records', j) = {} => index'[j] = NoData
                      /\ \A i \in DOMAIN records' :
                            IsLastOf(records', j, i) => index'[j] = records'[i].after
    BY DEF LogDescribesIndex
  <2>1. CASE j = k
    <3>1. \A i \in DOMAIN records' : IsLastOf(records', j, i) => i = n
      BY <1>3, <1>4, <1>5, <2>1 DEF IsLastOf
    <3> QED BY <1>1, <1>3, <1>4, <1>6, <2>1, <3>1
  <2>2. CASE j # k
    <3>1. index'[j] = index[j] /\ RecordsOf(records', j) = RecordsOf(records, j)
      BY <1>4, <1>6, <2>2
    <3>2. \A i \in DOMAIN records' : IsLastOf(records', j, i) =>
              i \in DOMAIN records /\ IsLastOf(records, j, i) /\ records'[i] = records[i]
      BY <1>3, <1>5, <3>1 DEF IsLastOf
    <3> QED BY <3>1, <3>2 DEF LogDescribesIndex
  <2> QED BY <2>1, <2>2
<1>9. ImagesChain'
  <2> SUFFICES ASSUME NEW j \in Keys, NEW i \in 1 .. n, records'[i].page = j
               PROVE  BeforeIs(records', Earlier(records', j, i), i)
    BY <1>3 DEF ImagesChain, BeforeIs, Earlier
  <2> DEFINE E == Earlier(records', j, i)
  <2>1. E = Earlier(records, j, i) /\ E \subseteq 1 .. Len(records)
    BY <1>4, <1>5, <1>3 DEF Earlier
  <2>4. i # n => BeforeIs(records, Earlier(records, j, i), i)
    BY <1>3 DEF ImagesChain, BeforeIs, Earlier
  <2>2. CASE i = n
    <3>1. j = k
      BY <1>1, <1>3, <2>2
    <3>2. E = RecordsOf(records, k)
      BY <1>5, <1>3, <2>1, <2>2, <3>1 DEF Earlier
    <3>3. records'[i].before = index[k]
      BY <1>1, <1>3, <2>2
    <3>4. ASSUME NEW h \in E, \A g \in E : g <= h
          PROVE  index[k] = records[h].after /\ records'[h] = records[h]
      <4>1. h \in 1 .. Len(records) /\ IsLastOf(records, k, h)
        BY <1>5, <3>2, <3>4 DEF IsLastOf
      <4> QED BY <1>3, <4>1 DEF LogDescribesIndex
    <3> QED BY <3>2, <3>3, <3>4 DEF LogDescribesIndex, BeforeIs
  <2>3. CASE i # n
    <3>1. i \in DOMAIN records /\ records'[i] = records[i]
      BY <1>3, <2>3
    <3>2. \A h \in E : records'[h] = records[h]
      BY <1>3, <2>1
    <3> HIDE DEF E
    <3> QED BY <2>1, <2>3, <2>4, <3>1, <3>2 DEF BeforeIs, E
  <2> QED BY <2>2, <2>3
<1>10. CommittedIsFlushed'
  <2>1. \A i \in DOMAIN records : ~(records[i].type = "COMMIT" /\ records[i].txn = t)
    BY DEF Open, Ended, W!Ends, W!EndTypes
  <2>2. \A i \in DOMAIN records : i <= flushLsn => i <= flushLsn'
    BY DEF Sets
  <2> QED BY <1>1, <1>3, <2>1, <2>2 DEF CommittedIsFlushed
<1>11. CommitsNamed'
  BY <1>1, <1>3 DEF CommitsNamed
<1> QED BY <1>7, <1>8, <1>9, <1>10, <1>11

(* A record that ends a transaction names no key.                          *)
LEMMA EndKeepsImages ==
    ASSUME IInv, NEW rec \in W!Records, rec.page \notin Keys, records' = Append(records, rec),
           UNCHANGED index
    PROVE  LogDescribesIndex' /\ ImagesChain'
<1> USE DEF IInv
<1>1. records \in Seq(W!Records)
  BY DEF StateOK
<1>2. /\ Len(records) \in Nat
      /\ DOMAIN records = 1 .. Len(records) /\ DOMAIN records' = 1 .. Len(records) + 1
      /\ \A i \in 1 .. Len(records) : records'[i] = records[i]
      /\ records'[Len(records) + 1] = rec
  BY <1>1, AppendOne
<1>3. \A k \in Keys : RecordsOf(records', k) = RecordsOf(records, k)
  BY <1>2 DEF RecordsOf
<1>4. \A k \in Keys : RecordsOf(records, k) \subseteq 1 .. Len(records)
  BY <1>2 DEF RecordsOf
<1>5. LogDescribesIndex'
  BY <1>2, <1>3, <1>4 DEF LogDescribesIndex, IsLastOf
<1>6. ImagesChain'
  <2> SUFFICES ASSUME NEW j \in Keys, NEW i \in 1 .. Len(records) + 1, records'[i].page = j
               PROVE  BeforeIs(records', Earlier(records', j, i), i)
    BY <1>2 DEF ImagesChain, BeforeIs, Earlier
  <2> DEFINE E == Earlier(records', j, i)
  <2>1. i \in DOMAIN records /\ records'[i] = records[i]
    BY <1>2
  <2>2. E = Earlier(records, j, i) /\ E \subseteq 1 .. Len(records)
    BY <1>3, <1>4 DEF Earlier
  <2>3. \A h \in E : records'[h] = records[h]
    BY <1>2, <2>2
  <2>4. BeforeIs(records, Earlier(records, j, i), i)
    BY <2>1 DEF ImagesChain, BeforeIs, Earlier
  <2> QED BY <2>1, <2>2, <2>3, <2>4 DEF BeforeIs
<1> QED BY <1>5, <1>6

LEMMA CommitsIInv ==
    ASSUME IInv, NEW t \in Open, Commits(t)
    PROVE  IInv'
<1> DEFINE rec == W!EndRecord("COMMIT", t)
<1>1. rec \in W!Records /\ rec.page \notin Keys /\ rec.txn # W!NoTxn
  <2>1. rec \in W!Records /\ rec.page \notin Keys
    BY RecordTypes DEF IInv
  <2>2. rec.txn = t
    BY DEF W!EndRecord, W!Record
  <2>3. t # W!NoTxn
    BY DEF IInv, StateOK, Open, W!NoTxn
  <2> QED BY <2>1, <2>2, <2>3
<1>2. records \in Seq(W!Records) /\ records' = Append(records, rec)
  BY DEF IInv, StateOK, Commits, Logs
<1> HIDE DEF rec
<1>3. /\ records' \in Seq(W!Records) /\ Len(records') = Len(records) + 1 /\ Len(records) \in Nat
      /\ DOMAIN records = 1 .. Len(records) /\ DOMAIN records' = 1 .. Len(records')
      /\ \A i \in 1 .. Len(records) : records'[i] = records[i]
      /\ records'[Len(records) + 1] = rec
  BY <1>1, <1>2, AppendOne
<1>4. flushLsn' = Len(records')
  BY <1>3, FlushAll DEF IInv, StateOK, Commits
<1>5. StateOK'
  BY <1>3, <1>4 DEF IInv, StateOK, Commits, Logs
<1>6. LogDescribesIndex' /\ ImagesChain'
  BY <1>1, <1>2, EndKeepsImages DEF Commits
<1>7. CommittedIsFlushed'
  BY <1>3, <1>4 DEF CommittedIsFlushed
<1>8. CommitsNamed'
  BY <1>1, <1>3 DEF IInv, CommitsNamed
<1> QED BY <1>5, <1>6, <1>7, <1>8 DEF IInv

LEMMA AbortsIInv ==
    ASSUME IInv, NEW t \in Open, Aborts(t)
    PROVE  IInv'
<1> DEFINE rec == W!EndRecord("ABORT", t)
<1>1. rec \in W!Records /\ rec.page \notin Keys /\ rec.type # "COMMIT" /\ rec.txn = t
  BY RecordTypes DEF IInv, W!EndRecord, W!Record
<1>2. records \in Seq(W!Records) /\ records' = Append(records, rec)
  BY DEF IInv, StateOK, Aborts, Logs
<1> HIDE DEF rec
<1>3. /\ records' \in Seq(W!Records) /\ Len(records') = Len(records) + 1 /\ Len(records) \in Nat
      /\ DOMAIN records = 1 .. Len(records) /\ DOMAIN records' = 1 .. Len(records) + 1
      /\ \A i \in 1 .. Len(records) : records'[i] = records[i]
      /\ records'[Len(records) + 1] = rec
  BY <1>1, <1>2, AppendOne
<1>4. StateOK'
  BY <1>3 DEF IInv, StateOK, Aborts, Logs
<1>5. LogDescribesIndex' /\ ImagesChain'
  BY <1>1, <1>2, EndKeepsImages DEF Aborts
<1>6. \A i \in DOMAIN records : ~(records[i].type = "COMMIT" /\ records[i].txn = t)
  BY DEF Open, Ended, W!Ends, W!EndTypes
<1>7. CommittedIsFlushed' /\ CommitsNamed'
  BY <1>1, <1>3, <1>6 DEF IInv, CommittedIsFlushed, CommitsNamed, Aborts
<1> QED BY <1>4, <1>5, <1>7 DEF IInv

(* A checkpoint record ends nothing and names no key.                      *)
LEMMA CheckpointsIInv ==
    ASSUME IInv, Checkpoints
    PROVE  IInv'
<1> DEFINE rec == W!EndRecord("CHECKPOINT", W!NoTxn)
<1>1. rec \in W!Records /\ rec.page \notin Keys /\ rec.type # "COMMIT" /\ rec.txn = W!NoTxn
  BY RecordTypes DEF IInv, W!EndRecord, W!Record
<1>2. records \in Seq(W!Records) /\ records' = Append(records, rec)
  BY DEF IInv, StateOK, Checkpoints, Logs
<1> HIDE DEF rec
<1>3. /\ records' \in Seq(W!Records) /\ Len(records') = Len(records) + 1 /\ Len(records) \in Nat
      /\ DOMAIN records = 1 .. Len(records) /\ DOMAIN records' = 1 .. Len(records) + 1
      /\ \A i \in 1 .. Len(records) : records'[i] = records[i]
      /\ records'[Len(records) + 1] = rec
  BY <1>1, <1>2, AppendOne
<1>4. StateOK'
  BY <1>3 DEF IInv, StateOK, Checkpoints, Logs
<1>5. LogDescribesIndex' /\ ImagesChain'
  BY <1>1, <1>2, EndKeepsImages DEF Checkpoints
<1>6. \A i \in DOMAIN records : records[i].type = "COMMIT" => records[i].txn # W!NoTxn
  BY DEF IInv, CommitsNamed
<1>7. CommittedIsFlushed' /\ CommitsNamed'
  BY <1>1, <1>3, <1>6 DEF IInv, CommittedIsFlushed, CommitsNamed, Checkpoints
<1> QED BY <1>4, <1>5, <1>7 DEF IInv

LEMMA FlushesIInv ==
    ASSUME IInv, NEW lsn \in DOMAIN records, Flushes(lsn)
    PROVE  IInv'
<1>1. records \in Seq(W!Records) /\ flushLsn \in Nat /\ flushLsn <= Len(records)
  BY DEF IInv, StateOK
<1>2. flushLsn' \in Nat /\ flushLsn <= flushLsn' /\ flushLsn' <= Len(records)
  BY <1>1, FlushSome DEF Flushes
<1>3. StateOK'
  BY <1>2 DEF IInv, StateOK, Flushes
<1>4. LogDescribesIndex' /\ ImagesChain' /\ CommitsNamed'
  BY DEF IInv, LogDescribesIndex, ImagesChain, CommitsNamed, RecordsOf, IsLastOf, Flushes
<1>5. DOMAIN records = 1 .. Len(records) /\ Len(records) \in Nat
  BY <1>1
<1>6. CommittedIsFlushed'
  BY <1>1, <1>2, <1>5 DEF IInv, CommittedIsFlushed, Flushes
<1> QED BY <1>3, <1>4, <1>6 DEF IInv

LEMMA NextIInv == IInv /\ [KVNext]_kvVars => IInv'
<1> SUFFICES ASSUME IInv, [KVNext]_kvVars PROVE IInv'
  OBVIOUS
<1>1. CASE UNCHANGED <<records, flushLsn, index>> /\ nextTxn' \in 1 .. MaxTxns + 1
  BY <1>1 DEF IInv, StateOK, LogDescribesIndex, ImagesChain, CommittedIsFlushed, CommitsNamed
<1> QED BY <1>1, StepKinds, SetsIInv, CommitsIInv, AbortsIInv, CheckpointsIInv, FlushesIInv DEF IInv

LEMMA Invariant == KVSpec => []IInv
BY InitIInv, NextIInv, PTL DEF KVSpec

(* Replaying the log gives the index.                                      *)
THEOREM LogDescribesIndexHolds == KVSpec => []LogDescribesIndex
BY Invariant, PTL DEF IInv

(* Before images chain back through every state of a key.                  *)
THEOREM ImagesChainHolds == KVSpec => []ImagesChain
BY Invariant, PTL DEF IInv

(* Everything a committed transaction wrote has been flushed.              *)
THEOREM CommittedIsFlushedHolds == KVSpec => []CommittedIsFlushed
BY Invariant, PTL DEF IInv

-----------------------------------------------------------------------------
(* Recovery: a transaction ends at most once, so the table of wal_recover  *)
(* needs a place for each transaction that ended and for nothing else.     *)
EndsOnce ==
    \A i, j \in DOMAIN records :
        /\ records[i].type \in W!EndTypes /\ records[j].type \in W!EndTypes
        /\ records[i].txn = records[j].txn
        => i = j

LEMMA EndsOnceStep ==
    ASSUME NEW t \in Open, NEW rec \in W!Records, rec.txn = t \/ rec.type \notin W!EndTypes,
           records \in Seq(W!Records), records' = Append(records, rec), EndsOnce
    PROVE  EndsOnce'
<1>1. /\ Len(records) \in Nat
      /\ DOMAIN records = 1 .. Len(records) /\ DOMAIN records' = 1 .. Len(records) + 1
      /\ \A i \in 1 .. Len(records) : records'[i] = records[i]
      /\ records'[Len(records) + 1] = rec
  BY AppendOne
<1>2. \A i \in DOMAIN records : ~(records[i].type \in W!EndTypes /\ records[i].txn = t)
  BY DEF Open, Ended, W!Ends
<1> QED BY <1>1, <1>2 DEF EndsOnce

LEMMA NextEndsOnce == IInv /\ EndsOnce /\ [KVNext]_kvVars => EndsOnce'
<1> SUFFICES ASSUME IInv, EndsOnce, [KVNext]_kvVars PROVE EndsOnce'
  OBVIOUS
<1>1. records \in Seq(W!Records) /\ StateOK
  BY DEF IInv, StateOK
<1>2. CASE UNCHANGED records
  BY <1>2 DEF EndsOnce
<1>3. ASSUME NEW t \in Open, NEW k \in Keys, NEW d \in Stored, Sets(t, k, d) PROVE EndsOnce'
  <2> DEFINE rec == W!Record(WriteType(k, d), k, t, index[k], d)
  <2>1. rec \in W!Records /\ rec.txn = t /\ records' = Append(records, rec)
    BY <1>1, <1>3, RecordTypes DEF Sets, Logs, W!Record
  <2> HIDE DEF rec
  <2> QED BY <1>1, <2>1, EndsOnceStep
<1>4. ASSUME NEW t \in Open, NEW type \in {"COMMIT", "ABORT"}, Logs(W!EndRecord(type, t))
      PROVE  EndsOnce'
  <2> DEFINE rec == W!EndRecord(type, t)
  <2>1. rec \in W!Records /\ rec.txn = t /\ records' = Append(records, rec)
    BY <1>1, <1>4, RecordTypes DEF Logs, W!EndRecord, W!Record
  <2> HIDE DEF rec
  <2> QED BY <1>1, <2>1, EndsOnceStep
<1>5. CASE Checkpoints
  <2> DEFINE rec == W!EndRecord("CHECKPOINT", W!NoTxn)
  <2>1. rec \in W!Records /\ rec.type \notin W!EndTypes /\ records' = Append(records, rec)
    BY <1>1, <1>5, RecordTypes DEF Checkpoints, Logs, W!EndRecord, W!Record, W!EndTypes
  <2> HIDE DEF rec
  <2>2. /\ DOMAIN records = 1 .. Len(records) /\ DOMAIN records' = 1 .. Len(records) + 1
        /\ \A i \in 1 .. Len(records) : records'[i] = records[i]
        /\ records'[Len(records) + 1] = rec /\ Len(records) \in Nat
    BY <1>1, <2>1, AppendOne
  <2> QED BY <2>1, <2>2 DEF EndsOnce
<1>6. CASE \E t \in Open : Commits(t) \/ Aborts(t)
  BY <1>4, <1>6 DEF Commits, Aborts
<1>7. CASE \E lsn \in DOMAIN records : Flushes(lsn)
  BY <1>2, <1>7 DEF Flushes
<1> QED BY <1>1, <1>2, <1>3, <1>5, <1>6, <1>7, StepKinds

(* The transactions with an end in the log.                                *)
EndedTxns == { records[i].txn : i \in { j \in DOMAIN records : records[j].type \in W!EndTypes } }

LEMMA EndedFinite ==
    ASSUME StateOK
    PROVE  IsFiniteSet(EndedTxns)
<1>1. EndedTxns \subseteq Txns \cup {W!NoTxn}
  <2>1. \A i \in DOMAIN records : records[i] \in W!Records
    BY DEF StateOK
  <2>2. \A i \in DOMAIN records : records[i].txn \in Txns \cup {W!NoTxn}
    BY <2>1 DEF W!Records
  <2> QED BY <2>2 DEF EndedTxns
<1>2. IsFiniteSet(Txns)
  BY KVAssumption, FS_Interval DEF Txns
<1>3. IsFiniteSet(Txns \cup {W!NoTxn})
  BY <1>2, FS_AddElement
<1> QED BY <1>1, <1>3, FS_Subset

(* A transaction that ended finds its place: the others that ended before  *)
(* it leave it one.                                                        *)
LEMMA EndedInTable ==
    ASSUME StateOK, EndsOnce, Cardinality(EndedTxns) <= TableCap,
           NEW e \in DOMAIN records, records[e].type \in W!EndTypes
    PROVE  W!InTable(records, records[e].txn) /\ W!Ends(records, records[e].txn) = {e}
<1> DEFINE t == records[e].txn
           before == W!EndedBefore(records, e)
<1>1. W!Ends(records, t) = {e}
  BY DEF EndsOnce, W!Ends
<1>2. e \in Nat /\ DOMAIN records = 1 .. Len(records) /\ Len(records) \in Nat
  BY DEF StateOK
<1>3. W!Min({e}) = e
  BY <1>2 DEF W!Min
<1>4. before \subseteq EndedTxns \ {t}
  BY <1>2 DEF EndsOnce, EndedTxns, W!EndedBefore
<1>5. t \in EndedTxns
  BY DEF EndedTxns
<1>6. IsFiniteSet(EndedTxns) /\ Cardinality(EndedTxns) \in Nat
  BY EndedFinite, FS_CardinalityType
<1>7. IsFiniteSet(EndedTxns \ {t}) /\ Cardinality(EndedTxns \ {t}) = Cardinality(EndedTxns) - 1
  BY <1>5, <1>6, FS_RemoveElement
<1>8. Cardinality(before) <= Cardinality(EndedTxns \ {t}) /\ Cardinality(before) \in Nat
  <2> HIDE DEF before, t
  <2> QED BY <1>4, <1>7, FS_Subset, FS_CardinalityType
<1>9. Cardinality(before) < TableCap
  <2> HIDE DEF before, t
  <2> QED BY <1>6, <1>7, <1>8, KVAssumption
<1>10. W!Cardinality(before) = Cardinality(before)
  <2> HIDE DEF before
  <2> QED BY DEF W!Cardinality, Cardinality
<1>11. W!InTable(records, t)
  <2> HIDE DEF t
  <2> QED BY <1>1, <1>3, <1>9, <1>10 DEF W!InTable
<1> QED BY <1>1, <1>11

LEMMA RecoveryFromTable ==
    ASSUME StateOK, EndsOnce, Cardinality(EndedTxns) <= TableCap
    PROVE  RecoveryUndoesOnlyUncommitted
<1> SUFFICES ASSUME NEW t
             PROVE  W!TableCommitted(records, t) <=> W!Committed(records, t)
  BY DEF RecoveryUndoesOnlyUncommitted, W!RecoveryUndoesOnlyUncommitted, W!Undo
<1>1. ASSUME NEW e \in W!Ends(records, t)
      PROVE  W!InTable(records, t) /\ W!Max(W!Ends(records, t)) = e /\ W!Ends(records, t) = {e}
  <2>1. e \in DOMAIN records /\ records[e].type \in W!EndTypes /\ records[e].txn = t
    BY DEF W!Ends
  <2>2. W!InTable(records, t) /\ W!Ends(records, t) = {e}
    BY <2>1, EndedInTable
  <2>3. e \in Nat
    BY <2>1 DEF StateOK
  <2> QED BY <2>2, <2>3 DEF W!Max
<1>2. W!Committed(records, t) => \E e \in W!Ends(records, t) : records[e].type = "COMMIT"
  BY DEF W!Committed, W!Ends, W!EndTypes
<1>3. W!TableCommitted(records, t) => W!Ends(records, t) # {}
  BY DEF W!TableCommitted, W!InTable
<1>4. \A e \in W!Ends(records, t) : e \in DOMAIN records /\ records[e].txn = t
  BY DEF W!Ends
<1> QED BY <1>1, <1>2, <1>3, <1>4 DEF W!TableCommitted, W!Committed

(* A restart undoes the data records of exactly the transactions that have *)
(* no commit in the log, checkpoints in between or not, as long as no more *)
(* of them ended than the table of wal_recover has places.                 *)
THEOREM RecoveryUndoesOnlyUncommittedHolds ==
    KVSpec => [](Cardinality(EndedTxns) <= TableCap => RecoveryUndoesOnlyUncommitted)
<1>1. KVInit => EndsOnce
  BY DEF KVInit, W!WalInit, EndsOnce
<1>2. KVSpec => []EndsOnce
  BY <1>1, NextEndsOnce, Invariant, PTL DEF KVSpec
<1>3. IInv /\ EndsOnce => (Cardinality(EndedTxns) <= TableCap => RecoveryUndoesOnlyUncommitted)
  BY RecoveryFromTable DEF IInv
<1> QED BY <1>2, <1>3, Invariant, PTL

-----------------------------------------------------------------------------
(* Callers that only write implement OneWriter, when no two keys share a   *)
(* bucket of the lock manager.  Then the entries of a bucket are granted   *)
(* exclusive locks of one transaction on one key, with exclusive requests  *)
(* in their queues, and the writer of a key holds its lock.                *)
LMP == INSTANCE LockManagerProofs WITH Resources <- Keys

ExclusiveLocks(k) ==
    [txn : Txns, res : {k}, mode : {"X"}, granted : {TRUE},
     queue : Seq([txn : Txns, mode : {"X"}])]
OneHolder(c, k) ==
    /\ c \in Seq(ExclusiveLocks(k))
    /\ \A i, j \in DOMAIN c : c[i].txn = c[j].txn
HeldBy(c, t) == c # <<>> /\ c[1].txn = t

LockInv ==
    /\ DOMAIN chain = LM!Buckets
    /\ \A k \in Keys :
          /\ OneHolder(Bucket(k), k)
          /\ Writer(k) # W!NoTxn => HeldBy(Bucket(k), Writer(k))

(* The writer of a key, as a function of the log.                          *)
Live(log, k) ==
    { i \in RecordsOf(log, k) : IsLastOf(log, k, i) /\ W!Ends(log, log[i].txn) = {} }
WriterIn(log, k) == IF Live(log, k) = {} THEN W!NoTxn ELSE log[Max(Live(log, k))].txn

LEMMA WriterOfLog ==
    ASSUME NEW k
    PROVE  Writer(k) = WriterIn(records, k) /\ Writer(k)' = WriterIn(records', k)
BY DEF Writer, WriterIn, Live, Ended

(* There is one last record of a key.                                      *)
LEMMA WriterOfLast ==
    ASSUME NEW log \in Seq(W!Records), NEW k, NEW i, IsLastOf(log, k, i)
    PROVE  WriterIn(log, k) = IF W!Ends(log, log[i].txn) = {} THEN log[i].txn ELSE W!NoTxn
<1>1. RecordsOf(log, k) \subseteq Nat /\ i \in RecordsOf(log, k)
  BY DEF RecordsOf, IsLastOf
<1>2. \A j \in RecordsOf(log, k) : IsLastOf(log, k, j) => j = i
  BY <1>1 DEF IsLastOf
<1>3. Live(log, k) = IF W!Ends(log, log[i].txn) = {} THEN {i} ELSE {}
  BY <1>1, <1>2 DEF Live
<1>4. Max({i}) = i
  BY <1>1 DEF Max
<1> QED BY <1>3, <1>4 DEF WriterIn

LEMMA WriterOfNone ==
    ASSUME NEW log, NEW k, \A i \in RecordsOf(log, k) : ~IsLastOf(log, k, i)
    PROVE  WriterIn(log, k) = W!NoTxn
BY DEF WriterIn, Live

(* A data record makes its transaction the writer of its key; the end of a *)
(* transaction takes every key from it; nothing else moves.                *)
WriterMoves(log, rec, log2, k) ==
    /\ rec.page = k /\ rec.type \notin W!EndTypes /\ W!Ends(log, rec.txn) = {}
          => WriterIn(log2, k) = rec.txn
    /\ rec.page # k /\ rec.type \notin W!EndTypes
          => WriterIn(log2, k) = WriterIn(log, k)
    /\ rec.page # k /\ rec.type \in W!EndTypes
          => WriterIn(log2, k) = IF WriterIn(log, k) = rec.txn THEN W!NoTxn
                                 ELSE WriterIn(log, k)

LEMMA WriterAfterAppend ==
    ASSUME NEW log \in Seq(W!Records), NEW rec \in W!Records, NEW log2, log2 = Append(log, rec),
           NEW k \in Keys
    PROVE  WriterMoves(log, rec, log2, k)
<1> DEFINE n == Len(log) + 1
<1>1. /\ log2 \in Seq(W!Records)
      /\ Len(log) \in Nat
      /\ DOMAIN log = 1 .. Len(log) /\ DOMAIN log2 = 1 .. n
      /\ \A i \in 1 .. Len(log) : log2[i] = log[i]
      /\ log2[n] = rec
  BY AppendOne
<1>2. ASSUME NEW u
      PROVE  W!Ends(log2, u) = {} <=>
                W!Ends(log, u) = {} /\ ~(rec.type \in W!EndTypes /\ rec.txn = u)
  BY <1>1 DEF W!Ends
<1>3. RecordsOf(log2, k) = IF rec.page = k THEN RecordsOf(log, k) \cup {n} ELSE RecordsOf(log, k)
  BY <1>1 DEF RecordsOf
<1>4. RecordsOf(log, k) \subseteq 1 .. Len(log)
  BY <1>1 DEF RecordsOf
<1>5. CASE rec.page = k
  <2>1. IsLastOf(log2, k, n)
    BY <1>1, <1>3, <1>4, <1>5 DEF IsLastOf
  <2>2. WriterIn(log2, k) = IF W!Ends(log2, rec.txn) = {} THEN rec.txn ELSE W!NoTxn
    BY <1>1, <2>1, WriterOfLast
  <2> QED BY <1>2, <1>5, <2>2 DEF WriterMoves
<1>6. CASE rec.page # k
  <2>1. \A i : IsLastOf(log2, k, i) <=> IsLastOf(log, k, i)
    BY <1>3, <1>6 DEF IsLastOf
  <2>2. CASE \E i : IsLastOf(log, k, i)
    <3>1. PICK i : IsLastOf(log, k, i)
      BY <2>2
    <3>2. i \in DOMAIN log /\ log2[i] = log[i]
      BY <1>1, <1>4, <3>1 DEF IsLastOf
    <3>3. WriterIn(log, k) = IF W!Ends(log, log[i].txn) = {} THEN log[i].txn ELSE W!NoTxn
      BY <3>1, WriterOfLast
    <3>4. WriterIn(log2, k) = IF W!Ends(log2, log[i].txn) = {} THEN log[i].txn ELSE W!NoTxn
      BY <1>1, <2>1, <3>1, <3>2, WriterOfLast
    <3>5. W!Ends(log2, log[i].txn) = {} <=>
             W!Ends(log, log[i].txn) = {} /\ ~(rec.type \in W!EndTypes /\ rec.txn = log[i].txn)
      BY <1>2
    <3> QED BY <1>6, <3>3, <3>4, <3>5 DEF WriterMoves
  <2>3. CASE ~\E i : IsLastOf(log, k, i)
    <3>1. WriterIn(log, k) = W!NoTxn /\ WriterIn(log2, k) = W!NoTxn
      BY <2>1, <2>3, WriterOfNone
    <3> QED BY <1>6, <3>1 DEF WriterMoves
  <2> QED BY <2>2, <2>3
<1> QED BY <1>5, <1>6 DEF WriterMoves

LEMMA WriterElsewhere ==
    ASSUME NEW log \in Seq(W!Records), NEW rec \in W!Records, NEW k \in Keys,
           rec.page # k, rec.type \notin W!EndTypes
    PROVE  WriterIn(Append(log, rec), k) = WriterIn(log, k)
<1>1. WriterMoves(log, rec, Append(log, rec), k)
  BY WriterAfterAppend
<1> QED BY <1>1 DEF WriterMoves

LEMMA WriterHere ==
    ASSUME NEW log \in Seq(W!Records), NEW rec \in W!Records, NEW log2, log2 = Append(log, rec),
           NEW k \in Keys, rec.page = k, rec.type \notin W!EndTypes, W!Ends(log, rec.txn) = {}
    PROVE  WriterIn(log2, k) = rec.txn
<1>1. WriterMoves(log, rec, log2, k)
  BY WriterAfterAppend
<1> QED BY <1>1 DEF WriterMoves

LEMMA WriterEnded ==
    ASSUME NEW log \in Seq(W!Records), NEW rec \in W!Records, NEW log2, log2 = Append(log, rec),
           rec.page \notin Keys, rec.type \in W!EndTypes, NEW k \in Keys
    PROVE  WriterIn(log2, k) = IF WriterIn(log, k) = rec.txn THEN W!NoTxn ELSE WriterIn(log, k)
<1>1. rec.page # k
  OBVIOUS
<1>2. WriterMoves(log, rec, log2, k)
  BY WriterAfterAppend
<1> QED BY <1>1, <1>2 DEF WriterMoves

-----------------------------------------------------------------------------
LEMMA BucketNumber ==
    ASSUME NEW k \in Keys
    PROVE  LM!Bucket(k) \in LM!Buckets
BY KVAssumption DEF LM!Bucket, LM!Buckets

(* The lock a put or a delete asks for: the bucket afterwards.             *)
AfterLock(t, k) ==
    IF AcquiresX(t, k) THEN AfterAcquireX(t, k)
    ELSE LM!AfterUpgrade(AfterAcquireX(t, k), t, k)

(* Every change of a lock that keeps whose it is keeps the holder.         *)
LEMMA SameHolder ==
    ASSUME NEW k, NEW c, OneHolder(c, k), NEW m \in DOMAIN c,
           NEW e \in ExclusiveLocks(k), e.txn = c[m].txn
    PROVE  LET d == [c EXCEPT ![m] = e]
           IN  OneHolder(d, k) /\ \A t : HeldBy(d, t) <=> HeldBy(c, t)
<1> DEFINE d == [c EXCEPT ![m] = e]
<1>1. c \in Seq(ExclusiveLocks(k)) /\ m \in 1 .. Len(c)
  BY DEF OneHolder
<1>2. d \in Seq(ExclusiveLocks(k)) /\ Len(d) = Len(c) /\ DOMAIN d = DOMAIN c
  BY <1>1, ExceptSeq
<1>3. \A i \in DOMAIN c : d[i].txn = c[i].txn
  OBVIOUS
<1>4. DOMAIN c = 1 .. Len(c) /\ Len(c) \in Nat /\ 1 \in DOMAIN c /\ c # <<>> /\ d # <<>>
  BY <1>1, <1>2
<1> HIDE DEF d
<1>5. OneHolder(d, k)
  BY <1>2, <1>3 DEF OneHolder
<1>6. \A t : HeldBy(d, t) <=> HeldBy(c, t)
  BY <1>3, <1>4 DEF HeldBy
<1> QED BY <1>5, <1>6 DEF d

LEMMA OwnPush ==
    ASSUME NEW k \in Keys, NEW c, OneHolder(c, k), NEW t \in Txns, c # <<>> => HeldBy(c, t)
    PROVE  /\ ~LM!HasConflict(c, t, k, "X")
           /\ LET d == LM!PushFront(LM!NewEntry(t, k, "X", TRUE), c)
              IN  OneHolder(d, k) /\ HeldBy(d, t)
<1> DEFINE e == LM!NewEntry(t, k, "X", TRUE)
           d == <<e>> \o c
<1>1. c \in Seq(ExclusiveLocks(k)) /\ Len(c) \in Nat /\ DOMAIN c = 1 .. Len(c)
  BY DEF OneHolder
<1>2. \A i \in DOMAIN c : c[i] \in ExclusiveLocks(k) /\ c[i].txn = t
  <2>1. \A i \in DOMAIN c : 1 \in DOMAIN c /\ c # <<>>
    BY <1>1
  <2> QED BY <1>1, <2>1 DEF OneHolder, HeldBy
<1>3. ~LM!HasConflict(c, t, k, "X")
  BY <1>2 DEF ExclusiveLocks, LM!HasConflict, LM!Covers
<1>4. e \in ExclusiveLocks(k) /\ e.txn = t
  BY DEF ExclusiveLocks, LM!NewEntry
<1> HIDE DEF e
<1>5. <<e>> \in Seq(ExclusiveLocks(k))
  BY <1>4
<1>6. /\ d \in Seq(ExclusiveLocks(k)) /\ DOMAIN d = 1 .. Len(c) + 1 /\ d # <<>>
      /\ d[1] = e /\ \A i \in 2 .. Len(c) + 1 : d[i] = c[i - 1]
  BY <1>1, <1>4, <1>5
<1> HIDE DEF d
<1>7. \A i \in DOMAIN d : d[i].txn = t
  <2> TAKE i \in DOMAIN d
  <2>1. CASE i = 1
    BY <1>4, <1>6, <2>1
  <2>2. CASE i # 1
    <3>1. i \in 2 .. Len(c) + 1 /\ i - 1 \in DOMAIN c
      BY <1>1, <1>6, <2>2
    <3> QED BY <1>2, <1>6, <3>1
  <2> QED BY <2>1, <2>2
<1>8. OneHolder(d, k) /\ HeldBy(d, t)
  BY <1>4, <1>6, <1>7 DEF OneHolder, HeldBy
<1> QED BY <1>3, <1>8 DEF d, e, LM!PushFront

LEMMA ForeignQueues ==
    ASSUME NEW k \in Keys, NEW c, OneHolder(c, k), NEW t \in Txns, c # <<>>, ~HeldBy(c, t)
    PROVE  /\ LM!HasConflict(c, t, k, "X")
           /\ LM!OwnGranted(c, t, k) = {}
           /\ LET d == LM!Enqueue(c, t, k, "X")
              IN  /\ OneHolder(d, k) /\ \A u : HeldBy(d, u) <=> HeldBy(c, u)
                  /\ LM!OwnGranted(d, t, k) = {}
<1> DEFINE same == { i \in DOMAIN c : c[i].res = k }
           m == LM!Min(same)
           q == [txn |-> t, mode |-> "X"]
           e == [c[m] EXCEPT !.queue = Append(@, q)]
           d == LM!Enqueue(c, t, k, "X")
<1>1. c \in Seq(ExclusiveLocks(k)) /\ DOMAIN c = 1 .. Len(c) /\ 1 \in DOMAIN c
  BY DEF OneHolder
<1>2. \A i \in DOMAIN c : c[i] \in ExclusiveLocks(k) /\ c[i].txn # t
  BY <1>1 DEF OneHolder, HeldBy
<1>3. LM!OwnGranted(c, t, k) = {}
  BY <1>2 DEF LM!OwnGranted
<1>4. LM!HasConflict(c, t, k, "X")
  <2>1. c[1].res = k /\ c[1].granted /\ c[1].txn # t
    BY <1>1, <1>2 DEF ExclusiveLocks
  <2>2. LM!Decides(c[1], t, k, "X") /\ ~LM!Covers(c[1], t, "X")
    BY <2>1 DEF LM!Decides, LM!Covers
  <2> QED BY <1>1, <2>2 DEF LM!HasConflict
<1>5. same = DOMAIN c
  BY <1>2 DEF ExclusiveLocks
<1>6. m \in DOMAIN c
  <2>1. same \in SUBSET Nat /\ same # {}
    BY <1>1, <1>5
  <2>2. LM!Min(same) = Min(same)
    BY DEF LM!Min, Min
  <2> HIDE DEF same
  <2> QED BY <1>5, <2>1, <2>2, MinIsMember
<1>7. d = [c EXCEPT ![m] = e]
  BY <1>1, <1>5 DEF LM!Enqueue
<1>8. e \in ExclusiveLocks(k) /\ e.txn = c[m].txn
  <2> HIDE DEF m
  <2>1. c[m] \in ExclusiveLocks(k) /\ q \in [txn : Txns, mode : {"X"}]
    BY <1>2, <1>6
  <2>2. Append(c[m].queue, q) \in Seq([txn : Txns, mode : {"X"}])
    <3> DEFINE R == [txn : Txns, mode : {"X"}]
    <3>1. c[m].queue \in Seq(R) /\ q \in R
      BY <2>1 DEF ExclusiveLocks
    <3> HIDE DEF R, q
    <3>2. Append(c[m].queue, q) \in Seq(R)
      BY <3>1
    <3> QED BY <3>2 DEF R
  <2> QED BY <2>1, <2>2 DEF ExclusiveLocks
<1> HIDE DEF d, e, m
<1>9. OneHolder(d, k) /\ \A u : HeldBy(d, u) <=> HeldBy(c, u)
  BY <1>6, <1>7, <1>8, SameHolder
<1>10. LM!OwnGranted(d, t, k) = {}
  <2>1. DOMAIN d = DOMAIN c /\ \A i \in DOMAIN c : d[i].txn = c[i].txn
    BY <1>7, <1>8
  <2> QED BY <1>2, <2>1 DEF LM!OwnGranted
<1> QED BY <1>3, <1>4, <1>9, <1>10 DEF d

LEMMA OwnUpgrade ==
    ASSUME NEW k \in Keys, NEW c, OneHolder(c, k), NEW t \in Txns
    PROVE  LET d == LM!AfterUpgrade(c, t, k)
           IN  /\ OneHolder(d, k) /\ \A u : HeldBy(d, u) <=> HeldBy(c, u)
               /\ LM!UpgradeSucceeds(c, t, k) => HeldBy(c, t)
<1> DEFINE own == LM!OwnGranted(c, t, k)
           m == LM!Min(own)
           e == [c[m] EXCEPT !.mode = "X"]
<1>1. CASE ~LM!UpgradeSucceeds(c, t, k)
  BY <1>1 DEF LM!AfterUpgrade
<1>2. CASE LM!UpgradeSucceeds(c, t, k)
  <2>1. own # {} /\ own \subseteq DOMAIN c /\ \A i \in own : c[i].txn = t
    BY <1>2 DEF LM!UpgradeSucceeds, LM!OwnGranted
  <2>2. c \in Seq(ExclusiveLocks(k)) /\ DOMAIN c = 1 .. Len(c)
    BY DEF OneHolder
  <2>3. m \in own
    <3>1. LM!Min(own) = Min(own)
      BY DEF LM!Min, Min
    <3>2. own \in SUBSET Nat
      BY <2>1, <2>2
    <3> HIDE DEF own
    <3> QED BY <2>1, <3>1, <3>2, MinIsMember
  <2>4. LM!AfterUpgrade(c, t, k) = [c EXCEPT ![m] = e]
    BY <1>2 DEF LM!AfterUpgrade
  <2> HIDE DEF m, own
  <2>5. m \in DOMAIN c /\ c[m].txn = t
    BY <2>1, <2>3
  <2>6. e \in ExclusiveLocks(k) /\ e.txn = c[m].txn
    <3>1. c[m] \in ExclusiveLocks(k)
      BY <2>2, <2>5
    <3> QED BY <3>1 DEF ExclusiveLocks
  <2>7. HeldBy(c, t)
    <3>1. 1 \in DOMAIN c /\ c # <<>>
      BY <2>2, <2>5
    <3> QED BY <2>5, <3>1 DEF OneHolder, HeldBy
  <2> HIDE DEF e
  <2>8. OneHolder([c EXCEPT ![m] = e], k) /\ \A u : HeldBy([c EXCEPT ![m] = e], u) <=> HeldBy(c, u)
    BY <2>5, <2>6, SameHolder
  <2> QED BY <2>4, <2>7, <2>8
<1> QED BY <1>1, <1>2

(* The lock of a put or a delete: whose the bucket is stays, and a write   *)
(* goes through only for the transaction that has it.                      *)
LEMMA LockStep ==
    ASSUME NEW k \in Keys, NEW t \in Txns, OneHolder(Bucket(k), k)
    PROVE  LET c == Bucket(k)
               d == AfterLock(t, k)
           IN  /\ OneHolder(d, k)
               /\ \A u : HeldBy(c, u) => HeldBy(d, u)
               /\ MayWrite(t, k) => HeldBy(d, t) /\ (c = <<>> \/ HeldBy(c, t))
<1> DEFINE c == Bucket(k)
<1> USE DEF AfterLock, AfterAcquireX, AcquiresX, UpgradesX, MayWrite, LM!AcquireGrants
<1>1. CASE LM!PoolFree /\ (c = <<>> \/ HeldBy(c, t))
  <2>1. /\ ~LM!HasConflict(c, t, k, "X")
        /\ LET d == LM!PushFront(LM!NewEntry(t, k, "X", TRUE), c)
           IN  OneHolder(d, k) /\ HeldBy(d, t)
    BY <1>1, OwnPush
  <2>2. AfterLock(t, k) = LM!PushFront(LM!NewEntry(t, k, "X", TRUE), c)
    BY <1>1, <2>1 DEF LM!AfterAcquire
  <2>3. \A u : HeldBy(c, u) => u = t
    BY <1>1 DEF HeldBy
  <2> HIDE DEF c
  <2> QED BY <1>1, <2>1, <2>2, <2>3 DEF c
<1>2. CASE LM!PoolFree /\ c # <<>> /\ ~HeldBy(c, t)
  <2> DEFINE d == LM!Enqueue(c, t, k, "X")
  <2>1. /\ LM!HasConflict(c, t, k, "X")
        /\ OneHolder(d, k) /\ \A u : HeldBy(d, u) <=> HeldBy(c, u)
        /\ LM!OwnGranted(d, t, k) = {}
    BY <1>2, ForeignQueues
  <2>2. AfterAcquireX(t, k) = d /\ ~AcquiresX(t, k)
    BY <1>2, <2>1 DEF LM!AfterAcquire
  <2>3. ~LM!UpgradeSucceeds(d, t, k) /\ LM!AfterUpgrade(d, t, k) = d
    BY <2>1 DEF LM!UpgradeSucceeds, LM!AfterUpgrade
  <2> HIDE DEF d
  <2> QED BY <2>1, <2>2, <2>3
<1>3. CASE ~LM!PoolFree
  <2>1. AfterAcquireX(t, k) = c /\ ~AcquiresX(t, k)
    BY <1>3
  <2>2. LET d == LM!AfterUpgrade(c, t, k)
        IN  /\ OneHolder(d, k) /\ \A u : HeldBy(d, u) <=> HeldBy(c, u)
            /\ LM!UpgradeSucceeds(c, t, k) => HeldBy(c, t)
    BY OwnUpgrade
  <2> HIDE DEF c
  <2> QED BY <2>1, <2>2 DEF c
<1> QED BY <1>1, <1>2, <1>3

-----------------------------------------------------------------------------
(* The walk of lm_release_all over such a bucket: another transaction's    *)
(* stays as it is, the own one is left to the last waiter promoted.        *)
LEMMA WalkOfBucket ==
    ASSUME NEW k \in Keys, NEW c, OneHolder(c, k), NEW t
    PROVE  \E w : /\ w[0] = [list |-> <<>>, kept |-> FALSE]
                  /\ \A i \in 1 .. Len(c) : w[i] = LM!Visit(w[i - 1], c[i], t)
                  /\ LM!AfterReleaseAll(c, t) = w[Len(c)].list
<1>1. LMP!LMAssumption
  BY KVAssumption DEF LMP!LMAssumption, Txns
<1>2. ExclusiveLocks(k) \subseteq LMP!Entries
  <2>1. Seq([txn : Txns, mode : {"X"}]) \subseteq Seq(LMP!Requests)
    <3>1. [txn : Txns, mode : {"X"}] \subseteq LMP!Requests
      BY DEF LMP!Requests, LMP!Modes
    <3> DEFINE R == [txn : Txns, mode : {"X"}]
    <3> HIDE DEF R
    <3>2. R \subseteq LMP!Requests => Seq(R) \subseteq Seq(LMP!Requests)
      OBVIOUS
    <3> QED BY <3>1, <3>2 DEF R
  <2> QED BY <2>1 DEF ExclusiveLocks, LMP!Entries, LMP!Modes
<1>3. c \in Seq(LMP!Entries)
  <2>1. c \in Seq(ExclusiveLocks(k))
    BY DEF OneHolder
  <2> QED BY <1>2, <2>1
<1>4. PICK w : LMP!IsWalk(w, c, t) /\ LMP!AfterReleaseAll(c, t) = w[Len(c)].list
  BY <1>1, <1>3, LMP!WalkSteps
<1>5. LMP!AfterReleaseAll(c, t) = LM!AfterReleaseAll(c, t)
  BY DEF LMP!AfterReleaseAll, LM!AfterReleaseAll, LMP!Visit, LM!Visit, LMP!Promote, LM!Promote,
         LMP!FoldLeft, LM!FoldLeft, LMP!MapThenFoldSet, LM!MapThenFoldSet, LMP!Max, LM!Max
<1>6. \A acc, e : LMP!Visit(acc, e, t) = LM!Visit(acc, e, t)
  BY DEF LMP!Visit, LM!Visit, LMP!Promote, LM!Promote
<1> QED BY <1>4, <1>5, <1>6 DEF LMP!IsWalk, LMP!Unwalked

LEMMA PromotedHolder ==
    ASSUME NEW k \in Keys, NEW e \in ExclusiveLocks(k)
    PROVE  OneHolder(LM!Promote(e), k)
<1>1. CASE e.queue = <<>>
  <2>1. LM!Promote(e) = <<>>
    BY <1>1 DEF LM!Promote
  <2>2. <<>> \in Seq(ExclusiveLocks(k)) /\ DOMAIN <<>> = {}
    OBVIOUS
  <2> QED BY <2>1, <2>2 DEF OneHolder
<1>2. CASE e.queue # <<>>
  <2> DEFINE R == [txn : Txns, mode : {"X"}]
             d == [txn |-> Head(e.queue).txn, res |-> e.res, mode |-> Head(e.queue).mode,
                   granted |-> TRUE, queue |-> Tail(e.queue)]
  <2>1. e.queue \in Seq(R) /\ e.res = k
    BY DEF ExclusiveLocks
  <2>2. Head(e.queue) \in R /\ Tail(e.queue) \in Seq(R)
    <3> HIDE DEF R
    <3> QED BY <1>2, <2>1
  <2>3. d \in ExclusiveLocks(k)
    BY <2>1, <2>2 DEF ExclusiveLocks
  <2>4. LM!Promote(e) = <<d>>
    BY <1>2 DEF LM!Promote
  <2> HIDE DEF d
  <2>5. <<d>> \in Seq(ExclusiveLocks(k)) /\ DOMAIN <<d>> = {1}
    BY <2>3
  <2> QED BY <2>4, <2>5 DEF OneHolder
<1> QED BY <1>1, <1>2

LEMMA ReleaseAllHolder ==
    ASSUME NEW k \in Keys, NEW c, OneHolder(c, k), NEW t
    PROVE  /\ OneHolder(LM!AfterReleaseAll(c, t), k)
           /\ \A u : HeldBy(c, u) /\ u # t => HeldBy(LM!AfterReleaseAll(c, t), u)
<1> DEFINE E == ExclusiveLocks(k)
           n == Len(c)
<1>1. c \in Seq(E) /\ n \in Nat /\ DOMAIN c = 1 .. n /\ \A i \in 1 .. n : c[i] \in E
  BY DEF OneHolder
<1>2. PICK w : /\ w[0] = [list |-> <<>>, kept |-> FALSE]
               /\ \A i \in 1 .. n : w[i] = LM!Visit(w[i - 1], c[i], t)
               /\ LM!AfterReleaseAll(c, t) = w[n].list
  BY WalkOfBucket
<1>3. CASE HeldBy(c, t)
  <2> DEFINE P == { i \in 0 .. n : w[i].kept = FALSE /\ OneHolder(w[i].list, k)
                                  /\ w[i] = [list |-> w[i].list, kept |-> w[i].kept] }
  <2>1. 0 \in P
    <3>1. <<>> \in Seq(E) /\ DOMAIN <<>> = {}
      OBVIOUS
    <3>2. OneHolder(<<>>, k)
      BY <3>1 DEF OneHolder
    <3>3. w[0].list = <<>> /\ w[0].kept = FALSE /\ 0 \in 0 .. n
      BY <1>1, <1>2
    <3> QED BY <1>2, <3>2, <3>3
  <2>2. ASSUME NEW i \in 1 .. n, i - 1 \in P PROVE i \in P
    <3>1. c[i] \in E /\ c[i].txn = t /\ c[i].granted
      <4>1. c[i] \in E /\ c[i].txn = c[1].txn
        BY <1>1 DEF OneHolder
      <4>2. c[i].granted = TRUE
        BY <4>1 DEF ExclusiveLocks
      <4> QED BY <1>3, <4>1, <4>2 DEF HeldBy
    <3>2. w[i - 1].kept = FALSE /\ w[i - 1] = [list |-> w[i - 1].list, kept |-> w[i - 1].kept]
      BY <2>2
    <3>3. w[i] = LM!Visit(w[i - 1], c[i], t)
      BY <1>2
    <3>4. w[i] = [list |-> LM!Promote(c[i]) \o <<>>, kept |-> FALSE]
      <4> DEFINE acc == w[i - 1]
                 new == LM!Promote(c[i]) \o (IF acc.kept THEN acc.list ELSE <<>>)
      <4>1. LM!Visit(acc, c[i], t) = [acc EXCEPT !.list = new]
        BY <3>1, Zenon DEF LM!Visit
      <4>2. new = LM!Promote(c[i]) \o <<>>
        BY <3>2
      <4> HIDE DEF new
      <4>3. [acc EXCEPT !.list = new] = [list |-> new, kept |-> FALSE]
        <5> DEFINE l == acc.list
                   b == acc.kept
        <5>1. acc = [list |-> l, kept |-> b] /\ b = FALSE
          BY <2>2, <3>2
        <5>2. [[list |-> l, kept |-> b] EXCEPT !.list = new] = [list |-> new, kept |-> b]
          OBVIOUS
        <5> HIDE DEF l, b, acc
        <5> QED BY <5>1, <5>2, Zenon
      <4> QED BY <3>3, <4>1, <4>2, <4>3
    <3>5. OneHolder(LM!Promote(c[i]), k)
      BY <3>1, PromotedHolder
    <3>6. LM!Promote(c[i]) \o <<>> = LM!Promote(c[i])
      <4>1. LM!Promote(c[i]) \in Seq(E)
        BY <3>5 DEF OneHolder
      <4> HIDE DEF E
      <4> QED BY <4>1, ConcatEmptySeq
    <3>7. i \in 0 .. n
      BY <1>1
    <3>8. w[i].list = LM!Promote(c[i]) /\ w[i].kept = FALSE
      BY <3>4, <3>6
    <3> QED BY <3>4, <3>5, <3>6, <3>7, <3>8
  <2>3. n \in P
    <3>1. n \in 0 .. n
      BY <1>1
    <3> HIDE DEF P, n
    <3> QED BY <1>1, <2>1, <2>2, <3>1, InductionUpTo
  <2>4. OneHolder(w[n].list, k)
    <3> HIDE DEF n
    <3> QED BY <2>3
  <2>5. \A u : HeldBy(c, u) => u = t
    BY <1>3 DEF HeldBy
  <2> QED BY <1>2, <2>4, <2>5
<1>4. CASE ~HeldBy(c, t)
  <2> DEFINE P == { i \in 0 .. n : w[i].list = SubSeq(c, 1, i) }
  <2>1. 0 \in P
    <3>1. SubSeq(c, 1, 0) = <<>>
      BY <1>1
    <3>2. w[0].list = <<>> /\ 0 \in 0 .. n
      BY <1>1, <1>2
    <3> QED BY <3>1, <3>2
  <2>2. ASSUME NEW i \in 1 .. n, i - 1 \in P PROVE i \in P
    <3>1. c[i].txn # t
      <4>1. c[i].txn = c[1].txn /\ c # <<>>
        BY <1>1 DEF OneHolder
      <4> QED BY <1>4, <4>1 DEF HeldBy
    <3>2. w[i] = LM!Visit(w[i - 1], c[i], t)
      BY <1>2
    <3>3. LM!Visit(w[i - 1], c[i], t) = [list |-> Append(w[i - 1].list, c[i]), kept |-> TRUE]
      BY <3>1 DEF LM!Visit
    <3>4. w[i].list = Append(SubSeq(c, 1, i - 1), c[i])
      BY <2>2, <3>2, <3>3
    <3>5. Append(SubSeq(c, 1, i - 1), c[i]) = SubSeq(c, 1, i)
      <4> HIDE DEF E
      <4> QED BY <1>1
    <3>6. i \in 0 .. n
      BY <1>1
    <3> QED BY <3>4, <3>5, <3>6
  <2>3. n \in P
    <3>1. n \in 0 .. n
      BY <1>1
    <3> HIDE DEF P, n
    <3> QED BY <1>1, <2>1, <2>2, <3>1, InductionUpTo
  <2>4. SubSeq(c, 1, n) = c
    <3> HIDE DEF E
    <3> QED BY <1>1
  <2>5. LM!AfterReleaseAll(c, t) = c
    BY <1>2, <2>3, <2>4
  <2> QED BY <2>5
<1> QED BY <1>3, <1>4

-----------------------------------------------------------------------------
LEMMA InitLockInv == KVInit => LockInv
<1> SUFFICES ASSUME KVInit PROVE LockInv
  OBVIOUS
<1>1. chain = [b \in LM!Buckets |-> <<>>] /\ records = <<>>
  BY DEF KVInit, LM!LMInit, W!WalInit
<1>2. \A k \in Keys : Bucket(k) = <<>>
  BY <1>1, BucketNumber DEF Bucket
<1>3. \A k : <<>> \in Seq(ExclusiveLocks(k)) /\ DOMAIN <<>> = {}
  OBVIOUS
<1>4. \A k \in Keys : Writer(k) = W!NoTxn
  BY <1>1 DEF Writer, RecordsOf
<1> QED BY <1>1, <1>2, <1>3, <1>4 DEF LockInv, OneHolder

(* The lock of one key changes one bucket, which is no other key's.        *)
LEMMA OneBucket ==
    ASSUME LM!Apart, DOMAIN chain = LM!Buckets, NEW t \in Txns, NEW k \in Keys, LockForWrite(t, k)
    PROVE  /\ DOMAIN chain' = LM!Buckets
           /\ Bucket(k)' = AfterLock(t, k)
           /\ \A j \in Keys : j # k => Bucket(j)' = Bucket(j)
<1>1. chain' = [chain EXCEPT ![LM!Bucket(k)] = AfterLock(t, k)]
  BY DEF LockForWrite, AfterLock
<1>2. LM!Bucket(k) \in LM!Buckets
  BY BucketNumber
<1>3. \A j \in Keys : j # k => LM!Bucket(j) # LM!Bucket(k)
  BY DEF LM!Apart
<1>4. \A j \in Keys : LM!Bucket(j) \in LM!Buckets
  BY BucketNumber
<1> QED BY <1>1, <1>2, <1>3, <1>4 DEF Bucket

(* A put or a delete.                                                      *)
WriteStep(t, k) ==
    /\ t \in Open
    /\ LockForWrite(t, k)
    /\ \/ UNCHANGED <<records, index>>
       \/ MayWrite(t, k) /\ \E d \in Stored : Sets(t, k, d)
EndStep(t) ==
    /\ t \in Open
    /\ LM!ReleaseAll(t)
    /\ \E type \in {"COMMIT", "ABORT"} : Logs(W!EndRecord(type, t))
    /\ UNCHANGED index

LEMMA WriterStepKinds ==
    ASSUME [WriterNext]_kvVars
    PROVE  \/ UNCHANGED <<chain, records, index>>
           \/ \E t \in Txns, k \in Keys : WriteStep(t, k)
           \/ \E t \in Txns : EndStep(t)
<1>1. CASE BeginTxn \/ UNCHANGED kvVars
  BY <1>1 DEF BeginTxn, lmVars, walVars, kvVars
<1>2. ASSUME NEW t \in Txns, CommitTxn(t) \/ RollbackTxn(t) PROVE EndStep(t)
  BY <1>2 DEF CommitTxn, RollbackTxn, W!WalWrite, M!MvccCommit, M!MvccAbort, EndStep, Logs
<1>3. ASSUME NEW t \in Txns, NEW k \in Keys, NEW d \in Data, Put(t, k, d) PROVE WriteStep(t, k)
  BY <1>3 DEF Put, LogAndSet, W!WalWrite, walVars, mvccVars, WriteStep, Sets, Logs, Stored
<1>4. ASSUME NEW t \in Txns, NEW k \in Keys, Delete(t, k) PROVE WriteStep(t, k)
  BY <1>4 DEF Delete, LogAndSet, W!WalWrite, walVars, mvccVars, WriteStep, Sets, Logs, Stored
<1> QED BY <1>1, <1>2, <1>3, <1>4 DEF WriterNext, EndTxn, Write

(* What a write and an end do to the writers of the keys.                  *)
LEMMA WritersAfterSet ==
    ASSUME StateOK, NEW t \in Open, NEW k \in Keys, NEW d \in Stored, Sets(t, k, d)
    PROVE  Writer(k)' = t /\ \A j \in Keys : j # k => Writer(j)' = Writer(j)
<1> DEFINE rec == W!Record(WriteType(k, d), k, t, index[k], d)
<1>1. /\ rec \in W!Records /\ rec.page = k /\ rec.txn = t
      /\ rec.type \notin W!EndTypes /\ records' = Append(records, rec)
  BY RecordTypes DEF W!Record, Sets, Logs, WriteType, W!EndTypes
<1> HIDE DEF rec
<1>2. records \in Seq(W!Records) /\ W!Ends(records, t) = {}
  BY DEF StateOK, Open, Ended
<1>3. WriterIn(records', k) = rec.txn
  <2>1. W!Ends(records, rec.txn) = {}
    BY <1>1, <1>2
  <2> QED BY <1>1, <1>2, <2>1, WriterHere
<1>4. ASSUME NEW j \in Keys, j # k PROVE WriterIn(records', j) = WriterIn(records, j)
  <2>1. rec.page # j
    BY <1>1, <1>4
  <2> QED BY <1>1, <1>2, <2>1, WriterElsewhere, Zenon
<1> QED BY <1>1, <1>3, <1>4, WriterOfLog

LEMMA WritersAfterEnd ==
    ASSUME StateOK, NEW t \in Open, NEW type \in {"COMMIT", "ABORT"}, Logs(W!EndRecord(type, t))
    PROVE  \A k \in Keys : Writer(k)' = IF Writer(k) = t THEN W!NoTxn ELSE Writer(k)
<1> DEFINE rec == W!EndRecord(type, t)
<1>1. /\ rec \in W!Records /\ rec.page \notin Keys /\ rec.txn = t
      /\ rec.type \in W!EndTypes /\ records' = Append(records, rec)
  BY RecordTypes DEF W!EndRecord, W!Record, Logs, W!EndTypes
<1> HIDE DEF rec
<1>2. records \in Seq(W!Records)
  BY DEF StateOK
<1>3. \A k \in Keys : WriterIn(records', k) =
          IF WriterIn(records, k) = t THEN W!NoTxn ELSE WriterIn(records, k)
  <2>1. \A k \in Keys : WriterIn(records', k) =
          IF WriterIn(records, k) = rec.txn THEN W!NoTxn ELSE WriterIn(records, k)
    BY <1>1, <1>2, WriterEnded
  <2> QED BY <1>1, <2>1
<1> QED BY <1>3, WriterOfLog

LEMMA NextLockInv ==
    ASSUME LM!Apart, StateOK, LockInv, [WriterNext]_kvVars
    PROVE  LockInv'
<1>1. DOMAIN chain = LM!Buckets /\ \A k \in Keys : OneHolder(Bucket(k), k)
  BY DEF LockInv
<1>2. CASE UNCHANGED <<chain, records, index>>
  BY <1>2 DEF LockInv, Bucket, Writer, RecordsOf, IsLastOf, Ended
<1>3. ASSUME NEW t \in Txns, NEW k \in Keys, WriteStep(t, k) PROVE LockInv'
  <2>1. /\ DOMAIN chain' = LM!Buckets
        /\ Bucket(k)' = AfterLock(t, k)
        /\ \A j \in Keys : j # k => Bucket(j)' = Bucket(j)
    BY <1>1, <1>3, OneBucket DEF WriteStep
  <2>2. /\ OneHolder(Bucket(k)', k)
        /\ \A u : HeldBy(Bucket(k), u) => HeldBy(Bucket(k)', u)
        /\ MayWrite(t, k) => HeldBy(Bucket(k)', t)
    BY <1>1, <2>1, LockStep
  <2>3. \A j \in Keys : j # k => Writer(j)' = Writer(j)
    BY <1>3, WritersAfterSet, WriterOfLog DEF WriteStep
  <2>4. Writer(k)' = Writer(k) \/ (Writer(k)' = t /\ MayWrite(t, k))
    BY <1>3, WritersAfterSet, WriterOfLog DEF WriteStep
  <2>5. \A j \in Keys : Writer(j) # W!NoTxn => HeldBy(Bucket(j), Writer(j))
    BY DEF LockInv
  <2>6. ASSUME NEW j \in Keys
        PROVE  OneHolder(Bucket(j)', j) /\ (Writer(j)' # W!NoTxn => HeldBy(Bucket(j)', Writer(j)'))
    <3>1. CASE j = k
      BY <2>2, <2>4, <2>5, <3>1
    <3>2. CASE j # k
      BY <1>1, <2>1, <2>3, <2>5, <3>2
    <3> QED BY <3>1, <3>2
  <2> QED BY <2>1, <2>6 DEF LockInv
<1>4. ASSUME NEW t \in Txns, EndStep(t) PROVE LockInv'
  <2>1. DOMAIN chain' = LM!Buckets /\ \A k \in Keys : Bucket(k)' = LM!AfterReleaseAll(Bucket(k), t)
    BY <1>4, BucketNumber DEF EndStep, LM!ReleaseAll, Bucket
  <2>2. \A k \in Keys : Writer(k)' = IF Writer(k) = t THEN W!NoTxn ELSE Writer(k)
    BY <1>4, WritersAfterEnd DEF EndStep
  <2>3. ASSUME NEW k \in Keys
        PROVE  OneHolder(Bucket(k)', k) /\ (Writer(k)' # W!NoTxn => HeldBy(Bucket(k)', Writer(k)'))
    <3>1. /\ OneHolder(Bucket(k)', k)
          /\ \A u : HeldBy(Bucket(k), u) /\ u # t => HeldBy(Bucket(k)', u)
      BY <1>1, <2>1, ReleaseAllHolder
    <3>2. Writer(k) # W!NoTxn => HeldBy(Bucket(k), Writer(k))
      BY DEF LockInv
    <3> QED BY <2>2, <3>1, <3>2
  <2> QED BY <2>1, <2>3 DEF LockInv
<1> QED BY <1>2, <1>3, <1>4, WriterStepKinds

-----------------------------------------------------------------------------
(* Step by step: a write that is logged is a write of OneWriter, an end is *)
(* its end, and everything else is invisible there.                        *)
LEMMA StepRefines ==
    ASSUME LM!Apart, StateOK, LockInv, [WriterNext]_kvVars
    PROVE  [OW!Next]_<<index, [k \in Keys |-> Writer(k)]>>
<1> DEFINE wr == [k \in Keys |-> Writer(k)]
<1>0. Open \subseteq Txns
  BY KVAssumption DEF Open, StateOK, Txns
<1>1. CASE UNCHANGED <<records, index>>
  <2>1. \A k \in Keys : Writer(k)' = Writer(k)
    BY <1>1, WriterOfLog
  <2>2. wr' = wr
    BY <2>1
  <2> QED BY <1>1, <2>2
<1>2. ASSUME NEW t \in Txns, NEW k \in Keys, t \in Open, LockForWrite(t, k), MayWrite(t, k),
             NEW d \in Stored, Sets(t, k, d)
      PROVE  OW!Write(t, k)
  <2>1. Writer(k)' = t /\ \A j \in Keys : j # k => Writer(j)' = Writer(j)
    BY <1>2, WritersAfterSet
  <2>2. Bucket(k) = <<>> \/ HeldBy(Bucket(k), t)
    BY <1>2, LockStep DEF LockInv
  <2>3. Writer(k) \in {W!NoTxn, t}
    BY <2>2 DEF LockInv, HeldBy
  <2>4. wr' = [wr EXCEPT ![k] = t]
    BY <2>1
  <2>5. \E e \in Data \cup {NoData} : index' = [index EXCEPT ![k] = e]
    BY <1>2 DEF Sets, Stored
  <2> QED BY <2>3, <2>4, <2>5 DEF OW!Write
<1>3. ASSUME NEW t \in Txns, EndStep(t) PROVE OW!End(t)
  <2>1. \A k \in Keys : Writer(k)' = IF Writer(k) = t THEN W!NoTxn ELSE Writer(k)
    BY <1>3, WritersAfterEnd DEF EndStep
  <2>2. wr' = [k \in Keys |-> IF wr[k] = t THEN W!NoTxn ELSE wr[k]]
    BY <2>1
  <2> QED BY <1>3, <2>2 DEF OW!End, EndStep
<1> QED BY <1>1, <1>2, <1>3, WriterStepKinds DEF OW!Next, WriteStep

(* Strict two-phase locking for callers that only write: a key written by  *)
(* a transaction that has not ended is changed by nobody else, through     *)
(* refused locks, upgrades, hand-overs to waiters and a pool that runs     *)
(* dry.  Keys that share a bucket void it: lm_release_all may promote a    *)
(* waiter of one behind an entry of the other and another one after it.    *)
THEOREM OneWriterImplemented ==
    ASSUME LM!Apart
    PROVE  WriterSpec => OneWriterSpec
<1>1. KVInit => OW!Init
  <2> SUFFICES ASSUME KVInit PROVE OW!Init
    OBVIOUS
  <2>1. records = <<>> /\ index = [k \in Keys |-> NoData]
    BY DEF KVInit, W!WalInit
  <2>2. \A k \in Keys : Writer(k) = W!NoTxn
    BY <2>1 DEF Writer, RecordsOf
  <2> QED BY <2>1, <2>2 DEF OW!Init
<1>2. [WriterNext]_kvVars => [KVNext]_kvVars
  BY DEF KVNext
<1>3. IInv => StateOK
  BY DEF IInv
<1>4. IInv /\ [WriterNext]_kvVars => IInv'
  BY <1>2, NextIInv
<1>5. IInv /\ LockInv /\ [WriterNext]_kvVars => LockInv'
  BY <1>3, NextLockInv
<1>6. IInv /\ LockInv /\ [WriterNext]_kvVars => [OW!Next]_<<index, [k \in Keys |-> Writer(k)]>>
  BY <1>3, StepRefines
<1> QED BY <1>1, <1>4, <1>5, <1>6, InitIInv, InitLockInv, PTL DEF WriterSpec, OneWriterSpec, OW!Spec

-----------------------------------------------------------------------------
(* Ordered gives the ranks.                                                *)
LEMMA OrderedRanks ==
    ASSUME NEW S \in SUBSET Int, IsFiniteSet(S)
    PROVE  Ranks(S, Ordered(S))
BY RankingRanks DEF Ordered, Ranking

LEMMA RanksSame ==
    ASSUME NEW S \in SUBSET Int, IsFiniteSet(S), NEW m \in Nat, NEW q \in [1 .. m -> S],
           \A i, j \in 1 .. m : i < j => q[i] < q[j],
           \A x \in S : \E i \in 1 .. m : q[i] = x
    PROVE  m = Cardinality(S) /\ Ordered(S) = q
BY RankingSame DEF Ordered, Ranking

(* What is at some places of a row, in its order.                          *)
LEMMA ThoseAre ==
    ASSUME NEW X, NEW s \in Seq(X), NEW I \in SUBSET DOMAIN s
    PROVE  /\ IsFiniteSet(I) /\ I \in SUBSET Int /\ Cardinality(I) \in Nat
           /\ Ranks(I, Ordered(I)) /\ DOMAIN Ordered(I) = 1 .. Cardinality(I)
           /\ Those(s, I) \in Seq(X) /\ Len(Those(s, I)) = Cardinality(I)
           /\ \A n \in 1 .. Cardinality(I) : Those(s, I)[n] = s[Ordered(I)[n]]
           /\ ToSet(Those(s, I)) = {s[i] : i \in I}
<1> DEFINE p == Ordered(I)
           n == Cardinality(I)
           t == Those(s, I)
<1>1. DOMAIN s = 1 .. Len(s) /\ Len(s) \in Nat /\ \A i \in I : i \in Int /\ s[i] \in X
  OBVIOUS
<1>2. IsFiniteSet(I) /\ I \in SUBSET Int
  <2>1. IsFiniteSet(1 .. Len(s))
    BY <1>1, FS_Interval
  <2>2. IsFiniteSet(I)
    BY <1>1, <2>1, FS_Subset
  <2> QED BY <1>1, <2>2
<1>3. n \in Nat
  BY <1>2, FS_CardinalityType
<1>4. Ranks(I, p)
  BY <1>2, OrderedRanks
<1>5. t = [i \in DOMAIN p |-> s[p[i]]]
  BY DEF Those
<1> HIDE DEF t, p, n
<1>6. DOMAIN p = 1 .. n /\ \A i \in 1 .. n : p[i] \in I
  BY <1>4 DEF Ranks, n
<1>7. t = [i \in 1 .. n |-> s[p[i]]]
  BY <1>5, <1>6
<1>8. t \in Seq(X) /\ Len(t) = n
  BY <1>1, <1>3, <1>6, <1>7
<1>9. \A i \in 1 .. n : t[i] = s[p[i]]
  BY <1>7
<1>10. ToSet(t) = {s[i] : i \in I}
  <2>1. DOMAIN t = 1 .. n
    BY <1>7
  <2>2. \A i \in I : \E j \in 1 .. n : p[j] = i
    BY <1>4 DEF Ranks, n
  <2>3. \A x \in ToSet(t) : x \in {s[i] : i \in I}
    BY <1>6, <1>9, <2>1 DEF ToSet
  <2>4. \A i \in I : s[i] \in ToSet(t)
    <3> TAKE i \in I
    <3>1. PICK j \in 1 .. n : p[j] = i
      BY <2>2
    <3> QED BY <1>9, <2>1, <3>1 DEF ToSet
  <2> QED BY <2>3, <2>4
<1> QED BY <1>2, <1>3, <1>4, <1>6, <1>8, <1>9, <1>10 DEF t, p, n

(* A place behind all others is added at the end.                          *)
LEMMA ThoseMore ==
    ASSUME NEW X, NEW s \in Seq(X), NEW I \in SUBSET DOMAIN s,
           NEW m \in DOMAIN s, \A i \in I : i < m
    PROVE  Those(s, I \cup {m}) = Append(Those(s, I), s[m])
<1> DEFINE n == Cardinality(I)
           p == Ordered(I)
           J == I \cup {m}
           q == [i \in 1 .. n + 1 |-> IF i = n + 1 THEN m ELSE p[i]]
           t == Those(s, I)
<1>1. /\ IsFiniteSet(I) /\ I \in SUBSET Int /\ n \in Nat
      /\ Ranks(I, p) /\ t \in Seq(X) /\ Len(t) = n
      /\ \A i \in 1 .. n : t[i] = s[p[i]]
  BY ThoseAre
<1>2. m \in Int /\ J \in SUBSET Int /\ IsFiniteSet(J)
  <2>1. m \in Int
    OBVIOUS
  <2>2. IsFiniteSet(J)
    BY <1>1, FS_AddElement
  <2> QED BY <1>1, <2>1, <2>2
<1>3. /\ \A i \in 1 .. n : p[i] \in I /\ p[i] \in Int
      /\ \A i, j \in 1 .. n : i < j => p[i] < p[j]
      /\ \A x \in I : \E i \in 1 .. n : p[i] = x
  BY <1>1 DEF Ranks
<1> HIDE DEF p, n, t
<1>4. \A i \in 1 .. n + 1 : i = n + 1 \/ i \in 1 .. n
  BY <1>1
<1>5. \A i \in 1 .. n : i \in 1 .. n + 1 /\ i # n + 1
  BY <1>1
<1>6. q[n + 1] = m /\ \A i \in 1 .. n : q[i] = p[i]
  BY <1>1, <1>5
<1>7. q \in [1 .. n + 1 -> J]
  BY <1>1, <1>3, <1>4
<1>8. DOMAIN q = 1 .. n + 1
  OBVIOUS
<1> HIDE DEF q
<1>9. ASSUME NEW i \in 1 .. n + 1, NEW j \in 1 .. n + 1, i < j PROVE q[i] < q[j]
  <2>1. i \in 1 .. n
    BY <1>1, <1>9
  <2>2. CASE j = n + 1
    BY <1>3, <1>6, <2>1, <2>2
  <2>3. CASE j # n + 1
    BY <1>3, <1>4, <1>6, <1>9, <2>1, <2>3
  <2> QED BY <2>2, <2>3
<1>10. ASSUME NEW x \in J PROVE \E i \in 1 .. n + 1 : q[i] = x
  <2>1. CASE x = m
    BY <1>1, <1>6, <2>1
  <2>2. CASE x # m
    <3>1. PICK i \in 1 .. n : p[i] = x
      BY <1>3, <2>2
    <3> QED BY <1>5, <1>6, <3>1
  <2> QED BY <2>1, <2>2
<1>11. n + 1 = Cardinality(J) /\ Ordered(J) = q
  <2>1. n + 1 \in Nat
    BY <1>1
  <2> HIDE DEF J
  <2> QED BY <1>2, <1>7, <1>9, <1>10, <2>1, RanksSame
<1>12. Those(s, J) = [i \in 1 .. n + 1 |-> s[q[i]]]
  BY <1>8, <1>11 DEF Those
<1>13. Append(t, s[m]) = [i \in 1 .. n + 1 |-> s[q[i]]]
  <2>1. Append(t, s[m]) = [i \in 1 .. n + 1 |-> IF i = n + 1 THEN s[m] ELSE t[i]]
    <3>1. t = [i \in 1 .. n |-> t[i]]
      BY <1>1
    <3> DEFINE e == s[m]
               u == Append(t, e)
    <3>2. e \in X
      OBVIOUS
    <3> HIDE DEF e
    <3>3. u \in Seq(X) /\ Len(u) = n + 1 /\ u[n + 1] = e /\ \A i \in 1 .. n : u[i] = t[i]
      BY <1>1, <3>2
    <3>4. DOMAIN u = 1 .. n + 1
      BY <1>1, <3>3
    <3> HIDE DEF u
    <3>5. u = [i \in 1 .. n + 1 |-> u[i]]
      <4>1. u \in [1 .. Len(u) -> X]
        BY <3>3
      <4> QED BY <3>3, <4>1
    <3>6. \A i \in 1 .. n + 1 : u[i] = IF i = n + 1 THEN e ELSE t[i]
      BY <1>4, <3>3
    <3>7. u = [i \in 1 .. n + 1 |-> IF i = n + 1 THEN e ELSE t[i]]
      BY <3>5, <3>6
    <3> QED BY <3>7 DEF u, e
  <2>2. \A i \in 1 .. n + 1 : s[q[i]] = IF i = n + 1 THEN s[m] ELSE t[i]
    BY <1>1, <1>4, <1>6
  <2> QED BY <2>1, <2>2
<1> QED BY <1>12, <1>13 DEF t

(* No place, and every place.                                              *)
LEMMA ThoseNone == ASSUME NEW s PROVE Those(s, {}) = <<>>
<1>1. Cardinality({}) = 0
  BY FS_EmptySet
<1>2. Ordered({}) = <<>>
  BY <1>1 DEF Ordered
<1> QED BY <1>2 DEF Those

LEMMA ThoseAll ==
    ASSUME NEW X, NEW s \in Seq(X)
    PROVE  Those(s, DOMAIN s) = s
<1> DEFINE n == Len(s)
           q == [i \in 1 .. n |-> i]
<1>1. n \in Nat /\ DOMAIN s = 1 .. n /\ IsFiniteSet(1 .. n) /\ 1 .. n \in SUBSET Int
  BY FS_Interval
<1>2. /\ q \in [1 .. n -> 1 .. n] /\ \A i, j \in 1 .. n : i < j => q[i] < q[j]
      /\ \A x \in 1 .. n : \E i \in 1 .. n : q[i] = x
  OBVIOUS
<1>3. DOMAIN q = 1 .. n /\ \A i \in 1 .. n : q[i] = i
  OBVIOUS
<1> HIDE DEF q
<1>4. Ordered(1 .. n) = q
  BY <1>1, <1>2, RanksSame
<1>5. Those(s, 1 .. n) = [i \in 1 .. n |-> s[q[i]]]
  BY <1>3, <1>4 DEF Those
<1>6. [i \in 1 .. n |-> s[q[i]]] = s
  BY <1>1, <1>3
<1> QED BY <1>1, <1>5, <1>6

Ops == Changes \cup {"abort", "commit", "checkpoint"}
NwRecs == [lsn : Nat, op : Ops, key : NwKeys \cup {0}, val : Nat, whole : BOOLEAN]
Accs == [aborted : BOOLEAN, out : Seq(NwRecs)]
NoAcc == [aborted |-> FALSE, out |-> <<>>]

LEMMA NoAccOK == NoAcc \in Accs
<1>1. <<>> \in Seq(NwRecs)
  OBVIOUS
<1> QED BY <1>1 DEF NoAcc, Accs

LEMMA ReplayStepOK ==
    ASSUME NEW acc \in Accs, NEW r \in NwRecs
    PROVE  ReplayStep(acc, r) \in Accs
<1> DEFINE o == acc.out
           x == Append(o, r)
           b == r.op = "abort"
<1>1. acc = [aborted |-> acc.aborted, out |-> o] /\ acc.aborted \in BOOLEAN /\ o \in Seq(NwRecs)
  BY DEF Accs
<1>2. x \in Seq(NwRecs) /\ b \in BOOLEAN
  BY <1>1
<1> HIDE DEF x, b, o
<1>3. CASE r.op \in Changes
  <2>1. ReplayStep(acc, r) = [aborted |-> acc.aborted, out |-> IF acc.aborted THEN o ELSE x]
    BY <1>1, <1>3 DEF ReplayStep, x, o
  <2> QED BY <1>1, <1>2, <2>1 DEF Accs
<1>4. CASE r.op \notin Changes
  <2>1. ReplayStep(acc, r) = [aborted |-> b, out |-> o]
    BY <1>1, <1>4 DEF ReplayStep, b
  <2> QED BY <1>1, <1>2, <2>1 DEF Accs
<1> QED BY <1>3, <1>4

(* The replay goes record by record.                                       *)
LEMMA ReplaySolved ==
    ASSUME NEW seq \in Seq(NwRecs)
    PROVE  \E g \in [0 .. Len(seq) -> Accs] :
              /\ g[0] = NoAcc
              /\ \A k \in 1 .. Len(seq) : g[k] = ReplayStep(g[k - 1], seq[k])
              /\ FoldLeft(ReplayStep, NoAcc, seq) = g[Len(seq)]
<1> DEFINE n == Len(seq)
           f == [p \in (1 .. n) \X Accs |-> ReplayStep(p[2], seq[p[1]])]
           Step(g, s) == IF s = {} THEN NoAcc ELSE ReplayStep(g[s \ {Max(s)}], seq[Max(s)])
           Solves(g, d) == g = [s \in SUBSET d |-> Step(g, s)]
           iter == CHOOSE g : Solves(g, DOMAIN seq)
<1>1. FoldLeft(ReplayStep, NoAcc, seq) = iter[DOMAIN seq]
  BY DEF FoldLeft, MapThenFoldSet
<1>2. DOMAIN seq = 1 .. n /\ n \in Nat /\ \A k \in 1 .. n : seq[k] \in NwRecs
  OBVIOUS
<1>3. \A k \in 1 .. n, x \in Accs : f[<<k, x>>] = ReplayStep(x, seq[k])
  OBVIOUS
<1>4. StaysIn(n, Accs, f)
  <2> HIDE DEF f
  <2> QED BY <1>2, <1>3, ReplayStepOK DEF StaysIn
<1> HIDE DEF f, n
<1>5. PICK h : Folds(h, n, Accs, NoAcc, f)
  BY <1>2, <1>4, NoAccOK, FoldSolved
<1>6. \A s \in SUBSET (1 .. n) : h[s] = Step(h, s)
  <2> TAKE s \in SUBSET (1 .. n)
  <2>1. CASE s = {}
    BY <1>5, <2>1 DEF Folds
  <2>2. CASE s # {}
    <3>1. Max(s) \in 1 .. n
      <4>1. s \in SUBSET (0 .. n)
        OBVIOUS
      <4> QED BY <1>2, <2>2, <4>1, MaxIsMember
    <3>2. s \ {Max(s)} \in SUBSET (1 .. n)
      OBVIOUS
    <3>3. h[s \ {Max(s)}] \in Accs /\ h[s] = f[<<Max(s), h[s \ {Max(s)}]>>]
      BY <1>5, <2>2, <3>2 DEF Folds
    <3> QED BY <1>3, <2>2, <3>1, <3>3
  <2> QED BY <2>1, <2>2
<1>7. Solves(iter, 1 .. n)
  <2>1. h = [s \in SUBSET (1 .. n) |-> h[s]]
    BY <1>5 DEF Folds
  <2>2. Solves(h, 1 .. n)
    <3> HIDE DEF Step
    <3> QED BY <1>6, <2>1
  <2> HIDE DEF Solves
  <2> QED BY <1>2, <2>2
<1> HIDE DEF iter
<1>8. \A s \in SUBSET (1 .. n) : iter[s] = Step(iter, s)
  <2> HIDE DEF Step
  <2> QED BY <1>7
<1> DEFINE g == [k \in 0 .. n |-> iter[1 .. k]]
<1>9. g[0] = NoAcc
  <2>1. 1 .. 0 = {} /\ {} \in SUBSET (1 .. n) /\ 0 \in 0 .. n
    BY <1>2
  <2>2. iter[{}] = NoAcc
    BY <1>8, <2>1
  <2>3. g[0] = iter[1 .. 0]
    BY <2>1
  <2> HIDE DEF g
  <2> QED BY <2>1, <2>2, <2>3
<1>10. ASSUME NEW k \in 1 .. n PROVE g[k] = ReplayStep(g[k - 1], seq[k])
  <2>1. k \in 0 .. n /\ k - 1 \in 0 .. n /\ k \in Nat /\ 1 .. k \in SUBSET (1 .. n) /\ k \in 1 .. k
    BY <1>2
  <2>2. Max(1 .. k) = k
    BY <2>1, MaxOfTop
  <2>3. (1 .. k) \ {k} = 1 .. k - 1
    BY <2>1
  <2>4. iter[1 .. k] = ReplayStep(iter[1 .. k - 1], seq[k])
    BY <1>8, <2>1, <2>2, <2>3
  <2>5. g[k] = iter[1 .. k] /\ g[k - 1] = iter[1 .. k - 1]
    BY <2>1
  <2> HIDE DEF g
  <2> QED BY <2>4, <2>5
<1>11. g[n] = iter[1 .. n] /\ DOMAIN g = 0 .. n /\ g = [k \in 0 .. n |-> g[k]]
  BY <1>2
<1> HIDE DEF g, Solves, Step
<1>12. \A k \in 0 .. n : g[k] \in Accs
  <2> DEFINE P == {k \in 0 .. n : g[k] \in Accs}
  <2>1. 0 \in P
    BY <1>2, <1>9, NoAccOK
  <2>2. ASSUME NEW k \in 1 .. n, k - 1 \in P PROVE k \in P
    <3>1. k \in 0 .. n /\ g[k - 1] \in Accs /\ seq[k] \in NwRecs
      BY <1>2, <2>2
    <3> QED BY <1>10, <3>1, ReplayStepOK
  <2>3. \A k \in 0 .. n : k \in P
    <3> HIDE DEF P
    <3> QED BY <1>2, <2>1, <2>2, InductionUpTo
  <2> QED BY <2>3
<1>13. g \in [0 .. n -> Accs]
  BY <1>11, <1>12
<1>14. FoldLeft(ReplayStep, NoAcc, seq) = g[n]
  BY <1>1, <1>2, <1>11
<1> QED BY <1>9, <1>10, <1>13, <1>14 DEF n

(* Where the replay begins: at the first record, or before the checkpoint. *)
StartOf(rs) ==
    LET cp == LastCheckpoint(rs)
    IN  IF cp = 0 THEN 1 ELSE SeekLsn(rs, rs[cp].lsn)

LEMMA CheckpointIs ==
    ASSUME NEW rs \in Seq(NwRecs)
    PROVE  /\ LastCheckpoint(rs) \in 0 .. Len(rs)
           /\ LastCheckpoint(rs) # 0 => rs[LastCheckpoint(rs)].op = "checkpoint"
<1> DEFINE I == {i \in 1 .. Len(rs) : rs[i].op = "checkpoint"}
<1>1. LastCheckpoint(rs) = IF I # {} THEN Max(I) ELSE 0
  BY DEF LastCheckpoint, SelectLastInSeq
<1>2. Len(rs) \in Nat /\ I \in SUBSET (0 .. Len(rs))
  OBVIOUS
<1>3. I # {} => Max(I) \in I
  <2> HIDE DEF I
  <2> QED BY <1>2, MaxIsMember
<1> QED BY <1>1, <1>2, <1>3

LEMMA StartIs ==
    ASSUME NEW rs \in Seq(NwRecs)
    PROVE  /\ StartOf(rs) \in Nat \ {0} /\ StartOf(rs) <= Len(rs) + 1
           /\ StartOf(rs) <= LastCheckpoint(rs) + 1
<1> DEFINE cp == LastCheckpoint(rs)
           n == Len(rs)
           lsn == rs[cp].lsn
           I == {i \in 1 .. Len(rs) : rs[i].lsn >= lsn}
<1>1. cp \in 0 .. n /\ n \in Nat
  BY CheckpointIs
<1>2. CASE cp = 0
  <2>1. StartOf(rs) = 1
    BY <1>2 DEF StartOf
  <2> HIDE DEF cp
  <2> QED BY <1>1, <2>1, <1>2 DEF cp
<1>3. CASE cp # 0
  <2>1. StartOf(rs) = SeekLsn(rs, lsn)
    BY <1>3 DEF StartOf
  <2>2. SeekLsn(rs, lsn) = IF I # {} THEN Min(I) ELSE 0
    BY DEF SeekLsn, SelectInSeq
  <2>3. cp \in I
    <3>1. cp \in 1 .. n
      BY <1>1, <1>3
    <3>2. rs[cp] \in NwRecs
      BY <3>1
    <3>3. lsn \in Nat /\ lsn >= lsn
      BY <3>2 DEF NwRecs
    <3> QED BY <3>1, <3>3
  <2>4. I \in SUBSET Nat /\ \A i \in I : i \in 1 .. n
    OBVIOUS
  <2> HIDE DEF I, cp, n, lsn
  <2>5. Min(I) \in I /\ Min(I) <= cp
    BY <2>3, <2>4, MinIsMember
  <2>6. Min(I) \in 1 .. n /\ StartOf(rs) = Min(I)
    BY <2>1, <2>2, <2>3, <2>4, <2>5
  <2> QED BY <1>1, <2>5, <2>6 DEF cp, n
<1> QED BY <1>2, <1>3

(* A record is dropped when the last abort before it, from the start of    *)
(* the replay on, has no commit or checkpoint after it.                    *)
Ends == {"commit", "checkpoint"}
AbortedAt(rs, from, j) ==
    \E i \in from .. j - 1 : rs[i].op = "abort" /\ \A m \in i .. j - 1 : rs[m].op \notin Ends
KeptOf(rs, from, n) == {j \in from .. n : rs[j].op \in Changes /\ ~AbortedAt(rs, from, j)}

(* One more record, and whether the next one is dropped.                   *)
LEMMA AbortedNext ==
    ASSUME NEW rs \in Seq(NwRecs), NEW from \in Nat \ {0}, NEW j \in from .. Len(rs)
    PROVE  AbortedAt(rs, from, j + 1) =
             IF rs[j].op \in Changes THEN AbortedAt(rs, from, j) ELSE rs[j].op = "abort"
<1>1. j \in Nat /\ from \in Nat /\ Len(rs) \in Nat /\ (j + 1) - 1 = j /\ j \in 1 .. Len(rs) /\ from <= j
  OBVIOUS
<1>2. rs[j].op \in Ops
  <2>1. rs[j] \in NwRecs
    BY <1>1
  <2> QED BY <2>1 DEF NwRecs
<1>3. \A i \in from .. j : i = j \/ i \in from .. j - 1
  BY <1>1
<1>4. \A i \in from .. j - 1 : i \in from .. j /\ j \in i .. j /\ \A m \in i .. j - 1 : m \in i .. j
  BY <1>1
<1>5. \A i \in from .. j - 1 : \A m \in i .. j : m = j \/ m \in i .. j - 1
  BY <1>1
<1>6. CASE rs[j].op \in Changes
  <2>1. rs[j].op \notin Ends /\ rs[j].op # "abort"
    BY <1>6 DEF Ends, Changes
  <2>2. ASSUME AbortedAt(rs, from, j + 1) PROVE AbortedAt(rs, from, j)
    <3>1. PICK i \in from .. j : rs[i].op = "abort" /\ \A m \in i .. j : rs[m].op \notin Ends
      BY <1>1, <2>2 DEF AbortedAt
    <3>2. i \in from .. j - 1
      BY <1>3, <2>1, <3>1
    <3> QED BY <1>4, <3>1, <3>2 DEF AbortedAt
  <2>3. ASSUME AbortedAt(rs, from, j) PROVE AbortedAt(rs, from, j + 1)
    <3>1. PICK i \in from .. j - 1 : rs[i].op = "abort" /\ \A m \in i .. j - 1 : rs[m].op \notin Ends
      BY <2>3 DEF AbortedAt
    <3>2. i \in from .. j /\ \A m \in i .. j : rs[m].op \notin Ends
      BY <1>4, <1>5, <2>1, <3>1
    <3> QED BY <1>1, <3>1, <3>2 DEF AbortedAt
  <2>4. AbortedAt(rs, from, j) \in BOOLEAN /\ AbortedAt(rs, from, j + 1) \in BOOLEAN
    BY DEF AbortedAt
  <2>5. AbortedAt(rs, from, j) = AbortedAt(rs, from, j + 1)
    <3> HIDE DEF AbortedAt
    <3> QED BY <2>2, <2>3, <2>4
  <2> QED BY <1>6, <2>5
<1>7. CASE rs[j].op = "abort"
  <2>1. \A m \in j .. j : m = j
    BY <1>1
  <2>2. rs[j].op \notin Ends /\ rs[j].op \notin Changes /\ j \in from .. j
    BY <1>1, <1>7 DEF Ends, Changes
  <2>3. AbortedAt(rs, from, j + 1)
    BY <1>1, <1>7, <2>1, <2>2 DEF AbortedAt
  <2> QED BY <1>7, <2>2, <2>3
<1>8. CASE rs[j].op \in Ends
  <2>1. rs[j].op # "abort" /\ rs[j].op \notin Changes
    BY <1>8 DEF Ends, Changes
  <2>2. \A i \in from .. j : j \in i .. j
    BY <1>1
  <2>3. ~AbortedAt(rs, from, j + 1)
    BY <1>1, <1>8, <2>2 DEF AbortedAt
  <2>4. AbortedAt(rs, from, j + 1) = FALSE /\ (rs[j].op = "abort") = FALSE
    BY <2>1, <2>3
  <2> QED BY <2>1, <2>4
<1> QED BY <1>2, <1>6, <1>7, <1>8 DEF Ops, Ends

LEMMA KeptNext ==
    ASSUME NEW rs \in Seq(NwRecs), NEW from \in Nat \ {0}, NEW j \in from .. Len(rs)
    PROVE  KeptOf(rs, from, j) = IF rs[j].op \in Changes /\ ~AbortedAt(rs, from, j)
                                 THEN KeptOf(rs, from, j - 1) \cup {j} ELSE KeptOf(rs, from, j - 1)
<1>1. \A i \in from .. j : i = j \/ i \in from .. j - 1
  OBVIOUS
<1>2. j \in from .. j /\ j \notin from .. j - 1 /\ \A i \in from .. j - 1 : i \in from .. j
  OBVIOUS
<1> HIDE DEF AbortedAt
<1> QED BY <1>1, <1>2 DEF KeptOf

(* What is handed to the callback are the updates that are not dropped.    *)
LEMMA ReplayedAre ==
    ASSUME NEW rs \in Seq(NwRecs)
    PROVE  Replayed(rs) = Those(rs, KeptOf(rs, StartOf(rs), Len(rs)))
<1> DEFINE n == Len(rs)
           from == StartOf(rs)
           seq == SubSeq(rs, from, n)
           m == n - from + 1
           Place(k) == from + k - 1
           Kept(k) == KeptOf(rs, from, Place(k))
<1>1. n \in Nat /\ from \in Nat \ {0} /\ from <= n + 1 /\ DOMAIN rs = 1 .. n
  BY StartIs
<1>2. Replayed(rs) = FoldLeft(ReplayStep, NoAcc, seq).out
  <2>1. Replayed(rs) = FoldLeft(ReplayStep, NoAcc, IF from = 0 THEN <<>> ELSE seq).out
    BY DEF Replayed, StartOf, NoAcc
  <2> QED BY <1>1, <2>1
<1> HIDE DEF n, from
<1>3. seq \in Seq(NwRecs) /\ Len(seq) = m /\ m \in Nat /\ \A k \in 1 .. m : seq[k] = rs[Place(k)]
  BY <1>1 DEF n
<1> HIDE DEF seq
<1>4. PICK g \in [0 .. m -> Accs] :
         /\ g[0] = NoAcc
         /\ \A k \in 1 .. m : g[k] = ReplayStep(g[k - 1], seq[k])
         /\ FoldLeft(ReplayStep, NoAcc, seq) = g[m]
  BY <1>3, ReplaySolved
<1> DEFINE P == {k \in 0 .. m : /\ g[k].out = Those(rs, Kept(k))
                                /\ g[k].aborted = AbortedAt(rs, from, Place(k + 1))}
<1>5. 0 \in P
  <2>1. from .. Place(0) = {} /\ Place(1) = from /\ from .. from - 1 = {} /\ 0 \in 0 .. m
    BY <1>1, <1>3
  <2>2. Kept(0) = {}
    BY <2>1 DEF KeptOf
  <2>3. AbortedAt(rs, from, from) = FALSE
    BY <2>1 DEF AbortedAt
  <2>4. g[0].out = <<>> /\ g[0].aborted = FALSE
    BY <1>4 DEF NoAcc
  <2>5. Those(rs, {}) = <<>>
    BY ThoseNone
  <2>6. 0 + 1 = 1
    OBVIOUS
  <2> HIDE DEF Kept, Place
  <2> QED BY <2>1, <2>2, <2>3, <2>4, <2>5, <2>6
<1>6. ASSUME NEW k \in 1 .. m, k - 1 \in P PROVE k \in P
  <2> DEFINE j == Place(k)
  <2>1. /\ j \in from .. n /\ j \in 1 .. n /\ j \in Nat
        /\ Place(k + 1) = j + 1 /\ Place(k - 1) = j - 1 /\ Place((k - 1) + 1) = j /\ k \in 0 .. m
    <3>1. k \in Nat /\ k \in 0 .. m /\ m \in Nat /\ 1 <= k /\ k <= m
      BY <1>3
    <3>2. j \in from .. n /\ j \in 1 .. n /\ j \in Nat
      BY <1>1, <3>1
    <3>3. Place(k + 1) = j + 1 /\ Place(k - 1) = j - 1 /\ Place((k - 1) + 1) = j
      BY <1>1, <3>1
    <3> QED BY <3>1, <3>2, <3>3
  <2>2. /\ g[k - 1].out = Those(rs, KeptOf(rs, from, j - 1))
        /\ g[k - 1].aborted = AbortedAt(rs, from, j)
    <3> HIDE DEF Place
    <3> QED BY <1>6, <2>1
  <2>3. g[k] = ReplayStep(g[k - 1], rs[j])
    BY <1>3, <1>4
  <2> HIDE DEF j, P, Place
  <2>4. /\ g[k - 1] \in Accs
    <3>1. k - 1 \in 0 .. m
      BY <1>3
    <3> QED BY <1>4, <3>1
  <2>5. KeptOf(rs, from, j - 1) \in SUBSET DOMAIN rs /\ \A i \in KeptOf(rs, from, j - 1) : i < j
    <3>1. \A i \in from .. j - 1 : i \in 1 .. n /\ i < j
      BY <1>1, <2>1
    <3> QED BY <1>1, <3>1 DEF KeptOf
  <2>6. g[k].out = Those(rs, KeptOf(rs, from, j))
    <3>1. KeptOf(rs, from, j) = IF rs[j].op \in Changes /\ ~AbortedAt(rs, from, j)
                                THEN KeptOf(rs, from, j - 1) \cup {j} ELSE KeptOf(rs, from, j - 1)
      BY <1>1, <2>1, KeptNext DEF n
    <3>2. Those(rs, KeptOf(rs, from, j - 1) \cup {j}) = Append(Those(rs, KeptOf(rs, from, j - 1)), rs[j])
      BY <1>1, <2>1, <2>5, ThoseMore
    <3>3. g[k].out = IF rs[j].op \in Changes /\ ~AbortedAt(rs, from, j)
                     THEN Append(g[k - 1].out, rs[j]) ELSE g[k - 1].out
      BY <2>2, <2>3, <2>4 DEF ReplayStep, Accs
    <3> QED BY <2>2, <3>1, <3>2, <3>3
  <2>7. g[k].aborted = AbortedAt(rs, from, j + 1)
    <3>1. AbortedAt(rs, from, j + 1) =
             IF rs[j].op \in Changes THEN AbortedAt(rs, from, j) ELSE rs[j].op = "abort"
      BY <1>1, <2>1, AbortedNext DEF n
    <3>2. g[k].aborted = IF rs[j].op \in Changes THEN g[k - 1].aborted ELSE rs[j].op = "abort"
      BY <2>3, <2>4 DEF ReplayStep, Accs
    <3> QED BY <2>2, <3>1, <3>2
  <2>8. Kept(k) = KeptOf(rs, from, j)
    BY DEF j
  <2> QED BY <2>1, <2>6, <2>7, <2>8 DEF P
<1>7. m \in P
  <2>1. m \in 0 .. m
    BY <1>3
  <2> HIDE DEF P
  <2> QED BY <1>3, <1>5, <1>6, <2>1, InductionUpTo
<1>8. Place(m) = n
  BY <1>1
<1>9. g[m].out = Those(rs, KeptOf(rs, from, n))
  BY <1>7, <1>8
<1> QED BY <1>2, <1>4, <1>9 DEF n, from

(* What the last of some updates of a key makes of it.                     *)
Made(r) == IF r.op = "delete" THEN 0 ELSE r.val
Final(s, k, i) == i \in DOMAIN s /\ s[i].key = k /\ \A j \in DOMAIN s : j > i => s[j].key # k
Without(s, k) == \A i \in DOMAIN s : s[i].key # k

LEMMA StateIs ==
    ASSUME NEW s \in Seq(NwRecs), NEW k \in NwKeys
    PROVE  /\ Without(s, k) => StateAfter(s)[k] = 0
           /\ \A i : Final(s, k, i) => StateAfter(s)[k] = Made(s[i])
<1> DEFINE I == {i \in 1 .. Len(s) : s[i].key = k}
           m == SelectLastInSeq(s, LAMBDA r : r.key = k)
<1>1. m = IF I # {} THEN Max(I) ELSE 0
  BY DEF SelectLastInSeq
<1>2. StateAfter(s)[k] = IF m = 0 \/ s[m].op = "delete" THEN 0 ELSE s[m].val
  BY DEF StateAfter
<1>3. Len(s) \in Nat /\ I \in SUBSET (0 .. Len(s)) /\ DOMAIN s = 1 .. Len(s)
  OBVIOUS
<1> HIDE DEF m
<1>4. ASSUME Without(s, k) PROVE StateAfter(s)[k] = 0
  <2>1. I = {}
    BY <1>3, <1>4 DEF Without
  <2> QED BY <1>1, <1>2, <2>1
<1>5. ASSUME NEW i, Final(s, k, i) PROVE StateAfter(s)[k] = Made(s[i])
  <2>1. i \in I /\ i # 0
    BY <1>3, <1>5 DEF Final
  <2>2. \A j \in I : ~(j > i) /\ j \in Nat
    BY <1>3, <1>5 DEF Final
  <2> HIDE DEF I
  <2>3. Max(I) \in I /\ i <= Max(I)
    BY <1>3, <2>1, MaxIsMember
  <2>4. Max(I) = i
    BY <2>1, <2>2, <2>3
  <2> QED BY <1>1, <1>2, <2>1, <2>4 DEF Made
<1> QED BY <1>4, <1>5

(* Every key is in no update, or in a last one.                            *)
LEMMA FinalExists ==
    ASSUME NEW s \in Seq(NwRecs), NEW k
    PROVE  Without(s, k) \/ \E i : Final(s, k, i)
<1> DEFINE I == {i \in 1 .. Len(s) : s[i].key = k}
<1>1. Len(s) \in Nat /\ I \in SUBSET (0 .. Len(s)) /\ DOMAIN s = 1 .. Len(s)
  OBVIOUS
<1>2. I = {} => Without(s, k)
  BY <1>1 DEF Without
<1>3. ASSUME I # {} PROVE \E i : Final(s, k, i)
  <2>1. PICK i \in I : \A j \in I : j <= i
    <3> HIDE DEF I
    <3> QED BY <1>1, <1>3, GreatestExists
  <2>2. i \in DOMAIN s /\ s[i].key = k /\ i \in Nat
    BY <1>1
  <2>3. ASSUME NEW j \in DOMAIN s, j > i PROVE s[j].key # k
    <3>1. j \in 1 .. Len(s) /\ j \in Nat /\ ~(j <= i)
      BY <1>1, <2>2, <2>3
    <3>2. j \notin I
      BY <2>1, <3>1
    <3> QED BY <3>1, <3>2
  <2> QED BY <2>2, <2>3 DEF Final
<1> QED BY <1>2, <1>3

(* The updates of a second row come over those of the first.               *)
LEMMA StateOfTwo ==
    ASSUME NEW a \in Seq(NwRecs), NEW b \in Seq(NwRecs), NEW k \in NwKeys
    PROVE  StateAfter(a \o b)[k] = IF Without(b, k) THEN StateAfter(a)[k] ELSE StateAfter(b)[k]
<1> DEFINE c == a \o b
           x == Len(a)
           y == Len(b)
<1>1. /\ x \in Nat /\ y \in Nat /\ DOMAIN a = 1 .. x /\ DOMAIN b = 1 .. y
      /\ c \in Seq(NwRecs) /\ Len(c) = x + y /\ DOMAIN c = 1 .. x + y
      /\ \A i \in 1 .. x : c[i] = a[i]
      /\ \A i \in 1 .. y : c[x + i] = b[i]
  OBVIOUS
<1> HIDE DEF c, x, y
<1>2. /\ \A j \in 1 .. x : j \in 1 .. x + y /\ \A i \in 1 .. y : x + i > j
      /\ \A i \in 1 .. y : x + i \in 1 .. x + y
      /\ \A j \in 1 .. x + y : j \in 1 .. x \/ \E i \in 1 .. y : j = x + i
  <2>1. ASSUME NEW j \in 1 .. x + y PROVE j \in 1 .. x \/ \E i \in 1 .. y : j = x + i
    <3>1. CASE j <= x
      BY <1>1, <3>1
    <3>2. CASE ~(j <= x)
      <4>1. j - x \in 1 .. y /\ j = x + (j - x)
        BY <1>1, <3>2
      <4> QED BY <4>1
    <3> QED BY <3>1, <3>2
  <2>2. \A i \in 1 .. y : x + i \in 1 .. x + y
    BY <1>1
  <2>3. \A j \in 1 .. x : j \in 1 .. x + y /\ \A i \in 1 .. y : x + i > j
    BY <1>1
  <2> QED BY <2>1, <2>2, <2>3
<1>3. ASSUME NEW i, Final(b, k, i) PROVE Final(c, k, x + i)
  <2>1. i \in 1 .. y /\ b[i].key = k /\ \A j \in 1 .. y : j > i => b[j].key # k
    BY <1>1, <1>3 DEF Final
  <2>2. x + i \in DOMAIN c /\ c[x + i].key = k
    BY <1>1, <1>2, <2>1
  <2>3. ASSUME NEW j \in DOMAIN c, j > x + i PROVE c[j].key # k
    <3>1. j - x \in 1 .. y /\ x + (j - x) = j /\ j - x > i
      BY <1>1, <2>1, <2>3
    <3>2. c[x + (j - x)] = b[j - x]
      BY <1>1, <3>1
    <3> QED BY <2>1, <3>1, <3>2
  <2> QED BY <2>2, <2>3 DEF Final
<1>4. ASSUME NEW i, Final(a, k, i), Without(b, k) PROVE Final(c, k, i)
  <2>1. i \in 1 .. x /\ a[i].key = k /\ \A j \in 1 .. x : j > i => a[j].key # k
    BY <1>1, <1>4 DEF Final
  <2>2. \A j \in 1 .. y : b[j].key # k
    BY <1>1, <1>4 DEF Without
  <2>3. i \in DOMAIN c /\ c[i].key = k
    BY <1>1, <1>2, <2>1
  <2>4. ASSUME NEW j \in 1 .. x + y, j > i PROVE c[j].key # k
    <3>1. CASE j \in 1 .. x
      BY <1>1, <2>1, <2>4, <3>1
    <3>2. ASSUME NEW l \in 1 .. y, j = x + l PROVE c[j].key # k
      BY <1>1, <2>2, <3>2
    <3> QED BY <1>2, <3>1, <3>2
  <2> QED BY <1>1, <2>3, <2>4 DEF Final
<1>5. ASSUME Without(a, k), Without(b, k) PROVE Without(c, k)
  <2>1. ASSUME NEW j \in 1 .. x + y PROVE c[j].key # k
    <3>1. CASE j \in 1 .. x
      BY <1>1, <1>5, <3>1 DEF Without
    <3>2. ASSUME NEW l \in 1 .. y, j = x + l PROVE c[j].key # k
      BY <1>1, <1>5, <3>2 DEF Without
    <3> QED BY <1>2, <3>1, <3>2
  <2> QED BY <1>1, <2>1 DEF Without
<1>6. CASE Without(b, k)
  <2>1. CASE Without(a, k)
    <3>1. StateAfter(c)[k] = 0 /\ StateAfter(a)[k] = 0
      BY <1>1, <1>5, <1>6, <2>1, StateIs
    <3> QED BY <1>6, <3>1 DEF c
  <2>2. ASSUME NEW i, Final(a, k, i) PROVE StateAfter(c)[k] = StateAfter(a)[k]
    <3>1. c[i] = a[i] /\ Final(c, k, i)
      BY <1>1, <1>4, <1>6, <2>2 DEF Final
    <3>2. StateAfter(c)[k] = Made(c[i]) /\ StateAfter(a)[k] = Made(a[i])
      BY <1>1, <2>2, <3>1, StateIs
    <3> QED BY <3>1, <3>2
  <2> QED BY <1>6, <2>1, <2>2, FinalExists DEF c
<1>7. CASE ~Without(b, k)
  <2>1. PICK i : Final(b, k, i)
    BY <1>7, FinalExists
  <2>2. c[x + i] = b[i] /\ Final(c, k, x + i)
    BY <1>1, <1>3, <2>1 DEF Final
  <2>3. StateAfter(c)[k] = Made(c[x + i]) /\ StateAfter(b)[k] = Made(b[i])
    BY <1>1, <2>1, <2>2, StateIs
  <2> QED BY <1>7, <2>2, <2>3 DEF c
<1> QED BY <1>6, <1>7

(* The same for the updates at some places.                                *)
LastPlace(rs, I, k, i) == i \in I /\ rs[i].key = k /\ \A j \in I : j > i => rs[j].key # k

LEMMA StateOfThose ==
    ASSUME NEW rs \in Seq(NwRecs), NEW I \in SUBSET DOMAIN rs, NEW k \in NwKeys
    PROVE  /\ (\A i \in I : rs[i].key # k) <=> Without(Those(rs, I), k)
           /\ Without(Those(rs, I), k) => StateAfter(Those(rs, I))[k] = 0
           /\ \A i : LastPlace(rs, I, k, i) => StateAfter(Those(rs, I))[k] = Made(rs[i])
<1> DEFINE t == Those(rs, I)
           n == Cardinality(I)
           p == Ordered(I)
<1>1. /\ n \in Nat /\ I \in SUBSET Int /\ Ranks(I, p)
      /\ t \in Seq(NwRecs) /\ Len(t) = n /\ \A i \in 1 .. n : t[i] = rs[p[i]]
  BY ThoseAre
<1>2. /\ p \in [1 .. n -> I] /\ \A i, j \in 1 .. n : i < j => p[i] < p[j]
      /\ \A x \in I : \E i \in 1 .. n : p[i] = x
  BY <1>1 DEF Ranks
<1> HIDE DEF t, n, p
<1>3. DOMAIN t = 1 .. n
  BY <1>1
<1>4. (\A i \in I : rs[i].key # k) <=> Without(t, k)
  <2>1. ASSUME \A i \in I : rs[i].key # k, NEW x \in 1 .. n PROVE t[x].key # k
    BY <1>1, <1>2, <2>1
  <2>2. ASSUME \A x \in 1 .. n : t[x].key # k, NEW i \in I PROVE rs[i].key # k
    <3>1. PICK x \in 1 .. n : p[x] = i
      BY <1>2
    <3> QED BY <1>1, <2>2, <3>1
  <2> QED BY <1>3, <2>1, <2>2 DEF Without
<1>5. ASSUME NEW i, LastPlace(rs, I, k, i) PROVE StateAfter(t)[k] = Made(rs[i])
  <2>1. i \in I /\ rs[i].key = k /\ \A j \in I : j > i => rs[j].key # k
    BY <1>5 DEF LastPlace
  <2>2. PICK x \in 1 .. n : p[x] = i
    BY <1>2, <2>1
  <2>3. t[x] = rs[i]
    BY <1>1, <2>2
  <2>4. ASSUME NEW y \in 1 .. n, y > x PROVE t[y].key # k
    <3>1. p[y] \in I /\ p[x] < p[y]
      BY <1>2, <2>4
    <3>2. p[y] > i
      BY <1>1, <2>1, <2>2, <3>1
    <3> QED BY <1>1, <2>1, <3>1, <3>2
  <2>5. Final(t, k, x)
    BY <1>3, <2>1, <2>3, <2>4 DEF Final
  <2> QED BY <1>1, <2>3, <2>5, StateIs
<1>6. Without(t, k) => StateAfter(t)[k] = 0
  BY <1>1, StateIs
<1> QED BY <1>4, <1>5, <1>6 DEF t

(* With no abort, the state of the checkpoint and the replay make what all *)
(* the updates make.                                                       *)
LEMMA StateRebuilt ==
    ASSUME NEW rs \in Seq(NwRecs), \A r \in ToSet(rs) : r.op # "abort"
    PROVE  StateAfter(UpdatesIn(rs, 1, LastCheckpoint(rs)) \o Replayed(rs))
             = StateAfter(UpdatesIn(rs, 1, Len(rs)))
<1> DEFINE n == Len(rs)
           cp == LastCheckpoint(rs)
           from == StartOf(rs)
           U == {i \in 1 .. n : rs[i].op \in Changes}
           A == {i \in 1 .. cp : rs[i].op \in Changes}
           J == KeptOf(rs, from, n)
           u == Those(rs, U)
           a == Those(rs, A)
           b == Those(rs, J)
<1>1. /\ n \in Nat /\ DOMAIN rs = 1 .. n /\ cp \in 0 .. n
      /\ from \in Nat \ {0} /\ from <= cp + 1
  BY CheckpointIs, StartIs
<1>2. Replayed(rs) = b /\ UpdatesIn(rs, 1, cp) = a /\ UpdatesIn(rs, 1, n) = u
  BY ReplayedAre DEF UpdatesIn
<1>3. J = {i \in from .. n : rs[i].op \in Changes}
  <2>1. \A i \in 1 .. n : rs[i].op # "abort"
    BY <1>1 DEF ToSet
  <2>2. \A j \in from .. n : ~AbortedAt(rs, from, j)
    <3>1. \A j \in from .. n : \A i \in from .. j - 1 : i \in 1 .. n
      BY <1>1
    <3> QED BY <2>1, <3>1 DEF AbortedAt
  <2> QED BY <2>2 DEF KeptOf
<1> HIDE DEF n, cp, from, J
<1>4. \A i \in U : i \in Nat /\ (i \in J <=> from <= i) /\ (i \in A <=> i <= cp)
  BY <1>1, <1>3
<1>5. U \in SUBSET DOMAIN rs /\ A \in SUBSET DOMAIN rs /\ J \in SUBSET DOMAIN rs /\ A \subseteq U /\ J \subseteq U
  <2>1. \A i \in 1 .. cp : i \in 1 .. n
    BY <1>1
  <2>2. \A i \in from .. n : i \in 1 .. n
    BY <1>1
  <2> QED BY <1>1, <1>3, <2>1, <2>2
<1> HIDE DEF U, A
<1>6. u \in Seq(NwRecs) /\ a \in Seq(NwRecs) /\ b \in Seq(NwRecs)
  BY <1>5, ThoseAre
<1>7. ASSUME NEW k \in NwKeys PROVE StateAfter(a \o b)[k] = StateAfter(u)[k]
  <2>1. /\ (\A i \in U : rs[i].key # k) <=> Without(u, k)
        /\ Without(u, k) => StateAfter(u)[k] = 0
        /\ \A i : LastPlace(rs, U, k, i) => StateAfter(u)[k] = Made(rs[i])
    BY <1>5, StateOfThose
  <2>2. /\ (\A i \in A : rs[i].key # k) <=> Without(a, k)
        /\ Without(a, k) => StateAfter(a)[k] = 0
        /\ \A i : LastPlace(rs, A, k, i) => StateAfter(a)[k] = Made(rs[i])
    BY <1>5, StateOfThose
  <2>3. /\ (\A i \in J : rs[i].key # k) <=> Without(b, k)
        /\ \A i : LastPlace(rs, J, k, i) => StateAfter(b)[k] = Made(rs[i])
    BY <1>5, StateOfThose
  <2> HIDE DEF u, a, b
  <2>4. StateAfter(a \o b)[k] = IF Without(b, k) THEN StateAfter(a)[k] ELSE StateAfter(b)[k]
    BY <1>6, StateOfTwo
  <2>5. CASE \A i \in U : rs[i].key # k
    <3>1. Without(u, k) /\ Without(a, k) /\ Without(b, k)
      BY <1>5, <2>1, <2>2, <2>3, <2>5
    <3> QED BY <2>1, <2>2, <2>4, <3>1
  <2>6. CASE ~(\A i \in U : rs[i].key # k)
    <3> DEFINE I == {i \in U : rs[i].key = k}
    <3>1. I \in SUBSET (0 .. n) /\ I # {}
      BY <1>1, <1>5, <2>6
    <3>2. PICK i \in I : \A j \in I : j <= i
      <4> HIDE DEF I
      <4> QED BY <1>1, <3>1, GreatestExists
    <3>3. i \in U /\ rs[i].key = k /\ i \in Nat
      BY <1>4
    <3>4. ASSUME NEW j \in U, j > i PROVE rs[j].key # k
      <4>1. j \in Nat /\ ~(j <= i)
        BY <1>4, <3>3, <3>4
      <4> QED BY <3>2, <4>1
    <3> HIDE DEF I
    <3>5. LastPlace(rs, U, k, i)
      BY <3>3, <3>4 DEF LastPlace
    <3>6. StateAfter(u)[k] = Made(rs[i])
      BY <2>1, <3>5
    <3>7. CASE i \in J
      <4>1. LastPlace(rs, J, k, i) /\ ~Without(b, k)
        BY <1>5, <2>3, <3>3, <3>4, <3>7 DEF LastPlace
      <4> QED BY <2>3, <2>4, <3>6, <4>1
    <3>8. CASE i \notin J
      <4>1. i \in A
        BY <1>1, <1>4, <3>3, <3>8
      <4>2. LastPlace(rs, A, k, i)
        BY <1>5, <3>3, <3>4, <4>1 DEF LastPlace
      <4>3. \A j \in J : j > i
        <5> TAKE j \in J
        <5>1. j \in U /\ j \in Nat /\ from <= j /\ ~(from <= i)
          BY <1>4, <1>5, <3>3, <3>8
        <5> QED BY <1>1, <3>3, <5>1
      <4>4. Without(b, k)
        BY <1>5, <2>3, <3>4, <4>3
      <4> QED BY <2>2, <2>4, <3>6, <4>2, <4>4
    <3> QED BY <3>7, <3>8
  <2> QED BY <2>5, <2>6
<1> HIDE DEF u, a, b
<1>8. \A s : StateAfter(s) = [k \in NwKeys |-> StateAfter(s)[k]]
  BY DEF StateAfter
<1>9. StateAfter(a \o b) = StateAfter(u)
  BY <1>7, <1>8
<1> QED BY <1>2, <1>9 DEF cp, n

(* No update behind the checkpoint is lost but what follows an abort.      *)
LEMMA NothingLost ==
    ASSUME NEW rs \in Seq(NwRecs),
           NEW r \in ToSet(UpdatesIn(rs, LastCheckpoint(rs) + 1, Len(rs)))
    PROVE  r \in ToSet(Replayed(rs)) \/ AfterAbort(rs, r)
<1> DEFINE n == Len(rs)
           cp == LastCheckpoint(rs)
           from == StartOf(rs)
           C == {i \in cp + 1 .. n : rs[i].op \in Changes}
           J == KeptOf(rs, from, n)
<1>1. /\ n \in Nat /\ DOMAIN rs = 1 .. n /\ cp \in 0 .. n
      /\ from \in Nat \ {0} /\ from <= cp + 1
  BY CheckpointIs, StartIs
<1>2. Replayed(rs) = Those(rs, J) /\ r \in ToSet(Those(rs, C))
  BY ReplayedAre DEF UpdatesIn
<1> HIDE DEF n, cp, from
<1>3. C \in SUBSET DOMAIN rs /\ J \in SUBSET DOMAIN rs
  <2>1. \A i \in cp + 1 .. n : i \in 1 .. n
    BY <1>1
  <2>2. \A i \in from .. n : i \in 1 .. n
    BY <1>1
  <2> QED BY <1>1, <2>1, <2>2 DEF KeptOf
<1>4. ToSet(Those(rs, C)) = {rs[i] : i \in C} /\ ToSet(Those(rs, J)) = {rs[i] : i \in J}
  BY <1>3, ThoseAre, ZenonT(120)
<1>5. PICK j \in C : r = rs[j]
  BY <1>2, <1>4
<1>6. j \in from .. n /\ rs[j].op \in Changes /\ j \in 1 .. n /\ j \in Nat
  BY <1>1
<1>7. CASE ~AbortedAt(rs, from, j)
  <2>1. j \in J
    BY <1>6, <1>7 DEF KeptOf
  <2> QED BY <1>2, <1>4, <1>5, <2>1
<1>8. CASE AbortedAt(rs, from, j)
  <2>1. PICK i \in from .. j - 1 : rs[i].op = "abort" /\ \A m \in i .. j - 1 : rs[m].op \notin Ends
    BY <1>8 DEF AbortedAt
  <2>2. i \in DOMAIN rs /\ j \in DOMAIN rs /\ i < j
    BY <1>1, <1>6
  <2>3. \A m \in i .. j : m = j \/ m \in i .. j - 1
    BY <1>1, <1>6
  <2>4. \A m \in i .. j : rs[m].op \notin {"commit", "checkpoint"}
    BY <1>6, <2>1, <2>3 DEF Ends, Changes
  <2> QED BY <1>5, <2>1, <2>2, <2>4 DEF AfterAbort
<1> QED BY <1>7, <1>8

(* What is handed over has the order in which it was made.                 *)
Rising(s) == \A i, j \in DOMAIN s : i < j => s[i].val < s[j].val

LEMMA RisingThose ==
    ASSUME NEW s \in Seq(NwRecs), Rising(s), NEW I \in SUBSET DOMAIN s
    PROVE  Rising(Those(s, I))
<1> DEFINE n == Cardinality(I)
           p == Ordered(I)
           t == Those(s, I)
<1>1. /\ n \in Nat /\ Ranks(I, p) /\ t \in Seq(NwRecs) /\ Len(t) = n
      /\ \A i \in 1 .. n : t[i] = s[p[i]]
  BY ThoseAre
<1>2. p \in [1 .. n -> I] /\ \A i, j \in 1 .. n : i < j => p[i] < p[j]
  BY <1>1 DEF Ranks
<1> HIDE DEF t, n, p
<1>3. DOMAIN t = 1 .. n /\ \A i \in 1 .. n : p[i] \in DOMAIN s
  BY <1>1, <1>2
<1>4. \A i, j \in 1 .. n : i < j => t[i].val < t[j].val
  BY <1>1, <1>2, <1>3 DEF Rising
<1>5. Rising(t)
  BY <1>3, <1>4 DEF Rising
<1> QED BY <1>5 DEF t

(* What is read of a disk: all of it if nothing is torn, and in any case   *)
(* what comes before the first torn record.                                *)
LEMMA ReadIs ==
    ASSUME NEW disk \in Seq(NwRecs)
    PROVE  /\ RecordsRead(disk) \in Seq(NwRecs)
           /\ Rising(disk) => Rising(RecordsRead(disk))
           /\ (\A i \in DOMAIN disk : disk[i].whole) => RecordsRead(disk) = disk
           /\ \A i \in DOMAIN disk :
                (\A j \in 1 .. i : disk[j].whole) => disk[i] \in ToSet(RecordsRead(disk))
<1> DEFINE Torn(i) == Cardinality({j \in 1 .. (i - 1) : ~disk[j].whole})
           G == {i \in DOMAIN disk : disk[i].whole /\ Torn(i) % 2 = 0}
<1>1. RecordsRead(disk) = Those(disk, G)
  BY DEF RecordsRead
<1>2. G \in SUBSET DOMAIN disk /\ DOMAIN disk = 1 .. Len(disk) /\ Len(disk) \in Nat
  OBVIOUS
<1>3. ASSUME NEW i \in DOMAIN disk, \A j \in 1 .. i : disk[j].whole PROVE i \in G
  <2>1. i \in 1 .. i /\ \A j \in 1 .. i - 1 : j \in 1 .. i
    BY <1>2
  <2>2. {j \in 1 .. (i - 1) : ~disk[j].whole} = {}
    BY <1>3, <2>1
  <2>3. Torn(i) = 0
    BY <2>2, FS_EmptySet
  <2>4. 0 % 2 = 0
    OBVIOUS
  <2> HIDE DEF Torn
  <2> QED BY <1>3, <2>1, <2>3, <2>4
<1>4. (\A i \in DOMAIN disk : disk[i].whole) => G = DOMAIN disk
  <2>1. \A i \in DOMAIN disk : \A j \in 1 .. i : j \in DOMAIN disk
    BY <1>2
  <2> HIDE DEF G
  <2> QED BY <1>2, <1>3, <2>1
<1> HIDE DEF G
<1>5. Those(disk, G) \in Seq(NwRecs) /\ ToSet(Those(disk, G)) = {disk[i] : i \in G}
  BY <1>2, ThoseAre
<1>6. Rising(disk) => Rising(Those(disk, G))
  BY <1>2, RisingThose
<1>7. G = DOMAIN disk => Those(disk, G) = disk
  BY ThoseAll
<1> QED BY <1>1, <1>3, <1>4, <1>5, <1>6, <1>7

(* The log: numbers rise along the disk and on through the buffer, and the *)
(* disk is never shorter than what was flushed to it.                      *)
NwLogs ==
    [kind : {"nwal"}, sync : BOOLEAN, disk : Seq(NwRecs), buffer : Seq(NwRecs), next : Nat,
     made : Nat, opened : Nat, kept : Nat]
Upto(s, n) == \A i \in DOMAIN s : s[i].val <= n
Over(a, b) == \A i \in DOMAIN a, j \in DOMAIN b : a[i].val < b[j].val
NwBase(w) ==
    /\ w \in NwLogs
    /\ Rising(w.disk) /\ Rising(w.buffer) /\ Over(w.disk, w.buffer)
    /\ Upto(w.disk, w.made) /\ Upto(w.buffer, w.made)
    /\ w.kept <= Len(w.disk)
NwOK(w) == NwBase(w) /\ (w.sync => w.buffer = <<>>)

LEMMA RisingConcat ==
    ASSUME NEW a \in Seq(NwRecs), NEW b \in Seq(NwRecs), NEW n \in Nat,
           Rising(a), Rising(b), Over(a, b), Upto(a, n), Upto(b, n)
    PROVE  a \o b \in Seq(NwRecs) /\ Len(a \o b) = Len(a) + Len(b) /\ Rising(a \o b) /\ Upto(a \o b, n)
<1> DEFINE c == a \o b
           x == Len(a)
           y == Len(b)
           V(s, i) == s[i].val
<1>1. /\ x \in Nat /\ y \in Nat /\ DOMAIN a = 1 .. x /\ DOMAIN b = 1 .. y
      /\ c \in Seq(NwRecs) /\ Len(c) = x + y /\ DOMAIN c = 1 .. x + y
      /\ \A i \in 1 .. x + y : c[i] = IF i <= x THEN a[i] ELSE b[i - x]
  OBVIOUS
<1> HIDE DEF c, x, y
<1>2. ASSUME NEW i \in 1 .. x + y
      PROVE  \/ i \in 1 .. x /\ c[i] = a[i]
             \/ i > x /\ i - x \in 1 .. y /\ c[i] = b[i - x]
  BY <1>1
<1>3. Upto(c, n)
  BY <1>1, <1>2 DEF Upto
<1>4. ASSUME NEW i \in 1 .. x + y, NEW j \in 1 .. x + y, i < j PROVE c[i].val < c[j].val
  <2>1. CASE i \in 1 .. x /\ c[i] = a[i]
    <3>1. CASE j \in 1 .. x /\ c[j] = a[j]
      BY <1>1, <1>4, <2>1, <3>1 DEF Rising
    <3>2. CASE j > x /\ j - x \in 1 .. y /\ c[j] = b[j - x]
      BY <1>1, <2>1, <3>2 DEF Over
    <3> QED BY <1>2, <3>1, <3>2
  <2>2. CASE i > x /\ i - x \in 1 .. y /\ c[i] = b[i - x]
    <3>1. j > x /\ j - x \in 1 .. y /\ c[j] = b[j - x] /\ i - x < j - x
      BY <1>1, <1>2, <1>4, <2>2
    <3> QED BY <1>1, <2>2, <3>1 DEF Rising
  <2> QED BY <1>2, <2>1, <2>2
<1>5. Rising(c)
  BY <1>1, <1>4 DEF Rising
<1> QED BY <1>1, <1>3, <1>5 DEF c, x, y

LEMMA NothingRises == \A a, n : /\ <<>> \in Seq(NwRecs) /\ Rising(<<>>) /\ Over(a, <<>>)
                                /\ Over(<<>>, a) /\ Upto(<<>>, n)
BY DEF Rising, Over, Upto

LEMMA FlushedOK ==
    ASSUME NEW w, NwBase(w)
    PROVE  /\ NwOK(Flushed(w)) /\ Flushed(w).sync = w.sync /\ Flushed(w).opened = w.opened
<1> DEFINE d == w.disk
           b == w.buffer
           c == d \o b
           k == Len(d) + Len(b)
           z == Flushed(w)
<1>1. w \in NwLogs /\ d \in Seq(NwRecs) /\ b \in Seq(NwRecs) /\ w.made \in Nat
  BY DEF NwBase, NwLogs
<1>2. c \in Seq(NwRecs) /\ Len(c) = k /\ Rising(c) /\ Upto(c, w.made)
  BY <1>1, RisingConcat DEF NwBase
<1>3. k \in Nat
  <2> HIDE DEF d, b
  <2> QED BY <1>1
<1>4. z = [w EXCEPT !.disk = c, !.buffer = <<>>, !.kept = k]
  BY DEF Flushed
<1> HIDE DEF c, k, d, b, z
<1>5. /\ z.disk = c /\ z.buffer = <<>> /\ z.kept = k /\ z.made = w.made
      /\ z.sync = w.sync /\ z.opened = w.opened
  BY <1>1, <1>4 DEF NwLogs
<1>6. z \in NwLogs
  BY <1>1, <1>2, <1>3, <1>4, NothingRises DEF NwLogs
<1>7. z.kept <= Len(z.disk)
  BY <1>2, <1>3, <1>5
<1>8. NwBase(z)
  BY <1>2, <1>5, <1>6, <1>7, NothingRises DEF NwBase
<1> QED BY <1>5, <1>8 DEF NwOK, z

LEMMA ReopenedOK ==
    ASSUME NEW w, NwOK(w)
    PROVE  NwOK(Reopened(w))
<1> DEFINE z == Reopened(w)
<1>1. w \in NwLogs /\ w.opened \in Nat
  BY DEF NwOK, NwBase, NwLogs
<1>2. z = [w EXCEPT !.next = 1, !.opened = w.opened + 1] /\ w.opened + 1 \in Nat /\ 1 \in Nat
  BY <1>1 DEF Reopened
<1>3. z \in NwLogs
  BY <1>1, <1>2 DEF NwLogs
<1>4. /\ z.disk = w.disk /\ z.buffer = w.buffer /\ z.kept = w.kept /\ z.made = w.made
      /\ z.sync = w.sync
  BY <1>1, <1>2 DEF NwLogs
<1> HIDE DEF z
<1>5. NwOK(z)
  BY <1>3, <1>4 DEF NwOK, NwBase
<1> QED BY <1>5 DEF z

LEMMA RecordAdded ==
    ASSUME NwOK(handle), NEW op \in Ops, NEW key \in NwKeys \cup {0}, AppendRecord(op, key)
    PROVE  NwOK(handle')
<1> DEFINE r == [lsn |-> handle.next, op |-> op, key |-> key, val |-> handle.made + 1, whole |-> TRUE]
           d == handle.disk
           b == handle.buffer
           x == Append(b, r)
           n == handle.made + 1
           w == [handle EXCEPT !.buffer = x, !.next = handle.next + 1, !.made = n]
<1>1. /\ handle \in NwLogs /\ d \in Seq(NwRecs) /\ b \in Seq(NwRecs) /\ handle.made \in Nat
      /\ handle.next \in Nat /\ Rising(d) /\ Rising(b) /\ Over(d, b)
      /\ Upto(d, handle.made) /\ Upto(b, handle.made) /\ handle.kept <= Len(d)
  BY DEF NwOK, NwBase, NwLogs
<1>2. handle' = IF w.sync THEN Flushed(w) ELSE w
  BY DEF AppendRecord
<1>3. r \in NwRecs /\ r.val = n /\ n \in Nat
  BY <1>1 DEF NwRecs
<1>4. handle.next + 1 \in Nat
  BY <1>1
<1> HIDE DEF r, d, b
<1>5. /\ x \in Seq(NwRecs) /\ Len(b) \in Nat /\ Len(x) = Len(b) + 1 /\ DOMAIN x = 1 .. Len(b) + 1
      /\ DOMAIN b = 1 .. Len(b) /\ x[Len(b) + 1] = r /\ \A i \in 1 .. Len(b) : x[i] = b[i]
  BY <1>1, <1>3
<1> HIDE DEF x
<1>6. \A i \in DOMAIN x : i = Len(b) + 1 \/ i \in 1 .. Len(b)
  BY <1>5
<1>7. \A i \in DOMAIN b : b[i].val \in Nat /\ b[i].val < n
  <2> TAKE i \in DOMAIN b
  <2>1. b[i] \in NwRecs
    BY <1>1
  <2>2. b[i].val \in Nat /\ b[i].val <= handle.made
    BY <1>1, <2>1 DEF NwRecs, Upto
  <2> QED BY <1>1, <2>2
<1>8. \A i \in DOMAIN d : d[i].val \in Nat /\ d[i].val < n
  <2> TAKE i \in DOMAIN d
  <2>1. d[i] \in NwRecs
    BY <1>1
  <2>2. d[i].val \in Nat /\ d[i].val <= handle.made
    BY <1>1, <2>1 DEF NwRecs, Upto
  <2> QED BY <1>1, <2>2
<1> HIDE DEF n
<1>9. Upto(x, n) /\ Upto(d, n)
  <2>1. \A i \in DOMAIN x : x[i].val <= n
    BY <1>3, <1>5, <1>6, <1>7
  <2>2. \A i \in DOMAIN d : d[i].val <= n
    BY <1>3, <1>8
  <2> QED BY <2>1, <2>2 DEF Upto
<1>10. Over(d, x)
  BY <1>1, <1>3, <1>5, <1>6, <1>8 DEF Over
<1>11. Rising(x)
  <2>1. ASSUME NEW i \in DOMAIN x, NEW j \in DOMAIN x, i < j PROVE x[i].val < x[j].val
    <3>1. i \in 1 .. Len(b)
      BY <1>5, <2>1
    <3>2. CASE j = Len(b) + 1
      BY <1>3, <1>5, <1>7, <3>1, <3>2
    <3>3. CASE j \in 1 .. Len(b)
      BY <1>1, <1>5, <2>1, <3>1, <3>3 DEF Rising
    <3> QED BY <1>6, <3>2, <3>3
  <2> QED BY <2>1 DEF Rising
<1>12. /\ w \in NwLogs /\ w.disk = d /\ w.buffer = x /\ w.made = n /\ w.kept = handle.kept
       /\ w.sync = handle.sync
  BY <1>1, <1>3, <1>4, <1>5 DEF NwLogs, d
<1> HIDE DEF w
<1>13. NwBase(w)
  BY <1>1, <1>9, <1>10, <1>11, <1>12 DEF NwBase
<1>14. CASE w.sync
  BY <1>2, <1>13, <1>14, FlushedOK
<1>15. CASE ~w.sync
  BY <1>2, <1>13, <1>15 DEF NwOK
<1> QED BY <1>14, <1>15

(* What a crash leaves of the buffer rises as the buffer did.              *)
SameVals(a, b) == Len(a) <= Len(b) /\ \A i \in DOMAIN a : a[i].val = b[i].val

LEMMA RisingPart ==
    ASSUME NEW a \in Seq(NwRecs), NEW b \in Seq(NwRecs), SameVals(a, b), NEW d \in Seq(NwRecs), NEW n,
           Rising(b), Over(d, b), Upto(b, n)
    PROVE  Rising(a) /\ Over(d, a) /\ Upto(a, n)
<1>1. \A i \in DOMAIN a : i \in DOMAIN b /\ a[i].val = b[i].val
  <2>1. DOMAIN a = 1 .. Len(a) /\ DOMAIN b = 1 .. Len(b) /\ Len(a) \in Nat /\ Len(b) \in Nat
    OBVIOUS
  <2> QED BY <2>1 DEF SameVals
<1> QED BY <1>1 DEF Rising, Over, Upto

LEMMA CrashKeeps ==
    ASSUME NwOK(handle), NEW n \in Nat, NEW torn \in BOOLEAN, WalCrash(n, torn)
    PROVE  NwOK(handle')
<1> DEFINE d == handle.disk
           b == handle.buffer
           head == SubSeq(b, 1, n)
           half == [b[n + 1] EXCEPT !.whole = FALSE]
           tail == IF torn THEN <<half>> ELSE <<>>
           left == head \o tail
           all == d \o left
           w == [handle EXCEPT !.buffer = <<>>, !.disk = all]
<1>1. /\ handle \in NwLogs /\ d \in Seq(NwRecs) /\ b \in Seq(NwRecs) /\ handle.made \in Nat
      /\ Rising(d) /\ Rising(b) /\ Over(d, b) /\ handle.kept \in Nat
      /\ Upto(d, handle.made) /\ Upto(b, handle.made) /\ handle.kept <= Len(d)
  BY DEF NwOK, NwBase, NwLogs
<1>2. n + (IF torn THEN 1 ELSE 0) <= Len(b) /\ handle' = Reopened([handle EXCEPT !.buffer = <<>>,
        !.disk = d \o head \o tail])
  BY DEF WalCrash
<1> HIDE DEF d, b
<1>3. Len(b) \in Nat /\ Len(d) \in Nat /\ DOMAIN b = 1 .. Len(b) /\ n <= Len(b)
  <2>1. Len(b) \in Nat /\ Len(d) \in Nat /\ DOMAIN b = 1 .. Len(b)
    BY <1>1
  <2> QED BY <1>2, <2>1
<1>4. /\ head \in Seq(NwRecs) /\ Len(head) = n /\ DOMAIN head = 1 .. n
      /\ \A i \in 1 .. n : head[i] = b[i]
  BY <1>1, <1>3
<1>5. torn => half \in NwRecs /\ half.val = b[n + 1].val /\ n + 1 \in 1 .. Len(b)
  <2> SUFFICES ASSUME torn PROVE half \in NwRecs /\ half.val = b[n + 1].val /\ n + 1 \in 1 .. Len(b)
    OBVIOUS
  <2>1. n + 1 \in 1 .. Len(b)
    BY <1>2, <1>3
  <2>2. b[n + 1] \in NwRecs
    BY <1>1, <2>1
  <2> QED BY <2>1, <2>2 DEF NwRecs
<1> HIDE DEF head, half
<1>6. tail \in Seq(NwRecs) /\ Len(tail) = (IF torn THEN 1 ELSE 0) /\ (torn => tail[1] = half)
  BY <1>5
<1> HIDE DEF tail
<1>7. /\ left \in Seq(NwRecs) /\ Len(left) = n + Len(tail) /\ DOMAIN left = 1 .. n + Len(tail)
      /\ \A i \in 1 .. n + Len(tail) : left[i] = IF i <= n THEN head[i] ELSE tail[i - n]
  <2>1. Len(head) = n /\ Len(tail) \in Nat /\ head \in Seq(NwRecs) /\ tail \in Seq(NwRecs)
    BY <1>4, <1>6
  <2>2. left \in Seq(NwRecs) /\ Len(left) = Len(head) + Len(tail)
    BY <2>1
  <2>3. \A i \in 1 .. Len(head) + Len(tail) : left[i] = IF i <= Len(head) THEN head[i] ELSE tail[i - Len(head)]
    BY <2>1
  <2> HIDE DEF left
  <2>4. DOMAIN left = 1 .. Len(left)
    BY <2>2
  <2> QED BY <2>1, <2>2, <2>3, <2>4
<1>8. (d \o head) \o tail = all
  BY <1>1, <1>4, <1>6, SMTT(60)
<1> HIDE DEF left
<1>9. SameVals(left, b)
  <2>1. Len(left) <= Len(b)
    BY <1>2, <1>3, <1>6, <1>7
  <2>2. ASSUME NEW i \in 1 .. n + Len(tail) PROVE left[i].val = b[i].val
    <3>1. CASE i <= n
      <4>1. i \in 1 .. n
        BY <1>6, <3>1
      <4> QED BY <1>4, <1>7, <3>1, <4>1
    <3>2. CASE ~(i <= n)
      <4>1. torn /\ i = n + 1 /\ i - n = 1
        BY <1>6, <3>2
      <4> QED BY <1>5, <1>6, <1>7, <3>2, <4>1
    <3> QED BY <3>1, <3>2
  <2> QED BY <1>7, <2>1, <2>2 DEF SameVals
<1>10. Rising(left) /\ Over(d, left) /\ Upto(left, handle.made)
  BY <1>1, <1>7, <1>9, RisingPart
<1>11. all \in Seq(NwRecs) /\ Len(all) = Len(d) + Len(left) /\ Rising(all) /\ Upto(all, handle.made)
  BY <1>1, <1>7, <1>10, RisingConcat
<1>12. handle' = Reopened(w)
  BY <1>2, <1>8
<1>13. Len(left) \in Nat
  BY <1>7
<1> HIDE DEF all
<1>14. /\ w \in NwLogs /\ w.disk = all /\ w.buffer = <<>> /\ w.made = handle.made
       /\ w.kept = handle.kept
  BY <1>1, <1>11, NothingRises DEF NwLogs
<1> HIDE DEF w
<1>15. w.kept <= Len(w.disk)
  BY <1>1, <1>3, <1>11, <1>13, <1>14
<1>16. NwOK(w)
  BY <1>11, <1>14, <1>15, NothingRises DEF NwOK, NwBase
<1> QED BY <1>12, <1>16, ReopenedOK

(* Every step of the log keeps it in order.                                *)
LEMMA NwalNext ==
    ASSUME Holding("nwal"), NwOK(handle), NosqlLogNext
    PROVE  NwOK(handle')
<1>1. ASSUME NEW op \in Changes, NEW k \in NwKeys, WalAppend(op, k) PROVE NwOK(handle')
  BY <1>1, RecordAdded DEF WalAppend, Ops
<1>2. CASE WalAbort
  BY <1>2, RecordAdded DEF WalAbort, Ops
<1>3. CASE WalCommit
  BY <1>3, RecordAdded DEF WalCommit, Ops
<1>4. CASE WalCheckpoint
  BY <1>4, RecordAdded DEF WalCheckpoint, Ops
<1>5. CASE WalSync
  BY <1>5, FlushedOK DEF WalSync, NwOK
<1>6. CASE WalReopen
  BY <1>6, FlushedOK, ReopenedOK DEF WalReopen, NwOK
<1>7. ASSUME NEW n \in 0 .. NwAppends, NEW torn \in BOOLEAN, WalCrash(n, torn) PROVE NwOK(handle')
  <2>1. n \in Nat
    OBVIOUS
  <2> QED BY <1>7, <2>1, CrashKeeps
<1>8. ~Holding("engine")
  BY DEF Holding
<1> QED BY <1>1, <1>2, <1>3, <1>4, <1>5, <1>6, <1>7, <1>8 DEF NosqlLogNext

(* What follows an abort is not replayed: the replay begins before the     *)
(* last checkpoint or right behind it, and no record is there twice.       *)
LEMMA ExactlyReplayed ==
    ASSUME NEW rs \in Seq(NwRecs), Rising(rs),
           NEW r \in ToSet(UpdatesIn(rs, LastCheckpoint(rs) + 1, Len(rs)))
    PROVE  (r \in ToSet(Replayed(rs))) = ~AfterAbort(rs, r)
<1> DEFINE n == Len(rs)
           cp == LastCheckpoint(rs)
           from == StartOf(rs)
           C == {i \in cp + 1 .. n : rs[i].op \in Changes}
           J == KeptOf(rs, from, n)
<1>1. /\ n \in Nat /\ DOMAIN rs = 1 .. n /\ cp \in 0 .. n /\ from \in Nat \ {0} /\ from <= cp + 1
      /\ cp # 0 => rs[cp].op = "checkpoint"
  BY CheckpointIs, StartIs
<1>2. Replayed(rs) = Those(rs, J) /\ r \in ToSet(Those(rs, C))
  BY ReplayedAre DEF UpdatesIn
<1>3. r \in ToSet(Replayed(rs)) \/ AfterAbort(rs, r)
  BY NothingLost
<1> HIDE DEF n, cp, from
<1>4. C \in SUBSET DOMAIN rs /\ J \in SUBSET DOMAIN rs
  <2>1. \A i \in cp + 1 .. n : i \in 1 .. n
    BY <1>1
  <2>2. \A i \in from .. n : i \in 1 .. n
    BY <1>1
  <2> QED BY <1>1, <2>1, <2>2 DEF KeptOf
<1>5. ToSet(Those(rs, C)) = {rs[i] : i \in C} /\ ToSet(Those(rs, J)) = {rs[i] : i \in J}
  BY <1>4, ThoseAre, ZenonT(120)
<1>6. ASSUME NEW i \in 1 .. n, NEW j \in 1 .. n, rs[i] = rs[j] PROVE i = j
  <2>1. rs[i] \in NwRecs /\ rs[i].val \in Int
    <3>1. rs[i] \in NwRecs
      BY <1>1, <1>6
    <3> QED BY <3>1 DEF NwRecs
  <2>2. ~(i < j) /\ ~(j < i)
    BY <1>1, <1>6, <2>1 DEF Rising
  <2> QED BY <2>2
<1>7. ASSUME r \in ToSet(Replayed(rs)), AfterAbort(rs, r) PROVE FALSE
  <2>1. PICK k \in C : r = rs[k]
    BY <1>2, <1>5
  <2>2. PICK l \in J : r = rs[l]
    BY <1>2, <1>5, <1>7
  <2>3. PICK i, j \in DOMAIN rs : /\ i < j /\ rs[i].op = "abort" /\ rs[j] = r
                                  /\ \A m \in i .. j : rs[m].op \notin {"commit", "checkpoint"}
    BY <1>7 DEF AfterAbort
  <2>4. k \in 1 .. n /\ l \in 1 .. n /\ i \in 1 .. n /\ j \in 1 .. n
    BY <1>1, <1>4, <2>3
  <2>5. k = j /\ l = j
    BY <1>6, <2>1, <2>2, <2>3, <2>4
  <2>6. j \in cp + 1 .. n /\ ~AbortedAt(rs, from, j)
    BY <2>1, <2>2, <2>5 DEF KeptOf
  <2>7. ~(i < from)
    <3>1. SUFFICES ASSUME i < from PROVE FALSE
      OBVIOUS
    <3>2. i <= cp /\ cp # 0 /\ cp \in i .. j
      BY <1>1, <2>4, <2>6, <3>1
    <3> QED BY <1>1, <2>3, <3>2
  <2>8. i \in from .. j - 1 /\ \A m \in i .. j - 1 : m \in i .. j
    BY <1>1, <2>3, <2>4, <2>7
  <2>9. AbortedAt(rs, from, j)
    BY <2>3, <2>8 DEF AbortedAt, Ends
  <2> QED BY <2>6, <2>9
<1> QED BY <1>3, <1>7 DEF AfterAbort

LEMMA NwalRecovers ==
    ASSUME Holding("nwal") => NwOK(handle)
    PROVE  RecoveryRebuilds
<1> SUFFICES ASSUME Holding("nwal") PROVE RecoveryRebuilds
  BY DEF RecoveryRebuilds
<1> DEFINE disk == handle.disk
           rs == RecordsRead(disk)
           cp == LastCheckpoint(rs)
           out == Replayed(rs)
<1>1. /\ disk \in Seq(NwRecs) /\ Rising(disk) /\ handle.kept <= Len(disk) /\ handle.kept \in Nat
      /\ handle.sync => handle.buffer = <<>>
  BY DEF NwOK, NwBase, NwLogs
<1> HIDE DEF disk
<1>2. /\ rs \in Seq(NwRecs) /\ Rising(rs)
      /\ (\A i \in DOMAIN disk : disk[i].whole) => rs = disk
      /\ \A i \in DOMAIN disk : (\A j \in 1 .. i : disk[j].whole) => disk[i] \in ToSet(rs)
  BY <1>1, ReadIs
<1> HIDE DEF rs
<1>3. \A i \in 1 .. handle.kept : (\A j \in 1 .. i : disk[j].whole) => disk[i] \in ToSet(rs)
  <2>1. \A i \in 1 .. handle.kept : i \in DOMAIN disk
    BY <1>1
  <2> QED BY <1>2, <2>1
<1>4. (\A r \in ToSet(rs) : r.op # "abort") =>
        StateAfter(UpdatesIn(rs, 1, cp) \o out) = StateAfter(UpdatesIn(rs, 1, Len(rs)))
  BY <1>2, StateRebuilt
<1>5. \A r \in ToSet(UpdatesIn(rs, cp + 1, Len(rs))) : (r \in ToSet(out)) = ~AfterAbort(rs, r)
  BY <1>2, ExactlyReplayed
<1>6. Rising(out)
  <2> DEFINE J == KeptOf(rs, StartOf(rs), Len(rs))
  <2>1. J \in SUBSET DOMAIN rs
    <3>1. \A i \in StartOf(rs) .. Len(rs) : i \in DOMAIN rs
      BY <1>2, StartIs
    <3> QED BY <3>1 DEF KeptOf
  <2>2. out = Those(rs, J)
    BY <1>2, ReplayedAre
  <2> HIDE DEF J
  <2> QED BY <1>2, <2>1, <2>2, RisingThose
<1>7. \A i, j \in DOMAIN out : i < j => out[i].val < out[j].val
  BY <1>6 DEF Rising
<1> HIDE DEF out, cp
<1> QED BY <1>1, <1>2, <1>3, <1>4, <1>5, <1>7 DEF RecoveryRebuilds, disk, rs, cp, out

(* How often something is in two rows, in a beginning, and in a row that   *)
(* has it once.                                                            *)
LEMMA TimesType ==
    ASSUME NEW S, NEW s \in Seq(S), NEW k
    PROVE  /\ IsFiniteSet({i \in DOMAIN s : s[i] = k}) /\ Times(s, k) \in Nat
<1>1. DOMAIN s = 1 .. Len(s) /\ Len(s) \in Nat /\ IsFiniteSet(1 .. Len(s))
  BY FS_Interval
<1>2. {i \in DOMAIN s : s[i] = k} \in SUBSET (1 .. Len(s))
  BY <1>1
<1>3. IsFiniteSet({i \in DOMAIN s : s[i] = k})
  BY <1>1, <1>2, FS_Subset
<1> QED BY <1>3, FS_CardinalityType DEF Times

LEMMA TimesOfTwo ==
    ASSUME NEW S, NEW a \in Seq(S), NEW b \in Seq(S), NEW k
    PROVE  Times(a \o b, k) = Times(a, k) + Times(b, k)
<1> DEFINE c == a \o b
           x == Len(a)
           y == Len(b)
           A == {i \in 1 .. x : a[i] = k}
           B == {i \in 1 .. y : b[i] = k}
           C == {i \in 1 .. x + y : c[i] = k}
           D == {j \in 1 .. x + y : j - x \in B}
           f == [i \in B |-> x + i]
<1>1. /\ x \in Nat /\ y \in Nat /\ DOMAIN a = 1 .. x /\ DOMAIN b = 1 .. y
      /\ c \in Seq(S) /\ Len(c) = x + y /\ DOMAIN c = 1 .. x + y
      /\ \A i \in 1 .. x + y : c[i] = IF i <= x THEN a[i] ELSE b[i - x]
  OBVIOUS
<1>2. /\ IsFiniteSet(A) /\ IsFiniteSet(B) /\ Cardinality(A) = Times(a, k) /\ Cardinality(B) = Times(b, k)
      /\ Cardinality(C) = Times(c, k) /\ Cardinality(A) \in Nat /\ Cardinality(B) \in Nat
  BY <1>1, TimesType DEF Times
<1> HIDE DEF c, x, y
<1>3. C = A \cup D
  <2>1. ASSUME NEW i \in 1 .. x + y PROVE (c[i] = k) <=> (i \in A \/ i - x \in B)
    <3>1. CASE i <= x
      <4>1. i \in 1 .. x /\ i - x \notin 1 .. y
        BY <1>1, <3>1
      <4> QED BY <1>1, <3>1, <4>1
    <3>2. CASE ~(i <= x)
      <4>1. i \notin 1 .. x /\ i - x \in 1 .. y
        BY <1>1, <3>2
      <4> QED BY <1>1, <3>2, <4>1
    <3> QED BY <3>1, <3>2
  <2>2. \A i \in A : i \in 1 .. x + y
    BY <1>1
  <2> HIDE DEF A, B
  <2> QED BY <2>1, <2>2
<1>4. A \cap D = {}
  <2>1. \A i \in A : i - x \notin 1 .. y
    BY <1>1
  <2> QED BY <2>1
<1>5. f \in Bijection(B, D)
  <2>1. \A i \in B : i \in Int /\ f[i] = x + i /\ x + i \in D
    <3>1. \A i \in B : i \in Int /\ x + i \in 1 .. x + y /\ (x + i) - x = i
      BY <1>1
    <3> QED BY <3>1
  <2>2. f \in [B -> D]
    BY <2>1
  <2> HIDE DEF f
  <2>3. \A j \in D : j - x \in B /\ f[j - x] = j
    <3>1. \A j \in D : j \in Int /\ j - x \in B /\ x + (j - x) = j
      BY <1>1
    <3> QED BY <2>1, <3>1
  <2>4. \A i, j \in B : f[i] = f[j] => i = j
    <3>1. \A i, j \in B : i \in Int /\ j \in Int /\ (x + i = x + j => i = j)
      BY <1>1, <2>1
    <3> QED BY <2>1, <3>1
  <2>5. f \in Injection(B, D)
    <3>1. DOMAIN f = B
      BY <2>2
    <3> QED BY <2>2, <2>4, <3>1 DEF Injection, IsInjective
  <2>6. f \in Surjection(B, D)
    BY <2>2, <2>3 DEF Surjection
  <2> QED BY <2>5, <2>6 DEF Bijection
<1> HIDE DEF A, B, C, D, f
<1>6. IsFiniteSet(D) /\ Cardinality(D) = Cardinality(B)
  <2>1. ExistsBijection(B, D)
    BY <1>5 DEF ExistsBijection
  <2> QED BY <1>2, <2>1, FS_Bijection
<1>7. Cardinality(C) = Cardinality(A) + Cardinality(D) - Cardinality(A \cap D) /\ Cardinality({}) = 0
  BY <1>2, <1>3, <1>6, FS_Union, FS_EmptySet
<1>8. Cardinality(C) = Cardinality(A) + Cardinality(B)
  <2>1. Cardinality(A \cap D) = 0
    BY <1>4, <1>7
  <2> QED BY <1>2, <1>6, <1>7, <2>1
<1> QED BY <1>2, <1>8 DEF c

LEMMA TimesOfPart ==
    ASSUME NEW S, NEW s \in Seq(S), NEW m \in 0 .. Len(s), NEW k
    PROVE  SubSeq(s, 1, m) \in Seq(S) /\ Times(SubSeq(s, 1, m), k) <= Times(s, k)
<1> DEFINE t == SubSeq(s, 1, m)
           A == {i \in DOMAIN t : t[i] = k}
           B == {i \in DOMAIN s : s[i] = k}
<1>1. t \in Seq(S) /\ DOMAIN t = 1 .. m /\ DOMAIN s = 1 .. Len(s) /\ \A i \in 1 .. m : t[i] = s[i]
  OBVIOUS
<1>2. A \in SUBSET B
  <2>1. \A i \in 1 .. m : i \in 1 .. Len(s)
    OBVIOUS
  <2> HIDE DEF t
  <2> QED BY <1>1, <2>1
<1>3. IsFiniteSet(B)
  BY TimesType
<1> HIDE DEF A, B
<1>4. Cardinality(A) <= Cardinality(B)
  BY <1>2, <1>3, FS_Subset
<1> QED BY <1>1, <1>4 DEF Times, A, B

(* The engine.  The newest memtable that has a key tells its last value,   *)
(* whatever tables hold is in the rows, and what was not cut is complete.  *)
Mems == UNION {[K -> Int] : K \in {D \in SUBSET EngKeys : IsFiniteSet(D)}}
Engines ==
    [kind : {"engine"}, mem : Mems, imms : Seq(Mems), l0 : Seq(Seq(EngKeys)), l1 : Seq(Seq(EngKeys)),
     writes : Nat, last : Mems, cut : BOOLEAN]
Newest(imms, k, i) ==
    /\ i \in DOMAIN imms /\ k \in DOMAIN imms[i]
    /\ \A j \in DOMAIN imms : j > i => k \notin DOMAIN imms[j]
Latest(imms, k, v) == \E i : Newest(imms, k, i) /\ imms[i][k] = v
Nowhere(imms, k) == \A i \in DOMAIN imms : k \notin DOMAIN imms[i]
Recalled(mem, imms, last) ==
    \A k \in EngKeys :
       /\ k \in DOMAIN mem => k \in DOMAIN last /\ mem[k] = last[k]
       /\ k \notin DOMAIN mem /\ k \in DOMAIN last => Latest(imms, k, last[k])
       /\ k \notin DOMAIN last => Nowhere(imms, k)
Frozen(imms) == FlattenSeq([i \in DOMAIN imms |-> KeysInOrder(DOMAIN imms[i])])
Rows(l0, l1, imms, cut) ==
    \A k \in EngKeys :
       /\ Times(FlattenSeq(l0), k) + Times(FlattenSeq(l1), k) <= Times(Frozen(imms), k)
       /\ ~cut => Times(FlattenSeq(l0), k) + Times(FlattenSeq(l1), k) = Times(Frozen(imms), k)
Held(mem, l0, l1, last, cut) ==
    /\ ToSet(FlattenSeq(l0)) \subseteq DOMAIN last /\ ToSet(FlattenSeq(l1)) \subseteq DOMAIN last
    /\ ~cut => DOMAIN last \subseteq DOMAIN mem \cup ToSet(FlattenSeq(l0)) \cup ToSet(FlattenSeq(l1))
EngOK(e) ==
    /\ e \in Engines
    /\ Recalled(e.mem, e.imms, e.last) /\ Rows(e.l0, e.l1, e.imms, e.cut)
    /\ Held(e.mem, e.l0, e.l1, e.last, e.cut)

LEMMA MemIs ==
    ASSUME NEW m
    PROVE  m \in Mems <=> /\ m = [x \in DOMAIN m |-> m[x]] /\ DOMAIN m \in SUBSET EngKeys
                          /\ IsFiniteSet(DOMAIN m) /\ \A x \in DOMAIN m : m[x] \in Int
<1>1. ASSUME m \in Mems PROVE /\ m = [x \in DOMAIN m |-> m[x]] /\ DOMAIN m \in SUBSET EngKeys
                              /\ IsFiniteSet(DOMAIN m) /\ \A x \in DOMAIN m : m[x] \in Int
  <2>1. PICK K \in SUBSET EngKeys : IsFiniteSet(K) /\ m \in [K -> Int]
    BY <1>1 DEF Mems
  <2> QED BY <2>1
<1>2. ASSUME m = [x \in DOMAIN m |-> m[x]], DOMAIN m \in SUBSET EngKeys,
             IsFiniteSet(DOMAIN m), \A x \in DOMAIN m : m[x] \in Int
      PROVE  m \in Mems
  <2>1. m \in [DOMAIN m -> Int]
    BY <1>2
  <2>2. DOMAIN m \in {D \in SUBSET EngKeys : IsFiniteSet(D)}
    BY <1>2
  <2> QED BY <2>1, <2>2 DEF Mems
<1> QED BY <1>1, <1>2

LEMMA NoMem == EmptyMem \in Mems /\ DOMAIN EmptyMem = {}
<1>1. DOMAIN EmptyMem = {} /\ EmptyMem = [x \in DOMAIN EmptyMem |-> EmptyMem[x]]
  BY DEF EmptyMem
<1>2. IsFiniteSet({})
  BY FS_EmptySet
<1> HIDE DEF EmptyMem
<1> QED BY <1>1, <1>2, MemIs

LEMMA PutIs ==
    ASSUME NEW m \in Mems, NEW k \in EngKeys, NEW v \in Int
    PROVE  /\ MemPut(m, k, v) \in Mems /\ DOMAIN MemPut(m, k, v) = DOMAIN m \cup {k}
           /\ MemPut(m, k, v)[k] = v
           /\ \A x \in DOMAIN m : x # k => MemPut(m, k, v)[x] = m[x]
<1> DEFINE z == MemPut(m, k, v)
<1>1. /\ DOMAIN m \in SUBSET EngKeys /\ IsFiniteSet(DOMAIN m) /\ \A x \in DOMAIN m : m[x] \in Int
  BY MemIs
<1>2. z = [x \in DOMAIN m \cup {k} |-> IF x = k THEN v ELSE m[x]]
  BY DEF MemPut
<1> HIDE DEF z
<1>3. DOMAIN z = DOMAIN m \cup {k} /\ z[k] = v /\ \A x \in DOMAIN m : x # k => z[x] = m[x]
  BY <1>2
<1>4. IsFiniteSet(DOMAIN z)
  BY <1>1, <1>3, FS_AddElement
<1>5. DOMAIN z \in SUBSET EngKeys /\ \A x \in DOMAIN z : z[x] \in Int
  BY <1>1, <1>3
<1>6. z = [x \in DOMAIN z |-> z[x]]
  BY <1>2, <1>3
<1>7. z \in Mems
  BY <1>4, <1>5, <1>6, MemIs
<1> QED BY <1>3, <1>7 DEF z

(* The keys of a memtable, as its table has them.                          *)
LEMMA KeysAre ==
    ASSUME NEW m \in Mems
    PROVE  /\ KeysInOrder(DOMAIN m) \in Seq(EngKeys)
           /\ ToSet(KeysInOrder(DOMAIN m)) = DOMAIN m
<1> DEFINE D == DOMAIN m
           p == KeysInOrder(D)
           n == Cardinality(D)
<1>1. D \in SUBSET EngKeys /\ IsFiniteSet(D) /\ D \in SUBSET Int
  BY MemIs, EngineAssumption DEF EngineAssumption
<1> HIDE DEF D
<1>2. Ranks(D, p)
  BY <1>1, OrderedRanks DEF KeysInOrder
<1>3. n \in Nat /\ p \in [1 .. n -> D] /\ \A x \in D : \E i \in 1 .. n : p[i] = x
  BY <1>2 DEF Ranks
<1> HIDE DEF p, n
<1>4. p \in Seq(EngKeys) /\ DOMAIN p = 1 .. n
  <2>1. p \in [1 .. n -> EngKeys]
    BY <1>1, <1>3
  <2> QED BY <1>3, <2>1
<1>5. ToSet(p) = D
  BY <1>3, <1>4 DEF ToSet
<1> QED BY <1>4, <1>5 DEF p, D

LEMMA FrozenIs ==
    ASSUME NEW imms \in Seq(Mems)
    PROVE  /\ Frozen(imms) \in Seq(EngKeys)
           /\ \A m \in Mems : Frozen(Append(imms, m)) = Frozen(imms) \o KeysInOrder(DOMAIN m)
<1> DEFINE n == Len(imms)
           parts == [i \in DOMAIN imms |-> KeysInOrder(DOMAIN imms[i])]
<1>1. n \in Nat /\ DOMAIN imms = 1 .. n /\ \A i \in 1 .. n : imms[i] \in Mems
  OBVIOUS
<1>2. /\ parts \in [1 .. n -> Seq(EngKeys)]
      /\ \A i \in 1 .. n : parts[i] = KeysInOrder(DOMAIN imms[i])
  BY <1>1, KeysAre
<1>3. Frozen(imms) = FlattenSeq(parts)
  BY DEF Frozen
<1> HIDE DEF parts, n
<1>4. parts \in Seq(Seq(EngKeys)) /\ Len(parts) = n
  BY <1>1, <1>2
<1>5. ASSUME NEW m \in Mems PROVE Frozen(Append(imms, m)) = Frozen(imms) \o KeysInOrder(DOMAIN m)
  <2> DEFINE more == Append(imms, m)
             x == KeysInOrder(DOMAIN m)
             all == [i \in DOMAIN more |-> KeysInOrder(DOMAIN more[i])]
             two == Append(parts, x)
  <2>1. /\ more \in Seq(Mems) /\ DOMAIN more = 1 .. n + 1 /\ more[n + 1] = m
        /\ \A i \in 1 .. n : more[i] = imms[i]
    BY <1>1 DEF n
  <2>2. x \in Seq(EngKeys)
    BY KeysAre
  <2> HIDE DEF more, x
  <2>3. /\ two \in Seq(Seq(EngKeys)) /\ Len(two) = n + 1 /\ two[n + 1] = x
        /\ \A i \in 1 .. n : two[i] = parts[i]
    BY <1>1, <1>4, <2>2
  <2>4. \A i \in 1 .. n + 1 : i = n + 1 \/ i \in 1 .. n
    BY <1>1
  <2>5. /\ DOMAIN all = 1 .. n + 1 /\ n + 1 \in Nat
        /\ \A i \in 1 .. n + 1 : all[i] = KeysInOrder(DOMAIN more[i])
    BY <1>1, <2>1
  <2> HIDE DEF all, two
  <2>6. \A i \in 1 .. n + 1 : all[i] = two[i] /\ two[i] \in Seq(EngKeys)
    <3> TAKE i \in 1 .. n + 1
    <3>1. CASE i = n + 1
      BY <2>1, <2>2, <2>3, <2>5, <3>1 DEF x
    <3>2. CASE i \in 1 .. n
      BY <1>2, <2>1, <2>3, <2>5, <3>2
    <3> QED BY <2>4, <3>1, <3>2
  <2>7. all = two
    <3>1. all = [i \in 1 .. n + 1 |-> all[i]]
      BY <2>5 DEF all
    <3>2. two = [i \in 1 .. n + 1 |-> two[i]]
      <4>1. two \in [1 .. n + 1 -> Seq(EngKeys)]
        BY <2>3
      <4> QED BY <4>1
    <3> QED BY <2>6, <3>1, <3>2
  <2>8. Frozen(more) = FlattenSeq(all)
    BY DEF Frozen, all
  <2>9. FlattenSeq(two) = FlattenSeq(parts) \o x
    BY <1>4, <2>2, FlattenMore DEF two
  <2> QED BY <1>3, <2>7, <2>8, <2>9 DEF more, x
<1>6. Frozen(imms) \in Seq(EngKeys)
  BY <1>3, <1>4, FlattenType
<1> QED BY <1>5, <1>6

(* What is written is told, and what is told stays so when the memtable is *)
(* frozen.                                                                 *)
LEMMA LatestMore ==
    ASSUME NEW imms \in Seq(Mems), NEW m \in Mems, NEW k, NEW v
    PROVE  /\ k \in DOMAIN m /\ m[k] = v => Latest(Append(imms, m), k, v)
           /\ k \notin DOMAIN m /\ Latest(imms, k, v) => Latest(Append(imms, m), k, v)
           /\ k \notin DOMAIN m /\ Nowhere(imms, k) => Nowhere(Append(imms, m), k)
<1> DEFINE n == Len(imms)
           z == Append(imms, m)
<1>1. /\ n \in Nat /\ DOMAIN imms = 1 .. n /\ DOMAIN z = 1 .. n + 1 /\ z[n + 1] = m
      /\ \A i \in 1 .. n : z[i] = imms[i]
  OBVIOUS
<1> HIDE DEF n, z
<1>2. \A i \in 1 .. n + 1 : i = n + 1 \/ i \in 1 .. n
  BY <1>1
<1>3. ASSUME k \in DOMAIN m, m[k] = v PROVE Latest(z, k, v)
  <2>1. n + 1 \in DOMAIN z /\ \A j \in DOMAIN z : ~(j > n + 1)
    BY <1>1
  <2>2. Newest(z, k, n + 1)
    BY <1>1, <1>3, <2>1 DEF Newest
  <2> QED BY <1>1, <1>3, <2>2 DEF Latest
<1>4. ASSUME k \notin DOMAIN m, Latest(imms, k, v) PROVE Latest(z, k, v)
  <2>1. PICK i : Newest(imms, k, i) /\ imms[i][k] = v
    BY <1>4 DEF Latest
  <2>2. i \in 1 .. n /\ k \in DOMAIN imms[i] /\ \A j \in 1 .. n : j > i => k \notin DOMAIN imms[j]
    BY <1>1, <2>1 DEF Newest
  <2>3. i \in DOMAIN z /\ z[i] = imms[i]
    BY <1>1, <2>2
  <2>4. ASSUME NEW j \in DOMAIN z, j > i PROVE k \notin DOMAIN z[j]
    BY <1>1, <1>2, <1>4, <2>2, <2>4
  <2>5. Newest(z, k, i)
    BY <2>2, <2>3, <2>4 DEF Newest
  <2> QED BY <2>1, <2>3, <2>5 DEF Latest
<1>5. ASSUME k \notin DOMAIN m, Nowhere(imms, k) PROVE Nowhere(z, k)
  <2>1. ASSUME NEW i \in 1 .. n + 1 PROVE k \notin DOMAIN z[i]
    <3>1. CASE i = n + 1
      BY <1>1, <1>5, <3>1
    <3>2. CASE i \in 1 .. n
      BY <1>1, <1>5, <3>2 DEF Nowhere
    <3> QED BY <1>2, <3>1, <3>2
  <2> QED BY <1>1, <2>1 DEF Nowhere
<1> QED BY <1>3, <1>4, <1>5 DEF z

LEMMA EngineParts ==
    ASSUME NEW e \in Engines
    PROVE  /\ e.mem \in Mems /\ e.imms \in Seq(Mems) /\ e.l0 \in Seq(Seq(EngKeys))
           /\ e.l1 \in Seq(Seq(EngKeys)) /\ e.writes \in Nat /\ e.last \in Mems /\ e.kind = "engine"
           /\ DOMAIN e.mem \subseteq EngKeys /\ DOMAIN e.last \subseteq EngKeys
<1>1. /\ e.mem \in Mems /\ e.imms \in Seq(Mems) /\ e.l0 \in Seq(Seq(EngKeys))
      /\ e.l1 \in Seq(Seq(EngKeys)) /\ e.writes \in Nat /\ e.last \in Mems /\ e.kind = "engine"
  BY DEF Engines
<1>2. DOMAIN e.mem \subseteq EngKeys /\ DOMAIN e.last \subseteq EngKeys
  BY <1>1, MemIs
<1> QED BY <1>1, <1>2

LEMMA WriteKeeps ==
    ASSUME EngOK(handle), NEW k \in EngKeys, NEW dead \in BOOLEAN, EngineWrite(k, dead)
    PROVE  EngOK(handle')
<1> DEFINE e == handle
           v == IF dead THEN Deletion ELSE e.writes + 1
           m == MemPut(e.mem, k, v)
           l == MemPut(e.last, k, v)
           w == e.writes + 1
           z == [e EXCEPT !.mem = m, !.writes = w, !.last = l]
<1>1. /\ e \in Engines /\ Recalled(e.mem, e.imms, e.last) /\ Rows(e.l0, e.l1, e.imms, e.cut)
      /\ Held(e.mem, e.l0, e.l1, e.last, e.cut)
  BY DEF EngOK
<1>2. /\ e.mem \in Mems /\ e.imms \in Seq(Mems) /\ e.l0 \in Seq(Seq(EngKeys))
      /\ e.l1 \in Seq(Seq(EngKeys)) /\ e.writes \in Nat /\ e.last \in Mems /\ e.kind = "engine"
  BY <1>1, EngineParts
<1>3. handle' = z
  BY DEF EngineWrite
<1>4. v \in Int /\ w \in Nat
  BY <1>2 DEF Deletion
<1> HIDE DEF v, w, e
<1> DEFINE Written(a) == MemPut(a, k, v)
<1>5. ASSUME NEW a \in Mems
      PROVE  /\ Written(a) \in Mems /\ DOMAIN Written(a) = DOMAIN a \cup {k} /\ Written(a)[k] = v
             /\ \A x \in DOMAIN a : x # k => Written(a)[x] = a[x]
  BY <1>4, PutIs
<1> HIDE DEF Written
<1>6. m = Written(e.mem) /\ l = Written(e.last)
  BY DEF Written
<1> HIDE DEF m, l
<1>7. /\ m \in Mems /\ DOMAIN m = DOMAIN e.mem \cup {k} /\ m[k] = v
      /\ \A x \in DOMAIN e.mem : x # k => m[x] = e.mem[x]
  BY <1>2, <1>5, <1>6
<1>8. /\ l \in Mems /\ DOMAIN l = DOMAIN e.last \cup {k} /\ l[k] = v
      /\ \A x \in DOMAIN e.last : x # k => l[x] = e.last[x]
  BY <1>2, <1>5, <1>6
<1>9. /\ z \in Engines /\ z.mem = m /\ z.last = l /\ z.imms = e.imms /\ z.l0 = e.l0 /\ z.l1 = e.l1
      /\ z.cut = e.cut
  BY <1>1, <1>4, <1>7, <1>8 DEF Engines
<1> HIDE DEF z
<1>10. Recalled(m, e.imms, l)
  <2>1. ASSUME NEW x \in EngKeys
        PROVE  /\ x \in DOMAIN m => x \in DOMAIN l /\ m[x] = l[x]
               /\ x \notin DOMAIN m /\ x \in DOMAIN l => Latest(e.imms, x, l[x])
               /\ x \notin DOMAIN l => Nowhere(e.imms, x)
    <3>1. CASE x = k
      BY <1>7, <1>8, <3>1
    <3>2. CASE x # k
      <4>1. /\ x \in DOMAIN e.mem => x \in DOMAIN e.last /\ e.mem[x] = e.last[x]
            /\ x \notin DOMAIN e.mem /\ x \in DOMAIN e.last => Latest(e.imms, x, e.last[x])
            /\ x \notin DOMAIN e.last => Nowhere(e.imms, x)
        BY <1>1 DEF Recalled
      <4>2. (x \in DOMAIN m <=> x \in DOMAIN e.mem) /\ (x \in DOMAIN l <=> x \in DOMAIN e.last)
        BY <1>7, <1>8, <3>2
      <4>3. /\ x \in DOMAIN e.mem => m[x] = e.mem[x]
            /\ x \in DOMAIN e.last => l[x] = e.last[x]
        BY <1>7, <1>8, <3>2
      <4> QED BY <4>1, <4>2, <4>3
    <3> QED BY <3>1, <3>2
  <2> QED BY <2>1 DEF Recalled
<1>11. Held(m, e.l0, e.l1, l, e.cut)
  BY <1>1, <1>7, <1>8 DEF Held
<1>12. EngOK(z)
  BY <1>1, <1>9, <1>10, <1>11 DEF EngOK
<1> QED BY <1>3, <1>12

(* A table has a beginning of the keys it was given, all if it has room.   *)
LEMMA FittingIs ==
    ASSUME NEW s \in Seq(EngKeys)
    PROVE  /\ Fitting(s) \in Seq(EngKeys) /\ ToSet(Fitting(s)) \subseteq ToSet(s)
           /\ \A k : Times(Fitting(s), k) <= Times(s, k)
           /\ ~(Len(s) > EngTableMax) => Fitting(s) = s
<1> DEFINE m == IF Len(s) < EngTableMax THEN Len(s) ELSE EngTableMax
           t == SubSeq(s, 1, m)
<1>1. Len(s) \in Nat /\ EngTableMax \in Nat
  BY EngineAssumption DEF EngineAssumption
<1>2. m \in 0 .. Len(s) /\ (~(Len(s) > EngTableMax) => m = Len(s))
  BY <1>1
<1>3. Fitting(s) = t
  BY DEF Fitting
<1> HIDE DEF m
<1>4. t \in Seq(EngKeys) /\ \A k : Times(t, k) <= Times(s, k)
  BY <1>2, TimesOfPart
<1>5. m = Len(s) => t = s
  OBVIOUS
<1>6. \A i \in DOMAIN t : i \in DOMAIN s /\ t[i] = s[i]
  BY <1>2
<1> HIDE DEF t
<1>7. ToSet(t) \subseteq ToSet(s)
  BY <1>6 DEF ToSet
<1> QED BY <1>2, <1>3, <1>4, <1>5, <1>7

LEMMA TableAdded ==
    ASSUME EngOK(handle), EngineFlush
    PROVE  EngOK(handle')
<1> DEFINE e == handle
           x == KeysInOrder(DOMAIN e.mem)
           y == Fitting(x)
           i == Append(e.imms, e.mem)
           t == Append(e.l0, y)
           c == e.cut \/ Len(x) > EngTableMax
           z == [e EXCEPT !.imms = i, !.l0 = t, !.mem = EmptyMem, !.cut = c]
           f0 == FlattenSeq(e.l0)
           f1 == FlattenSeq(e.l1)
           fr == Frozen(e.imms)
<1>1. /\ e \in Engines /\ Recalled(e.mem, e.imms, e.last) /\ Rows(e.l0, e.l1, e.imms, e.cut)
      /\ Held(e.mem, e.l0, e.l1, e.last, e.cut)
  BY DEF EngOK
<1>2. /\ e.mem \in Mems /\ e.imms \in Seq(Mems) /\ e.l0 \in Seq(Seq(EngKeys))
      /\ e.l1 \in Seq(Seq(EngKeys)) /\ e.writes \in Nat /\ e.last \in Mems /\ e.kind = "engine"
      /\ DOMAIN e.mem \subseteq EngKeys /\ DOMAIN e.last \subseteq EngKeys
  BY <1>1, EngineParts
<1>3. handle' = z
  BY DEF EngineFlush, FlushMemtable
<1> HIDE DEF e
<1>4. x \in Seq(EngKeys) /\ ToSet(x) = DOMAIN e.mem
  BY <1>2, KeysAre
<1>5. Frozen(i) = fr \o x /\ fr \in Seq(EngKeys)
  BY <1>2, FrozenIs
<1> HIDE DEF x, fr
<1>16. /\ y \in Seq(EngKeys) /\ ToSet(y) \subseteq ToSet(x) /\ \A k : Times(y, k) <= Times(x, k)
       /\ ~(Len(x) > EngTableMax) => y = x
  BY <1>4, FittingIs
<1>17. c \in BOOLEAN /\ (~c => ~e.cut /\ y = x)
  <2>1. e.cut \in BOOLEAN
    BY <1>1 DEF Engines
  <2> HIDE DEF y
  <2> QED BY <1>16, <2>1
<1> HIDE DEF c, y
<1>6. f0 \in Seq(EngKeys) /\ f1 \in Seq(EngKeys) /\ FlattenSeq(t) = f0 \o y
  BY <1>2, <1>16, FlattenType, FlattenMore
<1>7. i \in Seq(Mems) /\ t \in Seq(Seq(EngKeys))
  BY <1>2, <1>16
<1>8. \A k \in EngKeys : /\ k \in DOMAIN e.mem /\ e.mem[k] = e.last[k] => Latest(i, k, e.last[k])
                         /\ k \notin DOMAIN e.mem /\ Latest(e.imms, k, e.last[k]) => Latest(i, k, e.last[k])
                         /\ k \notin DOMAIN e.mem /\ Nowhere(e.imms, k) => Nowhere(i, k)
  BY <1>2, LatestMore
<1> HIDE DEF i, t
<1>9. /\ z \in Engines /\ z.mem = EmptyMem /\ z.last = e.last /\ z.imms = i /\ z.l0 = t /\ z.l1 = e.l1
      /\ z.cut = c
  BY <1>1, <1>7, <1>17, NoMem DEF Engines
<1> HIDE DEF z
<1>10. Recalled(EmptyMem, i, e.last)
  <2>1. ASSUME NEW k \in EngKeys
        PROVE  /\ k \in DOMAIN EmptyMem => k \in DOMAIN e.last /\ EmptyMem[k] = e.last[k]
               /\ k \notin DOMAIN EmptyMem /\ k \in DOMAIN e.last => Latest(i, k, e.last[k])
               /\ k \notin DOMAIN e.last => Nowhere(i, k)
    <3>1. /\ k \in DOMAIN e.mem => k \in DOMAIN e.last /\ e.mem[k] = e.last[k]
          /\ k \notin DOMAIN e.mem /\ k \in DOMAIN e.last => Latest(e.imms, k, e.last[k])
          /\ k \notin DOMAIN e.last => Nowhere(e.imms, k)
      BY <1>1 DEF Recalled
    <3> QED BY <1>8, <3>1, NoMem
  <2> QED BY <2>1 DEF Recalled
<1>11. Rows(t, e.l1, i, c)
  <2>1. ASSUME NEW k \in EngKeys
        PROVE  /\ Times(FlattenSeq(t), k) + Times(f1, k) <= Times(Frozen(i), k)
               /\ ~c => Times(FlattenSeq(t), k) + Times(f1, k) = Times(Frozen(i), k)
    <3>1. /\ Times(f0, k) + Times(f1, k) <= Times(fr, k)
          /\ ~e.cut => Times(f0, k) + Times(f1, k) = Times(fr, k)
      BY <1>1 DEF Rows, fr
    <3>2. Times(f0, k) \in Nat /\ Times(f1, k) \in Nat /\ Times(fr, k) \in Nat /\ Times(x, k) \in Nat
      BY <1>4, <1>5, <1>6, TimesType
    <3>3. Times(FlattenSeq(t), k) = Times(f0, k) + Times(y, k) /\ Times(y, k) \in Nat
      <4> HIDE DEF f0
      <4>1. FlattenSeq(t) = f0 \o y /\ f0 \in Seq(EngKeys) /\ y \in Seq(EngKeys)
        BY <1>6, <1>16
      <4>2. Times(f0 \o y, k) = Times(f0, k) + Times(y, k)
        BY <4>1, TimesOfTwo
      <4> QED BY <4>1, <4>2, TimesType
    <3>4. Times(Frozen(i), k) = Times(fr, k) + Times(x, k)
      BY <1>4, <1>5, TimesOfTwo
    <3>5. Times(y, k) <= Times(x, k) /\ (~c => Times(y, k) = Times(x, k))
      BY <1>16, <1>17
    <3> HIDE DEF f0, f1
    <3>6. Times(FlattenSeq(t), k) + Times(f1, k) <= Times(Frozen(i), k)
      BY <3>1, <3>2, <3>3, <3>4, <3>5
    <3>7. ASSUME ~c PROVE Times(FlattenSeq(t), k) + Times(f1, k) = Times(Frozen(i), k)
      <4>1. ~e.cut
        BY <1>17, <3>7
      <4> QED BY <3>1, <3>2, <3>3, <3>4, <3>5, <3>7, <4>1
    <3> QED BY <3>6, <3>7
  <2> QED BY <2>1 DEF Rows
<1>12. Held(EmptyMem, t, e.l1, e.last, c)
  <2>1. ToSet(FlattenSeq(t)) = ToSet(f0) \cup ToSet(y)
    BY <1>6, <1>16, SetOfTwo
  <2>2. DOMAIN e.mem \subseteq DOMAIN e.last
    BY <1>1, <1>2 DEF Recalled
  <2>3. /\ ToSet(f0) \subseteq DOMAIN e.last /\ ToSet(f1) \subseteq DOMAIN e.last
        /\ ~e.cut => DOMAIN e.last \subseteq DOMAIN e.mem \cup ToSet(f0) \cup ToSet(f1)
    BY <1>1 DEF Held
  <2>4. ToSet(y) \subseteq DOMAIN e.mem /\ (~c => ToSet(y) = DOMAIN e.mem)
    BY <1>4, <1>16, <1>17
  <2> HIDE DEF f0
  <2>5. ToSet(FlattenSeq(t)) \subseteq DOMAIN e.last
    BY <2>1, <2>2, <2>3, <2>4
  <2>6. ASSUME ~c PROVE DOMAIN e.last \subseteq DOMAIN EmptyMem \cup ToSet(FlattenSeq(t)) \cup ToSet(f1)
    <3>1. ~e.cut /\ ToSet(y) = DOMAIN e.mem
      BY <1>17, <2>4, <2>6
    <3> QED BY <2>1, <2>3, <3>1
  <2> QED BY <2>3, <2>5, <2>6 DEF Held
<1>13. EngOK(z)
  BY <1>9, <1>10, <1>11, <1>12 DEF EngOK
<1> QED BY <1>3, <1>13

LEMMA CompactionKeeps ==
    ASSUME EngOK(handle), EngineCompact
    PROVE  EngOK(handle')
<1> DEFINE e == handle
           f0 == FlattenSeq(e.l0)
           f1 == FlattenSeq(e.l1)
           part == Fitting(f0)
           none == <<>>
           t == Append(e.l1, part)
           c == e.cut \/ Len(f0) > EngTableMax
           z == [e EXCEPT !.l0 = none, !.l1 = t, !.cut = c]
<1>1. /\ e \in Engines /\ Recalled(e.mem, e.imms, e.last) /\ Rows(e.l0, e.l1, e.imms, e.cut)
      /\ Held(e.mem, e.l0, e.l1, e.last, e.cut)
  BY DEF EngOK
<1>2. /\ e.mem \in Mems /\ e.imms \in Seq(Mems) /\ e.l0 \in Seq(Seq(EngKeys))
      /\ e.l1 \in Seq(Seq(EngKeys)) /\ e.writes \in Nat /\ e.last \in Mems /\ e.kind = "engine"
  BY <1>1, EngineParts
<1>3. handle' = z
  BY DEF EngineCompact
<1>4. f0 \in Seq(EngKeys) /\ f1 \in Seq(EngKeys) /\ Frozen(e.imms) \in Seq(EngKeys)
  BY <1>2, FlattenType, FrozenIs
<1> HIDE DEF e, f0, f1
<1>5. /\ part \in Seq(EngKeys) /\ ToSet(part) \subseteq ToSet(f0)
      /\ \A k : Times(part, k) <= Times(f0, k)
      /\ ~(Len(f0) > EngTableMax) => part = f0
  BY <1>4, FittingIs
<1> HIDE DEF part
<1>6. c \in BOOLEAN /\ (~c => ~e.cut /\ part = f0)
  <2>1. e.cut \in BOOLEAN
    BY <1>1 DEF Engines
  <2> QED BY <1>5, <2>1
<1> HIDE DEF c
<1>8. t \in Seq(Seq(EngKeys)) /\ FlattenSeq(t) = f1 \o part
  <2>1. t \in Seq(Seq(EngKeys))
    BY <1>2, <1>5
  <2>2. FlattenSeq(t) = FlattenSeq(e.l1) \o part
    BY <1>2, <1>5, FlattenMore
  <2> QED BY <2>1, <2>2 DEF f1
<1>9. none \in Seq(Seq(EngKeys)) /\ FlattenSeq(none) = <<>> /\ ToSet(<<>>) = {}
  <2>1. FlattenSeq(none) = <<>>
    BY DEF FlattenSeq
  <2> QED BY <2>1 DEF ToSet
<1>10. \A k : Times(<<>>, k) = 0
  <2> TAKE k
  <2>1. {i \in DOMAIN <<>> : <<>>[i] = k} = {}
    OBVIOUS
  <2> QED BY <2>1, FS_EmptySet DEF Times
<1> HIDE DEF t, none
<1>12. /\ z \in Engines /\ z.mem = e.mem /\ z.last = e.last /\ z.imms = e.imms /\ z.l0 = none /\ z.l1 = t
       /\ z.cut = c
  BY <1>1, <1>6, <1>8, <1>9 DEF Engines
<1> HIDE DEF z
<1>13. Rows(none, t, e.imms, c)
  <2>1. ASSUME NEW k \in EngKeys
        PROVE  /\ Times(FlattenSeq(none), k) + Times(FlattenSeq(t), k) <= Times(Frozen(e.imms), k)
               /\ ~c => Times(FlattenSeq(none), k) + Times(FlattenSeq(t), k) = Times(Frozen(e.imms), k)
    <3>1. /\ Times(f0, k) + Times(f1, k) <= Times(Frozen(e.imms), k)
          /\ ~e.cut => Times(f0, k) + Times(f1, k) = Times(Frozen(e.imms), k)
      BY <1>1 DEF Rows, f0, f1
    <3>2. /\ Times(f0, k) \in Nat /\ Times(f1, k) \in Nat /\ Times(part, k) \in Nat
          /\ Times(Frozen(e.imms), k) \in Nat
      BY <1>4, <1>5, TimesType
    <3>3. Times(FlattenSeq(t), k) = Times(f1, k) + Times(part, k)
      BY <1>4, <1>5, <1>8, TimesOfTwo
    <3>4. Times(FlattenSeq(none), k) = 0
      BY <1>9, <1>10
    <3>5. Times(part, k) <= Times(f0, k)
      BY <1>5
    <3>6. Times(FlattenSeq(none), k) + Times(FlattenSeq(t), k) <= Times(Frozen(e.imms), k)
      BY <3>1, <3>2, <3>3, <3>4, <3>5
    <3>7. ASSUME ~c PROVE Times(FlattenSeq(none), k) + Times(FlattenSeq(t), k) = Times(Frozen(e.imms), k)
      <4>1. Times(part, k) = Times(f0, k) /\ ~e.cut
        BY <1>6, <3>7
      <4> QED BY <3>1, <3>2, <3>3, <3>4, <4>1
    <3> QED BY <3>6, <3>7
  <2> QED BY <2>1 DEF Rows
<1>14. Held(e.mem, none, t, e.last, c)
  <2>1. ToSet(FlattenSeq(t)) = ToSet(f1) \cup ToSet(part) /\ ToSet(FlattenSeq(none)) = {}
    BY <1>4, <1>5, <1>8, <1>9, SetOfTwo
  <2>2. /\ ToSet(f0) \subseteq DOMAIN e.last /\ ToSet(f1) \subseteq DOMAIN e.last
        /\ ~e.cut => DOMAIN e.last \subseteq DOMAIN e.mem \cup ToSet(f0) \cup ToSet(f1)
    BY <1>1 DEF Held, f0, f1
  <2>3. ASSUME ~c PROVE DOMAIN e.last \subseteq DOMAIN e.mem \cup ToSet(part) \cup ToSet(f1)
    <3>1. ~e.cut /\ part = f0
      BY <1>6, <2>3
    <3> QED BY <2>2, <3>1
  <2> QED BY <1>5, <2>1, <2>2, <2>3 DEF Held
<1>15. EngOK(z)
  BY <1>1, <1>12, <1>13, <1>14 DEF EngOK
<1> QED BY <1>3, <1>15

(* What is read of a key: its last value, or nothing.                      *)
LEMMA EngineReads ==
    ASSUME NEW e, EngOK(e), NEW k \in EngKeys
    PROVE  EngineGet(e, k) = IF k \in DOMAIN e.last THEN {e.last[k]} ELSE {}
<1> DEFINE n == Len(e.imms)
           mems == <<e.mem>> \o Reverse(e.imms)
           I == {i \in 1 .. Len(mems) : k \in DOMAIN mems[i]}
           at == SelectInSeq(mems, LAMBDA m : k \in DOMAIN m)
           held == \E t \in ToSet(e.l0 \o e.l1) : TableHas(t, k)
<1>1. e \in Engines /\ Recalled(e.mem, e.imms, e.last) /\ Held(e.mem, e.l0, e.l1, e.last, e.cut)
  BY DEF EngOK
<1>2. /\ e.mem \in Mems /\ e.imms \in Seq(Mems) /\ e.l0 \in Seq(Seq(EngKeys))
      /\ e.l1 \in Seq(Seq(EngKeys))
  BY <1>1, EngineParts
<1>3. EngineGet(e, k) = IF at # 0 THEN {mems[at][k]} ELSE IF held THEN {EmptyVal} ELSE {}
  BY DEF EngineGet
<1>4. at = IF I # {} THEN Min(I) ELSE 0
  BY DEF SelectInSeq
<1>5. /\ n \in Nat /\ Len(mems) = n + 1 /\ mems[1] = e.mem
      /\ \A i \in 1 .. n : mems[n + 2 - i] = e.imms[i]
      /\ DOMAIN e.imms = 1 .. n
  <2> DEFINE r == Reverse(e.imms)
             a == <<e.mem>>
             im == e.imms
  <2> HIDE DEF im
  <2>1. n \in Nat /\ DOMAIN im = 1 .. n /\ im \in Seq(Mems) /\ \A i \in 1 .. n : im[i] \in Mems
    BY <1>2 DEF im
  <2> HIDE DEF n
  <2>2. Reverse(im) = [j \in 1 .. n |-> im[(n - j) + 1]]
    BY DEF Reverse, n, im
  <2>3. \A j \in 1 .. n : (n - j) + 1 \in 1 .. n
    BY <2>1
  <2>4. Reverse(im) \in Seq(Mems) /\ Len(Reverse(im)) = n /\ \A j \in 1 .. n : Reverse(im)[j] = im[(n - j) + 1]
    BY <2>1, <2>2, <2>3
  <2> DEFINE b == Reverse(im)
  <2> HIDE DEF b
  <2>5. a \in Seq(Mems) /\ Len(a) = 1 /\ a[1] = e.mem
    BY <1>2
  <2> HIDE DEF a
  <2>6. /\ Len(a \o b) = 1 + n /\ (a \o b)[1] = a[1]
        /\ \A j \in 1 .. n : (a \o b)[1 + j] = b[j]
    <3>1. b \in Seq(Mems) /\ Len(b) = n
      BY <2>4 DEF b
    <3>2. Len(a \o b) = 1 + n
      <4>1. Len(a \o b) = Len(a) + Len(b)
        BY <2>5, <3>1, ConcatProperties
      <4> QED BY <2>5, <3>1, <4>1
    <3>3. \A j \in 1 .. 1 + n : (a \o b)[j] = IF j <= 1 THEN a[j] ELSE b[j - 1]
      <4>1. \A j \in 1 .. Len(a) + Len(b) : (a \o b)[j] = IF j <= Len(a) THEN a[j] ELSE b[j - Len(a)]
        BY <2>5, <3>1, ConcatProperties
      <4> QED BY <2>5, <3>1, <4>1
    <3>4. 1 \in 1 .. 1 + n /\ \A j \in 1 .. n : 1 + j \in 1 .. 1 + n /\ ~(1 + j <= 1) /\ (1 + j) - 1 = j
      BY <2>1
    <3> QED BY <3>2, <3>3, <3>4
  <2>7. \A i \in 1 .. n : (n + 1) - i \in 1 .. n /\ 1 + ((n + 1) - i) = n + 2 - i /\ (n - ((n + 1) - i)) + 1 = i
    BY <2>1
  <2>8. mems = a \o b
    BY DEF a, b, im
  <2>9. ASSUME NEW i \in 1 .. n PROVE mems[n + 2 - i] = im[i]
    <3> DEFINE j == (n + 1) - i
    <3>1. j \in 1 .. n /\ 1 + j = n + 2 - i /\ (n - j) + 1 = i
      BY <2>7
    <3> HIDE DEF j, mems
    <3>2. mems[1 + j] = b[j] /\ b[j] = im[(n - j) + 1]
      BY <2>4, <2>6, <2>8, <3>1 DEF b
    <3> QED BY <3>1, <3>2
  <2>10. Len(mems) = n + 1 /\ mems[1] = e.mem
    <3> HIDE DEF mems
    <3> QED BY <2>1, <2>5, <2>6, <2>8
  <2> HIDE DEF mems
  <2> QED BY <2>1, <2>9, <2>10 DEF im
<1> HIDE DEF n, mems, at, held
<1>6. I \in SUBSET Nat /\ \A i \in I : i \in 1 .. n + 1
  BY <1>5
<1>7. CASE k \in DOMAIN e.mem
  <2>1. 1 \in I /\ \A i \in I : 1 <= i
    BY <1>5, <1>6, <1>7
  <2> HIDE DEF I
  <2>2. Min(I) \in I /\ Min(I) <= 1
    BY <1>6, <2>1, MinIsMember
  <2>3. Min(I) = 1
    <3> DEFINE q == Min(I)
    <3>1. q \in Nat /\ q <= 1 /\ 1 <= q
      BY <1>6, <2>1, <2>2
    <3> HIDE DEF q
    <3>2. q = 1
      BY <3>1
    <3> QED BY <3>2 DEF q
  <2>4. at = 1
    BY <1>4, <2>1, <2>3
  <2>5. k \in DOMAIN e.last /\ e.mem[k] = e.last[k]
    BY <1>1, <1>7 DEF Recalled
  <2> QED BY <1>3, <1>5, <2>4, <2>5
<1>8. CASE k \notin DOMAIN e.mem /\ k \in DOMAIN e.last
  <2>1. PICK i : Newest(e.imms, k, i) /\ e.imms[i][k] = e.last[k]
    BY <1>1, <1>8 DEF Recalled, Latest
  <2>2. i \in 1 .. n /\ k \in DOMAIN e.imms[i] /\ \A j \in 1 .. n : j > i => k \notin DOMAIN e.imms[j]
    BY <1>5, <2>1 DEF Newest
  <2> DEFINE p == n + 2 - i
  <2>3. p \in 2 .. n + 1 /\ p # 0 /\ p \in Nat
    BY <1>5, <2>2
  <2>4. mems[p] = e.imms[i]
    BY <1>5, <2>2
  <2>5. ASSUME NEW j \in I PROVE p <= j
    <3>1. j # 1 /\ j \in 2 .. n + 1
      BY <1>5, <1>6, <1>8, <2>5
    <3>2. n + 2 - j \in 1 .. n /\ n + 2 - (n + 2 - j) = j
      BY <1>5, <3>1
    <3>3. mems[j] = e.imms[n + 2 - j]
      <4>1. mems[n + 2 - (n + 2 - j)] = e.imms[n + 2 - j]
        BY <1>5, <3>2
      <4> QED BY <3>2, <4>1
    <3>4. k \in DOMAIN e.imms[n + 2 - j]
      BY <2>5, <3>3
    <3>5. ~(n + 2 - j > i)
      BY <2>2, <3>2, <3>4
    <3> QED BY <1>5, <2>2, <3>1, <3>5
  <2>6. p \in I
    <3>1. p \in 1 .. Len(mems)
      BY <1>5, <2>3
    <3> HIDE DEF p
    <3> QED BY <2>2, <2>4, <3>1
  <2> HIDE DEF I, p
  <2>7. Min(I) \in I /\ Min(I) <= p
    BY <1>6, <2>6, MinIsMember
  <2>8. Min(I) = p
    <3> DEFINE q == Min(I)
    <3>1. q \in Nat /\ q <= p /\ p <= q
      BY <1>6, <2>5, <2>7
    <3> HIDE DEF q
    <3>2. q = p
      BY <2>3, <3>1
    <3> QED BY <3>2 DEF q
  <2>9. at = p
    BY <1>4, <2>6, <2>8
  <2> QED BY <1>3, <1>8, <2>1, <2>3, <2>4, <2>9
<1>9. CASE k \notin DOMAIN e.last
  <2>1. k \notin DOMAIN e.mem /\ \A i \in 1 .. n : k \notin DOMAIN e.imms[i]
    BY <1>1, <1>5, <1>9 DEF Recalled, Nowhere
  <2>2. ASSUME NEW j \in I PROVE FALSE
    <3>1. j # 1 /\ j \in 2 .. n + 1
      BY <1>5, <1>6, <2>1, <2>2
    <3>2. n + 2 - j \in 1 .. n /\ n + 2 - (n + 2 - j) = j
      BY <1>5, <3>1
    <3>3. mems[n + 2 - (n + 2 - j)] = e.imms[n + 2 - j]
      BY <1>5, <3>2
    <3> QED BY <2>1, <2>2, <3>2, <3>3
  <2>3. at = 0
    BY <1>4, <2>2
  <2>4. ~held
    <3>1. ASSUME NEW t \in ToSet(e.l0 \o e.l1) PROVE k \notin ToSet(t)
      <4>1. t \in ToSet(e.l0) \/ t \in ToSet(e.l1)
        BY <1>2, SetOfTwo
      <4>2. ASSUME t \in ToSet(e.l0) PROVE k \notin ToSet(t)
        <5>1. PICK j \in DOMAIN e.l0 : t = e.l0[j]
          BY <4>2 DEF ToSet
        <5>2. ToSet(t) \subseteq ToSet(FlattenSeq(e.l0))
          BY <1>2, <5>1, FlattenHas
        <5> QED BY <1>1, <1>9, <5>2 DEF Held
      <4>3. ASSUME t \in ToSet(e.l1) PROVE k \notin ToSet(t)
        <5>1. PICK j \in DOMAIN e.l1 : t = e.l1[j]
          BY <4>3 DEF ToSet
        <5>2. ToSet(t) \subseteq ToSet(FlattenSeq(e.l1))
          BY <1>2, <5>1, FlattenHas
        <5> QED BY <1>1, <1>9, <5>2 DEF Held
      <4> QED BY <4>1, <4>2, <4>3
    <3> QED BY <3>1 DEF held, TableHas
  <2> QED BY <1>3, <1>9, <2>3, <2>4
<1> QED BY <1>7, <1>8, <1>9

LEMMA EngineCounts ==
    ASSUME NEW e, EngOK(e), ~e.cut
    PROVE  EngineCount(e) >= Cardinality(DOMAIN e.last)
<1> DEFINE f0 == FlattenSeq(e.l0)
           f1 == FlattenSeq(e.l1)
           A == DOMAIN e.mem
           B == ToSet(f0)
           C == ToSet(f1)
           L == DOMAIN e.last
<1>1. e \in Engines /\ Held(e.mem, e.l0, e.l1, e.last, e.cut)
  BY DEF EngOK
<1>2. f0 \in Seq(EngKeys) /\ f1 \in Seq(EngKeys) /\ IsFiniteSet(A) /\ IsFiniteSet(L)
  BY <1>1, EngineParts, FlattenType, MemIs
<1>3. /\ IsFiniteSet(B) /\ Cardinality(B) \in Nat /\ Cardinality(B) <= Len(f0)
      /\ IsFiniteSet(C) /\ Cardinality(C) \in Nat /\ Cardinality(C) <= Len(f1)
  BY <1>2, SetNotLonger
<1>4. L \subseteq A \cup B \cup C
  BY <1>1 DEF Held
<1>5. EngineCount(e) = Cardinality(A) + Len(f0) + Len(f1)
  BY DEF EngineCount
<1>6. Len(f0) \in Nat /\ Len(f1) \in Nat
  BY <1>2
<1> HIDE DEF A, B, C, L, f0, f1
<1>7. Cardinality(A) \in Nat /\ Cardinality(L) \in Nat
  BY <1>2, FS_CardinalityType
<1>8. /\ IsFiniteSet(A \cup B) /\ Cardinality(A \cup B) \in Nat
      /\ Cardinality(A \cup B) <= Cardinality(A) + Cardinality(B)
  <2>1. IsFiniteSet(A \cup B) /\ Cardinality(A \cup B) = Cardinality(A) + Cardinality(B) - Cardinality(A \cap B)
    BY <1>2, <1>3, FS_Union
  <2>2. Cardinality(A \cap B) \in Nat /\ Cardinality(A \cup B) \in Nat
    BY <1>2, <2>1, FS_CardinalityType, FS_Intersection
  <2> QED BY <1>3, <1>7, <2>1, <2>2
<1>9. /\ IsFiniteSet(A \cup B \cup C) /\ Cardinality(A \cup B \cup C) \in Nat
      /\ Cardinality(A \cup B \cup C) <= Cardinality(A \cup B) + Cardinality(C)
  <2> DEFINE D == A \cup B
  <2> HIDE DEF D
  <2>0. IsFiniteSet(D)
    BY <1>8 DEF D
  <2>1. IsFiniteSet(D \cup C) /\ Cardinality(D \cup C) = Cardinality(D) + Cardinality(C) - Cardinality(D \cap C)
    BY <1>3, <2>0, FS_Union
  <2>2. Cardinality(D \cap C) \in Nat /\ Cardinality(D \cup C) \in Nat /\ Cardinality(D) \in Nat
    BY <1>3, <2>0, <2>1, FS_CardinalityType, FS_Intersection
  <2>3. Cardinality(D \cup C) <= Cardinality(D) + Cardinality(C)
    BY <1>3, <2>1, <2>2
  <2> QED BY <2>1, <2>2, <2>3 DEF D
<1>10. Cardinality(L) <= Cardinality(A \cup B \cup C)
  BY <1>4, <1>9, FS_Subset
<1> DEFINE a == Cardinality(A)
           b == Cardinality(B)
           c == Cardinality(C)
           x == Cardinality(A \cup B)
           y == Cardinality(A \cup B \cup C)
           l == Cardinality(L)
<1>11. /\ a \in Nat /\ b \in Nat /\ c \in Nat /\ x \in Nat /\ y \in Nat /\ l \in Nat
       /\ b <= Len(f0) /\ c <= Len(f1) /\ x <= a + b /\ y <= x + c /\ l <= y
       /\ EngineCount(e) = a + Len(f0) + Len(f1)
  BY <1>3, <1>5, <1>7, <1>8, <1>9, <1>10
<1> HIDE DEF a, b, c, x, y, l
<1>12. EngineCount(e) >= l
  BY <1>6, <1>11
<1> QED BY <1>12 DEF l, L

LEMMA EngineIsTrue ==
    ASSUME Holding("engine") => EngOK(handle)
    PROVE  EngineReadsLatest
<1> SUFFICES ASSUME Holding("engine") PROVE EngineReadsLatest
  BY DEF EngineReadsLatest
<1> DEFINE e == handle
           tables == FlattenSeq(e.l0 \o e.l1)
           flushed == FlattenSeq([i \in DOMAIN e.imms |-> KeysInOrder(DOMAIN e.imms[i])])
<1>1. EngOK(e) /\ e \in Engines /\ Rows(e.l0, e.l1, e.imms, e.cut)
  BY DEF EngOK
<1>2. flushed = Frozen(e.imms)
  BY DEF Frozen
<1>3. /\ e.l0 \in Seq(Seq(EngKeys)) /\ e.l1 \in Seq(Seq(EngKeys))
      /\ FlattenSeq(e.l0) \in Seq(EngKeys) /\ FlattenSeq(e.l1) \in Seq(EngKeys)
  BY <1>1, EngineParts, FlattenType
<1>4. \A k : Times(tables, k) = Times(FlattenSeq(e.l0), k) + Times(FlattenSeq(e.l1), k)
  <2>1. tables = FlattenSeq(e.l0) \o FlattenSeq(e.l1)
    BY <1>3, FlattenTwo
  <2> QED BY <1>3, <2>1, TimesOfTwo
<1>5. \A k \in EngKeys : EngineGet(e, k) = IF k \in DOMAIN e.last THEN {e.last[k]} ELSE {}
  BY <1>1, EngineReads
<1> HIDE DEF tables, flushed, e
<1>6. \A k \in EngKeys : Times(tables, k) <= Times(flushed, k)
  BY <1>1, <1>2, <1>4 DEF Rows
<1>7. ~e.cut => \A k \in EngKeys : Times(tables, k) = Times(flushed, k)
  BY <1>1, <1>2, <1>4 DEF Rows
<1>8. ~e.cut => EngineCount(e) >= Cardinality(DOMAIN e.last)
  BY <1>1, EngineCounts
<1> QED BY <1>5, <1>6, <1>7, <1>8 DEF EngineReadsLatest, e, tables, flushed

(* The log and the engine are in order.                                    *)
NosqlLogInv == \/ Holding("nwal") /\ NwOK(handle)
               \/ Holding("engine") /\ EngOK(handle)

LEMMA NosqlLogStarts == NosqlLogInit => NosqlLogInv
<1>1. ASSUME NEW sync \in BOOLEAN, handle = NewNwal(sync) PROVE NosqlLogInv
  <2>1. handle \in NwLogs /\ handle.kind = "nwal"
    BY <1>1, NothingRises DEF NwLogs, NewNwal
  <2>2. handle.disk = <<>> /\ handle.buffer = <<>> /\ handle.kept = 0
    BY <1>1 DEF NewNwal
  <2>3. 0 <= Len(<<>>)
    OBVIOUS
  <2> QED BY <2>1, <2>2, <2>3, NothingRises DEF NosqlLogInv, Holding, NwOK, NwBase
<1>2. ASSUME handle = NewEngine PROVE NosqlLogInv
  <2> DEFINE none == <<>>
  <2>1. none \in Seq(Mems) /\ none \in Seq(Seq(EngKeys)) /\ DOMAIN none = {}
    OBVIOUS
  <2>2. FlattenSeq(none) = none /\ ToSet(none) = {}
    <3>1. FlattenSeq(none) = none
      BY DEF FlattenSeq
    <3> QED BY <3>1 DEF ToSet
  <2>3. Frozen(none) = none
    <3>1. [i \in DOMAIN none |-> KeysInOrder(DOMAIN none[i])] = none
      OBVIOUS
    <3> QED BY <2>2, <3>1 DEF Frozen
  <2>4. \A k : Times(none, k) = 0
    <3> TAKE k
    <3>1. {i \in DOMAIN none : none[i] = k} = {}
      BY <2>1
    <3> QED BY <3>1, FS_EmptySet DEF Times
  <2> HIDE DEF none
  <2>5. /\ handle \in Engines /\ handle.kind = "engine" /\ handle.mem = EmptyMem /\ handle.last = EmptyMem
        /\ handle.imms = none /\ handle.l0 = none /\ handle.l1 = none /\ handle.cut = FALSE
    BY <1>2, <2>1, NoMem DEF Engines, NewEngine, none
  <2>6. Recalled(EmptyMem, none, EmptyMem)
    BY <2>1, NoMem DEF Recalled, Nowhere
  <2>7. Rows(none, none, none, FALSE)
    BY <2>2, <2>3, <2>4 DEF Rows
  <2>8. Held(EmptyMem, none, none, EmptyMem, FALSE)
    BY <2>2, NoMem DEF Held
  <2> QED BY <2>5, <2>6, <2>7, <2>8 DEF NosqlLogInv, Holding, EngOK
<1> QED BY <1>1, <1>2 DEF NosqlLogInit

LEMMA NosqlLogSteps == NosqlLogInv /\ [NosqlLogNext]_handle => NosqlLogInv'
<1> SUFFICES ASSUME NosqlLogInv, [NosqlLogNext]_handle PROVE NosqlLogInv'
  OBVIOUS
<1>1. CASE UNCHANGED handle
  BY <1>1 DEF NosqlLogInv, Holding, NwOK, NwBase, EngOK
<1>2. CASE NosqlLogNext /\ Holding("nwal") /\ NwOK(handle)
  <2>1. NwOK(handle')
    BY <1>2, NwalNext
  <2>2. handle'.kind = "nwal"
    BY <2>1 DEF NwOK, NwBase, NwLogs
  <2> QED BY <2>1, <2>2 DEF NosqlLogInv, Holding
<1>3. CASE NosqlLogNext /\ Holding("engine") /\ EngOK(handle)
  <2>1. ~Holding("nwal")
    BY <1>3 DEF Holding
  <2>2. EngOK(handle')
    BY <1>3, <2>1, WriteKeeps, TableAdded, CompactionKeeps DEF NosqlLogNext
  <2>3. handle'.kind = "engine"
    BY <2>2 DEF EngOK, Engines
  <2> QED BY <2>2, <2>3 DEF NosqlLogInv, Holding
<1> QED BY <1>1, <1>2, <1>3 DEF NosqlLogInv

(* The log of the nosql store rebuilds what was made durable, whatever was *)
(* torn, and replays what follows, committed or not; its engine reads the  *)
(* latest value of each key, and its tables lose none of the flushed ones  *)
(* unless a flush or a compaction was cut: wal_recover of nosql_wal.c,     *)
(* lsm_get, lsm_flush_memtable and lsm_compact of lsm_engine.c.            *)
THEOREM NosqlLogHoldsAlways == NosqlLogInit /\ [][NosqlLogNext]_handle => []NosqlLogHolds
<1>1. NosqlLogInv => NosqlLogHolds
  <2>1. NosqlLogInv => RecoveryRebuilds
    BY NwalRecovers DEF NosqlLogInv, Holding
  <2>2. NosqlLogInv => EngineReadsLatest
    BY EngineIsTrue DEF NosqlLogInv, Holding
  <2> QED BY <2>1, <2>2 DEF NosqlLogHolds
<1> QED BY <1>1, NosqlLogStarts, NosqlLogSteps, PTL
-----------------------------------------------------------------------------
(* mini-db-kernel, the LSM tree.                                           *)

(* The entries of tables, and those in the order of their keys.            *)
KEntries == [key : KKeys, val : KVals \cup {NoValue}, deleted : BOOLEAN]
SortedByKey(s) == \A i, j \in 1 .. Len(s) : i < j => s[i].key <= s[j].key

(* The keys of entries are numbers.                                        *)
LEMMA KeysAreInt ==
    ASSUME NEW s \in Seq(KEntries)
    PROVE  /\ Len(s) \in Nat /\ DOMAIN s = 1 .. Len(s)
           /\ \A i \in 1 .. Len(s) : s[i] \in KEntries /\ s[i].key \in Int
<1>1. Len(s) \in Nat /\ DOMAIN s = 1 .. Len(s) /\ \A i \in 1 .. Len(s) : s[i] \in KEntries
  OBVIOUS
<1>2. \A e \in KEntries : e.key \in KKeys
  BY DEF KEntries
<1>3. KKeys \subseteq Int
  BY KLsmAssumption
<1> QED BY <1>1, <1>2, <1>3

(* The binary search, round by round.                                      *)
LEMMA HalvedType ==
    ASSUME NEW s \in Seq(KEntries), NEW k \in KKeys,
           NEW b \in [lo : 1 .. Len(s) + 1, hi : 1 .. Len(s) + 1]
    PROVE  Halved(s, k, b) \in [lo : 1 .. Len(s) + 1, hi : 1 .. Len(s) + 1]
<1> DEFINE n == Len(s)
           mid == (b.lo + b.hi) \div 2
<1>1. n \in Nat /\ b.lo \in 1 .. n + 1 /\ b.hi \in 1 .. n + 1 /\ b = [lo |-> b.lo, hi |-> b.hi]
  OBVIOUS
<1> HIDE DEF n
<1>2. b.lo < b.hi => mid \in b.lo .. b.hi - 1
  BY <1>1
<1>3. Halved(s, k, b) = IF b.lo >= b.hi THEN b
        ELSE IF s[mid].key < k THEN [lo |-> mid + 1, hi |-> b.hi] ELSE [lo |-> b.lo, hi |-> mid]
  BY DEF Halved
<1> HIDE DEF mid
<1>4. CASE b.lo >= b.hi
  BY <1>1, <1>3, <1>4 DEF n
<1>5. CASE b.lo < b.hi
  <2>1. mid + 1 \in 1 .. n + 1 /\ mid \in 1 .. n + 1
    BY <1>1, <1>2, <1>5
  <2> QED BY <1>1, <1>3, <1>5, <2>1 DEF n
<1> QED BY <1>1, <1>4, <1>5

(* What the binary search does one round at a time.                        *)
LEMMA HalvedSteps ==
    ASSUME NEW s \in Seq(KEntries), NEW k0 \in KKeys
    PROVE  \E w : /\ w[0] = [lo |-> 1, hi |-> Len(s) + 1] /\ FindKey(s, k0) = w[Len(s)].lo
                  /\ \A k \in 1 .. Len(s) : w[k] = Halved(s, k0, w[k - 1])
                  /\ \A k \in 0 .. Len(s) : w[k] \in [lo : 1 .. Len(s) + 1, hi : 1 .. Len(s) + 1]
<1> DEFINE n == Len(s)
           S == [lo : 1 .. Len(s) + 1, hi : 1 .. Len(s) + 1]
           base == [lo |-> 1, hi |-> Len(s) + 1]
           places == [i \in DOMAIN s |-> i]
           f == [p \in (1 .. n) \X S |-> Halved(s, k0, p[2])]
           Step(g, t) == IF t = {} THEN base ELSE Halved(s, k0, g[t \ {Max(t)}])
           Solves(g, d) == g = [t \in SUBSET d |-> Step(g, t)]
           iter == CHOOSE g : Solves(g, DOMAIN places)
<1>1. FindKey(s, k0) = iter[DOMAIN places].lo
  BY DEF FindKey, FoldLeft, MapThenFoldSet
<1>2. n \in Nat /\ DOMAIN places = 1 .. n
  OBVIOUS
<1>3. \A k \in 1 .. n, x \in S : f[<<k, x>>] = Halved(s, k0, x)
  OBVIOUS
<1> HIDE DEF f
<1>4. \A k \in 1 .. n, x \in S : f[<<k, x>>] \in S
  <2> TAKE k \in 1 .. n, x \in S
  <2>1. Halved(s, k0, x) \in S
    BY HalvedType
  <2> HIDE DEF n, S
  <2> QED BY <1>3, <2>1
<1>5. base \in S
  OBVIOUS
<1> HIDE DEF n, S, base, places
<1>6. PICK h : Folds(h, n, S, base, f)
  BY <1>2, <1>4, <1>5, FoldSolved DEF StaysIn
<1>7. /\ h \in [SUBSET (1 .. n) -> S]
      /\ \A t \in SUBSET (1 .. n) : h[t] = IF t = {} THEN base ELSE f[<<Max(t), h[t \ {Max(t)}]>>]
  BY <1>6 DEF Folds
<1>8. \A t \in SUBSET (1 .. n) : h[t] = Step(h, t)
  <2> TAKE t \in SUBSET (1 .. n)
  <2>1. CASE t = {}
    BY <1>7, <2>1
  <2>2. CASE t # {}
    <3>1. t \in SUBSET (0 .. n)
      BY <1>2
    <3>2. Max(t) \in t
      BY <1>2, <2>2, <3>1, MaxIsMember
    <3>3. Max(t) \in 1 .. n /\ h[t \ {Max(t)}] \in S
      BY <1>7, <3>2
    <3>4. h[t] = f[<<Max(t), h[t \ {Max(t)}]>>]
      BY <1>7, <2>2
    <3> QED BY <1>3, <2>2, <3>3, <3>4
  <2> QED BY <2>1, <2>2
<1>9. Solves(h, 1 .. n)
  <2>1. h = [t \in SUBSET (1 .. n) |-> h[t]]
    BY <1>7
  <2> HIDE DEF Step
  <2> QED BY <1>8, <2>1
<1>10. Solves(iter, 1 .. n)
  <2> HIDE DEF Solves
  <2> QED BY <1>2, <1>9
<1> HIDE DEF iter
<1>11. \A t \in SUBSET (1 .. n) : iter[t] = Step(iter, t)
  <2> HIDE DEF Step
  <2> QED BY <1>10
<1> HIDE DEF Solves
<1> DEFINE w == [k \in 0 .. n |-> iter[1 .. k]]
<1>12. w[0] = base
  <2>1. 1 .. 0 = {} /\ {} \in SUBSET (1 .. n) /\ 0 \in 0 .. n
    BY <1>2
  <2>2. iter[{}] = base
    BY <1>11, <2>1
  <2> QED BY <2>1, <2>2
<1>13. ASSUME NEW k \in 1 .. n PROVE w[k] = Halved(s, k0, w[k - 1])
  <2>1. k \in Nat /\ k \in 1 .. k /\ 1 .. k \in SUBSET (1 .. n)
    BY <1>2
  <2>2. Max(1 .. k) = k
    BY <2>1, MaxOfTop
  <2>3. (1 .. k) \ {k} = 1 .. k - 1
    BY <2>1
  <2>4. iter[1 .. k] = Halved(s, k0, iter[1 .. k - 1])
    BY <1>11, <2>1, <2>2, <2>3
  <2>5. k \in 0 .. n /\ k - 1 \in 0 .. n
    BY <1>2
  <2> QED BY <2>4, <2>5
<1>14. FindKey(s, k0) = w[n].lo
  BY <1>1, <1>2
<1> HIDE DEF w
<1>15. \A k \in 0 .. n : w[k] \in S
  <2> DEFINE P == { k \in 0 .. n : w[k] \in S }
  <2>1. 0 \in P
    BY <1>2, <1>5, <1>12
  <2>2. ASSUME NEW k \in 1 .. n, k - 1 \in P PROVE k \in P
    <3>1. k \in 0 .. n /\ w[k - 1] \in S /\ w[k] = Halved(s, k0, w[k - 1])
      BY <1>2, <1>13, <2>2
    <3> QED BY <1>3, <1>4, <3>1
  <2>3. \A k \in 0 .. n : k \in P
    <3> HIDE DEF P
    <3> QED BY <1>2, <2>1, <2>2, InductionUpTo
  <2> QED BY <2>3
<1> QED BY <1>12, <1>13, <1>14, <1>15 DEF n, S, base

(* The middle of two places is between them.                               *)
LEMMA MidBetween ==
    ASSUME NEW lo \in Nat, NEW hi \in Nat, lo < hi
    PROVE  (lo + hi) \div 2 \in lo .. hi - 1
OBVIOUS

(* In a sequence in order the search finds the place before which the keys *)
(* are lower, and from which on they are not.                              *)
LEMMA FindKeyRight ==
    ASSUME NEW s \in Seq(KEntries), SortedByKey(s), NEW key \in KKeys
    PROVE  /\ FindKey(s, key) \in 1 .. Len(s) + 1
           /\ \A i \in 1 .. Len(s) : i < FindKey(s, key) => s[i].key < key
           /\ \A i \in 1 .. Len(s) : i >= FindKey(s, key) => s[i].key >= key
<1> DEFINE n == Len(s)
           Bounds == [lo : 1 .. n + 1, hi : 1 .. n + 1]
           Narrow(b, k) == /\ b.lo <= b.hi
                           /\ b.hi - b.lo <= n - k
                           /\ \A i \in 1 .. n : i < b.lo => s[i].key < key
                           /\ \A i \in 1 .. n : i >= b.hi => s[i].key >= key
<1>1. n \in Nat /\ key \in Int /\ \A i \in 1 .. n : s[i].key \in Int
  <2>1. key \in Int
    BY KLsmAssumption
  <2> QED BY <2>1, KeysAreInt
<1>2. \A i, j \in 1 .. n : i < j => s[i].key <= s[j].key
  BY DEF SortedByKey
<1>3. PICK w : /\ w[0] = [lo |-> 1, hi |-> n + 1] /\ FindKey(s, key) = w[n].lo
               /\ \A k \in 1 .. n : w[k] = Halved(s, key, w[k - 1])
               /\ \A k \in 0 .. n : w[k] \in Bounds
  BY HalvedSteps
<1> HIDE DEF n
<1> DEFINE P == { k \in 0 .. n : Narrow(w[k], k) }
<1>4. 0 \in P
  <2>1. w[0].lo = 1 /\ w[0].hi = n + 1 /\ 0 \in 0 .. n
    BY <1>1, <1>3
  <2>2. Narrow(w[0], 0)
    BY <1>1, <2>1
  <2> QED BY <2>1, <2>2
<1>5. ASSUME NEW k \in 1 .. n, k - 1 \in P PROVE k \in P
  <2> DEFINE b == w[k - 1]
             c == w[k]
             mid == (b.lo + b.hi) \div 2
  <2>1. /\ b.lo \in 1 .. n + 1 /\ b.hi \in 1 .. n + 1 /\ Narrow(b, k - 1) /\ k \in 0 .. n /\ k \in Nat
    <3>1. k - 1 \in 0 .. n /\ k \in 0 .. n /\ k \in Nat
      BY <1>1
    <3>2. b \in Bounds
      BY <1>3, <3>1
    <3> HIDE DEF Narrow, b
    <3> QED BY <1>5, <3>1, <3>2 DEF b
  <2>2. c = IF b.lo >= b.hi THEN b
            ELSE IF s[mid].key < key THEN [lo |-> mid + 1, hi |-> b.hi] ELSE [lo |-> b.lo, hi |-> mid]
    BY <1>3 DEF Halved
  <2>3. b.lo < b.hi => mid \in b.lo .. b.hi - 1
    <3>1. b.lo \in Nat /\ b.hi \in Nat
      BY <1>1, <2>1
    <3> HIDE DEF b
    <3> QED BY <3>1, MidBetween
  <2> HIDE DEF b, c, mid
  <2>4. Narrow(c, k)
    <3>1. CASE b.lo >= b.hi
      <4>1. c = b
        BY <2>2, <3>1
      <4>2. b.hi - b.lo <= n - k
        BY <1>1, <2>1, <3>1
      <4> QED BY <2>1, <4>1, <4>2
    <3>2. CASE b.lo < b.hi /\ s[mid].key < key
      <4>1. mid \in 1 .. n /\ c.lo = mid + 1 /\ c.hi = b.hi /\ mid \in Int
        BY <1>1, <2>1, <2>2, <2>3, <3>2, SMTT(60)
      <4>2. \A i \in 1 .. n : i < mid + 1 => s[i].key < key
        BY <1>1, <1>2, <3>2, <4>1
      <4>3. c.lo <= c.hi /\ c.hi - c.lo <= n - k
        BY <1>1, <2>1, <2>3, <3>2, <4>1
      <4> QED BY <2>1, <4>1, <4>2, <4>3
    <3>3. CASE b.lo < b.hi /\ ~(s[mid].key < key)
      <4>1. mid \in 1 .. n /\ c.lo = b.lo /\ c.hi = mid /\ mid \in Int
        BY <1>1, <2>1, <2>2, <2>3, <3>3, SMTT(60)
      <4>2. \A i \in 1 .. n : i >= mid => s[i].key >= key
        BY <1>1, <1>2, <3>3, <4>1
      <4>3. c.lo <= c.hi /\ c.hi - c.lo <= n - k
        BY <1>1, <2>1, <2>3, <3>3, <4>1
      <4> QED BY <2>1, <4>1, <4>2, <4>3
    <3> QED BY <2>1, <3>1, <3>2, <3>3
  <2> HIDE DEF Narrow
  <2> QED BY <2>1, <2>4 DEF c
<1>6. n \in P
  <2>1. \A k \in 0 .. n : k \in P
    <3> HIDE DEF P
    <3> QED BY <1>1, <1>4, <1>5, InductionUpTo
  <2>2. n \in 0 .. n
    BY <1>1
  <2> HIDE DEF P
  <2> QED BY <2>1, <2>2
<1>7. w[n].lo \in 1 .. n + 1 /\ w[n].hi \in 1 .. n + 1
  BY <1>1, <1>3
<1>8. w[n].lo = w[n].hi
  BY <1>1, <1>6, <1>7
<1> QED BY <1>3, <1>6, <1>7, <1>8 DEF n

(* The search says whether a key is there, and where.                      *)
LEMMA AtMeans ==
    ASSUME NEW s \in Seq(KEntries), SortedByKey(s), NEW key \in KKeys
    PROVE  /\ At(s, key) <=> \E e \in ToSet(s) : e.key = key
           /\ At(s, key) => /\ FindKey(s, key) \in 1 .. Len(s)
                            /\ s[FindKey(s, key)] \in ToSet(s) /\ s[FindKey(s, key)].key = key
<1> DEFINE n == Len(s)
           p == FindKey(s, key)
<1>1. n \in Nat /\ DOMAIN s = 1 .. n /\ key \in Int /\ \A i \in 1 .. n : s[i].key \in Int
  <2>1. key \in Int
    BY KLsmAssumption
  <2> QED BY <2>1, KeysAreInt
<1>2. /\ p \in 1 .. n + 1
      /\ \A i \in 1 .. n : i < p => s[i].key < key
      /\ \A i \in 1 .. n : i >= p => s[i].key >= key
  BY FindKeyRight
<1>3. At(s, key) <=> p <= n /\ s[p].key = key
  BY DEF At
<1>4. ToSet(s) = { s[i] : i \in 1 .. n }
  BY <1>1 DEF ToSet
<1>5. \A i, j \in 1 .. n : i < j => s[i].key <= s[j].key
  BY DEF SortedByKey
<1> HIDE DEF n, p
<1>6. ASSUME At(s, key) PROVE p \in 1 .. n /\ s[p] \in ToSet(s) /\ s[p].key = key
  BY <1>1, <1>2, <1>3, <1>4, <1>6
<1>7. ASSUME NEW i \in 1 .. n, s[i].key = key PROVE At(s, key)
  <2>1. i >= p /\ p <= n
    BY <1>1, <1>2, <1>7
  <2>2. p \in 1 .. n /\ s[p].key >= key /\ (p < i => s[p].key <= s[i].key)
    BY <1>1, <1>2, <1>5, <2>1
  <2>3. s[p].key = key
    BY <1>1, <1>7, <2>1, <2>2
  <2> QED BY <1>3, <2>1, <2>3
<1> QED BY <1>4, <1>6, <1>7 DEF n, p

-----------------------------------------------------------------------------
(* A table is made of entries in their order.                              *)
TableOK(t) == /\ t.entries \in Seq(KEntries) /\ t.entries # <<>> /\ SortedByKey(t.entries)
              /\ t = TableOf(t.entries)

(* What an entry says of its key.                                          *)
Says(e, v) == IF e.deleted THEN v = NoValue ELSE v = e.val

(* A table is searched rightly: what is found is there, and a value that   *)
(* is there is found.                                                      *)
LEMMA SearchMeans ==
    ASSUME NEW t, TableOK(t), NEW key \in KKeys, NEW v,
           \A e \in ToSet(t.entries) : e.key = key => Says(e, v)
    PROVE  /\ SstableSearch(t, key) # NoValue => SstableSearch(t, key) = v
           /\ v # NoValue /\ (\E e \in ToSet(t.entries) : e.key = key) => SstableSearch(t, key) = v
<1> DEFINE s == t.entries
           n == Len(s)
           p == FindKey(s, key)
<1>1. s \in Seq(KEntries) /\ n \in Nat /\ n # 0 /\ DOMAIN s = 1 .. n /\ SortedByKey(s)
      /\ \A i \in 1 .. n : s[i] \in KEntries
  BY DEF TableOK
<1>2. t.min = s[1].key /\ t.max = s[n].key /\ t.bloom = UNION {KBits[s[i].key] : i \in 1 .. n}
  BY <1>1 DEF TableOK, TableOf
<1>3. key \in Int /\ \A i \in 1 .. n : s[i].key \in Int
  <2>1. key \in Int
    BY KLsmAssumption
  <2> QED BY <1>1, <2>1, KeysAreInt
<1>4. SstableSearch(t, key) = IF key < t.min \/ key > t.max \/ ~BloomCheck(t.bloom, key) THEN NoValue
                              ELSE IF At(s, key) /\ ~s[p].deleted THEN s[p].val ELSE NoValue
  BY DEF SstableSearch
<1>5. /\ At(s, key) <=> \E e \in ToSet(s) : e.key = key
      /\ At(s, key) => s[p] \in ToSet(s) /\ s[p].key = key
  BY <1>1, AtMeans
<1>6. At(s, key) => Says(s[p], v)
  BY <1>5
<1>7. ASSUME NEW e \in ToSet(s), e.key = key
      PROVE  ~(key < t.min \/ key > t.max \/ ~BloomCheck(t.bloom, key))
  <2>1. PICK i \in 1 .. n : s[i] = e
    BY <1>1 DEF ToSet
  <2>2. s[1].key <= key
    <3>1. i = 1 \/ 1 < i
      OBVIOUS
    <3>2. 1 \in 1 .. n
      BY <1>1
    <3> QED BY <1>1, <1>3, <1>7, <2>1, <3>1, <3>2 DEF SortedByKey
  <2>3. key <= s[n].key
    <3>1. i = n \/ i < n
      BY <1>1
    <3>2. n \in 1 .. n
      BY <1>1
    <3> QED BY <1>1, <1>3, <1>7, <2>1, <3>1, <3>2 DEF SortedByKey
  <2>4. KBits[key] \subseteq t.bloom
    BY <1>2, <1>7, <2>1
  <2>5. s[1].key \in Int /\ s[n].key \in Int
    BY <1>1, <1>3
  <2> HIDE DEF n, s
  <2> QED BY <1>2, <1>3, <2>2, <2>3, <2>4, <2>5 DEF BloomCheck
<1> HIDE DEF p, n
<1> QED BY <1>4, <1>5, <1>6, <1>7 DEF Says

Tables == { TableOf(es) : es \in { s \in Seq(KEntries) : s # <<>> /\ SortedByKey(s) } }

(* A key is at one place.                                                  *)
Single(s, key) == \A i, j \in 1 .. Len(s) : s[i].key = key /\ s[j].key = key => i = j

TreeOK(t) ==
    /\ t = [mem |-> t.mem, tables |-> t.tables, cut |-> t.cut]
    /\ t.mem \in Seq(KEntries) /\ SortedByKey(t.mem)
    /\ t.tables \in [0 .. KLevels - 1 -> Seq(Tables)]

(* An entry is in one of the tables.                                       *)
Tabled(t, e) == \E l \in 0 .. KLevels - 1 : \E i \in DOMAIN t.tables[l] :
                   e \in ToSet(t.tables[l][i].entries)

(* What the tree tells of a key: the one entry of the memtable, or else    *)
(* every table that has it.                                                *)
Has(s, key) == \E e \in ToSet(s) : e.key = key
Told(t, key, v) ==
    /\ Single(t.mem, key)
    /\ IF Has(t.mem, key) THEN \A e \in ToSet(t.mem) : e.key = key => Says(e, v)
       ELSE /\ \A e : Tabled(t, e) /\ e.key = key => Says(e, v)
            /\ v # NoValue => \E e : Tabled(t, e) /\ e.key = key

(* A table holds entries in the order of their keys.                       *)
LEMMA TablesOK == ASSUME NEW t \in Tables PROVE TableOK(t)
<1>1. PICK es \in Seq(KEntries) : es # <<>> /\ SortedByKey(es) /\ t = TableOf(es)
  BY DEF Tables
<1>2. t.entries = es
  BY <1>1 DEF TableOf
<1> QED BY <1>1, <1>2 DEF TableOK

(* lsm_get reads what the tree tells.                                      *)
LEMMA GetTold ==
    ASSUME NEW t, TreeOK(t), NEW key \in KKeys, NEW v, Told(t, key, v)
    PROVE  KGet(t, key) = v
<1> DEFINE p == FindKey(t.mem, key)
           n == KLevels
           lists == [l \in 1 .. n |-> t.tables[l - 1]]
           all == FlattenSeq(lists)
           found == {i \in DOMAIN all : SstableSearch(all[i], key) # NoValue}
<1>1. /\ t.mem \in Seq(KEntries) /\ SortedByKey(t.mem) /\ n \in Nat
      /\ t.tables \in [0 .. n - 1 -> Seq(Tables)]
  BY KLsmAssumption DEF TreeOK
<1>2. KGet(t, key) = IF At(t.mem, key) THEN IF t.mem[p].deleted THEN NoValue ELSE t.mem[p].val
                     ELSE IF found = {} THEN NoValue ELSE SstableSearch(all[Min(found)], key)
  BY DEF KGet
<1>3. /\ At(t.mem, key) <=> Has(t.mem, key)
      /\ At(t.mem, key) => t.mem[p] \in ToSet(t.mem) /\ t.mem[p].key = key
  BY <1>1, AtMeans DEF Has
<1>4. CASE At(t.mem, key)
  <2>1. Says(t.mem[p], v)
    BY <1>3, <1>4 DEF Told
  <2> QED BY <1>2, <1>4, <2>1 DEF Says
<1>5. CASE ~At(t.mem, key)
  <2>1. /\ \A e : Tabled(t, e) /\ e.key = key => Says(e, v)
        /\ v # NoValue => \E e : Tabled(t, e) /\ e.key = key
    BY <1>3, <1>5 DEF Told
  <2>2. lists \in [1 .. n -> Seq(Tables)] /\ \A l \in 1 .. n : lists[l] = t.tables[l - 1]
    BY <1>1
  <2> HIDE DEF lists
  <2>3. Placed(Tables, lists, n, all)
    BY <1>1, <2>2, FlattenPlaced
  <2> HIDE DEF all
  <2>4. /\ all \in Seq(Tables) /\ DOMAIN all = 1 .. Len(all) /\ Len(all) \in Nat
        /\ \A i \in 1 .. Len(all) : \E l \in 1 .. n : all[i] \in ToSet(lists[l])
        /\ \A l \in 1 .. n : ToSet(lists[l]) \subseteq ToSet(all)
    <3>1. all \in Seq(Tables)
      BY <2>3 DEF Placed
    <3> QED BY <2>3, <3>1 DEF Placed
  <2>5. ASSUME NEW i \in 1 .. Len(all), NEW e \in ToSet(all[i].entries) PROVE Tabled(t, e)
    <3>1. PICK l \in 1 .. n : all[i] \in ToSet(lists[l])
      BY <2>4
    <3>2. lists[l] = t.tables[l - 1] /\ l - 1 \in 0 .. KLevels - 1
      BY <1>1, <2>2
    <3>3. PICK j \in DOMAIN t.tables[l - 1] : all[i] = t.tables[l - 1][j]
      BY <3>1, <3>2 DEF ToSet
    <3> HIDE DEF n
    <3> QED BY <2>5, <3>2, <3>3 DEF Tabled
  <2>6. ASSUME NEW e, Tabled(t, e) PROVE \E i \in 1 .. Len(all) : e \in ToSet(all[i].entries)
    <3>1. PICK l \in 0 .. KLevels - 1 : \E i \in DOMAIN t.tables[l] : e \in ToSet(t.tables[l][i].entries)
      BY <2>6 DEF Tabled
    <3>2. PICK i \in DOMAIN t.tables[l] : e \in ToSet(t.tables[l][i].entries)
      BY <3>1
    <3>3. l + 1 \in 1 .. n /\ (l + 1) - 1 = l
      BY <1>1
    <3>4. lists[l + 1] = t.tables[l]
      BY <2>2, <3>3
    <3>5. t.tables[l][i] \in ToSet(all)
      BY <2>4, <3>2, <3>3, <3>4 DEF ToSet
    <3>6. PICK j \in 1 .. Len(all) : all[j] = t.tables[l][i]
      BY <2>4, <3>5 DEF ToSet
    <3> QED BY <3>2, <3>6
  <2>7. ASSUME NEW i \in 1 .. Len(all)
        PROVE  /\ SstableSearch(all[i], key) # NoValue => SstableSearch(all[i], key) = v
               /\ v # NoValue /\ (\E e \in ToSet(all[i].entries) : e.key = key)
                     => SstableSearch(all[i], key) = v
    <3>1. TableOK(all[i])
      <4>1. all[i] \in Tables
        BY <2>4
      <4> QED BY <4>1, TablesOK
    <3>2. \A e \in ToSet(all[i].entries) : e.key = key => Says(e, v)
      BY <2>1, <2>5
    <3> QED BY <3>1, <3>2, SearchMeans
  <2>8. CASE found = {}
    <3>1. v = NoValue
      <4> SUFFICES ASSUME v # NoValue PROVE FALSE
        OBVIOUS
      <4>1. PICK e : Tabled(t, e) /\ e.key = key
        BY <2>1
      <4>2. PICK i \in 1 .. Len(all) : e \in ToSet(all[i].entries)
        BY <2>6, <4>1
      <4>3. i \in found
        BY <2>4, <2>7, <4>1, <4>2
      <4> QED BY <2>8, <4>3
    <3> QED BY <1>2, <1>5, <2>8, <3>1
  <2>9. CASE found # {}
    <3>1. found \in SUBSET Nat
      BY <2>4
    <3>2. Min(found) \in found
      <4> HIDE DEF found
      <4> QED BY <2>9, <3>1, MinIsMember
    <3> DEFINE m == Min(found)
    <3>3. m \in 1 .. Len(all) /\ SstableSearch(all[m], key) # NoValue
      BY <2>4, <3>2
    <3> HIDE DEF m
    <3>4. SstableSearch(all[m], key) = v
      BY <2>7, <3>3
    <3> QED BY <1>2, <1>5, <2>9, <3>4 DEF m
  <2> QED BY <2>8, <2>9
<1> QED BY <1>4, <1>5

(* The sequences of the same length with the same members.                 *)
Alike(s) == { b \in Seq(KEntries) : Len(b) = Len(s) /\ ToSet(b) = ToSet(s) }

(* An exchange of two places.                                              *)
Swapped(b, c, i, j) ==
  /\ c[i] = IF b[i].key > b[j].key THEN b[j] ELSE b[i]
  /\ c[j] = IF b[i].key > b[j].key THEN b[i] ELSE b[j]
  /\ \A k \in 1 .. Len(b) : k # i /\ k # j => c[k] = b[k]

(* An exchange puts the lower key first and leaves the other places.       *)
LEMMA ExchangedIs ==
    ASSUME NEW b \in Seq(KEntries), NEW i \in 1 .. Len(b), NEW j \in 1 .. Len(b), i < j
    PROVE  /\ Exchanged(b, i, j) \in Alike(b)
           /\ Swapped(b, Exchanged(b, i, j), i, j)
<1> DEFINE c == Exchanged(b, i, j)
           n == Len(b)
           d == [b EXCEPT ![i] = b[j], ![j] = b[i]]
<1>1. n \in Nat /\ DOMAIN b = 1 .. n /\ \A k \in 1 .. n : b[k] \in KEntries
  OBVIOUS
<1>2. c = IF b[i].key > b[j].key THEN d ELSE b
  BY DEF Exchanged
<1>3. /\ d \in Seq(KEntries) /\ Len(d) = n /\ DOMAIN d = 1 .. n
      /\ d[i] = b[j] /\ d[j] = b[i] /\ \A k \in 1 .. n : k # i /\ k # j => d[k] = b[k]
  OBVIOUS
<1> HIDE DEF n, d
<1>4. ToSet(d) = ToSet(b)
  <2>1. ToSet(d) = { d[k] : k \in 1 .. n } /\ ToSet(b) = { b[k] : k \in 1 .. n }
    BY <1>1, <1>3 DEF ToSet
  <2>2. i \in 1 .. n /\ j \in 1 .. n
    BY DEF n
  <2>3. \A k \in 1 .. n : \E m \in 1 .. n : d[k] = b[m]
    BY <1>3, <2>2
  <2>4. \A k \in 1 .. n : \E m \in 1 .. n : b[k] = d[m]
    BY <1>3, <2>2
  <2>5. ToSet(d) \subseteq ToSet(b)
    BY <2>1, <2>3
  <2>6. ToSet(b) \subseteq ToSet(d)
    BY <2>1, <2>4
  <2> QED BY <2>5, <2>6
<1>5. d \in Alike(b) /\ b \in Alike(b)
  BY <1>3, <1>4 DEF Alike, n
<1> HIDE DEF c
<1>6. CASE b[i].key > b[j].key
  <2>1. c = d /\ i \in 1 .. n /\ j \in 1 .. n
    BY <1>2, <1>6 DEF n
  <2> QED BY <1>3, <1>5, <1>6, <2>1 DEF c, n, Swapped
<1>7. CASE ~(b[i].key > b[j].key)
  <2>1. c = b
    BY <1>2, <1>7
  <2> QED BY <1>5, <1>7, <2>1 DEF c, Swapped
<1> QED BY <1>6, <1>7

(* An exchange changes neither the length nor the members.                 *)
LEMMA ExchangedAlike ==
    ASSUME NEW s, NEW b \in Alike(s), NEW i \in 1 .. Len(s), NEW j \in 1 .. Len(s)
    PROVE  Exchanged(b, i, j) \in Alike(s)
<1>1. b \in Seq(KEntries) /\ Len(b) = Len(s) /\ ToSet(b) = ToSet(s)
  BY DEF Alike
<1>2. CASE j > i
  <2>1. Exchanged(b, i, j) \in Alike(b)
    BY <1>1, <1>2, ExchangedIs
  <2> QED BY <1>1, <2>1 DEF Alike
<1>3. CASE ~(j > i)
  BY <1>3 DEF Exchanged
<1> QED BY <1>2, <1>3

(* What a round of the sort does one place at a time.                       *)
LEMMA ExchangedSteps ==
    ASSUME NEW s \in Seq(KEntries), NEW i0 \in 1 .. Len(s)
    PROVE  \E w : /\ w[0] = s /\ ExchangedAll(s, i0) = w[Len(s)]
                  /\ \A k \in 1 .. Len(s) : w[k] = Exchanged(w[k - 1], i0, k)
                  /\ \A k \in 0 .. Len(s) : w[k] \in Alike(s)
<1> DEFINE n == Len(s)
           S == Alike(s)
           base == s
           places == [i \in DOMAIN s |-> i]
           f == [p \in (1 .. n) \X S |-> Exchanged(p[2], i0, p[1])]
           Step(g, t) == IF t = {} THEN base ELSE Exchanged(g[t \ {Max(t)}], i0, places[Max(t)])
           Solves(g, d) == g = [t \in SUBSET d |-> Step(g, t)]
           iter == CHOOSE g : Solves(g, DOMAIN places)
<1>1. ExchangedAll(s, i0) = iter[DOMAIN places]
  BY DEF ExchangedAll, FoldLeft, MapThenFoldSet
<1>2. n \in Nat /\ DOMAIN places = 1 .. n /\ \A k \in 1 .. n : places[k] = k
  OBVIOUS
<1>3. \A k \in 1 .. n, x \in S : f[<<k, x>>] = Exchanged(x, i0, k)
  OBVIOUS
<1> HIDE DEF f
<1>4. \A k \in 1 .. n, x \in S : f[<<k, x>>] \in S
  <2> TAKE k \in 1 .. n, x \in S
  <2>1. Exchanged(x, i0, k) \in S
    BY ExchangedAlike
  <2> HIDE DEF n, S
  <2> QED BY <1>3, <2>1
<1>5. base \in S
  BY DEF Alike
<1> HIDE DEF n, S, base, places
<1>6. PICK h : Folds(h, n, S, base, f)
  BY <1>2, <1>4, <1>5, FoldSolved DEF StaysIn
<1>7. /\ h \in [SUBSET (1 .. n) -> S]
      /\ \A t \in SUBSET (1 .. n) : h[t] = IF t = {} THEN base ELSE f[<<Max(t), h[t \ {Max(t)}]>>]
  BY <1>6 DEF Folds
<1>8. \A t \in SUBSET (1 .. n) : h[t] = Step(h, t)
  <2> TAKE t \in SUBSET (1 .. n)
  <2>1. CASE t = {}
    BY <1>7, <2>1
  <2>2. CASE t # {}
    <3>1. t \in SUBSET (0 .. n)
      BY <1>2
    <3>2. Max(t) \in t
      BY <1>2, <2>2, <3>1, MaxIsMember
    <3>3. Max(t) \in 1 .. n /\ h[t \ {Max(t)}] \in S
      BY <1>7, <3>2
    <3>4. h[t] = f[<<Max(t), h[t \ {Max(t)}]>>]
      BY <1>7, <2>2
    <3> QED BY <1>3, <1>2, <2>2, <3>3, <3>4
  <2> QED BY <2>1, <2>2
<1>9. Solves(h, 1 .. n)
  <2>1. h = [t \in SUBSET (1 .. n) |-> h[t]]
    BY <1>7
  <2> HIDE DEF Step
  <2> QED BY <1>8, <2>1
<1>10. Solves(iter, 1 .. n)
  <2> HIDE DEF Solves
  <2> QED BY <1>2, <1>9
<1> HIDE DEF iter
<1>11. \A t \in SUBSET (1 .. n) : iter[t] = Step(iter, t)
  <2> HIDE DEF Step
  <2> QED BY <1>10
<1> HIDE DEF Solves
<1> DEFINE w == [k \in 0 .. n |-> iter[1 .. k]]
<1>12. w[0] = base
  <2>1. 1 .. 0 = {} /\ {} \in SUBSET (1 .. n) /\ 0 \in 0 .. n
    BY <1>2
  <2>2. iter[{}] = base
    BY <1>11, <2>1
  <2> QED BY <2>1, <2>2
<1>13. ASSUME NEW k \in 1 .. n PROVE w[k] = Exchanged(w[k - 1], i0, k)
  <2>1. k \in Nat /\ k \in 1 .. k /\ 1 .. k \in SUBSET (1 .. n)
    BY <1>2
  <2>2. Max(1 .. k) = k
    BY <2>1, MaxOfTop
  <2>3. (1 .. k) \ {k} = 1 .. k - 1
    BY <2>1
  <2>4. iter[1 .. k] = Exchanged(iter[1 .. k - 1], i0, k)
    BY <1>11, <1>2, <2>1, <2>2, <2>3
  <2>5. k \in 0 .. n /\ k - 1 \in 0 .. n
    BY <1>2
  <2> QED BY <2>4, <2>5
<1>14. ExchangedAll(s, i0) = w[n]
  BY <1>1, <1>2
<1> HIDE DEF w
<1>15. \A k \in 0 .. n : w[k] \in S
  <2> DEFINE P == { k \in 0 .. n : w[k] \in S }
  <2>1. 0 \in P
    BY <1>2, <1>5, <1>12
  <2>2. ASSUME NEW k \in 1 .. n, k - 1 \in P PROVE k \in P
    <3>1. k \in 0 .. n /\ w[k - 1] \in S /\ w[k] = Exchanged(w[k - 1], i0, k)
      BY <1>2, <1>13, <2>2
    <3> QED BY <1>3, <1>4, <3>1
  <2>3. \A k \in 0 .. n : k \in P
    <3> HIDE DEF P
    <3> QED BY <1>2, <2>1, <2>2, InductionUpTo
  <2> QED BY <2>3
<1> QED BY <1>12, <1>13, <1>14, <1>15 DEF n, S, base

(* Before the first m places everything is in order.                       *)
InOrderTo(s, m) == \A x \in 1 .. m, y \in 1 .. Len(s) : x < y => s[x].key <= s[y].key

(* A round of the sort brings the least of the rest to its place.          *)
LEMMA ExchangedAllRight ==
    ASSUME NEW s \in Seq(KEntries), NEW i \in 1 .. Len(s), InOrderTo(s, i - 1)
    PROVE  ExchangedAll(s, i) \in Alike(s) /\ InOrderTo(ExchangedAll(s, i), i)
<1> DEFINE n == Len(s)
           Leading(b, k) == /\ InOrderTo(b, i - 1)
                          /\ \A y \in 1 .. n : i < y /\ y <= k => b[i].key <= b[y].key
<1>1. n \in Nat /\ i \in 1 .. n /\ i \in Nat
  OBVIOUS
<1>2. PICK w : /\ w[0] = s /\ ExchangedAll(s, i) = w[n]
               /\ \A k \in 1 .. n : w[k] = Exchanged(w[k - 1], i, k)
               /\ \A k \in 0 .. n : w[k] \in Alike(s)
  BY ExchangedSteps
<1>3. \A k \in 0 .. n : w[k] \in Seq(KEntries) /\ Len(w[k]) = n
  BY <1>2 DEF Alike
<1> HIDE DEF n
<1> DEFINE P == { k \in 0 .. n : Leading(w[k], k) }
<1>4. 0 \in P
  BY <1>1, <1>2
<1>5. ASSUME NEW k \in 1 .. n, k - 1 \in P PROVE k \in P
  <2> DEFINE b == w[k - 1]
             c == w[k]
  <2>1. k - 1 \in 0 .. n /\ k \in 0 .. n /\ k \in Nat
    BY <1>1
  <2>2. b \in Seq(KEntries) /\ c \in Seq(KEntries) /\ Len(b) = n /\ Len(c) = n /\ c = Exchanged(b, i, k)
    BY <1>2, <1>3, <2>1
  <2>3. Leading(b, k - 1)
    BY <1>5
  <2> HIDE DEF b, c
  <2>4. \A y \in 1 .. n : b[y].key \in Int
    BY <2>2, KeysAreInt
  <2>5. \A x \in 1 .. i - 1, y \in 1 .. n : x < y => b[x].key <= b[y].key
    BY <2>2, <2>3 DEF InOrderTo
  <2>6. \A y \in 1 .. n : i < y /\ y <= k - 1 => b[i].key <= b[y].key
    BY <2>3
  <2>7. CASE ~(i < k)
    <3>1. c = b
      BY <1>1, <2>1, <2>2, <2>7 DEF Exchanged
    <3>2. Leading(c, k)
      BY <1>1, <2>1, <2>3, <2>7, <3>1
    <3> HIDE DEF Leading
    <3> QED BY <2>1, <3>2 DEF c
  <2>8. CASE i < k
    <3>1. /\ c[i] = IF b[i].key > b[k].key THEN b[k] ELSE b[i]
          /\ c[k] = IF b[i].key > b[k].key THEN b[i] ELSE b[k]
          /\ \A y \in 1 .. n : y # i /\ y # k => c[y] = b[y]
      <4>1. i \in 1 .. Len(b) /\ k \in 1 .. Len(b)
        BY <1>1, <2>2
      <4>2. Swapped(b, c, i, k)
        BY <2>2, <2>8, <4>1, ExchangedIs
      <4> QED BY <2>2, <4>2 DEF Swapped
    <3>2. ASSUME NEW x \in 1 .. i - 1, NEW y \in 1 .. n, x < y PROVE c[x].key <= c[y].key
      <4>1. x \in 1 .. n /\ x # i /\ x # k /\ x < i /\ x < k
        BY <1>1, <2>8
      <4>2. b[x].key <= b[y].key /\ b[x].key <= b[i].key /\ b[x].key <= b[k].key
        BY <1>1, <2>5, <3>2, <4>1
      <4>3. c[y] = b[y] \/ c[y] = b[i] \/ c[y] = b[k]
        BY <3>1
      <4> QED BY <3>1, <4>1, <4>2, <4>3
    <3>3. ASSUME NEW y \in 1 .. n, i < y, y <= k PROVE c[i].key <= c[y].key
      <4>1. CASE y = k
        BY <1>1, <2>4, <3>1, <4>1
      <4>2. CASE y # k
        <5>1. y <= k - 1 /\ y # i /\ c[y] = b[y]
          BY <1>1, <2>1, <3>1, <3>3, <4>2
        <5>2. b[i].key <= b[y].key /\ b[k].key \in Int /\ b[i].key \in Int /\ b[y].key \in Int
          BY <1>1, <2>4, <2>6, <3>3, <5>1
        <5> QED BY <3>1, <5>1, <5>2
      <4> QED BY <4>1, <4>2
    <3>4. Leading(c, k)
      BY <2>2, <3>2, <3>3 DEF InOrderTo
    <3> HIDE DEF Leading
    <3> QED BY <2>1, <3>4 DEF c
  <2> QED BY <2>7, <2>8
<1>6. n \in P
  <2>1. \A k \in 0 .. n : k \in P
    <3> HIDE DEF P
    <3> QED BY <1>1, <1>4, <1>5, InductionUpTo
  <2> QED BY <1>1, <2>1
<1> DEFINE c == w[n]
<1>7. Leading(c, n) /\ Len(c) = n /\ c \in Alike(s)
  BY <1>1, <1>2, <1>3, <1>6
<1> HIDE DEF c
<1>8. \A x \in 1 .. i, y \in 1 .. n : x < y => c[x].key <= c[y].key
  <2>1. \A x \in 1 .. i : x = i \/ x \in 1 .. i - 1
    BY <1>1
  <2> QED BY <1>1, <1>7, <2>1 DEF InOrderTo
<1> QED BY <1>2, <1>7, <1>8 DEF InOrderTo, c

(* A round of the sort changes neither the length nor the members.         *)
LEMMA ExchangedAllAlike ==
    ASSUME NEW s, NEW b \in Alike(s), NEW i \in 1 .. Len(s)
    PROVE  ExchangedAll(b, i) \in Alike(s)
<1>1. b \in Seq(KEntries) /\ Len(b) = Len(s) /\ ToSet(b) = ToSet(s) /\ Len(b) \in Nat
  BY DEF Alike
<1>2. PICK w : /\ ExchangedAll(b, i) = w[Len(b)]
               /\ \A k \in 0 .. Len(b) : w[k] \in Alike(b)
  BY <1>1, ExchangedSteps
<1>3. ExchangedAll(b, i) \in Alike(b)
  BY <1>1, <1>2
<1> QED BY <1>1, <1>3 DEF Alike

(* What the sort does round by round.                                       *)
LEMMA SortSteps ==
    ASSUME NEW s \in Seq(KEntries)
    PROVE  \E w : /\ w[0] = s /\ ByKey(s) = w[Len(s)]
                  /\ \A k \in 1 .. Len(s) : w[k] = ExchangedAll(w[k - 1], k)
                  /\ \A k \in 0 .. Len(s) : w[k] \in Alike(s)
<1> DEFINE n == Len(s)
           S == Alike(s)
           base == s
           places == [i \in DOMAIN s |-> i]
           f == [p \in (1 .. n) \X S |-> ExchangedAll(p[2], p[1])]
           Step(g, t) == IF t = {} THEN base ELSE ExchangedAll(g[t \ {Max(t)}], places[Max(t)])
           Solves(g, d) == g = [t \in SUBSET d |-> Step(g, t)]
           iter == CHOOSE g : Solves(g, DOMAIN places)
<1>1. ByKey(s) = iter[DOMAIN places]
  BY DEF ByKey, FoldLeft, MapThenFoldSet
<1>2. n \in Nat /\ DOMAIN places = 1 .. n /\ \A k \in 1 .. n : places[k] = k
  OBVIOUS
<1>3. \A k \in 1 .. n, x \in S : f[<<k, x>>] = ExchangedAll(x, k)
  OBVIOUS
<1> HIDE DEF f
<1>4. \A k \in 1 .. n, x \in S : f[<<k, x>>] \in S
  <2> TAKE k \in 1 .. n, x \in S
  <2>1. ExchangedAll(x, k) \in S
    BY ExchangedAllAlike
  <2> HIDE DEF n, S
  <2> QED BY <1>3, <2>1
<1>5. base \in S
  BY DEF Alike
<1> HIDE DEF n, S, base, places
<1>6. PICK h : Folds(h, n, S, base, f)
  BY <1>2, <1>4, <1>5, FoldSolved DEF StaysIn
<1>7. /\ h \in [SUBSET (1 .. n) -> S]
      /\ \A t \in SUBSET (1 .. n) : h[t] = IF t = {} THEN base ELSE f[<<Max(t), h[t \ {Max(t)}]>>]
  BY <1>6 DEF Folds
<1>8. \A t \in SUBSET (1 .. n) : h[t] = Step(h, t)
  <2> TAKE t \in SUBSET (1 .. n)
  <2>1. CASE t = {}
    BY <1>7, <2>1
  <2>2. CASE t # {}
    <3>1. t \in SUBSET (0 .. n)
      BY <1>2
    <3>2. Max(t) \in t
      BY <1>2, <2>2, <3>1, MaxIsMember
    <3>3. Max(t) \in 1 .. n /\ h[t \ {Max(t)}] \in S
      BY <1>7, <3>2
    <3>4. h[t] = f[<<Max(t), h[t \ {Max(t)}]>>]
      BY <1>7, <2>2
    <3> QED BY <1>3, <1>2, <2>2, <3>3, <3>4
  <2> QED BY <2>1, <2>2
<1>9. Solves(h, 1 .. n)
  <2>1. h = [t \in SUBSET (1 .. n) |-> h[t]]
    BY <1>7
  <2> HIDE DEF Step
  <2> QED BY <1>8, <2>1
<1>10. Solves(iter, 1 .. n)
  <2> HIDE DEF Solves
  <2> QED BY <1>2, <1>9
<1> HIDE DEF iter
<1>11. \A t \in SUBSET (1 .. n) : iter[t] = Step(iter, t)
  <2> HIDE DEF Step
  <2> QED BY <1>10
<1> HIDE DEF Solves
<1> DEFINE w == [k \in 0 .. n |-> iter[1 .. k]]
<1>12. w[0] = base
  <2>1. 1 .. 0 = {} /\ {} \in SUBSET (1 .. n) /\ 0 \in 0 .. n
    BY <1>2
  <2>2. iter[{}] = base
    BY <1>11, <2>1
  <2> QED BY <2>1, <2>2
<1>13. ASSUME NEW k \in 1 .. n PROVE w[k] = ExchangedAll(w[k - 1], k)
  <2>1. k \in Nat /\ k \in 1 .. k /\ 1 .. k \in SUBSET (1 .. n)
    BY <1>2
  <2>2. Max(1 .. k) = k
    BY <2>1, MaxOfTop
  <2>3. (1 .. k) \ {k} = 1 .. k - 1
    BY <2>1
  <2>4. iter[1 .. k] = ExchangedAll(iter[1 .. k - 1], k)
    BY <1>11, <1>2, <2>1, <2>2, <2>3
  <2>5. k \in 0 .. n /\ k - 1 \in 0 .. n
    BY <1>2
  <2> QED BY <2>4, <2>5
<1>14. ByKey(s) = w[n]
  BY <1>1, <1>2
<1> HIDE DEF w
<1>15. \A k \in 0 .. n : w[k] \in S
  <2> DEFINE P == { k \in 0 .. n : w[k] \in S }
  <2>1. 0 \in P
    BY <1>2, <1>5, <1>12
  <2>2. ASSUME NEW k \in 1 .. n, k - 1 \in P PROVE k \in P
    <3>1. k \in 0 .. n /\ w[k - 1] \in S /\ w[k] = ExchangedAll(w[k - 1], k)
      BY <1>2, <1>13, <2>2
    <3> QED BY <1>3, <1>4, <3>1
  <2>3. \A k \in 0 .. n : k \in P
    <3> HIDE DEF P
    <3> QED BY <1>2, <2>1, <2>2, InductionUpTo
  <2> QED BY <2>3
<1> QED BY <1>12, <1>13, <1>14, <1>15 DEF n, S, base

(* The exchange sort sorts, and loses and adds nothing.                    *)
LEMMA ByKeyRight ==
    ASSUME NEW s \in Seq(KEntries)
    PROVE  ByKey(s) \in Seq(KEntries) /\ SortedByKey(ByKey(s)) /\ ToSet(ByKey(s)) = ToSet(s)
<1> DEFINE n == Len(s)
<1>1. n \in Nat
  OBVIOUS
<1>2. PICK w : /\ w[0] = s /\ ByKey(s) = w[n]
               /\ \A k \in 1 .. n : w[k] = ExchangedAll(w[k - 1], k)
               /\ \A k \in 0 .. n : w[k] \in Alike(s)
  BY SortSteps
<1>3. \A k \in 0 .. n : w[k] \in Seq(KEntries) /\ Len(w[k]) = n /\ ToSet(w[k]) = ToSet(s)
  BY <1>2 DEF Alike
<1> HIDE DEF n
<1> DEFINE P == { k \in 0 .. n : InOrderTo(w[k], k) }
<1>4. 0 \in P
  BY <1>1 DEF InOrderTo
<1>5. ASSUME NEW k \in 1 .. n, k - 1 \in P PROVE k \in P
  <2>1. k - 1 \in 0 .. n /\ k \in 0 .. n
    BY <1>1
  <2>2. w[k - 1] \in Seq(KEntries) /\ Len(w[k - 1]) = n /\ InOrderTo(w[k - 1], k - 1)
    BY <1>3, <1>5, <2>1
  <2>3. InOrderTo(ExchangedAll(w[k - 1], k), k)
    BY <2>2, ExchangedAllRight
  <2> QED BY <1>2, <2>1, <2>3
<1>6. n \in P
  <2>1. \A k \in 0 .. n : k \in P
    <3> HIDE DEF P
    <3> QED BY <1>1, <1>4, <1>5, InductionUpTo
  <2> QED BY <1>1, <2>1
<1>7. n \in 0 .. n
  BY <1>1
<1> QED BY <1>2, <1>3, <1>6, <1>7 DEF InOrderTo, SortedByKey

(* One more entry in the order of the keys, of equal keys one stays.       *)
Follows(acc, e, c) ==
    /\ c \in Seq(KEntries) /\ SortedByKey(c)
    /\ ToSet(c) \subseteq ToSet(acc) \cup {e}
    /\ Has(c, e.key)
    /\ \A key : Has(acc, key) => Has(c, key)

(* Entries stay entries when one is taken or passed over.                  *)
LEMMA DedupedType ==
    ASSUME NEW acc \in Seq(KEntries), NEW e \in KEntries
    PROVE  Deduped(acc, e) \in Seq(KEntries)
<1>1. Append(acc, e) \in Seq(KEntries)
  OBVIOUS
<1>2. ASSUME acc # <<>> PROVE [acc EXCEPT ![Len(acc)] = e] \in Seq(KEntries)
  <2>1. Len(acc) \in Nat /\ DOMAIN acc = 1 .. Len(acc) /\ Len(acc) # 0
    BY <1>2
  <2>2. Len(acc) \in 1 .. Len(acc)
    BY <2>1
  <2> DEFINE n == Len(acc)
             c == [acc EXCEPT ![n] = e]
  <2>3. acc \in [1 .. n -> KEntries]
    BY <2>1
  <2>4. c \in [1 .. n -> KEntries]
    BY <2>3
  <2> HIDE DEF c
  <2>5. c \in Seq(KEntries)
    BY <2>1, <2>4
  <2> QED BY <2>5 DEF c
<1> QED BY <1>1, <1>2 DEF Deduped

(* Of equal keys the first or a later that is no tombstone stays.          *)
LEMMA DedupedFollows ==
    ASSUME NEW acc \in Seq(KEntries), NEW e \in KEntries, SortedByKey(acc),
           \A i \in 1 .. Len(acc) : acc[i].key <= e.key
    PROVE  Follows(acc, e, Deduped(acc, e))
<1> DEFINE n == Len(acc)
<1>1. n \in Nat /\ DOMAIN acc = 1 .. n /\ (acc = <<>> <=> n = 0) /\ e.key \in Int
      /\ \A i \in 1 .. n : acc[i] \in KEntries /\ acc[i].key \in Int
  <2>1. e.key \in Int
    BY KLsmAssumption DEF KEntries
  <2>2. acc = <<>> <=> n = 0
    OBVIOUS
  <2> QED BY <2>1, <2>2, KeysAreInt
<1>2. \A i, j \in 1 .. n : i < j => acc[i].key <= acc[j].key
  BY DEF SortedByKey
<1>3. \A i \in 1 .. n : acc[i].key <= e.key
  OBVIOUS
<1>4. ToSet(acc) = {acc[i] : i \in 1 .. n}
  BY <1>1 DEF ToSet
<1>5. CASE acc = <<>> \/ acc[n].key # e.key
  <2> DEFINE c == Append(acc, e)
  <2>1. Deduped(acc, e) = c
    BY <1>5 DEF Deduped
  <2>2. /\ c \in Seq(KEntries) /\ Len(c) = n + 1 /\ DOMAIN c = 1 .. n + 1 /\ c[n + 1] = e
        /\ \A i \in 1 .. n : c[i] = acc[i]
    OBVIOUS
  <2> HIDE DEF c, n
  <2>3. \A i \in 1 .. n + 1 : i = n + 1 \/ i \in 1 .. n
    BY <1>1
  <2>4. SortedByKey(c)
    <3> SUFFICES ASSUME NEW i \in 1 .. n + 1, NEW j \in 1 .. n + 1, i < j
                 PROVE  c[i].key <= c[j].key
      BY <2>2 DEF SortedByKey
    <3>1. i \in 1 .. n
      BY <1>1
    <3> QED BY <1>2, <1>3, <2>2, <2>3, <3>1
  <2>5. ToSet(c) = ToSet(acc) \cup {e}
    <3>1. ToSet(c) = {c[i] : i \in 1 .. n + 1}
      BY <2>2 DEF ToSet
    <3>2. n + 1 \in 1 .. n + 1 /\ \A i \in 1 .. n : i \in 1 .. n + 1
      BY <1>1
    <3> QED BY <1>4, <2>2, <2>3, <3>1, <3>2
  <2> QED BY <2>1, <2>2, <2>4, <2>5 DEF Follows, Has
<1>6. CASE acc # <<>> /\ acc[n].key = e.key
  <2>1. n \in 1 .. n
    BY <1>1, <1>6
  <2>2. CASE acc[n].deleted /\ ~e.deleted
    <3> DEFINE c == [acc EXCEPT ![n] = e]
    <3>1. Deduped(acc, e) = c
      BY <1>6, <2>2 DEF Deduped
    <3>2. /\ c \in Seq(KEntries) /\ Len(c) = n /\ DOMAIN c = 1 .. n /\ c[n] = e
          /\ \A i \in 1 .. n : i # n => c[i] = acc[i]
      BY <1>1, <2>1
    <3> HIDE DEF c, n
    <3>3. \A i \in 1 .. n : c[i].key = acc[i].key
      BY <1>6, <3>2
    <3>4. SortedByKey(c)
      BY <1>2, <3>2, <3>3 DEF SortedByKey
    <3>5. ToSet(c) = {c[i] : i \in 1 .. n}
      BY <3>2 DEF ToSet
    <3>6. ToSet(c) \subseteq ToSet(acc) \cup {e}
      BY <1>4, <3>2, <3>5
    <3>7. e \in ToSet(c)
      BY <2>1, <3>2, <3>5
    <3>8. ASSUME NEW key, Has(acc, key) PROVE Has(c, key)
      <4>1. PICK i \in 1 .. n : acc[i].key = key
        BY <1>4, <3>8 DEF Has
      <4>2. c[i] \in ToSet(c) /\ c[i].key = key
        BY <3>3, <3>5, <4>1
      <4> QED BY <4>2 DEF Has
    <3> QED BY <3>1, <3>2, <3>4, <3>6, <3>7, <3>8 DEF Follows, Has
  <2>3. CASE ~(acc[n].deleted /\ ~e.deleted)
    <3>1. Deduped(acc, e) = acc
      BY <1>6, <2>3 DEF Deduped
    <3>2. acc[n] \in ToSet(acc)
      BY <1>4, <2>1
    <3> QED BY <1>6, <3>1, <3>2 DEF Follows, Has
  <2> QED BY <2>2, <2>3
<1> QED BY <1>5, <1>6

(* What the passing over of equal keys does one entry at a time.            *)
LEMMA DedupedSteps ==
    ASSUME NEW s \in Seq(KEntries)
    PROVE  \E w : /\ w[0] = <<>> /\ Unique(s) = w[Len(s)]
                  /\ \A k \in 1 .. Len(s) : w[k] = Deduped(w[k - 1], s[k])
                  /\ \A k \in 0 .. Len(s) : w[k] \in Seq(KEntries)
<1> DEFINE n == Len(s)
           S == Seq(KEntries)
           base == <<>>
           places == [i \in DOMAIN s |-> i]
           f == [p \in (1 .. n) \X S |-> Deduped(p[2], s[p[1]])]
           Step(g, t) == IF t = {} THEN base ELSE Deduped(g[t \ {Max(t)}], s[Max(t)])
           Solves(g, d) == g = [t \in SUBSET d |-> Step(g, t)]
           iter == CHOOSE g : Solves(g, DOMAIN s)
<1>1. Unique(s) = iter[DOMAIN s]
  BY DEF Unique, FoldLeft, MapThenFoldSet
<1>2. n \in Nat /\ DOMAIN s = 1 .. n
  OBVIOUS
<1>3. \A k \in 1 .. n, x \in S : f[<<k, x>>] = Deduped(x, s[k])
  OBVIOUS
<1> HIDE DEF f
<1>4. \A k \in 1 .. n, x \in S : f[<<k, x>>] \in S
  <2> TAKE k \in 1 .. n, x \in S
  <2>1. Deduped(x, s[k]) \in S
    BY DedupedType
  <2> HIDE DEF n, S
  <2> QED BY <1>3, <2>1
<1>5. base \in S
  OBVIOUS
<1> HIDE DEF n, S, base, places
<1>6. PICK h : Folds(h, n, S, base, f)
  BY <1>2, <1>4, <1>5, FoldSolved DEF StaysIn
<1>7. /\ h \in [SUBSET (1 .. n) -> S]
      /\ \A t \in SUBSET (1 .. n) : h[t] = IF t = {} THEN base ELSE f[<<Max(t), h[t \ {Max(t)}]>>]
  BY <1>6 DEF Folds
<1>8. \A t \in SUBSET (1 .. n) : h[t] = Step(h, t)
  <2> TAKE t \in SUBSET (1 .. n)
  <2>1. CASE t = {}
    BY <1>7, <2>1
  <2>2. CASE t # {}
    <3>1. t \in SUBSET (0 .. n)
      BY <1>2
    <3>2. Max(t) \in t
      BY <1>2, <2>2, <3>1, MaxIsMember
    <3>3. Max(t) \in 1 .. n /\ h[t \ {Max(t)}] \in S
      BY <1>7, <3>2
    <3>4. h[t] = f[<<Max(t), h[t \ {Max(t)}]>>]
      BY <1>7, <2>2
    <3> QED BY <1>3, <2>2, <3>3, <3>4
  <2> QED BY <2>1, <2>2
<1>9. Solves(h, 1 .. n)
  <2>1. h = [t \in SUBSET (1 .. n) |-> h[t]]
    BY <1>7
  <2> HIDE DEF Step
  <2> QED BY <1>8, <2>1
<1>10. Solves(iter, 1 .. n)
  <2> HIDE DEF Solves
  <2> QED BY <1>2, <1>9
<1> HIDE DEF iter
<1>11. \A t \in SUBSET (1 .. n) : iter[t] = Step(iter, t)
  <2> HIDE DEF Step
  <2> QED BY <1>10
<1> HIDE DEF Solves
<1> DEFINE w == [k \in 0 .. n |-> iter[1 .. k]]
<1>12. w[0] = base
  <2>1. 1 .. 0 = {} /\ {} \in SUBSET (1 .. n) /\ 0 \in 0 .. n
    BY <1>2
  <2>2. iter[{}] = base
    BY <1>11, <2>1
  <2> QED BY <2>1, <2>2
<1>13. ASSUME NEW k \in 1 .. n PROVE w[k] = Deduped(w[k - 1], s[k])
  <2>1. k \in Nat /\ k \in 1 .. k /\ 1 .. k \in SUBSET (1 .. n)
    BY <1>2
  <2>2. Max(1 .. k) = k
    BY <2>1, MaxOfTop
  <2>3. (1 .. k) \ {k} = 1 .. k - 1
    BY <2>1
  <2>4. iter[1 .. k] = Deduped(iter[1 .. k - 1], s[k])
    BY <1>11, <2>1, <2>2, <2>3
  <2>5. k \in 0 .. n /\ k - 1 \in 0 .. n
    BY <1>2
  <2> QED BY <2>4, <2>5
<1>14. Unique(s) = w[n]
  BY <1>1, <1>2
<1> HIDE DEF w
<1>15. \A k \in 0 .. n : w[k] \in S
  <2> DEFINE P == { k \in 0 .. n : w[k] \in S }
  <2>1. 0 \in P
    BY <1>2, <1>5, <1>12
  <2>2. ASSUME NEW k \in 1 .. n, k - 1 \in P PROVE k \in P
    <3>1. k \in 0 .. n /\ w[k - 1] \in S /\ w[k] = Deduped(w[k - 1], s[k])
      BY <1>2, <1>13, <2>2
    <3> QED BY <1>3, <1>4, <3>1
  <2>3. \A k \in 0 .. n : k \in P
    <3> HIDE DEF P
    <3> QED BY <1>2, <2>1, <2>2, InductionUpTo
  <2> QED BY <2>3
<1> QED BY <1>12, <1>13, <1>14, <1>15 DEF n, S, base

(* Of a sequence in order one entry of every key is kept, and none is made. *)
LEMMA UniqueRight ==
    ASSUME NEW s \in Seq(KEntries), SortedByKey(s)
    PROVE  /\ Unique(s) \in Seq(KEntries) /\ SortedByKey(Unique(s))
           /\ ToSet(Unique(s)) \subseteq ToSet(s)
           /\ \A key : Has(s, key) => Has(Unique(s), key)
<1> DEFINE n == Len(s)
           Kept(a, k) == /\ SortedByKey(a)
                         /\ \A e \in ToSet(a) : \E j \in 1 .. k : e = s[j]
                         /\ \A j \in 1 .. k : Has(a, s[j].key)
<1>1. n \in Nat /\ \A i \in 1 .. n : s[i] \in KEntries /\ s[i].key \in Int
  BY KeysAreInt
<1>2. \A i, j \in 1 .. n : i < j => s[i].key <= s[j].key
  BY DEF SortedByKey
<1>3. PICK w : /\ w[0] = <<>> /\ Unique(s) = w[n]
               /\ \A k \in 1 .. n : w[k] = Deduped(w[k - 1], s[k])
               /\ \A k \in 0 .. n : w[k] \in Seq(KEntries)
  BY DedupedSteps
<1>4. ToSet(s) = {s[i] : i \in 1 .. n}
  BY DEF ToSet
<1> HIDE DEF n
<1> DEFINE P == { k \in 0 .. n : Kept(w[k], k) }
<1>5. 0 \in P
  <2>1. w[0] = <<>> /\ 0 \in 0 .. n /\ ToSet(<<>>) = {} /\ SortedByKey(<<>>)
    BY <1>1, <1>3 DEF ToSet, SortedByKey
  <2> QED BY <2>1
<1>6. ASSUME NEW k \in 1 .. n, k - 1 \in P PROVE k \in P
  <2> DEFINE a == w[k - 1]
             c == w[k]
             e == s[k]
  <2>1. k - 1 \in 0 .. n /\ k \in 0 .. n /\ k \in Nat
    BY <1>1
  <2>2. a \in Seq(KEntries) /\ e \in KEntries /\ c = Deduped(a, e) /\ Kept(a, k - 1)
    BY <1>1, <1>3, <1>6, <2>1
  <2> HIDE DEF a, c
  <2>3. \A i \in 1 .. Len(a) : a[i].key <= e.key
    <3> TAKE i \in 1 .. Len(a)
    <3>1. a[i] \in ToSet(a)
      BY <2>2 DEF ToSet
    <3>2. PICK j \in 1 .. k - 1 : a[i] = s[j]
      BY <2>2, <3>1
    <3>3. j \in 1 .. n /\ j < k
      BY <1>1, <2>1
    <3> QED BY <1>2, <3>2, <3>3
  <2>4. Follows(a, e, c)
    <3> HIDE DEF e
    <3> QED BY <2>2, <2>3, DedupedFollows
  <2>5. \A j \in 1 .. k : j = k \/ j \in 1 .. k - 1
    BY <2>1
  <2>6. \A j \in 1 .. k : Has(c, s[j].key)
    BY <2>2, <2>4, <2>5 DEF Follows
  <2>7. \A x \in ToSet(c) : \E j \in 1 .. k : x = s[j]
    <3> TAKE x \in ToSet(c)
    <3>1. x \in ToSet(a) \/ x = s[k]
      BY <2>4 DEF Follows
    <3>2. k \in 1 .. k /\ \A j \in 1 .. k - 1 : j \in 1 .. k
      BY <2>1
    <3> QED BY <2>2, <3>1, <3>2
  <2>8. Kept(c, k)
    BY <2>4, <2>6, <2>7 DEF Follows
  <2> HIDE DEF Kept
  <2> QED BY <2>1, <2>8 DEF c
<1>7. n \in P
  <2>1. \A k \in 0 .. n : k \in P
    <3> HIDE DEF P
    <3> QED BY <1>1, <1>5, <1>6, InductionUpTo
  <2>2. n \in 0 .. n
    BY <1>1
  <2> HIDE DEF P
  <2> QED BY <2>1, <2>2
<1> DEFINE u == w[n]
<1>8. Kept(u, n) /\ u \in Seq(KEntries)
  BY <1>1, <1>3, <1>7
<1> HIDE DEF u
<1>9. ToSet(u) \subseteq ToSet(s)
  BY <1>4, <1>8
<1>10. ASSUME NEW key, Has(s, key) PROVE Has(u, key)
  <2>1. PICK j \in 1 .. n : s[j].key = key
    BY <1>4, <1>10 DEF Has
  <2> QED BY <1>8, <2>1
<1> QED BY <1>3, <1>8, <1>9, <1>10 DEF u

(* Entries in order make a table.                                          *)
LEMMA TableIsTable ==
    ASSUME NEW s \in Seq(KEntries), s # <<>>, SortedByKey(s)
    PROVE  TableOf(s) \in Tables /\ TableOf(s).entries = s
BY DEF Tables, TableOf

(* Cut into tables, a sequence in order gives tables of its own entries,   *)
(* every one of which is in one of them.                                   *)
LEMMA CutRight ==
    ASSUME NEW s \in Seq(KEntries), SortedByKey(s)
    PROVE  /\ Cut(s) \in Seq(Tables)
           /\ \A i \in DOMAIN Cut(s) : ToSet(Cut(s)[i].entries) \subseteq ToSet(s)
           /\ \A e \in ToSet(s) : \E i \in DOMAIN Cut(s) : e \in ToSet(Cut(s)[i].entries)
<1> DEFINE n == Len(s)
           m == KMemMax
           q == (n + m - 1) \div m
           from(i) == (i - 1) * m + 1
           to(i) == IF i * m < n THEN i * m ELSE n
           block(i) == SubSeq(s, from(i), to(i))
<1>1. n \in Nat /\ m \in Nat \ {0} /\ \A i \in 1 .. n : s[i] \in KEntries
  BY KLsmAssumption
<1>2. ToSet(s) = {s[i] : i \in 1 .. n}
  BY DEF ToSet
<1>3. Cut(s) = [i \in 1 .. q |-> TableOf(block(i))]
  BY DEF Cut
<1>4. /\ q \in Nat
      /\ \A i \in 1 .. q : (i - 1) * m \in Nat /\ i * m = (i - 1) * m + m /\ (i - 1) * m < n
      /\ \A j \in 1 .. n : \E i \in 1 .. q : (i - 1) * m < j /\ j <= i * m
  <2> HIDE DEF n, m
  <2> QED BY <1>1, BlockBounds
<1> HIDE DEF m, q
<1>5. ASSUME NEW i \in 1 .. q
      PROVE  /\ from(i) \in 1 .. n /\ to(i) \in 1 .. n /\ from(i) <= to(i)
             /\ block(i) \in Seq(KEntries) /\ block(i) # <<>> /\ SortedByKey(block(i))
             /\ ToSet(block(i)) = {s[j] : j \in from(i) .. to(i)}
  <2> DEFINE a == from(i)
             b == to(i)
             c == block(i)
  <2>1. a \in 1 .. n /\ b \in 1 .. n /\ a <= b
    <3> DEFINE x == (i - 1) * m
               y == i * m
    <3>1. x \in Nat /\ y = x + m /\ x < n /\ a = x + 1 /\ b = IF y < n THEN y ELSE n
      BY <1>4
    <3> HIDE DEF x, y, a, b, n
    <3> QED BY <1>1, <3>1
  <2>2. c = SubSeq(s, a, b)
    OBVIOUS
  <2> HIDE DEF a, b, c, block, from, to
  <2>3. /\ c \in Seq(KEntries) /\ Len(c) = b - a + 1 /\ DOMAIN c = 1 .. b - a + 1
        /\ \A j \in 1 .. b - a + 1 : c[j] = s[a + j - 1]
    BY <2>1, <2>2
  <2> HIDE DEF n
  <2>4. b - a + 1 \in Nat \ {0}
    BY <1>1, <2>1
  <2>5. c # <<>>
    BY <2>3, <2>4
  <2>6. SortedByKey(c)
    <3> SUFFICES ASSUME NEW j \in 1 .. b - a + 1, NEW k \in 1 .. b - a + 1, j < k
                 PROVE  c[j].key <= c[k].key
      BY <2>3 DEF SortedByKey
    <3>1. a + j - 1 \in 1 .. n /\ a + k - 1 \in 1 .. n /\ a + j - 1 < a + k - 1
      BY <1>1, <2>1
    <3>2. s[a + j - 1].key <= s[a + k - 1].key
      BY <3>1 DEF SortedByKey, n
    <3> QED BY <2>3, <3>2
  <2>7. ToSet(c) = {s[j] : j \in a .. b}
    <3>1. ToSet(c) = {c[j] : j \in 1 .. b - a + 1}
      BY <2>3 DEF ToSet
    <3>2. ASSUME NEW j \in 1 .. b - a + 1 PROVE a + j - 1 \in a .. b
      BY <1>1, <2>1
    <3>3. ASSUME NEW j \in a .. b PROVE j - a + 1 \in 1 .. b - a + 1 /\ a + (j - a + 1) - 1 = j
      BY <1>1, <2>1
    <3>4. \A j \in a .. b : s[j] = c[j - a + 1]
      BY <2>3, <3>3
    <3> QED BY <2>3, <3>1, <3>2, <3>3, <3>4
  <2> QED BY <2>1, <2>3, <2>5, <2>6, <2>7 DEF a, b, c
<1> HIDE DEF block
<1>6. \A i \in 1 .. q : TableOf(block(i)) \in Tables /\ TableOf(block(i)).entries = block(i)
  BY <1>5, TableIsTable
<1> DEFINE z == Cut(s)
<1>7. /\ z \in Seq(Tables) /\ DOMAIN z = 1 .. q
      /\ \A i \in 1 .. q : z[i].entries = block(i)
  <2>1. z \in [1 .. q -> Tables] /\ \A i \in 1 .. q : z[i] = TableOf(block(i))
    BY <1>3, <1>6
  <2> HIDE DEF z
  <2>2. z \in Seq(Tables)
    BY <1>4, <2>1
  <2> QED BY <1>6, <2>1, <2>2
<1> HIDE DEF z, from, to
<1>8. ASSUME NEW i \in 1 .. q PROVE ToSet(block(i)) \subseteq ToSet(s)
  <2>1. \A j \in from(i) .. to(i) : j \in 1 .. n
    BY <1>1, <1>5
  <2> QED BY <1>2, <1>5, <2>1
<1>9. ASSUME NEW e \in ToSet(s) PROVE \E i \in 1 .. q : e \in ToSet(block(i))
  <2>1. PICK j \in 1 .. n : e = s[j]
    BY <1>2
  <2>2. PICK i \in 1 .. q : (i - 1) * m < j /\ j <= i * m
    BY <1>4
  <2>3. j \in from(i) .. to(i)
    <3> DEFINE x == (i - 1) * m
               y == i * m
    <3>1. x \in Nat /\ y = x + m /\ x < j /\ j <= y
      BY <1>4, <2>2
    <3>2. from(i) = x + 1 /\ to(i) = IF y < n THEN y ELSE n
      BY DEF from, to
    <3> HIDE DEF x, y, n
    <3> QED BY <1>1, <3>1, <3>2
  <2> QED BY <1>5, <2>1, <2>3
<1> QED BY <1>7, <1>8, <1>9 DEF z

(* The entries of the tables of a sequence.                                *)
AllOf(ts) == UNION {ToSet(ts[i].entries) : i \in DOMAIN ts}
KeyIn(t, key) == \E e : Tabled(t, e) /\ e.key = key

(* An entry in the tables is an entry of some level.                       *)
LEMMA TabledIs ==
    ASSUME NEW t, NEW e
    PROVE  Tabled(t, e) <=> \E l \in 0 .. KLevels - 1 : e \in AllOf(t.tables[l])
BY DEF Tabled, AllOf

(* The entries of a table are entries.                                     *)
LEMMA EntriesOf == ASSUME NEW t \in Tables PROVE t.entries \in Seq(KEntries)
BY DEF Tables, TableOf

(* What is gathered of two levels.                                         *)
LEMMA FlatEntries ==
    ASSUME NEW ts \in Seq(Tables)
    PROVE  LET all == FlattenSeq([i \in DOMAIN ts |-> ts[i].entries])
           IN  all \in Seq(KEntries) /\ ToSet(all) = AllOf(ts)
<1> DEFINE n == Len(ts)
           lists == [i \in DOMAIN ts |-> ts[i].entries]
           all == FlattenSeq(lists)
<1>1. n \in Nat /\ DOMAIN ts = 1 .. n /\ \A i \in 1 .. n : ts[i] \in Tables
  OBVIOUS
<1>2. lists \in [1 .. n -> Seq(KEntries)] /\ \A i \in 1 .. n : lists[i] = ts[i].entries
  BY <1>1, EntriesOf
<1> HIDE DEF lists, n
<1>3. Placed(KEntries, lists, n, all)
  BY <1>1, <1>2, FlattenPlaced
<1> HIDE DEF all
<1>4. /\ all \in Seq(KEntries)
      /\ \A i \in 1 .. Len(all) : \E l \in 1 .. n : all[i] \in ToSet(lists[l])
      /\ \A l \in 1 .. n : ToSet(lists[l]) \subseteq ToSet(all)
  <2>1. all \in Seq(KEntries)
    BY <1>3 DEF Placed
  <2> QED BY <1>3, <2>1 DEF Placed
<1>5. ToSet(all) = {all[i] : i \in 1 .. Len(all)}
  BY <1>4 DEF ToSet
<1>6. AllOf(ts) = UNION {ToSet(lists[l]) : l \in 1 .. n}
  BY <1>1, <1>2 DEF AllOf
<1>7. ToSet(all) = AllOf(ts)
  BY <1>4, <1>5, <1>6, ZenonT(120)
<1> QED BY <1>4, <1>7 DEF all, lists

(* The entries of two rows of tables, one behind the other.                *)
LEMMA AllOfJoined ==
    ASSUME NEW a \in Seq(Tables), NEW b \in Seq(Tables)
    PROVE  a \o b \in Seq(Tables) /\ AllOf(a \o b) = AllOf(a) \cup AllOf(b)
<1> DEFINE ts == a \o b
           na == Len(a)
           nb == Len(b)
<1>1. na \in Nat /\ nb \in Nat /\ DOMAIN a = 1 .. na /\ DOMAIN b = 1 .. nb
  OBVIOUS
<1>2. ts \in Seq(Tables) /\ Len(ts) = na + nb
  OBVIOUS
<1>3. DOMAIN ts = 1 .. na + nb
  BY <1>2
<1>4. \A i \in 1 .. na + nb : ts[i] = IF i <= na THEN a[i] ELSE b[i - na]
  OBVIOUS
<1> HIDE DEF na, nb, ts
<1>5. ASSUME NEW x PROVE x \in AllOf(ts) <=> x \in AllOf(a) \cup AllOf(b)
  <2>1. ASSUME NEW i \in 1 .. na + nb, x \in ToSet(ts[i].entries) PROVE x \in AllOf(a) \cup AllOf(b)
    <3>1. CASE i <= na
      <4>1. i \in DOMAIN a /\ ts[i] = a[i]
        BY <1>1, <1>4, <3>1
      <4> QED BY <2>1, <4>1 DEF AllOf
    <3>2. CASE ~(i <= na)
      <4>1. i - na \in DOMAIN b /\ ts[i] = b[i - na]
        BY <1>1, <1>4, <3>2
      <4> QED BY <2>1, <4>1 DEF AllOf
    <3> QED BY <3>1, <3>2
  <2>2. ASSUME NEW i \in 1 .. na, x \in ToSet(a[i].entries) PROVE x \in AllOf(ts)
    <3>1. i \in DOMAIN ts /\ i \in 1 .. na + nb /\ i <= na
      BY <1>1, <1>3
    <3>2. ts[i] = a[i]
      BY <1>4, <3>1
    <3> QED BY <2>2, <3>1, <3>2 DEF AllOf
  <2>3. ASSUME NEW i \in 1 .. nb, x \in ToSet(b[i].entries) PROVE x \in AllOf(ts)
    <3> DEFINE j == na + i
    <3>1. j \in DOMAIN ts /\ j \in 1 .. na + nb /\ ~(j <= na) /\ j - na = i
      BY <1>1, <1>3
    <3>2. ts[j] = b[i]
      BY <1>4, <3>1
    <3> QED BY <2>3, <3>1, <3>2 DEF AllOf
  <2>4. x \in AllOf(ts) => \E i \in 1 .. na + nb : x \in ToSet(ts[i].entries)
    BY <1>3 DEF AllOf
  <2>5. x \in AllOf(a) => \E i \in 1 .. na : x \in ToSet(a[i].entries)
    BY <1>1 DEF AllOf
  <2>6. x \in AllOf(b) => \E i \in 1 .. nb : x \in ToSet(b[i].entries)
    BY <1>1 DEF AllOf
  <2> QED BY <2>1, <2>2, <2>3, <2>4, <2>5, <2>6
<1>6. AllOf(ts) = AllOf(a) \cup AllOf(b)
  BY <1>5
<1> QED BY <1>2, <1>6 DEF ts

(* A compaction that drops nothing moves the entries of two levels to the  *)
(* lower one, and keeps one of every key.                                  *)
LEMMA CompactKeeps ==
    ASSUME NEW t, TreeOK(t), NEW level \in 0 .. KLevels - 1, ~Compact(t, level).cut
    PROVE  /\ TreeOK(Compact(t, level)) /\ Compact(t, level).mem = t.mem
           /\ \A e : Tabled(Compact(t, level), e) => Tabled(t, e)
           /\ \A key : KeyIn(t, key) => KeyIn(Compact(t, level), key)
<1> DEFINE c == Compact(t, level)
           all == Gather(t, level)
           new == Cut(Unique(ByKey(all)))
           size == Limit(level + 1)
           cutter == t.cut \/ Len(new) > size
           put == SubSeq(new, 1, IF Len(new) > size THEN size ELSE Len(new))
           tables == t.tables
           ts == tables[level + 1] \o tables[level]
<1>1. /\ t = [mem |-> t.mem, tables |-> tables, cut |-> t.cut]
      /\ tables \in [0 .. KLevels - 1 -> Seq(Tables)]
      /\ KLevels \in Nat \ {0} /\ level \in Nat
  BY KLsmAssumption DEF TreeOK
<1>2. CASE level >= KLevels - 1 \/ tables[level] = <<>>
  BY <1>2 DEF Compact
<1>3. CASE ~(level >= KLevels - 1 \/ tables[level] = <<>>)
  <2>1. level + 1 \in 0 .. KLevels - 1 /\ level + 1 # level
    BY <1>1, <1>3
  <2>2. c = [t EXCEPT !.tables[level] = <<>>, !.tables[level + 1] = put, !.cut = cutter]
    BY <1>3 DEF Compact
  <2>3. tables[level] \in Seq(Tables) /\ tables[level + 1] \in Seq(Tables)
    BY <1>1, <2>1
  <2>4. ts \in Seq(Tables) /\ AllOf(ts) = AllOf(tables[level]) \cup AllOf(tables[level + 1])
    <3> DEFINE a == tables[level + 1]
               b == tables[level]
    <3>1. a \in Seq(Tables) /\ b \in Seq(Tables) /\ ts = a \o b
      BY <2>3
    <3> HIDE DEF a, b, ts
    <3>2. ts \in Seq(Tables) /\ AllOf(ts) = AllOf(a) \cup AllOf(b)
      BY <3>1, AllOfJoined
    <3> QED BY <3>2 DEF a, b
  <2>5. all \in Seq(KEntries) /\ ToSet(all) = AllOf(ts)
    <3>1. all = FlattenSeq([i \in DOMAIN ts |-> ts[i].entries])
      BY DEF Gather
    <3> HIDE DEF all, ts
    <3> QED BY <2>4, <3>1, FlatEntries
  <2> HIDE DEF all, ts
  <2> DEFINE u == Unique(ByKey(all))
  <2>6. /\ u \in Seq(KEntries) /\ SortedByKey(u) /\ ToSet(u) \subseteq ToSet(all)
        /\ \A key : Has(all, key) => Has(u, key)
    <3> DEFINE o == ByKey(all)
    <3>1. o \in Seq(KEntries) /\ SortedByKey(o) /\ ToSet(o) = ToSet(all)
      BY <2>5, ByKeyRight
    <3> HIDE DEF o
    <3>2. /\ Unique(o) \in Seq(KEntries) /\ SortedByKey(Unique(o)) /\ ToSet(Unique(o)) \subseteq ToSet(o)
          /\ \A key : Has(o, key) => Has(Unique(o), key)
      BY <3>1, UniqueRight
    <3> QED BY <3>1, <3>2 DEF o, Has
  <2>7. new = Cut(u)
    OBVIOUS
  <2> HIDE DEF u, new, size
  <2>8. /\ new \in Seq(Tables)
        /\ \A i \in DOMAIN new : ToSet(new[i].entries) \subseteq ToSet(u)
        /\ \A e \in ToSet(u) : \E i \in DOMAIN new : e \in ToSet(new[i].entries)
    BY <2>6, <2>7, CutRight
  <2>9. c.cut = cutter /\ ~(Len(new) > size) /\ c.mem = t.mem
    <3> DEFINE both == [[tables EXCEPT ![level] = <<>>] EXCEPT ![level + 1] = put]
    <3>1. c = [mem |-> t.mem, tables |-> both, cut |-> cutter]
      <4>1. c = [[[t EXCEPT !.tables[level] = <<>>] EXCEPT !.tables[level + 1] = put] EXCEPT !.cut = cutter]
        BY <2>2
      <4> HIDE DEF c, put, cutter
      <4> QED BY <1>1, <4>1
    <3> HIDE DEF both, cutter
    <3>2. c.cut = cutter /\ c.mem = t.mem
      BY <3>1
    <3>3. ~cutter
      BY <3>2
    <3> QED BY <3>2, <3>3 DEF cutter
  <2>10. put = new
    <3>1. put = SubSeq(new, 1, Len(new))
      BY <2>9
    <3>2. SubSeq(new, 1, Len(new)) = new
      BY <2>8
    <3> QED BY <3>1, <3>2
  <2> HIDE DEF put
  <2> DEFINE both == [[tables EXCEPT ![level] = <<>>] EXCEPT ![level + 1] = put]
  <2>11. c = [mem |-> t.mem, tables |-> both, cut |-> cutter]
    <3>1. c = [[[t EXCEPT !.tables[level] = <<>>] EXCEPT !.tables[level + 1] = put] EXCEPT !.cut = cutter]
      BY <2>2
    <3> HIDE DEF c, cutter
    <3> QED BY <1>1, <3>1
  <2>12. /\ both \in [0 .. KLevels - 1 -> Seq(Tables)]
         /\ both[level] = <<>> /\ both[level + 1] = new
         /\ \A l \in 0 .. KLevels - 1 : l # level /\ l # level + 1 => both[l] = tables[l]
    <3> DEFINE one == [tables EXCEPT ![level] = <<>>]
    <3>0. <<>> \in Seq(Tables) /\ put \in Seq(Tables)
      BY <2>8, <2>10
    <3>1. /\ one \in [0 .. KLevels - 1 -> Seq(Tables)] /\ one[level] = <<>>
          /\ \A l \in 0 .. KLevels - 1 : l # level => one[l] = tables[l]
      BY <1>1, <3>0
    <3>2. both = [one EXCEPT ![level + 1] = put]
      OBVIOUS
    <3> HIDE DEF one, both
    <3> QED BY <1>1, <2>1, <2>10, <3>0, <3>1, <3>2
  <2> HIDE DEF both, c, cutter, tables
  <2>13. c.tables = both /\ c.mem = t.mem /\ c = [mem |-> c.mem, tables |-> c.tables, cut |-> c.cut]
    BY <2>11
  <2>14. TreeOK(c)
    BY <2>12, <2>13 DEF TreeOK
  <2>15. AllOf(<<>>) = {}
    BY DEF AllOf
  <2>16. AllOf(new) = ToSet(u)
    <3>1. AllOf(new) \subseteq ToSet(u)
      BY <2>8 DEF AllOf
    <3>2. ToSet(u) \subseteq AllOf(new)
      BY <2>8 DEF AllOf
    <3> QED BY <3>1, <3>2
  <2>17. ASSUME NEW e, Tabled(c, e) PROVE Tabled(t, e)
    <3>1. PICK l \in 0 .. KLevels - 1 : e \in AllOf(both[l])
      BY <2>13, <2>17, TabledIs
    <3>2. \E l2 \in 0 .. KLevels - 1 : e \in AllOf(tables[l2])
      <4>1. CASE l = level + 1
        BY <2>1, <2>4, <2>5, <2>6, <2>12, <2>16, <3>1, <4>1
      <4>2. CASE l # level + 1
        BY <2>12, <2>15, <3>1, <4>2
      <4> QED BY <4>1, <4>2
    <3> QED BY <3>2, TabledIs DEF tables
  <2>18. ASSUME NEW key, KeyIn(t, key) PROVE KeyIn(c, key)
    <3>1. PICK e : Tabled(t, e) /\ e.key = key
      BY <2>18 DEF KeyIn
    <3>2. PICK l \in 0 .. KLevels - 1 : e \in AllOf(tables[l])
      BY <3>1, TabledIs DEF tables
    <3>3. \E x : x.key = key /\ \E l2 \in 0 .. KLevels - 1 : x \in AllOf(both[l2])
      <4>1. CASE l = level \/ l = level + 1
        <5>1. e \in ToSet(all)
          BY <2>4, <2>5, <3>2, <4>1
        <5>2. Has(u, key)
          BY <2>6, <3>1, <5>1 DEF Has
        <5>3. PICK x \in ToSet(u) : x.key = key
          BY <5>2 DEF Has
        <5> QED BY <2>1, <2>12, <2>16, <5>3
      <4>2. CASE ~(l = level \/ l = level + 1)
        BY <2>12, <3>1, <3>2, <4>2
      <4> QED BY <4>1, <4>2
    <3>4. PICK x : x.key = key /\ \E l2 \in 0 .. KLevels - 1 : x \in AllOf(both[l2])
      BY <3>3
    <3>5. Tabled(c, x)
      BY <2>13, <3>4, TabledIs
    <3> QED BY <3>4, <3>5 DEF KeyIn
  <2> QED BY <2>13, <2>14, <2>17, <2>18 DEF c
<1> QED BY <1>2, <1>3

(* A flush puts the memtable behind the tables, and loses nothing while no *)
(* compaction drops entries.                                               *)
LEMMA FlushKeeps ==
    ASSUME NEW t, TreeOK(t), t.mem # <<>>, ~Flush(t).cut
    PROVE  /\ TreeOK(Flush(t)) /\ Flush(t).mem = <<>>
           /\ \A e : Tabled(Flush(t), e) => Tabled(t, e) \/ e \in ToSet(t.mem)
           /\ \A key : KeyIn(t, key) \/ Has(t.mem, key) => KeyIn(Flush(t), key)
<1> DEFINE f == Flush(t)
           r == IF Len(t.tables[0]) >= Limit(0) THEN Compact(t, 0) ELSE t
           table == TableOf(t.mem)
           last == r.tables[0]
           both == [r.tables EXCEPT ![0] = Append(last, table)]
<1>1. 0 \in 0 .. KLevels - 1
  BY KLsmAssumption
<1>2. f = [r EXCEPT !.tables[0] = Append(@, table), !.mem = <<>>]
  BY DEF Flush
<1>3. ASSUME ~r.cut
      PROVE  /\ TreeOK(r) /\ r.mem = t.mem
             /\ \A e : Tabled(r, e) => Tabled(t, e)
             /\ \A key : KeyIn(t, key) => KeyIn(r, key)
  <2>1. CASE Len(t.tables[0]) >= Limit(0)
    <3>1. r = Compact(t, 0)
      BY <2>1
    <3> HIDE DEF r
    <3> QED BY <1>1, <1>3, <3>1, CompactKeeps
  <2>2. CASE ~(Len(t.tables[0]) >= Limit(0))
    BY <2>2
  <2> QED BY <2>1, <2>2
<1>4. \E m, x, y : r = [mem |-> m, tables |-> x, cut |-> y]
  <2>1. t = [mem |-> t.mem, tables |-> t.tables, cut |-> t.cut]
    BY DEF TreeOK
  <2>2. Compact(t, 0) = t \/ \E a, b, d :
           Compact(t, 0) = [[[t EXCEPT !.tables[0] = a] EXCEPT !.tables[0 + 1] = b] EXCEPT !.cut = d]
    BY DEF Compact
  <2>3. ASSUME NEW a, NEW b, NEW d
        PROVE  \E m, x, y : [[[t EXCEPT !.tables[0] = a] EXCEPT !.tables[0 + 1] = b] EXCEPT !.cut = d]
                              = [mem |-> m, tables |-> x, cut |-> y]
    <3> DEFINE one == [t EXCEPT !.tables[0] = a]
               two == [one EXCEPT !.tables[0 + 1] = b]
    <3>1. one = [mem |-> t.mem, tables |-> [t.tables EXCEPT ![0] = a], cut |-> t.cut]
      BY <2>1
    <3> HIDE DEF one
    <3>2. two = [mem |-> one.mem, tables |-> [one.tables EXCEPT ![0 + 1] = b], cut |-> one.cut]
      BY <3>1
    <3> HIDE DEF two
    <3>3. [two EXCEPT !.cut = d] = [mem |-> two.mem, tables |-> two.tables, cut |-> d]
      BY <3>2
    <3> QED BY <3>3 DEF one, two
  <2> QED BY <2>1, <2>2, <2>3
<1> HIDE DEF r, table
<1>5. f = [mem |-> <<>>, tables |-> both, cut |-> r.cut]
  <2>1. PICK m, x, y : r = [mem |-> m, tables |-> x, cut |-> y]
    BY <1>4
  <2> QED BY <1>2, <2>1
<1> HIDE DEF f, both
<1>6. f.mem = <<>> /\ f.tables = both /\ f.cut = r.cut
  BY <1>5
<1>7. /\ TreeOK(r) /\ r.mem = t.mem
      /\ \A e : Tabled(r, e) => Tabled(t, e)
      /\ \A key : KeyIn(t, key) => KeyIn(r, key)
  BY <1>3, <1>6 DEF f
<1>8. table \in Tables /\ table.entries = t.mem
  <2>1. t.mem \in Seq(KEntries) /\ SortedByKey(t.mem)
    BY DEF TreeOK
  <2> QED BY <2>1, TableIsTable DEF table
<1>9. r.tables \in [0 .. KLevels - 1 -> Seq(Tables)] /\ last \in Seq(Tables)
  BY <1>1, <1>7 DEF TreeOK
<1> DEFINE more == Append(last, table)
<1>10. more \in Seq(Tables) /\ AllOf(more) = AllOf(last) \cup ToSet(t.mem)
  <2>1. <<table>> \in Seq(Tables) /\ more = last \o <<table>>
    BY <1>8, <1>9
  <2>2. AllOf(<<table>>) = ToSet(t.mem)
    BY <1>8 DEF AllOf
  <2> HIDE DEF more, last
  <2> QED BY <1>9, <2>1, <2>2, AllOfJoined
<1> HIDE DEF more
<1>11. /\ both \in [0 .. KLevels - 1 -> Seq(Tables)] /\ both[0] = more
       /\ \A l \in 0 .. KLevels - 1 : l # 0 => both[l] = r.tables[l]
  BY <1>1, <1>9, <1>10 DEF both, more
<1> HIDE DEF last
<1>12. TreeOK(f)
  <2>1. <<>> \in Seq(KEntries) /\ SortedByKey(<<>>)
    BY DEF SortedByKey
  <2> QED BY <1>5, <1>6, <1>11, <2>1 DEF TreeOK
<1>13. ASSUME NEW e PROVE Tabled(f, e) <=> Tabled(r, e) \/ e \in ToSet(t.mem)
  <2>1. Tabled(f, e) <=> \E l \in 0 .. KLevels - 1 : e \in AllOf(both[l])
    BY <1>6, TabledIs
  <2>2. Tabled(r, e) <=> \E l \in 0 .. KLevels - 1 : e \in AllOf(r.tables[l])
    BY TabledIs
  <2> QED BY <1>1, <1>10, <1>11, <2>1, <2>2 DEF last
<1>14. ASSUME NEW key, KeyIn(t, key) \/ Has(t.mem, key) PROVE KeyIn(f, key)
  <2>1. KeyIn(r, key) \/ Has(t.mem, key)
    BY <1>7, <1>14
  <2> QED BY <1>13, <2>1 DEF KeyIn, Has
<1> QED BY <1>6, <1>7, <1>12, <1>13, <1>14 DEF f

(* After a flush the tree tells of a key what it told, unless the key was  *)
(* in the memtable and in the tables.                                      *)
LEMMA FlushTold ==
    ASSUME NEW t, TreeOK(t), ~Flush(t).cut
    PROVE  /\ TreeOK(Flush(t)) /\ Flush(t).mem = <<>>
           /\ \A key, v : Told(t, key, v) /\ ~(Has(t.mem, key) /\ KeyIn(t, key)) => Told(Flush(t), key, v)
<1>1. CASE t.mem = <<>>
  BY <1>1 DEF Flush
<1>2. CASE t.mem # <<>>
  <2> DEFINE f == Flush(t)
  <2>1. /\ TreeOK(f) /\ f.mem = <<>>
        /\ \A e : Tabled(f, e) => Tabled(t, e) \/ e \in ToSet(t.mem)
        /\ \A key : KeyIn(t, key) \/ Has(t.mem, key) => KeyIn(f, key)
    BY <1>2, FlushKeeps
  <2> HIDE DEF f
  <2>2. ASSUME NEW key, NEW v, Told(t, key, v), ~(Has(t.mem, key) /\ KeyIn(t, key)) PROVE Told(f, key, v)
    <3>1. ~Has(f.mem, key) /\ Single(f.mem, key)
      BY <2>1 DEF Has, ToSet, Single
    <3>2. ASSUME NEW e, Tabled(f, e), e.key = key PROVE Says(e, v)
      <4>1. CASE e \in ToSet(t.mem)
        BY <2>2, <3>2, <4>1 DEF Told, Has
      <4>2. CASE Tabled(t, e)
        BY <2>2, <3>2, <4>2 DEF Told, KeyIn
      <4> QED BY <2>1, <3>2, <4>1, <4>2
    <3>3. ASSUME v # NoValue PROVE \E e : Tabled(f, e) /\ e.key = key
      <4>1. KeyIn(t, key) \/ Has(t.mem, key)
        BY <2>2, <3>3 DEF Told, KeyIn
      <4>2. KeyIn(f, key)
        BY <2>1, <4>1
      <4> QED BY <4>2 DEF KeyIn
    <3> QED BY <3>1, <3>2, <3>3 DEF Told
  <2> QED BY <2>1, <2>2 DEF f
<1> QED BY <1>1, <1>2

(* A compaction leaves what the tree tells.                                *)
LEMMA CompactTold ==
    ASSUME NEW t, TreeOK(t), NEW level \in 0 .. KLevels - 1, ~Compact(t, level).cut
    PROVE  /\ TreeOK(Compact(t, level))
           /\ \A key, v : Told(t, key, v) => Told(Compact(t, level), key, v)
<1> DEFINE c == Compact(t, level)
<1>1. /\ TreeOK(c) /\ c.mem = t.mem
      /\ \A e : Tabled(c, e) => Tabled(t, e)
      /\ \A key : KeyIn(t, key) => KeyIn(c, key)
  BY CompactKeeps
<1> HIDE DEF c
<1>2. ASSUME NEW key, NEW v, Told(t, key, v) PROVE Told(c, key, v)
  BY <1>1, <1>2 DEF Told, KeyIn
<1> QED BY <1>1, <1>2 DEF c

(* An entry is put into a memtable in the place of those of its key.       *)
PutIn(s, c, e, lost) ==
    /\ c \in Seq(KEntries) /\ SortedByKey(c) /\ e \in ToSet(c)
    /\ Single(s, e.key) => /\ Single(c, e.key)
                           /\ \A x \in ToSet(c) : x.key = e.key => x = e
    /\ \A key : key # e.key /\ key \notin lost /\ Single(s, key) => Single(c, key)
    /\ \A x : x.key # e.key /\ x.key \notin lost => (x \in ToSet(c) <=> x \in ToSet(s))

(* An entry put over one of its key.                                       *)
LEMMA PutOver ==
    ASSUME NEW s \in Seq(KEntries), SortedByKey(s), NEW e \in KEntries, NEW p \in 1 .. Len(s), s[p].key = e.key
    PROVE  PutIn(s, [s EXCEPT ![p] = e], e, {})
<1> DEFINE n == Len(s)
           c == [s EXCEPT ![p] = e]
<1>1. /\ n \in Nat /\ DOMAIN s = 1 .. n /\ c \in Seq(KEntries) /\ DOMAIN c = 1 .. n /\ Len(c) = n
      /\ c[p] = e /\ \A i \in 1 .. n : i # p => c[i] = s[i]
  OBVIOUS
<1>2. p \in 1 .. n /\ \A i, j \in 1 .. n : i < j => s[i].key <= s[j].key
  BY DEF SortedByKey
<1> HIDE DEF c
<1>3. \A key : Single(s, key) => \A i, j \in 1 .. n : s[i].key = key /\ s[j].key = key => i = j
  BY DEF Single
<1> HIDE DEF n
<1>4. \A i \in 1 .. n : c[i].key = s[i].key
  BY <1>1
<1>5. SortedByKey(c)
  BY <1>1, <1>2, <1>4 DEF SortedByKey
<1>6. ToSet(c) = {c[i] : i \in 1 .. n} /\ ToSet(s) = {s[i] : i \in 1 .. n}
  BY <1>1 DEF ToSet
<1>7. \A key : Single(s, key) => Single(c, key)
  BY <1>1, <1>3, <1>4 DEF Single
<1>8. Single(s, e.key) => \A x \in ToSet(c) : x.key = e.key => x = e
  BY <1>1, <1>2, <1>3, <1>4, <1>6
<1>9. \A x : x.key # e.key => (x \in ToSet(c) <=> x \in ToSet(s))
  BY <1>1, <1>2, <1>6
<1> QED BY <1>1, <1>2, <1>5, <1>6, <1>7, <1>8, <1>9 DEF PutIn, c

(* An entry more, at a place of its own.                                   *)
OneMore(S, s, p, e, c) ==
    /\ c \in Seq(S) /\ Len(c) = Len(s) + 1
    /\ \A i \in 1 .. Len(s) + 1 : c[i] = IF i < p THEN s[i] ELSE IF i = p THEN e ELSE s[i - 1]

(* What InsertAt gives, place by place.                                    *)
LEMMA InsertedIs ==
    ASSUME NEW S, NEW s \in Seq(S), NEW p \in 1 .. Len(s) + 1, NEW e \in S
    PROVE  OneMore(S, s, p, e, InsertAt(s, p, e))
<1> DEFINE n == Len(s)
           a == SubSeq(s, 1, p - 1)
           b == SubSeq(s, p, n)
           ae == a \o <<e>>
           c == ae \o b
<1>1. n \in Nat /\ p \in 1 .. n + 1
  OBVIOUS
<1>2. a \in Seq(S) /\ Len(a) = p - 1 /\ \A i \in 1 .. p - 1 : a[i] = s[i]
  OBVIOUS
<1>3. b \in Seq(S) /\ Len(b) = n - p + 1 /\ \A i \in 1 .. n - p + 1 : b[i] = s[p + i - 1]
  OBVIOUS
<1> HIDE DEF a, b, n
<1>4. ae \in Seq(S) /\ Len(ae) = p /\ ae[p] = e /\ \A i \in 1 .. p - 1 : ae[i] = s[i]
  BY <1>1, <1>2, SMTT(60)
<1> HIDE DEF ae
<1>5. c \in Seq(S) /\ Len(c) = n + 1
  <2>1. ae \in Seq(S) /\ b \in Seq(S)
    BY <1>3, <1>4
  <2>2. c \in Seq(S)
    BY <2>1
  <2>3. Len(c) = Len(ae) + Len(b)
    BY <2>1
  <2> QED BY <1>1, <1>3, <1>4, <2>2, <2>3
<1>6. \A i \in 1 .. n + 1 : c[i] = IF i <= p THEN ae[i] ELSE b[i - p]
  BY <1>1, <1>3, <1>4
<1> HIDE DEF c
<1>7. ASSUME NEW i \in 1 .. n + 1 PROVE c[i] = IF i < p THEN s[i] ELSE IF i = p THEN e ELSE s[i - 1]
  <2>1. CASE i < p
    <3>1. i \in 1 .. p - 1 /\ i <= p
      BY <1>1, <2>1
    <3> QED BY <1>4, <1>6, <2>1, <3>1
  <2>2. CASE i = p
    BY <1>1, <1>4, <1>6, <2>2
  <2>3. CASE i > p
    <3>1. i - p \in 1 .. n - p + 1 /\ p + (i - p) - 1 = i - 1
      BY <1>1, <2>3
    <3>2. c[i] = b[i - p]
      BY <1>1, <1>6, <2>3
    <3>3. b[i - p] = s[i - 1]
      BY <1>3, <3>1
    <3> QED BY <1>1, <2>3, <3>2, <3>3
  <2> QED BY <1>1, <2>1, <2>2, <2>3
<1>8. InsertAt(s, p, e) = c
  BY DEF InsertAt, c, ae, a, b, n
<1> QED BY <1>5, <1>7, <1>8 DEF n, OneMore

(* What InsertAt gives, as a set.                                          *)
LEMMA InsertedSet ==
    ASSUME NEW S, NEW s \in Seq(S), NEW p \in 1 .. Len(s) + 1, NEW e \in S
    PROVE  ToSet(InsertAt(s, p, e)) = ToSet(s) \cup {e}
<1> DEFINE n == Len(s)
           c == InsertAt(s, p, e)
<1>1. /\ c \in Seq(S) /\ Len(c) = n + 1
      /\ \A i \in 1 .. n + 1 : c[i] = IF i < p THEN s[i] ELSE IF i = p THEN e ELSE s[i - 1]
  <2>1. OneMore(S, s, p, e, c)
    BY InsertedIs
  <2> HIDE DEF c
  <2> QED BY <2>1 DEF OneMore
<1>2. n \in Nat /\ p \in 1 .. n + 1
  OBVIOUS
<1>3. ToSet(c) = {c[i] : i \in 1 .. n + 1} /\ ToSet(s) = {s[i] : i \in 1 .. n}
  BY <1>1 DEF ToSet
<1> HIDE DEF n, c
<1>4. ASSUME NEW i \in 1 .. n + 1 PROVE c[i] = e \/ \E j \in 1 .. n : c[i] = s[j]
  <2>1. CASE i < p
    BY <1>1, <1>2, <2>1
  <2>2. CASE i = p
    BY <1>1, <1>2, <2>2
  <2>3. CASE i > p
    <3>1. i - 1 \in 1 .. n
      BY <1>2, <2>3
    <3> QED BY <1>1, <1>2, <2>3, <3>1
  <2> QED BY <1>2, <2>1, <2>2, <2>3
<1>5. ASSUME NEW j \in 1 .. n PROVE \E i \in 1 .. n + 1 : c[i] = s[j]
  <2>1. CASE j < p
    BY <1>1, <1>2, <2>1
  <2>2. CASE ~(j < p)
    <3>1. j + 1 \in 1 .. n + 1 /\ j + 1 > p /\ (j + 1) - 1 = j
      BY <1>2, <2>2
    <3>2. c[j + 1] = s[j]
      BY <1>1, <1>2, <3>1
    <3> QED BY <3>1, <3>2
  <2> QED BY <2>1, <2>2
<1>6. c[p] = e
  BY <1>1, <1>2
<1>7. ToSet(c) = ToSet(s) \cup {e}
  BY <1>2, <1>3, <1>4, <1>5, <1>6
<1> QED BY <1>7 DEF c

(* An entry at a place of its own, with copies of one entry behind it.     *)
Shifted(s, p, e, c) ==
    /\ c \in Seq(KEntries) /\ Len(c) = Len(s) + 1
    /\ \A i \in 1 .. Len(s) + 1 : c[i] = IF i < p THEN s[i] ELSE IF i = p THEN e ELSE s[p]

(* A new key is put where the search ends: the keys stay in order, and     *)
(* what it overwrites is all that is lost.                                 *)
LEMMA PutNew ==
    ASSUME NEW s \in Seq(KEntries), SortedByKey(s), NEW e \in KEntries, ~At(s, e.key),
           NEW c, Shifted(s, FindKey(s, e.key), e, c)
    PROVE  PutIn(s, c, e, Overwritten(s, e.key))
<1> DEFINE n == Len(s)
           p == FindKey(s, e.key)
           lost == Overwritten(s, e.key)
<1>1. e.key \in KKeys /\ e.key \in Int
  <2>1. e.key \in KKeys
    BY DEF KEntries
  <2> QED BY <2>1, KLsmAssumption
<1>2. n \in Nat /\ \A i \in 1 .. n : s[i] \in KEntries /\ s[i].key \in Int
  BY KeysAreInt
<1>3. /\ p \in 1 .. n + 1
      /\ \A i \in 1 .. n : i < p => s[i].key < e.key
      /\ \A i \in 1 .. n : i >= p => s[i].key >= e.key
  <2> DEFINE key == e.key
  <2> HIDE DEF key
  <2> QED BY <1>1, FindKeyRight DEF key
<1>4. ToSet(s) = {s[i] : i \in 1 .. n} /\ ~Has(s, e.key)
  <2>1. ToSet(s) = {s[i] : i \in 1 .. n}
    BY DEF ToSet
  <2> DEFINE key == e.key
  <2>2. key \in KKeys /\ ~At(s, key)
    BY <1>1
  <2> HIDE DEF key
  <2>3. ~Has(s, key)
    BY <1>1, <2>2, AtMeans DEF Has
  <2> QED BY <2>1, <2>3 DEF key
<1>5. \A i \in 1 .. n : s[i].key # e.key
  BY <1>4 DEF Has
<1>6. \A i, j \in 1 .. n : i < j => s[i].key <= s[j].key
  BY DEF SortedByKey
<1>7. p < n => lost = {s[i].key : i \in p .. n}
  BY <1>2, <1>3 DEF Overwritten
<1>8. /\ c \in Seq(KEntries) /\ Len(c) = n + 1
      /\ \A i \in 1 .. n + 1 : c[i] = IF i < p THEN s[i] ELSE IF i = p THEN e ELSE s[p]
  BY DEF Shifted
<1>9. \A key : Single(s, key) => \A i, j \in 1 .. n : s[i].key = key /\ s[j].key = key => i = j
  BY DEF Single
<1> HIDE DEF n, p, lost
<1>10. ToSet(c) = {c[i] : i \in 1 .. n + 1}
  BY <1>8 DEF ToSet
<1>11. \A i \in 1 .. n + 1 :
         \/ i < p /\ i \in 1 .. n /\ c[i] = s[i]
         \/ i = p /\ c[i] = e
         \/ i > p /\ p \in 1 .. n /\ c[i] = s[p]
  BY <1>2, <1>3, <1>8
<1>12. p \in 1 .. n => s[p].key >= e.key /\ s[p].key \in Int
  BY <1>2, <1>3
<1>13. SortedByKey(c)
  <2> SUFFICES ASSUME NEW i \in 1 .. n + 1, NEW j \in 1 .. n + 1, i < j PROVE c[i].key <= c[j].key
    BY <1>8 DEF SortedByKey
  <2>1. CASE j < p
    <3>1. i \in 1 .. n /\ j \in 1 .. n /\ i < p
      BY <1>2, <1>3, <2>1, SMTT(60)
    <3> QED BY <1>6, <1>8, <2>1, <3>1
  <2>2. CASE j = p
    <3>1. i \in 1 .. n /\ i < p
      BY <1>2, <1>3, <2>2
    <3>2. c[i] = s[i] /\ c[j] = e /\ s[i].key < e.key /\ s[i].key \in Int
      BY <1>2, <1>3, <1>8, <2>2, <3>1
    <3> QED BY <1>1, <3>2
  <2>3. CASE j > p
    <3>1. p \in 1 .. n /\ c[j] = s[p]
      BY <1>2, <1>3, <1>11, <2>3
    <3>2. CASE i < p
      BY <1>6, <1>8, <1>11, <3>1, <3>2
    <3>3. CASE i = p
      BY <1>1, <1>8, <1>12, <3>1, <3>3
    <3>4. CASE i > p
      <4>1. c[i] = s[p]
        BY <1>3, <1>11, <3>4
      <4> QED BY <1>12, <3>1, <4>1
    <3> QED BY <1>3, <3>2, <3>3, <3>4
  <2> QED BY <1>3, <2>1, <2>2, <2>3
<1>14. \A i \in 1 .. n + 1 : c[i].key = e.key => i = p
  BY <1>5, <1>11
<1>15. Single(c, e.key) /\ \A x \in ToSet(c) : x.key = e.key => x = e
  <2>1. Single(c, e.key)
    BY <1>8, <1>14 DEF Single
  <2> QED BY <1>8, <1>10, <1>14, <2>1
<1>16. ASSUME NEW key, key # e.key, key \notin lost, Single(s, key) PROVE Single(c, key)
  <2> SUFFICES ASSUME NEW i \in 1 .. n + 1, NEW j \in 1 .. n + 1, c[i].key = key, c[j].key = key PROVE i = j
    BY <1>8 DEF Single
  <2>1. \A k \in 1 .. n + 1 : k > p /\ c[k].key = key => p \in 1 .. n /\ s[p].key = key /\ k = n + 1
    <3> SUFFICES ASSUME NEW k \in 1 .. n + 1, k > p, c[k].key = key
                 PROVE  p \in 1 .. n /\ s[p].key = key /\ k = n + 1
      OBVIOUS
    <3>1. p \in 1 .. n /\ s[p].key = key
      BY <1>3, <1>11
    <3>2. ~(p < n)
      <4>1. p \in p .. n
        BY <1>2, <3>1
      <4> QED BY <1>7, <1>16, <3>1, <4>1
    <3> QED BY <1>2, <3>1, <3>2
  <2>2. i # p /\ j # p
    BY <1>16, <1>11
  <2>3. CASE i < p /\ j < p
    BY <1>9, <1>11, <1>16, <2>3
  <2>4. CASE i > p /\ j > p
    BY <2>1, <2>4
  <2>5. CASE (i < p /\ j > p) \/ (i > p /\ j < p)
    <3>1. p \in 1 .. n /\ s[p].key = key
      BY <2>1, <2>5
    <3>2. \E k \in 1 .. n : k < p /\ s[k].key = key
      BY <1>3, <1>11, <2>5
    <3> QED BY <1>3, <1>9, <1>16, <3>1, <3>2
  <2> QED BY <1>3, <2>2, <2>3, <2>4, <2>5
<1>17. ASSUME NEW x, x.key # e.key, x.key \notin lost PROVE x \in ToSet(c) <=> x \in ToSet(s)
  <2>1. ASSUME x \in ToSet(c) PROVE x \in ToSet(s)
    <3>1. PICK i \in 1 .. n + 1 : x = c[i]
      BY <1>10, <2>1
    <3> QED BY <1>4, <1>11, <1>17, <3>1
  <2>2. ASSUME x \in ToSet(s) PROVE x \in ToSet(c)
    <3>1. PICK i \in 1 .. n : x = s[i]
      BY <1>4, <2>2
    <3>2. CASE i < p
      BY <1>2, <1>8, <1>10, <3>1, <3>2
    <3>3. CASE ~(i < p)
      <4>1. i \in p .. n
        BY <1>3, <3>3
      <4>2. ~(p < n)
        BY <1>7, <1>17, <3>1, <4>1
      <4>3. i = p /\ i = n
        BY <1>2, <1>3, <4>1, <4>2
      <4>4. c[n + 1] = s[p]
        BY <1>2, <1>8, <4>3
      <4>5. n + 1 \in 1 .. n + 1
        BY <1>2
      <4> QED BY <1>10, <3>1, <4>3, <4>4, <4>5
    <3> QED BY <3>2, <3>3
  <2> QED BY <2>1, <2>2
<1>18. e \in ToSet(c)
  BY <1>3, <1>8, <1>10
<1> QED BY <1>8, <1>13, <1>15, <1>16, <1>17, <1>18 DEF PutIn, lost

(* What a tree tells after an entry was put into its memtable.             *)
LEMMA MemTold ==
    ASSUME NEW t, TreeOK(t), NEW e, NEW c, NEW lost, PutIn(t.mem, c, e, lost)
    PROVE  /\ TreeOK([t EXCEPT !.mem = c])
           /\ \A v : Says(e, v) /\ Single(t.mem, e.key) => Told([t EXCEPT !.mem = c], e.key, v)
           /\ \A key, v : key # e.key /\ key \notin lost /\ Told(t, key, v)
                             => Told([t EXCEPT !.mem = c], key, v)
<1> DEFINE n == [t EXCEPT !.mem = c]
<1>1. n = [mem |-> c, tables |-> t.tables, cut |-> t.cut]
  BY DEF TreeOK
<1> HIDE DEF n
<1>2. n.mem = c /\ n.tables = t.tables /\ n.cut = t.cut /\ n = [mem |-> n.mem, tables |-> n.tables, cut |-> n.cut]
  BY <1>1
<1>3. TreeOK(n)
  BY <1>2 DEF TreeOK, PutIn
<1>4. \A x : Tabled(n, x) <=> Tabled(t, x)
  BY <1>2 DEF Tabled
<1>5. ASSUME NEW v, Says(e, v), Single(t.mem, e.key) PROVE Told(n, e.key, v)
  BY <1>2, <1>5 DEF Told, Has, PutIn
<1>6. ASSUME NEW key, NEW v, key # e.key, key \notin lost, Told(t, key, v) PROVE Told(n, key, v)
  <2>0. Single(n.mem, key)
    BY <1>2, <1>6 DEF PutIn, Told
  <2>1. \A x : x.key = key => (x \in ToSet(n.mem) <=> x \in ToSet(t.mem))
    BY <1>2, <1>6 DEF PutIn
  <2>2. Has(n.mem, key) <=> Has(t.mem, key)
    BY <2>1 DEF Has
  <2>3. CASE Has(t.mem, key)
    BY <1>6, <2>0, <2>1, <2>2, <2>3 DEF Told
  <2>4. CASE ~Has(t.mem, key)
    BY <1>4, <1>6, <2>0, <2>2, <2>4 DEF Told
  <2> QED BY <2>3, <2>4
<1> QED BY <1>3, <1>5, <1>6 DEF n

(* The search ends at a place, whatever the order.                         *)
LEMMA FindKeyPlace ==
    ASSUME NEW s \in Seq(KEntries), NEW key \in KKeys
    PROVE  FindKey(s, key) \in 1 .. Len(s) + 1
<1>1. PICK w : FindKey(s, key) = w[Len(s)].lo
               /\ \A k \in 0 .. Len(s) : w[k] \in [lo : 1 .. Len(s) + 1, hi : 1 .. Len(s) + 1]
  BY HalvedSteps
<1>2. Len(s) \in 0 .. Len(s)
  OBVIOUS
<1> QED BY <1>1, <1>2

(* Where a key is, when nothing but its entry can be at its place.         *)
LEMMA AtHas ==
    ASSUME NEW s \in Seq(KEntries), NEW key \in KKeys, At(s, key)
    PROVE  Has(s, key)
<1>1. FindKey(s, key) \in 1 .. Len(s) + 1 /\ FindKey(s, key) <= Len(s) /\ s[FindKey(s, key)].key = key
  BY FindKeyPlace DEF At
<1> DEFINE p == FindKey(s, key)
<1>2. p \in 1 .. Len(s)
  <2>1. Len(s) \in Nat
    OBVIOUS
  <2> QED BY <1>1, <2>1
<1> HIDE DEF p
<1>3. s[p] \in ToSet(s)
  BY <1>2 DEF ToSet
<1> QED BY <1>1, <1>3 DEF Has, p

(* The memtable after lsm_put holds the new value of the key.              *)
LEMMA MemtablePutIs ==
    ASSUME NEW s \in Seq(KEntries), SortedByKey(s), NEW key \in KKeys, NEW v \in KVals
    PROVE  PutIn(s, MemtablePut(s, key, v), KEntry(key, v, FALSE), Overwritten(s, key))
<1> DEFINE n == Len(s)
           p == FindKey(s, key)
           e == KEntry(key, v, FALSE)
           c == [i \in 1 .. (n + 1) |-> IF i < p THEN s[i] ELSE IF i = p THEN e ELSE s[p]]
<1>1. e \in KEntries /\ e.key = key /\ n \in Nat /\ \A i \in 1 .. n : s[i] \in KEntries
  <2>1. e \in KEntries /\ e.key = key
    BY DEF KEntry, KEntries
  <2>2. n \in Nat /\ \A i \in 1 .. n : s[i] \in KEntries
    OBVIOUS
  <2> QED BY <2>1, <2>2
<1>2. MemtablePut(s, key, v) = IF At(s, key) THEN [s EXCEPT ![p] = e] ELSE c
  BY DEF MemtablePut
<1>3. p \in 1 .. n + 1
  BY FindKeyPlace
<1> HIDE DEF p, e
<1>4. CASE At(s, key)
  <2>1. p \in 1 .. Len(s) /\ s[p].key = e.key
    BY <1>1, <1>4, AtMeans DEF p
  <2>2. Overwritten(s, key) = {}
    BY <1>4 DEF Overwritten
  <2> QED BY <1>1, <1>2, <1>4, <2>1, <2>2, PutOver DEF e
<1>5. CASE ~At(s, key)
  <2>1. Shifted(s, p, e, c)
    <3>1. \A i \in 1 .. n + 1 : i > p => p \in 1 .. n
      BY <1>1, <1>3
    <3>2. \A i \in 1 .. n + 1 : i < p => i \in 1 .. n
      BY <1>1, <1>3
    <3>3. \A i \in 1 .. n + 1 : c[i] \in KEntries
      BY <1>1, <1>3, <3>1, <3>2
    <3>4. c \in Seq(KEntries) /\ Len(c) = n + 1
      <4>1. c \in [1 .. n + 1 -> KEntries]
        BY <3>3
      <4> HIDE DEF c
      <4> QED BY <1>1, <4>1
    <3> QED BY <3>4 DEF Shifted
  <2> HIDE DEF c
  <2>2. PutIn(s, c, e, Overwritten(s, e.key))
    BY <1>1, <1>5, <2>1, PutNew DEF p
  <2> QED BY <1>1, <1>2, <1>5, <2>2 DEF e
<1> QED BY <1>4, <1>5

-----------------------------------------------------------------------------
(* A full memtable is flushed before a write.                              *)
Roomed(t) == IF Len(t.mem) >= KMemMax THEN Flush(t) ELSE t
Twice(t, key) == Has(t.mem, key) /\ KeyIn(t, key)
Lost(t, k) == IF Len(t.mem) >= KMemMax THEN {} ELSE Overwritten(t.mem, k)

(* The flush before a write leaves what the tree tells.                    *)
LEMMA RoomedTold ==
    ASSUME NEW t, TreeOK(t), ~Roomed(t).cut
    PROVE  /\ TreeOK(Roomed(t))
           /\ Roomed(t).mem = IF Len(t.mem) >= KMemMax THEN <<>> ELSE t.mem
           /\ \A key, v : Told(t, key, v) /\ ~(Len(t.mem) >= KMemMax /\ Twice(t, key))
                             => Told(Roomed(t), key, v)
<1>1. CASE Len(t.mem) >= KMemMax
  BY <1>1, FlushTold DEF Roomed, Twice
<1>2. CASE ~(Len(t.mem) >= KMemMax)
  BY <1>2 DEF Roomed
<1> QED BY <1>1, <1>2

(* After lsm_put the tree tells the new value, and the others as before.   *)
LEMMA PutTold ==
    ASSUME NEW t, TreeOK(t), NEW k \in KKeys, NEW v \in KVals, ~KlPut(t, k, v).cut
    PROVE  /\ TreeOK(KlPut(t, k, v)) /\ (Single(t.mem, k) => Told(KlPut(t, k, v), k, v))
           /\ \A key, w : key # k /\ key \notin Lost(t, k) /\ Told(t, key, w)
                          /\ ~(Len(t.mem) >= KMemMax /\ Twice(t, key))
                             => Told(KlPut(t, k, v), key, w)
<1> DEFINE r == Roomed(t)
           e == KEntry(k, v, FALSE)
           c == MemtablePut(r.mem, k, v)
           n == [r EXCEPT !.mem = c]
<1>1. KlPut(t, k, v) = n
  BY DEF KlPut, Roomed
<1>2. ~r.cut
  <2>1. ~n.cut
    BY <1>1
  <2> HIDE DEF r, c
  <2> QED BY <2>1
<1>3. /\ TreeOK(r) /\ r.mem = IF Len(t.mem) >= KMemMax THEN <<>> ELSE t.mem
      /\ \A key, w : Told(t, key, w) /\ ~(Len(t.mem) >= KMemMax /\ Twice(t, key)) => Told(r, key, w)
  BY <1>2, RoomedTold
<1> HIDE DEF r
<1>4. PutIn(r.mem, c, e, Lost(t, k))
  <2>1. PutIn(r.mem, c, e, Overwritten(r.mem, k))
    BY <1>3, MemtablePutIs DEF TreeOK
  <2>2. Overwritten(<<>>, k) = {}
    <3>1. <<>> \in Seq(KEntries) /\ Len(<<>>) = 0
      OBVIOUS
    <3>2. FindKey(<<>>, k) \in 1 .. 0 + 1
      BY <3>1, FindKeyPlace
    <3> QED BY <3>1, <3>2 DEF Overwritten
  <2>3. Overwritten(r.mem, k) = Lost(t, k)
    BY <1>3, <2>2 DEF Lost
  <2> QED BY <2>1, <2>3
<1>5. Says(e, v) /\ e.key = k
  BY DEF Says, KEntry
<1> HIDE DEF e, c
<1>6. /\ TreeOK(n) /\ \A w : Says(e, w) /\ Single(r.mem, e.key) => Told(n, e.key, w)
      /\ \A key, w : key # e.key /\ key \notin Lost(t, k) /\ Told(r, key, w) => Told(n, key, w)
  BY <1>3, <1>4, MemTold
<1> HIDE DEF n
<1>7. \A key, w : key # k /\ key \notin Lost(t, k) /\ Told(t, key, w)
                   /\ ~(Len(t.mem) >= KMemMax /\ Twice(t, key)) => Told(n, key, w)
  BY <1>3, <1>5, <1>6
<1>8. Single(t.mem, k) => Single(r.mem, k)
  BY <1>3 DEF Single
<1> QED BY <1>1, <1>5, <1>6, <1>7, <1>8

(* Unless a wrong tombstone slid in, a delete puts its tombstone there.    *)
LEMMA DeleteTold ==
    ASSUME NEW t, TreeOK(t), NEW k \in KKeys, ~KlDelete(t, k).cut, At(KlDelete(t, k).mem, k)
    PROVE  /\ TreeOK(KlDelete(t, k)) /\ (Single(t.mem, k) => Told(KlDelete(t, k), k, NoValue))
           /\ \A key, w : key # k /\ Told(t, key, w)
                          /\ ~(Len(t.mem) >= KMemMax /\ ~At(t.mem, k) /\ Twice(t, key))
                             => Told(KlDelete(t, k), key, w)
<1> DEFINE d == KlDelete(t, k)
<1>1. /\ t = [mem |-> t.mem, tables |-> t.tables, cut |-> t.cut]
      /\ t.mem \in Seq(KEntries) /\ SortedByKey(t.mem)
  BY DEF TreeOK
<1>2. CASE At(t.mem, k)
  <2> DEFINE p == FindKey(t.mem, k)
             e == [t.mem[p] EXCEPT !.deleted = TRUE]
             c == [t.mem EXCEPT ![p] = e]
             n == [t EXCEPT !.mem = c]
  <2>1. p \in 1 .. Len(t.mem) /\ t.mem[p].key = k
    BY <1>1, <1>2, AtMeans
  <2>2. t.mem[p] \in KEntries
    BY <1>1, <2>1
  <2>3. d = [t EXCEPT !.mem[p].deleted = TRUE]
    BY <1>2 DEF KlDelete
  <2>4. d = n
    <3> HIDE DEF p
    <3> QED BY <1>1, <2>3
  <2>5. e \in KEntries /\ e.key = k /\ Says(e, NoValue)
    <3> HIDE DEF p
    <3> QED BY <2>1, <2>2 DEF KEntries, Says
  <2> HIDE DEF p, e
  <2>6. PutIn(t.mem, c, e, {})
    BY <1>1, <2>1, <2>5, PutOver
  <2> HIDE DEF c
  <2> DEFINE none == {}
  <2>7. /\ TreeOK(n) /\ \A w : Says(e, w) /\ Single(t.mem, e.key) => Told(n, e.key, w)
        /\ \A key, w : key # e.key /\ Told(t, key, w) => Told(n, key, w)
    <3>1. PutIn(t.mem, c, e, none) /\ \A key : key \notin none
      BY <2>6
    <3> HIDE DEF none
    <3> QED BY <3>1, MemTold
  <2> HIDE DEF n, d
  <2> QED BY <2>4, <2>5, <2>7 DEF d
<1>3. CASE ~At(t.mem, k)
  <2> DEFINE r == Roomed(t)
             p == FindKey(r.mem, k)
             m == Len(r.mem)
             tomb == KEntry(k, NoValue, TRUE)
             e == IF p > m THEN tomb ELSE r.mem[m]
             c == InsertAt(r.mem, p, e)
             n == [r EXCEPT !.mem = c]
  <2>1. d = n
    BY <1>3 DEF KlDelete, Roomed
  <2>2. ~n.cut /\ At(n.mem, k)
    BY <2>1
  <2>3. ~r.cut
    <3> HIDE DEF r, c
    <3> QED BY <2>2
  <2>4. /\ TreeOK(r) /\ (r.mem = t.mem \/ r.mem = <<>>)
        /\ \A key, w : Told(t, key, w) /\ ~(Len(t.mem) >= KMemMax /\ Twice(t, key)) => Told(r, key, w)
    BY <2>3, RoomedTold
  <2> HIDE DEF r, d
  <2>5. /\ r = [mem |-> r.mem, tables |-> r.tables, cut |-> r.cut]
        /\ r.mem \in Seq(KEntries) /\ SortedByKey(r.mem)
    BY <2>4 DEF TreeOK
  <2>6. ~Has(r.mem, k) /\ ~At(r.mem, k)
    <3>1. ~Has(t.mem, k)
      BY <1>1, <1>3, AtMeans DEF Has
    <3>2. ~Has(<<>>, k)
      BY DEF Has, ToSet
    <3>3. ~Has(r.mem, k)
      BY <2>4, <3>1, <3>2
    <3> QED BY <2>5, <3>3, AtHas
  <2>7. p \in 1 .. m + 1 /\ m \in Nat
    BY <2>5, FindKeyPlace
  <2>8. n.mem = c
    <3> HIDE DEF c
    <3> QED BY <2>5
  <2>9. tomb \in KEntries /\ tomb.key = k /\ Says(tomb, NoValue)
    BY DEF KEntry, KEntries, Says
  <2>10. p > m
    <3> SUFFICES ASSUME p <= m PROVE FALSE
      BY <2>7
    <3> DEFINE last == r.mem[m]
    <3>0. ~(p > m) /\ m \in 1 .. m
      <4> HIDE DEF p, m
      <4> QED BY <2>7
    <3>1. e = last /\ m \in 1 .. m
      BY <3>0
    <3>2. last \in KEntries /\ last \in ToSet(r.mem)
      BY <2>5, <3>1 DEF ToSet
    <3>3. last.key # k
      BY <2>6, <3>2 DEF Has
    <3> HIDE DEF last, e, p
    <3>4. c \in Seq(KEntries)
      <4>1. OneMore(KEntries, r.mem, p, e, c)
        BY <2>5, <2>7, <3>1, <3>2, InsertedIs
      <4> QED BY <4>1 DEF OneMore
    <3>5. ToSet(c) = ToSet(r.mem) \cup {e}
      BY <2>5, <2>7, <3>1, <3>2, InsertedSet
    <3>6. ~Has(c, k)
      BY <2>6, <3>1, <3>3, <3>5 DEF Has
    <3> HIDE DEF c
    <3> QED BY <2>2, <2>8, <3>4, <3>6, AtHas
  <2>11. e = tomb
    BY <2>10
  <2> HIDE DEF e, tomb
  <2>12. PutIn(r.mem, c, tomb, {})
    <3>1. OneMore(KEntries, r.mem, p, tomb, c)
      BY <2>5, <2>7, <2>9, <2>11, InsertedIs
    <3> HIDE DEF c
    <3>2. Shifted(r.mem, p, tomb, c)
      <4>1. \A i \in 1 .. m + 1 : ~(i > p)
        BY <2>7, <2>10
      <4> HIDE DEF p
      <4>2. \A i \in 1 .. m + 1 : c[i] = IF i < p THEN r.mem[i] ELSE IF i = p THEN tomb ELSE r.mem[p]
        BY <2>7, <3>1, <4>1 DEF OneMore
      <4> QED BY <3>1, <4>2 DEF OneMore, Shifted
    <3>3. Overwritten(r.mem, k) = {}
      BY <2>7, <2>10 DEF Overwritten
    <3>4. PutIn(r.mem, c, tomb, Overwritten(r.mem, tomb.key))
      BY <2>5, <2>6, <2>9, <3>2, PutNew
    <3> QED BY <2>9, <3>3, <3>4
  <2> HIDE DEF c
  <2> DEFINE none == {}
  <2>13. /\ TreeOK(n) /\ \A w : Says(tomb, w) /\ Single(r.mem, tomb.key) => Told(n, tomb.key, w)
         /\ \A key, w : key # tomb.key /\ Told(r, key, w) => Told(n, key, w)
    <3>1. PutIn(r.mem, c, tomb, none) /\ \A key : key \notin none
      BY <2>12
    <3> HIDE DEF none
    <3> QED BY <2>4, <3>1, MemTold
  <2> HIDE DEF n
  <2>14. \A key, w : key # k /\ Told(t, key, w) /\ ~(Len(t.mem) >= KMemMax /\ Twice(t, key)) => Told(n, key, w)
    BY <2>4, <2>9, <2>13
  <2>15. Single(t.mem, k) => Single(r.mem, k)
    BY <2>4 DEF Single
  <2> QED BY <1>3, <2>1, <2>9, <2>13, <2>14, <2>15 DEF d
<1> QED BY <1>2, <1>3

(* What a caller's handle knows: while any key is sound, the tree tells    *)
(* its last value of each.                                                 *)
KKnows(tree, truth, sound) ==
    sound # {} => TreeOK(tree) /\ \A k \in sound : Told(tree, k, truth[k])

KInv ==
    /\ handle = [kind |-> "klsm", tree |-> handle.tree, truth |-> handle.truth,
                 sound |-> handle.sound, writes |-> handle.writes]
    /\ handle.truth \in [KKeys -> KVals \cup {NoValue}] /\ handle.sound \subseteq KKeys
    /\ KKnows(handle.tree, handle.truth, handle.sound)

(* The keys that stay sound.                                               *)
Sound(tree, sound, new, flushed, lost) ==
    IF new.cut THEN {}
    ELSE IF flushed THEN (sound \ (InMem(tree) \cap InTables(tree))) \ lost ELSE sound \ lost

(* The record of a handle after a step.                                    *)
LEMMA KlToldIs ==
    ASSUME KInv, NEW new, NEW flushed, NEW lost
    PROVE  KlTold(handle, new, flushed, lost)
             = [kind |-> "klsm", tree |-> new, truth |-> handle.truth,
                sound |-> Sound(handle.tree, handle.sound, new, flushed, lost), writes |-> handle.writes]
<1> DEFINE s == Sound(handle.tree, handle.sound, new, flushed, lost)
<1>1. KlTold(handle, new, flushed, lost) = [handle EXCEPT !.tree = new, !.sound = s]
  BY DEF KlTold, Sound
<1> HIDE DEF s
<1>2. [handle EXCEPT !.tree = new, !.sound = s]
       = [kind |-> "klsm", tree |-> new, truth |-> handle.truth, sound |-> s, writes |-> handle.writes]
  <2> DEFINE a == handle.tree
             b == handle.truth
             c == handle.sound
             d == handle.writes
  <2>1. handle = [kind |-> "klsm", tree |-> a, truth |-> b, sound |-> c, writes |-> d]
    BY DEF KInv
  <2> HIDE DEF a, b, c, d
  <2>2. [handle EXCEPT !.tree = new, !.sound = s]
          = [kind |-> "klsm", tree |-> new, truth |-> b, sound |-> s, writes |-> d]
    <3> DEFINE one == [handle EXCEPT !.tree = new]
    <3>1. one = [kind |-> "klsm", tree |-> new, truth |-> b, sound |-> c, writes |-> d]
      BY <2>1
    <3> HIDE DEF one
    <3>2. [one EXCEPT !.sound = s] = [kind |-> "klsm", tree |-> new, truth |-> b, sound |-> s, writes |-> d]
      BY <3>1
    <3> QED BY <3>2 DEF one
  <2> QED BY <2>2 DEF b, d
<1> QED BY <1>1, <1>2 DEF s

(* What holds of a key that stays sound.                                   *)
LEMMA SoundIs ==
    ASSUME NEW tree, TreeOK(tree), NEW sound \in SUBSET KKeys, NEW new, NEW flushed, NEW lost,
           NEW key \in Sound(tree, sound, new, flushed, lost)
    PROVE  ~new.cut /\ key \notin lost /\ key \in sound /\ ~(flushed /\ Twice(tree, key))
<1>1. ~new.cut /\ key \notin lost /\ key \in sound /\ (flushed => key \notin InMem(tree) \cap InTables(tree))
  BY DEF Sound
<1>2. ASSUME Twice(tree, key) PROVE key \in InMem(tree) /\ key \in InTables(tree)
  <2>1. tree.mem \in Seq(KEntries) /\ tree.tables \in [0 .. KLevels - 1 -> Seq(Tables)]
    BY DEF TreeOK
  <2>2. PICK e \in ToSet(tree.mem) : e.key = key
    BY <1>2 DEF Twice, Has
  <2>3. key \in InMem(tree)
    BY <2>2 DEF ToSet, InMem
  <2>4. PICK e2 : Tabled(tree, e2) /\ e2.key = key
    BY <1>2 DEF Twice, KeyIn
  <2>5. PICK l \in 0 .. KLevels - 1 : \E i \in DOMAIN tree.tables[l] : e2 \in ToSet(tree.tables[l][i].entries)
    BY <2>4 DEF Tabled
  <2>6. PICK i \in DOMAIN tree.tables[l] : e2 \in ToSet(tree.tables[l][i].entries)
    BY <2>5
  <2>7. PICK j \in DOMAIN tree.tables[l][i].entries : e2 = tree.tables[l][i].entries[j]
    BY <2>6 DEF ToSet
  <2>8. l \in DOMAIN tree.tables
    BY <2>1, <2>5
  <2>9. key \in KKeys
    BY <1>1
  <2>10. key \in InTables(tree)
    BY <2>4, <2>7, <2>8, <2>9, <2>6 DEF InTables
  <2> QED BY <2>3, <2>10
<1> QED BY <1>1, <1>2

(* No key becomes sound again.                                             *)
LEMMA SoundFewer ==
    ASSUME NEW tree, NEW sound \in SUBSET KKeys, NEW new, NEW flushed, NEW lost
    PROVE  Sound(tree, sound, new, flushed, lost) \subseteq sound
BY DEF Sound

-----------------------------------------------------------------------------
(* lsm_put keeps the invariant.                                            *)
LEMMA KlPutKeeps ==
    ASSUME KInv, NEW k \in KKeys, NEW v \in KVals, KLsmPut(k, v)
    PROVE  KInv'
<1> DEFINE tree == handle.tree
           new == KlPut(tree, k, v)
           full == Len(tree.mem) >= KMemMax
           lost == Lost(tree, k)
           sound == Sound(tree, handle.sound, new, full, lost)
           truth == [handle.truth EXCEPT ![k] = v]
           writes == handle.writes + 1
<1>1. KlTold(handle, new, full, lost)
        = [kind |-> "klsm", tree |-> new, truth |-> handle.truth, sound |-> sound, writes |-> handle.writes]
  BY KlToldIs
<1>2. handle' = [KlTold(handle, new, full, lost) EXCEPT !.truth[k] = v, !.writes = @ + 1]
  BY DEF KLsmPut, Full, Lost
<1> HIDE DEF new, sound, lost
<1>3. handle' = [kind |-> "klsm", tree |-> new, truth |-> truth, sound |-> sound, writes |-> writes]
  <2> DEFINE told == KlTold(handle, new, full, lost)
             b == handle.truth
             d == handle.writes
  <2>1. told = [kind |-> "klsm", tree |-> new, truth |-> b, sound |-> sound, writes |-> d]
    BY <1>1
  <2>2. handle' = [told EXCEPT !.truth[k] = v, !.writes = @ + 1]
    BY <1>2
  <2> HIDE DEF told, b, d
  <2>3. handle' = [kind |-> "klsm", tree |-> new, truth |-> [b EXCEPT ![k] = v], sound |-> sound, writes |-> d + 1]
    BY <2>1, <2>2
  <2> QED BY <2>3 DEF b, d
<1>4. /\ truth \in [KKeys -> KVals \cup {NoValue}] /\ truth[k] = v
      /\ \A key \in KKeys : key # k => truth[key] = handle.truth[key]
  BY DEF KInv
<1>5. sound \subseteq handle.sound /\ handle.sound \subseteq KKeys
  BY SoundFewer DEF KInv, sound
<1> HIDE DEF truth, writes, full, tree
<1>6. KKnows(new, truth, sound)
  <2> SUFFICES ASSUME sound # {} PROVE TreeOK(new) /\ \A key \in sound : Told(new, key, truth[key])
    BY DEF KKnows
  <2>1. TreeOK(tree) /\ \A key \in handle.sound : Told(tree, key, handle.truth[key])
    BY <1>5 DEF KInv, KKnows, tree
  <2>2. ASSUME NEW key \in sound PROVE ~new.cut /\ key \notin lost /\ key \in handle.sound /\ ~(full /\ Twice(tree, key))
    BY <1>5, <2>1, SoundIs DEF sound
  <2>3. ~new.cut
    BY <2>2
  <2>4. /\ TreeOK(new) /\ (Single(tree.mem, k) => Told(new, k, v))
        /\ \A key, w : key # k /\ key \notin lost /\ Told(tree, key, w) /\ ~(full /\ Twice(tree, key))
                          => Told(new, key, w)
    BY <2>1, <2>3, PutTold DEF new, full, lost
  <2>5. ASSUME NEW key \in sound PROVE Told(new, key, truth[key])
    <3>1. CASE key = k
      BY <1>4, <2>1, <2>2, <2>4, <3>1 DEF Told
    <3>2. CASE key # k
      BY <1>4, <1>5, <2>1, <2>2, <2>4, <3>2
    <3> QED BY <3>1, <3>2
  <2> QED BY <2>4, <2>5
<1> HIDE DEF new
<1>7. /\ handle'.tree = new /\ handle'.truth = truth /\ handle'.sound = sound /\ handle'.writes = writes
  BY <1>3
<1> QED BY <1>3, <1>4, <1>5, <1>6, <1>7 DEF KInv

(* lsm_delete keeps the invariant.                                         *)
LEMMA KlDeleteKeeps ==
    ASSUME KInv, NEW k \in KKeys, KLsmDelete(k)
    PROVE  KInv'
<1> DEFINE tree == handle.tree
           new == KlDelete(tree, k)
           full == Len(tree.mem) >= KMemMax /\ ~At(tree.mem, k)
           lost == IF At(new.mem, k) THEN {} ELSE KKeys
           sound == Sound(tree, handle.sound, new, full, lost)
           truth == [handle.truth EXCEPT ![k] = NoValue]
           writes == handle.writes + 1
<1>1. KlTold(handle, new, full, lost)
        = [kind |-> "klsm", tree |-> new, truth |-> handle.truth, sound |-> sound, writes |-> handle.writes]
  BY KlToldIs
<1>2. handle' = [KlTold(handle, new, full, lost) EXCEPT !.truth[k] = NoValue, !.writes = @ + 1]
  BY DEF KLsmDelete, Full
<1> HIDE DEF new, sound
<1>3. handle' = [kind |-> "klsm", tree |-> new, truth |-> truth, sound |-> sound, writes |-> writes]
  <2> DEFINE told == KlTold(handle, new, full, lost)
             b == handle.truth
             d == handle.writes
  <2>1. told = [kind |-> "klsm", tree |-> new, truth |-> b, sound |-> sound, writes |-> d]
    BY <1>1
  <2>2. handle' = [told EXCEPT !.truth[k] = NoValue, !.writes = @ + 1]
    BY <1>2
  <2> HIDE DEF told, b, d
  <2>3. handle' = [kind |-> "klsm", tree |-> new, truth |-> [b EXCEPT ![k] = NoValue], sound |-> sound, writes |-> d + 1]
    BY <2>1, <2>2
  <2> QED BY <2>3 DEF b, d
<1>4. /\ truth \in [KKeys -> KVals \cup {NoValue}] /\ truth[k] = NoValue
      /\ \A key \in KKeys : key # k => truth[key] = handle.truth[key]
  BY DEF KInv
<1>5. sound \subseteq handle.sound /\ handle.sound \subseteq KKeys
  BY SoundFewer DEF KInv, sound
<1> HIDE DEF truth, writes, full, tree
<1>6. KKnows(new, truth, sound)
  <2> SUFFICES ASSUME sound # {} PROVE TreeOK(new) /\ \A key \in sound : Told(new, key, truth[key])
    BY DEF KKnows
  <2>1. TreeOK(tree) /\ \A key \in handle.sound : Told(tree, key, handle.truth[key])
    BY <1>5 DEF KInv, KKnows, tree
  <2>2. ASSUME NEW key \in sound PROVE ~new.cut /\ key \notin lost /\ key \in handle.sound /\ ~(full /\ Twice(tree, key))
    BY <1>5, <2>1, SoundIs DEF sound
  <2>3. ~new.cut /\ At(new.mem, k)
    BY <1>5, <2>2
  <2>4. /\ TreeOK(new) /\ (Single(tree.mem, k) => Told(new, k, NoValue))
        /\ \A key, w : key # k /\ Told(tree, key, w) /\ ~(full /\ Twice(tree, key)) => Told(new, key, w)
    BY <2>1, <2>3, DeleteTold DEF new, full
  <2>5. ASSUME NEW key \in sound PROVE Told(new, key, truth[key])
    <3>1. CASE key = k
      BY <1>4, <2>1, <2>2, <2>4, <3>1 DEF Told
    <3>2. CASE key # k
      BY <1>4, <1>5, <2>1, <2>2, <2>4, <3>2
    <3> QED BY <3>1, <3>2
  <2> QED BY <2>4, <2>5
<1> HIDE DEF new
<1>7. /\ handle'.tree = new /\ handle'.truth = truth /\ handle'.sound = sound /\ handle'.writes = writes
  BY <1>3
<1> QED BY <1>3, <1>4, <1>5, <1>6, <1>7 DEF KInv

(* A flush or a compaction, of which the caller writes nothing.            *)
Moved(new, flushed) == handle' = KlTold(handle, new, flushed, {})

(* A step that moves entries keeps the invariant.                          *)
LEMMA KlMoveKeeps ==
    ASSUME KInv, NEW new, NEW flushed \in BOOLEAN, Moved(new, flushed),
           TreeOK(handle.tree) /\ ~new.cut =>
              /\ TreeOK(new)
              /\ \A key, w : Told(handle.tree, key, w) /\ ~(flushed /\ Twice(handle.tree, key))
                                => Told(new, key, w)
    PROVE  KInv'
<1> DEFINE tree == handle.tree
           truth == handle.truth
           sound == Sound(tree, handle.sound, new, flushed, {})
<1>1. handle' = [kind |-> "klsm", tree |-> new, truth |-> truth, sound |-> sound, writes |-> handle.writes]
  BY KlToldIs DEF Moved
<1>2. sound \subseteq handle.sound /\ handle.sound \subseteq KKeys
  BY SoundFewer DEF KInv
<1> HIDE DEF sound
<1>3. KKnows(new, truth, sound)
  <2> SUFFICES ASSUME sound # {} PROVE TreeOK(new) /\ \A key \in sound : Told(new, key, truth[key])
    BY DEF KKnows
  <2>1. TreeOK(tree) /\ \A key \in handle.sound : Told(tree, key, truth[key])
    BY <1>2 DEF KInv, KKnows
  <2>2. ASSUME NEW key \in sound PROVE ~new.cut /\ key \in handle.sound /\ ~(flushed /\ Twice(tree, key))
    BY <1>2, <2>1, SoundIs DEF sound
  <2> QED BY <2>1, <2>2
<1>4. /\ handle'.tree = new /\ handle'.truth = truth /\ handle'.sound = sound /\ handle'.writes = handle.writes
  <2> DEFINE writes == handle.writes
  <2>1. handle' = [kind |-> "klsm", tree |-> new, truth |-> truth, sound |-> sound, writes |-> writes]
    BY <1>1
  <2> HIDE DEF tree, truth, writes
  <2>2. handle'.tree = new /\ handle'.truth = truth /\ handle'.sound = sound /\ handle'.writes = writes
    BY <2>1
  <2> QED BY <2>2 DEF writes
<1> QED BY <1>1, <1>2, <1>3, <1>4 DEF KInv

(* lsm_flush keeps the invariant.                                          *)
LEMMA KlFlushKeeps == ASSUME KInv, KLsmFlush PROVE KInv'
<1> DEFINE new == Flush(handle.tree)
<1>1. Moved(new, TRUE)
  BY DEF Moved, KLsmFlush
<1>2. TreeOK(handle.tree) /\ ~new.cut =>
        /\ TreeOK(new)
        /\ \A key, w : Told(handle.tree, key, w) /\ ~(TRUE /\ Twice(handle.tree, key)) => Told(new, key, w)
  BY FlushTold DEF Twice
<1> HIDE DEF new
<1> QED BY <1>1, <1>2, KlMoveKeeps

(* lsm_compact_level keeps the invariant.                                  *)
LEMMA KlCompactKeeps == ASSUME KInv, NEW l \in 0 .. KLevels - 1, KLsmCompact(l) PROVE KInv'
<1> DEFINE new == Compact(handle.tree, l)
<1>1. Moved(new, FALSE)
  BY DEF Moved, KLsmCompact
<1>2. TreeOK(handle.tree) /\ ~new.cut =>
        /\ TreeOK(new)
        /\ \A key, w : Told(handle.tree, key, w) /\ ~(FALSE /\ Twice(handle.tree, key)) => Told(new, key, w)
  BY CompactTold
<1> HIDE DEF new
<1> QED BY <1>1, <1>2, KlMoveKeeps

(* A new tree has the invariant.                                           *)
LEMMA KlInit == ASSUME KLsmInit PROVE KInv
<1> DEFINE zero == [k \in KKeys |-> NoValue]
           tables == [l \in 0 .. KLevels - 1 |-> <<>>]
<1>1. handle = [kind |-> "klsm", tree |-> NewTree, truth |-> zero, sound |-> KKeys, writes |-> 0]
  BY DEF KLsmInit
<1>2. NewTree = [mem |-> <<>>, tables |-> tables, cut |-> FALSE]
  BY DEF NewTree
<1>3. zero \in [KKeys -> KVals \cup {NoValue}] /\ \A k \in KKeys : zero[k] = NoValue
  OBVIOUS
<1>4. tables \in [0 .. KLevels - 1 -> Seq(Tables)] /\ \A l \in 0 .. KLevels - 1 : tables[l] = <<>>
  <2>1. <<>> \in Seq(Tables)
    OBVIOUS
  <2> QED BY <2>1
<1> HIDE DEF zero, tables
<1>5. /\ NewTree.mem = <<>> /\ NewTree.tables = tables
      /\ NewTree = [mem |-> NewTree.mem, tables |-> NewTree.tables, cut |-> NewTree.cut]
  BY <1>2
<1>6. TreeOK(NewTree)
  <2>1. <<>> \in Seq(KEntries) /\ SortedByKey(<<>>)
    BY DEF SortedByKey
  <2> QED BY <1>4, <1>5, <2>1 DEF TreeOK
<1>7. \A e : ~Tabled(NewTree, e)
  BY <1>4, <1>5 DEF Tabled
<1>8. \A k \in KKeys : ~Has(NewTree.mem, k) /\ Single(NewTree.mem, k)
  BY <1>5 DEF Has, ToSet, Single
<1>9. \A k \in KKeys : Told(NewTree, k, zero[k])
  BY <1>3, <1>7, <1>8 DEF Told
<1>10. handle.tree = NewTree /\ handle.truth = zero /\ handle.sound = KKeys /\ handle.writes = 0
  BY <1>1
<1> QED BY <1>1, <1>3, <1>6, <1>9, <1>10 DEF KInv, KKnows

(* The invariant gives the property.                                       *)
LEMMA KlReads == ASSUME KInv PROVE KLsmReadsLatest
<1> SUFFICES ASSUME NEW k \in handle.sound PROVE KGet(handle.tree, k) = handle.truth[k]
  BY DEF KLsmReadsLatest
<1>1. k \in KKeys /\ TreeOK(handle.tree) /\ Told(handle.tree, k, handle.truth[k])
  BY DEF KInv, KKnows
<1> QED BY <1>1, GetTold

(* A key of which one version at most was ever flushed, and which no put   *)
(* of a lower key overwrote in the memtable, reads as it was last written, *)
(* wherever flushes and compactions carried it: lsm_put, lsm_delete,       *)
(* lsm_flush, lsm_compact_level and lsm_get.                               *)
THEOREM KLsmReadsLatestHolds == KLsmInit /\ [][KLsmNext]_handle => []KLsmReadsLatest
<1>1. KLsmInit => KInv
  BY KlInit
<1>2. KInv /\ [KLsmNext]_handle => KInv'
  <2> SUFFICES ASSUME KInv, [KLsmNext]_handle PROVE KInv'
    OBVIOUS
  <2>1. CASE UNCHANGED handle
    BY <2>1 DEF KInv
  <2>2. CASE KLsmNext
    <3>1. ASSUME NEW k \in KKeys, NEW v \in KVals, KLsmPut(k, v) PROVE KInv'
      BY <3>1, KlPutKeeps
    <3>2. ASSUME NEW k \in KKeys, KLsmDelete(k) PROVE KInv'
      BY <3>2, KlDeleteKeeps
    <3>3. ASSUME KLsmFlush PROVE KInv'
      BY <3>3, KlFlushKeeps
    <3>4. ASSUME NEW l \in 0 .. KLevels - 1, KLsmCompact(l) PROVE KInv'
      BY <3>4, KlCompactKeeps
    <3> QED BY <2>2, <3>1, <3>2, <3>3, <3>4 DEF KLsmNext
  <2> QED BY <2>1, <2>2
<1>3. KInv => KLsmReadsLatest
  BY KlReads
<1> QED BY <1>1, <1>2, <1>3, PTL
=============================================================================
