-------------------------------- MODULE Wal --------------------------------
(***************************************************************************)
(* The write-ahead log of mini-db-kernel (src/wal.c).                      *)
(*                                                                         *)
(* wal_write numbers the records 1, 2, ... in the order it stores them, so *)
(* the LSN of a record is its position in records and next_lsn is one more *)
(* than their number.  flush_lsn and checkpoint_lsn are LSNs, 0 for none.  *)
(***************************************************************************)
EXTENDS Integers, Sequences, FiniteSets, FiniteSetsExt

CONSTANTS Txns,         \* transaction ids
          Pages,        \* page_id of a data record
          Data,         \* what before_data and after_data may hold
          NoData,       \* a size of 0
          TableCap      \* capacity of the TxnTable of wal_recover (256)

VARIABLES records, flushLsn, checkpointLsn
walVars == <<records, flushLsn, checkpointLsn>>

DataTypes == {"INSERT", "UPDATE", "DELETE"}
EndTypes  == {"COMMIT", "ABORT"}
NoPage == -1
NoTxn  == -1

Records == [type : DataTypes \cup EndTypes \cup {"CHECKPOINT"},
            page : Pages \cup {NoPage}, txn : Txns \cup {NoTxn},
            before : Data \cup {NoData}, after : Data \cup {NoData}]

WalInit ==
    /\ records = <<>>
    /\ flushLsn = 0
    /\ checkpointLsn = 0

Record(type, page, t, before, after) ==
    [type |-> type, page |-> page, txn |-> t, before |-> before, after |-> after]
EndRecord(type, t) == Record(type, NoPage, t, NoData, NoData)

(* wal_write appends; it never flushes.                                    *)
WalWrite(rec) ==
    /\ records' = Append(records, rec)
    /\ UNCHANGED <<flushLsn, checkpointLsn>>

(* wal_flush(lsn): flush_lsn becomes the largest LSN of the log that is at *)
(* most lsn, and never falls.                                              *)
(* Slip: the old flush_lsn not looked at.                                  *)
FlushedAnew(log, lsn) == Max({0} \cup { i \in DOMAIN log : i <= lsn })

Flushed(log, lsn) == Max({flushLsn} \cup { i \in DOMAIN log : i <= lsn })
WalFlush(lsn) ==
    /\ flushLsn' = Flushed(records, lsn)
    /\ UNCHANGED <<records, checkpointLsn>>

(* wal_checkpoint remembers what has been flushed, then logs a record of   *)
(* its own, which it does not flush.                                       *)
WalCheckpoint ==
    /\ checkpointLsn' = flushLsn
    /\ records' = Append(records, EndRecord("CHECKPOINT", NoTxn))
    /\ UNCHANGED flushLsn

(* The analysis phase of wal_recover.  The table takes the first TableCap  *)
(* transactions that end in the log, and each entry keeps the last outcome.*)
Ends(log, t) == { i \in DOMAIN log : log[i].type \in EndTypes /\ log[i].txn = t }
EndedBefore(log, i) ==
    { log[j].txn : j \in { k \in 1 .. i - 1 : log[k].type \in EndTypes } }
(* Slip: the last place of the table is never used.                        *)
InShortTable(log, t) ==
    /\ Ends(log, t) # {}
    /\ Cardinality(EndedBefore(log, Min(Ends(log, t)))) + 1 < TableCap

InTable(log, t) ==
    /\ Ends(log, t) # {}
    /\ Cardinality(EndedBefore(log, Min(Ends(log, t)))) < TableCap
TableCommitted(log, t) ==
    /\ InTable(log, t)
    /\ log[Max(Ends(log, t))].type = "COMMIT"

(* The redo and the undo phase: the data records of the transactions the   *)
(* table has as committed, and all the others.                             *)
DataRecords(log) == { i \in DOMAIN log : log[i].type \in DataTypes }
Redo(log) == { i \in DataRecords(log) : TableCommitted(log, log[i].txn) }
Undo(log) == { i \in DataRecords(log) : ~TableCommitted(log, log[i].txn) }

-----------------------------------------------------------------------------
(* Recovery undoes a data record exactly when its transaction has no       *)
(* commit in the log.                                                      *)
Committed(log, t) == \E i \in DOMAIN log : log[i].type = "COMMIT" /\ log[i].txn = t
RecoveryUndoesOnlyUncommitted ==
    Undo(records) = { i \in DataRecords(records) : ~Committed(records, records[i].txn) }
=============================================================================
