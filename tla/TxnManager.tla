------------------------------ MODULE TxnManager ------------------------------
(***************************************************************************)
(* The transaction manager of mini-relational-db (src/transaction.c): a    *)
(* lock table with an age rule in place of waiting, one write-ahead log,   *)
(* and recovery from it.                                                   *)
(*                                                                         *)
(* Ids are 1, 2, ... in the order of the slots, which are never reused, so *)
(* a transaction is its place in status, and a smaller id is an older      *)
(* transaction.  The list wal_entries of a transaction is the beginning of *)
(* its records in the log, so it is an operator here, OwnLog.  The images  *)
(* of a record are left out.                                               *)
(***************************************************************************)
EXTENDS Integers, Sequences, SequencesExt

CONSTANTS Rids,
          MaxActive,    \* TXN_MAX_ACTIVE
          MaxLocks,     \* TXN_MAX_LOCKS
          MaxLog        \* TXN_MAX_LOG

ASSUME TxnAssumption ==
    /\ MaxActive \in Nat /\ MaxLocks \in Nat /\ MaxLog \in Nat
    /\ 0 \notin Rids

VARIABLES status,       \* of each transaction in txns
          own,          \* its locks, a mode for each rid
          lockTable,    \* lock_table
          log           \* wal_log
vars == <<status, own, lockTable, log>>

Shared == "S"
Exclusive == "X"
Modes == {Shared, Exclusive}
DataTypes == {"INSERT", "UPDATE", "DELETE"}

Txns == DOMAIN status
Active == { t \in Txns : status[t] = "active" }

Init == status = <<>> /\ own = <<>> /\ lockTable = <<>> /\ log = <<>>

-----------------------------------------------------------------------------
(* txn_wal_append drops what does not fit, and its callers do not look.    *)
LogCap == MaxLog * MaxActive
Record(type, t, rid) == [type |-> type, txn |-> t, rid |-> rid]
FirstOf(seq, n) == SubSeq(seq, 1, Min({n, Len(seq)}))
Logged(recs) == FirstOf(log \o recs, LogCap)

RecordsAt(c, places) == FlattenSeq([i \in DOMAIN c |-> IF i \in places THEN <<c[i]>> ELSE <<>>])
OwnLog(t) == FirstOf(RecordsAt(log, { i \in DOMAIN log : log[i].txn = t }), MaxLog)

(* txn_begin.                                                              *)
Begin ==
    /\ Len(status) < MaxActive
    /\ status' = Append(status, "active")
    /\ own' = Append(own, [r \in {} |-> Shared])
    /\ log' = Logged(<<Record("BEGIN", Len(status) + 1, 0)>>)
    /\ UNCHANGED lockTable

(* txn_wal_append, as callers use it: for the data of an active one.       *)
WalAppend(t, type, rid) ==
    /\ t \in Active
    /\ log' = Logged(<<Record(type, t, rid)>>)
    /\ UNCHANGED <<status, own, lockTable>>

-----------------------------------------------------------------------------
(* check_deadlock: the first incompatible lock of another transaction in   *)
(* the table decides, and only one of an older transaction refuses.        *)
Compatible(a, b) == a = Shared /\ b = Shared
Conflicts(t, rid, mode) ==
    { i \in DOMAIN lockTable :
        /\ lockTable[i].rid = rid /\ lockTable[i].txn # t
        /\ ~Compatible(lockTable[i].mode, mode) }
(* Slip: the comparison of the ages the other way round.                   *)
OlderHolderYounger(t, rid, mode) ==
    Conflicts(t, rid, mode) # {} /\ lockTable[Min(Conflicts(t, rid, mode))].txn > t

OlderHolder(t, rid, mode) ==
    Conflicts(t, rid, mode) # {} /\ lockTable[Min(Conflicts(t, rid, mode))].txn < t

(* txn_lock_acquire for a rid that t has no lock on.                       *)
ListsFull(t) ==
    Cardinality(DOMAIN own[t]) >= MaxLocks \/ Len(lockTable) >= MaxLocks * MaxActive
Refused(t, rid, mode) ==
    rid \notin DOMAIN own[t] /\ (OlderHolder(t, rid, mode) \/ ListsFull(t))

AcquireNew(t, rid, mode) ==
    /\ t \in Active /\ rid \notin DOMAIN own[t] /\ ~Refused(t, rid, mode)
    /\ lockTable' = Append(lockTable, [rid |-> rid, mode |-> mode, txn |-> t])
    /\ own' = [own EXCEPT ![t] = [r \in DOMAIN @ \cup {rid} |-> IF r = rid THEN mode ELSE @[r]]]
    /\ UNCHANGED <<status, log>>

(* For one that it has: an upgrade reaches only the own list.              *)
Upgrade(t, rid) ==
    /\ t \in Active /\ rid \in DOMAIN own[t] /\ own[t][rid] = Shared
    /\ own' = [own EXCEPT ![t][rid] = Exclusive]
    /\ UNCHANGED <<status, lockTable, log>>

(* txn_lock_release, of one transaction or of several in turn: the locks   *)
(* of the others move up in the table.                                     *)
MovedUp(acc, l, ending) == IF l.txn \in ending THEN acc ELSE Append(acc, l)
Release(ending) ==
    /\ lockTable' = FoldLeft(LAMBDA acc, l : MovedUp(acc, l, ending), <<>>, lockTable)
    /\ own' = [t \in Txns |-> IF t \in ending THEN [r \in {} |-> Shared] ELSE own[t]]

(* txn_commit.                                                             *)
Commit(t) ==
    /\ t \in Active
    /\ log' = Logged(<<Record("COMMIT", t, 0)>>)
    /\ Release({t})
    /\ status' = [status EXCEPT ![t] = "committed"]

(* txn_abort logs the undo of each data record in its own list, the newest *)
(* first, and its end.  It does not look at the status; callers abort what *)
(* is active, and so does txn_recover.                                     *)
Undone(t) ==
    LET data == RecordsAt(OwnLog(t), { i \in DOMAIN OwnLog(t) : OwnLog(t)[i].type \in DataTypes })
    IN  [i \in DOMAIN data |-> Record("ABORT", t, Reverse(data)[i].rid)]
(* Slip: a transaction that wrote nothing logs no end.                     *)
AbortRecordsIfAny(t) == IF Undone(t) = <<>> THEN <<>> ELSE Undone(t) \o <<Record("ABORT", t, 0)>>

AbortRecords(t) == Undone(t) \o <<Record("ABORT", t, 0)>>

Abort(t) ==
    /\ t \in Active
    /\ log' = Logged(AbortRecords(t))
    /\ Release({t})
    /\ status' = [status EXCEPT ![t] = "aborted"]

-----------------------------------------------------------------------------
(* txn_recover.  Analysis: the last record that begins or ends a           *)
(* transaction tells whether it is active.                                 *)
Steps(t, types) == { i \in DOMAIN log : log[i].txn = t /\ log[i].type \in types }
LoggedActive ==
    { t \in Txns : LET ends == Steps(t, {"BEGIN", "COMMIT", "ABORT"})
                   IN  ends # {} /\ log[Max(ends)].type = "BEGIN" }
LoggedCommitted ==
    { t \in Txns : \E i \in Steps(t, {"COMMIT"}) : \A j \in Steps(t, {"BEGIN"}) : j < i }

(* What the redo and the undo phase go through.                            *)
Redo == { i \in DOMAIN log : log[i].txn \in LoggedCommitted /\ log[i].type \in {"INSERT", "UPDATE"} }
Undo == { i \in DOMAIN log : log[i].txn \in LoggedActive /\ log[i].type \in DataTypes }

(* Every transaction active in the log is aborted, whatever its status.    *)
Recover ==
    /\ log' = Logged(FlattenSeq([t \in Txns |-> IF t \in LoggedActive THEN AbortRecords(t) ELSE <<>>]))
    /\ Release(LoggedActive)
    /\ status' = [t \in Txns |-> IF t \in LoggedActive THEN "aborted" ELSE status[t]]

-----------------------------------------------------------------------------
Locking(t, rid) == Upgrade(t, rid) \/ \E mode \in Modes : AcquireNew(t, rid, mode)
Logging(t, rid) == \E type \in DataTypes : WalAppend(t, type, rid)
Next ==
    \/ Begin
    \/ \E t \in Txns : Commit(t) \/ Abort(t) \/ \E rid \in Rids : Locking(t, rid) \/ Logging(t, rid)
    \/ Recover

Spec == Init /\ [][Next]_vars

-----------------------------------------------------------------------------

(* Recovery acts on the truth: as long as the log has room, it redoes the  *)
(* inserts and updates of the committed transactions, undoes the data of   *)
(* the active ones, and nothing else; also when it runs again.             *)
RecoveryTellsTruth ==
    Len(log) < LogCap =>
        /\ Redo = { i \in DOMAIN log : /\ status[log[i].txn] = "committed"
                                       /\ log[i].type \in {"INSERT", "UPDATE"} }
        /\ Undo = { i \in DOMAIN log : status[log[i].txn] = "active" /\ log[i].type \in DataTypes }
        /\ Active = LoggedActive

(* A lock is refused for the sake of an older active transaction only, so  *)
(* the oldest one gets every lock its own list has room for: nobody starves *)
(* for locks left behind.                                                  *)
RefusedOnlyForOlder ==
    \A t \in Active, rid \in Rids, mode \in Modes :
        Refused(t, rid, mode) =>
            \/ Cardinality(DOMAIN own[t]) >= MaxLocks
            \/ \E u \in Active : u < t /\ rid \in DOMAIN own[u]

=============================================================================
