--------------------------------- MODULE Mvcc ---------------------------------
(***************************************************************************)
(* The multi-version store of mini-db-kernel (src/mvcc.c).                 *)
(*                                                                         *)
(* Transaction ids are 1, 2, ... .  The versions of a tuple are numbered in *)
(* the order they are made, and its chain is a function from the numbers   *)
(* of the versions it still has; the code links them newest first.  The    *)
(* data of a version is left out: the properties speak of which version is *)
(* read.  Callers end a transaction once, so the arrays active_txns,       *)
(* committed_txns and aborted_txns hold no id twice and are sets here,     *)
(* with the capacity of the arrays.                                        *)
(***************************************************************************)
EXTENDS Integers, Sequences, FiniteSets, FiniteSetsExt

CONSTANTS Tuples,
          Cap,          \* MVCC_MAX_TXNS, the size of each array
          MaxTxns,      \* bound on the ids begun
          MaxVersions   \* bound on the versions made of a tuple

ASSUME MvccAssumption ==
    Cap \in Nat /\ MaxTxns \in Nat /\ MaxVersions \in Nat

VARIABLES nextTxn,                      \* next_txn_id
          active, committed, aborted,   \* the three arrays
          versions, written,            \* the chain of each tuple, its last number
          caller                        \* what the callers know of each id
mvccState == <<nextTxn, active, committed, aborted>>
mvccVars == <<nextTxn, active, committed, aborted, versions, written, caller>>

Txns == Nat \ {0}
Versions == [begin : Txns, end : Nat]

MvccInit ==
    /\ nextTxn = 1
    /\ active = {} /\ committed = {} /\ aborted = {}

(* An id is stored only while the array has room.                          *)
Store(set, t) == IF Cardinality(set) < Cap THEN set \cup {t} ELSE set

(* mvcc_begin, mvcc_commit, mvcc_abort.                                    *)
MvccBegin ==
    /\ nextTxn' = nextTxn + 1
    /\ active' = Store(active, nextTxn)
    /\ UNCHANGED <<committed, aborted>>

(* Slip: an abort entered among the commits.                               *)
MvccAbortAsCommit(t) ==
    /\ active' = active \ {t}
    /\ committed' = Store(committed, t)
    /\ UNCHANGED <<nextTxn, aborted>>

MvccCommit(t) ==
    /\ active' = active \ {t}
    /\ committed' = Store(committed, t)
    /\ UNCHANGED <<nextTxn, aborted>>

MvccAbort(t) ==
    /\ active' = active \ {t}
    /\ aborted' = Store(aborted, t)
    /\ UNCHANGED <<nextTxn, committed>>

(* is_visible.  mvcc_read takes its snapshot when it reads and is_visible  *)
(* looks at nothing of it but the reader's id.                             *)
(* Slip: everything that has not aborted is taken as committed.            *)
VisibleUnlessAborted(v, t) ==
    v.begin \notin aborted /\ (v.end \in {0, t} \/ v.end \notin committed)

Visible(v, t) ==
    IF v.begin = t THEN v.end = 0
    ELSE /\ v.begin \notin aborted
         /\ v.begin \in committed
         /\ v.end \in {0, t} \/ v.end \notin committed

VisibleTo(t, x) == { i \in DOMAIN versions[x] : Visible(versions[x][i], t) }

(* mvcc_read walks the chain from the newest version; 0 for none.          *)
ReadVersion(t, x) == IF VisibleTo(t, x) = {} THEN 0 ELSE Max(VisibleTo(t, x))

(* mvcc_update: an own version is marked ended and at once unmarked, so    *)
(* the chain only gains the new version.  Nothing is done when t is not in *)
(* active_txns.                                                            *)
NewVersion(t) == [begin |-> t, end |-> 0]
MvccUpdate(t, x) ==
    /\ t \in active
    /\ written' = [written EXCEPT ![x] = @ + 1]
    /\ versions' = [versions EXCEPT ![x] =
          [i \in DOMAIN @ \cup {written[x] + 1} |->
              IF i \in DOMAIN @ THEN @[i] ELSE NewVersion(t)]]

(* mvcc_gc drops the versions that a committed transaction ended before    *)
(* every active one began.                                                 *)
MinActive == IF active = {} THEN nextTxn ELSE Min(active)
Collectable(v) == v.end # 0 /\ v.end < MinActive /\ v.end \in committed
MvccGc ==
    versions' = [x \in Tuples |->
        [i \in { j \in DOMAIN versions[x] : ~Collectable(versions[x][j]) } |-> versions[x][i]]]

-----------------------------------------------------------------------------
(* Callers: each id handed out is used until its caller commits or aborts  *)
(* it.  caller[t] is what its caller did with it.                          *)
Ids == 1 .. nextTxn - 1
Open == { t \in DOMAIN caller : caller[t] = "open" }
Committed == { t \in DOMAIN caller : caller[t] = "committed" }

Init ==
    /\ MvccInit
    /\ versions = [x \in Tuples |-> <<>>] /\ written = [x \in Tuples |-> 0]
    /\ caller = <<>>

Begin ==
    /\ nextTxn <= MaxTxns
    /\ MvccBegin
    /\ caller' = Append(caller, "open")
    /\ UNCHANGED <<versions, written>>

Commit(t) ==
    /\ t \in Open
    /\ MvccCommit(t)
    /\ caller' = [caller EXCEPT ![t] = "committed"]
    /\ UNCHANGED <<versions, written>>

Abort(t) ==
    /\ t \in Open
    /\ MvccAbort(t)
    /\ caller' = [caller EXCEPT ![t] = "aborted"]
    /\ UNCHANGED <<versions, written>>

Update(t, x) ==
    /\ t \in Open
    /\ written[x] < MaxVersions
    /\ MvccUpdate(t, x)
    /\ UNCHANGED <<mvccState, caller>>

Gc == MvccGc /\ UNCHANGED <<mvccState, written, caller>>

Next ==
    \/ Begin
    \/ \E t \in Ids : Commit(t) \/ Abort(t) \/ \E x \in Tuples : Update(t, x)
    \/ Gc

Spec == Init /\ [][Next]_mvccVars

-----------------------------------------------------------------------------
MvccTypeOK ==
    /\ nextTxn \in Nat \ {0}
    /\ active \subseteq Ids /\ committed \subseteq Ids /\ aborted \subseteq Ids
    /\ written \in [Tuples -> Nat]
    /\ versions = [x \in Tuples |-> versions[x]]
    /\ \A x \in Tuples : /\ DOMAIN versions[x] \subseteq 1 .. written[x]
                        /\ versions[x] \in [DOMAIN versions[x] -> Versions]
    /\ caller \in Seq({"open", "committed", "aborted"})
    /\ Len(caller) = nextTxn - 1

(* No dirty read: what a transaction can see was written by itself or by a *)
(* transaction whose caller committed it, whatever filled up or was        *)
(* garbage collected meanwhile.                                            *)
NoDirtyRead ==
    \A t \in Open, x \in Tuples : \A i \in VisibleTo(t, x) :
        versions[x][i].begin \in {t} \cup Committed

(* Reads never go back: a version a transaction can see stays where it is  *)
(* and stays visible to it until it ends, so its later reads of the tuple  *)
(* return the same version or a newer one.                                 *)
VisibleStays ==
    [][\A t \in Open \cap Open', x \in Tuples : \A i \in VisibleTo(t, x) :
          i \in VisibleTo(t, x)' /\ versions'[x][i] = versions[x][i]]_mvccVars
=============================================================================
