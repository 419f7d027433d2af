---------------------------- MODULE StorageProofs ----------------------------
(***************************************************************************)
(* Proofs about the stores.  mini-db-kernel, multi-version store: the      *)
(* type, that no transaction sees what was not committed, and that what it *)
(* sees stays visible.  mini-file-storage: that a settled snapshot reads   *)
(* the same for ever, and that a log-structured tree opens with all that a *)
(* clean end wrote and reads what was written last.  mini-graph-db: that   *)
(* the adjacency lists and the indexes of the property graph tell what its *)
(* records tell.                                                           *)
(***************************************************************************)
EXTENDS Mvcc, Snapshots, LsmTree, PropertyGraph, LeastNumber, SequenceTheorems, TLAPS

Statuses == {"open", "committed", "aborted"}

(* The callers and the arrays agree: an id in committed_txns was committed *)
(* by its caller, one in aborted_txns was aborted.                       *)
ArraysOK ==
    /\ nextTxn \in Nat \ {0}
    /\ caller \in Seq(Statuses) /\ Len(caller) = nextTxn - 1
    /\ active \subseteq Ids
    /\ committed \subseteq Ids /\ \A t \in committed : caller[t] = "committed"
    /\ aborted \subseteq Ids /\ \A t \in aborted : caller[t] = "aborted"

(* No version is ever ended, and each was made by an id handed out.      *)
ChainsOK ==
    /\ written \in [Tuples -> Nat]
    /\ versions = [x \in Tuples |-> versions[x]]
    /\ \A x \in Tuples :
          /\ DOMAIN versions[x] \subseteq 1 .. written[x]
          /\ versions[x] \in [DOMAIN versions[x] -> Versions]
          /\ \A i \in DOMAIN versions[x] : versions[x][i].end = 0 /\ versions[x][i].begin \in Ids

IInv == ArraysOK /\ ChainsOK

(* A version that is not ended is never collected.                       *)
LEMMA GcKeepsAll ==
    ASSUME ChainsOK, MvccGc
    PROVE  versions' = versions
<1>1. ASSUME NEW x \in Tuples
      PROVE  [i \in { j \in DOMAIN versions[x] : ~Collectable(versions[x][j]) }
                 |-> versions[x][i]] = versions[x]
  <2>1. \A j \in DOMAIN versions[x] : ~Collectable(versions[x][j])
    BY DEF ChainsOK, Collectable
  <2>2. { j \in DOMAIN versions[x] : ~Collectable(versions[x][j]) } = DOMAIN versions[x]
    BY <2>1
  <2> QED BY <2>2 DEF ChainsOK
<1>2. versions' = [x \in Tuples |-> versions[x]]
  BY <1>1 DEF MvccGc
<1> QED BY <1>2 DEF ChainsOK

LEMMA InitIInv == Init => IInv
BY DEF Init, MvccInit, IInv, ArraysOK, ChainsOK, Ids, Statuses

LEMMA NextIInv == IInv /\ [Next]_mvccVars => IInv'
<1> SUFFICES ASSUME IInv, [Next]_mvccVars PROVE IInv'
  OBVIOUS
<1> USE DEF IInv
<1>1. CASE Begin
  <2>2. caller' = Append(caller, "open")
    BY <1>1 DEF Begin
  <2>3. caller' \in Seq(Statuses) /\ Len(caller') = nextTxn
    BY <2>2 DEF ArraysOK, Statuses
  <2>4. \A t \in Ids : caller'[t] = caller[t]
    BY <2>2 DEF ArraysOK, Ids
  <2>5. active' \subseteq Ids' /\ Ids \subseteq Ids'
    BY <1>1 DEF Begin, MvccBegin, Store, ArraysOK, Ids
  <2>6. ArraysOK'
    BY <1>1, <2>3, <2>4, <2>5 DEF Begin, MvccBegin, ArraysOK, Ids
  <2>7. ChainsOK'
    BY <1>1, <2>5 DEF Begin, ChainsOK
  <2> QED BY <2>6, <2>7
<1>2. ASSUME NEW t \in Ids, Commit(t) PROVE IInv'
  <2>1. t \in 1 .. Len(caller) /\ caller' = [caller EXCEPT ![t] = "committed"]
    BY <1>2 DEF Commit, ArraysOK, Ids
  <2>2. caller' \in Seq(Statuses) /\ Len(caller') = Len(caller)
    <3>1. caller \in Seq(Statuses) /\ "committed" \in Statuses
      BY DEF ArraysOK, Statuses
    <3> HIDE DEF Statuses
    <3> QED BY <2>1, <3>1, ExceptSeq
  <2>3. t \notin aborted
    BY <1>2 DEF Commit, Open, ArraysOK
  <2>4. \A u \in Ids : caller'[u] = IF u = t THEN "committed" ELSE caller[u]
    BY <2>1 DEF ArraysOK, Ids, Statuses
  <2>5. ArraysOK'
    BY <1>2, <2>2, <2>3, <2>4 DEF Commit, MvccCommit, Store, ArraysOK, Ids
  <2>6. ChainsOK'
    BY <1>2 DEF Commit, MvccCommit, ChainsOK, Ids
  <2> QED BY <2>5, <2>6
<1>3. ASSUME NEW t \in Ids, Abort(t) PROVE IInv'
  <2>1. t \in 1 .. Len(caller) /\ caller' = [caller EXCEPT ![t] = "aborted"]
    BY <1>3 DEF Abort, ArraysOK, Ids
  <2>2. caller' \in Seq(Statuses) /\ Len(caller') = Len(caller)
    <3>1. caller \in Seq(Statuses) /\ "aborted" \in Statuses
      BY DEF ArraysOK, Statuses
    <3> HIDE DEF Statuses
    <3> QED BY <2>1, <3>1, ExceptSeq
  <2>3. t \notin committed
    BY <1>3 DEF Abort, Open, ArraysOK
  <2>4. \A u \in Ids : caller'[u] = IF u = t THEN "aborted" ELSE caller[u]
    BY <2>1 DEF ArraysOK, Ids, Statuses
  <2>5. ArraysOK'
    BY <1>3, <2>2, <2>3, <2>4 DEF Abort, MvccAbort, Store, ArraysOK, Ids
  <2>6. ChainsOK'
    BY <1>3 DEF Abort, MvccAbort, ChainsOK, Ids
  <2> QED BY <2>5, <2>6
<1>4. ASSUME NEW t \in Ids, NEW x \in Tuples, Update(t, x) PROVE IInv'
  <2>1. ArraysOK'
    BY <1>4 DEF Update, mvccState, ArraysOK, Ids
  <2>2. written' \in [Tuples -> Nat] /\ written'[x] = written[x] + 1
        /\ \A y \in Tuples \ {x} : written'[y] = written[y]
    BY <1>4 DEF Update, MvccUpdate, ChainsOK
  <2>3. /\ versions'[x] = [i \in DOMAIN versions[x] \cup {written[x] + 1} |->
                             IF i \in DOMAIN versions[x] THEN versions[x][i] ELSE NewVersion(t)]
        /\ \A y \in Tuples \ {x} : versions'[y] = versions[y]
        /\ versions' = [y \in Tuples |-> versions'[y]]
    BY <1>4 DEF Update, MvccUpdate, ChainsOK
  <2>4. NewVersion(t) \in Versions /\ NewVersion(t).end = 0 /\ NewVersion(t).begin \in Ids
    BY DEF NewVersion, Versions, Txns, Ids
  <2>5. Ids' = Ids
    BY <1>4 DEF Update, mvccState, Ids
  <2>6. ASSUME NEW y \in Tuples
        PROVE  /\ DOMAIN versions'[y] \subseteq 1 .. written'[y]
               /\ versions'[y] \in [DOMAIN versions'[y] -> Versions]
               /\ \A i \in DOMAIN versions'[y] :
                     versions'[y][i].end = 0 /\ versions'[y][i].begin \in Ids
    <3>1. CASE y = x
      <4>1. DOMAIN versions[x] \subseteq 1 .. written[x] /\ written[x] \in Nat
        BY DEF ChainsOK
      <4>2. DOMAIN versions'[x] = DOMAIN versions[x] \cup {written[x] + 1}
        BY <2>3
      <4>3. \A i \in DOMAIN versions'[x] :
               /\ versions'[x][i] \in Versions
               /\ versions'[x][i].end = 0 /\ versions'[x][i].begin \in Ids
        BY <2>3, <2>4, <4>2 DEF ChainsOK
      <4>4. versions'[x] = [i \in DOMAIN versions'[x] |-> versions'[x][i]]
        BY <2>3
      <4>5. versions'[x] \in [DOMAIN versions'[x] -> Versions]
        BY <4>3, <4>4
      <4> QED BY <2>2, <3>1, <4>1, <4>2, <4>3, <4>5
    <3>2. CASE y # x
      BY <2>2, <2>3, <3>2 DEF ChainsOK
    <3> QED BY <3>1, <3>2
  <2>7. versions' = [y \in Tuples |-> versions'[y]]
    BY <1>4 DEF Update, MvccUpdate, ChainsOK
  <2>8. ChainsOK'
    BY <2>2, <2>5, <2>6, <2>7 DEF ChainsOK
  <2> QED BY <2>1, <2>8
<1>5. CASE Gc
  <2>1. versions' = versions
    BY <1>5, GcKeepsAll DEF Gc
  <2> QED BY <1>5, <2>1 DEF Gc, mvccState, ArraysOK, ChainsOK, Ids
<1>6. CASE UNCHANGED mvccVars
  BY <1>6 DEF mvccVars, ArraysOK, ChainsOK, Ids
<1> QED BY <1>1, <1>2, <1>3, <1>4, <1>5, <1>6 DEF Next

LEMMA Invariant == Spec => []IInv
BY InitIInv, NextIInv, PTL DEF Spec

(* Every variable keeps its type.                                        *)
THEOREM TypeCorrect == Spec => []MvccTypeOK
<1>1. IInv => MvccTypeOK
  BY DEF IInv, ArraysOK, ChainsOK, MvccTypeOK, Statuses
<1> QED BY <1>1, Invariant, PTL

(* A transaction sees its own versions and those of transactions whose   *)
(* caller committed them, for every capacity of the arrays.              *)
THEOREM NoDirtyReadHolds == Spec => []NoDirtyRead
<1>1. IInv => NoDirtyRead
  <2>1. IInv => committed \subseteq Committed
    BY DEF IInv, ArraysOK, Committed, Ids
  <2> QED BY <2>1 DEF NoDirtyRead, VisibleTo, Visible
<1> QED BY <1>1, Invariant, PTL

(* What a transaction sees stays visible to it until it ends.            *)
THEOREM VisibleStaysHolds == Spec => VisibleStays
<1> DEFINE Stays == \A t \in Open \cap Open', x \in Tuples : \A i \in VisibleTo(t, x) :
                        i \in VisibleTo(t, x)' /\ versions'[x][i] = versions[x][i]
<1>1. IInv /\ IInv' /\ [Next]_mvccVars => Stays
  <2> SUFFICES ASSUME IInv, IInv', [Next]_mvccVars,
                      NEW t \in Open \cap Open', NEW x \in Tuples, NEW i \in VisibleTo(t, x)
               PROVE  i \in VisibleTo(t, x)' /\ versions'[x][i] = versions[x][i]
    OBVIOUS
  <2>1. i \in DOMAIN versions'[x] /\ versions'[x][i] = versions[x][i]
    <3>1. CASE Begin \/ (\E u \in Ids : Commit(u) \/ Abort(u)) \/ UNCHANGED mvccVars
      BY <3>1 DEF Begin, Commit, Abort, mvccVars, VisibleTo
    <3>2. CASE \E u \in Ids, y \in Tuples : Update(u, y)
      BY <3>2 DEF Update, MvccUpdate, VisibleTo, IInv, ChainsOK
    <3>3. CASE Gc
      BY <3>3, GcKeepsAll DEF Gc, VisibleTo, IInv
    <3> QED BY <3>1, <3>2, <3>3 DEF Next
  <2>2. versions'[x][i].end = 0
    BY <2>1 DEF IInv, ChainsOK
  <2>3. committed \subseteq committed'
    BY DEF Next, Begin, MvccBegin, Commit, MvccCommit, Abort, MvccAbort, Update, Gc,
           mvccState, mvccVars, Store
  <2>4. committed' \cap aborted' = {}
    BY DEF IInv, ArraysOK
  <2> QED BY <2>1, <2>2, <2>3, <2>4 DEF VisibleTo, Visible
<1>2. [][Next]_mvccVars /\ []IInv => [][Stays]_mvccVars
  BY <1>1, PTL
<1> QED BY <1>2, Invariant DEF Spec, VisibleStays

-----------------------------------------------------------------------------
(***************************************************************************)
(* The snapshots and versions of mini-file-storage.                      *)
(***************************************************************************)
Numbers       == 1 .. SnapSeq
Taken         == 1 .. SnapSeq + 1
ChainVersions == [seqno : Numbers, deleted : BOOLEAN]

(* The oldest snapshot that is kept beside the list is that of the list. *)
OldestIsCached == handle.oldest = Oldest(handle.active)

SnapTypeOK ==
    handle \in [kind : {"snapshots"}, seqno : Taken,
                active : Seq(Taken), oldest : 1 .. NoSnapshot,
                chain : [SnapKeys -> Seq(ChainVersions)], pending : SUBSET Numbers]

SnapInv == SnapTypeOK /\ OldestIsCached

LEMMA ChainFacts ==
    ASSUME NEW c \in Seq(ChainVersions)
    PROVE  /\ Len(c) \in Nat
           /\ \A i \in 1 .. Len(c) : c[i] \in ChainVersions /\ c[i].seqno \in Nat
<1>1. Len(c) \in Nat /\ \A i \in 1 .. Len(c) : c[i] \in ChainVersions
  OBVIOUS
<1>2. \A v \in ChainVersions : v.seqno \in Nat
  BY SnapAssumption DEF ChainVersions, Numbers
<1> QED BY <1>1, <1>2

(* v is the first version of c that is not newer than snap.              *)
Reads(c, snap, v) ==
    \E i \in 1 .. Len(c) : /\ c[i] = v /\ v.seqno <= snap
                           /\ \A j \in 1 .. i - 1 : c[j].seqno > snap

(* All versions of c are newer than snap.                                *)
Newer(c, snap) == \A i \in 1 .. Len(c) : c[i].seqno > snap

LEMMA SeenIsFirst ==
    ASSUME NEW c \in Seq(ChainVersions), NEW snap \in Nat
    PROVE  /\ Seen(c, snap) = 0 => Newer(c, snap)
           /\ Seen(c, snap) # 0 =>
                 /\ Seen(c, snap) \in 1 .. Len(c)
                 /\ c[Seen(c, snap)].seqno <= snap
                 /\ \A j \in 1 .. Seen(c, snap) - 1 : c[j].seqno > snap
<1> DEFINE I == { i \in 1 .. Len(c) : c[i].seqno <= snap }
<1>1. Seen(c, snap) = IF I # {} THEN Min(I) ELSE 0
  BY DEF Seen, SelectInSeq
<1>2. Len(c) \in Nat /\ \A i \in 1 .. Len(c) : c[i] \in ChainVersions /\ c[i].seqno \in Nat
  BY ChainFacts
<1>3. CASE I = {}
  BY <1>1, <1>2, <1>3 DEF Newer
<1>4. CASE I # {}
  <2>1. I \in SUBSET Nat
    BY <1>2
  <2>2. Min(I) \in I /\ \A m \in I : Min(I) <= m
    <3> HIDE DEF I
    <3> QED BY <1>4, <2>1, MinIsMember
  <2>3. Min(I) \in 1 .. Len(c) /\ c[Min(I)].seqno <= snap /\ Seen(c, snap) = Min(I)
    BY <1>1, <1>4, <2>2
  <2>4. ASSUME NEW j \in 1 .. Min(I) - 1 PROVE c[j].seqno > snap
    <3>1. j \in 1 .. Len(c) /\ ~(Min(I) <= j)
      BY <1>2, <2>3
    <3>2. j \notin I
      BY <2>2, <3>1
    <3>3. ~(c[j].seqno <= snap)
      BY <3>1, <3>2
    <3> QED BY <1>2, <3>1, <3>3
  <2> QED BY <1>2, <2>3, <2>4
<1> QED BY <1>3, <1>4

(* What is read is the version that Reads names, and only one has its name.*)
LEMMA ReadAtReads ==
    ASSUME NEW c \in Seq(ChainVersions), NEW snap \in Nat
    PROVE  /\ Newer(c, snap) => ReadAt(c, snap) = Absent
           /\ \A v : Reads(c, snap, v) =>
                 ReadAt(c, snap) = IF v.deleted THEN Absent ELSE v.seqno
<1> DEFINE s == Seen(c, snap)
<1>1. /\ s = 0 => Newer(c, snap)
      /\ s # 0 => /\ s \in 1 .. Len(c) /\ c[s].seqno <= snap
                  /\ \A j \in 1 .. s - 1 : c[j].seqno > snap
  BY SeenIsFirst
<1>2. ReadAt(c, snap) = IF s = 0 \/ c[s].deleted THEN Absent ELSE c[s].seqno
  BY DEF ReadAt
<1>3. Len(c) \in Nat /\ \A i \in 1 .. Len(c) : c[i].seqno \in Nat
  BY ChainFacts
<1> HIDE DEF s
<1>4. ASSUME Newer(c, snap) PROVE s = 0
  BY <1>1, <1>3, <1>4 DEF Newer
<1>5. ASSUME NEW v, Reads(c, snap, v) PROVE s # 0 /\ c[s] = v
  <2>1. PICK i \in 1 .. Len(c) : /\ c[i] = v /\ v.seqno <= snap
                                 /\ \A j \in 1 .. i - 1 : c[j].seqno > snap
    BY <1>5 DEF Reads
  <2>2. s # 0
    BY <1>1, <1>3, <2>1 DEF Newer
  <2>3. ~(s < i) /\ ~(i < s)
    BY <1>1, <1>3, <2>1, <2>2
  <2>4. s = i
    BY <1>1, <2>1, <2>2, <2>3
  <2> QED BY <2>1, <2>2, <2>4
<1> QED BY <1>2, <1>4, <1>5

(* Some versions in front that are newer than the snapshot change nothing. *)
LEMMA PutIsUnseen ==
    ASSUME NEW c \in Seq(ChainVersions), NEW snap \in Nat,
           NEW new \in ChainVersions, new.seqno > snap
    PROVE  ReadAt(<<new>> \o c, snap) = ReadAt(c, snap)
<1> DEFINE d == <<new>> \o c
<1>1. /\ Len(c) \in Nat /\ d \in Seq(ChainVersions) /\ Len(d) = Len(c) + 1
      /\ d[1] = new /\ \A i \in 1 .. Len(c) : d[i + 1] = c[i]
  OBVIOUS
<1>2. /\ Seen(c, snap) = 0 => Newer(c, snap)
      /\ Seen(c, snap) # 0 => Reads(c, snap, c[Seen(c, snap)])
  BY SeenIsFirst DEF Reads
<1> HIDE DEF d
<1>3. \A j \in 1 .. Len(d) : j = 1 \/ (j - 1 \in 1 .. Len(c) /\ d[j] = c[j - 1])
  <2> TAKE j \in 1 .. Len(d)
  <2>1. j = 1 \/ (j - 1 \in 1 .. Len(c) /\ (j - 1) + 1 = j)
    BY <1>1
  <2> QED BY <1>1, <2>1
<1>4. ASSUME Newer(c, snap) PROVE Newer(d, snap)
  BY <1>1, <1>3, <1>4 DEF Newer
<1>5. ASSUME NEW v, Reads(c, snap, v) PROVE Reads(d, snap, v)
  <2>1. PICK i \in 1 .. Len(c) : /\ c[i] = v /\ v.seqno <= snap
                                 /\ \A j \in 1 .. i - 1 : c[j].seqno > snap
    BY <1>5 DEF Reads
  <2>2. i + 1 \in 1 .. Len(d) /\ d[i + 1] = v
    BY <1>1, <2>1
  <2>3. ASSUME NEW j \in 1 .. (i + 1) - 1 PROVE d[j].seqno > snap
    <3>1. j \in 1 .. Len(d) /\ (j = 1 \/ j - 1 \in 1 .. i - 1)
      BY <1>1, <2>1
    <3> QED BY <1>1, <1>3, <2>1, <3>1
  <2> QED BY <2>1, <2>2, <2>3 DEF Reads
<1>6. CASE Seen(c, snap) = 0
  <2>1. ReadAt(c, snap) = Absent
    BY <1>2, <1>6, ReadAtReads
  <2>2. ReadAt(d, snap) = Absent
    BY <1>1, <1>2, <1>4, <1>6, ReadAtReads
  <2> QED BY <2>1, <2>2 DEF d
<1>7. CASE Seen(c, snap) # 0
  <2>1. PICK v : Reads(c, snap, v)
    BY <1>2, <1>7
  <2>2. ReadAt(c, snap) = IF v.deleted THEN Absent ELSE v.seqno
    BY <2>1, ReadAtReads
  <2>3. Reads(d, snap, v)
    BY <1>5, <2>1
  <2>4. ReadAt(d, snap) = IF v.deleted THEN Absent ELSE v.seqno
    BY <1>1, <2>3, ReadAtReads
  <2> QED BY <2>2, <2>4 DEF d
<1> QED BY <1>6, <1>7

(* A version added behind the others.                                    *)
LEMMA AppendReads ==
    ASSUME NEW d \in Seq(ChainVersions), NEW v \in ChainVersions, NEW snap \in Nat
    PROVE  /\ Newer(d, snap) /\ v.seqno > snap => Newer(Append(d, v), snap)
           /\ Newer(d, snap) /\ v.seqno <= snap => Reads(Append(d, v), snap, v)
           /\ \A w : Reads(d, snap, w) => Reads(Append(d, v), snap, w)
<1> DEFINE e == Append(d, v)
<1>1. /\ Len(d) \in Nat /\ Len(e) = Len(d) + 1 /\ e[Len(d) + 1] = v
      /\ \A i \in 1 .. Len(d) : e[i] = d[i]
  OBVIOUS
<1> HIDE DEF e
<1>2. \A i \in 1 .. Len(e) : i \in 1 .. Len(d) \/ i = Len(d) + 1
  BY <1>1
<1>3. ASSUME Newer(d, snap), v.seqno > snap PROVE Newer(e, snap)
  BY <1>1, <1>2, <1>3 DEF Newer
<1>4. ASSUME Newer(d, snap), v.seqno <= snap PROVE Reads(e, snap, v)
  <2>1. Len(d) + 1 \in 1 .. Len(e) /\ \A j \in 1 .. (Len(d) + 1) - 1 : j \in 1 .. Len(d)
    BY <1>1
  <2> QED BY <1>1, <1>4, <2>1 DEF Newer, Reads
<1>5. ASSUME NEW w, Reads(d, snap, w) PROVE Reads(e, snap, w)
  <2>1. PICK i \in 1 .. Len(d) : /\ d[i] = w /\ w.seqno <= snap
                                 /\ \A j \in 1 .. i - 1 : d[j].seqno > snap
    BY <1>5 DEF Reads
  <2>2. i \in 1 .. Len(e) /\ \A j \in 1 .. i - 1 : j \in 1 .. Len(d)
    BY <1>1
  <2> QED BY <1>1, <2>1, <2>2 DEF Reads
<1> QED BY <1>3, <1>4, <1>5 DEF e

(* A collection drops versions only, and keeps the order of the others: the *)
(* versions it leaves of the first k.                                    *)
LEMMA CollectedReads ==
    ASSUME NEW c \in Seq(ChainVersions), NEW snap \in Nat, NEW oldest \in Nat,
           Seen(c, snap) \in {0, Len(c)} \/ c[Seen(c, snap)].seqno >= oldest
    PROVE  /\ Collected(c, oldest) \in Seq(ChainVersions)
           /\ ReadAt(Collected(c, oldest), snap) = ReadAt(c, snap)
<1> DEFINE n == Len(c)
           at == Seen(c, snap)
           parts == [i \in DOMAIN c |->
                       IF i < Len(c) /\ c[i].seqno < oldest THEN <<>> ELSE <<c[i]>>]
<1>1. n \in Nat /\ DOMAIN c = 1 .. n /\ \A i \in 1 .. n : c[i] \in ChainVersions /\ c[i].seqno \in Nat
  BY ChainFacts
<1>2. /\ at = 0 => Newer(c, snap)
      /\ at # 0 => /\ at \in 1 .. n /\ c[at].seqno <= snap
                   /\ \A j \in 1 .. at - 1 : c[j].seqno > snap
  BY SeenIsFirst
<1>3. Collected(c, oldest) = FlattenSeq(parts)
  BY DEF Collected
<1>4. Len(parts) = n
  BY <1>1
<1>5. \A k \in 1 .. n : parts[k] \in {<<>>, <<c[k]>>} /\ (k = at => parts[k] = <<c[k]>>)
  <2> TAKE k \in 1 .. n
  <2>1. parts[k] = IF k < n /\ c[k].seqno < oldest THEN <<>> ELSE <<c[k]>>
    BY <1>1
  <2>2. k = at => ~(k < n /\ c[k].seqno < oldest)
    BY <1>1, <1>2
  <2> QED BY <2>1, <2>2
<1>6. CASE n = 0
  <2>1. FlattenSeq(parts) = c
    BY <1>1, <1>4, <1>6 DEF FlattenSeq
  <2> QED BY <1>3, <2>1
<1>7. CASE n # 0
  <2> HIDE DEF n, at, parts
  <2>1. PICK f : /\ f[1] = parts[1]
                 /\ \A k \in 2 .. n : f[k] = f[k - 1] \o parts[k]
                 /\ FlattenSeq(parts) = f[n]
    BY <1>1, <1>4, <1>7, FlattenSteps
  <2> DEFINE g == [k \in 0 .. n |-> IF k = 0 THEN <<>> ELSE f[k]]
             Good(d, k) == /\ d \in Seq(ChainVersions)
                           /\ at = 0 \/ k < at => Newer(d, snap)
                           /\ at # 0 /\ at <= k => Reads(d, snap, c[at])
             P == { k \in 0 .. n : Good(g[k], k) }
  <2>2. g[0] = <<>> /\ g[n] = f[n]
    BY <1>1, <1>7
  <2>3. ASSUME NEW k \in 1 .. n, g[k - 1] \in Seq(ChainVersions)
        PROVE  (g[k] = g[k - 1] /\ k # at) \/ g[k] = Append(g[k - 1], c[k])
    <3>1. CASE k = 1
      <4>1. 0 \in 0 .. n /\ 1 \in 0 .. n /\ k - 1 = 0
        BY <1>1, <3>1
      <4>2. g[k] = parts[k] /\ g[k - 1] = <<>>
        BY <2>1, <3>1, <4>1
      <4>3. \A x : Append(<<>>, x) = <<x>>
        OBVIOUS
      <4> HIDE DEF g
      <4> QED BY <1>5, <4>2, <4>3
    <3>2. CASE k # 1
      <4>1. k \in 2 .. n /\ k - 1 # 0 /\ k # 0 /\ k - 1 \in 0 .. n /\ k \in 0 .. n
        BY <1>1, <3>2
      <4>2. g[k] = g[k - 1] \o parts[k]
        BY <2>1, <4>1
      <4> HIDE DEF g
      <4>3. CASE parts[k] = <<>>
        <5>1. k # at
          BY <1>5, <4>3, SMTT(60)
        <5> QED BY <2>3, <4>2, <4>3, <5>1
      <4>4. CASE parts[k] = <<c[k]>>
        BY <2>3, <4>2, <4>4
      <4> QED BY <1>5, <4>3, <4>4
    <3> QED BY <3>1, <3>2
  <2> HIDE DEF g
  <2>4. 0 \in P
    <3>1. Newer(<<>>, snap) /\ <<>> \in Seq(ChainVersions)
      BY DEF Newer
    <3>2. at # 0 => ~(at <= 0)
      BY <1>1, <1>2
    <3>3. Good(<<>>, 0)
      BY <3>1, <3>2
    <3>4. 0 \in 0 .. n
      BY <1>1
    <3> HIDE DEF Good
    <3> QED BY <2>2, <3>3, <3>4
  <2>5. ASSUME NEW k \in 1 .. n, k - 1 \in P PROVE k \in P
    <3>1. k \in 0 .. n /\ k \in Nat /\ Good(g[k - 1], k - 1) /\ c[k] \in ChainVersions
      BY <1>1, <2>5
    <3>2. (g[k] = g[k - 1] /\ k # at) \/ g[k] = Append(g[k - 1], c[k])
      BY <2>3, <3>1
    <3>3. g[k] \in Seq(ChainVersions)
      <4>1. g[k - 1] \in Seq(ChainVersions)
        BY <3>1
      <4>2. Append(g[k - 1], c[k]) \in Seq(ChainVersions)
        BY <3>1, <4>1
      <4> QED BY <3>2, <4>1, <4>2
    <3>4. CASE at = 0 \/ k < at
      <4>1. c[k].seqno > snap /\ Newer(g[k - 1], snap)
        <5>1. at # 0 => k \in 1 .. at - 1 /\ k - 1 < at
          BY <1>1, <1>2, <3>1, <3>4
        <5> QED BY <1>2, <3>1, <3>4, <5>1 DEF Newer, n
      <4>2. Newer(g[k], snap)
        BY <3>1, <3>2, <4>1, AppendReads
      <4>3. at # 0 => ~(at <= k)
        BY <1>1, <1>2, <3>4
      <4> QED BY <3>1, <3>3, <4>2, <4>3
    <3>5. CASE at # 0 /\ k = at
      <4>1. k - 1 < at
        BY <3>1, <3>5
      <4>2. Newer(g[k - 1], snap) /\ g[k] = Append(g[k - 1], c[k]) /\ c[k].seqno <= snap
        BY <1>2, <3>1, <3>2, <3>5, <4>1
      <4>3. Reads(g[k], snap, c[k])
        BY <3>1, <4>2, AppendReads
      <4> QED BY <3>1, <3>3, <3>5, <4>3
    <3>6. CASE at # 0 /\ at < k
      <4>1. at <= k - 1 /\ ~(k < at)
        BY <1>1, <1>2, <3>1, <3>6
      <4>2. Reads(g[k - 1], snap, c[at])
        BY <3>1, <3>6, <4>1
      <4>3. Reads(g[k], snap, c[at])
        BY <3>1, <3>2, <4>2, AppendReads
      <4> QED BY <3>1, <3>3, <3>6, <4>1, <4>3
    <3>7. at = 0 \/ k < at \/ (at # 0 /\ k = at) \/ (at # 0 /\ at < k)
      BY <1>1, <1>2, <3>1
    <3> QED BY <3>4, <3>5, <3>6, <3>7
  <2>6. Good(g[n], n)
    <3>1. n \in 0 .. n
      BY <1>1
    <3> HIDE DEF Good
    <3>2. \A k \in 0 .. n : k \in P
      <4> HIDE DEF P
      <4> QED BY <1>1, <2>4, <2>5, InductionUpTo
    <3> QED BY <3>1, <3>2
  <2>7. Collected(c, oldest) = g[n] /\ g[n] \in Seq(ChainVersions)
    BY <1>3, <2>1, <2>2, <2>6
  <2>8. CASE at = 0
    BY <1>2, <2>6, <2>7, <2>8, ReadAtReads
  <2>9. CASE at # 0
    <3>1. at <= n
      BY <1>1, <1>2, <2>9
    <3>2. Reads(g[n], snap, c[at]) /\ Reads(c, snap, c[at])
      BY <1>2, <2>6, <2>9, <3>1 DEF Reads, n
    <3>3. ReadAt(g[n], snap) = ReadAt(c, snap)
      BY <2>7, <3>2, ReadAtReads
    <3> QED BY <2>7, <3>3
  <2> QED BY <2>8, <2>9
<1> QED BY <1>6, <1>7

LEMMA CollectedType ==
    ASSUME NEW c \in Seq(ChainVersions), NEW oldest \in Nat
    PROVE  Collected(c, oldest) \in Seq(ChainVersions)
<1>1. Seen(c, 0) = 0
  <2>1. \A v \in ChainVersions : ~(v.seqno <= 0)
    BY SnapAssumption DEF ChainVersions, Numbers
  <2> QED BY <2>1, ChainFacts, SeenIsFirst
<1> QED BY <1>1, CollectedReads

-----------------------------------------------------------------------------
(* A new snapshot is the oldest if it is older than the one kept.        *)
LEMMA OldestOfMore ==
    ASSUME NEW a \in Seq(Taken), NEW s \in Taken
    PROVE  Oldest(Append(a, s)) = IF s < Oldest(a) THEN s ELSE Oldest(a)
<1> DEFINE A == ToSet(a) \cup {NoSnapshot}
           B == ToSet(Append(a, s)) \cup {NoSnapshot}
<1>1. ToSet(Append(a, s)) = ToSet(a) \cup {s}
  <2>1. /\ Len(a) \in Nat /\ DOMAIN a = 1 .. Len(a) /\ DOMAIN Append(a, s) = 1 .. Len(a) + 1
        /\ Append(a, s)[Len(a) + 1] = s /\ \A i \in 1 .. Len(a) : Append(a, s)[i] = a[i]
    OBVIOUS
  <2>2. \A i : i \in 1 .. Len(a) + 1 <=> i \in 1 .. Len(a) \/ i = Len(a) + 1
    BY <2>1
  <2> QED BY <2>1, <2>2 DEF ToSet
<1>2. B = A \cup {s}
  BY <1>1
<1>3. A \in SUBSET Nat /\ A # {} /\ B \in SUBSET Nat /\ B # {}
  <2>1. NoSnapshot \in Nat /\ s \in Nat
    BY SnapAssumption DEF NoSnapshot, Taken
  <2>2. \A i \in DOMAIN a : a[i] \in Taken
    OBVIOUS
  <2>3. Taken \subseteq Nat
    BY DEF Taken
  <2>4. ToSet(a) \in SUBSET Nat
    BY <2>2, <2>3 DEF ToSet
  <2> QED BY <1>2, <2>1, <2>4
<1> HIDE DEF A, B
<1>4. Min(A) \in A /\ \A m \in A : Min(A) <= m
  BY <1>3, MinIsMember
<1>5. Min(B) \in B /\ \A m \in B : Min(B) <= m
  BY <1>3, MinIsMember
<1>6. Min(B) = IF s < Min(A) THEN s ELSE Min(A)
  <2>1. Min(A) \in Nat /\ Min(B) \in Nat /\ s \in Nat /\ Min(A) \in B /\ s \in B
    BY <1>2, <1>3, <1>4, <1>5
  <2>2. Min(B) <= Min(A) /\ Min(B) <= s /\ (Min(B) = s \/ Min(A) <= Min(B))
    BY <1>2, <1>4, <1>5, <2>1
  <2>3. Min(B) = s \/ Min(B) = Min(A)
    BY <2>1, <2>2
  <2> QED BY <2>1, <2>2, <2>3
<1> QED BY <1>6 DEF Oldest, A, B

LEMMA SnapInitInv == SnapInit => SnapInv
<1> SUFFICES ASSUME SnapInit PROVE SnapInv
  OBVIOUS
<1>1. handle = NewStore
  BY DEF SnapInit
<1>2. SnapTypeOK
  BY <1>1, SnapAssumption DEF SnapTypeOK, NewStore, NoSnapshot, Taken
<1>3. OldestIsCached
  <2>1. ToSet(<<>>) \cup {NoSnapshot} = {NoSnapshot}
    BY DEF ToSet
  <2>2. Min({NoSnapshot}) = NoSnapshot
    <3>1. {NoSnapshot} \in SUBSET Nat
      BY SnapAssumption DEF NoSnapshot
    <3>2. Min({NoSnapshot}) \in {NoSnapshot}
      BY <3>1, MinIsMember
    <3> QED BY <3>2
  <2> QED BY <1>1, <2>1, <2>2 DEF OldestIsCached, Oldest, NewStore
<1> QED BY <1>2, <1>3 DEF SnapInv

LEMMA SnapNextInv == SnapInv /\ [SnapNext]_handle => SnapInv'
<1> SUFFICES ASSUME SnapInv, [SnapNext]_handle PROVE SnapInv'
  OBVIOUS
<1> USE DEF SnapInv
<1>1. /\ handle.seqno \in Taken /\ handle.active \in Seq(Taken)
      /\ handle.oldest \in 1 .. NoSnapshot /\ handle.oldest = Oldest(handle.active)
      /\ handle.chain \in [SnapKeys -> Seq(ChainVersions)] /\ handle.pending \in SUBSET Numbers
  BY DEF SnapTypeOK, OldestIsCached
<1>2. CASE CreateSnapshot
  <2>1. handle' = [handle EXCEPT !.active = Append(handle.active, handle.seqno),
                                 !.oldest = IF handle.seqno < handle.oldest
                                            THEN handle.seqno ELSE handle.oldest]
    BY <1>2 DEF CreateSnapshot
  <2>2. Append(handle.active, handle.seqno) \in Seq(Taken)
    BY <1>1
  <2>3. (IF handle.seqno < handle.oldest THEN handle.seqno ELSE handle.oldest) \in 1 .. NoSnapshot
    BY <1>1, SnapAssumption DEF NoSnapshot, Taken
  <2>4. SnapTypeOK'
    BY <2>1, <2>2, <2>3 DEF SnapTypeOK
  <2>5. OldestIsCached'
    <3>1. handle'.active = Append(handle.active, handle.seqno)
      BY <2>1 DEF SnapTypeOK
    <3>2. handle'.oldest = IF handle.seqno < handle.oldest THEN handle.seqno ELSE handle.oldest
      BY <2>1 DEF SnapTypeOK
    <3> QED BY <1>1, <3>1, <3>2, OldestOfMore DEF OldestIsCached
  <2> QED BY <2>4, <2>5
<1>3. ASSUME NEW i \in DOMAIN handle.active, ReleaseSnapshot(i) PROVE SnapInv'
  <2> DEFINE rest == RemoveAt(handle.active, i)
  <2>1. handle' = [handle EXCEPT !.active = rest, !.oldest = Oldest(rest)]
    BY <1>3 DEF ReleaseSnapshot
  <2>2. rest \in Seq(Taken)
    <3>1. i \in 1 .. Len(handle.active) /\ Len(handle.active) \in Nat
      BY <1>1
    <3>2. /\ SubSeq(handle.active, 1, i - 1) \in Seq(Taken)
          /\ SubSeq(handle.active, i + 1, Len(handle.active)) \in Seq(Taken)
      BY <1>1, <3>1
    <3> QED BY <3>2 DEF RemoveAt
  <2> HIDE DEF rest
  <2>3. Oldest(rest) \in 1 .. NoSnapshot
    <3> DEFINE A == ToSet(rest) \cup {NoSnapshot}
    <3>1. \A j \in DOMAIN rest : rest[j] \in Taken
      BY <2>2
    <3>2. A \in SUBSET (1 .. NoSnapshot) /\ A # {} /\ A \in SUBSET Nat
      BY <3>1, SnapAssumption DEF ToSet, NoSnapshot, Taken
    <3> HIDE DEF A
    <3>3. Min(A) \in A
      BY <3>2, MinIsMember
    <3> QED BY <3>2, <3>3 DEF Oldest, A
  <2>4. SnapTypeOK'
    BY <2>1, <2>2, <2>3 DEF SnapTypeOK
  <2>5. OldestIsCached'
    BY <2>1 DEF OldestIsCached, SnapTypeOK
  <2> QED BY <2>4, <2>5
<1>4. CASE NextSeqno
  <2>1. /\ handle.seqno <= SnapSeq
        /\ handle' = [handle EXCEPT !.seqno = handle.seqno + 1,
                                    !.pending = handle.pending \cup {handle.seqno}]
    BY <1>4 DEF NextSeqno
  <2>2. handle.seqno + 1 \in Taken /\ handle.pending \cup {handle.seqno} \in SUBSET Numbers
    BY <1>1, <2>1, SnapAssumption DEF Numbers, Taken
  <2>3. SnapTypeOK'
    BY <2>1, <2>2 DEF SnapTypeOK
  <2>4. OldestIsCached'
    BY <2>1 DEF OldestIsCached, SnapTypeOK
  <2> QED BY <2>3, <2>4
<1>5. ASSUME NEW k \in SnapKeys, NEW n \in handle.pending, NEW d \in BOOLEAN, PutVersion(k, n, d)
      PROVE  SnapInv'
  <2> DEFINE new == [seqno |-> n, deleted |-> d]
             chain == [handle.chain EXCEPT ![k] = <<new>> \o handle.chain[k]]
  <2>1. handle' = [handle EXCEPT !.pending = handle.pending \ {n}, !.chain = chain]
    BY <1>1, <1>5 DEF PutVersion, SnapTypeOK
  <2>2. <<new>> \o handle.chain[k] \in Seq(ChainVersions)
    <3>1. new \in ChainVersions /\ handle.chain[k] \in Seq(ChainVersions)
      BY <1>1 DEF ChainVersions
    <3> HIDE DEF new
    <3> QED BY <3>1
  <2>3. chain \in [SnapKeys -> Seq(ChainVersions)] /\ handle.pending \ {n} \in SUBSET Numbers
    <3> HIDE DEF new
    <3> QED BY <1>1, <2>2
  <2> HIDE DEF chain
  <2>4. SnapTypeOK'
    BY <2>1, <2>3 DEF SnapTypeOK
  <2>5. OldestIsCached'
    BY <2>1 DEF OldestIsCached, SnapTypeOK
  <2> QED BY <2>4, <2>5
<1>6. CASE CollectVersions
  <2> DEFINE chain == [k \in SnapKeys |-> Collected(handle.chain[k], handle.oldest)]
  <2>1. handle' = [handle EXCEPT !.chain = chain]
    BY <1>6 DEF CollectVersions
  <2>2. \A k \in SnapKeys : Collected(handle.chain[k], handle.oldest) \in Seq(ChainVersions)
    <3>1. handle.oldest \in Nat
      BY <1>1, SnapAssumption DEF NoSnapshot
    <3> QED BY <1>1, <3>1, CollectedType
  <2>3. chain \in [SnapKeys -> Seq(ChainVersions)]
    BY <2>2
  <2> HIDE DEF chain
  <2>4. SnapTypeOK'
    BY <2>1, <2>3 DEF SnapTypeOK
  <2>5. OldestIsCached'
    BY <2>1 DEF OldestIsCached, SnapTypeOK
  <2> QED BY <2>4, <2>5
<1>7. CASE UNCHANGED handle
  BY <1>7 DEF SnapTypeOK, OldestIsCached
<1> QED BY <1>2, <1>3, <1>4, <1>5, <1>6, <1>7 DEF SnapNext

LEMMA SnapInvariance == SnapInit /\ [][SnapNext]_handle => []SnapInv
BY SnapInitInv, SnapNextInv, PTL

(* A settled snapshot reads the same of a key after every step: versions *)
(* put later, other snapshots, and a collection, unless that drops the   *)
(* version read because every snapshot held is newer than it.            *)
THEOREM SettledReadsStayHolds == SnapInit /\ [][SnapNext]_handle => SettledReadsStay
<1> DEFINE Stays == Holding("snapshots") => \A i \in DOMAIN handle.active, k \in SnapKeys :
                       LET snap == handle.active[i]
                       IN  Settled(snap) /\ (CollectVersions => Spared(k, snap))
                           => ReadAt(handle'.chain[k], snap) = ReadAt(handle.chain[k], snap)
<1>1. SnapInv /\ [SnapNext]_handle => Stays
  <2> SUFFICES ASSUME SnapInv, [SnapNext]_handle, NEW i \in DOMAIN handle.active, NEW k \in SnapKeys,
                      Settled(handle.active[i]),
                      CollectVersions => Spared(k, handle.active[i])
               PROVE  ReadAt(handle'.chain[k], handle.active[i]) = ReadAt(handle.chain[k], handle.active[i])
    OBVIOUS
  <2> DEFINE snap == handle.active[i]
             c == handle.chain[k]
  <2>1. /\ snap \in Nat /\ c \in Seq(ChainVersions) /\ handle.oldest \in Nat
        /\ handle.oldest = Oldest(handle.active)
        /\ handle.chain \in [SnapKeys -> Seq(ChainVersions)] /\ handle.pending \in SUBSET Numbers
    BY SnapAssumption DEF SnapInv, SnapTypeOK, OldestIsCached, NoSnapshot, Taken
  <2>2. Settled(snap) /\ (CollectVersions => Spared(k, snap))
    OBVIOUS
  <2> HIDE DEF snap
  <2>3. ASSUME CreateSnapshot \/ NextSeqno \/ UNCHANGED handle
                  \/ \E j \in DOMAIN handle.active : ReleaseSnapshot(j)
        PROVE  ReadAt(handle'.chain[k], snap) = ReadAt(c, snap)
    <3>1. handle'.chain = handle.chain
      BY <2>3 DEF SnapInv, SnapTypeOK, CreateSnapshot, NextSeqno, ReleaseSnapshot
    <3> QED BY <3>1
  <2>4. ASSUME NEW key \in SnapKeys, NEW n \in handle.pending, NEW d \in BOOLEAN, PutVersion(key, n, d)
        PROVE  ReadAt(handle'.chain[k], snap) = ReadAt(c, snap)
    <3> DEFINE new == [seqno |-> n, deleted |-> d]
    <3>1. handle'.chain[k] = IF k = key THEN <<new>> \o c ELSE c
      BY <2>1, <2>4 DEF PutVersion, SnapInv, SnapTypeOK
    <3>2. new \in ChainVersions /\ new.seqno > snap
      BY <2>1, <2>2 DEF Settled, ChainVersions
    <3> HIDE DEF new, c
    <3> QED BY <2>1, <3>1, <3>2, PutIsUnseen
  <2>5. ASSUME CollectVersions
        PROVE  ReadAt(handle'.chain[k], snap) = ReadAt(c, snap)
    <3>1. handle'.chain[k] = Collected(c, handle.oldest)
      BY <2>5 DEF CollectVersions, SnapInv, SnapTypeOK
    <3>2. Seen(c, snap) \in {0, Len(c)} \/ c[Seen(c, snap)].seqno >= handle.oldest
      BY <2>1, <2>2, <2>5 DEF Spared
    <3> HIDE DEF c
    <3> QED BY <2>1, <3>1, <3>2, CollectedReads
  <2>6. ReadAt(handle'.chain[k], snap) = ReadAt(c, snap)
    <3> HIDE DEF c
    <3> QED BY <2>3, <2>4, <2>5 DEF SnapNext
  <2> QED BY <2>6 DEF snap
<1>2. [][SnapNext]_handle /\ []SnapInv => [][Stays]_handle
  BY <1>1, PTL
<1> QED BY <1>2, SnapInvariance DEF SettledReadsStay

-----------------------------------------------------------------------------
(***************************************************************************)
(* The log of the tree of mini-file-storage (LsmTree).                   *)
(***************************************************************************)
Writes     == LsmKeys \X Nat
LogEntries == Writes \cup {Torn}
Fields     == {"kind", "picker", "open", "mem", "imms", "levels", "disk", "buffer", "writes", "safe"}

(* t has the fields of a tree, and its frozen memtables are a list.      *)
Shape(t) == t = [f \in Fields |-> t[f]] /\ \E S : t.imms \in Seq(S)

(* s is t with other memtables and tables, perhaps.                      *)
OnlyTables(s, t) == \A f \in Fields \ {"mem", "imms", "levels"} : s[f] = t[f]

LsmTypeOK ==
    /\ Shape(handle)
    /\ handle.kind = "lsm" /\ handle.open \in BOOLEAN
    /\ handle.disk \in Seq(LogEntries) /\ handle.buffer \in Seq(Writes)
    /\ handle.writes \in Seq(Writes) /\ handle.safe \in Seq(Writes)

(* The readable part of the file has all that is safe.  An open tree     *)
(* answers for what was readable and for what it has written since; with *)
(* no torn record in the way that is what file and buffer hold.          *)
LogKeepsSafe ==
    /\ IsPrefix(handle.safe, Readable(handle.disk))
    /\ handle.open => IsPrefix(Readable(handle.disk), handle.writes)
    /\ handle.open /\ Torn \notin ToSet(handle.disk) => handle.writes = handle.disk \o handle.buffer

LsmInv == LsmTypeOK /\ LogKeepsSafe

-----------------------------------------------------------------------------
(* Lists, place by place.                                                *)
LEMMA WiderSeq ==
    ASSUME NEW S, NEW T, S \subseteq T, NEW s \in Seq(S)
    PROVE  s \in Seq(T)
OBVIOUS

LEMMA AppendToConcat ==
    ASSUME NEW S, NEW a \in Seq(S), NEW b \in Seq(S), NEW e \in S
    PROVE  (a \o b) \in Seq(S) /\ Append(a \o b, e) = a \o Append(b, e)
<1> DEFINE l == <<e>>
<1>1. (a \o b) \in Seq(S) /\ l \in Seq(S)
  OBVIOUS
<1>2. Append(a \o b, e) = (a \o b) \o l /\ Append(b, e) = b \o l
  BY <1>1, AppendIsConcat
<1> HIDE DEF l
<1>3. (a \o b) \o l = a \o (b \o l)
  BY <1>1, ConcatAssociative
<1> QED BY <1>1, <1>2, <1>3

(* Prefixes, place by place.                                             *)
LEMMA PrefixIs ==
    ASSUME NEW S, NEW s \in Seq(S), NEW t \in Seq(S)
    PROVE  IsPrefix(s, t) <=> Len(s) <= Len(t) /\ \A i \in 1 .. Len(s) : s[i] = t[i]
<1>1. Len(s) \in Nat /\ Len(t) \in Nat /\ SubSeq(s, 1, Len(s)) = s
  OBVIOUS
<1>2. ASSUME Len(s) <= Len(t)
      PROVE  SubSeq(t, 1, Len(s)) = s <=> \A i \in 1 .. Len(s) : s[i] = t[i]
  <2> DEFINE u == SubSeq(t, 1, Len(s))
  <2>1. u \in Seq(S) /\ Len(u) = Len(s) /\ \A i \in 1 .. Len(s) : u[i] = t[i]
    BY <1>1, <1>2
  <2> HIDE DEF u
  <2>2. u = s <=> \A i \in 1 .. Len(s) : u[i] = s[i]
    BY <2>1, SeqEqual
  <2> QED BY <2>1, <2>2 DEF u
<1> QED BY <1>1, <1>2 DEF IsPrefix

LEMMA PrefixTransitive ==
    ASSUME NEW S, NEW s \in Seq(S), NEW t \in Seq(S), NEW u \in Seq(S),
           IsPrefix(s, t), IsPrefix(t, u)
    PROVE  IsPrefix(s, u)
<1>1. Len(s) \in Nat /\ Len(t) \in Nat /\ Len(u) \in Nat
  OBVIOUS
<1>2. Len(s) <= Len(t) /\ \A i \in 1 .. Len(s) : s[i] = t[i]
  BY PrefixIs
<1>3. Len(t) <= Len(u) /\ \A i \in 1 .. Len(t) : t[i] = u[i]
  BY PrefixIs
<1>4. Len(s) <= Len(u) /\ \A i \in 1 .. Len(s) : s[i] = u[i]
  BY <1>1, <1>2, <1>3
<1> QED BY <1>4, PrefixIs

(* m is the number of records before the first torn one.                 *)
Whole(d, m) ==
    /\ m \in Nat /\ m <= Len(d) /\ \A i \in 1 .. m : d[i] # Torn
    /\ m = Len(d) \/ (m < Len(d) /\ d[m + 1] = Torn)

LEMMA ReadableIs ==
    ASSUME NEW d \in Seq(LogEntries)
    PROVE  /\ \E m : Whole(d, m)
           /\ \A m : Whole(d, m) => Readable(d) = SubSeq(d, 1, m)
<1> DEFINE torn == { i \in DOMAIN d : d[i] = Torn }
<1>1. Len(d) \in Nat /\ DOMAIN d = 1 .. Len(d)
  OBVIOUS
<1>2. Readable(d) = IF torn = {} THEN d ELSE SubSeq(d, 1, Min(torn) - 1)
  BY DEF Readable
<1>3. CASE torn = {}
  <2>1. Whole(d, Len(d))
    BY <1>1, <1>3 DEF Whole
  <2>2. ASSUME NEW m, Whole(d, m) PROVE m = Len(d)
    <3>1. m \in Nat /\ m <= Len(d)
      BY <2>2 DEF Whole
    <3>2. m = Len(d) \/ (m < Len(d) /\ d[m + 1] = Torn)
      BY <2>2 DEF Whole
    <3>3. \A i \in 1 .. Len(d) : d[i] # Torn
      BY <1>1, <1>3
    <3>4. ASSUME m < Len(d) PROVE m + 1 \in 1 .. Len(d)
      <4> DEFINE n == Len(d)
      <4>1. n \in Nat /\ m < n
        BY <1>1, <3>4
      <4> HIDE DEF n
      <4>2. m + 1 \in 1 .. n
        BY <3>1, <4>1
      <4> QED BY <4>2 DEF n
    <3> QED BY <3>2, <3>3, <3>4
  <2> QED BY <1>2, <1>3, <2>1, <2>2
<1>4. CASE torn # {}
  <2>1. torn \in SUBSET Nat
    BY <1>1
  <2>2. Min(torn) \in torn /\ \A i \in torn : Min(torn) <= i
    <3> HIDE DEF torn
    <3> QED BY <1>4, <2>1, MinIsMember
  <2>3. Min(torn) \in 1 .. Len(d) /\ d[Min(torn)] = Torn
    BY <1>1, <2>2
  <2>4. ASSUME NEW i \in 1 .. Min(torn) - 1 PROVE d[i] # Torn
    <3>1. i \in 1 .. Len(d) /\ ~(Min(torn) <= i)
      BY <1>1, <2>3
    <3> QED BY <1>1, <2>2, <3>1
  <2> DEFINE k == Min(torn)
  <2>5. k \in 1 .. Len(d) /\ d[k] = Torn /\ \A i \in 1 .. k - 1 : d[i] # Torn
    BY <2>3, <2>4
  <2> HIDE DEF k, torn
  <2>6. Whole(d, k - 1)
    <3>1. k - 1 \in 0 .. Len(d) /\ k - 1 < Len(d) /\ (k - 1) + 1 = k
      BY <1>1, <2>5
    <3> QED BY <2>5, <3>1 DEF Whole
  <2>7. ASSUME NEW m, Whole(d, m) PROVE m = k - 1
    <3>1. m \in Nat /\ m <= Len(d) /\ \A i \in 1 .. m : d[i] # Torn
      BY <2>7 DEF Whole
    <3>2. ~(k <= m)
      BY <2>5, <3>1, SMTT(60)
    <3>3. m # Len(d) /\ m < Len(d) /\ d[m + 1] = Torn
      BY <1>1, <2>5, <2>7, <3>1, <3>2 DEF Whole
    <3>4. ~(m + 1 <= k - 1)
      BY <2>5, <3>1, <3>3
    <3> QED BY <2>5, <3>1, <3>2, <3>4
  <2> QED BY <1>2, <1>4, <2>6, <2>7 DEF k
<1> QED BY <1>3, <1>4

LEMMA ReadableType ==
    ASSUME NEW d \in Seq(LogEntries)
    PROVE  Readable(d) \in Seq(Writes)
<1>1. PICK m : Whole(d, m)
  BY ReadableIs
<1>2. Readable(d) = SubSeq(d, 1, m) /\ m \in 0 .. Len(d) /\ Len(d) \in Nat
  BY <1>1, ReadableIs DEF Whole
<1> DEFINE r == SubSeq(d, 1, m)
<1>3. r \in Seq(LogEntries) /\ Len(r) = m /\ \A i \in 1 .. m : r[i] = d[i] /\ d[i] \in LogEntries
  BY <1>2
<1>4. \A i \in 1 .. m : r[i] \in Writes
  BY <1>1, <1>3 DEF Whole, LogEntries
<1> HIDE DEF r
<1>5. r = [i \in 1 .. m |-> r[i]] /\ m \in Nat
  BY <1>2, <1>3
<1>6. r \in Seq(Writes)
  BY <1>4, <1>5
<1> QED BY <1>2, <1>6 DEF r

(* A file that grows loses nothing readable, and all of it is readable if*)
(* nothing is torn.                                                      *)
LEMMA ReadableGrows ==
    ASSUME NEW d \in Seq(LogEntries), NEW e \in Seq(LogEntries)
    PROVE  IsPrefix(Readable(d), Readable(d \o e))
<1> DEFINE f == d \o e
<1>1. /\ f \in Seq(LogEntries) /\ Len(f) = Len(d) + Len(e) /\ Len(d) \in Nat /\ Len(e) \in Nat
      /\ \A i \in 1 .. Len(d) : f[i] = d[i]
  OBVIOUS
<1> HIDE DEF f
<1>2. PICK m : Whole(d, m)
  BY ReadableIs
<1>3. PICK n : Whole(f, n)
  BY <1>1, ReadableIs
<1>4. Readable(d) = SubSeq(d, 1, m) /\ Readable(f) = SubSeq(f, 1, n)
  BY <1>1, <1>2, <1>3, ReadableIs
<1>5. m \in Nat /\ n \in Nat /\ m <= Len(d) /\ n <= Len(f) /\ \A i \in 1 .. m : d[i] # Torn
  BY <1>1, <1>2, <1>3 DEF Whole
<1>6. m <= n
  <2> SUFFICES ASSUME n < m PROVE FALSE
    BY <1>5
  <2>1. n + 1 \in 1 .. m /\ n + 1 \in 1 .. Len(d) /\ n < Len(f)
    BY <1>1, <1>5
  <2>2. f[n + 1] = Torn
    BY <1>3, <2>1, <1>5 DEF Whole
  <2> QED BY <1>1, <1>5, <2>1, <2>2
<1>7. /\ Len(SubSeq(d, 1, m)) = m /\ Len(SubSeq(f, 1, n)) = n
      /\ \A i \in 1 .. m : SubSeq(d, 1, m)[i] = d[i] /\ SubSeq(f, 1, n)[i] = f[i]
  BY <1>1, <1>5, <1>6
<1>8. \A i \in 1 .. m : SubSeq(d, 1, m)[i] = SubSeq(f, 1, n)[i]
  <2> TAKE i \in 1 .. m
  <2>1. i \in 1 .. Len(d)
    BY <1>1, <1>5
  <2> QED BY <1>1, <1>7, <2>1
<1>9. SubSeq(d, 1, m) \in Seq(LogEntries) /\ SubSeq(f, 1, n) \in Seq(LogEntries)
  BY <1>1, <1>5
<1>10. IsPrefix(SubSeq(d, 1, m), SubSeq(f, 1, n))
  BY <1>6, <1>7, <1>8, <1>9, PrefixIs
<1> QED BY <1>4, <1>10 DEF f

LEMMA ReadableAll ==
    ASSUME NEW d \in Seq(LogEntries), Torn \notin ToSet(d)
    PROVE  Readable(d) = d
<1>1. Len(d) \in Nat /\ SubSeq(d, 1, Len(d)) = d /\ \A i \in 1 .. Len(d) : d[i] # Torn
  BY DEF ToSet
<1>2. Whole(d, Len(d))
  BY <1>1 DEF Whole
<1> QED BY <1>1, <1>2, ReadableIs

-----------------------------------------------------------------------------
(* Flushes and compactions, step by step, leave the log alone.           *)
CompactFull(s, lv) == CompactAbove(s, lv, SizeRatio ^ (lv + 1))
FlushedTimes(t, n) == FoldLeft(LAMBDA s, i : FlushOldest(s), t, [i \in 1 .. n |-> i])

(* Flushing the oldest memtable n times, one after the other.            *)
LEMMA FlushSteps ==
    ASSUME NEW t, NEW n \in Nat
    PROVE  \E w : /\ w[0] = t /\ \A k \in 1 .. n : w[k] = FlushOldest(w[k - 1])
                  /\ FlushedTimes(t, n) = w[n]
<1> DEFINE places == [i \in 1 .. n |-> i]
           Step(g, s) == IF s = {} THEN t ELSE FlushOldest(g[s \ {Max(s)}])
           Solves(g, S) == g = [s \in SUBSET S |-> Step(g, s)]
           iter == CHOOSE g : Solves(g, DOMAIN places)
<1>1. FlushedTimes(t, n) = iter[DOMAIN places]
  BY DEF FlushedTimes, FoldLeft, MapThenFoldSet
<1>2. DOMAIN places = 1 .. n /\ \A k \in 1 .. n : places[k] = k
  OBVIOUS
<1> HIDE DEF places
<1>3. \E g : Solves(g, 1 .. n)
  <2> DEFINE P == { k \in 0 .. n : \E g : Solves(g, 1 .. k) }
  <2>1. 0 \in P
    <3> DEFINE g == [s \in SUBSET (1 .. 0) |-> t]
    <3>1. SUBSET (1 .. 0) = {{}}
      OBVIOUS
    <3>2. Solves(g, 1 .. 0)
      BY <3>1
    <3> QED BY <3>2
  <2>2. ASSUME NEW k \in 1 .. n, k - 1 \in P PROVE k \in P
    <3>1. k - 1 \in Nat /\ k \in Nat
      OBVIOUS
    <3>2. PICK f : Solves(f, 1 .. k - 1)
      BY <2>2
    <3> DEFINE g == [s \in SUBSET (1 .. k) |-> IF k \in s THEN FlushOldest(f[s \ {k}]) ELSE f[s]]
    <3>3. \A s \in SUBSET (1 .. k - 1) : g[s] = f[s] /\ f[s] = Step(f, s)
      <4> TAKE s \in SUBSET (1 .. k - 1)
      <4>1. k \notin s /\ s \in SUBSET (1 .. k)
        BY <3>1
      <4>2. g[s] = f[s]
        BY <4>1
      <4> HIDE DEF Step, g
      <4> QED BY <3>2, <4>2
    <3>4. ASSUME NEW s \in SUBSET (1 .. k) PROVE g[s] = Step(g, s)
      <4>1. CASE k \in s
        <5>1. Max(s) = k
          BY <3>1, <4>1, MaxOfTop
        <5>2. s \ {k} \in SUBSET (1 .. k - 1)
          BY <3>1
        <5>3. g[s \ {k}] = f[s \ {k}]
          BY <3>3, <5>2
        <5>4. g[s] = FlushOldest(f[s \ {k}])
          BY <4>1
        <5> HIDE DEF g
        <5> QED BY <4>1, <5>1, <5>3, <5>4
      <4>2. CASE k \notin s
        <5>1. s \in SUBSET (1 .. k - 1)
          BY <3>1, <4>2
        <5>2. g[s] = f[s] /\ f[s] = Step(f, s)
          BY <3>3, <5>1
        <5>3. s # {} => s \ {Max(s)} \in SUBSET (1 .. k - 1)
          BY <5>1
        <5>4. s # {} => g[s \ {Max(s)}] = f[s \ {Max(s)}]
          BY <3>3, <5>3
        <5> HIDE DEF g
        <5> QED BY <5>2, <5>4
      <4> QED BY <4>1, <4>2
    <3>5. g = [s \in SUBSET (1 .. k) |-> g[s]]
      OBVIOUS
    <3>6. Solves(g, 1 .. k)
      <4> HIDE DEF g, Step
      <4> QED BY <3>4, <3>5
    <3>7. k \in 0 .. n
      OBVIOUS
    <3> HIDE DEF g, Solves
    <3> QED BY <3>6, <3>7
  <2>3. n \in 0 .. n
    OBVIOUS
  <2>4. n \in P
    <3> HIDE DEF P
    <3> QED BY <2>1, <2>2, <2>3, InductionUpTo
  <2> QED BY <2>4
<1>4. Solves(iter, 1 .. n)
  <2> HIDE DEF Solves
  <2> QED BY <1>2, <1>3
<1> HIDE DEF iter
<1>5. \A s \in SUBSET (1 .. n) : iter[s] = Step(iter, s)
  <2> HIDE DEF Step
  <2> QED BY <1>4
<1> HIDE DEF Solves
<1> DEFINE w == [k \in 0 .. n |-> iter[1 .. k]]
<1>6. w[0] = t
  <2>1. 1 .. 0 = {} /\ {} \in SUBSET (1 .. n)
    OBVIOUS
  <2>2. iter[{}] = t
    BY <1>5, <2>1
  <2> QED BY <2>1, <2>2
<1>7. ASSUME NEW k \in 1 .. n PROVE w[k] = FlushOldest(w[k - 1])
  <2>1. k \in Nat /\ k \in 1 .. k /\ 1 .. k \in SUBSET (1 .. n)
    OBVIOUS
  <2>2. Max(1 .. k) = k
    BY <2>1, MaxOfTop
  <2>3. (1 .. k) \ {k} = 1 .. k - 1
    BY <2>1
  <2>4. iter[1 .. k] = FlushOldest(iter[1 .. k - 1])
    BY <1>5, <2>1, <2>2, <2>3
  <2>5. k \in 0 .. n /\ k - 1 \in 0 .. n
    OBVIOUS
  <2> QED BY <1>2, <2>4, <2>5
<1>8. FlushedTimes(t, n) = w[n]
  BY <1>1, <1>2
<1> HIDE DEF w
<1> QED BY <1>6, <1>7, <1>8

CompactedFrom(t, n) == FoldLeft(LAMBDA s, lv : CompactFull(s, lv), t, [i \in 1 .. n |-> i - 1])

(* Compacting the full levels, from the top.                             *)
LEMMA CompactSteps ==
    ASSUME NEW t, NEW n \in Nat
    PROVE  \E w : /\ w[0] = t /\ \A k \in 1 .. n : w[k] = CompactFull(w[k - 1], k - 1)
                  /\ CompactedFrom(t, n) = w[n]
<1> DEFINE places == [i \in 1 .. n |-> i - 1]
           Step(g, s) == IF s = {} THEN t ELSE CompactFull(g[s \ {Max(s)}], places[Max(s)])
           Solves(g, S) == g = [s \in SUBSET S |-> Step(g, s)]
           iter == CHOOSE g : Solves(g, DOMAIN places)
<1>1. CompactedFrom(t, n) = iter[DOMAIN places]
  BY DEF CompactedFrom, FoldLeft, MapThenFoldSet
<1>2. DOMAIN places = 1 .. n /\ \A k \in 1 .. n : places[k] = k - 1
  OBVIOUS
<1> HIDE DEF places
<1>3. \E g : Solves(g, 1 .. n)
  <2> DEFINE P == { k \in 0 .. n : \E g : Solves(g, 1 .. k) }
  <2>1. 0 \in P
    <3> DEFINE g == [s \in SUBSET (1 .. 0) |-> t]
    <3>1. SUBSET (1 .. 0) = {{}}
      OBVIOUS
    <3>2. Solves(g, 1 .. 0)
      BY <3>1
    <3> QED BY <3>2
  <2>2. ASSUME NEW k \in 1 .. n, k - 1 \in P PROVE k \in P
    <3>1. k - 1 \in Nat /\ k \in Nat
      OBVIOUS
    <3>2. PICK f : Solves(f, 1 .. k - 1)
      BY <2>2
    <3> DEFINE g == [s \in SUBSET (1 .. k) |-> IF k \in s THEN CompactFull(f[s \ {k}], places[k]) ELSE f[s]]
    <3>3. \A s \in SUBSET (1 .. k - 1) : g[s] = f[s] /\ f[s] = Step(f, s)
      <4> TAKE s \in SUBSET (1 .. k - 1)
      <4>1. k \notin s /\ s \in SUBSET (1 .. k)
        BY <3>1
      <4>2. g[s] = f[s]
        BY <4>1
      <4> HIDE DEF Step, g
      <4> QED BY <3>2, <4>2
    <3>4. ASSUME NEW s \in SUBSET (1 .. k) PROVE g[s] = Step(g, s)
      <4>1. CASE k \in s
        <5>1. Max(s) = k
          BY <3>1, <4>1, MaxOfTop
        <5>2. s \ {k} \in SUBSET (1 .. k - 1)
          BY <3>1
        <5>3. g[s \ {k}] = f[s \ {k}]
          BY <3>3, <5>2
        <5>4. g[s] = CompactFull(f[s \ {k}], places[k])
          BY <4>1
        <5> HIDE DEF g
        <5> QED BY <4>1, <5>1, <5>3, <5>4
      <4>2. CASE k \notin s
        <5>1. s \in SUBSET (1 .. k - 1)
          BY <3>1, <4>2
        <5>2. g[s] = f[s] /\ f[s] = Step(f, s)
          BY <3>3, <5>1
        <5>3. s # {} => s \ {Max(s)} \in SUBSET (1 .. k - 1)
          BY <5>1
        <5>4. s # {} => g[s \ {Max(s)}] = f[s \ {Max(s)}]
          BY <3>3, <5>3
        <5> HIDE DEF g
        <5> QED BY <5>2, <5>4
      <4> QED BY <4>1, <4>2
    <3>5. g = [s \in SUBSET (1 .. k) |-> g[s]]
      OBVIOUS
    <3>6. Solves(g, 1 .. k)
      <4> HIDE DEF g, Step
      <4> QED BY <3>4, <3>5
    <3>7. k \in 0 .. n
      OBVIOUS
    <3> HIDE DEF g, Solves
    <3> QED BY <3>6, <3>7
  <2>3. n \in 0 .. n
    OBVIOUS
  <2>4. n \in P
    <3> HIDE DEF P
    <3> QED BY <2>1, <2>2, <2>3, InductionUpTo
  <2> QED BY <2>4
<1>4. Solves(iter, 1 .. n)
  <2> HIDE DEF Solves
  <2> QED BY <1>2, <1>3
<1> HIDE DEF iter
<1>5. \A s \in SUBSET (1 .. n) : iter[s] = Step(iter, s)
  <2> HIDE DEF Step
  <2> QED BY <1>4
<1> HIDE DEF Solves
<1> DEFINE w == [k \in 0 .. n |-> iter[1 .. k]]
<1>6. w[0] = t
  <2>1. 1 .. 0 = {} /\ {} \in SUBSET (1 .. n)
    OBVIOUS
  <2>2. iter[{}] = t
    BY <1>5, <2>1
  <2> QED BY <2>1, <2>2
<1>7. ASSUME NEW k \in 1 .. n PROVE w[k] = CompactFull(w[k - 1], k - 1)
  <2>1. k \in Nat /\ k \in 1 .. k /\ 1 .. k \in SUBSET (1 .. n)
    OBVIOUS
  <2>2. Max(1 .. k) = k
    BY <2>1, MaxOfTop
  <2>3. (1 .. k) \ {k} = 1 .. k - 1
    BY <2>1
  <2>4. iter[1 .. k] = CompactFull(iter[1 .. k - 1], places[k])
    BY <1>5, <2>1, <2>2, <2>3
  <2>5. k \in 0 .. n /\ k - 1 \in 0 .. n
    OBVIOUS
  <2> QED BY <1>2, <2>4, <2>5
<1>8. CompactedFrom(t, n) = w[n]
  BY <1>1, <1>2
<1> HIDE DEF w
<1> QED BY <1>6, <1>7, <1>8

LEMMA FlushOldestKeeps ==
    ASSUME NEW t, Shape(t), t.imms # <<>>
    PROVE  /\ Shape(FlushOldest(t)) /\ OnlyTables(FlushOldest(t), t)
           /\ Len(FlushOldest(t).imms) = Len(t.imms) - 1
<1> DEFINE s == FlushOldest(t)
<1>1. PICK S : t.imms \in Seq(S)
  BY DEF Shape
<1>2. Tail(t.imms) \in Seq(S) /\ Len(Tail(t.imms)) = Len(t.imms) - 1
  BY <1>1
<1>3. PICK levels : s = [t EXCEPT !.imms = Tail(t.imms), !.levels = levels]
  BY DEF FlushOldest
<1> HIDE DEF s
<1>4. t = [f \in Fields |-> t[f]] /\ "imms" \in Fields /\ "levels" \in Fields
  BY DEF Shape, Fields
<1>5. s.imms = Tail(t.imms) /\ \A f \in Fields \ {"imms", "levels"} : s[f] = t[f]
  BY <1>3, <1>4
<1>6. s = [f \in Fields |-> s[f]]
  BY <1>3, <1>4
<1>7. Shape(s)
  BY <1>2, <1>5, <1>6 DEF Shape
<1>8. OnlyTables(s, t)
  BY <1>5 DEF OnlyTables
<1> QED BY <1>2, <1>5, <1>7, <1>8 DEF s

LEMMA FlushDownKeeps ==
    ASSUME NEW t, Shape(t), NEW m \in Nat
    PROVE  Shape(FlushDownTo(t, m)) /\ OnlyTables(FlushDownTo(t, m), t)
<1> DEFINE n == IF Len(t.imms) > m THEN Len(t.imms) - m ELSE 0
<1>1. Len(t.imms) \in Nat /\ n \in Nat /\ n <= Len(t.imms)
  BY DEF Shape
<1>2. FlushDownTo(t, m) = FlushedTimes(t, n)
  <2>1. 1 .. Len(t.imms) - m = 1 .. n
    BY <1>1
  <2> HIDE DEF n
  <2> QED BY <2>1 DEF FlushDownTo, FlushedTimes
<1> HIDE DEF n
<1>3. PICK w : /\ w[0] = t /\ \A k \in 1 .. n : w[k] = FlushOldest(w[k - 1])
               /\ FlushedTimes(t, n) = w[n]
  BY <1>1, FlushSteps
<1> DEFINE P == { k \in 0 .. n : Shape(w[k]) /\ OnlyTables(w[k], t) /\ Len(w[k].imms) = Len(t.imms) - k }
<1>4. 0 \in P
  BY <1>1, <1>3 DEF OnlyTables
<1>5. ASSUME NEW k \in 1 .. n, k - 1 \in P PROVE k \in P
  <2>1. /\ k \in 0 .. n /\ Shape(w[k - 1]) /\ OnlyTables(w[k - 1], t)
        /\ Len(w[k - 1].imms) = Len(t.imms) - (k - 1) /\ w[k] = FlushOldest(w[k - 1])
    <3>1. k \in 0 .. n /\ w[k] = FlushOldest(w[k - 1])
      BY <1>1, <1>3
    <3> QED BY <1>5, <3>1
  <2>2. w[k - 1].imms # <<>>
    BY <1>1, <2>1
  <2>3. /\ Shape(w[k]) /\ OnlyTables(w[k], w[k - 1])
        /\ Len(w[k].imms) = Len(w[k - 1].imms) - 1
    BY <2>1, <2>2, FlushOldestKeeps
  <2>4. OnlyTables(w[k], t)
    BY <2>1, <2>3 DEF OnlyTables
  <2>5. Len(w[k].imms) = Len(t.imms) - k
    BY <1>1, <2>1, <2>3
  <2> QED BY <2>1, <2>3, <2>4, <2>5
<1>6. n \in P
  <2>1. n \in 0 .. n
    BY <1>1
  <2> HIDE DEF P
  <2> QED BY <1>1, <1>4, <1>5, <2>1, InductionUpTo, SMTT(60)
<1> QED BY <1>2, <1>3, <1>6

LEMMA CompactLevelKeeps ==
    ASSUME NEW t, Shape(t), NEW lv
    PROVE  Shape(CompactLevel(t, lv)) /\ OnlyTables(CompactLevel(t, lv), t)
<1> DEFINE s == CompactLevel(t, lv)
<1>1. s = t \/ \E levels : s = [t EXCEPT !.levels = levels]
  BY DEF CompactLevel
<1> HIDE DEF s
<1>2. t = [f \in Fields |-> t[f]] /\ "imms" \in Fields /\ "levels" \in Fields
  BY DEF Shape, Fields
<1>3. s = [f \in Fields |-> s[f]] /\ \A f \in Fields \ {"levels"} : s[f] = t[f]
  BY <1>1, <1>2
<1>4. s.imms = t.imms
  BY <1>2, <1>3
<1>5. Shape(s) /\ OnlyTables(s, t)
  BY <1>3, <1>4 DEF Shape, OnlyTables
<1> QED BY <1>5 DEF s

LEMMA MaybeCompactKeeps ==
    ASSUME NEW t, Shape(t)
    PROVE  Shape(MaybeCompact(t)) /\ OnlyTables(MaybeCompact(t), t)
<1> DEFINE u == FlushDownTo(t, 0)
           v == CompactAbove(u, 0, Level0Limit)
           n == LsmLevels - 1
<1>1. Shape(u) /\ OnlyTables(u, t)
  BY FlushDownKeeps
<1>2. n \in Nat
  BY LsmAssumption
<1>3. \A s, lv, limit : Shape(s) => Shape(CompactAbove(s, lv, limit)) /\ OnlyTables(CompactAbove(s, lv, limit), s)
  BY CompactLevelKeeps DEF CompactAbove, OnlyTables
<1>4. MaybeCompact(t) = IF t.picker = "leveled" THEN CompactedFrom(v, n)
                        ELSE IF Len(u.levels[0]) >= TierFiles THEN CompactLevel(u, 0) ELSE u
  BY DEF MaybeCompact, CompactedFrom, CompactFull
<1> HIDE DEF u, n
<1>5. Shape(v) /\ OnlyTables(v, t)
  BY <1>1, <1>3 DEF OnlyTables
<1> HIDE DEF v
<1>6. Shape(CompactedFrom(v, n)) /\ OnlyTables(CompactedFrom(v, n), t)
  <2>1. PICK w : /\ w[0] = v /\ \A k \in 1 .. n : w[k] = CompactFull(w[k - 1], k - 1)
                 /\ CompactedFrom(v, n) = w[n]
    BY <1>2, CompactSteps
  <2> DEFINE P == { k \in 0 .. n : Shape(w[k]) /\ OnlyTables(w[k], t) }
  <2>2. 0 \in P
    BY <1>2, <1>5, <2>1
  <2>3. ASSUME NEW k \in 1 .. n, k - 1 \in P PROVE k \in P
    <3>1. k \in 0 .. n /\ Shape(w[k - 1]) /\ OnlyTables(w[k - 1], t) /\ w[k] = CompactFull(w[k - 1], k - 1)
      BY <1>2, <2>1, <2>3
    <3>2. Shape(w[k]) /\ OnlyTables(w[k], w[k - 1])
      BY <1>3, <3>1 DEF CompactFull
    <3>3. OnlyTables(w[k], t)
      BY <3>1, <3>2 DEF OnlyTables
    <3> QED BY <3>1, <3>2, <3>3
  <2>4. n \in P
    <3>1. n \in 0 .. n
      BY <1>2
    <3> HIDE DEF P
    <3> QED BY <1>2, <2>2, <2>3, <3>1, InductionUpTo
  <2> QED BY <2>1, <2>4
<1>7. Shape(CompactLevel(u, 0)) /\ OnlyTables(CompactLevel(u, 0), t)
  BY <1>1, CompactLevelKeeps DEF OnlyTables
<1> QED BY <1>1, <1>4, <1>6, <1>7

LEMMA PutKeeps ==
    ASSUME NEW t, Shape(t), NEW k, NEW v
    PROVE  /\ Shape(Put(t, k, v))
           /\ Put(t, k, v).buffer = Append(t.buffer, <<k, v>>)
           /\ \A f \in Fields \ {"mem", "imms", "levels", "buffer"} : Put(t, k, v)[f] = t[f]
<1> DEFINE entry == <<k, v>>
           u == [t EXCEPT !.buffer = Append(t.buffer, entry), !.mem = Insert(t.mem, k, v)]
           z == Freeze(u)
<1>1. Put(t, k, v) = IF Cardinality(DOMAIN u.mem) >= MemCap THEN FlushDownTo(z, ImmMax) ELSE u
  BY DEF Put
<1>2. t = [f \in Fields |-> t[f]] /\ {"mem", "imms", "levels", "buffer"} \subseteq Fields
  BY DEF Shape, Fields
<1> HIDE DEF entry
<1>3. /\ u = [f \in Fields |-> u[f]] /\ u.buffer = Append(t.buffer, entry) /\ u.imms = t.imms
      /\ \A f \in Fields \ {"mem", "imms", "levels", "buffer"} : u[f] = t[f]
  BY <1>2
<1>4. Shape(u)
  BY <1>3 DEF Shape
<1> HIDE DEF u
<1>5. z = [u EXCEPT !.imms = Append(u.imms, u.mem), !.mem = Nothing]
  BY DEF Freeze
<1>6. Shape(z) /\ OnlyTables(z, u)
  <2>1. PICK S : u.imms \in Seq(S)
    BY <1>4 DEF Shape
  <2>2. Append(u.imms, u.mem) \in Seq(S \cup {u.mem})
    BY <2>1
  <2>3. z.imms = Append(u.imms, u.mem) /\ z = [f \in Fields |-> z[f]] /\ OnlyTables(z, u)
    BY <1>2, <1>3, <1>5 DEF OnlyTables
  <2> QED BY <2>2, <2>3 DEF Shape
<1> HIDE DEF z
<1>7. Shape(FlushDownTo(z, ImmMax)) /\ OnlyTables(FlushDownTo(z, ImmMax), u)
  BY <1>6, FlushDownKeeps, LsmAssumption DEF OnlyTables
<1>8. "buffer" \in Fields \ {"mem", "imms", "levels"}
  BY DEF Fields
<1> QED BY <1>1, <1>3, <1>4, <1>7, <1>8 DEF OnlyTables, entry

LEMMA ClosingKeeps ==
    ASSUME NEW t, Shape(t)
    PROVE  LET u == MaybeCompact(FlushDownTo(Freeze(t), 0))
           IN  Shape(u) /\ OnlyTables(u, t)
<1> DEFINE z == Freeze(t)
           y == FlushDownTo(z, 0)
<1>1. z = [t EXCEPT !.imms = Append(t.imms, t.mem), !.mem = Nothing]
  BY DEF Freeze
<1>2. Shape(z) /\ OnlyTables(z, t)
  <2> HIDE DEF z
  <2>1. PICK S : t.imms \in Seq(S)
    BY DEF Shape
  <2>2. Append(t.imms, t.mem) \in Seq(S \cup {t.mem})
    BY <2>1
  <2>3. z.imms = Append(t.imms, t.mem) /\ z = [f \in Fields |-> z[f]] /\ OnlyTables(z, t)
    BY <1>1 DEF OnlyTables, Shape, Fields
  <2> QED BY <2>2, <2>3 DEF Shape
<1> HIDE DEF z
<1>3. Shape(y) /\ OnlyTables(y, t)
  BY <1>2, FlushDownKeeps DEF OnlyTables
<1> HIDE DEF y
<1>4. Shape(MaybeCompact(y)) /\ OnlyTables(MaybeCompact(y), t)
  BY <1>3, MaybeCompactKeeps DEF OnlyTables
<1> QED BY <1>4 DEF y, z

LEMMA OpenedShape ==
    ASSUME NEW p, NEW d, NEW s
    PROVE  Shape(Opened(p, d, s))
<1> DEFINE o == Opened(p, d, s)
<1>1. /\ o = [f \in Fields |-> o[f]] /\ o.imms = <<>>
  BY DEF Opened, Fields
<1> HIDE DEF o
<1>2. <<>> \in Seq({})
  OBVIOUS
<1> QED BY <1>1, <1>2 DEF Shape, o

-----------------------------------------------------------------------------
LEMMA LsmInitInv == LsmInit => LsmInv
<1> SUFFICES ASSUME LsmInit PROVE LsmInv
  OBVIOUS
<1>1. PICK p : handle = Opened(p, <<>>, <<>>)
  BY DEF LsmInit
<1>2. Readable(<<>>) = <<>>
  <2>1. Torn \notin ToSet(<<>>) /\ <<>> \in Seq(LogEntries)
    BY DEF ToSet
  <2> QED BY <2>1, ReadableAll
<1>3. /\ Shape(handle) /\ handle.kind = "lsm" /\ handle.open = TRUE
      /\ handle.disk = <<>> /\ handle.buffer = <<>> /\ handle.writes = <<>> /\ handle.safe = <<>>
  BY <1>1, <1>2, OpenedShape DEF Opened
<1>4. LsmTypeOK
  <2>1. <<>> \in Seq(LogEntries) /\ <<>> \in Seq(Writes) /\ TRUE \in BOOLEAN
    OBVIOUS
  <2> QED BY <1>3, <2>1, Zenon DEF LsmTypeOK
<1>5. IsPrefix(<<>>, <<>>)
  <2> DEFINE e == <<>>
  <2>1. e \in Seq(Writes) /\ Len(e) <= Len(e)
    OBVIOUS
  <2> HIDE DEF e
  <2>2. IsPrefix(e, e)
    BY <2>1, PrefixIs
  <2> QED BY <2>2 DEF e
<1>6. LogKeepsSafe
  BY <1>2, <1>3, <1>5 DEF LogKeepsSafe
<1> QED BY <1>4, <1>6 DEF LsmInv

LEMMA LsmNextInv == LsmInv /\ [LsmNext]_handle => LsmInv'
<1> SUFFICES ASSUME LsmInv, [LsmNext]_handle PROVE LsmInv'
  OBVIOUS
<1> DEFINE found == Readable(handle.disk)
<1>1. /\ Shape(handle) /\ handle.kind = "lsm" /\ handle.open \in BOOLEAN
      /\ handle.disk \in Seq(LogEntries) /\ handle.buffer \in Seq(Writes)
      /\ handle.writes \in Seq(Writes) /\ handle.safe \in Seq(Writes)
      /\ handle = [f \in Fields |-> handle[f]]
  BY DEF LsmInv, LsmTypeOK, Shape
<1>2. /\ IsPrefix(handle.safe, found)
      /\ handle.open => IsPrefix(found, handle.writes)
      /\ handle.open /\ Torn \notin ToSet(handle.disk) => handle.writes = handle.disk \o handle.buffer
  BY DEF LsmInv, LogKeepsSafe
<1>3. found \in Seq(Writes) /\ Writes \subseteq LogEntries
  BY <1>1, ReadableType DEF LogEntries
<1> HIDE DEF found
<1>4. ASSUME Shape(handle'), OnlyTables(handle', handle) PROVE LsmInv'
  <2>1. /\ handle'.kind = handle.kind /\ handle'.open = handle.open /\ handle'.disk = handle.disk
        /\ handle'.buffer = handle.buffer /\ handle'.writes = handle.writes /\ handle'.safe = handle.safe
    BY <1>4 DEF OnlyTables, Fields
  <2> QED BY <1>1, <1>2, <1>4, <2>1 DEF LsmInv, LsmTypeOK, LogKeepsSafe, found
<1>5. ASSUME NEW k \in LsmKeys, LsmWrite(k) PROVE LsmInv'
  <2>1. PICK v \in {Len(handle.writes) + 1, Tombstone} :
           handle' = [Put(handle, k, v) EXCEPT !.writes = Append(Put(handle, k, v).writes, <<k, v>>)]
    BY <1>5 DEF LsmWrite
  <2> DEFINE entry == <<k, v>>
             p == Put(handle, k, v)
  <2>2. entry \in Writes
    BY <1>1, <2>1 DEF Writes, Tombstone
  <2>3. /\ Shape(p) /\ p.buffer = Append(handle.buffer, entry)
        /\ \A f \in Fields \ {"mem", "imms", "levels", "buffer"} : p[f] = handle[f]
    <3>1. Shape(handle)
      BY <1>1
    <3> QED BY <3>1, PutKeeps
  <2>4. handle' = [p EXCEPT !.writes = Append(p.writes, entry)]
    BY <2>1
  <2> HIDE DEF p, entry
  <2>5. /\ Shape(handle') /\ handle'.kind = "lsm" /\ handle'.open = handle.open
        /\ handle'.disk = handle.disk /\ handle'.safe = handle.safe
        /\ handle'.buffer = Append(handle.buffer, entry) /\ handle'.writes = Append(handle.writes, entry)
    BY <1>1, <2>3, <2>4 DEF Shape, Fields
  <2>6. Append(handle.buffer, entry) \in Seq(Writes) /\ Append(handle.writes, entry) \in Seq(Writes)
    BY <1>1, <2>2
  <2>7. IsPrefix(handle.writes, Append(handle.writes, entry))
    <3> DEFINE a == handle.writes
               b == Append(a, entry)
    <3>1. a \in Seq(Writes)
      BY <1>1
    <3> HIDE DEF a
    <3>2. b \in Seq(Writes) /\ Len(a) <= Len(b) /\ \A i \in 1 .. Len(a) : a[i] = b[i]
      BY <2>2, <3>1
    <3> HIDE DEF b
    <3>3. IsPrefix(a, b)
      BY <3>1, <3>2, PrefixIs
    <3> QED BY <3>3 DEF a, b
  <2>8. handle.open => IsPrefix(found, Append(handle.writes, entry))
    BY <1>1, <1>2, <1>3, <2>6, <2>7, PrefixTransitive
  <2>9. (handle.disk \o handle.buffer) \in Seq(LogEntries)
        /\ Append(handle.disk \o handle.buffer, entry) = handle.disk \o Append(handle.buffer, entry)
    <3> DEFINE a == handle.disk
               b == handle.buffer
    <3>1. a \in Seq(LogEntries) /\ b \in Seq(LogEntries) /\ entry \in LogEntries
      BY <1>1, <1>3, <2>2, WiderSeq
    <3> HIDE DEF a, b
    <3>2. (a \o b) \in Seq(LogEntries) /\ Append(a \o b, entry) = a \o Append(b, entry)
      BY <3>1, AppendToConcat, SMTT(60)
    <3> QED BY <3>2 DEF a, b
  <2> QED BY <1>1, <1>2, <2>5, <2>6, <2>8, <2>9 DEF LsmInv, LsmTypeOK, LogKeepsSafe, found
<1>6. CASE LsmMaybeCompact
  BY <1>1, <1>4, <1>6, MaybeCompactKeeps DEF LsmMaybeCompact
<1>7. ASSUME NEW lv, LsmCompactLevel(lv) PROVE LsmInv'
  BY <1>1, <1>4, <1>7, CompactLevelKeeps DEF LsmCompactLevel
<1>8. ASSUME NEW e \in Seq(LogEntries), Shape(handle'), handle'.kind = "lsm", handle'.open = FALSE,
             handle'.disk = handle.disk \o e, handle'.buffer = <<>>, handle'.writes = handle.writes,
             \/ handle'.safe = handle.safe
             \/ handle.open /\ Torn \notin ToSet(handle.disk) /\ e = handle.buffer /\ handle'.safe = handle.writes
      PROVE  LsmInv'
  <2>1. handle.disk \o e \in Seq(LogEntries)
    BY <1>1, <1>8
  <2>2. Readable(handle.disk \o e) \in Seq(Writes)
    BY <2>1, ReadableType
  <2>3. IsPrefix(found, Readable(handle.disk \o e))
    BY <1>1, <1>8, ReadableGrows DEF found
  <2>4. IsPrefix(handle'.safe, Readable(handle.disk \o e)) /\ handle'.safe \in Seq(Writes)
    <3>1. CASE handle'.safe = handle.safe
      BY <1>1, <1>2, <1>3, <2>2, <2>3, <3>1, PrefixTransitive
    <3>2. CASE /\ handle.open /\ Torn \notin ToSet(handle.disk) /\ e = handle.buffer
               /\ handle'.safe = handle.writes
      <4>1. handle.writes = handle.disk \o e
        BY <1>2, <3>2
      <4>2. Torn \notin ToSet(handle.writes)
        <5>1. \A i \in DOMAIN handle.writes : handle.writes[i] \in Writes
          BY <1>1
        <5>2. Torn \notin Writes
          BY DEF Writes, Torn
        <5> QED BY <5>1, <5>2 DEF ToSet
      <4>3. Readable(handle.disk \o e) = handle.writes
        BY <2>1, <4>1, <4>2, ReadableAll
      <4>4. IsPrefix(handle.writes, handle.writes)
        BY <1>1, PrefixIs
      <4> QED BY <1>1, <3>2, <4>3, <4>4
    <3> QED BY <1>8, <3>1, <3>2
  <2>5. LsmTypeOK'
    <3>1. <<>> \in Seq(Writes) /\ FALSE \in BOOLEAN
      OBVIOUS
    <3> QED BY <1>1, <1>8, <2>1, <2>4, <3>1, Zenon DEF LsmTypeOK
  <2>6. LogKeepsSafe'
    BY <1>8, <2>4, Zenon DEF LogKeepsSafe
  <2> QED BY <2>5, <2>6 DEF LsmInv
<1>9. CASE LsmClose
  <2> DEFINE u == MaybeCompact(FlushDownTo(Freeze(handle), 0))
  <2>1. Shape(u) /\ OnlyTables(u, handle)
    BY <1>1, ClosingKeeps
  <2>2. /\ handle.open
        /\ handle' = [[u EXCEPT !.open = FALSE, !.disk = u.disk \o handle.buffer, !.buffer = <<>>] EXCEPT
                        !.safe = IF Torn \in ToSet(handle.disk) THEN u.safe ELSE handle.writes]
    BY <1>9 DEF LsmClose, Closed, Tree
  <2> HIDE DEF u
  <2>3. /\ Shape(handle') /\ handle'.kind = "lsm" /\ handle'.open = FALSE
        /\ handle'.disk = handle.disk \o handle.buffer /\ handle'.buffer = <<>>
        /\ handle'.writes = handle.writes
        /\ handle'.safe = IF Torn \in ToSet(handle.disk) THEN handle.safe ELSE handle.writes
    BY <1>1, <2>1, <2>2 DEF Shape, OnlyTables, Fields
  <2>4. handle.buffer \in Seq(LogEntries)
    BY <1>1, <1>3
  <2> QED BY <1>8, <2>2, <2>3, <2>4
<1>10. CASE LsmCrash
  <2>1. PICK n \in 0 .. Len(handle.buffer), torn \in BOOLEAN :
           handle' = [handle EXCEPT
             !.open = FALSE, !.buffer = <<>>,
             !.disk = handle.disk \o SubSeq(handle.buffer, 1, n)
                        \o (IF torn /\ Torn \notin ToSet(handle.disk) THEN <<Torn>> ELSE <<>>)]
    BY <1>10 DEF LsmCrash
  <2> DEFINE b == SubSeq(handle.buffer, 1, n)
             c == IF torn /\ Torn \notin ToSet(handle.disk) THEN <<Torn>> ELSE <<>>
  <2>2. b \in Seq(LogEntries)
    <3>1. b \in Seq(Writes)
      BY <1>1
    <3> HIDE DEF b
    <3> QED BY <1>3, <3>1
  <2>3. c \in Seq(LogEntries)
    <3>1. Torn \in LogEntries
      BY DEF LogEntries
    <3> QED BY <3>1
  <2>4. handle' = [handle EXCEPT !.open = FALSE, !.buffer = <<>>, !.disk = handle.disk \o b \o c]
    BY <2>1
  <2> HIDE DEF b, c
  <2>5. (b \o c) \in Seq(LogEntries) /\ (handle.disk \o b) \o c = handle.disk \o (b \o c)
    <3> DEFINE a == handle.disk
    <3>1. a \in Seq(LogEntries)
      BY <1>1
    <3> HIDE DEF a
    <3>2. (b \o c) \in Seq(LogEntries)
      BY <2>2, <2>3
    <3>3. \A x, y, z \in Seq(LogEntries) : (x \o y) \o z = x \o (y \o z)
      BY ConcatAssociative, SMTT(60)
    <3>4. (a \o b) \o c = a \o (b \o c)
      BY <2>2, <2>3, <3>1, <3>3
    <3> QED BY <3>2, <3>4 DEF a
  <2>6. /\ Shape(handle') /\ handle'.kind = "lsm" /\ handle'.open = FALSE
        /\ handle'.disk = handle.disk \o (b \o c) /\ handle'.buffer = <<>>
        /\ handle'.writes = handle.writes /\ handle'.safe = handle.safe
    BY <1>1, <2>4, <2>5 DEF Shape, Fields
  <2> QED BY <1>8, <2>5, <2>6
<1>11. CASE LsmOpen
  <2>1. handle' = Opened(handle.picker, handle.disk, found)
    BY <1>2, <1>11 DEF LsmOpen, found
  <2>2. /\ Shape(handle') /\ handle'.kind = "lsm" /\ handle'.open = TRUE
        /\ handle'.disk = handle.disk /\ handle'.buffer = <<>>
        /\ handle'.writes = found /\ handle'.safe = found
    BY <2>1, OpenedShape DEF Opened, found
  <2>3. IsPrefix(found, found)
    BY <1>3, PrefixIs
  <2>4. Torn \notin ToSet(handle.disk) => found = handle.disk \o <<>>
    BY <1>1, ReadableAll DEF found
  <2>5. LsmTypeOK'
    <3>1. <<>> \in Seq(Writes) /\ TRUE \in BOOLEAN
      OBVIOUS
    <3> QED BY <1>1, <1>3, <2>2, <3>1, Zenon DEF LsmTypeOK
  <2>6. LogKeepsSafe'
    <3>1. Readable(handle'.disk) = found
      BY <2>2 DEF found
    <3> QED BY <2>2, <2>3, <2>4, <3>1, Zenon DEF LogKeepsSafe
  <2> QED BY <2>5, <2>6 DEF LsmInv
<1>12. CASE UNCHANGED handle
  BY <1>1, <1>4, <1>12 DEF OnlyTables
<1> QED BY <1>5, <1>6, <1>7, <1>9, <1>10, <1>11, <1>12 DEF LsmNext

(* What a clean end wrote, or a start found, is in every tree that is    *)
(* opened later, whatever crashes leave of the file (lsm_close, lsm_open,*)
(* wal_recover).                                                         *)
THEOREM RestartsKeepSafeHolds == LsmInit /\ [][LsmNext]_handle => []RestartsKeepSafe
<1>1. LsmInv => RestartsKeepSafe
  <2> SUFFICES ASSUME LsmInv, handle.open PROVE IsPrefix(handle.safe, handle.writes)
    BY DEF RestartsKeepSafe, Tree
  <2>1. /\ IsPrefix(handle.safe, Readable(handle.disk))
        /\ IsPrefix(Readable(handle.disk), handle.writes)
    BY DEF LsmInv, LogKeepsSafe
  <2>2. /\ handle.safe \in Seq(Writes) /\ handle.writes \in Seq(Writes)
        /\ Readable(handle.disk) \in Seq(Writes)
    BY ReadableType DEF LsmInv, LsmTypeOK
  <2> QED BY <2>1, <2>2, PrefixTransitive
<1> QED BY <1>1, LsmInitInv, LsmNextInv, PTL

-----------------------------------------------------------------------------
(***************************************************************************)
(* The reads of the tree of mini-file-storage (LsmTree).  The tree holds   *)
(* its writes in pieces: a memtable, a frozen memtable or a table each has *)
(* the last values of the writes between two places of the log.  First     *)
(* what the two searches find, in the index and in a block, then what a    *)
(* piece tells of a key, then what the merge makes of the tables of a      *)
(* level when keys only grew, and last that every step keeps the pieces.   *)
(***************************************************************************)
(* What a list has behind its first a members, up to the b-th.             *)
Slice(s, a, b) == SubSeq(s, a + 1, b)

LEMMA SliceIs ==
    ASSUME NEW S, NEW s \in Seq(S), NEW a \in Nat, NEW b \in Nat, a <= b, b <= Len(s)
    PROVE  /\ Slice(s, a, b) \in Seq(S) /\ Len(Slice(s, a, b)) = b - a
           /\ \A i \in 1 .. b - a : Slice(s, a, b)[i] = s[a + i] /\ a + i \in 1 .. Len(s)
<1> DEFINE n == Len(s)
<1>1. n \in Nat /\ \A i \in 1 .. n : s[i] \in S
  OBVIOUS
<1> HIDE DEF n
<1>2. \A i \in a + 1 .. b : i \in 1 .. n
  BY <1>1 DEF n
<1>3. \A i \in a + 1 .. b : s[i] \in S
  BY <1>1, <1>2
<1> DEFINE u == SubSeq(s, a + 1, b)
<1>4. a + 1 \in Int /\ b \in Int
  OBVIOUS
<1>5. u \in Seq(S) /\ Len(u) = (IF a + 1 <= b THEN b - (a + 1) + 1 ELSE 0)
  BY <1>3, <1>4, SubSeqProperties
<1>6. \A i \in 1 .. b - (a + 1) + 1 : u[i] = s[(a + 1) + i - 1]
  BY <1>3, <1>4, SubSeqProperties
<1> HIDE DEF u
<1>7. Len(u) = b - a
  BY <1>5
<1>8. b - (a + 1) + 1 = b - a /\ \A i \in 1 .. b - a : (a + 1) + i - 1 = a + i
  OBVIOUS
<1>9. \A i \in 1 .. b - a : u[i] = s[a + i]
  BY <1>6, <1>8
<1>10. \A i \in 1 .. b - a : a + i \in 1 .. n
  BY <1>2
<1> QED BY <1>5, <1>7, <1>9, <1>10 DEF Slice, u, n

(* A search that halves a range of places, round by round.                 *)
Spans(lo, hi) == [lo : lo .. hi, hi : lo .. hi]

LEMMA IndexHalvedType ==
    ASSUME NEW n \in Nat, NEW keys, NEW k, NEW b \in Spans(1, n + 1)
    PROVE  IndexHalved(keys, k, b) \in Spans(1, n + 1)
<1> DEFINE mid == b.lo + ((b.hi - b.lo) \div 2)
           c == IndexHalved(keys, k, b)
<1>1. b.lo \in 1 .. n + 1 /\ b.hi \in 1 .. n + 1 /\ b = [lo |-> b.lo, hi |-> b.hi]
  BY DEF Spans
<1>2. b.lo < b.hi => mid \in b.lo .. b.hi - 1
  BY <1>1
<1>3. c = IF b.lo >= b.hi THEN b
          ELSE IF k > keys[mid] THEN [lo |-> mid + 1, hi |-> b.hi] ELSE [lo |-> b.lo, hi |-> mid]
  BY DEF IndexHalved
<1> HIDE DEF mid, c
<1>4. CASE b.lo >= b.hi
  BY <1>3, <1>4 DEF c
<1>5. CASE b.lo < b.hi
  <2>1. mid + 1 \in 1 .. n + 1 /\ mid \in 1 .. n + 1
    BY <1>1, <1>2, <1>5
  <2>2. c = [lo |-> mid + 1, hi |-> b.hi] \/ c = [lo |-> b.lo, hi |-> mid]
    BY <1>1, <1>3, <1>5
  <2>3. c \in Spans(1, n + 1)
    BY <1>1, <2>1, <2>2 DEF Spans
  <2> QED BY <2>3 DEF c
<1> QED BY <1>1, <1>4, <1>5

LEMMA IndexSteps ==
    ASSUME NEW keys, Len(keys) \in Nat, NEW k
    PROVE  \E w : /\ w[0] = [lo |-> 1, hi |-> Len(keys) + 1] /\ FirstNotBelow(keys, k) = w[Len(keys)].lo
                  /\ \A i \in 1 .. Len(keys) : w[i] = IndexHalved(keys, k, w[i - 1])
                  /\ \A i \in 0 .. Len(keys) : w[i] \in Spans(1, Len(keys) + 1)
<1> DEFINE n == Len(keys)
           S == Spans(1, n + 1)
           base == [lo |-> 1, hi |-> n + 1]
           f == [x \in S |-> IndexHalved(keys, k, x)]
           Solves(g) == g = [i \in 0 .. n |-> IF i = 0 THEN base ELSE IndexHalved(keys, k, g[i - 1])]
           w == CHOOSE g : Solves(g)
<1>1. FirstNotBelow(keys, k) = w[n].lo
  BY DEF FirstNotBelow, Iterated
<1>2. n \in Nat
  OBVIOUS
<1>3. base \in S
  BY <1>2 DEF Spans
<1>4. \A x \in S : IndexHalved(keys, k, x) \in S
  BY <1>2, IndexHalvedType
<1> HIDE DEF n, S, base
<1>5. f \in [S -> S] /\ \A x \in S : f[x] = IndexHalved(keys, k, x)
  BY <1>4
<1> HIDE DEF f
<1>6. PICK g \in [0 .. n -> S] : Repeats(g, n, base, f)
  BY <1>2, <1>3, <1>5, RepeatSolved
<1>7. \A i \in 0 .. n : g[i] = IF i = 0 THEN base ELSE IndexHalved(keys, k, g[i - 1])
  <2> TAKE i \in 0 .. n
  <2>1. i # 0 => i - 1 \in 0 .. n
    BY <1>2
  <2>2. i # 0 => g[i - 1] \in S
    BY <1>6, <2>1
  <2> QED BY <1>5, <1>6, <2>2 DEF Repeats
<1>8. Solves(g)
  <2>1. g = [i \in 0 .. n |-> g[i]]
    BY <1>6
  <2> QED BY <1>7, <2>1
<1>9. Solves(w)
  <2> HIDE DEF Solves
  <2> QED BY <1>8
<1> HIDE DEF w
<1>10. w[0] = base /\ \A i \in 1 .. n : w[i] = IndexHalved(keys, k, w[i - 1])
  BY <1>2, <1>9
<1> HIDE DEF Solves
<1> DEFINE P == {i \in 0 .. n : w[i] \in S}
<1>11. 0 \in P
  BY <1>2, <1>3, <1>10
<1>12. ASSUME NEW i \in 1 .. n, i - 1 \in P PROVE i \in P
  BY <1>2, <1>4, <1>10, <1>12
<1>13. \A i \in 0 .. n : i \in P
  <2> HIDE DEF P
  <2> QED BY <1>2, <1>11, <1>12, InductionUpTo
<1> QED BY <1>1, <1>10, <1>13 DEF n, S, base

(* Half of a distance is less than it.                                     *)
LEMMA HalfBelow ==
    ASSUME NEW d \in Nat, d # 0
    PROVE  d \div 2 \in 0 .. d - 1 /\ (d + 1) \div 2 \in 1 .. d
OBVIOUS

(* In a row of keys in order the search finds the place before which they  *)
(* are below, and from which on they are not.                              *)
LEMMA FirstNotBelowIs ==
    ASSUME NEW keys \in Seq(Int), NEW k \in Int,
           \A i, j \in 1 .. Len(keys) : i < j => keys[i] <= keys[j]
    PROVE  /\ FirstNotBelow(keys, k) \in 1 .. Len(keys) + 1
           /\ \A i \in 1 .. Len(keys) : i < FirstNotBelow(keys, k) <=> keys[i] < k
<1> DEFINE n == Len(keys)
<1>1. n \in Nat /\ \A i \in 1 .. n : keys[i] \in Int
  OBVIOUS
<1>2. PICK w : /\ w[0] = [lo |-> 1, hi |-> n + 1] /\ FirstNotBelow(keys, k) = w[n].lo
               /\ \A i \in 1 .. n : w[i] = IndexHalved(keys, k, w[i - 1])
               /\ \A i \in 0 .. n : w[i] \in Spans(1, n + 1)
  BY <1>1, IndexSteps
<1>3. \A i, j \in 1 .. n : i < j => keys[i] <= keys[j]
  OBVIOUS
<1> HIDE DEF n
<1> DEFINE Narrow(b, i) == /\ b.lo <= b.hi /\ b.hi - b.lo <= n - i
                           /\ \A j \in 1 .. n : j < b.lo => keys[j] < k
                           /\ \A j \in 1 .. n : j >= b.hi => keys[j] >= k
           P == {i \in 0 .. n : Narrow(w[i], i)}
<1>4. 0 \in P
  <2>1. w[0].lo = 1 /\ w[0].hi = n + 1 /\ 0 \in 0 .. n
    BY <1>1, <1>2
  <2>2. Narrow(w[0], 0)
    BY <1>1, <2>1
  <2> QED BY <2>1, <2>2
<1>5. ASSUME NEW i \in 1 .. n, i - 1 \in P PROVE i \in P
  <2> DEFINE b == w[i - 1]
             c == w[i]
             mid == b.lo + ((b.hi - b.lo) \div 2)
  <2>1. Narrow(b, i - 1)
    BY <1>5
  <2>2. i - 1 \in 0 .. n /\ i \in 0 .. n /\ i \in Nat
    BY <1>1
  <2>3. b.lo \in 1 .. n + 1 /\ b.hi \in 1 .. n + 1
    <3>1. b \in Spans(1, n + 1)
      BY <1>2, <2>2
    <3> HIDE DEF b
    <3> QED BY <3>1 DEF Spans
  <2>4. c = IF b.lo >= b.hi THEN b
            ELSE IF k > keys[mid] THEN [lo |-> mid + 1, hi |-> b.hi] ELSE [lo |-> b.lo, hi |-> mid]
    BY <1>2 DEF IndexHalved
  <2> HIDE DEF b, c
  <2>5. b.lo < b.hi => mid \in b.lo .. b.hi - 1
    <3>1. ASSUME b.lo < b.hi PROVE (b.hi - b.lo) \div 2 \in 0 .. b.hi - b.lo - 1
      <4>1. b.hi - b.lo \in Nat /\ b.hi - b.lo # 0
        BY <1>1, <2>3, <3>1
      <4> QED BY <4>1, HalfBelow
    <3> QED BY <1>1, <2>3, <3>1
  <2> HIDE DEF mid
  <2>6. CASE b.lo >= b.hi
    <3>1. c = b
      BY <2>4, <2>6
    <3>2. b.hi - b.lo <= n - i
      BY <1>1, <2>1, <2>2, <2>3, <2>6
    <3> QED BY <2>1, <2>2, <3>1, <3>2 DEF c
  <2>7. CASE b.lo < b.hi /\ k > keys[mid]
    <3>1. mid \in 1 .. n /\ c.lo = mid + 1 /\ c.hi = b.hi
      BY <1>1, <2>3, <2>4, <2>5, <2>7, SMTT(60)
    <3>2. \A j \in 1 .. n : j < mid + 1 => keys[j] < k
      BY <1>1, <1>3, <2>7, <3>1
    <3>3. c.lo <= c.hi /\ c.hi - c.lo <= n - i
      BY <1>1, <2>1, <2>2, <2>3, <2>5, <2>7, <3>1
    <3>4. Narrow(c, i)
      BY <2>1, <3>1, <3>2, <3>3
    <3> QED BY <2>2, <3>4 DEF c
  <2>8. CASE b.lo < b.hi /\ ~(k > keys[mid])
    <3>1. mid \in 1 .. n /\ c.lo = b.lo /\ c.hi = mid
      BY <1>1, <2>3, <2>4, <2>5, <2>8
    <3>2. \A j \in 1 .. n : j >= mid => keys[j] >= k
      BY <1>1, <1>3, <2>8, <3>1
    <3>3. c.lo <= c.hi /\ c.hi - c.lo <= n - i
      BY <1>1, <2>1, <2>2, <2>3, <2>5, <2>8, <3>1
    <3>4. Narrow(c, i)
      BY <2>1, <3>1, <3>2, <3>3
    <3> QED BY <2>2, <3>4 DEF c
  <2>9. b.lo >= b.hi \/ b.lo < b.hi
    BY <2>3
  <2> QED BY <2>6, <2>7, <2>8, <2>9
<1>6. n \in P
  <2>1. n \in 0 .. n
    BY <1>1
  <2> HIDE DEF P
  <2> QED BY <1>1, <1>4, <1>5, <2>1, InductionUpTo
<1>7. /\ w[n].lo \in 1 .. n + 1 /\ w[n].lo = w[n].hi
      /\ \A j \in 1 .. n : j < w[n].lo => keys[j] < k
      /\ \A j \in 1 .. n : j >= w[n].lo => keys[j] >= k
  <2>1. Narrow(w[n], n)
    BY <1>6
  <2>2. w[n].lo \in 1 .. n + 1 /\ w[n].hi \in 1 .. n + 1
    BY <1>1, <1>2 DEF Spans
  <2>3. w[n].lo = w[n].hi
    BY <1>1, <2>1, <2>2
  <2> QED BY <2>1, <2>2, <2>3
<1> DEFINE r == w[n].lo
<1> HIDE DEF r
<1>8. \A j \in 1 .. n : j < r <=> keys[j] < k
  BY <1>1, <1>7 DEF r
<1> QED BY <1>2, <1>7, <1>8 DEF n, r


(* Entries, and rows of them whose keys rise.                              *)
KeyVals == Int \X Nat
RisesByKey(s) == \A i, j \in 1 .. Len(s) : i < j => Key(s[i]) < Key(s[j])
HasKey(s, k) == \E i \in 1 .. Len(s) : Key(s[i]) = k

LEMMA RestartHalvedType ==
    ASSUME NEW n \in Nat, NEW block, NEW k, NEW b \in Spans(0, n)
    PROVE  RestartHalved(block, k, b) \in Spans(0, n)
<1> DEFINE mid == b.lo + ((b.hi - b.lo + 1) \div 2)
           c == RestartHalved(block, k, b)
<1>1. b.lo \in 0 .. n /\ b.hi \in 0 .. n /\ b = [lo |-> b.lo, hi |-> b.hi]
  BY DEF Spans
<1>2. b.lo < b.hi => mid \in b.lo + 1 .. b.hi
  <2>1. ASSUME b.lo < b.hi PROVE (b.hi - b.lo + 1) \div 2 \in 1 .. b.hi - b.lo
    <3>1. b.hi - b.lo \in Nat /\ b.hi - b.lo # 0
      BY <1>1, <2>1
    <3> QED BY <3>1, HalfBelow
  <2> QED BY <1>1, <2>1
<1>3. c = IF b.lo >= b.hi THEN b
          ELSE IF RestartKey(block, mid) <= k THEN [lo |-> mid, hi |-> b.hi]
                                              ELSE [lo |-> b.lo, hi |-> mid - 1]
  BY DEF RestartHalved
<1> HIDE DEF mid, c
<1>4. CASE b.lo >= b.hi
  BY <1>3, <1>4 DEF c
<1>5. CASE b.lo < b.hi
  <2>1. mid - 1 \in 0 .. n /\ mid \in 0 .. n
    BY <1>1, <1>2, <1>5
  <2>2. c = [lo |-> mid, hi |-> b.hi] \/ c = [lo |-> b.lo, hi |-> mid - 1]
    BY <1>1, <1>3, <1>5
  <2>3. c \in Spans(0, n)
    BY <1>1, <2>1, <2>2 DEF Spans
  <2> QED BY <2>3 DEF c
<1> QED BY <1>1, <1>4, <1>5

LEMMA RestartSteps ==
    ASSUME NEW block, NEW k, NEW m \in Nat, Restarts(block) = m + 1
    PROVE  \E w : /\ w[0] = [lo |-> 0, hi |-> m] /\ LastRestart(block, k) = w[m + 1].lo
                  /\ \A i \in 1 .. m + 1 : w[i] = RestartHalved(block, k, w[i - 1])
                  /\ \A i \in 0 .. m + 1 : w[i] \in Spans(0, m)
<1> DEFINE n == Restarts(block)
           S == Spans(0, m)
           base == [lo |-> 0, hi |-> n - 1]
           f == [x \in S |-> RestartHalved(block, k, x)]
           Solves(g) == g = [i \in 0 .. n |-> IF i = 0 THEN base ELSE RestartHalved(block, k, g[i - 1])]
           w == CHOOSE g : Solves(g)
<1>1. LastRestart(block, k) = w[n].lo
  BY DEF LastRestart, Iterated
<1>2. n \in Nat /\ n = m + 1
  OBVIOUS
<1> HIDE DEF n
<1>3. base \in S /\ base = [lo |-> 0, hi |-> m]
  BY <1>2 DEF Spans
<1>4. \A x \in S : RestartHalved(block, k, x) \in S
  BY RestartHalvedType
<1> HIDE DEF S, base
<1>5. f \in [S -> S] /\ \A x \in S : f[x] = RestartHalved(block, k, x)
  BY <1>4
<1> HIDE DEF f
<1>6. PICK g \in [0 .. n -> S] : Repeats(g, n, base, f)
  BY <1>2, <1>3, <1>5, RepeatSolved
<1>7. \A i \in 0 .. n : g[i] = IF i = 0 THEN base ELSE RestartHalved(block, k, g[i - 1])
  <2> TAKE i \in 0 .. n
  <2>1. i # 0 => i - 1 \in 0 .. n
    BY <1>2
  <2>2. i # 0 => g[i - 1] \in S
    BY <1>6, <2>1
  <2> QED BY <1>5, <1>6, <2>2 DEF Repeats
<1>8. Solves(g)
  <2>1. g = [i \in 0 .. n |-> g[i]]
    BY <1>6
  <2> QED BY <1>7, <2>1
<1>9. Solves(w)
  <2> HIDE DEF Solves
  <2> QED BY <1>8
<1> HIDE DEF w
<1>10. w[0] = base /\ \A i \in 1 .. n : w[i] = RestartHalved(block, k, w[i - 1])
  BY <1>2, <1>9
<1> HIDE DEF Solves
<1> DEFINE P == {i \in 0 .. n : w[i] \in S}
<1>11. 0 \in P
  BY <1>2, <1>3, <1>10
<1>12. ASSUME NEW i \in 1 .. n, i - 1 \in P PROVE i \in P
  BY <1>2, <1>4, <1>10, <1>12
<1>13. \A i \in 0 .. n : i \in P
  <2> HIDE DEF P
  <2> QED BY <1>2, <1>11, <1>12, InductionUpTo
<1> QED BY <1>1, <1>2, <1>3, <1>10, <1>13 DEF S

(* The search over the restart points finds the last one whose key is not  *)
(* above k, or the first one.                                              *)
LEMMA LastRestartIs ==
    ASSUME NEW block, NEW k \in Int, NEW m \in Nat, Restarts(block) = m + 1,
           \A i \in 0 .. m : RestartKey(block, i) \in Int,
           \A i, j \in 0 .. m : i < j => RestartKey(block, i) < RestartKey(block, j)
    PROVE  /\ LastRestart(block, k) \in 0 .. m
           /\ LastRestart(block, k) # 0 => RestartKey(block, LastRestart(block, k)) <= k
           /\ \A i \in 0 .. m : i > LastRestart(block, k) => RestartKey(block, i) > k
<1> DEFINE n == m + 1
           K(i) == RestartKey(block, i)
<1>1. /\ n \in Nat /\ n # 0 /\ \A i \in 0 .. m : K(i) \in Int
      /\ \A i, j \in 0 .. m : i < j => K(i) < K(j)
  OBVIOUS
<1>2. PICK w : /\ w[0] = [lo |-> 0, hi |-> m] /\ LastRestart(block, k) = w[n].lo
               /\ \A i \in 1 .. n : w[i] = RestartHalved(block, k, w[i - 1])
               /\ \A i \in 0 .. n : w[i] \in Spans(0, m)
  BY RestartSteps
<1>3. m = n - 1
  OBVIOUS
<1> HIDE DEF n, K
<1> DEFINE Narrow(b, i) == /\ b.lo <= b.hi /\ (b.hi - b.lo <= n - i \/ b.lo = b.hi)
                           /\ b.lo # 0 => K(b.lo) <= k
                           /\ \A j \in 0 .. m : j > b.hi => K(j) > k
           P == {i \in 0 .. n : Narrow(w[i], i)}
<1>4. 0 \in P
  <2>1. w[0].lo = 0 /\ w[0].hi = m /\ 0 \in 0 .. n
    BY <1>1, <1>2
  <2>2. Narrow(w[0], 0)
    BY <1>1, <1>3, <2>1
  <2> QED BY <2>1, <2>2
<1>5. ASSUME NEW i \in 1 .. n, i - 1 \in P PROVE i \in P
  <2> DEFINE b == w[i - 1]
             c == w[i]
             mid == b.lo + ((b.hi - b.lo + 1) \div 2)
  <2>1. Narrow(b, i - 1)
    BY <1>5
  <2>2. i - 1 \in 0 .. n /\ i \in 0 .. n /\ i \in Nat
    BY <1>1
  <2>3. b.lo \in 0 .. m /\ b.hi \in 0 .. m
    <3>1. b \in Spans(0, m)
      BY <1>2, <2>2
    <3> HIDE DEF b
    <3> QED BY <3>1 DEF Spans
  <2>4. c = IF b.lo >= b.hi THEN b
            ELSE IF K(mid) <= k THEN [lo |-> mid, hi |-> b.hi] ELSE [lo |-> b.lo, hi |-> mid - 1]
    BY <1>2 DEF RestartHalved, K
  <2> HIDE DEF b, c
  <2>5. b.lo < b.hi => mid \in b.lo + 1 .. b.hi
    <3>1. ASSUME b.lo < b.hi PROVE (b.hi - b.lo + 1) \div 2 \in 1 .. b.hi - b.lo
      <4>1. b.hi - b.lo \in Nat /\ b.hi - b.lo # 0
        BY <1>1, <2>3, <3>1
      <4> QED BY <4>1, HalfBelow
    <3> QED BY <1>1, <2>3, <3>1
  <2> HIDE DEF mid
  <2>6. CASE b.lo >= b.hi
    <3>1. c = b /\ b.lo = b.hi
      BY <1>1, <2>1, <2>3, <2>4, <2>6
    <3> QED BY <2>1, <2>2, <3>1 DEF c
  <2>7. CASE b.lo < b.hi /\ K(mid) <= k
    <3>1. mid \in 0 .. m /\ c.lo = mid /\ c.hi = b.hi
      BY <1>1, <2>3, <2>4, <2>5, <2>7
    <3>2. c.lo <= c.hi /\ c.hi - c.lo <= n - i
      BY <1>1, <2>1, <2>2, <2>3, <2>5, <2>7, <3>1
    <3>3. Narrow(c, i)
      BY <2>1, <2>7, <3>1, <3>2
    <3> QED BY <2>2, <3>3 DEF c
  <2>8. CASE b.lo < b.hi /\ ~(K(mid) <= k)
    <3>1. mid \in 0 .. m /\ c.lo = b.lo /\ c.hi = mid - 1
      BY <1>1, <2>3, <2>4, <2>5, <2>8
    <3>2. \A j \in 0 .. m : j > mid - 1 => K(j) > k
      BY <1>1, <2>8, <3>1
    <3>3. c.lo <= c.hi /\ c.hi - c.lo <= n - i
      BY <1>1, <2>1, <2>2, <2>3, <2>5, <2>8, <3>1
    <3>4. Narrow(c, i)
      BY <2>1, <3>1, <3>2, <3>3
    <3> QED BY <2>2, <3>4 DEF c
  <2>9. b.lo >= b.hi \/ b.lo < b.hi
    BY <2>3
  <2> QED BY <2>6, <2>7, <2>8, <2>9
<1>6. n \in P
  <2>1. n \in 0 .. n
    BY <1>1
  <2> HIDE DEF P
  <2> QED BY <1>1, <1>4, <1>5, <2>1, InductionUpTo
<1>7. Narrow(w[n], n)
  BY <1>6
<1>8. w[n].lo \in 0 .. m /\ w[n].hi \in 0 .. m
  <2>1. w[n] \in Spans(0, m)
    BY <1>1, <1>2
  <2> QED BY <2>1 DEF Spans
<1>9. w[n].lo = w[n].hi
  BY <1>1, <1>7, <1>8
<1>10. w[n].lo # 0 => K(w[n].lo) <= k
  BY <1>7
<1>11. \A j \in 0 .. m : j > w[n].lo => K(j) > k
  BY <1>7, <1>9
<1> QED BY <1>2, <1>8, <1>10, <1>11 DEF K

(* A block tells of each of its keys the value, and of no other.           *)
LEMMA BlockSearchIs ==
    ASSUME NEW block \in Seq(KeyVals), block # <<>>, RisesByKey(block), NEW k \in Int
    PROVE  /\ \A i \in 1 .. Len(block) : Key(block[i]) = k => BlockSearch(block, k) = Val(block[i])
           /\ ~HasKey(block, k) => BlockSearch(block, k) = Missing
<1> DEFINE n == Len(block)
           q == Restarts(block)
           m == q - 1
           R == RestartEvery
           r == LastRestart(block, k)
           end == IF r + 1 < q THEN (r + 1) * R ELSE n
           hits == {i \in r * R + 1 .. end : Key(block[i]) = k}
<1>1. n \in Nat /\ n # 0 /\ R \in Nat \ {0} /\ q = (n + R - 1) \div R
  BY TableAssumption DEF Restarts
<1>2. BlockSearch(block, k) = IF hits = {} THEN Missing ELSE Val(block[Min(hits)])
  BY DEF BlockSearch
<1>3. \A i \in 1 .. n : block[i] \in KeyVals /\ Key(block[i]) \in Int
  BY DEF KeyVals, Key
<1>4. \A i, j \in 1 .. n : i < j => Key(block[i]) < Key(block[j])
  BY DEF RisesByKey
<1>5. /\ q \in Nat
      /\ \A i \in 1 .. q : /\ (i - 1) * R \in Nat /\ i * R = (i - 1) * R + R /\ (i - 1) * R < n
      /\ \A j \in 1 .. n : \E i \in 1 .. q : (i - 1) * R < j /\ j <= i * R
  <2> HIDE DEF n, q, R
  <2> QED BY <1>1, BlockBounds
<1> HIDE DEF n, q, R, r, end, hits
<1>6. m \in Nat /\ q = m + 1
  <2>1. 1 \in 1 .. n
    BY <1>1
  <2> QED BY <1>5, <2>1
<1>7. \A i \in 0 .. m : i * R \in Nat /\ i * R < n /\ (i + 1) * R = i * R + R
  <2> TAKE i \in 0 .. m
  <2>1. i + 1 \in 1 .. q /\ (i + 1) - 1 = i
    BY <1>6
  <2> QED BY <1>5, <2>1
<1>8. \A i \in 0 .. m : RestartKey(block, i) = Key(block[i * R + 1]) /\ i * R + 1 \in 1 .. n
  BY <1>1, <1>7 DEF RestartKey, R
<1>9. \A i, j \in 0 .. m : i < j => i * R < j * R
  <2> TAKE i, j \in 0 .. m
  <2> HAVE i < j
  <2>1. i \in Nat /\ j \in Nat /\ i + 1 <= j
    BY <1>6
  <2>2. ASSUME NEW a \in Nat, NEW b \in Nat, a <= b PROVE a * R <= b * R
    BY <1>1, <2>2
  <2>3. (i + 1) * R <= j * R /\ (i + 1) * R = i * R + R /\ i * R \in Nat /\ j * R \in Nat
    BY <1>7, <2>1, <2>2
  <2> QED BY <1>1, <2>3
<1>10. /\ r \in 0 .. m
       /\ r # 0 => RestartKey(block, r) <= k
       /\ \A i \in 0 .. m : i > r => RestartKey(block, i) > k
  <2>1. \A i \in 0 .. m : RestartKey(block, i) \in Int
    BY <1>3, <1>8
  <2>2. \A i, j \in 0 .. m : i < j => RestartKey(block, i) < RestartKey(block, j)
    <3> TAKE i, j \in 0 .. m
    <3> HAVE i < j
    <3>1. i * R + 1 < j * R + 1 /\ i * R + 1 \in 1 .. n /\ j * R + 1 \in 1 .. n
      BY <1>7, <1>8, <1>9
    <3> QED BY <1>4, <1>8, <3>1
  <2> HIDE DEF m
  <2>3. Restarts(block) = m + 1
    BY <1>6 DEF q
  <2> QED BY <1>6, <2>1, <2>2, <2>3, LastRestartIs DEF r
<1> HIDE DEF m
<1>11. end \in 1 .. n /\ r * R \in Nat
  <2>1. r * R \in Nat
    BY <1>7, <1>10
  <2>2. CASE r + 1 < q
    <3>1. r + 1 \in 0 .. m /\ r \in 0 .. m
      BY <1>6, <1>10, <2>2
    <3>2. (r + 1) * R = r * R + R /\ (r + 1) * R < n
      BY <1>7, <3>1
    <3> QED BY <1>1, <2>1, <2>2, <3>2 DEF end
  <2>3. CASE ~(r + 1 < q)
    BY <1>1, <2>1, <2>3 DEF end
  <2> QED BY <2>2, <2>3
<1>12. ASSUME NEW i \in 1 .. n, Key(block[i]) = k PROVE i \in hits
  <2>1. r * R + 1 <= i
    <3>1. CASE r = 0
      <4>1. r * R = 0
        BY <1>1, <3>1
      <4> QED BY <4>1
    <3>2. CASE r # 0
      <4>1. RestartKey(block, r) = Key(block[r * R + 1]) /\ r * R + 1 \in 1 .. n
        BY <1>8, <1>10
      <4>2. Key(block[r * R + 1]) <= Key(block[i])
        BY <1>10, <1>12, <3>2, <4>1
      <4>3. ~(i < r * R + 1)
        BY <1>3, <1>4, <4>1, <4>2
      <4> QED BY <4>1, <4>3
    <3> QED BY <3>1, <3>2
  <2>2. i <= end
    <3>1. CASE r + 1 < q
      <4>1. r + 1 \in 0 .. m /\ r + 1 > r
        BY <1>6, <1>10, <3>1
      <4>2. /\ RestartKey(block, r + 1) > k
            /\ RestartKey(block, r + 1) = Key(block[(r + 1) * R + 1]) /\ (r + 1) * R + 1 \in 1 .. n
            /\ (r + 1) * R \in Nat
        BY <1>7, <1>8, <1>10, <4>1
      <4>3. ~((r + 1) * R + 1 < i) /\ (r + 1) * R + 1 # i
        BY <1>3, <1>4, <1>12, <4>2
      <4> QED BY <3>1, <4>2, <4>3 DEF end
    <3>2. CASE ~(r + 1 < q)
      BY <3>2 DEF end
    <3> QED BY <3>1, <3>2
  <2> QED BY <1>11, <1>12, <2>1, <2>2 DEF hits
<1>13. \A i \in hits : i \in 1 .. n /\ Key(block[i]) = k
  <2>1. \A i \in r * R + 1 .. end : i \in 1 .. n
    BY <1>1, <1>11
  <2> QED BY <2>1 DEF hits
<1>14. ASSUME NEW i \in 1 .. n, Key(block[i]) = k PROVE BlockSearch(block, k) = Val(block[i])
  <2>1. i \in hits
    BY <1>12, <1>14
  <2>2. hits \in SUBSET Nat
    BY <1>13
  <2>3. Min(hits) \in hits
    BY <2>1, <2>2, MinIsMember
  <2>4. Min(hits) \in 1 .. n /\ Key(block[Min(hits)]) = k
    BY <1>13, <2>3
  <2> DEFINE h == Min(hits)
  <2> HIDE DEF h
  <2>5. ~(i < h) /\ ~(h < i)
    BY <1>3, <1>4, <1>14, <2>4 DEF h
  <2>6. h = i
    BY <2>4, <2>5 DEF h
  <2> QED BY <1>2, <2>1, <2>6 DEF h
<1>15. ASSUME ~HasKey(block, k) PROVE BlockSearch(block, k) = Missing
  <2>1. hits = {}
    BY <1>13, <1>15 DEF HasKey, n
  <2> QED BY <1>2, <2>1
<1> QED BY <1>14, <1>15 DEF n

(* The smaller of two numbers.                                             *)
LEMMA MinOfTwo ==
    ASSUME NEW a \in Nat, NEW b \in Nat
    PROVE  Min({a, b}) = IF a <= b THEN a ELSE b
<1>1. Min({a, b}) \in {a, b} /\ \A x \in {a, b} : Min({a, b}) <= x
  <2>1. {a, b} \in SUBSET Nat /\ {a, b} # {}
    OBVIOUS
  <2> QED BY <2>1, MinIsMember
<1> QED BY <1>1

(* The table of a row of entries: block by block, with the last key of each. *)
TableFor(es) == ReadTable(WriteTable(es))
EndOfBlock(es, b) == IF b * BlockEntries <= Len(es) THEN b * BlockEntries ELSE Len(es)
BlockOf(es, b) == SubSeq(es, (b - 1) * BlockEntries + 1, EndOfBlock(es, b))
BlockCount(es) == (Len(es) + BlockEntries - 1) \div BlockEntries

LEMMA BlockOfIs ==
    ASSUME NEW es \in Seq(KeyVals), RisesByKey(es), NEW b \in 1 .. BlockCount(es)
    PROVE  /\ (b - 1) * BlockEntries \in Nat /\ EndOfBlock(es, b) \in 1 .. Len(es)
           /\ (b - 1) * BlockEntries < EndOfBlock(es, b)
           /\ b * BlockEntries = (b - 1) * BlockEntries + BlockEntries
           /\ BlockOf(es, b) \in Seq(KeyVals) /\ BlockOf(es, b) # <<>> /\ RisesByKey(BlockOf(es, b))
           /\ Len(BlockOf(es, b)) = EndOfBlock(es, b) - (b - 1) * BlockEntries
           /\ \A j \in 1 .. Len(BlockOf(es, b)) :
                 /\ (b - 1) * BlockEntries + j \in 1 .. Len(es)
                 /\ BlockOf(es, b)[j] = es[(b - 1) * BlockEntries + j]
<1> DEFINE n == Len(es)
           B == BlockEntries
           q == BlockCount(es)
           e == EndOfBlock(es, b)
           lo == (b - 1) * B
           s == BlockOf(es, b)
<1>1. n \in Nat /\ B \in Nat \ {0} /\ q = (n + B - 1) \div B /\ DOMAIN es = 1 .. n
  BY TableAssumption DEF BlockCount
<1>2. /\ q \in Nat
      /\ \A i \in 1 .. q : (i - 1) * B \in Nat /\ i * B = (i - 1) * B + B /\ (i - 1) * B < n
  <2> HIDE DEF n, B, q
  <2> QED BY <1>1, BlockBounds
<1> HIDE DEF n, B, q
<1>3. b \in 1 .. q
  BY DEF q
<1>4. lo \in Nat /\ b * B = lo + B /\ lo < n
  BY <1>2, <1>3
<1>5. e = IF b * B <= n THEN b * B ELSE n
  BY DEF EndOfBlock, n, B
<1> HIDE DEF lo, e
<1>6. e \in 1 .. n /\ lo < e
  BY <1>1, <1>4, <1>5
<1>7. s = SubSeq(es, lo + 1, e)
  BY DEF BlockOf, lo, e, B
<1> HIDE DEF s
<1>8. \A i \in 1 .. n : es[i] \in KeyVals
  BY DEF n
<1>9. /\ s \in Seq(KeyVals) /\ Len(s) = e - lo
      /\ \A j \in 1 .. e - lo : s[j] = es[lo + j] /\ lo + j \in 1 .. n
  <2>1. s = Slice(es, lo, e) /\ lo <= e /\ e <= Len(es) /\ e \in Nat
    BY <1>1, <1>4, <1>6, <1>7 DEF Slice, n
  <2> QED BY <1>4, <2>1, SliceIs DEF n
<1>10. RisesByKey(s)
  <2> SUFFICES ASSUME NEW i \in 1 .. Len(s), NEW j \in 1 .. Len(s), i < j PROVE Key(s[i]) < Key(s[j])
    BY DEF RisesByKey
  <2>1. s[i] = es[lo + i] /\ s[j] = es[lo + j] /\ lo + i \in 1 .. n /\ lo + j \in 1 .. n
    BY <1>9
  <2>2. lo + i < lo + j
    BY <1>4
  <2> QED BY <2>1, <2>2 DEF RisesByKey, n
<1>11. s # <<>>
  BY <1>4, <1>6, <1>9
<1> QED BY <1>4, <1>6, <1>9, <1>10, <1>11 DEF n, B, lo, e, s

LEMMA TableForIs ==
    ASSUME NEW es \in Seq(KeyVals), es # <<>>, RisesByKey(es)
    PROVE  /\ BlockCount(es) \in Nat \ {0}
           /\ TableFor(es).blocks = [b \in 1 .. BlockCount(es) |-> BlockOf(es, b)]
           /\ TableFor(es).index \in Seq(Int) /\ Len(TableFor(es).index) = BlockCount(es)
           /\ \A b \in 1 .. BlockCount(es) : TableFor(es).index[b] = Key(es[EndOfBlock(es, b)])
           /\ TableFor(es).bloom = UNION {BloomOf[Key(e)] : e \in ToSet(es)}
           /\ \A j \in 1 .. Len(es) : \E b \in 1 .. BlockCount(es) :
                 (b - 1) * BlockEntries < j /\ j <= EndOfBlock(es, b)
<1> DEFINE n == Len(es)
           B == BlockEntries
           q == BlockCount(es)
           blocks == [b \in 1 .. q |-> BlockOf(es, b)]
           index == [b \in 1 .. q |-> Key(es[EndOfBlock(es, b)])]
           bloom == UNION {BloomOf[Key(e)] : e \in ToSet(es)}
           t == [blocks |-> blocks, index |-> index, bloom |-> bloom]
<1>1. n \in Nat /\ n # 0 /\ B \in Nat \ {0} /\ q = (n + B - 1) \div B
  BY TableAssumption DEF BlockCount
<1>2. /\ q \in Nat
      /\ \A i \in 1 .. q : (i - 1) * B \in Nat /\ i * B = (i - 1) * B + B /\ (i - 1) * B < n
      /\ \A j \in 1 .. n : \E i \in 1 .. q : (i - 1) * B < j /\ j <= i * B
  <2> HIDE DEF n, B, q
  <2> QED BY <1>1, BlockBounds
<1>3. q # 0
  <2> HIDE DEF n, q, B
  <2>1. 1 \in 1 .. n
    BY <1>1
  <2> QED BY <1>2, <2>1
<1>4. Blocks(es) = blocks
  <2>1. Blocks(es) = [b \in 1 .. q |-> SubSeq(es, (b - 1) * BlockEntries + 1, Min({b * BlockEntries, Len(es)}))]
    BY DEF Blocks, BlockCount
  <2>2. ASSUME NEW b \in 1 .. q PROVE Min({b * BlockEntries, Len(es)}) = EndOfBlock(es, b)
    <3> DEFINE x == b * BlockEntries
    <3>1. x \in Nat /\ n \in Nat
      <4> HIDE DEF n, q
      <4> QED BY <1>1, <1>2, <2>2 DEF B
    <3> HIDE DEF x, n
    <3>2. Min({x, n}) = IF x <= n THEN x ELSE n
      BY <3>1, MinOfTwo
    <3> QED BY <3>2 DEF EndOfBlock, x, n
  <2> HIDE DEF q
  <2> QED BY <2>1, <2>2 DEF BlockOf
<1>5. \A b \in 1 .. q : EndOfBlock(es, b) \in 1 .. n /\ Key(Last(blocks[b])) = Key(es[EndOfBlock(es, b)])
  <2> TAKE b \in 1 .. q
  <2> DEFINE s == BlockOf(es, b)
             lo == (b - 1) * BlockEntries
             e == EndOfBlock(es, b)
  <2>1. /\ e \in 1 .. n /\ lo \in Nat /\ lo < e /\ s \in Seq(KeyVals) /\ Len(s) = e - lo
        /\ \A j \in 1 .. Len(s) : s[j] = es[lo + j]
    BY BlockOfIs
  <2>2. blocks[b] = s
    OBVIOUS
  <2> HIDE DEF s, lo, e, blocks
  <2>3. s[Len(s)] = es[e]
    <3>1. Len(s) \in 1 .. Len(s) /\ lo + (e - lo) = e
      BY <1>1, <2>1
    <3> QED BY <2>1, <3>1
  <2> QED BY <2>1, <2>2, <2>3 DEF Last, e
<1>6. TableFor(es) = t
  <2> HIDE DEF q
  <2>1. DOMAIN blocks = 1 .. q
    OBVIOUS
  <2>2. WriteTable(es) = [blocks |-> blocks, index |-> [b \in DOMAIN blocks |-> Key(Last(blocks[b]))],
                          bloom |-> bloom]
    BY <1>4 DEF WriteTable
  <2>3. [b \in DOMAIN blocks |-> Key(Last(blocks[b]))] = index
    <3> HIDE DEF blocks
    <3> QED BY <1>5, <2>1
  <2>4. DOMAIN index = 1 .. q /\ blocks = [b \in 1 .. q |-> blocks[b]]
    OBVIOUS
  <2> HIDE DEF blocks, index, bloom
  <2> DEFINE u == WriteTable(es)
  <2>5. u = [blocks |-> blocks, index |-> index, bloom |-> bloom]
    BY <2>2, <2>3
  <2> HIDE DEF u
  <2>6. u.index = index /\ u.blocks = blocks
    BY <2>5
  <2>7. [b \in DOMAIN u.index |-> u.blocks[b]] = blocks
    BY <2>4, <2>6
  <2>8. ReadTable(u) = [u EXCEPT !.blocks = blocks]
    BY <2>7 DEF ReadTable
  <2>9. [u EXCEPT !.blocks = blocks] = u
    BY <2>5
  <2> QED BY <2>5, <2>8, <2>9 DEF TableFor, u
<1>7. index \in Seq(Int) /\ Len(index) = q
  <2>1. \A b \in 1 .. q : Key(es[EndOfBlock(es, b)]) \in Int
    <3> TAKE b \in 1 .. q
    <3> DEFINE e == EndOfBlock(es, b)
    <3>1. e \in 1 .. n
      BY <1>5
    <3> HIDE DEF e
    <3>2. es[e] \in KeyVals
      BY <3>1
    <3> QED BY <3>2 DEF KeyVals, Key, e
  <2> HIDE DEF q
  <2> QED BY <1>2, <2>1
<1>8. ASSUME NEW j \in 1 .. n PROVE \E b \in 1 .. q : (b - 1) * B < j /\ j <= EndOfBlock(es, b)
  <2> HIDE DEF q
  <2>1. PICK b \in 1 .. q : (b - 1) * B < j /\ j <= b * B
    BY <1>2
  <2>2. j <= EndOfBlock(es, b)
    BY <2>1 DEF EndOfBlock
  <2> QED BY <2>1, <2>2
<1>9. t.blocks = blocks /\ t.index = index /\ t.bloom = bloom /\ \A b \in 1 .. q : index[b] = Key(es[EndOfBlock(es, b)])
  OBVIOUS
<1> HIDE DEF t, index, bloom
<1> QED BY <1>2, <1>3, <1>6, <1>7, <1>8, <1>9 DEF bloom

(* A block ends before the ones behind it begin.                           *)
LEMMA BlocksFollow ==
    ASSUME NEW es \in Seq(KeyVals), RisesByKey(es),
           NEW b \in 1 .. BlockCount(es), NEW c \in 1 .. BlockCount(es), b < c
    PROVE  EndOfBlock(es, b) <= (c - 1) * BlockEntries /\ EndOfBlock(es, b) < EndOfBlock(es, c)
<1> DEFINE B == BlockEntries
           d == c - 1
           e == EndOfBlock(es, b)
           f == EndOfBlock(es, c)
<1>1. B \in Nat /\ Len(es) \in Nat
  BY TableAssumption
<1>2. b \in Nat /\ d \in Nat /\ b <= d
  OBVIOUS
<1>3. b * B \in Nat /\ d * B \in Nat /\ b * B <= d * B
  <2> HIDE DEF d, B
  <2>1. ASSUME NEW x \in Nat, NEW y \in Nat, x <= y PROVE x * B \in Nat /\ y * B \in Nat /\ x * B <= y * B
    BY <1>1, <2>1
  <2> QED BY <1>2, <2>1
<1>4. e \in Nat /\ f \in Nat /\ d * B < f
  BY BlockOfIs
<1>5. e = IF b * B <= Len(es) THEN b * B ELSE Len(es)
  BY DEF EndOfBlock
<1> HIDE DEF d, e, f, B
<1>6. e <= b * B
  BY <1>1, <1>3, <1>5
<1>7. e <= d * B /\ e < f
  BY <1>3, <1>4, <1>6
<1> QED BY <1>7 DEF d, e, f, B

(* A table tells of each of its keys the value, and of no other.           *)
LEMMA TableGetIs ==
    ASSUME NEW es \in Seq(KeyVals), es # <<>>, RisesByKey(es), NEW k \in Int
    PROVE  /\ \A i \in 1 .. Len(es) : Key(es[i]) = k => TableGet(TableFor(es), k) = Val(es[i])
           /\ ~HasKey(es, k) => TableGet(TableFor(es), k) = Missing
<1> DEFINE n == Len(es)
           q == BlockCount(es)
           t == TableFor(es)
           lo == FirstNotBelow(t.index, k)
           b == Min({lo, q})
           s == BlockOf(es, b)
<1>1. /\ q \in Nat \ {0} /\ t.blocks = [c \in 1 .. q |-> BlockOf(es, c)]
      /\ t.index \in Seq(Int) /\ Len(t.index) = q
      /\ \A c \in 1 .. q : t.index[c] = Key(es[EndOfBlock(es, c)])
      /\ t.bloom = UNION {BloomOf[Key(e)] : e \in ToSet(es)}
      /\ \A j \in 1 .. n : \E c \in 1 .. q : (c - 1) * BlockEntries < j /\ j <= EndOfBlock(es, c)
  BY TableForIs
<1>2. /\ n \in Nat /\ DOMAIN es = 1 .. n /\ \A i \in 1 .. n : Key(es[i]) \in Int
      /\ \A i, j \in 1 .. n : i < j => Key(es[i]) < Key(es[j])
  BY DEF KeyVals, Key, RisesByKey
<1> HIDE DEF t
<1>3. TableGet(t, k) = IF MaybeContains(t.bloom, k) THEN BlockSearch(t.blocks[b], k) ELSE Missing
  BY <1>1 DEF TableGet
<1>4. \A c \in 1 .. q : EndOfBlock(es, c) \in 1 .. n
  BY BlockOfIs
<1>5. \A c, d \in 1 .. q : c < d => t.index[c] <= t.index[d]
  <2> TAKE c, d \in 1 .. q
  <2> HAVE c < d
  <2>1. EndOfBlock(es, c) < EndOfBlock(es, d)
    BY BlocksFollow
  <2>2. Key(es[EndOfBlock(es, c)]) < Key(es[EndOfBlock(es, d)])
    BY <1>2, <1>4, <2>1
  <2>3. Key(es[EndOfBlock(es, c)]) \in Int /\ Key(es[EndOfBlock(es, d)]) \in Int
    BY <1>2, <1>4
  <2> QED BY <1>1, <2>2, <2>3
<1>6. lo \in 1 .. q + 1 /\ \A c \in 1 .. q : c < lo <=> t.index[c] < k
  <2> HIDE DEF q
  <2> QED BY <1>1, <1>5, FirstNotBelowIs
<1> HIDE DEF lo
<1>7. b \in 1 .. q /\ b = IF lo <= q THEN lo ELSE q
  <2> HIDE DEF q
  <2>1. lo \in Nat /\ q \in Nat
    BY <1>1, <1>6
  <2>2. b = IF lo <= q THEN lo ELSE q
    BY <2>1, MinOfTwo
  <2> HIDE DEF b
  <2> QED BY <1>1, <1>6, <2>1, <2>2
<1> HIDE DEF b
<1>8. /\ s \in Seq(KeyVals) /\ s # <<>> /\ RisesByKey(s)
      /\ Len(s) = EndOfBlock(es, b) - (b - 1) * BlockEntries
      /\ \A j \in 1 .. Len(s) : /\ (b - 1) * BlockEntries + j \in 1 .. n
                                /\ s[j] = es[(b - 1) * BlockEntries + j]
      /\ (b - 1) * BlockEntries \in Nat
  BY <1>7, BlockOfIs
<1>9. t.blocks[b] = s
  BY <1>1, <1>7
<1>10. ASSUME ~HasKey(es, k) PROVE TableGet(t, k) = Missing
  <2>1. ~HasKey(s, k)
    <3> HIDE DEF s
    <3> QED BY <1>8, <1>10 DEF HasKey
  <2>2. BlockSearch(s, k) = Missing
    <3> HIDE DEF s
    <3> QED BY <1>8, <2>1, BlockSearchIs
  <2> QED BY <1>3, <1>9, <2>2
<1>11. ASSUME NEW i \in 1 .. n, Key(es[i]) = k PROVE TableGet(t, k) = Val(es[i])
  <2>1. MaybeContains(t.bloom, k)
    <3>1. es[i] \in ToSet(es)
      BY <1>2 DEF ToSet
    <3> QED BY <1>1, <1>11, <3>1 DEF MaybeContains
  <2>2. PICK c \in 1 .. q : (c - 1) * BlockEntries < i /\ i <= EndOfBlock(es, c)
    BY <1>1
  <2>3. ~(t.index[c] < k)
    <3> DEFINE e == EndOfBlock(es, c)
    <3>1. e \in 1 .. n /\ i <= e /\ t.index[c] = Key(es[e])
      BY <1>1, <1>4, <2>2
    <3> HIDE DEF e
    <3>2. i = e \/ i < e
      BY <3>1
    <3>3. Key(es[e]) \in Int /\ Key(es[i]) \in Int
      BY <1>2, <3>1
    <3>4. i < e => Key(es[i]) < Key(es[e])
      BY <1>2, <3>1
    <3> QED BY <1>11, <3>1, <3>2, <3>3, <3>4
  <2>4. ASSUME NEW d \in 1 .. q, d < c PROVE t.index[d] < k
    <3> DEFINE e == EndOfBlock(es, d)
    <3>1. e <= (c - 1) * BlockEntries /\ e \in 1 .. n /\ t.index[d] = Key(es[e])
      BY <1>1, <1>4, <2>4, BlocksFollow
    <3>2. (c - 1) * BlockEntries \in Nat
      BY BlockOfIs
    <3> HIDE DEF e
    <3> DEFINE x == (c - 1) * BlockEntries
    <3>3. x \in Nat /\ e <= x /\ x < i
      BY <2>2, <3>1, <3>2
    <3> HIDE DEF x
    <3>4. e < i
      BY <3>1, <3>3
    <3> QED BY <1>2, <1>11, <3>1, <3>4
  <2>5. lo = c
    <3> HIDE DEF q
    <3>1. ~(c < lo)
      BY <1>6, <2>3
    <3>2. ~(lo < c)
      <4> SUFFICES ASSUME lo < c PROVE FALSE
        OBVIOUS
      <4>1. lo \in 1 .. q
        BY <1>1, <1>6
      <4>2. lo < lo
        BY <1>6, <2>4, <4>1
      <4> QED BY <1>6, <4>2
    <3> QED BY <1>1, <1>6, <3>1, <3>2
  <2>6. b = c
    BY <1>7, <2>5
  <2> DEFINE x == (b - 1) * BlockEntries
             j == i - x
  <2>7. j \in 1 .. Len(s) /\ x + j = i
    <3>1. x \in Nat /\ x < i /\ i <= EndOfBlock(es, b) /\ EndOfBlock(es, b) \in Nat
      BY <1>4, <1>7, <1>8, <2>2, <2>6
    <3>2. Len(s) = EndOfBlock(es, b) - x
      BY <1>8
    <3> HIDE DEF x, s
    <3> QED BY <3>1, <3>2
  <2>8. s[j] = es[i]
    BY <1>8, <2>7
  <2> HIDE DEF s, j
  <2>9. BlockSearch(s, k) = Val(s[j])
    BY <1>8, <1>11, <2>7, <2>8, BlockSearchIs
  <2> QED BY <1>3, <1>9, <2>1, <2>8, <2>9
<1> QED BY <1>10, <1>11 DEF t, n


(* Memtables, and what replaying a log step by step makes of them.         *)
Mems == UNION {[D -> Nat] : D \in SUBSET Int}

LEMMA InsertIs ==
    ASSUME NEW m \in Mems, NEW k \in Int, NEW v \in Nat
    PROVE  Insert(m, k, v) \in Mems /\ DOMAIN m \in SUBSET Int
<1>1. PICK D \in SUBSET Int : m \in [D -> Nat]
  BY DEF Mems
<1>2. DOMAIN m = D /\ D \cup {k} \in SUBSET Int
  BY <1>1
<1>3. Insert(m, k, v) \in [D \cup {k} -> Nat]
  BY <1>1, <1>2 DEF Insert
<1> QED BY <1>2, <1>3 DEF Mems

LEMMA NothingIs == Nothing \in Mems /\ DOMAIN Nothing = {}
<1>1. Nothing \in [{} -> Nat] /\ {} \in SUBSET Int
  BY DEF Nothing
<1> QED BY <1>1 DEF Mems, Nothing

LEMMA ReplaySteps ==
    ASSUME NEW s \in Seq(KeyVals)
    PROVE  \E g : /\ g[0] = Nothing /\ g \in [0 .. Len(s) -> Mems] /\ Replay(s) = g[Len(s)]
                  /\ \A i \in 1 .. Len(s) : g[i] = Insert(g[i - 1], Key(s[i]), Val(s[i]))
<1> DEFINE n == Len(s)
           f == [p \in (1 .. n) \X Mems |-> Insert(p[2], Key(s[p[1]]), Val(s[p[1]]))]
           Step(g, d) == IF d = {} THEN Nothing
                         ELSE Insert(g[d \ {Max(d)}], Key(s[Max(d)]), Val(s[Max(d)]))
           Solves(g, d) == g = [e \in SUBSET d |-> Step(g, e)]
           iter == CHOOSE g : Solves(g, DOMAIN s)
<1>1. Replay(s) = iter[DOMAIN s]
  BY DEF Replay, FoldLeft, MapThenFoldSet
<1>2. DOMAIN s = 1 .. n /\ n \in Nat /\ \A i \in 1 .. n : Key(s[i]) \in Int /\ Val(s[i]) \in Nat
  BY DEF KeyVals, Key, Val
<1>3. \A i \in 1 .. n, x \in Mems : f[<<i, x>>] = Insert(x, Key(s[i]), Val(s[i]))
  OBVIOUS
<1>4. StaysIn(n, Mems, f)
  <2> HIDE DEF f, n
  <2> QED BY <1>2, <1>3, InsertIs DEF StaysIn
<1> HIDE DEF f, n
<1>5. PICK h : Folds(h, n, Mems, Nothing, f)
  BY <1>2, <1>4, NothingIs, FoldSolved
<1>6. \A d \in SUBSET (1 .. n) : h[d] = Step(h, d)
  <2> TAKE d \in SUBSET (1 .. n)
  <2>1. CASE d = {}
    BY <1>5, <2>1 DEF Folds
  <2>2. CASE d # {}
    <3>1. Max(d) \in 1 .. n
      <4>1. d \in SUBSET (0 .. n)
        OBVIOUS
      <4> QED BY <1>2, <2>2, <4>1, MaxIsMember
    <3>2. d \ {Max(d)} \in SUBSET (1 .. n)
      OBVIOUS
    <3>3. h[d \ {Max(d)}] \in Mems /\ h[d] = f[<<Max(d), h[d \ {Max(d)}]>>]
      BY <1>5, <2>2, <3>2 DEF Folds
    <3> QED BY <1>3, <2>2, <3>1, <3>3
  <2> QED BY <2>1, <2>2
<1>7. Solves(iter, 1 .. n)
  <2>1. h = [d \in SUBSET (1 .. n) |-> h[d]]
    BY <1>5 DEF Folds
  <2>2. Solves(h, 1 .. n)
    <3> HIDE DEF Step
    <3> QED BY <1>6, <2>1
  <2> HIDE DEF Solves
  <2> QED BY <1>2, <2>2
<1> HIDE DEF iter
<1>8. \A d \in SUBSET (1 .. n) : iter[d] = Step(iter, d)
  <2> HIDE DEF Step
  <2> QED BY <1>7
<1> DEFINE g == [i \in 0 .. n |-> iter[1 .. i]]
<1>9. g[0] = Nothing
  <2>1. 1 .. 0 = {} /\ {} \in SUBSET (1 .. n) /\ 0 \in 0 .. n
    BY <1>2
  <2>2. iter[{}] = Nothing
    BY <1>8, <2>1
  <2>3. g[0] = iter[1 .. 0]
    BY <2>1
  <2> HIDE DEF g
  <2> QED BY <2>1, <2>2, <2>3
<1>10. ASSUME NEW i \in 1 .. n PROVE g[i] = Insert(g[i - 1], Key(s[i]), Val(s[i]))
  <2>1. i \in 0 .. n /\ i - 1 \in 0 .. n /\ i \in Nat /\ 1 .. i \in SUBSET (1 .. n) /\ i \in 1 .. i
    BY <1>2
  <2>2. Max(1 .. i) = i
    BY <2>1, MaxOfTop
  <2>3. (1 .. i) \ {i} = 1 .. i - 1
    BY <2>1
  <2>4. iter[1 .. i] = Insert(iter[1 .. i - 1], Key(s[i]), Val(s[i]))
    BY <1>8, <2>1, <2>2, <2>3
  <2>5. g[i] = iter[1 .. i] /\ g[i - 1] = iter[1 .. i - 1]
    BY <2>1
  <2> HIDE DEF g
  <2> QED BY <2>4, <2>5
<1>11. g[n] = iter[1 .. n] /\ DOMAIN g = 0 .. n /\ g = [i \in 0 .. n |-> g[i]]
  BY <1>2
<1> HIDE DEF g, Solves, Step
<1>12. \A i \in 0 .. n : g[i] \in Mems
  <2> DEFINE P == {i \in 0 .. n : g[i] \in Mems}
  <2>1. 0 \in P
    BY <1>2, <1>9, NothingIs
  <2>2. ASSUME NEW i \in 1 .. n, i - 1 \in P PROVE i \in P
    <3>1. i \in 0 .. n /\ g[i - 1] \in Mems
      BY <1>2, <2>2
    <3>2. g[i] \in Mems
      BY <1>2, <1>10, <3>1, InsertIs
    <3> QED BY <3>1, <3>2
  <2> HIDE DEF P
  <2>3. \A i \in 0 .. n : i \in P
    BY <1>2, <2>1, <2>2, InductionUpTo
  <2> QED BY <2>3 DEF P
<1>13. Replay(s) = g[n]
  BY <1>1, <1>2, <1>11
<1>14. g \in [0 .. n -> Mems]
  BY <1>11, <1>12
<1> QED BY <1>9, <1>10, <1>13, <1>14 DEF n

(* The places behind a, up to b, where a key stands, and what the last of  *)
(* them tells.                                                             *)
Places(ws, a, b, k) == {i \in a + 1 .. b : Key(ws[i]) = k}
Tell(ws, a, b, k) == IF Places(ws, a, b, k) = {} THEN Missing ELSE Val(ws[Max(Places(ws, a, b, k))])

LEMMA TellIs ==
    ASSUME NEW ws, NEW a \in Nat, NEW b \in Nat, NEW k
    PROVE  /\ Tell(ws, a, b, k) = Missing \/ \E i \in a + 1 .. b : Key(ws[i]) = k /\ Tell(ws, a, b, k) = Val(ws[i])
           /\ \A i \in a + 1 .. b :
                 Key(ws[i]) = k /\ (\A j \in i + 1 .. b : Key(ws[j]) # k) => Tell(ws, a, b, k) = Val(ws[i])
           /\ (\A i \in a + 1 .. b : Key(ws[i]) # k) => Tell(ws, a, b, k) = Missing
<1> DEFINE P == Places(ws, a, b, k)
<1>1. P = {i \in a + 1 .. b : Key(ws[i]) = k} /\ P \in SUBSET (0 .. b)
  BY DEF Places
<1>2. Tell(ws, a, b, k) = IF P = {} THEN Missing ELSE Val(ws[Max(P)])
  BY DEF Tell
<1> HIDE DEF P
<1>3. ASSUME P # {} PROVE Max(P) \in P /\ \A i \in P : i <= Max(P)
  BY <1>1, <1>3, MaxIsMember
<1>4. ASSUME NEW i \in a + 1 .. b, Key(ws[i]) = k, \A j \in i + 1 .. b : Key(ws[j]) # k
      PROVE  Tell(ws, a, b, k) = Val(ws[i])
  <2>1. i \in P
    BY <1>1, <1>4
  <2>2. Max(P) \in P /\ i <= Max(P)
    BY <1>3, <2>1
  <2> DEFINE m == Max(P)
  <2>3. m \in a + 1 .. b /\ Key(ws[m]) = k /\ i <= m
    BY <1>1, <2>2
  <2> HIDE DEF m
  <2>4. ~(m \in i + 1 .. b)
    BY <1>4, <2>3
  <2>5. m = i
    BY <2>3, <2>4
  <2> QED BY <1>2, <2>1, <2>5 DEF m
<1>5. (\A i \in a + 1 .. b : Key(ws[i]) # k) => P = {}
  BY <1>1
<1>6. P # {} => Max(P) \in a + 1 .. b /\ Key(ws[Max(P)]) = k
  BY <1>1, <1>3
<1> QED BY <1>2, <1>4, <1>5, <1>6


LEMMA LastPlace ==
    ASSUME NEW ws, NEW a \in Nat, NEW b \in Nat, NEW k, \E i \in a + 1 .. b : Key(ws[i]) = k
    PROVE  \E i \in a + 1 .. b : /\ Key(ws[i]) = k /\ \A j \in i + 1 .. b : Key(ws[j]) # k
                                 /\ Tell(ws, a, b, k) = Val(ws[i])
<1> DEFINE P == {i \in a + 1 .. b : Key(ws[i]) = k}
<1>1. P # {} /\ P \in SUBSET (0 .. b)
  OBVIOUS
<1>2. Max(P) \in P /\ \A i \in P : i <= Max(P)
  <2> HIDE DEF P
  <2> QED BY <1>1, MaxIsMember
<1> DEFINE m == Max(P)
<1>3. m \in a + 1 .. b /\ Key(ws[m]) = k
  BY <1>2
<1>4. \A i \in P : i <= m
  BY <1>2
<1> HIDE DEF m
<1>5. \A j \in m + 1 .. b : Key(ws[j]) # k
  <2> TAKE j \in m + 1 .. b
  <2>1. j \in a + 1 .. b /\ ~(j <= m)
    BY <1>3
  <2> QED BY <1>4, <2>1
<1>6. Tell(ws, a, b, k) = Val(ws[m])
  BY <1>3, <1>5, TellIs
<1> QED BY <1>3, <1>5, <1>6

(* Lists that agree at some places tell the same there.                    *)
Agree(ws, a, b, xs, c, d) == b - a = d - c /\ \A i \in 1 .. b - a : ws[a + i] = xs[c + i]

LEMMA TellAgrees ==
    ASSUME NEW ws, NEW a \in Nat, NEW b \in Nat, NEW xs, NEW c \in Nat, NEW d \in Nat, NEW k,
           Agree(ws, a, b, xs, c, d)
    PROVE  Tell(ws, a, b, k) = Tell(xs, c, d, k)
<1>0. b - a = d - c /\ \A i \in 1 .. b - a : ws[a + i] = xs[c + i]
  BY DEF Agree
<1>1. \A i \in a + 1 .. b : i - a \in 1 .. b - a /\ a + (i - a) = i /\ c + (i - a) \in c + 1 .. d
  BY <1>0
<1>2. \A i \in a + 1 .. b : ws[i] = xs[c + (i - a)]
  BY <1>0, <1>1
<1>3. CASE \E i \in a + 1 .. b : Key(ws[i]) = k
  <2>1. PICK i \in a + 1 .. b : /\ Key(ws[i]) = k /\ \A j \in i + 1 .. b : Key(ws[j]) # k
                                /\ Tell(ws, a, b, k) = Val(ws[i])
    BY <1>3, LastPlace
  <2> DEFINE m == c + (i - a)
  <2>2. m \in c + 1 .. d /\ xs[m] = ws[i]
    BY <1>1, <1>2
  <2>3. \A j \in m + 1 .. d : Key(xs[j]) # k
    <3> TAKE j \in m + 1 .. d
    <3>1. a + (j - c) \in i + 1 .. b /\ j - c \in 1 .. b - a /\ c + (j - c) = j
      BY <1>0
    <3>2. ws[a + (j - c)] = xs[j]
      BY <1>0, <3>1
    <3> QED BY <2>1, <3>1, <3>2
  <2> HIDE DEF m
  <2>4. Tell(xs, c, d, k) = Val(xs[m])
    BY <2>1, <2>2, <2>3, TellIs
  <2> QED BY <2>1, <2>2, <2>4
<1>4. CASE ~(\E i \in a + 1 .. b : Key(ws[i]) = k)
  <2>1. \A j \in c + 1 .. d : Key(xs[j]) # k
    <3> TAKE j \in c + 1 .. d
    <3>1. a + (j - c) \in a + 1 .. b /\ j - c \in 1 .. b - a /\ c + (j - c) = j
      BY <1>0
    <3>2. ws[a + (j - c)] = xs[j]
      BY <1>0, <3>1
    <3> QED BY <1>4, <3>1, <3>2
  <2>2. Tell(xs, c, d, k) = Missing
    <3>1. Places(xs, c, d, k) = {}
      BY <2>1 DEF Places
    <3> QED BY <3>1 DEF Tell
  <2>3. Tell(ws, a, b, k) = Missing
    BY <1>4, TellIs
  <2> QED BY <2>2, <2>3
<1> QED BY <1>3, <1>4

(* What comes later counts.                                                *)
LEMMA TellParts ==
    ASSUME NEW ws, NEW a \in Nat, NEW b \in Nat, NEW c \in Nat, a <= b, b <= c, NEW k
    PROVE  /\ (\E i \in b + 1 .. c : Key(ws[i]) = k) => Tell(ws, a, c, k) = Tell(ws, b, c, k)
           /\ (\A i \in b + 1 .. c : Key(ws[i]) # k) => Tell(ws, a, c, k) = Tell(ws, a, b, k)
<1>1. ASSUME \E i \in b + 1 .. c : Key(ws[i]) = k PROVE Tell(ws, a, c, k) = Tell(ws, b, c, k)
  <2>1. PICK i \in b + 1 .. c : /\ Key(ws[i]) = k /\ \A j \in i + 1 .. c : Key(ws[j]) # k
                                /\ Tell(ws, b, c, k) = Val(ws[i])
    BY <1>1, LastPlace
  <2>2. i \in a + 1 .. c
    OBVIOUS
  <2>3. Tell(ws, a, c, k) = Val(ws[i])
    BY <2>1, <2>2, TellIs
  <2> QED BY <2>1, <2>3
<1>2. ASSUME \A i \in b + 1 .. c : Key(ws[i]) # k PROVE Tell(ws, a, c, k) = Tell(ws, a, b, k)
  <2>1. CASE \E i \in a + 1 .. b : Key(ws[i]) = k
    <3>1. PICK i \in a + 1 .. b : /\ Key(ws[i]) = k /\ \A j \in i + 1 .. b : Key(ws[j]) # k
                                  /\ Tell(ws, a, b, k) = Val(ws[i])
      BY <2>1, LastPlace
    <3>2. i \in a + 1 .. c
      OBVIOUS
    <3>3. \A j \in i + 1 .. c : Key(ws[j]) # k
      <4> TAKE j \in i + 1 .. c
      <4>1. j \in i + 1 .. b \/ j \in b + 1 .. c
        OBVIOUS
      <4> QED BY <1>2, <3>1, <4>1
    <3>4. Tell(ws, a, c, k) = Val(ws[i])
      BY <3>1, <3>2, <3>3, TellIs
    <3> QED BY <3>1, <3>4
  <2>2. CASE \A i \in a + 1 .. b : Key(ws[i]) # k
    <3>1. \A i \in a + 1 .. c : Key(ws[i]) # k
      <4> TAKE i \in a + 1 .. c
      <4>1. i \in a + 1 .. b \/ i \in b + 1 .. c
        OBVIOUS
      <4> QED BY <1>2, <2>2, <4>1
    <3> QED BY <2>2, <3>1, TellIs
  <2> QED BY <2>1, <2>2
<1> QED BY <1>1, <1>2

(* A replayed log has the keys of its records, each with what was written  *)
(* last.                                                                   *)
LEMMA ReplayIs ==
    ASSUME NEW s \in Seq(KeyVals)
    PROVE  /\ Replay(s) \in Mems /\ IsFiniteSet(DOMAIN Replay(s)) /\ DOMAIN Replay(s) \in SUBSET Int
           /\ \A k : k \in DOMAIN Replay(s) <=> HasKey(s, k)
           /\ \A k \in DOMAIN Replay(s) : Replay(s)[k] = Tell(s, 0, Len(s), k) /\ Replay(s)[k] \in Nat
<1> DEFINE n == Len(s)
<1>1. n \in Nat /\ \A i \in 1 .. n : Key(s[i]) \in Int /\ Val(s[i]) \in Nat
  BY DEF KeyVals, Key, Val
<1>2. PICK g : /\ g[0] = Nothing /\ g \in [0 .. n -> Mems] /\ Replay(s) = g[n]
               /\ \A i \in 1 .. n : g[i] = Insert(g[i - 1], Key(s[i]), Val(s[i]))
  BY ReplaySteps
<1> HIDE DEF n
<1> DEFINE Good(m, i) == /\ DOMAIN m = {Key(s[j]) : j \in 1 .. i}
                         /\ \A k \in DOMAIN m : m[k] = Tell(s, 0, i, k)
           P == {i \in 0 .. n : Good(g[i], i)}
<1>3. 0 \in P
  <2>1. Good(Nothing, 0)
    <3>1. 1 .. 0 = {}
      OBVIOUS
    <3> QED BY <3>1, NothingIs
  <2> HIDE DEF Good
  <2> QED BY <1>1, <1>2, <2>1
<1>4. ASSUME NEW i \in 1 .. n, i - 1 \in P PROVE i \in P
  <2> DEFINE m == g[i - 1]
             x == Key(s[i])
             z == g[i]
  <2>1. /\ DOMAIN m = {Key(s[j]) : j \in 1 .. i - 1} /\ \A k \in DOMAIN m : m[k] = Tell(s, 0, i - 1, k)
        /\ z = Insert(m, x, Val(s[i])) /\ i \in 0 .. n /\ i \in Nat /\ i - 1 \in Nat
    BY <1>1, <1>2, <1>4
  <2> HIDE DEF m, z
  <2>2. DOMAIN z = DOMAIN m \cup {x} /\ \A k \in DOMAIN z : z[k] = IF k = x THEN Val(s[i]) ELSE m[k]
    BY <2>1 DEF Insert
  <2>3. DOMAIN z = {Key(s[j]) : j \in 1 .. i}
    <3>1. 1 .. i = (1 .. i - 1) \cup {i}
      BY <2>1
    <3> QED BY <2>1, <2>2, <3>1
  <2>4. ASSUME NEW k \in DOMAIN z PROVE z[k] = Tell(s, 0, i, k)
    <3>0. 0 + 1 = 1 /\ 0 \in Nat /\ i - 1 <= i /\ 0 <= i - 1 /\ (i - 1) + 1 = i
      BY <2>1
    <3>1. CASE k = x
      <4>1. i \in 0 + 1 .. i /\ \A j \in i + 1 .. i : Key(s[j]) # k
        BY <2>1
      <4>2. Tell(s, 0, i, k) = Val(s[i])
        BY <2>1, <3>0, <3>1, <4>1, TellIs
      <4> QED BY <2>2, <3>1, <4>2
    <3>2. CASE k # x
      <4>1. \A j \in i .. i : Key(s[j]) # k
        BY <2>1, <3>2
      <4>2. Tell(s, 0, i, k) = Tell(s, 0, i - 1, k)
        BY <2>1, <3>0, <4>1, TellParts
      <4> QED BY <2>1, <2>2, <3>2, <4>2
    <3> QED BY <3>1, <3>2
  <2>5. Good(z, i)
    BY <2>3, <2>4
  <2> HIDE DEF Good
  <2> QED BY <2>1, <2>5 DEF z
<1>5. Good(g[n], n)
  <2>1. n \in P
    <3>1. n \in 0 .. n
      BY <1>1
    <3> HIDE DEF P
    <3> QED BY <1>1, <1>3, <1>4, <3>1, InductionUpTo
  <2> QED BY <2>1
<1> DEFINE m == Replay(s)
<1>6. /\ DOMAIN m = {Key(s[j]) : j \in 1 .. n} /\ \A k \in DOMAIN m : m[k] = Tell(s, 0, n, k)
      /\ m \in Mems
  BY <1>1, <1>2, <1>5
<1> HIDE DEF m
<1>7. IsFiniteSet(DOMAIN m)
  <2>1. IsFiniteSet(1 .. n)
    BY <1>1, FS_Interval
  <2> DEFINE D == {Key(s[j]) : j \in 1 .. n}
             f == [j \in 1 .. n |-> Key(s[j])]
  <2>2. f \in Surjection(1 .. n, D)
    BY DEF Surjection
  <2> HIDE DEF D, f
  <2>3. IsFiniteSet(D)
    BY <2>1, <2>2, FS_Surjection
  <2> QED BY <1>6, <2>3 DEF D
<1>8. PICK D \in SUBSET Int : m \in [D -> Nat]
  BY <1>6 DEF Mems
<1>9. DOMAIN m \in SUBSET Int /\ \A k \in DOMAIN m : m[k] \in Nat
  BY <1>8
<1>10. \A k : k \in DOMAIN m <=> HasKey(s, k)
  BY <1>6 DEF HasKey, n
<1> QED BY <1>6, <1>7, <1>9, <1>10 DEF m, n

(* One record more.                                                        *)
LEMMA ReplayMore ==
    ASSUME NEW s \in Seq(KeyVals), NEW e \in KeyVals
    PROVE  Replay(Append(s, e)) = Insert(Replay(s), Key(e), Val(e))
<1> DEFINE n == Len(s)
           t == Append(s, e)
<1>1. /\ n \in Nat /\ t \in Seq(KeyVals) /\ Len(t) = n + 1 /\ t[n + 1] = e
      /\ \A i \in 1 .. n : t[i] = s[i]
  OBVIOUS
<1> HIDE DEF t
<1>2. PICK g : /\ g[0] = Nothing /\ Replay(s) = g[n]
               /\ \A i \in 1 .. n : g[i] = Insert(g[i - 1], Key(s[i]), Val(s[i]))
  BY ReplaySteps
<1>3. PICK h : /\ h[0] = Nothing /\ Replay(t) = h[n + 1]
               /\ \A i \in 1 .. n + 1 : h[i] = Insert(h[i - 1], Key(t[i]), Val(t[i]))
  <2>1. t \in Seq(KeyVals) /\ Len(t) = n + 1
    BY <1>1
  <2> HIDE DEF n
  <2>2. \E h : /\ h[0] = Nothing /\ Replay(t) = h[Len(t)]
               /\ \A i \in 1 .. Len(t) : h[i] = Insert(h[i - 1], Key(t[i]), Val(t[i]))
    BY <2>1, ReplaySteps, Zenon
  <2> QED BY <2>1, <2>2, Zenon
<1> HIDE DEF n
<1> DEFINE P == {i \in 0 .. n : g[i] = h[i]}
<1>4. 0 \in P
  BY <1>1, <1>2, <1>3
<1>5. ASSUME NEW i \in 1 .. n, i - 1 \in P PROVE i \in P
  <2>1. i \in 0 .. n /\ i \in 1 .. n + 1 /\ g[i - 1] = h[i - 1] /\ t[i] = s[i]
    BY <1>1, <1>5
  <2> QED BY <1>2, <1>3, <2>1
<1>6. g[n] = h[n]
  <2>1. n \in 0 .. n
    BY <1>1
  <2> HIDE DEF P
  <2>2. n \in P
    BY <1>1, <1>4, <1>5, <2>1, InductionUpTo
  <2> QED BY <2>2 DEF P
<1>7. h[n + 1] = Insert(h[n], Key(t[n + 1]), Val(t[n + 1]))
  <2>1. n + 1 \in 1 .. n + 1 /\ (n + 1) - 1 = n
    BY <1>1
  <2> QED BY <1>3, <2>1
<1> QED BY <1>1, <1>2, <1>3, <1>6, <1>7 DEF t


(* The entries of a memtable, in the order of their keys.                  *)
LEMMA EntriesIs ==
    ASSUME NEW m \in Mems, IsFiniteSet(DOMAIN m)
    PROVE  /\ Entries(m) \in Seq(KeyVals) /\ RisesByKey(Entries(m))
           /\ \A k : HasKey(Entries(m), k) <=> k \in DOMAIN m
           /\ \A i \in 1 .. Len(Entries(m)) : Val(Entries(m)[i]) = m[Key(Entries(m)[i])]
           /\ Entries(m) = <<>> <=> m = Nothing
<1> DEFINE D == DOMAIN m
           p == Ordered(D)
           n == Cardinality(D)
           e == Entries(m)
<1>1. PICK S \in SUBSET Int : m \in [S -> Nat]
  BY DEF Mems
<1>2. D \in SUBSET Int /\ (\A k \in D : m[k] \in Nat) /\ m = [k \in D |-> m[k]]
  BY <1>1
<1> HIDE DEF D
<1>3. p = Ranking(D)
  BY DEF Ordered, Ranking
<1>4. Ranks(D, Ranking(D))
  <2>1. IsFiniteSet(D)
    BY DEF D
  <2> QED BY <1>2, <2>1, RankingRanks
<1>5. /\ p \in [1 .. n -> D] /\ n \in Nat /\ \A i, j \in 1 .. n : i < j => p[i] < p[j]
      /\ \A x \in D : \E i \in 1 .. n : p[i] = x
  BY <1>3, <1>4 DEF Ranks
<1>6. e = [i \in DOMAIN p |-> <<p[i], m[p[i]]>>]
  BY DEF Entries, D
<1> HIDE DEF p, n, e
<1>7. \A i \in 1 .. n : p[i] \in D /\ <<p[i], m[p[i]]>> \in KeyVals
  BY <1>2, <1>5 DEF KeyVals
<1>8. /\ e \in Seq(KeyVals) /\ Len(e) = n
      /\ \A i \in 1 .. n : e[i] = <<p[i], m[p[i]]>>
  BY <1>5, <1>6, <1>7
<1>9. \A i \in 1 .. n : Key(e[i]) = p[i] /\ Val(e[i]) = m[p[i]]
  BY <1>8 DEF Key, Val
<1>10. RisesByKey(e)
  BY <1>5, <1>8, <1>9 DEF RisesByKey
<1>11. \A k : HasKey(e, k) <=> k \in D
  <2>1. ASSUME NEW k, HasKey(e, k) PROVE k \in D
    <3>1. PICK i \in 1 .. n : Key(e[i]) = k
      BY <1>8, <2>1 DEF HasKey
    <3> QED BY <1>7, <1>9, <3>1
  <2>2. ASSUME NEW k \in D PROVE HasKey(e, k)
    <3>1. PICK i \in 1 .. n : p[i] = k
      BY <1>5, <2>2
    <3> QED BY <1>8, <1>9, <3>1 DEF HasKey
  <2> QED BY <2>1, <2>2
<1>12. D = {} => m = Nothing
  BY <1>2 DEF Nothing
<1>13. m = Nothing => D = {}
  BY NothingIs DEF D
<1>14. e = <<>> <=> D = {}
  <2>1. e = <<>> => D = {}
    <3> HAVE e = <<>>
    <3>1. n = 0
      BY <1>8
    <3> QED BY <1>5, <3>1
  <2>2. D = {} => e = <<>>
    <3> HAVE D = {}
    <3>1. n = 0
      <4> SUFFICES ASSUME n # 0 PROVE FALSE
        OBVIOUS
      <4>1. 1 \in 1 .. n
        BY <1>5
      <4> QED BY <1>7, <4>1
    <3> QED BY <1>8, <3>1
  <2> QED BY <2>1, <2>2
<1> QED BY <1>8, <1>9, <1>10, <1>11, <1>12, <1>13, <1>14 DEF D, e

(* Records whose keys rise are the entries of their own memtable.          *)
LEMMA EntriesSame ==
    ASSUME NEW s \in Seq(KeyVals), RisesByKey(s)
    PROVE  Entries(Replay(s)) = s
<1> DEFINE n == Len(s)
           m == Replay(s)
           D == DOMAIN m
           q == [i \in 1 .. n |-> Key(s[i])]
           p == Ordered(D)
<1>1. /\ n \in Nat /\ DOMAIN s = 1 .. n /\ s = [i \in 1 .. n |-> s[i]]
      /\ \A i \in 1 .. n : s[i] = <<Key(s[i]), Val(s[i])>> /\ Key(s[i]) \in Int
  BY DEF KeyVals, Key, Val
<1>2. /\ IsFiniteSet(D) /\ D \in SUBSET Int /\ \A k : k \in D <=> HasKey(s, k)
      /\ \A k \in D : m[k] = Tell(s, 0, n, k)
  BY ReplayIs
<1>3. Entries(m) = [i \in DOMAIN p |-> <<p[i], m[p[i]]>>]
  BY DEF Entries
<1>4. p = Ranking(D)
  BY DEF Ordered, Ranking
<1> HIDE DEF m, D, p
<1>5. \A i \in 1 .. n : q[i] = Key(s[i]) /\ q[i] \in D
  BY <1>2 DEF HasKey, n
<1>6. q \in [1 .. n -> D]
  BY <1>5
<1>7. \A i, j \in 1 .. n : i < j => q[i] < q[j]
  BY <1>5 DEF RisesByKey, n
<1>8. \A x \in D : \E i \in 1 .. n : q[i] = x
  BY <1>2, <1>5 DEF HasKey, n
<1> HIDE DEF q, n
<1>9. p = q
  BY <1>1, <1>2, <1>4, <1>6, <1>7, <1>8, RankingSame
<1>10. ASSUME NEW i \in 1 .. n PROVE m[q[i]] = Val(s[i])
  <2>1. \A j \in i + 1 .. n : Key(s[j]) # q[i]
    <3> TAKE j \in i + 1 .. n
    <3>1. j \in 1 .. n /\ i < j
      BY <1>1
    <3>2. q[i] < q[j] /\ q[i] \in Int
      BY <1>1, <1>5, <1>7, <3>1
    <3>3. q[j] = Key(s[j])
      BY <1>5, <3>1
    <3> QED BY <3>2, <3>3
  <2> DEFINE z == 0
             x == q[i]
  <2>2. /\ i \in z + 1 .. n /\ z \in Nat /\ n \in Nat
        /\ Key(s[i]) = x /\ \A j \in i + 1 .. n : Key(s[j]) # x
    <3>1. n \in Nat
      BY <1>1
    <3>2. Key(s[i]) = x
      BY <1>5
    <3> HIDE DEF x
    <3> QED BY <2>1, <3>1, <3>2 DEF x
  <2> HIDE DEF z, x
  <2>3. Tell(s, z, n, x) = Val(s[i])
    BY <2>2, TellIs
  <2> QED BY <1>2, <1>5, <2>3 DEF z, x
<1>11. DOMAIN q = 1 .. n
  BY <1>6
<1>12. \A i \in 1 .. n : <<q[i], m[q[i]]>> = s[i]
  BY <1>1, <1>5, <1>10
<1> QED BY <1>1, <1>3, <1>9, <1>11, <1>12 DEF m

(* The memtable of the writes behind the first a, up to the b-th, and its  *)
(* table.                                                                  *)
Part(ws, a, b) == Replay(Slice(ws, a, b))
FileOf(ws, a, b) == TableFor(Entries(Part(ws, a, b)))

LEMMA PartIs ==
    ASSUME NEW ws \in Seq(KeyVals), NEW a \in Nat, NEW b \in Nat, a <= b, b <= Len(ws)
    PROVE  /\ Part(ws, a, b) \in Mems /\ IsFiniteSet(DOMAIN Part(ws, a, b))
           /\ Part(ws, a, b) = Nothing <=> a = b
           /\ \A k : k \in DOMAIN Part(ws, a, b) <=> \E i \in a + 1 .. b : Key(ws[i]) = k
           /\ \A k \in DOMAIN Part(ws, a, b) :
                 Part(ws, a, b)[k] = Tell(ws, a, b, k) /\ Part(ws, a, b)[k] \in Nat
<1> DEFINE s == Slice(ws, a, b)
           m == Part(ws, a, b)
<1>1. s \in Seq(KeyVals) /\ Len(s) = b - a /\ \A i \in 1 .. b - a : s[i] = ws[a + i]
  BY SliceIs
<1>2. m = Replay(s)
  BY DEF Part
<1> HIDE DEF s, m
<1>3. /\ m \in Mems /\ IsFiniteSet(DOMAIN m)
      /\ \A k : k \in DOMAIN m <=> HasKey(s, k)
      /\ \A k \in DOMAIN m : m[k] = Tell(s, 0, Len(s), k) /\ m[k] \in Nat
  BY <1>1, <1>2, ReplayIs
<1>4. ASSUME NEW k PROVE k \in DOMAIN m <=> \E i \in a + 1 .. b : Key(ws[i]) = k
  <2>1. ASSUME NEW i \in a + 1 .. b, Key(ws[i]) = k PROVE HasKey(s, k)
    <3>1. i - a \in 1 .. b - a /\ a + (i - a) = i
      OBVIOUS
    <3>2. s[i - a] = ws[i]
      BY <1>1, <3>1
    <3> QED BY <1>1, <2>1, <3>1, <3>2 DEF HasKey
  <2>2. ASSUME HasKey(s, k) PROVE \E i \in a + 1 .. b : Key(ws[i]) = k
    <3>1. PICK i \in 1 .. b - a : Key(s[i]) = k
      BY <1>1, <2>2 DEF HasKey
    <3>2. a + i \in a + 1 .. b /\ s[i] = ws[a + i]
      BY <1>1
    <3> QED BY <3>1, <3>2
  <2> QED BY <1>3, <2>1, <2>2
<1>5. ASSUME NEW k \in DOMAIN m PROVE m[k] = Tell(ws, a, b, k)
  <2> DEFINE z == 0
             l == Len(s)
  <2>1. z \in Nat /\ l \in Nat /\ b - a = l - z
    BY <1>1
  <2>2. \A i \in 1 .. b - a : ws[a + i] = s[z + i]
    <3>1. \A i \in 1 .. b - a : z + i = i
      OBVIOUS
    <3> HIDE DEF z
    <3> QED BY <1>1, <3>1
  <2> HIDE DEF z, l
  <2>3. Agree(ws, a, b, s, z, l)
    BY <2>1, <2>2 DEF Agree
  <2>4. Tell(ws, a, b, k) = Tell(s, z, l, k)
    BY <2>1, <2>3, TellAgrees
  <2> QED BY <1>3, <2>4 DEF z, l
<1>6. m = Nothing => a = b
  <2> SUFFICES ASSUME m = Nothing, a < b PROVE FALSE
    OBVIOUS
  <2>1. a + 1 \in a + 1 .. b
    OBVIOUS
  <2>2. Key(ws[a + 1]) \in DOMAIN m
    BY <1>4, <2>1
  <2> QED BY <2>2, NothingIs
<1>7. a = b => m = Nothing
  <2> HAVE a = b
  <2>1. a + 1 .. b = {}
    OBVIOUS
  <2>2. DOMAIN m = {}
    BY <1>4, <2>1
  <2>3. PICK S \in SUBSET Int : m \in [S -> Nat]
    BY <1>3 DEF Mems
  <2> QED BY <2>2, <2>3 DEF Nothing
<1> QED BY <1>3, <1>4, <1>5, <1>6, <1>7 DEF m

LEMMA FileTells ==
    ASSUME NEW ws \in Seq(KeyVals), NEW a \in Nat, NEW b \in Nat, a < b, b <= Len(ws), NEW k \in Int
    PROVE  TableGet(FileOf(ws, a, b), k) = Tell(ws, a, b, k)
<1> DEFINE m == Part(ws, a, b)
           e == Entries(m)
<1>1. /\ m \in Mems /\ IsFiniteSet(DOMAIN m) /\ m # Nothing
      /\ k \in DOMAIN m <=> \E i \in a + 1 .. b : Key(ws[i]) = k
      /\ k \in DOMAIN m => m[k] = Tell(ws, a, b, k)
  <2>1. a <= b /\ a # b
    OBVIOUS
  <2> QED BY <2>1, PartIs
<1>2. FileOf(ws, a, b) = TableFor(e)
  BY DEF FileOf
<1> HIDE DEF m
<1>3. /\ e \in Seq(KeyVals) /\ RisesByKey(e) /\ e # <<>>
      /\ HasKey(e, k) <=> k \in DOMAIN m
      /\ \A i \in 1 .. Len(e) : Val(e[i]) = m[Key(e[i])]
  BY <1>1, EntriesIs
<1> HIDE DEF e
<1>4. CASE k \in DOMAIN m
  <2>1. PICK i \in 1 .. Len(e) : Key(e[i]) = k
    BY <1>3, <1>4 DEF HasKey
  <2>2. TableGet(TableFor(e), k) = Val(e[i])
    BY <1>3, <2>1, TableGetIs
  <2> QED BY <1>1, <1>2, <1>3, <1>4, <2>1, <2>2
<1>5. CASE k \notin DOMAIN m
  <2>1. TableGet(TableFor(e), k) = Missing
    BY <1>3, <1>5, TableGetIs
  <2>2. Tell(ws, a, b, k) = Missing
    <3>1. \A i \in a + 1 .. b : Key(ws[i]) # k
      BY <1>1, <1>5
    <3> QED BY <3>1, TellIs
  <2> QED BY <1>2, <2>1, <2>2
<1> QED BY <1>4, <1>5


(* Cuts of the writes into pieces: piece i is behind c[i - 1], up to c[i]. *)
IsList(x) == \E S : x \in Seq(S)
Cuts(c, n, a, b) ==
    /\ n \in Nat /\ c \in [0 .. n -> Nat] /\ c[0] = a /\ c[n] = b
    /\ \A i, j \in 0 .. n : i <= j => c[i] <= c[j]

LEMMA CutBounds ==
    ASSUME NEW c, NEW n, NEW a, NEW b, Cuts(c, n, a, b)
    PROVE  /\ n \in Nat /\ a \in Nat /\ b \in Nat /\ a <= b /\ (n = 0 => a = b)
           /\ \A i \in 0 .. n : c[i] \in a .. b
           /\ \A i \in 1 .. n : c[i - 1] \in Nat /\ c[i] \in Nat /\ c[i - 1] <= c[i]
<1>1. /\ n \in Nat /\ c \in [0 .. n -> Nat] /\ c[0] = a /\ c[n] = b
      /\ \A i, j \in 0 .. n : i <= j => c[i] <= c[j]
  BY DEF Cuts
<1>2. 0 \in 0 .. n /\ n \in 0 .. n /\ 0 <= n
  BY <1>1
<1>3. a \in Nat /\ b \in Nat /\ a <= b
  BY <1>1, <1>2
<1>4. \A i \in 0 .. n : c[i] \in Nat /\ a <= c[i] /\ c[i] <= b
  <2> TAKE i \in 0 .. n
  <2>1. 0 <= i /\ i <= n
    BY <1>1
  <2> QED BY <1>1, <1>2, <2>1
<1>5. \A i \in 1 .. n : c[i - 1] \in Nat /\ c[i] \in Nat /\ c[i - 1] <= c[i]
  <2> TAKE i \in 1 .. n
  <2>1. i - 1 \in 0 .. n /\ i \in 0 .. n /\ i - 1 <= i
    BY <1>1
  <2> QED BY <1>1, <2>1
<1> QED BY <1>1, <1>3, <1>4, <1>5

LEMMA CutFinds ==
    ASSUME NEW c, NEW n, NEW a, NEW b, Cuts(c, n, a, b), NEW p \in a + 1 .. b
    PROVE  \E i \in 1 .. n : p \in c[i - 1] + 1 .. c[i]
<1>1. /\ n \in Nat /\ c \in [0 .. n -> Nat] /\ c[0] = a /\ c[n] = b /\ a \in Nat /\ b \in Nat
  BY CutBounds DEF Cuts
<1> DEFINE I == {i \in 0 .. n : p <= c[i]}
<1>2. n \in I /\ I \in SUBSET Nat
  BY <1>1
<1>3. PICK i \in I : \A j \in I : i <= j
  <2> HIDE DEF I
  <2> QED BY <1>2, LeastExists
<1>4. i \in 0 .. n /\ p <= c[i] /\ c[i] \in Nat
  BY <1>1
<1>5. i # 0
  BY <1>1, <1>4
<1>6. i - 1 \in 0 .. n /\ i \in 1 .. n /\ ~(i <= i - 1)
  BY <1>1, <1>4, <1>5
<1>7. i - 1 \notin I
  <2> HIDE DEF I
  <2> QED BY <1>3, <1>6
<1>8. c[i - 1] < p
  BY <1>1, <1>6, <1>7
<1> QED BY <1>1, <1>4, <1>6, <1>8

LEMMA CutMore ==
    ASSUME NEW c, NEW n, NEW a, NEW b, Cuts(c, n, a, b), NEW d \in Nat, b <= d
    PROVE  \E e : Cuts(e, n + 1, a, d) /\ e[n] = b /\ e[n + 1] = d /\ \A i \in 0 .. n : e[i] = c[i]
<1> DEFINE e == [i \in 0 .. n + 1 |-> IF i = n + 1 THEN d ELSE c[i]]
<1>1. /\ n \in Nat /\ c[0] = a /\ c[n] = b
      /\ \A i \in 0 .. n : c[i] \in Nat
      /\ \A i, j \in 0 .. n : i <= j => c[i] <= c[j]
  BY DEF Cuts
<1>2. \A i \in 0 .. n : c[i] <= b
  BY CutBounds
<1>3. e[n + 1] = d /\ \A i \in 0 .. n : e[i] = c[i]
  BY <1>1
<1>4. \A i \in 0 .. n + 1 : i = n + 1 \/ i \in 0 .. n
  BY <1>1
<1>5. e \in [0 .. n + 1 -> Nat]
  BY <1>1
<1> HIDE DEF e
<1>6. \A i, j \in 0 .. n + 1 : i <= j => e[i] <= e[j]
  <2> TAKE i, j \in 0 .. n + 1
  <2> HAVE i <= j
  <2>1. CASE j \in 0 .. n
    <3>1. i \in 0 .. n
      BY <1>1, <2>1
    <3> QED BY <1>1, <1>3, <2>1, <3>1
  <2>2. CASE j = n + 1
    <3>1. e[j] = d
      BY <1>3, <2>2
    <3>2. e[i] = d \/ (e[i] \in Nat /\ e[i] <= b)
      BY <1>1, <1>2, <1>3, <1>4
    <3>3. b \in Nat
      BY CutBounds
    <3> QED BY <3>1, <3>2, <3>3
  <2> QED BY <1>4, <2>1, <2>2
<1>7. e[0] = a /\ e[n] = b
  BY <1>1, <1>3
<1>8. Cuts(e, n + 1, a, d)
  BY <1>1, <1>3, <1>5, <1>6, <1>7 DEF Cuts
<1> QED BY <1>3, <1>7, <1>8

LEMMA CutTail ==
    ASSUME NEW c, NEW n, NEW a, NEW b, Cuts(c, n, a, b), n # 0
    PROVE  LET e == [i \in 0 .. n - 1 |-> c[i + 1]]
           IN  Cuts(e, n - 1, c[1], b) /\ c[1] \in a .. b
<1> DEFINE e == [i \in 0 .. n - 1 |-> c[i + 1]]
<1>1. /\ n \in Nat /\ c[0] = a /\ c[n] = b
      /\ \A i \in 0 .. n : c[i] \in Nat
      /\ \A i, j \in 0 .. n : i <= j => c[i] <= c[j]
  BY DEF Cuts
<1>2. \A i \in 0 .. n - 1 : i + 1 \in 0 .. n /\ e[i] = c[i + 1]
  BY <1>1
<1>3. e \in [0 .. n - 1 -> Nat]
  BY <1>1, <1>2
<1> HIDE DEF e
<1>4. 0 \in 0 .. n - 1 /\ n - 1 \in 0 .. n - 1 /\ n - 1 \in Nat /\ (n - 1) + 1 = n
  BY <1>1
<1>5. e[0] = c[1] /\ e[n - 1] = b
  BY <1>1, <1>2, <1>4
<1>6. \A i, j \in 0 .. n - 1 : i <= j => e[i] <= e[j]
  <2> TAKE i, j \in 0 .. n - 1
  <2> HAVE i <= j
  <2>1. i + 1 <= j + 1
    BY <1>4
  <2> QED BY <1>1, <1>2, <2>1
<1>7. Cuts(e, n - 1, c[1], b)
  BY <1>3, <1>4, <1>5, <1>6 DEF Cuts
<1>8. c[1] \in a .. b
  <2>1. 1 \in 0 .. n
    BY <1>1
  <2> QED BY <2>1, CutBounds
<1> QED BY <1>7, <1>8 DEF e

(* Frozen memtables and files of a level, the oldest first.                *)
Frozen(imms, ws, a, b) ==
    /\ IsList(imms)
    /\ \E c : /\ Cuts(c, Len(imms), a, b)
              /\ \A i \in 1 .. Len(imms) : imms[i] = Part(ws, c[i - 1], c[i])
Flushed(files, ws, a, b) ==
    /\ IsList(files)
    /\ \E c : /\ Cuts(c, Len(files), a, b)
              /\ \A i \in 1 .. Len(files) : c[i - 1] < c[i] /\ files[i] = FileOf(ws, c[i - 1], c[i])

LEMMA FlushedBounds ==
    ASSUME NEW files, NEW ws, NEW a, NEW b, Flushed(files, ws, a, b)
    PROVE  a \in Nat /\ b \in Nat /\ a <= b /\ (files = <<>> <=> a = b) /\ Len(files) \in Nat
<1>1. PICK c : /\ Cuts(c, Len(files), a, b)
               /\ \A i \in 1 .. Len(files) : c[i - 1] < c[i] /\ files[i] = FileOf(ws, c[i - 1], c[i])
  BY DEF Flushed
<1>2. PICK S : files \in Seq(S)
  BY DEF Flushed, IsList
<1> DEFINE n == Len(files)
<1>3. n \in Nat /\ (files = <<>> <=> n = 0)
  BY <1>2
<1> HIDE DEF n
<1>4. /\ a \in Nat /\ b \in Nat /\ a <= b /\ (n = 0 => a = b) /\ c[0] = a /\ c[n] = b
      /\ \A i \in 1 .. n : c[i - 1] \in Nat /\ c[i] \in Nat
      /\ \A i \in 0 .. n : c[i] \in a .. b
  BY <1>1, CutBounds DEF n, Cuts
<1>5. n # 0 => a # b
  <2> HAVE n # 0
  <2>1. 1 \in 1 .. n /\ 1 - 1 = 0 /\ 1 \in 0 .. n
    BY <1>3
  <2>2. c[0] < c[1] /\ c[1] \in a .. b
    BY <1>1, <1>4, <2>1 DEF n
  <2> QED BY <1>4, <2>2
<1> QED BY <1>3, <1>4, <1>5 DEF n

LEMMA FrozenBounds ==
    ASSUME NEW imms, NEW ws, NEW a, NEW b, Frozen(imms, ws, a, b)
    PROVE  a \in Nat /\ b \in Nat /\ a <= b /\ (imms = <<>> => a = b) /\ Len(imms) \in Nat
<1>1. PICK c : Cuts(c, Len(imms), a, b)
  BY DEF Frozen
<1>2. imms = <<>> => Len(imms) = 0
  OBVIOUS
<1> QED BY <1>1, <1>2, CutBounds

LEMMA NoneLaid ==
    ASSUME NEW ws, NEW a \in Nat
    PROVE  Flushed(<<>>, ws, a, a) /\ Frozen(<<>>, ws, a, a)
<1> DEFINE c == [i \in 0 .. 0 |-> a]
           e == <<>>
<1>1. e \in Seq({}) /\ Len(e) = 0
  OBVIOUS
<1> HIDE DEF e
<1>2. Cuts(c, 0, a, a)
  BY DEF Cuts
<1> HIDE DEF c
<1>3. \A i \in 1 .. 0 : FALSE
  OBVIOUS
<1>4. Flushed(e, ws, a, a)
  BY <1>1, <1>2, <1>3 DEF Flushed, IsList
<1>5. Frozen(e, ws, a, a)
  BY <1>1, <1>2, <1>3 DEF Frozen, IsList
<1> QED BY <1>4, <1>5 DEF e

LEMMA FlushedMore ==
    ASSUME NEW files, NEW ws, NEW a, NEW b, Flushed(files, ws, a, b), NEW d \in Nat, b < d
    PROVE  Flushed(Append(files, FileOf(ws, b, d)), ws, a, d)
<1> DEFINE n == Len(files)
           x == FileOf(ws, b, d)
           more == Append(files, x)
<1>1. PICK c : /\ Cuts(c, n, a, b)
               /\ \A i \in 1 .. n : c[i - 1] < c[i] /\ files[i] = FileOf(ws, c[i - 1], c[i])
  BY DEF Flushed
<1>2. PICK S : files \in Seq(S)
  BY DEF Flushed, IsList
<1>3. /\ n \in Nat /\ more \in Seq(S \cup {x}) /\ Len(more) = n + 1 /\ more[n + 1] = x
      /\ \A i \in 1 .. n : more[i] = files[i]
  <2>1. files \in Seq(S \cup {x}) /\ x \in S \cup {x}
    BY <1>2
  <2> HIDE DEF x
  <2> QED BY <2>1
<1> HIDE DEF n, more
<1>4. PICK e : Cuts(e, n + 1, a, d) /\ e[n] = b /\ e[n + 1] = d /\ \A i \in 0 .. n : e[i] = c[i]
  <2>1. b <= d
    BY FlushedBounds
  <2> QED BY <1>1, <2>1, CutMore
<1>5. \A i \in 1 .. n + 1 : e[i - 1] < e[i] /\ more[i] = FileOf(ws, e[i - 1], e[i])
  <2> TAKE i \in 1 .. n + 1
  <2>1. CASE i = n + 1
    <3>1. i - 1 = n
      BY <1>3, <2>1
    <3> QED BY <1>3, <1>4, <2>1, <3>1 DEF x
  <2>2. CASE i # n + 1
    <3>1. i \in 1 .. n /\ i \in 0 .. n /\ i - 1 \in 0 .. n
      BY <1>3, <2>2
    <3> QED BY <1>1, <1>3, <1>4, <3>1
  <2> QED BY <2>1, <2>2
<1>6. Flushed(more, ws, a, d)
  BY <1>3, <1>4, <1>5 DEF Flushed, IsList
<1> QED BY <1>6 DEF more, x

LEMMA FrozenMore ==
    ASSUME NEW imms, NEW ws, NEW a, NEW b, Frozen(imms, ws, a, b), NEW d \in Nat, b <= d
    PROVE  Frozen(Append(imms, Part(ws, b, d)), ws, a, d)
<1> DEFINE n == Len(imms)
           x == Part(ws, b, d)
           more == Append(imms, x)
<1>1. PICK c : /\ Cuts(c, n, a, b)
               /\ \A i \in 1 .. n : imms[i] = Part(ws, c[i - 1], c[i])
  BY DEF Frozen
<1>2. PICK S : imms \in Seq(S)
  BY DEF Frozen, IsList
<1>3. /\ n \in Nat /\ more \in Seq(S \cup {x}) /\ Len(more) = n + 1 /\ more[n + 1] = x
      /\ \A i \in 1 .. n : more[i] = imms[i]
  <2>1. imms \in Seq(S \cup {x}) /\ x \in S \cup {x}
    BY <1>2
  <2> HIDE DEF x
  <2> QED BY <2>1
<1> HIDE DEF n, more
<1>4. PICK e : Cuts(e, n + 1, a, d) /\ e[n] = b /\ e[n + 1] = d /\ \A i \in 0 .. n : e[i] = c[i]
  BY <1>1, CutMore
<1>5. \A i \in 1 .. n + 1 : more[i] = Part(ws, e[i - 1], e[i])
  <2> TAKE i \in 1 .. n + 1
  <2>1. CASE i = n + 1
    <3>1. i - 1 = n
      BY <1>3, <2>1
    <3> QED BY <1>3, <1>4, <2>1, <3>1 DEF x
  <2>2. CASE i # n + 1
    <3>1. i \in 1 .. n /\ i \in 0 .. n /\ i - 1 \in 0 .. n
      BY <1>3, <2>2
    <3> QED BY <1>1, <1>3, <1>4, <3>1
  <2> QED BY <2>1, <2>2
<1>6. Frozen(more, ws, a, d)
  BY <1>3, <1>4, <1>5 DEF Frozen, IsList
<1> QED BY <1>6 DEF more, x

LEMMA FrozenOldest ==
    ASSUME NEW imms, NEW ws, NEW a, NEW b, Frozen(imms, ws, a, b), imms # <<>>
    PROVE  \E d \in a .. b : Head(imms) = Part(ws, a, d) /\ Frozen(Tail(imms), ws, d, b)
<1> DEFINE n == Len(imms)
           rest == Tail(imms)
<1>1. PICK c : /\ Cuts(c, n, a, b)
               /\ \A i \in 1 .. n : imms[i] = Part(ws, c[i - 1], c[i])
  BY DEF Frozen
<1>2. PICK S : imms \in Seq(S)
  BY DEF Frozen, IsList
<1>3. /\ n \in Nat /\ n # 0 /\ rest \in Seq(S) /\ Len(rest) = n - 1 /\ Head(imms) = imms[1]
      /\ \A i \in 1 .. n - 1 : rest[i] = imms[i + 1]
  BY <1>2
<1> HIDE DEF n, rest
<1> DEFINE e == [i \in 0 .. n - 1 |-> c[i + 1]]
<1>4. Cuts(e, n - 1, c[1], b) /\ c[1] \in a .. b
  BY <1>1, <1>3, CutTail
<1>5. \A i \in 1 .. n - 1 : rest[i] = Part(ws, e[i - 1], e[i])
  <2> TAKE i \in 1 .. n - 1
  <2>1. i + 1 \in 1 .. n /\ (i + 1) - 1 = i /\ i \in 0 .. n - 1 /\ i - 1 \in 0 .. n - 1 /\ (i - 1) + 1 = i
    BY <1>3
  <2>2. e[i] = c[i + 1] /\ e[i - 1] = c[i]
    BY <2>1
  <2> HIDE DEF e
  <2> QED BY <1>1, <1>3, <2>1, <2>2
<1> HIDE DEF e
<1>6. Frozen(rest, ws, c[1], b)
  BY <1>3, <1>4, <1>5 DEF Frozen, IsList
<1>7. Head(imms) = Part(ws, a, c[1])
  <2>1. 1 \in 1 .. n /\ 1 - 1 = 0 /\ c[0] = a
    BY <1>1, <1>3 DEF Cuts
  <2> QED BY <1>1, <1>3, <2>1
<1> QED BY <1>4, <1>6, <1>7 DEF rest

(* What was written before does not change with one write more.            *)
LEMMA SliceSame ==
    ASSUME NEW ws \in Seq(KeyVals), NEW e \in KeyVals, NEW a \in Nat, NEW b \in Nat, a <= b, b <= Len(ws)
    PROVE  Slice(Append(ws, e), a, b) = Slice(ws, a, b)
<1> DEFINE n == Len(ws)
           t == Append(ws, e)
           x == Slice(ws, a, b)
           y == Slice(t, a, b)
<1>1. n \in Nat /\ t \in Seq(KeyVals) /\ Len(t) = n + 1 /\ \A i \in 1 .. n : t[i] = ws[i]
  OBVIOUS
<1> HIDE DEF t
<1>2. /\ x \in Seq(KeyVals) /\ Len(x) = b - a
      /\ \A i \in 1 .. b - a : x[i] = ws[a + i] /\ a + i \in 1 .. n
  BY SliceIs
<1>3. y \in Seq(KeyVals) /\ Len(y) = b - a /\ \A i \in 1 .. b - a : y[i] = t[a + i]
  <2>1. b <= Len(t) /\ t \in Seq(KeyVals)
    BY <1>1
  <2> QED BY <2>1, SliceIs
<1> HIDE DEF x, y, n
<1>4. \A i \in 1 .. Len(x) : x[i] = y[i]
  <2> TAKE i \in 1 .. Len(x)
  <2>1. i \in 1 .. b - a
    BY <1>2
  <2>2. y[i] = t[a + i] /\ x[i] = ws[a + i] /\ a + i \in 1 .. n
    BY <1>2, <1>3, <2>1
  <2> QED BY <1>1, <2>2
<1>5. Len(x) = Len(y)
  BY <1>2, <1>3
<1>6. x = y
  BY <1>2, <1>3, <1>4, <1>5, SeqEqual
<1> QED BY <1>6 DEF x, y, t

LEMMA LaidSame ==
    ASSUME NEW ws \in Seq(KeyVals), NEW e \in KeyVals, NEW a, NEW b, b <= Len(ws)
    PROVE  /\ \A imms : Frozen(imms, ws, a, b) => Frozen(imms, Append(ws, e), a, b)
           /\ \A files : Flushed(files, ws, a, b) => Flushed(files, Append(ws, e), a, b)
<1> DEFINE n == Len(ws)
           t == Append(ws, e)
<1>1. ASSUME NEW c, NEW m, Cuts(c, m, a, b), NEW i \in 1 .. m
      PROVE  Slice(t, c[i - 1], c[i]) = Slice(ws, c[i - 1], c[i])
  <2> DEFINE x == c[i - 1]
             y == c[i]
  <2>1. x \in Nat /\ y \in Nat /\ x <= y /\ y <= b /\ b \in Nat
    <3>1. m \in Nat /\ i \in 0 .. m
      BY <1>1, CutBounds
    <3> QED BY <1>1, <3>1, CutBounds
  <2> HIDE DEF x, y
  <2>2. y <= Len(ws)
    BY <2>1
  <2>3. Slice(Append(ws, e), x, y) = Slice(ws, x, y)
    BY <2>1, <2>2, SliceSame
  <2> QED BY <2>3 DEF x, y
<1> HIDE DEF t
<1>2. ASSUME NEW imms, Frozen(imms, ws, a, b) PROVE Frozen(imms, t, a, b)
  <2>1. PICK c : /\ Cuts(c, Len(imms), a, b)
                 /\ \A i \in 1 .. Len(imms) : imms[i] = Part(ws, c[i - 1], c[i])
    BY <1>2 DEF Frozen
  <2>2. \A i \in 1 .. Len(imms) : imms[i] = Part(t, c[i - 1], c[i])
    BY <1>1, <2>1 DEF Part
  <2> QED BY <1>2, <2>1, <2>2 DEF Frozen
<1>3. ASSUME NEW files, Flushed(files, ws, a, b) PROVE Flushed(files, t, a, b)
  <2>1. PICK c : /\ Cuts(c, Len(files), a, b)
                 /\ \A i \in 1 .. Len(files) : c[i - 1] < c[i] /\ files[i] = FileOf(ws, c[i - 1], c[i])
    BY <1>3 DEF Flushed
  <2>2. \A i \in 1 .. Len(files) : c[i - 1] < c[i] /\ files[i] = FileOf(t, c[i - 1], c[i])
    BY <1>1, <2>1 DEF FileOf, Part
  <2> QED BY <1>3, <2>1, <2>2 DEF Flushed
<1> QED BY <1>2, <1>3 DEF t


(* The writes that count are in one piece.                                 *)
LEMMA TellWithin ==
    ASSUME NEW ws, NEW k, NEW a \in Nat, NEW x \in Nat, NEW y \in Nat, NEW b \in Nat,
           a <= x, x <= y, y <= b, \A i \in y + 1 .. b : Key(ws[i]) # k,
           (\E i \in x + 1 .. y : Key(ws[i]) = k) \/ (\A i \in a + 1 .. x : Key(ws[i]) # k)
    PROVE  Tell(ws, a, b, k) = Tell(ws, x, y, k)
<1>1. Tell(ws, a, b, k) = Tell(ws, a, y, k)
  <2>1. a <= y
    OBVIOUS
  <2> QED BY <2>1, TellParts
<1>2. CASE \E i \in x + 1 .. y : Key(ws[i]) = k
  <2>1. Tell(ws, a, y, k) = Tell(ws, x, y, k)
    BY <1>2, TellParts
  <2> QED BY <1>1, <2>1
<1>3. CASE (\A i \in a + 1 .. x : Key(ws[i]) # k) /\ (\A i \in x + 1 .. y : Key(ws[i]) # k)
  <2>1. Tell(ws, a, y, k) = Tell(ws, a, x, k)
    BY <1>3, TellParts
  <2>2. Places(ws, a, x, k) = {} /\ Places(ws, x, y, k) = {}
    BY <1>3 DEF Places
  <2>3. Tell(ws, a, x, k) = Missing /\ Tell(ws, x, y, k) = Missing
    BY <2>2 DEF Tell
  <2> QED BY <1>1, <2>1, <2>3
<1> QED BY <1>2, <1>3

LEMMA TellNone ==
    ASSUME NEW ws, NEW a, NEW b, NEW k, \A i \in a + 1 .. b : Key(ws[i]) # k
    PROVE  Tell(ws, a, b, k) = Missing
<1>1. Places(ws, a, b, k) = {}
  BY DEF Places
<1> QED BY <1>1 DEF Tell

LEMMA TellSome ==
    ASSUME NEW ws \in Seq(KeyVals), NEW a \in Nat, NEW b \in Nat, b <= Len(ws), NEW k
    PROVE  Tell(ws, a, b, k) # Missing <=> \E i \in a + 1 .. b : Key(ws[i]) = k
<1>1. ASSUME \E i \in a + 1 .. b : Key(ws[i]) = k PROVE Tell(ws, a, b, k) # Missing
  <2>1. PICK i \in a + 1 .. b : Tell(ws, a, b, k) = Val(ws[i])
    BY <1>1, LastPlace
  <2>2. i \in 1 .. Len(ws)
    OBVIOUS
  <2>3. Val(ws[i]) \in Nat
    BY <2>2 DEF KeyVals, Val
  <2> QED BY <2>1, <2>3, LsmAssumption
<1>2. ASSUME ~(\E i \in a + 1 .. b : Key(ws[i]) = k) PROVE Tell(ws, a, b, k) = Missing
  BY <1>2, TellNone
<1> QED BY <1>1, <1>2

(* A key that no piece behind the i-th has is not behind it.               *)
Silent(ws, a, b, k) == \A p \in a + 1 .. b : Key(ws[p]) # k

LEMMA PieceOf ==
    ASSUME NEW c, NEW n, NEW a, NEW b, Cuts(c, n, a, b), NEW ws, NEW k, NEW i \in 1 .. n,
           \A j \in i + 1 .. n : Silent(ws, c[j - 1], c[j], k)
    PROVE  Silent(ws, c[i], b, k)
<1> SUFFICES ASSUME NEW p \in c[i] + 1 .. b PROVE Key(ws[p]) # k
  BY DEF Silent
<1>1. n \in Nat /\ a \in Nat /\ b \in Nat /\ i \in 0 .. n
  BY CutBounds
<1>2. c[i] \in a .. b
  BY <1>1, CutBounds
<1>3. p \in a + 1 .. b
  BY <1>1, <1>2
<1>4. PICK j \in 1 .. n : p \in c[j - 1] + 1 .. c[j]
  BY <1>3, CutFinds
<1>5. j \in 0 .. n /\ c[j] \in Nat /\ c[i] < c[j]
  <2>1. j \in 0 .. n
    BY <1>1
  <2>2. c[j] \in a .. b
    BY <2>1, CutBounds
  <2> QED BY <1>1, <1>2, <1>4, <2>1, <2>2
<1>6. ~(j <= i)
  BY <1>1, <1>2, <1>5 DEF Cuts
<1>7. j \in i + 1 .. n
  BY <1>1, <1>6
<1> QED BY <1>4, <1>7 DEF Silent

(* Searching files from the newest finds what was written last.            *)
LEMMA NewestIs ==
    ASSUME NEW ws \in Seq(KeyVals), NEW files, NEW a, NEW b, Flushed(files, ws, a, b), b <= Len(ws),
           NEW k \in Int
    PROVE  Newest(files, k) = Tell(ws, a, b, k)
<1> DEFINE n == Len(files)
           I == {i \in 1 .. n : TableGet(files[i], k) # Missing}
           m == Max(I)
<1>1. PICK c : /\ Cuts(c, n, a, b)
               /\ \A i \in 1 .. n : c[i - 1] < c[i] /\ files[i] = FileOf(ws, c[i - 1], c[i])
  BY DEF Flushed
<1>2. Newest(files, k) = IF (IF I # {} THEN m ELSE 0) = 0 THEN Missing
                         ELSE TableGet(files[IF I # {} THEN m ELSE 0], k)
  BY DEF Newest, SelectLastInSeq
<1> HIDE DEF n, m
<1>3. /\ n \in Nat /\ a \in Nat /\ b \in Nat /\ a <= b
      /\ \A i \in 0 .. n : c[i] \in a .. b
      /\ \A i \in 1 .. n : c[i - 1] \in Nat /\ c[i] \in Nat
  BY <1>1, CutBounds
<1>4. ASSUME NEW i \in 1 .. n
      PROVE  /\ TableGet(files[i], k) = Tell(ws, c[i - 1], c[i], k)
             /\ i \in I <=> \E p \in c[i - 1] + 1 .. c[i] : Key(ws[p]) = k
  <2> DEFINE x == c[i - 1]
             y == c[i]
  <2>1. x \in Nat /\ y \in Nat /\ x < y /\ files[i] = FileOf(ws, x, y) /\ y <= b
    <3>1. i \in 0 .. n
      BY <1>3
    <3> QED BY <1>1, <1>3, <3>1
  <2> HIDE DEF x, y
  <2>2. y <= Len(ws)
    BY <1>3, <2>1
  <2>3. TableGet(files[i], k) = Tell(ws, x, y, k)
    BY <2>1, <2>2, FileTells
  <2>4. Tell(ws, x, y, k) # Missing <=> \E p \in x + 1 .. y : Key(ws[p]) = k
    BY <2>1, <2>2, TellSome
  <2> QED BY <2>3, <2>4 DEF x, y
<1>5. CASE I = {}
  <2>1. \A p \in a + 1 .. b : Key(ws[p]) # k
    <3> TAKE p \in a + 1 .. b
    <3>1. PICK i \in 1 .. n : p \in c[i - 1] + 1 .. c[i]
      BY <1>1, CutFinds
    <3> QED BY <1>4, <1>5, <3>1
  <2>2. Tell(ws, a, b, k) = Missing
    BY <2>1, TellNone
  <2> QED BY <1>2, <1>5, <2>2
<1>6. CASE I # {}
  <2>1. m \in I /\ \A i \in I : i <= m
    <3>1. I \in SUBSET (0 .. n)
      BY <1>3
    <3> HIDE DEF I
    <3> QED BY <1>3, <1>6, <3>1, MaxIsMember DEF m
  <2>2. m \in 1 .. n
    BY <2>1
  <2>3. \E p \in c[m - 1] + 1 .. c[m] : Key(ws[p]) = k
    <3> HIDE DEF I
    <3> QED BY <1>4, <2>1, <2>2
  <2>4. \A j \in m + 1 .. n : Silent(ws, c[j - 1], c[j], k)
    <3> TAKE j \in m + 1 .. n
    <3>1. j \in 1 .. n /\ ~(j <= m)
      BY <1>3, <2>2
    <3>2. j \notin I
      <4> HIDE DEF I
      <4> QED BY <2>1, <3>1
    <3> HIDE DEF I
    <3> QED BY <1>4, <3>1, <3>2 DEF Silent
  <2>5. Silent(ws, c[m], b, k)
    BY <1>1, <2>2, <2>4, PieceOf
  <2> DEFINE x == c[m - 1]
             y == c[m]
  <2>6. x \in Nat /\ y \in Nat /\ a <= x /\ x <= y /\ y <= b
    <3>1. m \in 0 .. n /\ m - 1 \in 0 .. n
      BY <1>3, <2>2
    <3>2. c[m - 1] \in a .. b /\ c[m] \in a .. b
      BY <1>3, <3>1
    <3>3. c[m - 1] < c[m]
      BY <1>1, <2>2
    <3> QED BY <1>3, <3>2, <3>3
  <2> HIDE DEF x, y
  <2>7. Tell(ws, a, b, k) = Tell(ws, x, y, k)
    <3>1. \A p \in y + 1 .. b : Key(ws[p]) # k
      BY <2>5 DEF y, Silent
    <3>2. \E p \in x + 1 .. y : Key(ws[p]) = k
      BY <2>3 DEF x, y
    <3> QED BY <1>3, <2>6, <3>1, <3>2, TellWithin
  <2>8. Newest(files, k) = TableGet(files[m], k)
    <3> HIDE DEF I
    <3> QED BY <1>2, <1>6, <2>2
  <2> QED BY <1>4, <2>2, <2>7, <2>8 DEF x, y
<1> QED BY <1>5, <1>6


(* A table of few entries has one block.                                   *)
LEMMA OneBlock ==
    ASSUME NEW es \in Seq(KeyVals), es # <<>>, RisesByKey(es), Len(es) <= BlockEntries
    PROVE  TableFor(es).blocks = <<es>> /\ TableFor(es).index = <<Key(es[Len(es)])>>
<1> DEFINE n == Len(es)
           B == BlockEntries
           q == BlockCount(es)
           t == TableFor(es)
           x == Key(es[n])
<1>1. n \in Nat /\ n # 0 /\ B \in Nat \ {0} /\ q = (n + B - 1) \div B
  BY TableAssumption DEF BlockCount
<1>2. /\ q \in Nat \ {0} /\ t.blocks = [b \in 1 .. q |-> BlockOf(es, b)]
      /\ t.index \in Seq(Int) /\ Len(t.index) = q
      /\ \A b \in 1 .. q : t.index[b] = Key(es[EndOfBlock(es, b)])
  BY TableForIs
<1> HIDE DEF q, t
<1>3. q = 1
  <2> SUFFICES ASSUME q # 1 PROVE FALSE
    OBVIOUS
  <2>1. 2 \in 1 .. q
    BY <1>2
  <2>2. (2 - 1) * B < n
    <3> HIDE DEF n, B
    <3> QED BY <1>1, <2>1, BlockBounds
  <2> QED BY <1>1, <2>2
<1>4. EndOfBlock(es, 1) = n
  <2>1. 1 * B = B
    BY <1>1
  <2> QED BY <1>1, <2>1 DEF EndOfBlock
<1>5. BlockOf(es, 1) = es
  <2>1. (1 - 1) * B = 0 /\ (1 - 1) * B + 1 = 1
    BY <1>1
  <2>2. BlockOf(es, 1) = SubSeq(es, 1, n)
    BY <1>4, <2>1 DEF BlockOf
  <2> QED BY <2>2, SubSeqFull
<1>6. t.blocks = <<es>>
  <2>1. t.blocks = [b \in 1 .. 1 |-> es]
    BY <1>2, <1>3, <1>5
  <2> QED BY <2>1
<1>7. t.index = <<x>>
  <2>1. t.index[1] = x
    BY <1>2, <1>3, <1>4
  <2> HIDE DEF x
  <2> QED BY <1>2, <1>3, <2>1
<1> QED BY <1>6, <1>7 DEF t

Rising(ws) == RisesByKey(ws) /\ Len(ws) <= BlockEntries

LEMMA FileOfOne ==
    ASSUME NEW ws \in Seq(KeyVals), Rising(ws), NEW a \in Nat, NEW b \in Nat, a < b, b <= Len(ws)
    PROVE  /\ Slice(ws, a, b) \in Seq(KeyVals) /\ Len(Slice(ws, a, b)) = b - a /\ RisesByKey(Slice(ws, a, b))
           /\ \A i \in 1 .. b - a : Slice(ws, a, b)[i] = ws[a + i] /\ a + i \in 1 .. Len(ws)
           /\ FileOf(ws, a, b) = TableFor(Slice(ws, a, b))
           /\ FileOf(ws, a, b).blocks = <<Slice(ws, a, b)>> /\ FileOf(ws, a, b).index = <<Key(ws[b])>>
<1> DEFINE n == Len(ws)
           s == Slice(ws, a, b)
<1>1. n \in Nat /\ \A i, j \in 1 .. n : i < j => Key(ws[i]) < Key(ws[j])
  BY DEF Rising, RisesByKey
<1>2. /\ s \in Seq(KeyVals) /\ Len(s) = b - a
      /\ \A i \in 1 .. b - a : s[i] = ws[a + i] /\ a + i \in 1 .. n
  <2>1. a <= b
    OBVIOUS
  <2> QED BY <2>1, SliceIs
<1>3. FileOf(ws, a, b) = TableFor(Entries(Replay(s)))
  BY DEF FileOf, Part
<1> HIDE DEF s, n
<1>4. RisesByKey(s)
  <2> SUFFICES ASSUME NEW i \in 1 .. Len(s), NEW j \in 1 .. Len(s), i < j PROVE Key(s[i]) < Key(s[j])
    BY DEF RisesByKey
  <2>1. i \in 1 .. b - a /\ j \in 1 .. b - a
    BY <1>2
  <2>2. s[i] = ws[a + i] /\ s[j] = ws[a + j] /\ a + i \in 1 .. n /\ a + j \in 1 .. n /\ a + i < a + j
    BY <1>2, <2>1
  <2> QED BY <1>1, <2>2
<1>5. Entries(Replay(s)) = s
  BY <1>2, <1>4, EntriesSame
<1>6. s # <<>> /\ Len(s) <= BlockEntries
  <2>1. n <= BlockEntries /\ BlockEntries \in Nat
    BY TableAssumption DEF Rising, n
  <2>2. b <= n
    BY DEF n
  <2> QED BY <1>1, <1>2, <2>1, <2>2
<1>7. TableFor(s).blocks = <<s>> /\ TableFor(s).index = <<Key(s[Len(s)])>>
  BY <1>2, <1>4, <1>6, OneBlock
<1>8. s[Len(s)] = ws[b]
  <2>1. b - a \in 1 .. b - a /\ a + (b - a) = b
    OBVIOUS
  <2> QED BY <1>2, <2>1
<1> QED BY <1>2, <1>3, <1>4, <1>5, <1>7, <1>8 DEF s, n

(* The search of a level above level 0 finds what was written last, if keys *)
(* only ever grew.                                                         *)
LEMMA InLevelIs ==
    ASSUME NEW ws \in Seq(KeyVals), Rising(ws), NEW files, NEW a, NEW b, Flushed(files, ws, a, b),
           b <= Len(ws), NEW lv, lv # 0, NEW k \in Int
    PROVE  InLevel(files, lv, k) = Tell(ws, a, b, k)
<1> DEFINE n == Len(files)
           ends == [f \in DOMAIN files |-> files[f].index[1]]
           i == FirstNotBelow(ends, k)
<1>1. PICK c : /\ Cuts(c, n, a, b)
               /\ \A f \in 1 .. n : c[f - 1] < c[f] /\ files[f] = FileOf(ws, c[f - 1], c[f])
  BY DEF Flushed
<1>2. PICK S : files \in Seq(S)
  BY DEF Flushed, IsList
<1>3. n \in Nat /\ DOMAIN files = 1 .. n
  BY <1>2
<1>4. InLevel(files, lv, k) = IF i > n THEN Missing ELSE TableGet(files[i], k)
  BY DEF InLevel
<1> HIDE DEF n, i
<1>5. /\ a \in Nat /\ b \in Nat /\ a <= b
      /\ \A f \in 0 .. n : c[f] \in a .. b
      /\ \A f \in 1 .. n : c[f - 1] \in Nat /\ c[f] \in Nat
  BY <1>1, CutBounds
<1>6. Len(ws) \in Nat /\ \A x, y \in 1 .. Len(ws) : x < y => Key(ws[x]) < Key(ws[y])
  BY DEF Rising, RisesByKey
<1>7. \A x \in 1 .. Len(ws) : Key(ws[x]) \in Int
  BY DEF KeyVals, Key
<1>8. ASSUME NEW f \in 1 .. n
      PROVE  /\ ends[f] = Key(ws[c[f]]) /\ c[f] \in 1 .. Len(ws)
             /\ TableGet(files[f], k) = Tell(ws, c[f - 1], c[f], k)
  <2> DEFINE x == c[f - 1]
             y == c[f]
  <2>1. x \in Nat /\ y \in Nat /\ x < y /\ files[f] = FileOf(ws, x, y) /\ y <= b
    <3>1. f \in 0 .. n
      BY <1>3
    <3> QED BY <1>1, <1>5, <3>1
  <2> HIDE DEF x, y
  <2>2. y <= Len(ws)
    BY <1>5, <1>6, <2>1
  <2>3. FileOf(ws, x, y).index = <<Key(ws[y])>>
    BY <2>1, <2>2, FileOfOne
  <2>4. TableGet(files[f], k) = Tell(ws, x, y, k)
    BY <2>1, <2>2, FileTells
  <2>5. ends[f] = Key(ws[y])
    BY <1>3, <2>1, <2>3
  <2>6. y \in 1 .. Len(ws)
    BY <1>6, <2>1, <2>2
  <2> QED BY <2>4, <2>5, <2>6 DEF x, y
<1>9. ends \in Seq(Int) /\ Len(ends) = n
  <2>1. \A f \in 1 .. n : ends[f] \in Int
    BY <1>7, <1>8
  <2>2. ends = [f \in 1 .. n |-> ends[f]]
    BY <1>3
  <2> HIDE DEF ends
  <2> QED BY <1>3, <2>1, <2>2
<1> HIDE DEF ends
<1>10. \A f, g \in 1 .. n : f < g => ends[f] <= ends[g]
  <2> TAKE f, g \in 1 .. n
  <2> HAVE f < g
  <2>1. f \in 0 .. n /\ g \in 0 .. n /\ f <= g
    BY <1>3
  <2>2. c[f] <= c[g]
    BY <1>1, <2>1 DEF Cuts
  <2>3. c[f] \in 1 .. Len(ws) /\ c[g] \in 1 .. Len(ws) /\ ends[f] = Key(ws[c[f]]) /\ ends[g] = Key(ws[c[g]])
    BY <1>8
  <2>4. c[f] = c[g] \/ Key(ws[c[f]]) < Key(ws[c[g]])
    BY <1>6, <2>2, <2>3
  <2>5. Key(ws[c[f]]) \in Int /\ Key(ws[c[g]]) \in Int
    BY <1>7, <2>3
  <2> QED BY <2>3, <2>4, <2>5
<1>11. i \in 1 .. n + 1 /\ \A f \in 1 .. n : f < i <=> ends[f] < k
  BY <1>9, <1>10, FirstNotBelowIs DEF i
<1>12. ASSUME NEW f \in 1 .. n, f < i PROVE \A p \in a + 1 .. c[f] : Key(ws[p]) # k
  <2> TAKE p \in a + 1 .. c[f]
  <2>1. Key(ws[c[f]]) < k /\ c[f] \in 1 .. Len(ws)
    BY <1>8, <1>11, <1>12
  <2> DEFINE y == c[f]
  <2>2. p \in 1 .. Len(ws) /\ (p = y \/ p < y) /\ y \in 1 .. Len(ws)
    BY <1>5, <1>6, <2>1
  <2> HIDE DEF y
  <2>3. Key(ws[p]) \in Int /\ Key(ws[y]) \in Int /\ Key(ws[y]) < k
    BY <1>7, <2>1, <2>2 DEF y
  <2>4. p < y => Key(ws[p]) < Key(ws[y])
    BY <1>6, <2>2
  <2> QED BY <2>2, <2>3, <2>4
<1>13. CASE i > n
  <2>1. \A p \in a + 1 .. b : Key(ws[p]) # k
    <3>1. CASE n = 0
      <4>1. a = b
        BY <1>1, <3>1, CutBounds
      <4> QED BY <1>5, <4>1
    <3>2. CASE n # 0
      <4>1. n \in 1 .. n /\ n < i /\ c[n] = b
        BY <1>1, <1>3, <1>11, <1>13, <3>2 DEF Cuts
      <4> QED BY <1>12, <4>1
    <3> QED BY <3>1, <3>2
  <2>2. Tell(ws, a, b, k) = Missing
    BY <2>1, TellNone
  <2> QED BY <1>4, <1>13, <2>2
<1>14. CASE ~(i > n)
  <2>1. i \in 1 .. n
    BY <1>3, <1>11, <1>14
  <2> DEFINE x == c[i - 1]
             y == c[i]
  <2>2. /\ ends[i] = Key(ws[y]) /\ y \in 1 .. Len(ws) /\ TableGet(files[i], k) = Tell(ws, x, y, k)
    BY <1>8, <2>1
  <2>3. x \in Nat /\ y \in Nat /\ a <= x /\ x <= y /\ y <= b
    <3>1. i \in 0 .. n /\ i - 1 \in 0 .. n
      BY <1>3, <2>1
    <3>2. c[i - 1] \in a .. b /\ c[i] \in a .. b
      BY <1>5, <3>1
    <3>3. c[i - 1] < c[i]
      BY <1>1, <2>1
    <3> QED BY <1>5, <3>2, <3>3
  <2>4. \A p \in a + 1 .. x : Key(ws[p]) # k
    <3>1. CASE i = 1
      <4>1. x = a
        BY <1>1, <3>1 DEF Cuts
      <4> QED BY <1>5, <4>1
    <3>2. CASE i # 1
      <4>1. i - 1 \in 1 .. n /\ i - 1 < i
        BY <1>3, <2>1, <3>2
      <4> QED BY <1>12, <4>1
    <3> QED BY <3>1, <3>2
  <2>5. ~(Key(ws[y]) < k)
    <3>1. ~(i < i)
      BY <2>1, <1>3
    <3> QED BY <1>11, <2>1, <2>2, <3>1
  <2> HIDE DEF x, y
  <2>6. \A p \in y + 1 .. b : Key(ws[p]) # k
    <3> TAKE p \in y + 1 .. b
    <3>1. p \in 1 .. Len(ws) /\ y < p
      BY <1>5, <1>6, <2>2
    <3>2. Key(ws[y]) < Key(ws[p]) /\ Key(ws[p]) \in Int /\ Key(ws[y]) \in Int
      BY <1>6, <1>7, <2>2, <3>1
    <3> QED BY <2>5, <3>2
  <2>7. Tell(ws, a, b, k) = Tell(ws, x, y, k)
    BY <1>5, <2>3, <2>4, <2>6, TellWithin
  <2> QED BY <1>4, <1>14, <2>2, <2>7
<1> QED BY <1>13, <1>14

(* A level without files tells nothing.                                    *)
LEMMA InLevelNone ==
    ASSUME NEW lv, lv # 0, NEW k \in Int
    PROVE  InLevel(<<>>, lv, k) = Missing
<1> DEFINE e == <<>>
           ends == [f \in DOMAIN e |-> e[f].index[1]]
<1>1. ends \in Seq(Int) /\ Len(ends) = 0 /\ Len(e) = 0
  OBVIOUS
<1>2. InLevel(e, lv, k) = IF FirstNotBelow(ends, k) > Len(e) THEN Missing
                          ELSE TableGet(e[FirstNotBelow(ends, k)], k)
  BY DEF InLevel
<1> HIDE DEF e, ends
<1>3. FirstNotBelow(ends, k) \in 1 .. 0 + 1
  <2>1. \A i, j \in 1 .. Len(ends) : i < j => ends[i] <= ends[j]
    BY <1>1
  <2> QED BY <1>1, <2>1, FirstNotBelowIs
<1>4. FirstNotBelow(ends, k) > Len(e)
  BY <1>1, <1>3
<1> QED BY <1>2, <1>4 DEF e


(* The newest memtable that has a key.                                     *)
MemOf(mems, k) == SelectLastInSeq(mems, LAMBDA m : k \in DOMAIN m)

LEMMA MemOfIs ==
    ASSUME NEW ws \in Seq(KeyVals), NEW mems, NEW a, NEW b, Frozen(mems, ws, a, b), b <= Len(ws), NEW k
    PROVE  /\ MemOf(mems, k) # 0 => mems[MemOf(mems, k)][k] = Tell(ws, 0, b, k)
           /\ MemOf(mems, k) = 0 => Tell(ws, 0, b, k) = Tell(ws, 0, a, k)
<1> DEFINE n == Len(mems)
           I == {i \in 1 .. n : k \in DOMAIN mems[i]}
           m == Max(I)
           z == 0
<1>1. PICK c : /\ Cuts(c, n, a, b)
               /\ \A i \in 1 .. n : mems[i] = Part(ws, c[i - 1], c[i])
  BY DEF Frozen
<1>2. MemOf(mems, k) = IF I # {} THEN m ELSE 0
  BY DEF MemOf, SelectLastInSeq
<1> HIDE DEF n, m
<1>3. /\ n \in Nat /\ a \in Nat /\ b \in Nat /\ a <= b
      /\ \A i \in 0 .. n : c[i] \in a .. b
      /\ \A i \in 1 .. n : c[i - 1] \in Nat /\ c[i] \in Nat /\ c[i - 1] <= c[i]
  BY <1>1, CutBounds
<1>4. ASSUME NEW i \in 1 .. n
      PROVE  /\ i \in I <=> \E p \in c[i - 1] + 1 .. c[i] : Key(ws[p]) = k
             /\ i \in I => mems[i][k] = Tell(ws, c[i - 1], c[i], k)
  <2> DEFINE x == c[i - 1]
             y == c[i]
  <2>1. x \in Nat /\ y \in Nat /\ x <= y /\ mems[i] = Part(ws, x, y) /\ y <= b
    <3>1. i \in 0 .. n
      BY <1>3
    <3> QED BY <1>1, <1>3, <3>1
  <2> HIDE DEF x, y
  <2>2. y <= Len(ws)
    BY <1>3, <2>1
  <2>3. k \in DOMAIN Part(ws, x, y) <=> \E p \in x + 1 .. y : Key(ws[p]) = k
    BY <2>1, <2>2, PartIs
  <2>4. k \in DOMAIN Part(ws, x, y) => Part(ws, x, y)[k] = Tell(ws, x, y, k)
    BY <2>1, <2>2, PartIs
  <2> QED BY <2>1, <2>3, <2>4 DEF x, y
<1>5. z \in Nat /\ z <= a /\ z = 0
  BY <1>3
<1> HIDE DEF z
<1>6. CASE I = {}
  <2>1. \A p \in a + 1 .. b : Key(ws[p]) # k
    <3> TAKE p \in a + 1 .. b
    <3>1. PICK i \in 1 .. n : p \in c[i - 1] + 1 .. c[i]
      BY <1>1, CutFinds
    <3> QED BY <1>4, <1>6, <3>1
  <2>2. Tell(ws, z, b, k) = Tell(ws, z, a, k)
    BY <1>3, <1>5, <2>1, TellParts
  <2> QED BY <1>2, <1>5, <1>6, <2>2
<1>7. CASE I # {}
  <2>1. m \in I /\ \A i \in I : i <= m
    <3>1. I \in SUBSET (0 .. n)
      BY <1>3
    <3> HIDE DEF I
    <3> QED BY <1>3, <1>7, <3>1, MaxIsMember DEF m
  <2>2. m \in 1 .. n
    BY <2>1
  <2>3. (\E p \in c[m - 1] + 1 .. c[m] : Key(ws[p]) = k) /\ mems[m][k] = Tell(ws, c[m - 1], c[m], k)
    <3> HIDE DEF I
    <3> QED BY <1>4, <2>1, <2>2
  <2>4. \A j \in m + 1 .. n : Silent(ws, c[j - 1], c[j], k)
    <3> TAKE j \in m + 1 .. n
    <3>1. j \in 1 .. n /\ ~(j <= m)
      BY <1>3, <2>2
    <3>2. j \notin I
      <4> HIDE DEF I
      <4> QED BY <2>1, <3>1
    <3> HIDE DEF I
    <3> QED BY <1>4, <3>1, <3>2 DEF Silent
  <2>5. Silent(ws, c[m], b, k)
    BY <1>1, <2>2, <2>4, PieceOf
  <2> DEFINE x == c[m - 1]
             y == c[m]
  <2>6. x \in Nat /\ y \in Nat /\ z <= x /\ x <= y /\ y <= b
    <3>1. m \in 0 .. n
      BY <1>3, <2>2
    <3>2. c[m - 1] \in Nat /\ c[m] \in a .. b /\ c[m - 1] <= c[m]
      BY <1>3, <2>2, <3>1
    <3> QED BY <1>3, <1>5, <3>2
  <2> HIDE DEF x, y
  <2>7. Tell(ws, z, b, k) = Tell(ws, x, y, k)
    <3>1. \A p \in y + 1 .. b : Key(ws[p]) # k
      BY <2>5 DEF y, Silent
    <3>2. \E p \in x + 1 .. y : Key(ws[p]) = k
      BY <2>3 DEF x, y
    <3> QED BY <1>3, <1>5, <2>6, <3>1, <3>2, TellWithin
  <2>8. MemOf(mems, k) = m /\ m # 0
    <3> HIDE DEF I
    <3> QED BY <1>2, <1>7, <2>2
  <2>9. mems[m][k] = Tell(ws, x, y, k)
    BY <2>3 DEF x, y
  <2> QED BY <1>5, <2>7, <2>8, <2>9
<1> QED BY <1>6, <1>7

(* Of the levels, the first that has a key tells.  Level lv holds piece    *)
(* LsmLevels - lv of the writes.                                           *)
FirstFound(vs) ==
  LET i == SelectInSeq(vs, LAMBDA v : v # Missing) IN IF i # 0 THEN vs[i] ELSE Missing

LEMMA FirstFoundIs ==
    ASSUME NEW ws \in Seq(KeyVals), NEW c, NEW n, NEW b, Cuts(c, n, 0, b), b <= Len(ws), NEW k,
           NEW vs, Len(vs) = n, \A i \in 1 .. n : vs[i] = Tell(ws, c[n - i], c[n - i + 1], k)
    PROVE  FirstFound(vs) = Tell(ws, 0, b, k)
<1> DEFINE I == {i \in 1 .. n : vs[i] # Missing}
           m == Min(I)
           z == 0
<1>1. FirstFound(vs) = IF (IF I # {} THEN m ELSE 0) # 0 THEN vs[IF I # {} THEN m ELSE 0] ELSE Missing
  BY DEF FirstFound, SelectInSeq
<1> HIDE DEF m
<1>2. /\ n \in Nat /\ b \in Nat
      /\ \A i \in 0 .. n : c[i] \in 0 .. b
      /\ \A i \in 1 .. n : c[i - 1] \in Nat /\ c[i] \in Nat /\ c[i - 1] <= c[i]
  BY CutBounds
<1>3. \A i \in 1 .. n : n - i + 1 \in 1 .. n /\ (n - i + 1) - 1 = n - i /\ n - (n - i + 1) + 1 = i
  BY <1>2
<1>4. ASSUME NEW j \in 1 .. n
      PROVE  n - j + 1 \in I <=> \E p \in c[j - 1] + 1 .. c[j] : Key(ws[p]) = k
  <2> DEFINE i == n - j + 1
             x == c[j - 1]
             y == c[j]
  <2>1. i \in 1 .. n /\ n - i = j - 1 /\ n - i + 1 = j
    BY <1>2
  <2>2. vs[i] = Tell(ws, x, y, k)
    <3> HIDE DEF i
    <3> QED BY <2>1
  <2>3. x \in Nat /\ y \in Nat /\ y <= b
    <3>1. j \in 0 .. n
      BY <1>2
    <3>2. c[j] \in 0 .. b
      BY <1>2, <3>1
    <3> QED BY <1>2, <3>2
  <2> HIDE DEF i, x, y
  <2>4. y <= Len(ws)
    BY <1>2, <2>3
  <2>5. Tell(ws, x, y, k) # Missing <=> \E p \in x + 1 .. y : Key(ws[p]) = k
    BY <2>3, <2>4, TellSome
  <2>6. i \in I <=> vs[i] # Missing
    BY <2>1
  <2> HIDE DEF I
  <2> QED BY <2>2, <2>5, <2>6 DEF i, x, y
<1>5. CASE I = {}
  <2>1. \A p \in 1 .. b : Key(ws[p]) # k
    <3> TAKE p \in 1 .. b
    <3>1. PICK j \in 1 .. n : p \in c[j - 1] + 1 .. c[j]
      <4>1. p \in 0 + 1 .. b
        OBVIOUS
      <4> QED BY <4>1, CutFinds
    <3> QED BY <1>4, <1>5, <3>1
  <2>2. Tell(ws, z, b, k) = Missing
    <3>1. \A p \in z + 1 .. b : Key(ws[p]) # k
      BY <2>1
    <3> HIDE DEF z
    <3> QED BY <3>1, TellNone
  <2> QED BY <1>1, <1>5, <2>2
<1>6. CASE I # {}
  <2>1. m \in I /\ \A i \in I : m <= i
    <3>1. I \in SUBSET Nat
      BY <1>2
    <3> HIDE DEF I
    <3> QED BY <1>6, <3>1, MinIsMember DEF m
  <2> DEFINE j == n - m + 1
  <2>2. m \in 1 .. n /\ j \in 1 .. n /\ n - j + 1 = m /\ n - m = j - 1
    <3>1. m \in 1 .. n
      BY <2>1
    <3> QED BY <1>2, <3>1
  <2>3. \A l \in j + 1 .. n : Silent(ws, c[l - 1], c[l], k)
    <3> TAKE l \in j + 1 .. n
    <3>1. l \in 1 .. n /\ ~(m <= n - l + 1)
      BY <1>2, <2>2
    <3>2. n - l + 1 \notin I
      <4> HIDE DEF I
      <4> QED BY <2>1, <3>1
    <3> HIDE DEF I
    <3> QED BY <1>4, <3>1, <3>2 DEF Silent
  <2>4. \E p \in c[j - 1] + 1 .. c[j] : Key(ws[p]) = k
    <3> HIDE DEF I, j
    <3> QED BY <1>4, <2>1, <2>2
  <2>5. vs[m] = Tell(ws, c[j - 1], c[j], k)
    BY <2>2
  <2> HIDE DEF j
  <2>6. Silent(ws, c[j], b, k)
    BY <2>2, <2>3, PieceOf
  <2> DEFINE x == c[j - 1]
             y == c[j]
  <2>7. x \in Nat /\ y \in Nat /\ z <= x /\ x <= y /\ y <= b
    <3>1. j \in 0 .. n
      BY <1>2, <2>2
    <3>2. c[j - 1] \in Nat /\ c[j] \in 0 .. b /\ c[j - 1] <= c[j]
      BY <1>2, <2>2, <3>1
    <3> QED BY <1>2, <3>2
  <2> HIDE DEF x, y
  <2>8. z \in Nat
    OBVIOUS
  <2>9. Tell(ws, z, b, k) = Tell(ws, x, y, k)
    <3>1. \A p \in y + 1 .. b : Key(ws[p]) # k
      BY <2>6 DEF y, Silent
    <3>2. \E p \in x + 1 .. y : Key(ws[p]) = k
      BY <2>4 DEF x, y
    <3> HIDE DEF z
    <3> QED BY <1>2, <2>7, <2>8, <3>1, <3>2, TellWithin
  <2>10. FirstFound(vs) = vs[m]
    <3> HIDE DEF I
    <3> QED BY <1>1, <1>6, <2>2
  <2>11. vs[m] = Tell(ws, x, y, k)
    BY <2>5 DEF x, y
  <2> QED BY <2>9, <2>10, <2>11
<1> QED BY <1>5, <1>6


(* The cursors of a heap, each with a number by which they are ordered.    *)
Orders(tables, C, W) ==
    W \in [C -> Nat] /\ \A x, y \in C : Before(tables, x, y) <=> W[x] < W[y]
Half(j) == j \div 2
IsHeap(h, W) == \A j \in 2 .. Len(h) : W[h[Half(j)]] <= W[h[j]]

(* A heap but for the cursor at one place, which may belong further down.  *)
HeapBut(h, W, at) ==
    /\ \A j \in 2 .. Len(h) : Half(j) # at => W[h[Half(j)]] <= W[h[j]]
    /\ at # 1 => \A j \in 2 .. Len(h) : Half(j) = at => W[h[Half(at)]] <= W[h[j]]

LEMMA HalfIs ==
    ASSUME NEW j \in Nat
    PROVE  /\ j >= 2 => Half(j) \in 1 .. j - 1
           /\ \A i \in Nat : Half(j) = i <=> j = 2 * i \/ j = 2 * i + 1
BY DEF Half

LEMMA LeastIs ==
    ASSUME NEW tables, NEW C, NEW W, Orders(tables, C, W), NEW h \in Seq(C), NEW at \in 1 .. Len(h)
    PROVE  /\ Least(tables, h, at) \in 1 .. Len(h)
           /\ Least(tables, h, at) \in {at, 2 * at, 2 * at + 1}
           /\ \A j \in 1 .. Len(h) : j \in {2 * at, 2 * at + 1} => W[h[Least(tables, h, at)]] <= W[h[j]]
           /\ Least(tables, h, at) # at => W[h[Least(tables, h, at)]] < W[h[at]]
<1> DEFINE n == Len(h)
           V(j) == W[h[j]]
           l == Smaller(tables, h, 2 * at, at)
           m == Smaller(tables, h, 2 * at + 1, l)
<1>1. n \in Nat /\ at \in 1 .. n /\ at \in Nat /\ \A j \in 1 .. n : h[j] \in C
  OBVIOUS
<1>2. \A j \in 1 .. n : V(j) \in Nat
  BY <1>1 DEF Orders
<1>3. \A i, j \in 1 .. n : Before(tables, h[i], h[j]) <=> V(i) < V(j)
  BY <1>1 DEF Orders
<1>4. Least(tables, h, at) = m
  BY DEF Least
<1>5. /\ l = IF 2 * at <= n /\ Before(tables, h[2 * at], h[at]) THEN 2 * at ELSE at
      /\ m = IF 2 * at + 1 <= n /\ Before(tables, h[2 * at + 1], h[l]) THEN 2 * at + 1 ELSE l
  BY DEF Smaller
<1>6. (2 * at <= n => 2 * at \in 1 .. n) /\ (2 * at + 1 <= n => 2 * at + 1 \in 1 .. n /\ 2 * at \in 1 .. n)
  BY <1>1
<1> HIDE DEF V, l, m, n
<1>7. /\ l = IF 2 * at \in 1 .. n /\ V(2 * at) < V(at) THEN 2 * at ELSE at
      /\ l \in 1 .. n
  BY <1>1, <1>3, <1>5, <1>6
<1>8. m = IF 2 * at + 1 \in 1 .. n /\ V(2 * at + 1) < V(l) THEN 2 * at + 1 ELSE l
  BY <1>1, <1>3, <1>5, <1>6, <1>7
<1>9. m \in 1 .. n /\ m \in {at, 2 * at, 2 * at + 1}
  BY <1>7, <1>8
<1>10. V(l) <= V(at) /\ (l # at => V(l) < V(at)) /\ (2 * at \in 1 .. n => V(l) <= V(2 * at))
  BY <1>1, <1>2, <1>7
<1>11. V(m) <= V(l) /\ (m # l => V(m) < V(l)) /\ (2 * at + 1 \in 1 .. n => V(m) <= V(2 * at + 1))
  BY <1>1, <1>2, <1>7, <1>8
<1>12. V(m) \in Nat /\ V(l) \in Nat /\ V(at) \in Nat
  BY <1>1, <1>2, <1>7, <1>9
<1>13. m # at => V(m) < V(at)
  BY <1>10, <1>11, <1>12
<1>14. ASSUME NEW j \in 1 .. n, j \in {2 * at, 2 * at + 1} PROVE V(m) <= V(j)
  <2>1. V(j) \in Nat
    BY <1>2
  <2> QED BY <1>10, <1>11, <1>12, <1>14, <2>1
<1> QED BY <1>4, <1>9, <1>13, <1>14 DEF V, n

LEMMA SiftStep ==
    ASSUME NEW tables, NEW C, NEW W, Orders(tables, C, W), NEW h \in Seq(C), NEW at \in 1 .. Len(h),
           HeapBut(h, W, at), Least(tables, h, at) # at
    PROVE  LET m == Least(tables, h, at)
           IN  m \in at + 1 .. Len(h) /\ HeapBut([h EXCEPT ![at] = h[m], ![m] = h[at]], W, m)
<1> DEFINE n == Len(h)
           V(j) == W[h[j]]
           m == Least(tables, h, at)
           g == [h EXCEPT ![at] = h[m], ![m] = h[at]]
           U(j) == W[g[j]]
<1>1. n \in Nat /\ at \in 1 .. n /\ at \in Nat /\ \A j \in 1 .. n : h[j] \in C
  OBVIOUS
<1>2. \A j \in 1 .. n : V(j) \in Nat
  BY <1>1 DEF Orders
<1>3. /\ m \in 1 .. n /\ m \in {at, 2 * at, 2 * at + 1} /\ m # at /\ V(m) < V(at)
      /\ \A j \in 1 .. n : j \in {2 * at, 2 * at + 1} => V(m) <= V(j)
  BY LeastIs
<1> HIDE DEF m
<1>4. /\ m \in at + 1 .. n /\ Half(m) = at
  BY <1>1, <1>3, HalfIs
<1>5. Len(g) = n /\ \A j \in 1 .. n : g[j] = IF j = m THEN h[at] ELSE IF j = at THEN h[m] ELSE h[j]
  BY <1>1, <1>3
<1>6. \A j \in 1 .. n : U(j) = IF j = m THEN V(at) ELSE IF j = at THEN V(m) ELSE V(j)
  BY <1>5
<1>7. \A j \in 2 .. n : Half(j) \in 1 .. n /\ Half(j) < j /\ j \in 1 .. n
                        /\ (Half(j) = at => j \in {2 * at, 2 * at + 1})
  BY <1>1, HalfIs
<1> HIDE DEF g
<1>8. /\ \A j \in 2 .. n : Half(j) # at => V(Half(j)) <= V(j)
      /\ at # 1 => \A j \in 2 .. n : Half(j) = at => V(Half(at)) <= V(j)
  BY DEF HeapBut
<1>9. Half(at) \in 1 .. n \/ at = 1
  BY <1>1, <1>7
<1> HIDE DEF n, U, V
<1>10. ASSUME NEW j \in 2 .. n, Half(j) # m PROVE U(Half(j)) <= U(j)
  <2>1. Half(j) \in 1 .. n /\ j \in 1 .. n /\ Half(j) < j
    BY <1>7
  <2>2. U(Half(j)) = IF Half(j) = at THEN V(m) ELSE V(Half(j))
    BY <1>6, <1>10, <2>1
  <2>3. CASE Half(j) = at
    <3>1. j # at
      BY <1>1, <2>1, <2>3
    <3>2. V(m) <= V(j) /\ V(m) < V(at)
      BY <1>3, <1>7, <2>1, <2>3
    <3>3. V(m) \in Nat /\ V(at) \in Nat
      BY <1>1, <1>2, <1>3
    <3>4. U(j) = V(at) \/ U(j) = V(j)
      BY <1>6, <2>1, <3>1
    <3> QED BY <2>2, <2>3, <3>2, <3>3, <3>4
  <2>4. CASE Half(j) # at
    <3>1. j # m
      BY <1>4, <2>4
    <3>2. U(j) = IF j = at THEN V(m) ELSE V(j)
      BY <1>6, <2>1, <3>1
    <3>3. CASE j = at
      <4>1. at # 1 /\ m \in 2 .. n
        BY <1>1, <1>4, <3>3
      <4>2. V(Half(at)) <= V(m)
        BY <1>4, <1>8, <4>1
      <4> QED BY <2>2, <2>4, <3>2, <3>3, <4>2
    <3>4. CASE j # at
      <4>1. V(Half(j)) <= V(j)
        BY <1>8, <2>4
      <4> QED BY <2>2, <2>4, <3>2, <3>4, <4>1
    <3> QED BY <3>3, <3>4
  <2> QED BY <2>3, <2>4
<1>11. ASSUME NEW j \in 2 .. n, Half(j) = m PROVE U(Half(m)) <= U(j)
  <2>1. j \in 1 .. n /\ j # m /\ j # at
    BY <1>1, <1>4, <1>7, <1>11
  <2>2. U(j) = V(j)
    BY <1>6, <2>1
  <2>3. U(Half(m)) = V(m)
    BY <1>1, <1>3, <1>4, <1>6
  <2>4. V(m) <= V(j)
    BY <1>3, <1>8, <1>11
  <2> QED BY <2>2, <2>3, <2>4
<1>12. HeapBut(g, W, m)
  BY <1>5, <1>10, <1>11 DEF HeapBut, U, n
<1> QED BY <1>4, <1>12 DEF m, g, n

(* The same cursors, perhaps in another order.                             *)
Distinct(h) == \A i, j \in 1 .. Len(h) : i # j => h[i] # h[j]
Rearranged(g, h) == Len(g) = Len(h) /\ ToSet(g) = ToSet(h) /\ (Distinct(h) => Distinct(g))

LEMMA SwapKeeps ==
    ASSUME NEW C, NEW h \in Seq(C), NEW i \in 1 .. Len(h), NEW m \in 1 .. Len(h)
    PROVE  LET g == [h EXCEPT ![i] = h[m], ![m] = h[i]]
           IN  g \in Seq(C) /\ Rearranged(g, h)
<1> DEFINE n == Len(h)
           g == [h EXCEPT ![i] = h[m], ![m] = h[i]]
           p(j) == IF j = m THEN i ELSE IF j = i THEN m ELSE j
<1>1. n \in Nat /\ DOMAIN h = 1 .. n /\ \A j \in 1 .. n : h[j] \in C
  OBVIOUS
<1>2. g \in Seq(C) /\ Len(g) = n /\ DOMAIN g = 1 .. n
  OBVIOUS
<1>3. \A j \in 1 .. n : p(j) \in 1 .. n /\ p(p(j)) = j /\ g[j] = h[p(j)]
  OBVIOUS
<1> HIDE DEF g, p, n
<1>4. ToSet(g) = ToSet(h)
  <2>1. \A j \in 1 .. n : h[j] = g[p(j)]
    BY <1>3
  <2> QED BY <1>1, <1>2, <1>3, <2>1 DEF ToSet
<1>5. Distinct(h) => Distinct(g)
  <2> SUFFICES ASSUME Distinct(h), NEW a \in 1 .. n, NEW b \in 1 .. n, a # b PROVE g[a] # g[b]
    BY <1>2 DEF Distinct
  <2>1. p(a) # p(b)
    BY <1>3
  <2> QED BY <1>3, <2>1, SMTT(60) DEF Distinct, n
<1> QED BY <1>2, <1>4, <1>5 DEF Rearranged, g, n

(* A cursor going down the heap.                                           *)
Sifts(C) == [heap : Seq(C), at : Nat \ {0}]

LEMMA SiftedIs ==
    ASSUME NEW tables, NEW C, NEW W, Orders(tables, C, W), NEW h \in Seq(C), NEW at \in Nat \ {0}
    PROVE  LET s == [heap |-> h, at |-> at]
               r == Sifted(tables, s)
           IN  /\ r \in Sifts(C) /\ Rearranged(r.heap, h) /\ (at > Len(h) => r = s)
               /\ HeapBut(h, W, at) => \/ r = s /\ IsHeap(h, W)
                                       \/ HeapBut(r.heap, W, r.at) /\ r.at > at
               /\ IsHeap(h, W) => r = s
<1> DEFINE s == [heap |-> h, at |-> at]
           r == Sifted(tables, s)
           m == Least(tables, h, at)
           g == [h EXCEPT ![at] = h[m], ![m] = h[at]]
           n == Len(h)
<1>1. r = IF at > n \/ m = at THEN s ELSE [heap |-> g, at |-> m]
  BY DEF Sifted
<1>2. s \in Sifts(C) /\ s.heap = h /\ s.at = at
  BY DEF Sifts
<1>3. Rearranged(h, h)
  BY DEF Rearranged
<1>4. n \in Nat
  OBVIOUS
<1>5. ASSUME HeapBut(h, W, at), at > n PROVE IsHeap(h, W)
  <2>1. \A j \in 2 .. n : Half(j) # at
    BY <1>4, <1>5, HalfIs
  <2> QED BY <1>5, <2>1 DEF HeapBut, IsHeap
<1>6. ASSUME at <= n PROVE at \in 1 .. n
  BY <1>4, <1>6
<1>7. ASSUME at \in 1 .. n PROVE m \in 1 .. n
  BY <1>7, LeastIs
<1>8. ASSUME at \in 1 .. n, HeapBut(h, W, at), m = at PROVE IsHeap(h, W)
  <2> SUFFICES ASSUME NEW j \in 2 .. n, Half(j) = at PROVE W[h[at]] <= W[h[j]]
    BY <1>8 DEF HeapBut, IsHeap
  <2>1. j \in 1 .. n /\ j \in {2 * at, 2 * at + 1}
    BY <1>4, HalfIs
  <2>2. W[h[Least(tables, h, at)]] <= W[h[j]]
    BY <1>8, <2>1, LeastIs
  <2> QED BY <1>8, <2>2
<1>9. ASSUME at \in 1 .. n, IsHeap(h, W) PROVE m = at
  <2> SUFFICES ASSUME m # at PROVE FALSE
    OBVIOUS
  <2>1. m \in 1 .. n /\ m \in {at, 2 * at, 2 * at + 1} /\ W[h[m]] < W[h[at]]
    BY <1>9, LeastIs
  <2>2. m \in 2 .. n /\ Half(m) = at
    BY <1>4, <1>9, <2>1, HalfIs
  <2>3. W[h[at]] <= W[h[m]]
    BY <1>9, <2>2 DEF IsHeap
  <2>4. W[h[at]] \in Nat /\ W[h[m]] \in Nat
    BY <1>9, <2>1 DEF Orders
  <2> QED BY <2>1, <2>3, <2>4
<1>10. ASSUME at \in 1 .. n PROVE g \in Seq(C) /\ Rearranged(g, h)
  <2>1. at \in 1 .. Len(h) /\ m \in 1 .. Len(h)
    BY <1>7, <1>10
  <2> HIDE DEF m
  <2> QED BY <2>1, SwapKeeps
<1>11. ASSUME at \in 1 .. n, HeapBut(h, W, at), m # at PROVE m > at /\ HeapBut(g, W, m)
  <2>1. m \in at + 1 .. n /\ HeapBut(g, W, m)
    BY <1>11, SiftStep
  <2> HIDE DEF m, g, n
  <2> QED BY <2>1, <1>4
<1> HIDE DEF s, r, m, g, n
<1>12. CASE at > n \/ m = at
  <2>1. r = s
    BY <1>1, <1>12
  <2>2. HeapBut(h, W, at) => IsHeap(h, W)
    BY <1>5, <1>6, <1>8, <1>12, <1>4
  <2> QED BY <1>2, <1>3, <2>1, <2>2 DEF s, r, n
<1>13. CASE at <= n /\ m # at
  <2>1. at \in 1 .. n /\ ~(at > n)
    BY <1>4, <1>6, <1>13
  <2>2. r = [heap |-> g, at |-> m]
    BY <1>1, <1>13, <2>1
  <2>3. m \in Nat \ {0}
    BY <1>4, <1>7, <2>1
  <2>4. r \in Sifts(C) /\ r.heap = g /\ r.at = m
    BY <1>10, <2>1, <2>2, <2>3 DEF Sifts
  <2>5. ~IsHeap(h, W)
    BY <1>9, <1>13, <2>1
  <2> QED BY <1>10, <1>11, <1>13, <2>1, <2>4, <2>5 DEF s, r, n
<1> QED BY <1>4, <1>12, <1>13

LEMMA SiftSteps ==
    ASSUME NEW tables, NEW C, NEW W, Orders(tables, C, W), NEW h \in Seq(C), NEW at \in Nat \ {0}
    PROVE  \E w : /\ w[0] = [heap |-> h, at |-> at] /\ SiftDown(tables, h, at) = w[Len(h)].heap
                  /\ \A i \in 1 .. Len(h) : w[i] = Sifted(tables, w[i - 1])
                  /\ \A i \in 0 .. Len(h) : w[i] \in Sifts(C)
<1> DEFINE n == Len(h)
           S == Sifts(C)
           base == [heap |-> h, at |-> at]
           f == [x \in S |-> Sifted(tables, x)]
           Solves(g) == g = [i \in 0 .. n |-> IF i = 0 THEN base ELSE Sifted(tables, g[i - 1])]
           w == CHOOSE g : Solves(g)
<1>1. SiftDown(tables, h, at) = w[n].heap
  BY DEF SiftDown, Iterated
<1>2. n \in Nat
  OBVIOUS
<1>3. base \in S
  BY DEF Sifts
<1>4. \A x \in S : Sifted(tables, x) \in S
  <2> TAKE x \in S
  <2> DEFINE b == x.heap
             p == x.at
  <2>1. b \in Seq(C) /\ p \in Nat \ {0} /\ x = [heap |-> b, at |-> p]
    BY DEF Sifts
  <2> HIDE DEF b, p
  <2>2. Sifted(tables, [heap |-> b, at |-> p]) \in S
    BY <2>1, SiftedIs
  <2> QED BY <2>1, <2>2
<1> HIDE DEF n, S, base
<1>5. f \in [S -> S] /\ \A x \in S : f[x] = Sifted(tables, x)
  BY <1>4
<1> HIDE DEF f
<1>6. PICK g \in [0 .. n -> S] : Repeats(g, n, base, f)
  BY <1>2, <1>3, <1>5, RepeatSolved
<1>7. \A i \in 0 .. n : g[i] = IF i = 0 THEN base ELSE Sifted(tables, g[i - 1])
  <2> TAKE i \in 0 .. n
  <2>1. i # 0 => i - 1 \in 0 .. n
    BY <1>2
  <2>2. i # 0 => g[i - 1] \in S
    BY <1>6, <2>1
  <2> QED BY <1>5, <1>6, <2>2 DEF Repeats
<1>8. Solves(g)
  <2>1. g = [i \in 0 .. n |-> g[i]]
    BY <1>6
  <2> QED BY <1>7, <2>1
<1>9. Solves(w)
  <2> HIDE DEF Solves
  <2> QED BY <1>8
<1> HIDE DEF w
<1>10. w[0] = base /\ \A i \in 1 .. n : w[i] = Sifted(tables, w[i - 1])
  BY <1>2, <1>9
<1> HIDE DEF Solves
<1> DEFINE P == {i \in 0 .. n : w[i] \in S}
<1>11. 0 \in P
  BY <1>2, <1>3, <1>10
<1>12. ASSUME NEW i \in 1 .. n, i - 1 \in P PROVE i \in P
  BY <1>2, <1>4, <1>10, <1>12
<1>13. \A i \in 0 .. n : i \in P
  <2> HIDE DEF P
  <2> QED BY <1>2, <1>11, <1>12, InductionUpTo
<1> QED BY <1>1, <1>10, <1>13 DEF n, S, base

(* A cursor that has gone down is where it belongs, and in a heap none     *)
(* goes down.                                                              *)
LEMMA SiftDownIs ==
    ASSUME NEW tables, NEW C, NEW W, Orders(tables, C, W), NEW h \in Seq(C), HeapBut(h, W, 1)
    PROVE  /\ SiftDown(tables, h, 1) \in Seq(C) /\ IsHeap(SiftDown(tables, h, 1), W)
           /\ Rearranged(SiftDown(tables, h, 1), h)
<1> DEFINE n == Len(h)
           r == SiftDown(tables, h, 1)
<1>1. n \in Nat /\ 1 \in Nat \ {0}
  OBVIOUS
<1>2. PICK w : /\ w[0] = [heap |-> h, at |-> 1] /\ r = w[n].heap
               /\ \A i \in 1 .. n : w[i] = Sifted(tables, w[i - 1])
               /\ \A i \in 0 .. n : w[i] \in Sifts(C)
  BY <1>1, SiftSteps, SMTT(60)
<1> HIDE DEF r, n
<1> DEFINE Good(s, i) == /\ Rearranged(s.heap, h)
                         /\ IsHeap(s.heap, W) \/ (HeapBut(s.heap, W, s.at) /\ s.at > i)
           P == {i \in 0 .. n : Good(w[i], i)}
<1>3. 0 \in P
  <2>1. Rearranged(h, h)
    BY DEF Rearranged
  <2> QED BY <1>1, <1>2, <2>1
<1>4. ASSUME NEW i \in 1 .. n, i - 1 \in P PROVE i \in P
  <2> DEFINE s == w[i - 1]
             b == s.heap
             p == s.at
             x == w[i]
  <2>1. /\ i \in 0 .. n /\ i - 1 \in 0 .. n /\ s \in Sifts(C) /\ Good(s, i - 1) /\ x = Sifted(tables, s)
    BY <1>1, <1>2, <1>4
  <2>2. b \in Seq(C) /\ p \in Nat \ {0} /\ s = [heap |-> b, at |-> p]
    BY <2>1 DEF Sifts
  <2>3. Rearranged(b, h) /\ (IsHeap(b, W) \/ (HeapBut(b, W, p) /\ p > i - 1))
    BY <2>1
  <2> HIDE DEF b, p, s
  <2>4. /\ Rearranged(x.heap, b)
        /\ HeapBut(b, W, p) => (x = s /\ IsHeap(b, W)) \/ (HeapBut(x.heap, W, x.at) /\ x.at > p)
        /\ IsHeap(b, W) => x = s
    BY <2>1, <2>2, SiftedIs
  <2>5. x \in Sifts(C)
    BY <1>2, <2>1
  <2>6. x.at \in Nat
    BY <2>5 DEF Sifts
  <2> HIDE DEF x
  <2>7. Rearranged(x.heap, h)
    BY <2>3, <2>4 DEF Rearranged
  <2>8. x = s => x.heap = b
    BY <2>2
  <2>9. IsHeap(x.heap, W) \/ (HeapBut(x.heap, W, x.at) /\ x.at > i)
    BY <2>2, <2>3, <2>4, <2>6, <2>8
  <2> QED BY <2>1, <2>7, <2>9 DEF x
<1>5. n \in P
  <2>1. n \in 0 .. n
    BY <1>1
  <2> HIDE DEF P
  <2> QED BY <1>1, <1>3, <1>4, <2>1, InductionUpTo
<1> DEFINE x == w[n]
<1>6. x \in Sifts(C) /\ Rearranged(x.heap, h) /\ (IsHeap(x.heap, W) \/ (HeapBut(x.heap, W, x.at) /\ x.at > n))
  BY <1>1, <1>2, <1>5
<1> HIDE DEF x, P
<1>7. x.heap \in Seq(C) /\ x.at \in Nat \ {0} /\ Len(x.heap) = n
  BY <1>6 DEF Sifts, Rearranged, n
<1>8. ASSUME HeapBut(x.heap, W, x.at), x.at > n PROVE IsHeap(x.heap, W)
  <2>1. \A j \in 2 .. n : Half(j) # x.at
    BY <1>1, <1>7, <1>8, HalfIs
  <2> QED BY <1>7, <1>8, <2>1 DEF HeapBut, IsHeap
<1> QED BY <1>2, <1>6, <1>7, <1>8 DEF r, x

LEMMA SiftDownSame ==
    ASSUME NEW tables, NEW C, NEW W, Orders(tables, C, W), NEW h \in Seq(C), NEW at \in Nat \ {0}, IsHeap(h, W)
    PROVE  SiftDown(tables, h, at) = h
<1> DEFINE n == Len(h)
           r == SiftDown(tables, h, at)
           s == [heap |-> h, at |-> at]
<1>1. n \in Nat
  OBVIOUS
<1>2. PICK w : /\ w[0] = s /\ r = w[n].heap
               /\ \A i \in 1 .. n : w[i] = Sifted(tables, w[i - 1])
  BY <1>1, SiftSteps
<1>3. Sifted(tables, s) = s
  BY SiftedIs
<1>4. s.heap = h
  OBVIOUS
<1> HIDE DEF r, n, s
<1> DEFINE P == {i \in 0 .. n : w[i] = s}
<1>5. 0 \in P
  BY <1>1, <1>2
<1>6. ASSUME NEW i \in 1 .. n, i - 1 \in P PROVE i \in P
  BY <1>1, <1>2, <1>3, <1>6
<1>7. n \in P
  <2>1. n \in 0 .. n
    BY <1>1
  <2> HIDE DEF P
  <2> QED BY <1>1, <1>5, <1>6, <2>1, InductionUpTo
<1> QED BY <1>2, <1>4, <1>7 DEF r

(* The root of a heap stands before all others.                            *)
LEMMA RootIs ==
    ASSUME NEW C, NEW W \in [C -> Nat], NEW h \in Seq(C), IsHeap(h, W), NEW i \in 1 .. Len(h)
    PROVE  W[h[1]] <= W[h[i]]
<1> DEFINE n == Len(h)
           P == {k \in 0 .. n : \A j \in 1 .. k : W[h[1]] <= W[h[j]]}
<1>1. n \in Nat /\ \A j \in 1 .. n : h[j] \in C /\ W[h[j]] \in Nat
  OBVIOUS
<1>2. 0 \in P
  BY <1>1
<1>3. ASSUME NEW k \in 1 .. n, k - 1 \in P PROVE k \in P
  <2>1. \A j \in 1 .. k - 1 : W[h[1]] <= W[h[j]]
    BY <1>3
  <2>2. W[h[1]] <= W[h[k]]
    <3>1. CASE k = 1
      BY <1>1, <3>1
    <3>2. CASE k # 1
      <4>1. k \in 2 .. n /\ Half(k) \in 1 .. k - 1 /\ Half(k) \in 1 .. n /\ 1 \in 1 .. n
        BY <1>1, <3>2, HalfIs
      <4>2. W[h[1]] <= W[h[Half(k)]] /\ W[h[Half(k)]] <= W[h[k]]
        BY <2>1, <4>1 DEF IsHeap
      <4> QED BY <1>1, <4>1, <4>2
    <3> QED BY <3>1, <3>2
  <2>3. \A j \in 1 .. k : j = k \/ j \in 1 .. k - 1
    BY <1>1
  <2>4. k \in 0 .. n
    BY <1>1
  <2> QED BY <2>1, <2>2, <2>3, <2>4
<1>4. n \in P
  <2>1. n \in 0 .. n
    BY <1>1
  <2> HIDE DEF P
  <2> QED BY <1>1, <1>2, <1>3, <2>1, InductionUpTo
<1> QED BY <1>4

(* Files of one block each, which hold the writes piece by piece.          *)
Piled(files, ws, c, n, a, b) ==
    /\ Cuts(c, n, a, b) /\ b <= Len(ws)
    /\ \A i \in 1 .. n : c[i - 1] < c[i] /\ files[i].blocks = <<Slice(ws, c[i - 1], c[i])>>

Cursors(c, n) ==
    {x \in [table : 1 .. n, block : {1}, entry : Nat \ {0}, done : {FALSE}] : c[x.table - 1] + x.entry <= c[x.table]}
Standing(c, n) == [x \in Cursors(c, n) |-> c[x.table - 1] + x.entry]

LEMMA PileOrders ==
    ASSUME NEW ws \in Seq(KeyVals), Rising(ws), NEW files, NEW c, NEW n, NEW a, NEW b,
           Piled(files, ws, c, n, a, b)
    PROVE  /\ Orders(files, Cursors(c, n), Standing(c, n))
           /\ \A x \in Cursors(c, n) : /\ files[x.table].blocks[x.block][x.entry] = ws[Standing(c, n)[x]]
                                       /\ Standing(c, n)[x] \in a + 1 .. b
<1> DEFINE C == Cursors(c, n)
           W == Standing(c, n)
           N == Len(ws)
<1>1. /\ Cuts(c, n, a, b) /\ b <= N
      /\ \A i \in 1 .. n : c[i - 1] < c[i] /\ files[i].blocks = <<Slice(ws, c[i - 1], c[i])>>
  BY DEF Piled
<1>2. /\ n \in Nat /\ a \in Nat /\ b \in Nat
      /\ \A i \in 0 .. n : c[i] \in a .. b
  BY <1>1, CutBounds
<1>3. N \in Nat /\ \A i, j \in 1 .. N : i < j => Key(ws[i]) < Key(ws[j])
  BY DEF Rising, RisesByKey
<1>4. \A i \in 1 .. N : Key(ws[i]) \in Int
  BY DEF KeyVals, Key
<1>5. ASSUME NEW x \in C
      PROVE  /\ x.block = 1 /\ x.done = FALSE /\ W[x] \in a + 1 .. b /\ W[x] \in 1 .. N
             /\ files[x.table].blocks[x.block][x.entry] = ws[W[x]]
  <2> DEFINE t == x.table
             e == x.entry
             u == c[t - 1]
             v == c[t]
  <2>1. t \in 1 .. n /\ x.block = 1 /\ x.done = FALSE /\ e \in Nat \ {0} /\ u + e <= v /\ W[x] = u + e
    BY DEF Cursors, Standing
  <2> HIDE DEF e
  <2>2. t - 1 \in 0 .. n /\ t \in 0 .. n
    BY <1>2, <2>1
  <2>3. u \in a .. b /\ v \in a .. b
    BY <1>2, <2>2
  <2>4. u < v /\ files[t].blocks = <<Slice(ws, u, v)>>
    BY <1>1, <2>1
  <2> HIDE DEF t, u, v
  <2>5. W[x] \in a + 1 .. b
    BY <1>2, <2>1, <2>3
  <2>6. W[x] \in 1 .. N
    BY <1>1, <1>2, <1>3, <2>5
  <2>7. u \in Nat /\ v \in Nat /\ u <= v /\ v <= N /\ e \in 1 .. v - u
    BY <1>1, <1>2, <1>3, <2>1, <2>3, <2>4
  <2>8. Slice(ws, u, v)[e] = ws[u + e]
    BY <2>7, SliceIs
  <2> DEFINE s == Slice(ws, u, v)
  <2> HIDE DEF s
  <2>9. <<s>>[1] = s
    OBVIOUS
  <2>10. files[t].blocks[1][e] = ws[u + e]
    BY <2>4, <2>8, <2>9 DEF s
  <2> QED BY <2>1, <2>5, <2>6, <2>10 DEF t, e
<1>6. W \in [C -> Nat]
  <2>1. \A x \in C : W[x] \in Nat
    <3> TAKE x \in C
    <3>1. W[x] \in 1 .. N
      BY <1>5
    <3> HIDE DEF W, C, N
    <3> QED BY <1>3, <3>1
  <2>2. W = [x \in C |-> W[x]]
    BY DEF Standing
  <2> HIDE DEF W, C
  <2> QED BY <2>1, <2>2
<1> HIDE DEF C, W
<1>7. \A x \in C : KeyAt(files, x) = Key(ws[W[x]])
  BY <1>5 DEF KeyAt
<1>8. ASSUME NEW x \in C, NEW y \in C PROVE Before(files, x, y) <=> W[x] < W[y]
  <2>1. Before(files, x, y) <=> Key(ws[W[x]]) < Key(ws[W[y]])
    BY <1>5, <1>7 DEF Before
  <2>2. W[x] \in 1 .. N /\ W[y] \in 1 .. N
    BY <1>5
  <2> DEFINE i == W[x]
             j == W[y]
  <2> HIDE DEF i, j, N
  <2>3. i \in 1 .. N /\ j \in 1 .. N
    BY <2>2 DEF i, j
  <2>4. Key(ws[i]) \in Int /\ Key(ws[j]) \in Int
    BY <1>4, <2>3
  <2>5. (i < j => Key(ws[i]) < Key(ws[j])) /\ (j < i => Key(ws[j]) < Key(ws[i])) /\ (i = j \/ i < j \/ j < i)
    BY <1>3, <2>3
  <2>6. Key(ws[i]) < Key(ws[j]) <=> i < j
    BY <1>3, <2>3, <2>4, <2>5
  <2> QED BY <2>1, <2>6 DEF i, j
<1>9. Orders(files, C, W)
  BY <1>6, <1>8 DEF Orders
<1> QED BY <1>5, <1>9 DEF C, W

(* Where the cursor of file t stands when the writes up to the p-th have   *)
(* come out, and those that still stand somewhere.                         *)
NextOf(c, t, p) == [table |-> t, block |-> 1, entry |-> (IF c[t - 1] <= p THEN p - c[t - 1] ELSE 0) + 1, done |-> FALSE]
Live(c, n, p) == {NextOf(c, t, p) : t \in {i \in 1 .. n : p < c[i]}}

LEMMA NextOfIs ==
    ASSUME NEW c, NEW n, NEW a, NEW b, Cuts(c, n, a, b), NEW t \in 1 .. n, c[t - 1] < c[t],
           NEW p \in Nat, p < c[t]
    PROVE  /\ NextOf(c, t, p) \in Cursors(c, n) /\ NextOf(c, t, p).table = t
           /\ c[t - 1] <= p => Standing(c, n)[NextOf(c, t, p)] = p + 1
           /\ ~(c[t - 1] <= p) => Standing(c, n)[NextOf(c, t, p)] = c[t - 1] + 1
<1> DEFINE u == c[t - 1]
           v == c[t]
           e == (IF u <= p THEN p - u ELSE 0) + 1
           x == NextOf(c, t, p)
<1>1. n \in Nat /\ u \in Nat /\ v \in Nat /\ u < v /\ p < v
  BY CutBounds
<1> HIDE DEF u, v
<1>2. e \in Nat \ {0} /\ u + e <= v /\ u + e = IF u <= p THEN p + 1 ELSE u + 1
  BY <1>1
<1> HIDE DEF e
<1>3. x = [table |-> t, block |-> 1, entry |-> e, done |-> FALSE]
  BY DEF NextOf, e, u
<1> HIDE DEF x
<1>4. x.table = t /\ x.block = 1 /\ x.entry = e /\ x.done = FALSE
  BY <1>3
<1>5. x \in [table : 1 .. n, block : {1}, entry : Nat \ {0}, done : {FALSE}]
  BY <1>2, <1>3
<1>6. x \in Cursors(c, n)
  BY <1>2, <1>4, <1>5 DEF Cursors, u, v
<1>7. Standing(c, n)[x] = u + e
  BY <1>4, <1>6 DEF Standing, u
<1> QED BY <1>2, <1>4, <1>6, <1>7 DEF x, u

(* The heap once the writes up to the p-th have come out.                  *)
Queue(h, c, n, p) ==
    /\ h \in Seq(Cursors(c, n)) /\ ToSet(h) = Live(c, n, p) /\ Distinct(h) /\ IsHeap(h, Standing(c, n))

LEMMA QueueHead ==
    ASSUME NEW ws \in Seq(KeyVals), Rising(ws), NEW files, NEW c, NEW n, NEW a, NEW b,
           Piled(files, ws, c, n, a, b), NEW p \in Nat, a <= p, p < b, NEW h, Queue(h, c, n, p)
    PROVE  \E m \in 1 .. n : c[m - 1] <= p /\ p < c[m] /\ h # <<>> /\ h[1] = NextOf(c, m, p)
<1> DEFINE C == Cursors(c, n)
           W == Standing(c, n)
<1>1. Cuts(c, n, a, b) /\ \A i \in 1 .. n : c[i - 1] < c[i]
  BY DEF Piled
<1>2. /\ n \in Nat /\ a \in Nat /\ b \in Nat
      /\ \A i \in 1 .. n : c[i - 1] \in Nat /\ c[i] \in Nat
  BY <1>1, CutBounds
<1>3. PICK m \in 1 .. n : p + 1 \in c[m - 1] + 1 .. c[m]
  <2>1. p + 1 \in a + 1 .. b
    BY <1>2
  <2> QED BY <1>1, <2>1, CutFinds
<1>4. c[m - 1] <= p /\ p < c[m]
  BY <1>2, <1>3
<1>5. h \in Seq(C) /\ ToSet(h) = Live(c, n, p) /\ IsHeap(h, W) /\ W \in [C -> Nat]
  BY PileOrders DEF Queue, Orders
<1>6. NextOf(c, m, p) \in ToSet(h)
  BY <1>4, <1>5 DEF Live
<1>7. PICK i \in 1 .. Len(h) : h[i] = NextOf(c, m, p)
  BY <1>5, <1>6 DEF ToSet
<1>8. W[h[i]] = p + 1
  <2>1. c[m - 1] < c[m]
    BY <1>1
  <2>2. Standing(c, n)[NextOf(c, m, p)] = p + 1
    <3>1. Cuts(c, n, a, b) /\ c[m - 1] <= p /\ p < c[m]
      BY <1>1, <1>4
    <3> QED BY <2>1, <3>1, NextOfIs
  <2> QED BY <1>7, <2>2
<1>9. h # <<>> /\ 1 \in 1 .. Len(h) /\ Len(h) \in Nat
  BY <1>5
<1> HIDE DEF W, C
<1>10. W[h[1]] <= p + 1
  BY <1>5, <1>8, RootIs
<1>11. h[1] \in Live(c, n, p)
  BY <1>5, <1>9 DEF ToSet
<1>12. PICK t \in 1 .. n : p < c[t] /\ h[1] = NextOf(c, t, p)
  BY <1>11 DEF Live
<1>13. ~(c[t - 1] <= p) => W[h[1]] = c[t - 1] + 1
  <2>1. c[t - 1] < c[t]
    BY <1>1
  <2>2. ~(c[t - 1] <= p) => Standing(c, n)[NextOf(c, t, p)] = c[t - 1] + 1
    <3>1. Cuts(c, n, a, b) /\ p < c[t]
      BY <1>1, <1>12
    <3> QED BY <2>1, <3>1, NextOfIs
  <2> QED BY <1>12, <2>2 DEF W
<1>14. c[t - 1] <= p
  <2> DEFINE u == c[t - 1]
  <2>1. u \in Nat /\ (~(u <= p) => W[h[1]] = u + 1)
    BY <1>2, <1>13
  <2> HIDE DEF u
  <2>2. u <= p
    BY <1>10, <2>1
  <2> QED BY <2>2 DEF u
<1>15. t = m
  <2>1. \A j \in 1 .. n : j - 1 \in 0 .. n /\ j \in 0 .. n
    BY <1>2
  <2>2. \A x, y \in 0 .. n : x <= y => c[x] <= c[y]
    BY <1>1 DEF Cuts
  <2>3. t < m => c[t] <= c[m - 1]
    BY <1>2, <2>1, <2>2
  <2>4. m < t => c[m] <= c[t - 1]
    BY <1>2, <2>1, <2>2
  <2>5. ~(t < m)
    <3> SUFFICES ASSUME t < m PROVE FALSE
      OBVIOUS
    <3>1. c[t] \in Nat /\ c[m - 1] \in Nat /\ c[t] <= c[m - 1]
      BY <1>2, <2>3
    <3> QED BY <1>4, <1>12, <3>1
  <2>6. ~(m < t)
    <3> SUFFICES ASSUME m < t PROVE FALSE
      OBVIOUS
    <3>1. c[m] \in Nat /\ c[t - 1] \in Nat /\ c[m] <= c[t - 1]
      BY <1>2, <2>4
    <3> QED BY <1>4, <1>14, <3>1
  <2> QED BY <1>2, <2>5, <2>6
<1> QED BY <1>4, <1>9, <1>12, <1>15

(* A write comes out of file m: its cursor goes on, or has done, and the   *)
(* others stay.                                                            *)
LEMMA LiveNext ==
    ASSUME NEW c, NEW n, NEW a, NEW b, Cuts(c, n, a, b), \A i \in 1 .. n : c[i - 1] < c[i],
           NEW m \in 1 .. n, NEW p \in Nat, c[m - 1] <= p, p < c[m]
    PROVE  /\ p + 1 < c[m] => Live(c, n, p + 1) = (Live(c, n, p) \ {NextOf(c, m, p)}) \cup {NextOf(c, m, p + 1)}
           /\ ~(p + 1 < c[m]) => Live(c, n, p + 1) = Live(c, n, p) \ {NextOf(c, m, p)}
<1>1. /\ n \in Nat
      /\ \A i \in 1 .. n : c[i - 1] \in Nat /\ c[i] \in Nat /\ i - 1 \in 0 .. n /\ i \in 0 .. n
  BY CutBounds
<1>2. \A i, j \in 0 .. n : i <= j => c[i] <= c[j]
  BY DEF Cuts
<1>3. ASSUME NEW t \in 1 .. n, t # m
      PROVE  (p < c[t] <=> p + 1 < c[t]) /\ (p < c[t] => NextOf(c, t, p + 1) = NextOf(c, t, p))
  <2> DEFINE u == c[t - 1]
             v == c[t]
             x == c[m - 1]
             y == c[m]
  <2>1. u \in Nat /\ v \in Nat /\ x \in Nat /\ y \in Nat /\ u < v /\ x <= p /\ p < y
    BY <1>1
  <2>2. t < m => v <= x
    <3> HAVE t < m
    <3>1. t <= m - 1 /\ t \in 0 .. n /\ m - 1 \in 0 .. n
      BY <1>1
    <3> QED BY <1>2, <3>1
  <2>3. m < t => y <= u
    <3> HAVE m < t
    <3>1. m <= t - 1 /\ m \in 0 .. n /\ t - 1 \in 0 .. n
      BY <1>1
    <3> QED BY <1>2, <3>1
  <2>4. t < m \/ m < t
    BY <1>1, <1>3
  <2> HIDE DEF u, v, x, y
  <2>5. p < v <=> p + 1 < v
    BY <2>1, <2>2, <2>3, <2>4
  <2>6. ASSUME p < v PROVE (IF u <= p + 1 THEN (p + 1) - u ELSE 0) + 1 = (IF u <= p THEN p - u ELSE 0) + 1
    BY <2>1, <2>2, <2>3, <2>4, <2>6
  <2>7. p < v => NextOf(c, t, p + 1) = NextOf(c, t, p)
    BY <2>6 DEF NextOf, u
  <2> QED BY <2>5, <2>7 DEF v
<1>4. ASSUME NEW t, NEW q PROVE NextOf(c, t, q).table = t
  BY DEF NextOf
<1> DEFINE I(q) == {i \in 1 .. n : q < c[i]}
<1>5. Live(c, n, p) = {NextOf(c, t, p) : t \in I(p)} /\ Live(c, n, p + 1) = {NextOf(c, t, p + 1) : t \in I(p + 1)}
  BY DEF Live
<1>6. m \in I(p) /\ I(p) \ {m} = I(p + 1) \ {m} /\ (m \in I(p + 1) <=> p + 1 < c[m])
  BY <1>3
<1>7. \A t \in I(p) \ {m} : NextOf(c, t, p + 1) = NextOf(c, t, p) /\ NextOf(c, t, p) # NextOf(c, m, p)
  BY <1>3, <1>4
<1> HIDE DEF I
<1>8. Live(c, n, p) \ {NextOf(c, m, p)} = {NextOf(c, t, p + 1) : t \in I(p) \ {m}}
  <2>1. ASSUME NEW x \in Live(c, n, p), x # NextOf(c, m, p)
        PROVE  x \in {NextOf(c, t, p + 1) : t \in I(p) \ {m}}
    <3>1. PICK t \in I(p) : x = NextOf(c, t, p)
      BY <1>5
    <3>2. t # m
      BY <2>1, <3>1
    <3> QED BY <1>7, <3>1, <3>2
  <2>2. ASSUME NEW t \in I(p) \ {m} PROVE NextOf(c, t, p + 1) \in Live(c, n, p) \ {NextOf(c, m, p)}
    BY <1>5, <1>7
  <2> QED BY <2>1, <2>2
<1>9. ASSUME p + 1 < c[m] PROVE Live(c, n, p + 1) = {NextOf(c, t, p + 1) : t \in I(p) \ {m}} \cup {NextOf(c, m, p + 1)}
  <2>1. I(p + 1) = (I(p) \ {m}) \cup {m}
    BY <1>6, <1>9
  <2> QED BY <1>5, <2>1
<1>10. ASSUME ~(p + 1 < c[m]) PROVE Live(c, n, p + 1) = {NextOf(c, t, p + 1) : t \in I(p) \ {m}}
  <2>1. I(p + 1) = I(p) \ {m}
    BY <1>6, <1>10
  <2> QED BY <1>5, <2>1
<1> QED BY <1>8, <1>9, <1>10

LEMMA CursorMoves ==
    ASSUME NEW t, NEW l, NEW e, NEW d, NEW f, NEW x, x = [table |-> t, block |-> l, entry |-> e, done |-> d]
    PROVE  /\ x.table = t /\ x.block = l /\ x.entry = e /\ (d => x.done) /\ (~d => ~x.done)
           /\ [x EXCEPT !.entry = f] = [table |-> t, block |-> l, entry |-> f, done |-> d]
           /\ [x EXCEPT !.done = f] = [table |-> t, block |-> l, entry |-> e, done |-> f]
OBVIOUS

LEMMA AdvanceIs ==
    ASSUME NEW ws \in Seq(KeyVals), Rising(ws), NEW files, NEW c, NEW n, NEW a, NEW b,
           Piled(files, ws, c, n, a, b), NEW m \in 1 .. n, NEW p \in Nat, c[m - 1] <= p, p < c[m]
    PROVE  /\ p + 1 < c[m] => Advance(files, NextOf(c, m, p)) = NextOf(c, m, p + 1)
           /\ ~(p + 1 < c[m]) => Advance(files, NextOf(c, m, p)).done
<1> DEFINE u == c[m - 1]
           v == c[m]
           s == Slice(ws, u, v)
           e == p - u + 1
           f == e + 1
           no == FALSE
           yes == TRUE
           x == [table |-> m, block |-> 1, entry |-> e, done |-> no]
           y == [table |-> m, block |-> 1, entry |-> f, done |-> no]
           z == [table |-> m, block |-> 1, entry |-> f, done |-> yes]
           blocks == files[m].blocks
<1>1. Cuts(c, n, a, b) /\ b <= Len(ws) /\ u < v /\ blocks = <<s>>
  BY DEF Piled
<1>2. u \in Nat /\ v \in Nat /\ v <= Len(ws)
  <2>1. n \in Nat /\ a \in Nat /\ b \in Nat
    BY <1>1, CutBounds
  <2>2. m \in 0 .. n /\ m - 1 \in 0 .. n
    BY <2>1
  <2>3. c[m - 1] \in a .. b /\ c[m] \in a .. b
    BY <1>1, <2>2, CutBounds
  <2> QED BY <1>1, <2>1, <2>3
<1>3. u <= p /\ p < v
  OBVIOUS
<1>4. NextOf(c, m, p) = x
  BY DEF NextOf
<1> HIDE DEF u, v
<1>5. Len(s) = v - u
  <2>1. u <= v
    BY <1>1, <1>2
  <2> QED BY <1>2, <2>1, SliceIs
<1> HIDE DEF s, blocks
<1>6. Len(blocks) = 1 /\ blocks[1] = s
  BY <1>1
<1>7. [x EXCEPT !.entry = x.entry + 1] = y
  <2>1. x.entry + 1 = f
    OBVIOUS
  <2> HIDE DEF e, f, no
  <2>2. [x EXCEPT !.entry = f] = y
    <3>1. x = [table |-> m, block |-> 1, entry |-> e, done |-> no]
      OBVIOUS
    <3> HIDE DEF x
    <3> QED BY <3>1, CursorMoves
  <2> HIDE DEF x, y
  <2> QED BY <2>1, <2>2
<1>8. Advance(files, x) = LET d == Load(files, [x EXCEPT !.entry = x.entry + 1])
                          IN IF ~d.done \/ d.block = Len(files[d.table].blocks) THEN d
                             ELSE Load(files, [d EXCEPT !.block = d.block + 1, !.entry = 1])
  BY DEF Advance
<1>9. Load(files, y) = IF f > v - u THEN z ELSE y
  <2>1. y.table = m /\ y.block = 1 /\ y.entry = f /\ ~y.done /\ [y EXCEPT !.done = yes] = z
    <3>1. ~no /\ y = [table |-> m, block |-> 1, entry |-> f, done |-> no]
      OBVIOUS
    <3> HIDE DEF f, no, yes, y
    <3> QED BY <3>1, CursorMoves
  <2>2. Load(files, y) = IF y.done \/ y.entry > Len(files[y.table].blocks[y.block]) THEN [y EXCEPT !.done = TRUE] ELSE y
    BY DEF Load
  <2> HIDE DEF y, z, f
  <2>3. files[y.table].blocks[y.block] = s
    BY <1>6, <2>1 DEF blocks
  <2> QED BY <1>5, <2>1, <2>2, <2>3
<1>10. ~y.done /\ z.done /\ z.block = 1 /\ z.table = m
  OBVIOUS
<1>11. f > v - u <=> ~(p + 1 < v)
  BY <1>2, <1>3
<1>12. p + 1 < v => y = NextOf(c, m, p + 1)
  <2>1. (IF u <= p + 1 THEN (p + 1) - u ELSE 0) + 1 = f
    BY <1>2, <1>3
  <2> HIDE DEF f
  <2> QED BY <2>1 DEF NextOf, u
<1> HIDE DEF x, y, z, e, f
<1>13. ASSUME p + 1 < v PROVE Advance(files, x) = y
  BY <1>7, <1>8, <1>9, <1>10, <1>11, <1>13
<1>14. ASSUME ~(p + 1 < v) PROVE Advance(files, x) = z
  <2>1. z.block = Len(files[z.table].blocks)
    BY <1>6, <1>10 DEF blocks
  <2>2. Load(files, [x EXCEPT !.entry = x.entry + 1]) = z
    BY <1>7, <1>9, <1>11, <1>14
  <2> QED BY <1>8, <2>1, <2>2
<1> QED BY <1>4, <1>10, <1>12, <1>13, <1>14 DEF v

(* Some steps that come to rest after the first of them, or before it.     *)
LEMMA DropSteps ==
    ASSUME NEW tables, NEW h, Len(h) \in Nat \ {0}, NEW g, WithoutDone(tables, h) = g, WithoutDone(tables, g) = g
    PROVE  DropDone(tables, h) = SiftDown(tables, g, 1)
<1> DEFINE n == Len(h)
           S == {h, g}
           f == [x \in S |-> WithoutDone(tables, x)]
           Solves(r) == r = [i \in 0 .. n |-> IF i = 0 THEN h ELSE WithoutDone(tables, r[i - 1])]
           w == CHOOSE r : Solves(r)
<1>1. DropDone(tables, h) = SiftDown(tables, w[n], 1)
  BY DEF DropDone, Iterated
<1>2. n \in Nat \ {0}
  OBVIOUS
<1> HIDE DEF n
<1>3. h \in S /\ \A x \in S : WithoutDone(tables, x) = g
  OBVIOUS
<1>4. f \in [S -> S] /\ \A x \in S : f[x] = WithoutDone(tables, x)
  BY <1>3
<1> HIDE DEF S
<1> HIDE DEF f
<1>5. PICK r \in [0 .. n -> S] : Repeats(r, n, h, f)
  BY <1>2, <1>3, <1>4, RepeatSolved
<1>6. \A i \in 0 .. n : r[i] = IF i = 0 THEN h ELSE WithoutDone(tables, r[i - 1])
  <2> TAKE i \in 0 .. n
  <2>1. i # 0 => i - 1 \in 0 .. n
    BY <1>2
  <2>2. i # 0 => r[i - 1] \in S
    BY <1>5, <2>1
  <2> QED BY <1>4, <1>5, <2>2 DEF Repeats
<1>7. Solves(r)
  <2>1. r = [i \in 0 .. n |-> r[i]]
    BY <1>5
  <2> QED BY <1>6, <2>1
<1>8. Solves(w)
  <2> HIDE DEF Solves
  <2> QED BY <1>7
<1> HIDE DEF w
<1>9. w[0] = h /\ \A i \in 1 .. n : w[i] = WithoutDone(tables, w[i - 1])
  BY <1>2, <1>8
<1> HIDE DEF Solves
<1> DEFINE P == {i \in 0 .. n : w[i] \in S /\ (i # 0 => w[i] = g)}
<1>10. 0 \in P
  BY <1>2, <1>3, <1>9
<1>11. ASSUME NEW i \in 1 .. n, i - 1 \in P PROVE i \in P
  <2>1. g \in S
    BY DEF S
  <2>2. w[i] = g /\ i \in 0 .. n
    BY <1>2, <1>3, <1>9, <1>11
  <2> QED BY <2>1, <2>2
<1>12. n \in P
  <2>1. n \in 0 .. n
    BY <1>2
  <2> HIDE DEF P
  <2> QED BY <1>2, <1>10, <1>11, <2>1, InductionUpTo
<1> QED BY <1>1, <1>2, <1>12

(* The first cursor of a heap has not done: nothing is dropped.            *)
LEMMA DropNone ==
    ASSUME NEW tables, NEW C, NEW W, Orders(tables, C, W), NEW h \in Seq(C), IsHeap(h, W), h # <<>>, ~h[1].done
    PROVE  DropDone(tables, h) = h
<1>1. WithoutDone(tables, h) = h
  BY DEF WithoutDone
<1>2. Len(h) \in Nat \ {0}
  OBVIOUS
<1>3. DropDone(tables, h) = SiftDown(tables, h, 1)
  BY <1>1, <1>2, DropSteps
<1> QED BY <1>3, SiftDownSame

(* It has done: it is dropped, and the heap closes up.                     *)
LEMMA DropRoot ==
    ASSUME NEW tables, NEW C, NEW W, Orders(tables, C, W), \A x \in C : ~x.done,
           NEW h \in Seq(C), IsHeap(h, W), Distinct(h), h # <<>>, NEW d, d.done
    PROVE  LET g == DropDone(tables, [h EXCEPT ![1] = d])
           IN  g \in Seq(C) /\ IsHeap(g, W) /\ Distinct(g) /\ ToSet(g) = ToSet(h) \ {h[1]}
<1> DEFINE n == Len(h)
           h1 == [h EXCEPT ![1] = d]
           h2 == SubSeq([h1 EXCEPT ![1] = h1[n]], 1, n - 1)
           g == SiftDown(tables, h2, 1)
<1>1. n \in Nat \ {0} /\ DOMAIN h = 1 .. n /\ \A i \in 1 .. n : h[i] \in C
  OBVIOUS
<1>2. h1 \in Seq(C \cup {d}) /\ Len(h1) = n /\ h1[1] = d /\ \A i \in 2 .. n : h1[i] = h[i]
  <2>1. h \in Seq(C \cup {d}) /\ 1 \in 1 .. n
    BY <1>1
  <2> QED BY <1>1, <2>1
<1> HIDE DEF n, h1
<1>3. h2 \in Seq(C) /\ Len(h2) = n - 1 /\ \A i \in 1 .. n - 1 : h2[i] = IF i = 1 THEN h[n] ELSE h[i]
  <2> DEFINE y == h1[n]
             x == [h1 EXCEPT ![1] = y]
             D == C \cup {d}
  <2>1. x \in Seq(D) /\ Len(x) = n /\ \A i \in 1 .. n : x[i] = IF i = 1 THEN y ELSE h1[i]
    <3>1. y \in D /\ 1 \in 1 .. n /\ n \in 1 .. n /\ h1 \in Seq(D) /\ Len(h1) = n
      BY <1>1, <1>2
    <3> HIDE DEF D, y
    <3> QED BY <1>1, <3>1
  <2> HIDE DEF x, D
  <2>2. n - 1 \in Nat /\ n - 1 <= Len(x)
    BY <1>1, <2>1
  <2>3. h2 \in Seq(D) /\ Len(h2) = n - 1 /\ \A i \in 1 .. n - 1 : h2[i] = x[i]
    <3>1. h2 = SubSeq(x, 1, n - 1)
      BY DEF x
    <3> HIDE DEF h2
    <3> QED BY <1>1, <2>1, <2>2, <3>1
  <2> HIDE DEF h2
  <2>4. \A i \in 1 .. n - 1 : h2[i] = IF i = 1 THEN h[n] ELSE h[i]
    <3> TAKE i \in 1 .. n - 1
    <3>1. i \in 1 .. n /\ (i = 1 => n \in 2 .. n) /\ (i # 1 => i \in 2 .. n)
      BY <1>1
    <3> QED BY <1>2, <2>1, <2>3, <3>1
  <2>5. \A i \in 1 .. n - 1 : h2[i] \in C
    <3> TAKE i \in 1 .. n - 1
    <3>1. i \in 1 .. n /\ n \in 1 .. n
      BY <1>1
    <3> QED BY <1>1, <2>4, <3>1
  <2>6. h2 = [i \in 1 .. n - 1 |-> h2[i]]
    BY <2>2, <2>3
  <2>7. h2 \in Seq(C)
    BY <2>2, <2>5, <2>6
  <2> QED BY <2>3, <2>4, <2>7
<1>4. WithoutDone(tables, h1) = g
  <2>1. h1 # <<>> /\ h1[1].done
    BY <1>1, <1>2
  <2> QED BY <1>2, <2>1 DEF WithoutDone
<1> HIDE DEF h2
<1>5. HeapBut(h2, W, 1)
  <2>1. ASSUME NEW j \in 2 .. n - 1, Half(j) # 1 PROVE W[h2[Half(j)]] <= W[h2[j]]
    <3>1. j \in 2 .. n /\ j \in 1 .. n - 1 /\ Half(j) \in 1 .. n - 1 /\ j # 1
      BY <1>1, HalfIs
    <3>2. h2[j] = h[j] /\ h2[Half(j)] = h[Half(j)]
      BY <1>3, <2>1, <3>1
    <3>3. W[h[Half(j)]] <= W[h[j]]
      BY <3>1 DEF IsHeap, n
    <3> QED BY <3>2, <3>3
  <2> QED BY <1>3, <2>1 DEF HeapBut
<1>6. g \in Seq(C) /\ IsHeap(g, W) /\ Rearranged(g, h2)
  BY <1>3, <1>5, SiftDownIs
<1> HIDE DEF g
<1>7. WithoutDone(tables, g) = g
  <2>1. g = <<>> \/ g[1] \in C
    BY <1>6
  <2> QED BY <2>1 DEF WithoutDone
<1>8. DropDone(tables, h1) = g
  <2>1. DropDone(tables, h1) = SiftDown(tables, g, 1)
    BY <1>1, <1>2, <1>4, <1>7, DropSteps
  <2>2. SiftDown(tables, g, 1) = g
    BY <1>6, SiftDownSame
  <2> QED BY <2>1, <2>2
<1>9. \A i, j \in 1 .. n : i # j => h[i] # h[j]
  BY DEF Distinct, n
<1>10. Distinct(h2)
  <2> SUFFICES ASSUME NEW i \in 1 .. n - 1, NEW j \in 1 .. n - 1, i # j PROVE h2[i] # h2[j]
    BY <1>3 DEF Distinct
  <2>1. i \in 1 .. n /\ j \in 1 .. n /\ n \in 1 .. n /\ i # n /\ j # n
    BY <1>1
  <2> QED BY <1>3, <1>9, <2>1
<1>11. ToSet(h2) = ToSet(h) \ {h[1]}
  <2>1. DOMAIN h2 = 1 .. n - 1 /\ DOMAIN h = 1 .. n
    BY <1>1, <1>3
  <2>2. ASSUME NEW i \in 1 .. n - 1 PROVE h2[i] \in ToSet(h) \ {h[1]}
    <3>1. /\ i \in 1 .. n /\ n \in 1 .. n /\ 1 \in 1 .. n /\ n # 1
      BY <1>1
    <3>2. h2[i] \in ToSet(h)
      BY <1>3, <2>1, <3>1 DEF ToSet
    <3>3. h2[i] # h[1]
      BY <1>3, <1>9, <3>1
    <3> QED BY <3>2, <3>3
  <2>3. ASSUME NEW i \in 1 .. n, h[i] # h[1] PROVE h[i] \in ToSet(h2)
    <3>1. i \in 2 .. n /\ n >= 2 /\ 1 \in 1 .. n - 1
      BY <1>1, <2>3
    <3>2. CASE i = n
      <4>1. h2[1] = h[i]
        BY <1>3, <3>1, <3>2
      <4> QED BY <2>1, <3>1, <4>1 DEF ToSet
    <3>3. CASE i # n
      <4>1. i \in 1 .. n - 1 /\ i # 1
        BY <1>1, <3>1, <3>3
      <4>2. h2[i] = h[i]
        BY <1>3, <4>1
      <4> QED BY <2>1, <4>1, <4>2 DEF ToSet
    <3> QED BY <3>2, <3>3
  <2> QED BY <2>1, <2>2, <2>3 DEF ToSet
<1> QED BY <1>6, <1>8, <1>10, <1>11 DEF Rearranged, h1

LEMMA OnePiece ==
    ASSUME NEW c, NEW n, NEW a, NEW b, Cuts(c, n, a, b), NEW t \in 1 .. n, NEW m \in 1 .. n, NEW p \in Nat,
           c[t - 1] <= p, p < c[t], c[m - 1] <= p, p < c[m]
    PROVE  t = m
<1>1. /\ n \in Nat
      /\ \A i \in 1 .. n : c[i - 1] \in Nat /\ c[i] \in Nat /\ i - 1 \in 0 .. n /\ i \in 0 .. n
  BY CutBounds
<1>2. \A i, j \in 0 .. n : i <= j => c[i] <= c[j]
  BY DEF Cuts
<1>3. ~(t < m)
  <2> SUFFICES ASSUME t < m PROVE FALSE
    OBVIOUS
  <2>1. t <= m - 1 /\ t \in 0 .. n /\ m - 1 \in 0 .. n
    BY <1>1
  <2>2. c[t] \in Nat /\ c[m - 1] \in Nat /\ c[t] <= c[m - 1]
    BY <1>1, <1>2, <2>1
  <2> QED BY <2>2
<1>4. ~(m < t)
  <2> SUFFICES ASSUME m < t PROVE FALSE
    OBVIOUS
  <2>1. m <= t - 1 /\ m \in 0 .. n /\ t - 1 \in 0 .. n
    BY <1>1
  <2>2. c[m] \in Nat /\ c[t - 1] \in Nat /\ c[m] <= c[t - 1]
    BY <1>1, <1>2, <2>1
  <2> QED BY <2>2
<1> QED BY <1>1, <1>3, <1>4

LEMMA ReplaceFirst ==
    ASSUME NEW C, NEW h \in Seq(C), h # <<>>, Distinct(h), NEW y \in C, y \notin ToSet(h) \ {h[1]}
    PROVE  LET g == [h EXCEPT ![1] = y]
           IN  /\ g \in Seq(C) /\ Len(g) = Len(h) /\ g[1] = y /\ \A i \in 2 .. Len(h) : g[i] = h[i]
               /\ ToSet(g) = (ToSet(h) \ {h[1]}) \cup {y} /\ Distinct(g)
<1> DEFINE n == Len(h)
           g == [h EXCEPT ![1] = y]
<1>1. n \in Nat \ {0} /\ DOMAIN h = 1 .. n /\ 1 \in 1 .. n
  OBVIOUS
<1>2. g \in Seq(C) /\ Len(g) = n /\ g[1] = y /\ (\A i \in 2 .. n : g[i] = h[i]) /\ DOMAIN g = 1 .. n
  BY <1>1
<1>3. \A i, j \in 1 .. n : i # j => h[i] # h[j]
  BY DEF Distinct
<1> HIDE DEF g, n
<1>4. \A i \in 2 .. n : i \in 1 .. n /\ h[i] # h[1] /\ h[i] \in ToSet(h) /\ h[i] # y
  <2> TAKE i \in 2 .. n
  <2>1. i \in 1 .. n /\ i # 1
    BY <1>1
  <2>2. h[i] # h[1] /\ h[i] \in ToSet(h)
    BY <1>1, <1>3, <2>1 DEF ToSet
  <2> QED BY <2>1, <2>2
<1>5. \A i \in 1 .. n : i = 1 \/ i \in 2 .. n
  BY <1>1
<1>6. ToSet(g) = (ToSet(h) \ {h[1]}) \cup {y}
  <2>1. ASSUME NEW i \in 1 .. n PROVE g[i] \in (ToSet(h) \ {h[1]}) \cup {y}
    BY <1>2, <1>4, <1>5
  <2>2. ASSUME NEW x \in ToSet(h) \ {h[1]} PROVE x \in ToSet(g)
    <3>1. PICK i \in 1 .. n : x = h[i]
      BY <1>1 DEF ToSet
    <3>2. i \in 2 .. n
      BY <1>5, <2>2, <3>1
    <3> QED BY <1>2, <1>4, <3>1, <3>2 DEF ToSet
  <2>3. y \in ToSet(g)
    BY <1>1, <1>2 DEF ToSet
  <2>4. \A x \in ToSet(g) : x \in (ToSet(h) \ {h[1]}) \cup {y}
    BY <1>2, <2>1 DEF ToSet
  <2> QED BY <2>2, <2>3, <2>4
<1>7. Distinct(g)
  <2> SUFFICES ASSUME NEW i \in 1 .. n, NEW j \in 1 .. n, i # j PROVE g[i] # g[j]
    BY <1>2 DEF Distinct
  <2>1. i = 1 => j \in 2 .. n
    BY <1>5
  <2>2. j = 1 => i \in 2 .. n
    BY <1>5
  <2> QED BY <1>2, <1>3, <1>4, <1>5, <2>1, <2>2
<1> QED BY <1>2, <1>6, <1>7 DEF g, n

(* One entry comes out: the write after those that have.                   *)
ComesOut(files, ws, c, n, p, h, o) ==
    \E g : /\ TakenOut(files, [heap |-> h, out |-> o]) = [heap |-> g, out |-> Append(o, ws[p + 1])]
           /\ Queue(g, c, n, p + 1)

LEMMA TakenOutIs ==
    ASSUME NEW ws \in Seq(KeyVals), Rising(ws), NEW files, NEW c, NEW n, NEW a, NEW b,
           Piled(files, ws, c, n, a, b), NEW p \in Nat, a <= p, p < b, NEW h, Queue(h, c, n, p), NEW o
    PROVE  ComesOut(files, ws, c, n, p, h, o)
<1> DEFINE C == Cursors(c, n)
           W == Standing(c, n)
           x == h[1]
           y == Advance(files, x)
           h1 == [h EXCEPT ![1] = y]
           g == DropDone(files, h1)
           s == [heap |-> h, out |-> o]
           e == files[x.table].blocks[x.block][x.entry]
<1>1. PICK m \in 1 .. n : c[m - 1] <= p /\ p < c[m] /\ h # <<>> /\ x = NextOf(c, m, p)
  BY QueueHead
<1>2. /\ h \in Seq(C) /\ ToSet(h) = Live(c, n, p) /\ Distinct(h) /\ IsHeap(h, W)
  BY DEF Queue
<1>3. Cuts(c, n, a, b) /\ \A i \in 1 .. n : c[i - 1] < c[i]
  BY DEF Piled
<1>4. c[m - 1] < c[m] /\ n \in Nat
  BY <1>3, CutBounds
<1>5. x \in C /\ W[x] = p + 1 /\ x.table = m
  BY <1>1, <1>3, <1>4, NextOfIs
<1>6. Orders(files, C, W) /\ \A z \in C : ~z.done
  BY PileOrders DEF Cursors
<1>7. e = ws[p + 1]
  BY <1>5, PileOrders, SMTT(60)
<1>8. TakenOut(files, s) = [heap |-> g, out |-> Append(o, e)]
  <2>1. s.heap = h /\ s.out = o
    OBVIOUS
  <2>2. TakenOut(files, s) = IF s.heap = <<>> \/ s.heap[1].done THEN s
            ELSE [heap |-> DropDone(files, [s.heap EXCEPT ![1] = Advance(files, s.heap[1])]),
                  out |-> Append(s.out, files[s.heap[1].table].blocks[s.heap[1].block][s.heap[1].entry])]
    BY DEF TakenOut
  <2>3. ~x.done
    BY <1>5, <1>6
  <2> HIDE DEF s, C, W
  <2> QED BY <1>1, <2>1, <2>2, <2>3
<1> HIDE DEF C, W, s, e, y
<1>9. CASE p + 1 < c[m]
  <2>1. y = NextOf(c, m, p + 1)
    BY <1>1, <1>9, AdvanceIs DEF y
  <2>2. p + 1 \in Nat /\ c[m - 1] <= p + 1
    <3>1. c[m - 1] \in Nat /\ c[m - 1] <= p
      BY <1>1, <1>3, CutBounds
    <3> QED BY <3>1
  <2>3. y \in C /\ W[y] = (p + 1) + 1 /\ y.table = m
    BY <1>3, <1>4, <1>9, <2>1, <2>2, NextOfIs DEF C, W
  <2>4. ASSUME NEW z \in Live(c, n, p) \ {x} PROVE z # y /\ W[z] \in Nat /\ W[z] >= p + 2
    <3>1. PICK t \in 1 .. n : p < c[t] /\ z = NextOf(c, t, p)
      BY DEF Live
    <3>2. t # m
      BY <1>1, <2>4, <3>1
    <3>3. c[t - 1] < c[t] /\ c[t - 1] \in Nat
      BY <1>3, CutBounds
    <3>4. ~(c[t - 1] <= p)
      BY <1>1, <1>3, <3>1, <3>2, OnePiece
    <3>5. z.table = t
      BY <1>3, <3>1, <3>3, NextOfIs
    <3>6. W[z] = c[t - 1] + 1
      BY <1>3, <3>1, <3>3, <3>4, NextOfIs DEF W
    <3>7. z # y
      BY <2>3, <3>2, <3>5
    <3> QED BY <3>3, <3>4, <3>6, <3>7
  <2>5. y \notin ToSet(h) \ {h[1]}
    BY <1>2, <2>4
  <2>6. /\ h1 \in Seq(C) /\ Len(h1) = Len(h) /\ h1[1] = y /\ \A i \in 2 .. Len(h) : h1[i] = h[i]
        /\ ToSet(h1) = (ToSet(h) \ {h[1]}) \cup {y} /\ Distinct(h1)
    BY <1>1, <1>2, <2>3, <2>5, ReplaceFirst
  <2> HIDE DEF h1
  <2>7. IsHeap(h1, W)
    <3> SUFFICES ASSUME NEW j \in 2 .. Len(h) PROVE W[h1[Half(j)]] <= W[h1[j]]
      BY <2>6 DEF IsHeap
    <3>1. Len(h) \in Nat /\ j \in 1 .. Len(h) /\ Half(j) \in 1 .. j - 1
      BY <1>2, HalfIs
    <3>2. W[h[Half(j)]] <= W[h[j]] /\ h1[j] = h[j]
      BY <1>2, <2>6 DEF IsHeap
    <3>3. CASE Half(j) = 1
      <4>1. 1 \in 1 .. Len(h) /\ j # 1 /\ DOMAIN h = 1 .. Len(h)
        BY <1>2, <3>1
      <4>2. h[j] \in ToSet(h) /\ h[j] # h[1]
        BY <1>2, <3>1, <4>1 DEF ToSet, Distinct
      <4>3. W[h[j]] \in Nat /\ W[h[j]] >= p + 2
        BY <1>2, <2>4, <4>2
      <4> QED BY <2>3, <2>6, <3>2, <3>3, <4>3
    <3>4. CASE Half(j) # 1
      <4>1. Half(j) \in 2 .. Len(h)
        BY <3>1, <3>4
      <4> QED BY <2>6, <3>2, <4>1
    <3> QED BY <3>3, <3>4
  <2>8. ~h1[1].done /\ h1 # <<>>
    <3>1. Len(h) # 0
      BY <1>1, <1>2
    <3> QED BY <1>6, <2>3, <2>6, <3>1
  <2>9. g = h1
    BY <1>6, <2>6, <2>7, <2>8, DropNone
  <2>10. Live(c, n, p + 1) = (Live(c, n, p) \ {x}) \cup {y}
    BY <1>1, <1>3, <1>9, <2>1, LiveNext
  <2>11. Queue(g, c, n, p + 1)
    BY <1>2, <2>6, <2>7, <2>9, <2>10 DEF Queue, C, W
  <2> QED BY <1>7, <1>8, <2>11 DEF s, ComesOut
<1>10. CASE ~(p + 1 < c[m])
  <2>1. y.done
    BY <1>1, <1>10, AdvanceIs DEF y
  <2>2. g \in Seq(C) /\ IsHeap(g, W) /\ Distinct(g) /\ ToSet(g) = ToSet(h) \ {h[1]}
    BY <1>1, <1>2, <1>6, <2>1, DropRoot
  <2>3. Live(c, n, p + 1) = Live(c, n, p) \ {x}
    BY <1>1, <1>3, <1>10, LiveNext
  <2>4. Queue(g, c, n, p + 1)
    BY <1>2, <2>2, <2>3 DEF Queue, C, W
  <2> QED BY <1>7, <1>8, <2>4 DEF s, ComesOut
<1> QED BY <1>9, <1>10

LEMMA SliceMore ==
    ASSUME NEW ws \in Seq(KeyVals), NEW a \in Nat, NEW p \in Nat, a <= p, p + 1 <= Len(ws)
    PROVE  Append(Slice(ws, a, p), ws[p + 1]) = Slice(ws, a, p + 1)
<1> DEFINE x == Slice(ws, a, p)
           y == Slice(ws, a, p + 1)
           e == ws[p + 1]
           z == Append(x, e)
<1>1. /\ x \in Seq(KeyVals) /\ Len(x) = p - a /\ \A i \in 1 .. p - a : x[i] = ws[a + i]
  <2>1. p <= Len(ws)
    OBVIOUS
  <2> QED BY <2>1, SliceIs
<1>2. /\ y \in Seq(KeyVals) /\ Len(y) = (p + 1) - a /\ \A i \in 1 .. (p + 1) - a : y[i] = ws[a + i]
  <2>1. p + 1 \in Nat /\ a <= p + 1
    OBVIOUS
  <2> QED BY <2>1, SliceIs
<1>3. e \in KeyVals
  OBVIOUS
<1> HIDE DEF x, y, e
<1>4. z \in Seq(KeyVals) /\ Len(z) = (p - a) + 1 /\ z[(p - a) + 1] = e /\ \A i \in 1 .. p - a : z[i] = x[i]
  BY <1>1, <1>3
<1> HIDE DEF z
<1>5. \A i \in 1 .. Len(z) : z[i] = y[i]
  <2> TAKE i \in 1 .. Len(z)
  <2>1. i \in 1 .. (p + 1) - a
    BY <1>4
  <2>2. CASE i = (p - a) + 1
    <3>1. a + i = p + 1
      BY <2>2
    <3> QED BY <1>2, <1>4, <2>1, <2>2, <3>1 DEF e
  <2>3. CASE i # (p - a) + 1
    <3>1. i \in 1 .. p - a
      BY <2>1, <2>3
    <3> QED BY <1>1, <1>2, <1>4, <2>1, <3>1
  <2> QED BY <2>2, <2>3
<1>6. Len(z) = Len(y)
  BY <1>2, <1>4
<1>7. z = y
  BY <1>2, <1>4, <1>5, <1>6, SeqEqual
<1> QED BY <1>7 DEF z, x, y, e

LEMMA SliceNone ==
    ASSUME NEW ws \in Seq(KeyVals), NEW a \in Nat, a <= Len(ws)
    PROVE  Slice(ws, a, a) = <<>>
<1>1. Slice(ws, a, a) \in Seq(KeyVals) /\ Len(Slice(ws, a, a)) = a - a
  <2>1. a <= a
    OBVIOUS
  <2> QED BY <2>1, SliceIs
<1> QED BY <1>1

(* All entries of the files, in a row.                                     *)
AllEntries(tables) == FlattenSeq([i \in DOMAIN tables |-> FlattenSeq(tables[i].blocks)])

LEMMA AllEntriesIs ==
    ASSUME NEW ws \in Seq(KeyVals), NEW files, IsList(files), NEW c, NEW n, n = Len(files), NEW a, NEW b,
           Piled(files, ws, c, n, a, b)
    PROVE  Len(AllEntries(files)) = b - a
<1> DEFINE parts == [i \in DOMAIN files |-> FlattenSeq(files[i].blocks)]
           all == FlattenSeq(parts)
<1>1. AllEntries(files) = all
  BY DEF AllEntries
<1>2. DOMAIN files = 1 .. n /\ n \in Nat
  BY DEF IsList
<1>3. /\ Cuts(c, n, a, b) /\ b <= Len(ws)
      /\ \A i \in 1 .. n : c[i - 1] < c[i] /\ files[i].blocks = <<Slice(ws, c[i - 1], c[i])>>
  BY DEF Piled
<1>4. /\ a \in Nat /\ b \in Nat /\ c[0] = a /\ c[n] = b /\ (n = 0 => a = b)
      /\ \A i \in 0 .. n : c[i] \in a .. b
  BY <1>3, CutBounds DEF Cuts
<1>5. ASSUME NEW i \in 1 .. n PROVE parts[i] \in Seq(KeyVals) /\ Len(parts[i]) = c[i] - c[i - 1]
  <2> DEFINE u == c[i - 1]
             v == c[i]
             s == Slice(ws, u, v)
             p == <<s>>
  <2>1. u \in Nat /\ v \in Nat /\ u <= v /\ v <= Len(ws)
    <3>1. i - 1 \in 0 .. n /\ i \in 0 .. n
      BY <1>2
    <3>2. u \in a .. b /\ v \in a .. b /\ u < v
      BY <1>3, <1>4, <3>1
    <3> HIDE DEF u, v
    <3> QED BY <1>3, <1>4, <3>2
  <2>2. files[i].blocks = p
    BY <1>3
  <2> HIDE DEF u, v
  <2>3. s \in Seq(KeyVals) /\ Len(s) = v - u
    BY <2>1, SliceIs
  <2> HIDE DEF s
  <2>4. Len(p) = 1 /\ p[1] = s
    OBVIOUS
  <2> HIDE DEF p
  <2>5. PICK f : f[1] = p[1] /\ FlattenSeq(p) = f[1]
    <3>1. 1 \in Nat /\ 1 # 0
      OBVIOUS
    <3> QED BY <2>4, <3>1, FlattenSteps
  <2>6. parts[i] = s
    BY <1>2, <2>2, <2>4, <2>5
  <2> HIDE DEF parts
  <2> QED BY <2>3, <2>6 DEF u, v
<1>6. Len(parts) = n
  BY <1>2
<1> HIDE DEF parts
<1>7. CASE n = 0
  <2>1. all = parts /\ Len(all) = 0
    BY <1>6, <1>7 DEF FlattenSeq
  <2> QED BY <1>1, <1>4, <1>7, <2>1
<1>8. CASE n # 0
  <2>1. PICK f : f[1] = parts[1] /\ (\A k \in 2 .. n : f[k] = f[k - 1] \o parts[k]) /\ all = f[n]
    BY <1>2, <1>6, <1>8, FlattenSteps, ZenonT(120)
  <2> DEFINE P == {k \in 0 .. n : k # 0 => f[k] \in Seq(KeyVals) /\ Len(f[k]) = c[k] - a}
  <2>2. 0 \in P
    BY <1>2
  <2>3. ASSUME NEW k \in 1 .. n, k - 1 \in P PROVE k \in P
    <3>1. k \in 0 .. n /\ k - 1 \in 0 .. n /\ parts[k] \in Seq(KeyVals) /\ Len(parts[k]) = c[k] - c[k - 1]
      BY <1>2, <1>5
    <3>2. c[k] \in Nat /\ c[k - 1] \in Nat
      BY <1>4, <3>1
    <3>3. CASE k = 1
      <4>1. f[k] = parts[k] /\ c[k - 1] = a
        BY <1>4, <2>1, <3>3
      <4> QED BY <3>1, <4>1
    <3>4. CASE k # 1
      <4>1. k \in 2 .. n /\ k - 1 # 0
        BY <1>2, <3>4
      <4>2. f[k - 1] \in Seq(KeyVals) /\ Len(f[k - 1]) = c[k - 1] - a /\ f[k] = f[k - 1] \o parts[k]
        BY <2>1, <2>3, <4>1
      <4> DEFINE x == f[k - 1]
                 y == parts[k]
      <4>3. x \in Seq(KeyVals) /\ y \in Seq(KeyVals)
        BY <3>1, <4>2
      <4> HIDE DEF x, y
      <4>4. x \o y \in Seq(KeyVals) /\ Len(x \o y) = Len(x) + Len(y)
        BY <4>3
      <4>5. f[k] \in Seq(KeyVals) /\ Len(f[k]) = (c[k - 1] - a) + (c[k] - c[k - 1])
        BY <3>1, <4>2, <4>4 DEF x, y
      <4>6. (c[k - 1] - a) + (c[k] - c[k - 1]) = c[k] - a
        BY <1>4, <3>2
      <4> QED BY <3>1, <4>5, <4>6
    <3> QED BY <3>3, <3>4
  <2>4. n \in P
    <3>1. n \in 0 .. n
      BY <1>2
    <3> HIDE DEF P
    <3> QED BY <1>2, <2>2, <2>3, <3>1, InductionUpTo
  <2> QED BY <1>1, <1>4, <1>8, <2>1, <2>4
<1> QED BY <1>7, <1>8

(* Everything comes out, in the order of the writes.                       *)
LEMMA DrainIs ==
    ASSUME NEW ws \in Seq(KeyVals), Rising(ws), NEW files, IsList(files), NEW c, NEW n, n = Len(files), NEW a, NEW b,
           Piled(files, ws, c, n, a, b), NEW h, Queue(h, c, n, a)
    PROVE  Drain(files, h) = Slice(ws, a, b)
<1> DEFINE N == Len(AllEntries(files))
           Turn(p, g) == [heap |-> g, out |-> Slice(ws, a, p)]
           S == {Turn(q[1], q[2]) : q \in {r \in (a .. b) \X Seq(Cursors(c, n)) : Queue(r[2], c, n, r[1])}}
           base == [heap |-> h, out |-> <<>>]
           f == [x \in S |-> TakenOut(files, x)]
           Solves(g) == g = [i \in 0 .. N |-> IF i = 0 THEN base ELSE TakenOut(files, g[i - 1])]
           w == CHOOSE g : Solves(g)
<1>1. Drain(files, h) = w[N].out
  BY DEF Drain, Iterated, AllEntries
<1>2. /\ a \in Nat /\ b \in Nat /\ a <= b /\ b <= Len(ws) /\ N = b - a /\ Cuts(c, n, a, b) /\ n \in Nat
      /\ \A i \in 0 .. n : c[i] \in a .. b
  <2>1. Cuts(c, n, a, b) /\ b <= Len(ws)
    BY DEF Piled
  <2>2. Len(AllEntries(files)) = b - a
    BY AllEntriesIs
  <2> HIDE DEF N
  <2>3. a \in Nat /\ b \in Nat /\ a <= b /\ n \in Nat /\ \A i \in 0 .. n : c[i] \in a .. b
    BY <2>1, CutBounds
  <2> QED BY <2>1, <2>2, <2>3 DEF N
<1> HIDE DEF N
<1>3. \A p \in a .. b : \A g : Queue(g, c, n, p) => Turn(p, g) \in S
  <2> TAKE p \in a .. b
  <2> TAKE g
  <2> HAVE Queue(g, c, n, p)
  <2>1. g \in Seq(Cursors(c, n))
    BY DEF Queue
  <2>2. <<p, g>> \in {r \in (a .. b) \X Seq(Cursors(c, n)) : Queue(r[2], c, n, r[1])}
    BY <2>1
  <2> HIDE DEF Turn
  <2>3. Turn(<<p, g>>[1], <<p, g>>[2]) \in S
    BY <2>2
  <2> QED BY <2>3
<1>4. \A x \in S : \E p \in a .. b : \E g : Queue(g, c, n, p) /\ x = Turn(p, g)
  <2> HIDE DEF Turn
  <2> QED OBVIOUS
<1>5. base = Turn(a, h) /\ a \in a .. b
  BY <1>2, SliceNone
<1> HIDE DEF S, base
<1>6. ASSUME NEW p \in a .. b, p # b, NEW g, Queue(g, c, n, p)
      PROVE  \E g2 : TakenOut(files, Turn(p, g)) = Turn(p + 1, g2) /\ Queue(g2, c, n, p + 1) /\ p + 1 \in a .. b
  <2>1. p \in Nat /\ a <= p /\ p < b /\ p + 1 <= Len(ws) /\ p + 1 \in a .. b
    BY <1>2, <1>6
  <2> DEFINE o == Slice(ws, a, p)
  <2>2. PICK g2 : /\ TakenOut(files, [heap |-> g, out |-> o]) = [heap |-> g2, out |-> Append(o, ws[p + 1])]
                  /\ Queue(g2, c, n, p + 1)
    <3>1. p \in Nat /\ a <= p /\ p < b /\ Queue(g, c, n, p)
      BY <1>6, <2>1
    <3> HIDE DEF o
    <3>2. ComesOut(files, ws, c, n, p, g, o)
      BY <3>1, TakenOutIs
    <3> QED BY <3>2 DEF ComesOut
  <2>3. Append(o, ws[p + 1]) = Slice(ws, a, p + 1)
    BY <1>2, <2>1, SliceMore
  <2> QED BY <2>1, <2>2, <2>3
<1>7. ASSUME NEW g, Queue(g, c, n, b) PROVE TakenOut(files, Turn(b, g)) = Turn(b, g)
  <2>1. Live(c, n, b) = {}
    <3>1. \A i \in 1 .. n : ~(b < c[i])
      <4> TAKE i \in 1 .. n
      <4>1. i \in 0 .. n
        BY <1>2
      <4>2. c[i] \in a .. b
        BY <1>2, <4>1
      <4> QED BY <1>2, <4>2
    <3> QED BY <3>1 DEF Live
  <2>2. g = <<>>
    <3>1. g \in Seq(Cursors(c, n)) /\ ToSet(g) = {}
      BY <1>7, <2>1 DEF Queue
    <3>2. ~(1 \in DOMAIN g)
      BY <3>1 DEF ToSet
    <3> QED BY <3>1, <3>2
  <2> QED BY <2>2 DEF TakenOut
<1> HIDE DEF Turn
<1>8. \A x \in S : TakenOut(files, x) \in S
  <2> TAKE x \in S
  <2>1. PICK p \in a .. b : \E g : Queue(g, c, n, p) /\ x = Turn(p, g)
    BY <1>4
  <2>4. PICK g : Queue(g, c, n, p) /\ x = Turn(p, g)
    BY <2>1
  <2>2. CASE p = b
    BY <1>7, <2>2, <2>4
  <2>3. CASE p # b
    <3>1. PICK g2 : TakenOut(files, Turn(p, g)) = Turn(p + 1, g2) /\ Queue(g2, c, n, p + 1) /\ p + 1 \in a .. b
      BY <1>6, <2>3, <2>4
    <3> QED BY <1>3, <2>4, <3>1
  <2> QED BY <2>2, <2>3
<1>9. base \in S
  BY <1>3, <1>5
<1>10. f \in [S -> S] /\ \A x \in S : f[x] = TakenOut(files, x)
  BY <1>8
<1> HIDE DEF f
<1>11. N \in Nat
  BY <1>2
<1>12. PICK g \in [0 .. N -> S] : Repeats(g, N, base, f)
  BY <1>9, <1>10, <1>11, RepeatSolved
<1>13. \A i \in 0 .. N : g[i] = IF i = 0 THEN base ELSE TakenOut(files, g[i - 1])
  <2> TAKE i \in 0 .. N
  <2>1. i # 0 => i - 1 \in 0 .. N
    BY <1>11
  <2>2. i # 0 => g[i - 1] \in S
    BY <1>12, <2>1
  <2> QED BY <1>10, <1>12, <2>2 DEF Repeats
<1>14. Solves(g)
  <2>1. g = [i \in 0 .. N |-> g[i]]
    BY <1>12
  <2> QED BY <1>13, <2>1
<1>15. Solves(w)
  <2> HIDE DEF Solves
  <2> QED BY <1>14
<1> HIDE DEF w
<1>16. w[0] = base /\ \A i \in 1 .. N : w[i] = TakenOut(files, w[i - 1])
  BY <1>11, <1>15
<1> HIDE DEF Solves
<1> DEFINE P == {i \in 0 .. N : \E g2 : w[i] = Turn(a + i, g2) /\ Queue(g2, c, n, a + i)}
<1>17. 0 \in P
  <2>1. a + 0 = a /\ 0 \in 0 .. N
    BY <1>2, <1>11
  <2>2. w[0] = Turn(a, h) /\ Queue(h, c, n, a)
    BY <1>5, <1>16
  <2> QED BY <2>1, <2>2
<1>18. ASSUME NEW i \in 1 .. N, i - 1 \in P PROVE i \in P
  <2> DEFINE p == a + (i - 1)
  <2>1. p \in a .. b /\ p # b /\ p + 1 = a + i /\ i \in 0 .. N
    BY <1>2, <1>11
  <2>2. PICK g1 : w[i - 1] = Turn(p, g1) /\ Queue(g1, c, n, p)
    BY <1>18
  <2> HIDE DEF p
  <2>3. PICK g2 : TakenOut(files, Turn(p, g1)) = Turn(p + 1, g2) /\ Queue(g2, c, n, p + 1)
    BY <1>6, <2>1, <2>2
  <2>4. w[i] = Turn(a + i, g2) /\ Queue(g2, c, n, a + i)
    BY <1>16, <2>1, <2>2, <2>3
  <2> QED BY <2>1, <2>4
<1>19. N \in P
  <2>1. N \in 0 .. N
    BY <1>11
  <2> HIDE DEF P
  <2> QED BY <1>11, <1>17, <1>18, <2>1, InductionUpTo
<1>20. PICK g2 : w[N] = Turn(a + N, g2)
  BY <1>19
<1>21. w[N].out = Slice(ws, a, a + N)
  BY <1>20 DEF Turn
<1>22. a + N = b
  BY <1>2
<1> QED BY <1>1, <1>21, <1>22

(* The cursors stand in the order of their files, which is a heap.         *)
FirstOut(tables) ==
  [i \in DOMAIN tables |-> Load(tables, [table |-> i, block |-> 1, entry |-> 1, done |-> FALSE])]

LEMMA FirstOutIs ==
    ASSUME NEW ws \in Seq(KeyVals), Rising(ws), NEW files, IsList(files), NEW c, NEW n, n = Len(files), NEW a, NEW b,
           Piled(files, ws, c, n, a, b)
    PROVE  Queue(FirstOut(files), c, n, a)
<1> DEFINE h == FirstOut(files)
           C == Cursors(c, n)
           W == Standing(c, n)
<1>1. DOMAIN files = 1 .. n /\ n \in Nat
  BY DEF IsList
<1>2. /\ Cuts(c, n, a, b) /\ b <= Len(ws)
      /\ \A i \in 1 .. n : c[i - 1] < c[i] /\ files[i].blocks = <<Slice(ws, c[i - 1], c[i])>>
  BY DEF Piled
<1>3. /\ a \in Nat /\ b \in Nat
      /\ \A i \in 0 .. n : c[i] \in a .. b
  BY <1>2, CutBounds
<1>4. ASSUME NEW i \in 1 .. n
      PROVE  h[i] = NextOf(c, i, a) /\ a < c[i] /\ h[i] \in C /\ W[h[i]] = c[i - 1] + 1 /\ h[i].table = i
  <2> DEFINE u == c[i - 1]
             v == c[i]
             s == Slice(ws, u, v)
             x == [table |-> i, block |-> 1, entry |-> 1, done |-> FALSE]
  <2>1. u \in Nat /\ v \in Nat /\ a <= u /\ u < v /\ v <= Len(ws) /\ files[i].blocks = <<s>>
    <3>1. i - 1 \in 0 .. n /\ i \in 0 .. n
      BY <1>1
    <3>2. u \in a .. b /\ v \in a .. b /\ u < v
      BY <1>2, <1>3, <3>1
    <3> HIDE DEF u, v
    <3>3. b \in Nat /\ a \in Nat /\ b <= Len(ws)
      BY <1>2, <1>3
    <3>4. files[i].blocks = <<s>>
      BY <1>2 DEF u, v
    <3> HIDE DEF s
    <3> QED BY <3>2, <3>3, <3>4
  <2> HIDE DEF u, v
  <2>2. Len(s) = v - u
    <3>1. u <= v
      BY <2>1
    <3> QED BY <2>1, <3>1, SliceIs
  <2> HIDE DEF s
  <2>3. Load(files, x) = x
    <3>1. x.table = i /\ x.block = 1 /\ x.entry = 1 /\ ~x.done
      OBVIOUS
    <3> HIDE DEF x
    <3>2. files[x.table].blocks[x.block] = s
      BY <2>1, <3>1
    <3>3. ~(1 > Len(s))
      BY <2>1, <2>2
    <3> QED BY <3>1, <3>2, <3>3 DEF Load
  <2>4. h[i] = x
    BY <1>1, <2>3 DEF FirstOut
  <2>5. (IF u <= a THEN a - u ELSE 0) + 1 = 1
    BY <1>3, <2>1
  <2>6. x = NextOf(c, i, a)
    BY <2>5 DEF NextOf, u
  <2> HIDE DEF x, h, W, C
  <2>7. a < v
    BY <1>3, <2>1
  <2>8. /\ NextOf(c, i, a) \in C /\ NextOf(c, i, a).table = i
        /\ u <= a => W[NextOf(c, i, a)] = a + 1
        /\ ~(u <= a) => W[NextOf(c, i, a)] = u + 1
    <3>1. Cuts(c, n, a, b) /\ c[i - 1] < c[i] /\ a < c[i] /\ a \in Nat
      BY <1>2, <1>3, <2>7 DEF v
    <3> QED BY <3>1, NextOfIs DEF C, W, u
  <2>9. W[NextOf(c, i, a)] = u + 1
    BY <1>3, <2>1, <2>8
  <2> QED BY <2>4, <2>6, <2>7, <2>8, <2>9 DEF u, v
<1>5. h \in Seq(C) /\ Len(h) = n /\ DOMAIN h = 1 .. n
  <2>1. h = [i \in 1 .. n |-> h[i]]
    BY <1>1 DEF FirstOut
  <2> HIDE DEF h, C
  <2>2. \A i \in 1 .. n : h[i] \in C
    BY <1>4
  <2> QED BY <1>1, <2>1, <2>2
<1> HIDE DEF h, C, W
<1>6. ToSet(h) = Live(c, n, a)
  <2>1. Live(c, n, a) = {NextOf(c, t, a) : t \in 1 .. n}
    BY <1>4 DEF Live
  <2> QED BY <1>4, <1>5, <2>1 DEF ToSet
<1>7. Distinct(h)
  BY <1>4, <1>5 DEF Distinct
<1>8. IsHeap(h, W)
  <2> SUFFICES ASSUME NEW j \in 2 .. n PROVE W[h[Half(j)]] <= W[h[j]]
    BY <1>5 DEF IsHeap
  <2> DEFINE i == Half(j)
  <2>1. i \in 1 .. j - 1 /\ j \in 1 .. n /\ i \in 1 .. n
    BY <1>1, HalfIs
  <2> HIDE DEF i
  <2>2. i - 1 \in 0 .. n /\ j - 1 \in 0 .. n /\ i - 1 <= j - 1
    BY <1>1, <2>1
  <2>3. c[i - 1] <= c[j - 1] /\ c[i - 1] \in a .. b /\ c[j - 1] \in a .. b
    BY <1>2, <1>3, <2>2 DEF Cuts
  <2>4. W[h[i]] = c[i - 1] + 1 /\ W[h[j]] = c[j - 1] + 1
    BY <1>4, <2>1
  <2> QED BY <1>3, <2>3, <2>4 DEF i
<1> QED BY <1>5, <1>6, <1>7, <1>8 DEF Queue, h, C, W

LEMMA HeapOfIs ==
    ASSUME NEW tables, NEW C, NEW W, Orders(tables, C, W), IsList(tables),
           FirstOut(tables) \in Seq(C), IsHeap(FirstOut(tables), W)
    PROVE  HeapOf(tables) = FirstOut(tables)
<1> DEFINE first == FirstOut(tables)
           n == Len(tables) \div 2
           seq == Reverse([i \in 1 .. n |-> i])
           Step(g, s) == IF s = {} THEN first ELSE SiftDown(tables, g[s \ {Max(s)}], seq[Max(s)])
           Solves(g) == g = [s \in SUBSET (DOMAIN seq) |-> Step(g, s)]
           iter == CHOOSE g : Solves(g)
<1>1. HeapOf(tables) = iter[DOMAIN seq]
  BY DEF HeapOf, FirstOut, FoldLeft, MapThenFoldSet
<1>2. Len(tables) \in Nat
  BY DEF IsList
<1>3. n \in Nat
  BY <1>2
<1> HIDE DEF n
<1>4. DOMAIN seq = 1 .. n /\ \A i \in 1 .. n : seq[i] \in Nat \ {0}
  <2> DEFINE up == [i \in 1 .. n |-> i]
  <2>1. Len(up) = n /\ \A i \in 1 .. n : up[i] = i
    BY <1>3
  <2>2. seq = [i \in 1 .. Len(up) |-> up[(Len(up) - i) + 1]]
    BY DEF Reverse
  <2> HIDE DEF up, seq
  <2>3. \A i \in 1 .. n : (n - i) + 1 \in 1 .. n
    BY <1>3
  <2>4. seq = [i \in 1 .. n |-> up[(n - i) + 1]]
    BY <2>1, <2>2
  <2>5. ASSUME NEW i \in 1 .. n PROVE seq[i] \in Nat \ {0}
    <3>1. seq[i] = up[(n - i) + 1] /\ (n - i) + 1 \in 1 .. n
      BY <2>3, <2>4
    <3>2. seq[i] = (n - i) + 1
      BY <2>1, <3>1
    <3> QED BY <3>1, <3>2
  <2> QED BY <2>4, <2>5
<1> HIDE DEF seq
<1>5. \A at \in Nat \ {0} : SiftDown(tables, first, at) = first
  BY SiftDownSame
<1> HIDE DEF first
<1>6. Solves([s \in SUBSET (1 .. n) |-> first])
  <2> DEFINE g == [s \in SUBSET (1 .. n) |-> first]
  <2>1. ASSUME NEW s \in SUBSET (1 .. n) PROVE g[s] = Step(g, s)
    <3>1. CASE s = {}
      BY <3>1
    <3>2. CASE s # {}
      <4>1. s \in SUBSET (0 .. n)
        OBVIOUS
      <4>2. Max(s) \in s
        BY <1>3, <3>2, <4>1, MaxIsMember
      <4>3. seq[Max(s)] \in Nat \ {0}
        BY <1>4, <4>2
      <4>4. s \ {Max(s)} \in SUBSET (1 .. n)
        OBVIOUS
      <4>5. g[s \ {Max(s)}] = first /\ g[s] = first
        BY <4>4
      <4> HIDE DEF g
      <4> QED BY <1>5, <3>2, <4>3, <4>5
    <3> QED BY <3>1, <3>2
  <2>2. g = [s \in SUBSET (1 .. n) |-> g[s]]
    OBVIOUS
  <2> HIDE DEF g, Step
  <2>3. Solves(g)
    BY <1>4, <2>1, <2>2
  <2> QED BY <2>3 DEF g
<1>7. Solves(iter)
  <2> HIDE DEF Solves
  <2> QED BY <1>6
<1> HIDE DEF iter
<1>8. \A s \in SUBSET (1 .. n) : iter[s] = Step(iter, s)
  <2> HIDE DEF Step
  <2> QED BY <1>4, <1>7
<1> HIDE DEF Solves
<1> DEFINE P == {k \in 0 .. n : iter[1 .. k] = first}
<1>9. 0 \in P
  <2>1. 1 .. 0 = {} /\ {} \in SUBSET (1 .. n) /\ 0 \in 0 .. n
    BY <1>3
  <2>2. iter[{}] = first
    BY <1>8, <2>1
  <2> QED BY <2>1, <2>2
<1>10. ASSUME NEW k \in 1 .. n, k - 1 \in P PROVE k \in P
  <2>1. k \in Nat /\ k \in 1 .. k /\ 1 .. k \in SUBSET (1 .. n) /\ k \in 0 .. n
    BY <1>3
  <2>2. Max(1 .. k) = k
    BY <2>1, MaxOfTop
  <2>3. (1 .. k) \ {k} = 1 .. k - 1 /\ 1 .. k # {}
    BY <2>1
  <2>4. iter[1 .. k] = SiftDown(tables, iter[1 .. k - 1], seq[k])
    BY <1>8, <2>1, <2>2, <2>3
  <2>5. iter[1 .. k - 1] = first
    BY <1>10
  <2> QED BY <1>4, <1>5, <2>1, <2>4, <2>5
<1>11. n \in P
  <2>1. n \in 0 .. n
    BY <1>3
  <2> HIDE DEF P
  <2> QED BY <1>3, <1>9, <1>10, <2>1, InductionUpTo
<1> QED BY <1>1, <1>4, <1>11 DEF first

(* Where all keys differ, nothing is dropped.                              *)
LEMMA DeduplicatedSame ==
    ASSUME NEW s \in Seq(KeyVals), RisesByKey(s)
    PROVE  Deduplicated(s) = s
<1> DEFINE n == Len(s)
           D == {i \in DOMAIN s : i < Len(s) => Key(s[i + 1]) # Key(s[i])}
           q == [i \in 1 .. n |-> i]
           p == Ordered(D)
<1>1. n \in Nat /\ DOMAIN s = 1 .. n
  OBVIOUS
<1>2. \A i \in 1 .. n : Key(s[i]) \in Int
  BY DEF KeyVals, Key
<1>3. D = 1 .. n
  <2> SUFFICES ASSUME NEW i \in 1 .. n, i < n PROVE Key(s[i + 1]) # Key(s[i])
    BY <1>1
  <2>1. i + 1 \in 1 .. n /\ i < i + 1
    BY <1>1
  <2>2. Key(s[i]) < Key(s[i + 1])
    BY <2>1 DEF RisesByKey
  <2> QED BY <1>2, <2>1, <2>2
<1>4. Deduplicated(s) = [k \in DOMAIN p |-> s[p[k]]]
  BY DEF Deduplicated, Those
<1> HIDE DEF D, p
<1>5. p = q
  <2>1. D \in SUBSET Int /\ IsFiniteSet(D)
    BY <1>1, <1>3, FS_Interval
  <2>2. q \in [1 .. n -> D] /\ (\A i, j \in 1 .. n : i < j => q[i] < q[j]) /\ (\A x \in D : \E i \in 1 .. n : q[i] = x)
    BY <1>1, <1>3
  <2> HIDE DEF q, n
  <2>3. Ranking(D) = q
    BY <1>1, <2>1, <2>2, RankingSame
  <2> QED BY <2>3 DEF p, Ordered, Ranking
<1>6. Deduplicated(s) = [k \in 1 .. n |-> s[k]]
  BY <1>4, <1>5
<1>7. s = [k \in 1 .. n |-> s[k]]
  BY <1>1
<1> QED BY <1>6, <1>7

(* The merge of files of growing keys is the file of all their writes.     *)
LEMMA MergedIs ==
    ASSUME NEW ws \in Seq(KeyVals), Rising(ws), NEW files, NEW a, NEW b, Flushed(files, ws, a, b), b <= Len(ws), a < b
    PROVE  MergedTable(files) = FileOf(ws, a, b)
<1> DEFINE n == Len(files)
           s == Slice(ws, a, b)
<1>1. PICK c : /\ Cuts(c, n, a, b)
               /\ \A i \in 1 .. n : c[i - 1] < c[i] /\ files[i] = FileOf(ws, c[i - 1], c[i])
  BY DEF Flushed
<1>2. IsList(files) /\ a \in Nat /\ b \in Nat /\ n \in Nat /\ \A i \in 0 .. n : c[i] \in a .. b
  BY <1>1, CutBounds DEF Flushed
<1>3. Piled(files, ws, c, n, a, b)
  <2>1. ASSUME NEW i \in 1 .. n PROVE files[i].blocks = <<Slice(ws, c[i - 1], c[i])>>
    <3> DEFINE u == c[i - 1]
               v == c[i]
    <3>1. i - 1 \in 0 .. n /\ i \in 0 .. n
      BY <1>2
    <3>2. u \in a .. b /\ v \in a .. b /\ u < v /\ files[i] = FileOf(ws, u, v)
      BY <1>1, <1>2, <3>1
    <3> HIDE DEF u, v
    <3>3. u \in Nat /\ v \in Nat /\ v <= Len(ws)
      BY <1>2, <3>2
    <3>4. FileOf(ws, u, v).blocks = <<Slice(ws, u, v)>>
      BY <3>2, <3>3, FileOfOne
    <3> QED BY <3>2, <3>4 DEF u, v
  <2> QED BY <1>1, <2>1 DEF Piled
<1>4. Queue(FirstOut(files), c, n, a)
  BY <1>2, <1>3, FirstOutIs
<1>5. HeapOf(files) = FirstOut(files)
  <2>1. Orders(files, Cursors(c, n), Standing(c, n))
    BY <1>3, PileOrders
  <2>2. FirstOut(files) \in Seq(Cursors(c, n)) /\ IsHeap(FirstOut(files), Standing(c, n))
    BY <1>4 DEF Queue
  <2> QED BY <1>2, <2>1, <2>2, HeapOfIs
<1>6. Drain(files, HeapOf(files)) = s
  BY <1>2, <1>3, <1>4, <1>5, DrainIs
<1>7. s \in Seq(KeyVals) /\ RisesByKey(s) /\ FileOf(ws, a, b) = TableFor(s)
  BY <1>2, FileOfOne
<1> HIDE DEF s
<1>8. Deduplicated(s) = s
  BY <1>7, DeduplicatedSame
<1> QED BY <1>6, <1>7, <1>8 DEF MergedTable, TableFor

LEMMA InsertAtIs ==
    ASSUME NEW s, IsList(s), NEW at \in 1 .. Len(s) + 1, NEW e
    PROVE  /\ IsList(InsertAt(s, at, e)) /\ InsertAt(s, at, e) # <<>>
           /\ at = Len(s) + 1 => InsertAt(s, at, e) = Append(s, e)
<1>1. PICK S : s \in Seq(S)
  BY DEF IsList
<1> DEFINE n == Len(s)
           T == S \cup {e}
           x == SubSeq(s, 1, at - 1)
           l == <<e>>
           y == SubSeq(s, at, n)
<1>2. n \in Nat /\ s \in Seq(T) /\ l \in Seq(T) /\ Len(l) = 1
  BY <1>1
<1>3. InsertAt(s, at, e) = (x \o l) \o y
  BY DEF InsertAt
<1> HIDE DEF n, T
<1>4. x \in Seq(T) /\ Len(x) \in Nat
  <2>1. at - 1 \in Nat /\ at - 1 <= Len(s)
    BY <1>2 DEF n
  <2> QED BY <1>2, <2>1
<1>5. y \in Seq(T) /\ Len(y) \in Nat /\ (at = n + 1 => y = <<>>)
  <2>1. at \in Nat /\ at >= 1
    BY <1>2 DEF n
  <2> QED BY <1>2, <2>1 DEF n
<1>6. at = n + 1 => x = s
  <2>1. at = n + 1 => at - 1 = n
    BY <1>2
  <2>2. SubSeq(s, 1, n) = s
    BY <1>2, SubSeqFull DEF n
  <2> QED BY <2>1, <2>2
<1>7. Append(s, e) = s \o l
  BY <1>1, <1>2, AppendIsConcat DEF T
<1> HIDE DEF x, y, l
<1> DEFINE z == x \o l
<1>8. z \in Seq(T) /\ Len(z) = Len(x) + 1
  <2>1. l \in Seq(T) /\ Len(l) = 1 /\ x \in Seq(T) /\ Len(x) \in Nat
    BY <1>2, <1>4 DEF l
  <2>2. x \o l \in Seq(T)
    BY <2>1
  <2>3. Len(x \o l) = Len(x) + Len(l)
    BY <2>1, ConcatProperties
  <2> QED BY <2>1, <2>2, <2>3
<1>12. z \o <<>> = z
  <2> HIDE DEF z
  <2> QED BY <1>8
<1> HIDE DEF z
<1>9. z \o y \in Seq(T) /\ Len(z \o y) = Len(z) + Len(y)
  BY <1>5, <1>8
<1>10. z \o y # <<>>
  <2>1. Len(z \o y) # 0
    BY <1>4, <1>5, <1>8, <1>9
  <2> QED BY <2>1
<1>11. at = n + 1 => z \o y = Append(s, e)
  BY <1>5, <1>6, <1>7, <1>12 DEF z
<1> QED BY <1>3, <1>9, <1>10, <1>11 DEF z, n, IsList

(* The levels hold the first a writes: all of them on level 0 as long as   *)
(* the others are empty, and piece after piece from the last level up if   *)
(* keys only ever grew.                                                    *)
Stacked(levels, ws, a) ==
    /\ levels = [lv \in 0 .. LsmLevels - 1 |-> levels[lv]]
    /\ \A lv \in 0 .. LsmLevels - 1 : IsList(levels[lv])
    /\ (\A lv \in 1 .. LsmLevels - 1 : levels[lv] = <<>>) => Flushed(levels[0], ws, 0, a)
    /\ Rising(ws) => \E c : /\ Cuts(c, LsmLevels, 0, a)
                            /\ \A lv \in 0 .. LsmLevels - 1 :
                                  Flushed(levels[lv], ws, c[LsmLevels - lv - 1], c[LsmLevels - lv])

(* Where a merged table is put, and what the next level is then.           *)
PutAt(table, dst) ==
  LET above == {i \in DOMAIN dst : table.index[1] < dst[i].index[1]}
  IN  IF above = {} THEN Len(dst) + 1 ELSE Min(above)

LEMMA PutAtIs ==
    ASSUME NEW table, NEW dst, IsList(dst)
    PROVE  PutAt(table, dst) \in 1 .. Len(dst) + 1
<1> DEFINE above == {i \in DOMAIN dst : table.index[1] < dst[i].index[1]}
<1>1. Len(dst) \in Nat /\ DOMAIN dst = 1 .. Len(dst)
  BY DEF IsList
<1>2. CASE above = {}
  <2>1. PutAt(table, dst) = Len(dst) + 1
    BY <1>2 DEF PutAt
  <2> QED BY <1>1, <2>1
<1>3. CASE above # {}
  <2>1. PutAt(table, dst) = Min(above)
    BY <1>3 DEF PutAt
  <2>2. above \in SUBSET (1 .. Len(dst)) /\ above \in SUBSET Nat
    BY <1>1
  <2> HIDE DEF above
  <2> DEFINE m == Min(above)
  <2>3. m \in above
    BY <1>3, <2>2, MinIsMember
  <2>4. PutAt(table, dst) = m
    BY <2>1
  <2> HIDE DEF m
  <2>5. m \in 1 .. Len(dst)
    BY <2>2, <2>3
  <2> QED BY <1>1, <2>4, <2>5
<1> QED BY <1>2, <1>3

LEMMA CompactedIs ==
    ASSUME NEW ws \in Seq(KeyVals), Rising(ws), NEW src, NEW dst, NEW x, NEW y, NEW z,
           Flushed(dst, ws, x, y), Flushed(src, ws, y, z), z <= Len(ws), src # <<>>
    PROVE  Flushed(InsertAt(dst, PutAt(MergedTable(src), dst), MergedTable(src)), ws, x, z)
<1> DEFINE n == Len(dst)
           table == MergedTable(src)
           N == Len(ws)
<1>1. /\ x \in Nat /\ y \in Nat /\ z \in Nat /\ x <= y /\ y < z /\ n \in Nat /\ IsList(dst)
  <2>1. x \in Nat /\ y \in Nat /\ x <= y /\ n \in Nat
    BY FlushedBounds
  <2>2. y \in Nat /\ z \in Nat /\ y <= z /\ (src = <<>> <=> y = z)
    BY FlushedBounds
  <2>3. IsList(dst)
    BY DEF Flushed
  <2>4. y # z
    BY <2>2
  <2> QED BY <2>1, <2>2, <2>3, <2>4
<1>2. table = FileOf(ws, y, z)
  BY <1>1, MergedIs
<1>3. table.index = <<Key(ws[z])>>
  <2>1. y \in Nat /\ z \in Nat /\ y < z /\ z <= Len(ws)
    BY <1>1
  <2>2. FileOf(ws, y, z).index = <<Key(ws[z])>>
    BY <2>1, FileOfOne
  <2> HIDE DEF table
  <2> QED BY <1>2, <2>2
<1> HIDE DEF table
<1>4. table.index[1] = Key(ws[z])
  BY <1>3
<1>5. PICK c : /\ Cuts(c, n, x, y)
               /\ \A f \in 1 .. n : c[f - 1] < c[f] /\ dst[f] = FileOf(ws, c[f - 1], c[f])
  BY DEF Flushed
<1>6. \A f \in 0 .. n : c[f] \in x .. y
  BY <1>5, CutBounds
<1>7. N \in Nat /\ (\A i, j \in 1 .. N : i < j => Key(ws[i]) < Key(ws[j])) /\ \A i \in 1 .. N : Key(ws[i]) \in Int
  BY DEF Rising, RisesByKey, KeyVals, Key
<1>8. ASSUME NEW f \in 1 .. n PROVE ~(table.index[1] < dst[f].index[1])
  <2> DEFINE u == c[f - 1]
             v == c[f]
  <2>1. f - 1 \in 0 .. n /\ f \in 0 .. n
    BY <1>1
  <2>2. u \in x .. y /\ v \in x .. y /\ u < v /\ dst[f] = FileOf(ws, u, v)
    BY <1>5, <1>6, <2>1
  <2> HIDE DEF u, v
  <2>3. u \in Nat /\ v \in Nat /\ v < z /\ v <= Len(ws) /\ v \in 1 .. N /\ z \in 1 .. N
    BY <1>1, <1>7, <2>2
  <2>4. FileOf(ws, u, v).index = <<Key(ws[v])>>
    BY <2>2, <2>3, FileOfOne
  <2>5. dst[f].index[1] = Key(ws[v])
    BY <2>2, <2>4
  <2>6. Key(ws[v]) < Key(ws[z]) /\ Key(ws[v]) \in Int /\ Key(ws[z]) \in Int
    BY <1>7, <2>3
  <2> QED BY <1>4, <2>5, <2>6
<1>9. PutAt(table, dst) = n + 1
  <2>1. DOMAIN dst = 1 .. n
    BY <1>1 DEF IsList
  <2> QED BY <1>8, <2>1 DEF PutAt
<1>10. InsertAt(dst, n + 1, table) = Append(dst, table)
  <2>1. n + 1 \in 1 .. n + 1
    BY <1>1
  <2> QED BY <1>1, <2>1, InsertAtIs
<1>11. Flushed(Append(dst, FileOf(ws, y, z)), ws, x, z)
  BY <1>1, FlushedMore
<1> QED BY <1>2, <1>9, <1>10, <1>11 DEF table

(* The last piece may end later, and a piece may grow over the next one.   *)
LEMMA CutEnd ==
    ASSUME NEW c, NEW n, NEW a, NEW b, Cuts(c, n, a, b), n # 0, NEW d \in Nat, b <= d
    PROVE  Cuts([c EXCEPT ![n] = d], n, a, d)
<1> DEFINE e == [c EXCEPT ![n] = d]
<1>1. /\ n \in Nat /\ c \in [0 .. n -> Nat] /\ c[0] = a /\ c[n] = b
      /\ \A i, j \in 0 .. n : i <= j => c[i] <= c[j]
  BY DEF Cuts
<1>2. \A i \in 0 .. n : c[i] \in Nat /\ c[i] <= b /\ i <= n
  BY <1>1, CutBounds
<1>3. e \in [0 .. n -> Nat] /\ e[n] = d /\ \A i \in 0 .. n : i # n => e[i] = c[i]
  BY <1>1
<1> HIDE DEF e
<1>4. b \in Nat /\ n \in 0 .. n /\ 0 \in 0 .. n
  BY <1>1, <1>2
<1>5. \A i, j \in 0 .. n : i <= j => e[i] <= e[j]
  <2> TAKE i, j \in 0 .. n
  <2> HAVE i <= j
  <2>1. CASE j = n
    <3>1. e[i] = d \/ (e[i] = c[i] /\ c[i] <= b)
      BY <1>2, <1>3
    <3> QED BY <1>2, <1>3, <1>4, <2>1, <3>1
  <2>2. CASE j # n
    <3>1. i # n
      BY <1>1, <2>2
    <3> QED BY <1>1, <1>3, <2>2, <3>1
  <2> QED BY <2>1, <2>2
<1>6. e[0] = a
  BY <1>1, <1>3, <1>4
<1>7. Cuts(e, n, a, d)
  BY <1>1, <1>3, <1>5, <1>6 DEF Cuts
<1> QED BY <1>7 DEF e

LEMMA CutOver ==
    ASSUME NEW c, NEW n, NEW a, NEW b, Cuts(c, n, a, b), NEW m \in 1 .. n - 1
    PROVE  Cuts([c EXCEPT ![m] = c[m + 1]], n, a, b)
<1> DEFINE e == [c EXCEPT ![m] = c[m + 1]]
<1>1. /\ n \in Nat /\ c \in [0 .. n -> Nat] /\ c[0] = a /\ c[n] = b
      /\ \A i, j \in 0 .. n : i <= j => c[i] <= c[j]
  BY DEF Cuts
<1>2. m \in 0 .. n /\ m + 1 \in 0 .. n /\ m # 0 /\ m # n /\ 0 \in 0 .. n /\ n \in 0 .. n
  BY <1>1
<1>3. \A i \in 0 .. n : c[i] \in Nat
  BY <1>1
<1>4. e \in [0 .. n -> Nat] /\ e[m] = c[m + 1] /\ \A i \in 0 .. n : i # m => e[i] = c[i]
  BY <1>1, <1>2
<1> HIDE DEF e
<1>5. \A i, j \in 0 .. n : i <= j => e[i] <= e[j]
  <2> TAKE i, j \in 0 .. n
  <2> HAVE i <= j
  <2>1. CASE i = m /\ j = m
    BY <1>2, <1>3, <1>4, <2>1
  <2>2. CASE i = m /\ j # m
    <3>1. m + 1 <= j
      BY <1>2, <2>2
    <3> QED BY <1>1, <1>2, <1>4, <2>2, <3>1
  <2>3. CASE i # m /\ j = m
    <3>1. i <= m + 1
      BY <1>2, <2>3
    <3> QED BY <1>1, <1>2, <1>4, <2>3, <3>1
  <2>4. CASE i # m /\ j # m
    BY <1>1, <1>4, <2>4
  <2> QED BY <2>1, <2>2, <2>3, <2>4
<1>6. e[0] = a /\ e[n] = b
  BY <1>1, <1>2, <1>4
<1>7. Cuts(e, n, a, b)
  BY <1>1, <1>4, <1>5, <1>6 DEF Cuts
<1> QED BY <1>7 DEF e

(* A tree without tables, and one more write that is not flushed.          *)
LEMMA StackedNone ==
    ASSUME NEW ws
    PROVE  Stacked([lv \in 0 .. LsmLevels - 1 |-> <<>>], ws, 0)
<1> DEFINE levels == [lv \in 0 .. LsmLevels - 1 |-> <<>>]
           c == [i \in 0 .. LsmLevels |-> 0]
           e == <<>>
<1>1. LsmLevels \in Nat /\ LsmLevels # 0
  BY LsmAssumption
<1>2. levels = [lv \in 0 .. LsmLevels - 1 |-> levels[lv]] /\ \A lv \in 0 .. LsmLevels - 1 : levels[lv] = e
  OBVIOUS
<1>3. IsList(e) /\ \A a \in Nat : Flushed(e, ws, a, a)
  <2>1. e \in Seq({})
    OBVIOUS
  <2> QED BY <2>1, NoneLaid DEF IsList
<1> HIDE DEF levels, e
<1>4. 0 \in 0 .. LsmLevels - 1 /\ 0 \in Nat
  BY <1>1
<1>5. Cuts(c, LsmLevels, 0, 0)
  BY <1>1 DEF Cuts
<1>6. \A lv \in 0 .. LsmLevels - 1 : c[LsmLevels - lv - 1] = 0 /\ c[LsmLevels - lv] = 0
  <2> TAKE lv \in 0 .. LsmLevels - 1
  <2>1. LsmLevels - lv - 1 \in 0 .. LsmLevels /\ LsmLevels - lv \in 0 .. LsmLevels
    BY <1>1
  <2> QED BY <2>1
<1> HIDE DEF c
<1>7. \A lv \in 0 .. LsmLevels - 1 : Flushed(levels[lv], ws, c[LsmLevels - lv - 1], c[LsmLevels - lv])
  BY <1>2, <1>3, <1>4, <1>6
<1>8. Flushed(levels[0], ws, 0, 0) /\ \A lv \in 0 .. LsmLevels - 1 : IsList(levels[lv])
  BY <1>2, <1>3, <1>4
<1>9. Stacked(levels, ws, 0)
  BY <1>2, <1>5, <1>7, <1>8 DEF Stacked
<1> QED BY <1>9 DEF levels

LEMMA RisingBefore ==
    ASSUME NEW ws \in Seq(KeyVals), NEW e \in KeyVals, Rising(Append(ws, e))
    PROVE  Rising(ws)
<1> DEFINE n == Len(ws)
           t == Append(ws, e)
<1>1. n \in Nat /\ Len(t) = n + 1 /\ \A i \in 1 .. n : t[i] = ws[i]
  OBVIOUS
<1>2. RisesByKey(t) /\ Len(t) <= BlockEntries
  BY DEF Rising
<1>3. \A i, j \in 1 .. Len(t) : i < j => Key(t[i]) < Key(t[j])
  BY <1>2 DEF RisesByKey
<1> HIDE DEF t
<1>4. \A i \in 1 .. n : i \in 1 .. Len(t)
  BY <1>1
<1>5. \A i, j \in 1 .. n : i < j => Key(ws[i]) < Key(ws[j])
  BY <1>1, <1>3, <1>4
<1>6. n <= BlockEntries
  BY <1>1, <1>2, TableAssumption
<1> QED BY <1>5, <1>6 DEF Rising, RisesByKey

LEMMA StackedMore ==
    ASSUME NEW ws \in Seq(KeyVals), NEW e \in KeyVals, NEW levels, NEW a, a <= Len(ws), Stacked(levels, ws, a)
    PROVE  Stacked(levels, Append(ws, e), a)
<1> DEFINE t == Append(ws, e)
           N == Len(ws)
<1>1. /\ levels = [lv \in 0 .. LsmLevels - 1 |-> levels[lv]]
      /\ \A lv \in 0 .. LsmLevels - 1 : IsList(levels[lv])
  BY DEF Stacked
<1>2. ASSUME \A lv \in 1 .. LsmLevels - 1 : levels[lv] = <<>> PROVE Flushed(levels[0], t, 0, a)
  <2>1. Flushed(levels[0], ws, 0, a)
    BY <1>2 DEF Stacked
  <2> QED BY <2>1, LaidSame
<1>3. ASSUME Rising(t)
      PROVE  \E c : /\ Cuts(c, LsmLevels, 0, a)
                    /\ \A lv \in 0 .. LsmLevels - 1 :
                          Flushed(levels[lv], t, c[LsmLevels - lv - 1], c[LsmLevels - lv])
  <2>1. Rising(ws)
    BY <1>3, RisingBefore
  <2>2. PICK c : /\ Cuts(c, LsmLevels, 0, a)
                 /\ \A lv \in 0 .. LsmLevels - 1 :
                       Flushed(levels[lv], ws, c[LsmLevels - lv - 1], c[LsmLevels - lv])
    BY <2>1 DEF Stacked
  <2>3. ASSUME NEW lv \in 0 .. LsmLevels - 1
        PROVE  Flushed(levels[lv], t, c[LsmLevels - lv - 1], c[LsmLevels - lv])
    <3> DEFINE x == c[LsmLevels - lv - 1]
               y == c[LsmLevels - lv]
    <3>1. LsmLevels - lv \in 0 .. LsmLevels
      BY LsmAssumption
    <3>2. y \in 0 .. a /\ a \in Nat
      BY <2>2, <3>1, CutBounds
    <3>3. Flushed(levels[lv], ws, x, y)
      BY <2>2
    <3> HIDE DEF x, y
    <3>4. y <= Len(ws)
      <4> DEFINE n == Len(ws)
      <4>1. n \in Nat /\ a <= n
        OBVIOUS
      <4> HIDE DEF n
      <4>2. y <= n
        BY <3>2, <4>1
      <4> QED BY <4>2 DEF n
    <3>5. Flushed(levels[lv], t, x, y)
      BY <3>3, <3>4, LaidSame
    <3> QED BY <3>5 DEF x, y
  <2> HIDE DEF t
  <2> QED BY <2>2, <2>3
<1> HIDE DEF t
<1> QED BY <1>1, <1>2, <1>3 DEF Stacked, t

(* A frozen memtable becomes the last table of level 0.                    *)
FlushInto(files, m) == IF m = Nothing THEN files ELSE Append(files, TableFor(Entries(m)))

LEMMA FlushIntoIs ==
    ASSUME NEW ws \in Seq(KeyVals), NEW files, NEW x, NEW a, Flushed(files, ws, x, a),
           NEW d \in Nat, a <= d, d <= Len(ws)
    PROVE  Flushed(FlushInto(files, Part(ws, a, d)), ws, x, d)
<1> DEFINE m == Part(ws, a, d)
<1>1. a \in Nat
  BY FlushedBounds
<1>2. m = Nothing <=> a = d
  BY <1>1, PartIs
<1>3. FileOf(ws, a, d) = TableFor(Entries(m))
  BY DEF FileOf
<1> HIDE DEF m
<1>4. CASE a = d
  <2>1. FlushInto(files, m) = files
    BY <1>2, <1>4 DEF FlushInto
  <2> QED BY <1>4, <2>1 DEF m
<1>5. CASE a # d
  <2>1. FlushInto(files, m) = Append(files, FileOf(ws, a, d))
    BY <1>2, <1>3, <1>5 DEF FlushInto
  <2>2. a < d
    BY <1>1, <1>5
  <2>3. Flushed(Append(files, FileOf(ws, a, d)), ws, x, d)
    BY <2>2, FlushedMore
  <2> QED BY <2>1, <2>3 DEF m
<1> QED BY <1>4, <1>5

LEMMA StackedFlush ==
    ASSUME NEW ws \in Seq(KeyVals), NEW levels, NEW a \in Nat, Stacked(levels, ws, a),
           NEW d \in Nat, a <= d, d <= Len(ws)
    PROVE  Stacked([levels EXCEPT ![0] = FlushInto(levels[0], Part(ws, a, d))], ws, d)
<1> DEFINE N == LsmLevels
           new == FlushInto(levels[0], Part(ws, a, d))
           next == [levels EXCEPT ![0] = new]
<1>1. N \in Nat /\ N # 0 /\ 0 \in 0 .. N - 1
  BY LsmAssumption
<1>2. levels = [lv \in 0 .. N - 1 |-> levels[lv]] /\ \A lv \in 0 .. N - 1 : IsList(levels[lv])
  BY DEF Stacked
<1>3. \A x : Flushed(levels[0], ws, x, a) => Flushed(new, ws, x, d)
  BY FlushIntoIs
<1>4. IsList(new)
  <2>1. new = levels[0] \/ \E e : new = Append(levels[0], e)
    BY DEF FlushInto
  <2>2. PICK S : levels[0] \in Seq(S)
    BY <1>1, <1>2 DEF IsList
  <2> HIDE DEF new
  <2>3. \A e : Append(levels[0], e) \in Seq(S \cup {e})
    BY <2>2
  <2> QED BY <2>1, <2>2, <2>3 DEF IsList
<1> HIDE DEF new
<1>5. /\ next = [lv \in 0 .. N - 1 |-> next[lv]] /\ next[0] = new
      /\ \A lv \in 0 .. N - 1 : lv # 0 => next[lv] = levels[lv]
  BY <1>1, <1>2
<1> HIDE DEF next
<1>6. \A lv \in 0 .. N - 1 : IsList(next[lv])
  BY <1>2, <1>4, <1>5
<1>7. ASSUME \A lv \in 1 .. N - 1 : next[lv] = <<>> PROVE Flushed(next[0], ws, 0, d)
  <2>1. \A lv \in 1 .. N - 1 : levels[lv] = <<>>
    BY <1>1, <1>5, <1>7
  <2>2. Flushed(levels[0], ws, 0, a)
    BY <2>1 DEF Stacked
  <2> QED BY <1>3, <1>5, <2>2
<1>8. ASSUME Rising(ws)
      PROVE  \E c : /\ Cuts(c, N, 0, d)
                    /\ \A lv \in 0 .. N - 1 : Flushed(next[lv], ws, c[N - lv - 1], c[N - lv])
  <2>1. PICK c : /\ Cuts(c, N, 0, a)
                 /\ \A lv \in 0 .. N - 1 : Flushed(levels[lv], ws, c[N - lv - 1], c[N - lv])
    BY <1>8 DEF Stacked
  <2> DEFINE e == [c EXCEPT ![N] = d]
  <2>2. Cuts(e, N, 0, d)
    BY <1>1, <2>1, CutEnd
  <2>3. c \in [0 .. N -> Nat] /\ c[N] = a
    BY <2>1 DEF Cuts
  <2>4. e[N] = d /\ \A i \in 0 .. N : i # N => e[i] = c[i]
    BY <1>1, <2>3
  <2> HIDE DEF e, N
  <2>5. Flushed(next[0], ws, e[N - 0 - 1], e[N - 0])
    <3>1. N - 0 = N /\ N - 0 - 1 \in 0 .. N /\ N - 0 - 1 # N
      BY <1>1
    <3>2. Flushed(levels[0], ws, c[N - 0 - 1], c[N - 0])
      BY <1>1, <2>1
    <3>3. Flushed(levels[0], ws, e[N - 0 - 1], a)
      BY <2>3, <2>4, <3>1, <3>2
    <3>4. Flushed(next[0], ws, e[N - 0 - 1], d)
      BY <1>3, <1>5, <3>3
    <3> QED BY <2>4, <3>1, <3>4
  <2>6. ASSUME NEW lv \in 0 .. N - 1, lv # 0 PROVE Flushed(next[lv], ws, e[N - lv - 1], e[N - lv])
    <3>1. N - lv \in 0 .. N /\ N - lv - 1 \in 0 .. N /\ N - lv # N /\ N - lv - 1 # N
      BY <1>1, <2>6
    <3>2. Flushed(levels[lv], ws, c[N - lv - 1], c[N - lv])
      BY <2>1
    <3>3. e[N - lv - 1] = c[N - lv - 1] /\ e[N - lv] = c[N - lv]
      BY <2>4, <3>1
    <3> QED BY <1>5, <2>6, <3>2, <3>3
  <2> QED BY <2>2, <2>5, <2>6
<1>9. Stacked(next, ws, d)
  BY <1>5, <1>6, <1>7, <1>8 DEF Stacked
<1> QED BY <1>9 DEF next, new

(* A level becomes one table of the next level.                            *)
Lowered(levels, lv) ==
  LET table == MergedTable(levels[lv])
  IN  [levels EXCEPT ![lv] = <<>>,
                     ![lv + 1] = InsertAt(levels[lv + 1], PutAt(table, levels[lv + 1]), table)]

LEMMA StackedCompact ==
    ASSUME NEW ws \in Seq(KeyVals), NEW levels, NEW a, a <= Len(ws), Stacked(levels, ws, a),
           NEW lv \in 0 .. LsmLevels - 1, lv # LsmLevels - 1, levels[lv] # <<>>
    PROVE  Stacked(Lowered(levels, lv), ws, a)
<1> DEFINE N == LsmLevels
           src == levels[lv]
           dst == levels[lv + 1]
           table == MergedTable(src)
           new == InsertAt(dst, PutAt(table, dst), table)
           e == <<>>
           next == Lowered(levels, lv)
<1>1. N \in Nat /\ N # 0 /\ lv \in 0 .. N - 1 /\ lv + 1 \in 1 .. N - 1 /\ lv + 1 \in 0 .. N - 1 /\ lv + 1 # lv
  BY LsmAssumption
<1>2. levels = [l \in 0 .. N - 1 |-> levels[l]] /\ \A l \in 0 .. N - 1 : IsList(levels[l])
  BY DEF Stacked
<1>3. next = [levels EXCEPT ![lv] = e, ![lv + 1] = new]
  BY DEF Lowered
<1>4. IsList(new) /\ new # <<>>
  <2>1. IsList(dst)
    BY <1>1, <1>2
  <2> HIDE DEF dst, table
  <2>2. PutAt(table, dst) \in 1 .. Len(dst) + 1
    BY <2>1, PutAtIs
  <2> QED BY <2>1, <2>2, InsertAtIs
<1>5. IsList(e) /\ \A x \in Nat : Flushed(e, ws, x, x)
  <2>1. e \in Seq({})
    OBVIOUS
  <2> QED BY <2>1, NoneLaid DEF IsList
<1>6. ASSUME Rising(ws), NEW x, NEW y, NEW z, Flushed(dst, ws, x, y), Flushed(src, ws, y, z), z <= Len(ws)
      PROVE  Flushed(new, ws, x, z)
  BY <1>6, CompactedIs
<1> HIDE DEF new, e, next
<1>7. /\ next = [l \in 0 .. N - 1 |-> next[l]] /\ next[lv] = e /\ next[lv + 1] = new
      /\ \A l \in 0 .. N - 1 : l # lv /\ l # lv + 1 => next[l] = levels[l]
  BY <1>1, <1>2, <1>3
<1>8. \A l \in 0 .. N - 1 : IsList(next[l])
  BY <1>2, <1>4, <1>5, <1>7
<1>9. ~ \A l \in 1 .. N - 1 : next[l] = <<>>
  BY <1>1, <1>4, <1>7
<1>10. ASSUME Rising(ws)
       PROVE  \E c : /\ Cuts(c, N, 0, a)
                     /\ \A l \in 0 .. N - 1 : Flushed(next[l], ws, c[N - l - 1], c[N - l])
  <2>1. PICK c : /\ Cuts(c, N, 0, a)
                 /\ \A l \in 0 .. N - 1 : Flushed(levels[l], ws, c[N - l - 1], c[N - l])
    BY <1>10 DEF Stacked
  <2> DEFINE m == N - lv - 1
             d == [c EXCEPT ![m] = c[m + 1]]
  <2>2. /\ m \in 1 .. N - 1 /\ m + 1 = N - lv /\ m - 1 = N - (lv + 1) - 1 /\ m = N - (lv + 1)
        /\ m \in 0 .. N /\ m + 1 \in 0 .. N /\ m - 1 \in 0 .. N /\ m + 1 # m /\ m - 1 # m
    BY <1>1
  <2>3. \A l \in 0 .. N - 1 : /\ N - l \in 0 .. N /\ N - l - 1 \in 0 .. N
                              /\ (l # lv => N - l - 1 # m) /\ (l # lv + 1 => N - l # m)
    BY <1>1
  <2> HIDE DEF m, N
  <2>4. Cuts(d, N, 0, a)
    BY <2>1, <2>2, CutOver
  <2>5. d[m] = c[m + 1] /\ (\A i \in 0 .. N : i # m => d[i] = c[i]) /\ c[m + 1] \in Nat
    <3>1. c \in [0 .. N -> Nat]
      BY <2>1 DEF Cuts
    <3> QED BY <2>2, <3>1
  <2> HIDE DEF d
  <2>6. Flushed(next[lv], ws, d[N - lv - 1], d[N - lv])
    <3>1. d[N - lv] = c[m + 1] /\ d[N - lv - 1] = c[m + 1]
      BY <2>2, <2>5 DEF m
    <3> QED BY <1>5, <1>7, <2>5, <3>1
  <2>7. Flushed(next[lv + 1], ws, d[N - (lv + 1) - 1], d[N - (lv + 1)])
    <3>1. Flushed(dst, ws, c[m - 1], c[m])
      BY <1>1, <2>1, <2>2
    <3>2. Flushed(src, ws, c[m], c[m + 1])
      BY <1>1, <2>1, <2>2 DEF m
    <3>3. c[m + 1] <= Len(ws)
      <4>1. c[m + 1] \in 0 .. a /\ a \in Nat
        BY <2>1, <2>2, CutBounds
      <4> DEFINE x == c[m + 1]
                 y == Len(ws)
      <4>2. x \in 0 .. a /\ y \in Nat /\ a <= y
        BY <4>1
      <4> HIDE DEF x, y
      <4>3. x <= y
        BY <4>1, <4>2
      <4> QED BY <4>3 DEF x, y
    <3>4. Flushed(new, ws, c[m - 1], c[m + 1])
      BY <1>6, <1>10, <3>1, <3>2, <3>3
    <3>5. d[m] = c[m + 1] /\ d[m - 1] = c[m - 1]
      BY <2>2, <2>5
    <3> QED BY <1>7, <2>2, <3>4, <3>5
  <2>8. ASSUME NEW l \in 0 .. N - 1, l # lv, l # lv + 1 PROVE Flushed(next[l], ws, d[N - l - 1], d[N - l])
    <3>1. d[N - l - 1] = c[N - l - 1] /\ d[N - l] = c[N - l]
      BY <2>3, <2>5, <2>8
    <3>2. Flushed(levels[l], ws, c[N - l - 1], c[N - l])
      BY <2>1
    <3> QED BY <1>7, <2>8, <3>1, <3>2
  <2> QED BY <2>4, <2>6, <2>7, <2>8
<1>11. Stacked(next, ws, a)
  BY <1>7, <1>8, <1>9, <1>10 DEF Stacked
<1> QED BY <1>11 DEF next

(* A tree holds the writes: the memtable has the last of them, the frozen  *)
(* ones have those before, the tables the rest.                            *)
Laid(t, ws) ==
  \E a, b : /\ Frozen(t.imms, ws, a, b) /\ b <= Len(ws) /\ t.mem = Part(ws, b, Len(ws))
            /\ Stacked(t.levels, ws, a)

LEMMA FreezeLays ==
    ASSUME NEW t, Shape(t), NEW ws \in Seq(KeyVals), Laid(t, ws)
    PROVE  Shape(Freeze(t)) /\ Laid(Freeze(t), ws)
<1> DEFINE n == Len(ws)
           m == t.mem
           l == Append(t.imms, m)
           z == Freeze(t)
<1>1. n \in Nat
  OBVIOUS
<1>2. PICK a, b : /\ Frozen(t.imms, ws, a, b) /\ b <= n /\ m = Part(ws, b, n)
                  /\ Stacked(t.levels, ws, a)
  BY DEF Laid
<1>3. Frozen(l, ws, a, n)
  <2> HIDE DEF m, n
  <2> QED BY <1>1, <1>2, FrozenMore
<1>4. Nothing = Part(ws, n, n)
  <2> DEFINE p == Part(ws, n, n)
  <2>1. n <= n
    BY <1>1
  <2> HIDE DEF n
  <2>2. p = Nothing
    BY <1>1, <2>1, PartIs DEF n
  <2> QED BY <2>2
<1>5. z = [t EXCEPT !.imms = l, !.mem = Nothing]
  BY DEF Freeze
<1>6. PICK S : t.imms \in Seq(S)
  BY DEF Shape
<1>7. l \in Seq(S \cup {m})
  BY <1>6
<1> HIDE DEF z, l, m
<1>8. z = [f \in Fields |-> z[f]] /\ z.imms = l /\ z.mem = Nothing /\ z.levels = t.levels
  BY <1>5 DEF Shape, Fields
<1>9. Shape(z)
  BY <1>7, <1>8 DEF Shape
<1>10. n <= n
  BY <1>1
<1>11. Laid(z, ws)
  BY <1>2, <1>3, <1>4, <1>8, <1>10 DEF Laid
<1> QED BY <1>9, <1>11 DEF z

LEMMA FlushLays ==
    ASSUME NEW t, Shape(t), t.imms # <<>>, NEW ws \in Seq(KeyVals), Laid(t, ws)
    PROVE  Laid(FlushOldest(t), ws)
<1> DEFINE n == Len(ws)
           m == Head(t.imms)
           l == [t.levels EXCEPT ![0] = FlushInto(t.levels[0], m)]
           s == FlushOldest(t)
<1>1. PICK a, b : /\ Frozen(t.imms, ws, a, b) /\ b <= n /\ t.mem = Part(ws, b, n)
                  /\ Stacked(t.levels, ws, a)
  BY DEF Laid
<1>2. PICK d \in a .. b : m = Part(ws, a, d) /\ Frozen(Tail(t.imms), ws, d, b)
  BY <1>1, FrozenOldest
<1>3. a \in Nat /\ d \in Nat /\ a <= d /\ d <= n
  <2>1. a \in Nat /\ b \in Nat /\ n \in Nat /\ b <= n
    BY <1>1, FrozenBounds
  <2> HIDE DEF n
  <2> QED BY <1>2, <2>1
<1>4. Stacked(l, ws, d)
  <2> HIDE DEF m, n
  <2>1. d <= Len(ws)
    BY <1>3 DEF n
  <2>2. Stacked([t.levels EXCEPT ![0] = FlushInto(t.levels[0], Part(ws, a, d))], ws, d)
    BY <1>1, <1>3, <2>1, StackedFlush
  <2> QED BY <1>2, <2>2
<1>5. s = [t EXCEPT !.imms = Tail(t.imms), !.levels = l]
  BY DEF FlushOldest, FlushInto, TableFor
<1> HIDE DEF s, l
<1>6. s.imms = Tail(t.imms) /\ s.mem = t.mem /\ s.levels = l
  BY <1>5 DEF Shape, Fields
<1>7. Laid(s, ws)
  BY <1>1, <1>2, <1>4, <1>6 DEF Laid
<1> QED BY <1>7 DEF s

LEMMA FlushDownLays ==
    ASSUME NEW t, Shape(t), NEW ws \in Seq(KeyVals), Laid(t, ws), NEW m \in Nat
    PROVE  Laid(FlushDownTo(t, m), ws)
<1> DEFINE n == IF Len(t.imms) > m THEN Len(t.imms) - m ELSE 0
<1>1. Len(t.imms) \in Nat /\ n \in Nat /\ n <= Len(t.imms)
  BY DEF Shape
<1>2. FlushDownTo(t, m) = FlushedTimes(t, n)
  <2>1. 1 .. Len(t.imms) - m = 1 .. n
    BY <1>1
  <2> HIDE DEF n
  <2> QED BY <2>1 DEF FlushDownTo, FlushedTimes
<1> HIDE DEF n
<1>3. PICK w : /\ w[0] = t /\ \A k \in 1 .. n : w[k] = FlushOldest(w[k - 1])
               /\ FlushedTimes(t, n) = w[n]
  BY <1>1, FlushSteps
<1> DEFINE P == { k \in 0 .. n : Shape(w[k]) /\ Laid(w[k], ws) /\ Len(w[k].imms) = Len(t.imms) - k }
<1>4. 0 \in P
  BY <1>1, <1>3
<1>5. ASSUME NEW k \in 1 .. n, k - 1 \in P PROVE k \in P
  <2>1. /\ k \in 0 .. n /\ Shape(w[k - 1]) /\ Laid(w[k - 1], ws)
        /\ Len(w[k - 1].imms) = Len(t.imms) - (k - 1) /\ w[k] = FlushOldest(w[k - 1])
    <3>1. k \in 0 .. n /\ w[k] = FlushOldest(w[k - 1])
      BY <1>1, <1>3
    <3> QED BY <1>5, <3>1
  <2>2. w[k - 1].imms # <<>>
    BY <1>1, <2>1
  <2>3. Shape(w[k]) /\ Len(w[k].imms) = Len(w[k - 1].imms) - 1
    BY <2>1, <2>2, FlushOldestKeeps
  <2>4. Laid(w[k], ws)
    BY <2>1, <2>2, FlushLays
  <2>5. Len(w[k].imms) = Len(t.imms) - k
    BY <1>1, <2>1, <2>3
  <2> QED BY <2>1, <2>3, <2>4, <2>5
<1>6. n \in P
  <2>1. n \in 0 .. n
    BY <1>1
  <2> HIDE DEF P
  <2> QED BY <1>1, <1>4, <1>5, <2>1, InductionUpTo, SMTT(60)
<1> QED BY <1>2, <1>3, <1>6

LEMMA CompactLays ==
    ASSUME NEW t, Shape(t), NEW ws \in Seq(KeyVals), Laid(t, ws), NEW lv \in 0 .. LsmLevels - 1
    PROVE  Laid(CompactLevel(t, lv), ws)
<1> DEFINE n == Len(ws)
           s == CompactLevel(t, lv)
           l == Lowered(t.levels, lv)
<1>1. PICK a, b : /\ Frozen(t.imms, ws, a, b) /\ b <= n /\ t.mem = Part(ws, b, n)
                  /\ Stacked(t.levels, ws, a)
  BY DEF Laid
<1>2. CASE lv >= LsmLevels - 1 \/ t.levels[lv] = <<>>
  <2>1. s = t
    BY <1>2 DEF CompactLevel
  <2> HIDE DEF s
  <2>2. Laid(s, ws)
    BY <2>1
  <2> QED BY <2>2 DEF s
<1>3. CASE ~(lv >= LsmLevels - 1) /\ t.levels[lv] # <<>>
  <2>1. lv # LsmLevels - 1
    BY <1>3, LsmAssumption
  <2>2. a <= n
    <3>1. a \in Nat /\ b \in Nat /\ a <= b /\ n \in Nat /\ b <= n
      BY <1>1, FrozenBounds
    <3> HIDE DEF n
    <3> QED BY <3>1
  <2>3. Stacked(l, ws, a)
    BY <1>1, <1>3, <2>1, <2>2, StackedCompact
  <2>4. s = [t EXCEPT !.levels = l]
    BY <1>3 DEF CompactLevel, Lowered, PutAt
  <2> HIDE DEF s, l
  <2>5. s.imms = t.imms /\ s.mem = t.mem /\ s.levels = l
    BY <2>4 DEF Shape, Fields
  <2>6. Laid(s, ws)
    BY <1>1, <2>3, <2>5 DEF Laid
  <2> QED BY <2>6 DEF s
<1> QED BY <1>2, <1>3

LEMMA MaybeCompactLays ==
    ASSUME NEW t, Shape(t), NEW ws \in Seq(KeyVals), Laid(t, ws)
    PROVE  Laid(MaybeCompact(t), ws)
<1> DEFINE u == FlushDownTo(t, 0)
           v == CompactAbove(u, 0, Level0Limit)
           n == LsmLevels - 1
<1>1. Shape(u) /\ Laid(u, ws)
  BY FlushDownKeeps, FlushDownLays
<1>2. n \in Nat /\ 0 \in 0 .. LsmLevels - 1
  BY LsmAssumption
<1>3. ASSUME NEW s, Shape(s), Laid(s, ws), NEW lv \in 0 .. LsmLevels - 1, NEW limit
      PROVE  Shape(CompactAbove(s, lv, limit)) /\ Laid(CompactAbove(s, lv, limit), ws)
  <2>1. Shape(CompactLevel(s, lv)) /\ Laid(CompactLevel(s, lv), ws)
    BY <1>3, CompactLevelKeeps, CompactLays
  <2> QED BY <1>3, <2>1 DEF CompactAbove
<1>4. MaybeCompact(t) = IF t.picker = "leveled" THEN CompactedFrom(v, n)
                        ELSE IF Len(u.levels[0]) >= TierFiles THEN CompactLevel(u, 0) ELSE u
  BY DEF MaybeCompact, CompactedFrom, CompactFull
<1> HIDE DEF u
<1>5. Shape(v) /\ Laid(v, ws)
  BY <1>1, <1>2, <1>3
<1> HIDE DEF v
<1>6. Laid(CompactedFrom(v, n), ws)
  <2>1. PICK w : /\ w[0] = v /\ \A k \in 1 .. n : w[k] = CompactFull(w[k - 1], k - 1)
                 /\ CompactedFrom(v, n) = w[n]
    BY <1>2, CompactSteps
  <2> DEFINE P == { k \in 0 .. n : Shape(w[k]) /\ Laid(w[k], ws) }
  <2>2. 0 \in P
    BY <1>2, <1>5, <2>1
  <2>3. ASSUME NEW k \in 1 .. n, k - 1 \in P PROVE k \in P
    <3>1. k \in 0 .. n /\ Shape(w[k - 1]) /\ Laid(w[k - 1], ws) /\ w[k] = CompactFull(w[k - 1], k - 1)
      BY <1>2, <2>1, <2>3
    <3>2. k - 1 \in 0 .. LsmLevels - 1
      BY <1>2
    <3>3. Shape(w[k]) /\ Laid(w[k], ws)
      BY <1>3, <3>1, <3>2 DEF CompactFull
    <3> QED BY <3>1, <3>3
  <2>4. n \in P
    <3>1. n \in 0 .. n
      BY <1>2
    <3> HIDE DEF P, n
    <3> QED BY <1>2, <2>2, <2>3, <3>1, InductionUpTo
  <2> QED BY <2>1, <2>4
<1>7. Laid(CompactLevel(u, 0), ws)
  BY <1>1, <1>2, CompactLays
<1> QED BY <1>1, <1>4, <1>6, <1>7

LEMMA PartMore ==
    ASSUME NEW ws \in Seq(KeyVals), NEW e \in KeyVals, NEW b \in Nat, b <= Len(ws)
    PROVE  Part(Append(ws, e), b, Len(ws) + 1) = Insert(Part(ws, b, Len(ws)), Key(e), Val(e))
<1> DEFINE n == Len(ws)
           t == Append(ws, e)
           x == Slice(ws, b, n)
           y == Slice(t, b, n + 1)
           z == Append(x, e)
<1>1. n \in Nat /\ t \in Seq(KeyVals) /\ Len(t) = n + 1 /\ t[n + 1] = e /\ \A i \in 1 .. n : t[i] = ws[i]
  OBVIOUS
<1>2. x \in Seq(KeyVals) /\ Len(x) = n - b /\ \A i \in 1 .. n - b : x[i] = ws[b + i] /\ b + i \in 1 .. n
  <2>1. n <= n
    BY <1>1
  <2> QED BY <1>1, <2>1, SliceIs
<1> HIDE DEF t
<1>3. y \in Seq(KeyVals) /\ Len(y) = n + 1 - b /\ \A i \in 1 .. n + 1 - b : y[i] = t[b + i]
  <2> DEFINE m == n + 1
  <2>1. b <= m /\ m <= Len(t) /\ m \in Nat /\ t \in Seq(KeyVals)
    BY <1>1
  <2> HIDE DEF n, m
  <2>2. Slice(t, b, m) \in Seq(KeyVals) /\ Len(Slice(t, b, m)) = m - b
        /\ \A i \in 1 .. m - b : Slice(t, b, m)[i] = t[b + i]
    BY <2>1, SliceIs
  <2>3. y = Slice(t, b, m)
    BY DEF m, n
  <2> HIDE DEF y
  <2>4. m = n + 1
    BY DEF m
  <2>5. m - b = n + 1 - b
    <3>1. n \in Nat
      BY <1>1
    <3> QED BY <2>4, <3>1
  <2>6. y \in Seq(KeyVals) /\ Len(y) = n + 1 - b
    BY <2>2, <2>3, <2>5
  <2>7. \A i \in 1 .. n + 1 - b : y[i] = t[b + i]
    BY <2>2, <2>3, <2>5
  <2> QED BY <2>6, <2>7
<1> HIDE DEF x, y, n
<1>4. z \in Seq(KeyVals) /\ Len(z) = n - b + 1 /\ z[n - b + 1] = e /\ \A i \in 1 .. n - b : z[i] = x[i]
  BY <1>2
<1> HIDE DEF z
<1>5. n - b + 1 = n + 1 - b /\ n - b \in Nat
  BY <1>1 DEF n
<1>6. \A i \in 1 .. n + 1 - b : y[i] = z[i]
  <2> TAKE i \in 1 .. n + 1 - b
  <2>1. CASE i = n + 1 - b
    <3>1. b + i = n + 1
      BY <1>1, <2>1
    <3>2. y[i] = e
      BY <1>1, <1>3, <3>1
    <3> QED BY <1>4, <1>5, <2>1, <3>2
  <2>2. CASE i # n + 1 - b
    <3>1. i \in 1 .. n - b
      <4>1. n \in Nat
        BY <1>1
      <4> QED BY <2>2, <4>1
    <3>2. b + i \in 1 .. n /\ x[i] = ws[b + i]
      BY <1>2, <3>1
    <3>3. y[i] = t[b + i] /\ t[b + i] = ws[b + i] /\ z[i] = x[i]
      BY <1>1, <1>3, <1>4, <3>1, <3>2
    <3> QED BY <3>2, <3>3
  <2> QED BY <2>1, <2>2
<1>7. y = z
  <2>1. Len(y) = Len(z)
    BY <1>3, <1>4, <1>5
  <2>2. \A i \in 1 .. Len(y) : y[i] = z[i]
    BY <1>3, <1>6
  <2> QED BY <1>3, <1>4, <2>1, <2>2, SeqEqual
<1>8. Replay(z) = Insert(Replay(x), Key(e), Val(e))
  BY <1>2, ReplayMore DEF z
<1> QED BY <1>7, <1>8 DEF Part, x, y, t, n

LEMMA PutLays ==
    ASSUME NEW t, Shape(t), NEW ws \in Seq(KeyVals), Laid(t, ws), NEW k \in Int, NEW v \in Nat
    PROVE  Laid(Put(t, k, v), Append(ws, <<k, v>>))
<1> DEFINE e == <<k, v>>
           n == Len(ws)
           more == Append(ws, e)
           u == [t EXCEPT !.buffer = Append(t.buffer, e), !.mem = Insert(t.mem, k, v)]
<1>1. e \in KeyVals /\ Key(e) = k /\ Val(e) = v
  BY DEF KeyVals, Key, Val
<1>2. Put(t, k, v) = IF Cardinality(DOMAIN u.mem) >= MemCap THEN FlushDownTo(Freeze(u), ImmMax) ELSE u
  BY DEF Put
<1> HIDE DEF e
<1>3. n \in Nat /\ more \in Seq(KeyVals) /\ Len(more) = n + 1
  BY <1>1
<1>4. PICK a, b : /\ Frozen(t.imms, ws, a, b) /\ b <= n /\ t.mem = Part(ws, b, n)
                  /\ Stacked(t.levels, ws, a)
  BY DEF Laid
<1>5. a \in Nat /\ b \in Nat /\ a <= b
  BY <1>4, FrozenBounds
<1>6. a <= n /\ b <= n + 1
  <2> HIDE DEF n
  <2> QED BY <1>3, <1>4, <1>5
<1>7. Frozen(t.imms, more, a, b)
  BY <1>1, <1>4, LaidSame
<1>8. Stacked(t.levels, more, a)
  BY <1>1, <1>4, <1>6, StackedMore
<1>9. Insert(t.mem, k, v) = Part(more, b, n + 1)
  <2>1. Part(more, b, n + 1) = Insert(Part(ws, b, n), Key(e), Val(e))
    BY <1>1, <1>4, <1>5, PartMore
  <2> QED BY <1>1, <1>4, <2>1
<1> HIDE DEF more, n
<1>10. /\ u = [f \in Fields |-> u[f]] /\ u.imms = t.imms /\ u.levels = t.levels
       /\ u.mem = Insert(t.mem, k, v)
  BY DEF Shape, Fields
<1> HIDE DEF u
<1>11. Shape(u)
  BY <1>10 DEF Shape
<1>12. Laid(u, more)
  BY <1>3, <1>6, <1>7, <1>8, <1>9, <1>10 DEF Laid
<1>13. Shape(Freeze(u)) /\ Laid(Freeze(u), more)
  BY <1>3, <1>11, <1>12, FreezeLays
<1>14. Laid(FlushDownTo(Freeze(u), ImmMax), more)
  BY <1>3, <1>13, FlushDownLays, LsmAssumption
<1> QED BY <1>2, <1>12, <1>14 DEF more, e

LEMMA OpenedLays ==
    ASSUME NEW p, NEW d, NEW s, Readable(d) \in Seq(KeyVals)
    PROVE  Laid(Opened(p, d, s), Readable(d))
<1> DEFINE ws == Readable(d)
           n == Len(ws)
           none == <<>>
           l == [lv \in 0 .. LsmLevels - 1 |-> <<>>]
           o == Opened(p, d, s)
<1>1. o.imms = none /\ o.mem = Replay(ws) /\ o.levels = l
  BY DEF Opened
<1>2. Stacked(l, ws, 0) /\ Frozen(none, ws, 0, 0)
  BY StackedNone, NoneLaid
<1> HIDE DEF o, ws, none, l
<1>3. ws \in Seq(KeyVals) /\ n \in Nat /\ 0 <= n
  BY DEF ws
<1>4. Slice(ws, 0, n) = ws
  <2>1. SubSeq(ws, 1, Len(ws)) = ws
    BY <1>3, SubSeqFull
  <2>2. 0 + 1 = 1
    OBVIOUS
  <2> QED BY <2>1, <2>2 DEF Slice
<1>5. Replay(ws) = Part(ws, 0, n)
  BY <1>4 DEF Part
<1>6. Laid(o, ws)
  BY <1>1, <1>2, <1>3, <1>5 DEF Laid
<1> QED BY <1>6 DEF o, ws

(* What the levels answer: the writes that were flushed.                   *)
LEMMA LevelsTell ==
    ASSUME NEW ws \in Seq(KeyVals), NEW levels, NEW a, a <= Len(ws), Stacked(levels, ws, a), NEW k \in Int,
           (\A lv \in 1 .. LsmLevels - 1 : levels[lv] = <<>>) \/ Rising(ws)
    PROVE  FirstFound([lv \in 1 .. LsmLevels |-> InLevel(levels[lv - 1], lv - 1, k)]) = Tell(ws, 0, a, k)
<1> DEFINE N == LsmLevels
           vs == [lv \in 1 .. N |-> InLevel(levels[lv - 1], lv - 1, k)]
<1>1. N \in Nat /\ N # 0
  BY LsmAssumption
<1>2. Len(vs) = N /\ \A i \in 1 .. N : vs[i] = InLevel(levels[i - 1], i - 1, k)
  BY <1>1
<1>3. \A files : InLevel(files, 0, k) = Newest(files, k)
  BY DEF InLevel
<1> HIDE DEF vs
<1>4. \A i \in 1 .. N : /\ i - 1 \in 0 .. N - 1 /\ N - (i - 1) - 1 = N - i /\ N - (i - 1) = N - i + 1
                        /\ N - i \in 0 .. N /\ N - i + 1 \in 0 .. N /\ N - i # N
                        /\ (i # 1 => i - 1 # 0 /\ i - 1 \in 1 .. N - 1 /\ N - i + 1 # N)
  BY <1>1
<1>5. CASE \A lv \in 1 .. N - 1 : levels[lv] = <<>>
  <2> DEFINE c == [i \in 0 .. N |-> IF i = N THEN a ELSE 0]
  <2>1. Flushed(levels[0], ws, 0, a)
    BY <1>5 DEF Stacked
  <2>2. a \in Nat
    BY <2>1, FlushedBounds
  <2>3. N \in 0 .. N /\ 0 \in 0 .. N /\ \A i \in 0 .. N : i <= N
    BY <1>1
  <2>4. c \in [0 .. N -> Nat] /\ c[N] = a /\ \A i \in 0 .. N : i # N => c[i] = 0
    BY <2>2, <2>3
  <2> HIDE DEF c, N
  <2>5. \A i, j \in 0 .. N : i <= j => c[i] <= c[j]
    <3> TAKE i, j \in 0 .. N
    <3> HAVE i <= j
    <3>1. i = N => j = N
      <4>1. N \in Nat /\ j <= N
        BY <1>1
      <4> QED BY <4>1
    <3>2. c[i] = 0 \/ c[i] = c[j]
      BY <2>4, <3>1
    <3>3. c[i] \in Nat /\ c[j] \in Nat
      BY <2>4
    <3> QED BY <3>2, <3>3
  <2>6. Cuts(c, N, 0, a)
    <3>1. c[0] = 0
      BY <1>1, <2>3, <2>4
    <3> QED BY <1>1, <2>4, <2>5, <3>1 DEF Cuts
  <2>7. vs[1] = Tell(ws, 0, a, k)
    <3>1. Newest(levels[0], k) = Tell(ws, 0, a, k)
      BY <2>1, NewestIs
    <3>2. 1 \in 1 .. N /\ 1 - 1 = 0
      BY <1>1
    <3>3. vs[1] = InLevel(levels[0], 0, k)
      BY <1>2, <3>2
    <3> QED BY <1>3, <3>1, <3>3
  <2>8. ASSUME NEW i \in 1 .. N PROVE vs[i] = Tell(ws, c[N - i], c[N - i + 1], k)
    <3>1. CASE i = 1
      <4>1. N - i + 1 = N
        BY <1>1, <3>1
      <4>2. c[N - i + 1] = a /\ c[N - i] = 0
        BY <1>4, <2>4, <4>1
      <4> QED BY <2>7, <3>1, <4>2
    <3>2. CASE i # 1
      <4>1. c[N - i] = 0 /\ c[N - i + 1] = 0
        BY <1>4, <2>4, <3>2
      <4>2. levels[i - 1] = <<>> /\ i - 1 # 0
        BY <1>4, <1>5, <3>2
      <4>3. vs[i] = Missing
        <5> DEFINE l == i - 1
                   e == <<>>
        <5>1. InLevel(e, l, k) = Missing
          <6> HIDE DEF l
          <6>1. l # 0
            BY <4>2 DEF l
          <6> QED BY <6>1, InLevelNone
        <5>2. vs[i] = InLevel(levels[l], l, k)
          BY <1>2
        <5> QED BY <4>2, <5>1, <5>2
      <4>4. Tell(ws, 0, 0, k) = Missing
        <5>1. \A j \in 0 + 1 .. 0 : Key(ws[j]) # k
          OBVIOUS
        <5> DEFINE z == 0
        <5>2. \A j \in z + 1 .. z : Key(ws[j]) # k
          BY <5>1
        <5> HIDE DEF z
        <5>3. Tell(ws, z, z, k) = Missing
          BY <5>2, TellNone
        <5> QED BY <5>3 DEF z
      <4> QED BY <4>1, <4>3, <4>4
    <3> QED BY <3>1, <3>2
  <2>9. FirstFound(vs) = Tell(ws, 0, a, k)
    BY <1>2, <2>6, <2>8, FirstFoundIs
  <2> QED BY <2>9 DEF vs, N
<1>6. CASE Rising(ws)
  <2>1. PICK c : /\ Cuts(c, N, 0, a)
                 /\ \A lv \in 0 .. N - 1 : Flushed(levels[lv], ws, c[N - lv - 1], c[N - lv])
    BY <1>6 DEF Stacked
  <2> HIDE DEF N
  <2>2. ASSUME NEW i \in 1 .. N PROVE vs[i] = Tell(ws, c[N - i], c[N - i + 1], k)
    <3> DEFINE x == c[N - i]
               y == c[N - i + 1]
               l == i - 1
               files == levels[l]
    <3>1. Flushed(files, ws, x, y)
      <4>1. i - 1 \in 0 .. N - 1 /\ N - (i - 1) - 1 = N - i /\ N - (i - 1) = N - i + 1
        BY <1>4
      <4>2. Flushed(levels[i - 1], ws, c[N - (i - 1) - 1], c[N - (i - 1)])
        BY <2>1, <4>1
      <4> QED BY <4>1, <4>2
    <3>2. y \in 0 .. a /\ a \in Nat
      BY <1>4, <2>1, CutBounds
    <3>3. vs[i] = InLevel(files, l, k)
      BY <1>2
    <3> HIDE DEF x, y, l, files
    <3>4. y <= Len(ws)
      <4> DEFINE n == Len(ws)
      <4>1. n \in Nat /\ a <= n
        OBVIOUS
      <4> HIDE DEF n
      <4>2. y <= n
        BY <3>2, <4>1
      <4> QED BY <4>2 DEF n
    <3>5. InLevel(files, l, k) = Tell(ws, x, y, k)
      <4>1. CASE l = 0
        <5>1. Newest(files, k) = Tell(ws, x, y, k)
          BY <3>1, <3>4, NewestIs
        <5> QED BY <1>3, <4>1, <5>1
      <4>2. CASE l # 0
        BY <1>6, <3>1, <3>4, <4>2, InLevelIs
      <4> QED BY <4>1, <4>2
    <3> QED BY <3>3, <3>5 DEF x, y
  <2>3. FirstFound(vs) = Tell(ws, 0, a, k)
    BY <1>2, <2>1, <2>2, FirstFoundIs
  <2> QED BY <2>3 DEF vs, N
<1> QED BY <1>5, <1>6

(* The answer for a key: the value written last, if it is not a tombstone. *)
Answered(ws, k) ==
  LET v == Tell(ws, 0, Len(ws), k) IN IF v = Tombstone THEN Missing ELSE v

LEMMA GetIs ==
    ASSUME NEW t, Shape(t), NEW ws \in Seq(KeyVals), Laid(t, ws), NEW k \in Int,
           (\A lv \in 1 .. LsmLevels - 1 : t.levels[lv] = <<>>) \/ Rising(ws)
    PROVE  Get(t, k) = Answered(ws, k)
<1> DEFINE n == Len(ws)
           mems == Append(t.imms, t.mem)
           i == MemOf(mems, k)
           low == FirstFound([lv \in 1 .. LsmLevels |-> InLevel(t.levels[lv - 1], lv - 1, k)])
           found == IF i # 0 THEN mems[i][k] ELSE low
<1>1. Get(t, k) = IF found = Tombstone THEN Missing ELSE found
  BY DEF Get, MemOf, FirstFound
<1>2. n \in Nat /\ n <= n
  OBVIOUS
<1>3. PICK a, b : /\ Frozen(t.imms, ws, a, b) /\ b <= n /\ t.mem = Part(ws, b, n)
                  /\ Stacked(t.levels, ws, a)
  BY DEF Laid
<1>4. a \in Nat /\ b \in Nat /\ a <= b
  BY <1>3, FrozenBounds
<1>5. a <= n
  <2> HIDE DEF n
  <2> QED BY <1>2, <1>3, <1>4
<1>6. Frozen(mems, ws, a, n)
  <2> HIDE DEF n
  <2> QED BY <1>2, <1>3, FrozenMore
<1>7. low = Tell(ws, 0, a, k)
  BY <1>3, <1>5, LevelsTell
<1> HIDE DEF mems, low
<1>8. /\ i # 0 => mems[i][k] = Tell(ws, 0, n, k)
      /\ i = 0 => Tell(ws, 0, n, k) = Tell(ws, 0, a, k)
  BY <1>2, <1>6, MemOfIs
<1> HIDE DEF i, n
<1>9. found = Tell(ws, 0, n, k)
  BY <1>7, <1>8
<1> HIDE DEF found
<1> QED BY <1>1, <1>9 DEF Answered, n

LEMMA LatestIs ==
    ASSUME handle.writes \in Seq(KeyVals), NEW k
    PROVE  Latest(k) = Answered(handle.writes, k)
<1> DEFINE ws == handle.writes
           n == Len(ws)
           I == {j \in 1 .. n : Key(ws[j]) = k}
           m == Max(I)
           i == SelectLastInSeq(ws, LAMBDA w : Key(w) = k)
<1>1. n \in Nat /\ \A j \in 1 .. n : Val(ws[j]) \in Nat
  BY DEF KeyVals, Val
<1>2. i = IF I # {} THEN m ELSE 0
  BY DEF SelectLastInSeq
<1>3. Latest(k) = IF i = 0 \/ Val(ws[i]) = Tombstone THEN Missing ELSE Val(ws[i])
  BY DEF Latest
<1>4. Places(ws, 0, n, k) = I
  BY DEF Places
<1>5. Tell(ws, 0, n, k) = IF I = {} THEN Missing ELSE Val(ws[m])
  BY <1>4 DEF Tell
<1>6. I # {} => m \in I
  <2>1. I \in SUBSET (0 .. n)
    OBVIOUS
  <2> HIDE DEF I
  <2> QED BY <1>1, <2>1, MaxIsMember
<1>7. I # {} => m # 0
  BY <1>1, <1>6
<1>8. Missing # Tombstone
  BY LsmAssumption DEF Tombstone
<1> HIDE DEF i, m, I, n
<1>9. CASE I = {}
  <2>1. i = 0
    BY <1>2, <1>9
  <2>2. Tell(ws, 0, n, k) = Missing
    BY <1>5, <1>9
  <2> QED BY <1>3, <1>8, <2>1, <2>2 DEF Answered, n
<1>10. CASE I # {}
  <2>1. i = m /\ i # 0
    BY <1>2, <1>7, <1>10
  <2>2. Tell(ws, 0, n, k) = Val(ws[i])
    BY <1>5, <1>10, <2>1
  <2> QED BY <1>3, <2>1, <2>2 DEF Answered, n
<1> QED BY <1>9, <1>10

(* An open tree holds the writes that it answers for.                      *)
HoldsWrites == handle.open => Laid(handle, handle.writes)

LEMMA WritesArePairs == ASSUME NEW s \in Seq(Writes) PROVE s \in Seq(KeyVals)
<1>1. Writes \subseteq KeyVals
  BY LsmAssumption DEF Writes, KeyVals
<1> QED BY <1>1, WiderSeq

LEMMA LaidSameTree ==
    ASSUME NEW s, NEW t, NEW ws, s.imms = t.imms, s.mem = t.mem, s.levels = t.levels
    PROVE  Laid(s, ws) <=> Laid(t, ws)
BY DEF Laid

LEMMA HoldsWritesInit == LsmInit => HoldsWrites
<1> SUFFICES ASSUME LsmInit PROVE HoldsWrites
  OBVIOUS
<1> DEFINE e == <<>>
<1>1. PICK p : handle = Opened(p, e, e)
  BY DEF LsmInit
<1>2. handle.writes = Readable(e)
  BY <1>1 DEF Opened
<1>3. e \in Seq(LogEntries)
  OBVIOUS
<1>4. Readable(e) \in Seq(KeyVals)
  BY <1>3, ReadableType, WritesArePairs
<1> HIDE DEF e
<1>5. Laid(Opened(p, e, e), Readable(e))
  BY <1>4, OpenedLays
<1> QED BY <1>1, <1>2, <1>5 DEF HoldsWrites

LEMMA HoldsWritesNext == LsmInv /\ HoldsWrites /\ [LsmNext]_handle => HoldsWrites'
<1> SUFFICES ASSUME LsmInv, HoldsWrites, [LsmNext]_handle PROVE HoldsWrites'
  OBVIOUS
<1> DEFINE ws == handle.writes
<1>1. Shape(handle) /\ ws \in Seq(Writes) /\ handle.disk \in Seq(LogEntries)
  BY DEF LsmInv, LsmTypeOK
<1>2. ws \in Seq(KeyVals) /\ Len(ws) \in Nat
  BY <1>1, WritesArePairs
<1>3. handle.open => Laid(handle, ws)
  BY DEF HoldsWrites
<1> HIDE DEF ws
<1>4. ASSUME NEW k \in LsmKeys, LsmWrite(k) PROVE HoldsWrites'
  <2>1. PICK v \in {Len(ws) + 1, Tombstone} :
           handle' = [Put(handle, k, v) EXCEPT !.writes = Append(Put(handle, k, v).writes, <<k, v>>)]
    BY <1>4 DEF LsmWrite, ws
  <2> DEFINE entry == <<k, v>>
             p == Put(handle, k, v)
  <2>2. k \in Int /\ v \in Nat /\ handle.open
    BY <1>2, <1>4, <2>1, LsmAssumption DEF Tombstone, LsmWrite, Tree
  <2>3. Shape(p) /\ p.writes = ws
    <3>1. /\ Shape(p)
          /\ \A f \in Fields \ {"mem", "imms", "levels", "buffer"} : p[f] = handle[f]
      BY <1>1, PutKeeps
    <3>2. "writes" \in Fields \ {"mem", "imms", "levels", "buffer"}
      BY DEF Fields
    <3> HIDE DEF p
    <3> QED BY <3>1, <3>2 DEF ws
  <2>4. Laid(p, Append(ws, entry))
    BY <1>1, <1>2, <1>3, <2>2, PutLays
  <2>5. handle' = [p EXCEPT !.writes = Append(p.writes, entry)]
    BY <2>1
  <2> HIDE DEF p, entry
  <2>6. /\ handle'.imms = p.imms /\ handle'.mem = p.mem /\ handle'.levels = p.levels
        /\ handle'.writes = Append(ws, entry)
    BY <2>3, <2>5 DEF Shape, Fields
  <2>7. Laid(handle', Append(ws, entry))
    BY <2>4, <2>6, LaidSameTree
  <2> QED BY <2>6, <2>7 DEF HoldsWrites
<1>5. CASE LsmMaybeCompact
  <2>1. handle.open /\ handle' = MaybeCompact(handle)
    BY <1>5 DEF LsmMaybeCompact, Tree
  <2>2. Laid(handle', ws)
    BY <1>1, <1>2, <1>3, <2>1, MaybeCompactLays
  <2>3. handle'.writes = ws
    BY <1>1, <2>1, MaybeCompactKeeps DEF OnlyTables, Fields, ws
  <2> QED BY <2>2, <2>3 DEF HoldsWrites
<1>6. ASSUME NEW lv \in 0 .. LsmLevels - 1, LsmCompactLevel(lv) PROVE HoldsWrites'
  <2>1. handle.open /\ handle' = CompactLevel(handle, lv)
    BY <1>6 DEF LsmCompactLevel, Tree
  <2>2. Laid(handle', ws)
    BY <1>1, <1>2, <1>3, <2>1, CompactLays
  <2>3. handle'.writes = ws
    BY <1>1, <2>1, CompactLevelKeeps DEF OnlyTables, Fields, ws
  <2> QED BY <2>2, <2>3 DEF HoldsWrites
<1>7. CASE LsmClose
  <2> DEFINE u == MaybeCompact(FlushDownTo(Freeze(handle), 0))
  <2>1. Shape(u)
    BY <1>1, ClosingKeeps
  <2>2. handle' = [[u EXCEPT !.open = FALSE, !.disk = u.disk \o handle.buffer, !.buffer = <<>>] EXCEPT
                     !.safe = IF Torn \in ToSet(handle.disk) THEN u.safe ELSE handle.writes]
    BY <1>7 DEF LsmClose, Closed
  <2> HIDE DEF u
  <2>3. handle'.open = FALSE
    BY <2>1, <2>2 DEF Shape, Fields
  <2> QED BY <2>3 DEF HoldsWrites
<1>8. CASE LsmCrash
  <2>1. \E d : handle' = [handle EXCEPT !.open = FALSE, !.buffer = <<>>, !.disk = d]
    BY <1>8 DEF LsmCrash
  <2>2. handle'.open = FALSE
    BY <1>1, <2>1 DEF Shape, Fields
  <2> QED BY <2>2 DEF HoldsWrites
<1>9. CASE LsmOpen
  <2> DEFINE found == Readable(handle.disk)
             safe == IF IsPrefix(handle.safe, found) THEN found ELSE handle.safe
  <2>1. handle' = Opened(handle.picker, handle.disk, safe)
    BY <1>9 DEF LsmOpen
  <2>2. handle'.writes = found
    BY <2>1 DEF Opened
  <2>3. found \in Seq(KeyVals)
    BY <1>1, ReadableType, WritesArePairs
  <2> HIDE DEF safe
  <2>4. Laid(handle', found)
    BY <2>1, <2>3, OpenedLays
  <2> QED BY <2>2, <2>4 DEF HoldsWrites
<1>10. CASE UNCHANGED handle
  BY <1>10 DEF HoldsWrites
<1> QED BY <1>4, <1>5, <1>6, <1>7, <1>8, <1>9, <1>10 DEF LsmNext

(* A read finds the value that was written last, or nothing if that was a  *)
(* tombstone: through frozen memtables, flushes, overlapping files of      *)
(* level 0 and restarts as long as nothing was compacted, and through any  *)
(* compactions when keys only grow and all fit one block (lsm_get,         *)
(* lsm_compact_level, merge_iterator_next, sstable_get).                   *)
THEOREM ReadsLatestHolds == LsmInit /\ [][LsmNext]_handle => []ReadsLatest
<1>1. LsmInv /\ HoldsWrites => ReadsLatest
  <2> SUFFICES ASSUME LsmInv, HoldsWrites, handle.open, Uncompacted \/ AppendOnly, NEW k \in LsmKeys
               PROVE  Get(handle, k) = Latest(k)
    BY DEF ReadsLatest, Tree
  <2> DEFINE ws == handle.writes
  <2>1. Shape(handle) /\ ws \in Seq(KeyVals) /\ Laid(handle, ws) /\ k \in Int
    BY WritesArePairs, LsmAssumption DEF LsmInv, LsmTypeOK, HoldsWrites
  <2>2. AppendOnly => Rising(ws)
    BY <2>1 DEF AppendOnly, Rising, RisesByKey
  <2>3. Uncompacted => \A lv \in 1 .. LsmLevels - 1 : handle.levels[lv] = <<>>
    BY DEF Uncompacted
  <2>4. Latest(k) = Answered(ws, k)
    BY <2>1, LatestIs
  <2> HIDE DEF ws
  <2>5. Get(handle, k) = Answered(ws, k)
    BY <2>1, <2>2, <2>3, GetIs
  <2> QED BY <2>4, <2>5
<1> QED BY <1>1, LsmInitInv, LsmNextInv, HoldsWritesInit, HoldsWritesNext, PTL

-----------------------------------------------------------------------------
(***************************************************************************)
(* The lists and indexes of the property graph of mini-graph-db          *)
(* (PropertyGraph).  First what a fold of the library does one element at*)
(* a time, then what is filed in an index and found there, then what each*)
(* operation does to the lists.                                          *)
(***************************************************************************)
(* Lists of ids under names.                                             *)
Indexes(N) == Seq([name : N, ids : Seq(Nat)])

(* No list of the index is full, nor the index itself.                   *)
Roomy(idx) == Len(idx) < IndexCap /\ \A i \in DOMAIN idx : Len(idx[i].ids) < ListCap

(* Filing keeps the form of an index.                                    *)
LEMMA FiledType ==
    ASSUME NEW N, NEW idx \in Indexes(N), NEW name \in N, NEW id \in Nat
    PROVE  Filed(idx, name, id) \in Indexes(N)
<1> DEFINE at == {i \in DOMAIN idx : idx[i].name = name}
           i == CHOOSE j \in at : TRUE
<1>1. CASE at # {}
  <2>1. i \in at
    BY <1>1
  <2> HIDE DEF i
  <2>2. i \in DOMAIN idx /\ idx[i] \in [name : N, ids : Seq(Nat)]
    <3>1. i \in DOMAIN idx
      BY <2>1
    <3> HIDE DEF at
    <3> DEFINE E == [name : N, ids : Seq(Nat)]
    <3>2. idx \in Seq(E)
      BY DEF Indexes
    <3> HIDE DEF E
    <3>3. idx[i] \in E
      BY <3>1, <3>2
    <3> QED BY <3>1, <3>3 DEF E
  <2>3. Filed(idx, name, id) = IF Len(idx[i].ids) >= ListCap THEN idx
                               ELSE [idx EXCEPT ![i].ids = Append(@, id)]
    BY <1>1 DEF Filed, i
  <2> HIDE DEF at
  <2>4. [idx[i] EXCEPT !.ids = Append(@, id)] \in [name : N, ids : Seq(Nat)]
    BY <2>2, SMTT(60)
  <2>5. [idx EXCEPT ![i] = [idx[i] EXCEPT !.ids = Append(@, id)]] \in Indexes(N)
    BY <2>2, <2>4 DEF Indexes
  <2>6. [idx EXCEPT ![i].ids = Append(@, id)] = [idx EXCEPT ![i] = [idx[i] EXCEPT !.ids = Append(@, id)]]
    OBVIOUS
  <2> QED BY <2>3, <2>5, <2>6
<1>2. CASE at = {}
  <2>1. Filed(idx, name, id) = IF Len(idx) >= IndexCap THEN idx
                               ELSE Append(idx, [name |-> name, ids |-> <<id>>])
    BY <1>2 DEF Filed
  <2>2. [name |-> name, ids |-> <<id>>] \in [name : N, ids : Seq(Nat)]
    OBVIOUS
  <2>3. Append(idx, [name |-> name, ids |-> <<id>>]) \in Indexes(N)
    BY <2>2 DEF Indexes
  <2> QED BY <2>1, <2>3
<1> QED BY <1>1, <1>2

(* An index of pairs is made pair after pair.                            *)
LEMMA FiledSteps ==
    ASSUME NEW N, NEW pairs \in Seq(N \X Nat)
    PROVE  \E w : /\ w[0] = <<>> /\ FiledAll(pairs) = w[Len(pairs)]
                  /\ \A k \in 1 .. Len(pairs) : w[k] = Filed(w[k - 1], pairs[k][1], pairs[k][2])
                  /\ \A k \in 0 .. Len(pairs) : w[k] \in Indexes(N)
<1> DEFINE n == Len(pairs)
           S == Indexes(N)
           f == [p \in (1 .. n) \X S |-> Filed(p[2], pairs[p[1]][1], pairs[p[1]][2])]
           Step(g, s) == IF s = {} THEN <<>>
                         ELSE Filed(g[s \ {Max(s)}], pairs[Max(s)][1], pairs[Max(s)][2])
           Solves(g, d) == g = [s \in SUBSET d |-> Step(g, s)]
           iter == CHOOSE g : Solves(g, DOMAIN pairs)
<1>1. FiledAll(pairs) = iter[DOMAIN pairs]
  BY DEF FiledAll, FoldLeft, MapThenFoldSet
<1>2. n \in Nat /\ DOMAIN pairs = 1 .. n /\ \A k \in 1 .. n : pairs[k][1] \in N /\ pairs[k][2] \in Nat
  OBVIOUS
<1>3. \A k \in 1 .. n, x \in S : f[<<k, x>>] = Filed(x, pairs[k][1], pairs[k][2])
  OBVIOUS
<1>4. \A k \in 1 .. n, x \in S : f[<<k, x>>] \in S
  <2> TAKE k \in 1 .. n, x \in S
  <2>1. f[<<k, x>>] = Filed(x, pairs[k][1], pairs[k][2])
    BY <1>3
  <2>2. pairs[k][1] \in N /\ pairs[k][2] \in Nat
    BY <1>2
  <2> HIDE DEF f, n
  <2> QED BY <2>1, <2>2, FiledType
<1>5. <<>> \in S
  BY DEF Indexes
<1> DEFINE base == <<>>
<1> HIDE DEF f, n, S, base
<1>16. PICK h : Folds(h, n, S, base, f)
  <2>1. base \in S /\ StaysIn(n, S, f)
    BY <1>4, <1>5 DEF base, StaysIn
  <2> QED BY <1>2, <2>1, FoldSolved
<1>6. /\ h \in [SUBSET (1 .. n) -> S]
      /\ \A s \in SUBSET (1 .. n) : h[s] = IF s = {} THEN base ELSE f[<<Max(s), h[s \ {Max(s)}]>>]
  BY <1>16 DEF Folds
<1>7. \A s \in SUBSET (1 .. n) : s # {} => Max(s) \in s
  <2> TAKE s \in SUBSET (1 .. n)
  <2>1. s \in SUBSET (0 .. n)
    BY <1>2
  <2> QED BY <1>2, <2>1, MaxIsMember
<1>8. \A s \in SUBSET (1 .. n) : h[s] = Step(h, s)
  <2> TAKE s \in SUBSET (1 .. n)
  <2>1. CASE s = {}
    BY <1>6, <2>1 DEF base
  <2>2. CASE s # {}
    <3>1. Max(s) \in 1 .. n /\ h[s \ {Max(s)}] \in S
      BY <1>6, <1>7, <2>2
    <3>2. h[s] = f[<<Max(s), h[s \ {Max(s)}]>>]
      BY <1>6, <2>2
    <3> QED BY <1>3, <2>2, <3>1, <3>2
  <2> QED BY <2>1, <2>2
<1>9. Solves(h, 1 .. n)
  <2>1. h = [s \in SUBSET (1 .. n) |-> h[s]]
    BY <1>6
  <2> HIDE DEF Step
  <2> QED BY <1>8, <2>1
<1>10. Solves(iter, 1 .. n)
  <2> HIDE DEF Solves
  <2> QED BY <1>2, <1>9
<1> HIDE DEF iter
<1>11. \A s \in SUBSET (1 .. n) : iter[s] = Step(iter, s)
  <2> HIDE DEF Step
  <2> QED BY <1>10
<1> HIDE DEF Solves
<1> DEFINE w == [k \in 0 .. n |-> iter[1 .. k]]
<1>12. w[0] = <<>>
  <2>1. 1 .. 0 = {} /\ {} \in SUBSET (1 .. n)
    OBVIOUS
  <2>2. iter[{}] = <<>>
    BY <1>11, <2>1
  <2> QED BY <1>2, <2>1, <2>2
<1>13. ASSUME NEW k \in 1 .. n PROVE w[k] = Filed(w[k - 1], pairs[k][1], pairs[k][2])
  <2>1. k \in Nat /\ k \in 1 .. k /\ 1 .. k \in SUBSET (1 .. n)
    BY <1>2
  <2>2. Max(1 .. k) = k
    BY <2>1, MaxOfTop
  <2>3. (1 .. k) \ {k} = 1 .. k - 1
    BY <2>1
  <2>4. iter[1 .. k] = Filed(iter[1 .. k - 1], pairs[k][1], pairs[k][2])
    BY <1>11, <2>1, <2>2, <2>3
  <2>5. k \in 0 .. n /\ k - 1 \in 0 .. n
    BY <1>2
  <2> QED BY <2>4, <2>5
<1>14. FiledAll(pairs) = w[n]
  BY <1>1, <1>2
<1> HIDE DEF w
<1> DEFINE P == { k \in 0 .. n : w[k] \in S }
<1>15. \A k \in 0 .. n : k \in P
  <2>1. 0 \in P
    BY <1>2, <1>5, <1>12
  <2>2. ASSUME NEW k \in 1 .. n, k - 1 \in P PROVE k \in P
    <3>1. k \in 0 .. n /\ w[k - 1] \in S /\ w[k] = Filed(w[k - 1], pairs[k][1], pairs[k][2])
      BY <1>2, <1>13, <2>2
    <3> QED BY <1>2, <3>1, FiledType DEF S
  <2> HIDE DEF P
  <2> QED BY <1>2, <2>1, <2>2, InductionUpTo
<1> QED BY <1>12, <1>13, <1>14, <1>15 DEF n, S

(* The ids of the first k pairs with that name.                          *)
Having(pairs, k, name) == { pairs[i][2] : i \in { j \in 1 .. k : pairs[j][1] = name } }

(* The index of the first k pairs: a list for a name, the ids in it in   *)
(* their order and, if nothing was dropped, all of them.                 *)
OnceNamed(idx) == \A i, j \in DOMAIN idx : idx[i].name = idx[j].name => i = j
Sorted(ids) == \A a, b \in DOMAIN ids : a < b => ids[a] <= ids[b]
IndexOK(idx, pairs, k) ==
    /\ OnceNamed(idx)
    /\ \A i \in DOMAIN idx :
          /\ Sorted(idx[i].ids)
          /\ ToSet(idx[i].ids) \subseteq Having(pairs, k, idx[i].name)
          /\ Roomy(idx) => ToSet(idx[i].ids) = Having(pairs, k, idx[i].name)
    /\ Roomy(idx) => \A j \in 1 .. k : \E i \in DOMAIN idx : idx[i].name = pairs[j][1]

(* One more pair adds its id to those of its name, and to no others.     *)
LEMMA HavingMore ==
    ASSUME NEW N, NEW pairs \in Seq(N \X Nat), NEW k \in 1 .. Len(pairs), NEW name
    PROVE  Having(pairs, k, name) = Having(pairs, k - 1, name)
                                    \cup (IF pairs[k][1] = name THEN {pairs[k][2]} ELSE {})
<1>1. k \in Nat
  OBVIOUS
<1>2. 1 .. k = (1 .. k - 1) \cup {k}
  BY <1>1
<1> QED BY <1>2 DEF Having

(* A list in order stays so with an id at its end that is not below any. *)
LEMMA AppendSorted ==
    ASSUME NEW ids \in Seq(Nat), Sorted(ids), NEW id \in Nat, \A x \in ToSet(ids) : x <= id
    PROVE  Sorted(Append(ids, id)) /\ ToSet(Append(ids, id)) = ToSet(ids) \cup {id}
<1> DEFINE z == Append(ids, id)
<1>1. /\ DOMAIN ids = 1 .. Len(ids) /\ DOMAIN z = 1 .. Len(ids) + 1 /\ Len(ids) \in Nat
      /\ \A a \in 1 .. Len(ids) : z[a] = ids[a] /\ ids[a] \in Nat
      /\ z[Len(ids) + 1] = id
  OBVIOUS
<1> HIDE DEF z
<1>2. \A a \in 1 .. Len(ids) : ids[a] <= id
  BY <1>1 DEF ToSet
<1>3. ASSUME NEW a \in DOMAIN z, NEW b \in DOMAIN z, a < b PROVE z[a] <= z[b]
  <2>1. a \in 1 .. Len(ids)
    BY <1>1, <1>3
  <2>2. b \in 1 .. Len(ids) \/ b = Len(ids) + 1
    BY <1>1
  <2> QED BY <1>1, <1>2, <1>3, <2>1, <2>2 DEF Sorted
<1>4. ToSet(z) = ToSet(ids) \cup {id}
  <2>1. 1 .. Len(ids) + 1 = (1 .. Len(ids)) \cup {Len(ids) + 1}
    BY <1>1
  <2> QED BY <1>1, <2>1 DEF ToSet
<1> QED BY <1>3, <1>4 DEF Sorted, z

(* Filing the next pair keeps the index right for the pairs so far.      *)
LEMMA FiledStep ==
    ASSUME NEW N, NEW pairs \in Seq(N \X Nat), NEW k \in 1 .. Len(pairs), NEW idx \in Indexes(N),
           \A i, j \in 1 .. Len(pairs) : i <= j => pairs[i][2] <= pairs[j][2],
           IndexOK(idx, pairs, k - 1)
    PROVE  IndexOK(Filed(idx, pairs[k][1], pairs[k][2]), pairs, k)
<1> DEFINE name == pairs[k][1]
           id == pairs[k][2]
           z == Filed(idx, name, id)
           at == {i \in DOMAIN idx : idx[i].name = name}
<1>1. name \in N /\ id \in Nat /\ k \in Nat /\ k - 1 \in Nat
  OBVIOUS
<1>2. \A m : Having(pairs, k, m) = Having(pairs, k - 1, m) \cup (IF name = m THEN {id} ELSE {})
  BY HavingMore, ZenonT(120)
<1>3. \A m : \A x \in Having(pairs, k - 1, m) : x <= id
  <2> TAKE m
  <2> TAKE x \in Having(pairs, k - 1, m)
  <2>1. PICK j \in 1 .. k - 1 : x = pairs[j][2]
    BY DEF Having
  <2>2. j \in 1 .. Len(pairs) /\ j <= k
    BY <1>1
  <2> QED BY <2>1, <2>2
<1>4. /\ OnceNamed(idx)
      /\ \A i \in DOMAIN idx :
            /\ Sorted(idx[i].ids)
            /\ ToSet(idx[i].ids) \subseteq Having(pairs, k - 1, idx[i].name)
            /\ Roomy(idx) => ToSet(idx[i].ids) = Having(pairs, k - 1, idx[i].name)
      /\ Roomy(idx) => \A j \in 1 .. k - 1 : \E i \in DOMAIN idx : idx[i].name = pairs[j][1]
  BY DEF IndexOK
<1>5. /\ DOMAIN idx = 1 .. Len(idx) /\ Len(idx) \in Nat
      /\ \A i \in DOMAIN idx : idx[i] = [name |-> idx[i].name, ids |-> idx[i].ids]
                               /\ idx[i].ids \in Seq(Nat) /\ Len(idx[i].ids) \in Nat
  <2> DEFINE E == [name : N, ids : Seq(Nat)]
  <2>1. idx \in Seq(E)
    BY DEF Indexes
  <2> HIDE DEF E
  <2>2. DOMAIN idx = 1 .. Len(idx) /\ Len(idx) \in Nat /\ \A i \in DOMAIN idx : idx[i] \in E
    BY <2>1
  <2> QED BY <2>2 DEF E
<1>6. 1 .. k = (1 .. k - 1) \cup {k}
  BY <1>1
<1> HIDE DEF name, id
<1>7. ASSUME z = idx, ~Roomy(idx) PROVE IndexOK(z, pairs, k)
  <2> HIDE DEF z
  <2> QED BY <1>2, <1>4, <1>7 DEF IndexOK
<1>8. CASE at # {}
  <2> DEFINE i == CHOOSE j \in at : TRUE
  <2>1. i \in at
    BY <1>8
  <2>2. z = IF Len(idx[i].ids) >= ListCap THEN idx ELSE [idx EXCEPT ![i].ids = Append(@, id)]
    BY <1>8 DEF Filed
  <2> HIDE DEF i
  <2>3. i \in DOMAIN idx /\ idx[i].name = name
    BY <2>1
  <2> HIDE DEF at, z
  <2>4. CASE Len(idx[i].ids) >= ListCap
    <3>1. ~Roomy(idx)
      BY <1>5, <2>3, <2>4, GraphAssumption DEF Roomy
    <3> QED BY <1>7, <2>2, <2>4, <3>1 DEF z, name, id
  <2>5. CASE ~(Len(idx[i].ids) >= ListCap)
    <3> DEFINE e == [idx[i] EXCEPT !.ids = Append(idx[i].ids, id)]
    <3>1. z = [idx EXCEPT ![i] = e]
      BY <2>2, <2>5
    <3>2. e.name = name /\ e.ids = Append(idx[i].ids, id)
      BY <1>5, <2>3
    <3> HIDE DEF e
    <3>3. DOMAIN z = DOMAIN idx /\ z[i] = e /\ \A j \in DOMAIN idx : j # i => z[j] = idx[j]
      BY <2>3, <3>1
    <3>4. \A j \in DOMAIN idx : z[j].name = idx[j].name
      BY <2>3, <3>2, <3>3
    <3>5. Len(z) = Len(idx)
      BY <1>5, <3>1
    <3>6. Roomy(z) => Roomy(idx)
      <4> SUFFICES ASSUME Roomy(z) PROVE Roomy(idx)
        OBVIOUS
      <4>1. Len(e.ids) = Len(idx[i].ids) + 1
        BY <1>1, <1>5, <2>3, <3>2 DEF id
      <4>2. Len(e.ids) < ListCap
        BY <2>3, <3>3 DEF Roomy
      <4>3. Len(idx[i].ids) < ListCap
        BY <1>5, <2>3, <4>1, <4>2, GraphAssumption
      <4> QED BY <2>3, <3>3, <3>5, <4>3 DEF Roomy
    <3>7. /\ Sorted(e.ids) /\ ToSet(e.ids) = ToSet(idx[i].ids) \cup {id}
      <4>1. \A x \in ToSet(idx[i].ids) : x <= id
        BY <1>3, <1>4, <2>3
      <4>2. idx[i].ids \in Seq(Nat) /\ Sorted(idx[i].ids) /\ id \in Nat
        BY <1>1, <1>4, <1>5, <2>3 DEF id
      <4> DEFINE l == idx[i].ids
      <4> HIDE DEF l
      <4>3. Sorted(Append(l, id)) /\ ToSet(Append(l, id)) = ToSet(l) \cup {id}
        BY <4>1, <4>2, AppendSorted DEF l
      <4> QED BY <3>2, <4>3 DEF l
    <3>8. OnceNamed(z)
      BY <1>4, <3>3, <3>4 DEF OnceNamed
    <3>9. ASSUME NEW j \in DOMAIN z
          PROVE  /\ Sorted(z[j].ids)
                 /\ ToSet(z[j].ids) \subseteq Having(pairs, k, z[j].name)
                 /\ Roomy(z) => ToSet(z[j].ids) = Having(pairs, k, z[j].name)
      <4>1. CASE j = i
        <5>1. Having(pairs, k, z[j].name) = Having(pairs, k - 1, name) \cup {id}
          BY <1>2, <2>3, <3>2, <3>3, <4>1
        <5> QED BY <1>4, <2>3, <3>3, <3>6, <3>7, <4>1, <5>1
      <4>2. CASE j # i
        <5>1. idx[j].name # name /\ z[j] = idx[j]
          BY <1>4, <2>3, <3>3, <4>2 DEF OnceNamed
        <5>2. Having(pairs, k, z[j].name) = Having(pairs, k - 1, idx[j].name)
          BY <1>2, <5>1
        <5> QED BY <1>4, <3>3, <3>6, <5>1, <5>2
      <4> QED BY <4>1, <4>2
    <3>10. Roomy(z) => \A j \in 1 .. k : \E m \in DOMAIN z : z[m].name = pairs[j][1]
      <4> SUFFICES ASSUME Roomy(z), NEW j \in 1 .. k PROVE \E m \in DOMAIN z : z[m].name = pairs[j][1]
        OBVIOUS
      <4>1. CASE j = k
        BY <2>3, <3>3, <3>4, <4>1 DEF name
      <4>2. CASE j # k
        <5>1. j \in 1 .. k - 1
          BY <1>6, <4>2
        <5>2. PICK m \in DOMAIN idx : idx[m].name = pairs[j][1]
          BY <1>4, <3>6, <5>1
        <5> QED BY <3>3, <3>4, <5>2
      <4> QED BY <4>1, <4>2
    <3>11. IndexOK(z, pairs, k)
      BY <3>8, <3>9, <3>10 DEF IndexOK
    <3> QED BY <3>11 DEF z, name, id
  <2> QED BY <2>4, <2>5 DEF z, name, id
<1>9. CASE at = {}
  <2> DEFINE e == [name |-> name, ids |-> <<id>>]
  <2>1. z = IF Len(idx) >= IndexCap THEN idx ELSE Append(idx, e)
    BY <1>9 DEF Filed
  <2>2. \A i \in DOMAIN idx : idx[i].name # name
    BY <1>9
  <2>3. e.name = name /\ e.ids = <<id>> /\ e \in [name : N, ids : Seq(Nat)]
    BY <1>1 DEF name, id
  <2> HIDE DEF at, z, e
  <2>4. CASE Len(idx) >= IndexCap
    <3>1. ~Roomy(idx)
      BY <1>5, <2>4, GraphAssumption DEF Roomy
    <3> QED BY <1>7, <2>1, <2>4, <3>1 DEF z, name, id
  <2>5. CASE ~(Len(idx) >= IndexCap)
    <3> DEFINE m == Len(idx) + 1
    <3>1. z = Append(idx, e)
      BY <2>1, <2>5
    <3>2. /\ DOMAIN z = 1 .. m /\ Len(z) = m /\ z[m] = e
          /\ \A i \in DOMAIN idx : z[i] = idx[i]
      BY <1>5, <2>3, <3>1 DEF Indexes
    <3>3. DOMAIN z = DOMAIN idx \cup {m} /\ m \notin DOMAIN idx
      BY <1>5, <3>2
    <3>4. Roomy(z) => Roomy(idx)
      <4> SUFFICES ASSUME Roomy(z) PROVE Roomy(idx)
        OBVIOUS
      <4>1. Len(idx) < IndexCap
        BY <1>5, <3>2, GraphAssumption DEF Roomy
      <4> QED BY <3>2, <3>3, <4>1 DEF Roomy
    <3> HIDE DEF m
    <3>5. OnceNamed(z)
      BY <1>4, <2>2, <2>3, <3>2, <3>3 DEF OnceNamed
    <3>6. Sorted(e.ids) /\ ToSet(e.ids) = {id}
      BY <2>3 DEF Sorted, ToSet
    <3>7. Roomy(idx) => Having(pairs, k - 1, name) = {}
      BY <1>4, <2>2, SMTT(60) DEF Having
    <3>8. ASSUME NEW j \in DOMAIN z
          PROVE  /\ Sorted(z[j].ids)
                 /\ ToSet(z[j].ids) \subseteq Having(pairs, k, z[j].name)
                 /\ Roomy(z) => ToSet(z[j].ids) = Having(pairs, k, z[j].name)
      <4>1. CASE j = m
        <5>1. Having(pairs, k, z[j].name) = Having(pairs, k - 1, name) \cup {id}
          BY <1>2, <2>3, <3>2, <4>1
        <5> QED BY <3>2, <3>4, <3>6, <3>7, <4>1, <5>1
      <4>2. CASE j # m
        <5>1. j \in DOMAIN idx /\ z[j] = idx[j] /\ idx[j].name # name
          BY <2>2, <3>2, <3>3, <4>2
        <5>2. Having(pairs, k, z[j].name) = Having(pairs, k - 1, idx[j].name)
          BY <1>2, <5>1
        <5> QED BY <1>4, <3>4, <5>1, <5>2
      <4> QED BY <4>1, <4>2
    <3>9. Roomy(z) => \A j \in 1 .. k : \E i \in DOMAIN z : z[i].name = pairs[j][1]
      <4> SUFFICES ASSUME Roomy(z), NEW j \in 1 .. k PROVE \E i \in DOMAIN z : z[i].name = pairs[j][1]
        OBVIOUS
      <4>1. CASE j = k
        BY <2>3, <3>2, <3>3, <4>1 DEF name
      <4>2. CASE j # k
        <5>1. j \in 1 .. k - 1
          BY <1>6, <4>2
        <5>2. PICK i \in DOMAIN idx : idx[i].name = pairs[j][1]
          BY <1>4, <3>4, <5>1
        <5> QED BY <3>2, <3>3, <5>2
      <4> QED BY <4>1, <4>2
    <3> QED BY <3>5, <3>8, <3>9 DEF IndexOK, z, name, id
  <2> QED BY <2>4, <2>5
<1> QED BY <1>8, <1>9

(* An index finds the ids of the pairs that were filed.                  *)
LEMMA FiledFinds ==
    ASSUME NEW N, NEW pairs \in Seq(N \X Nat),
           \A i, j \in 1 .. Len(pairs) : i <= j => pairs[i][2] <= pairs[j][2],
           NEW name
    PROVE  LET ids == Lookup(FiledAll(pairs), name)
           IN  Roomy(FiledAll(pairs)) =>
                  Sorted(ids) /\ ToSet(ids) = Having(pairs, Len(pairs), name)
<1>1. PICK w : /\ w[0] = <<>> /\ FiledAll(pairs) = w[Len(pairs)]
               /\ \A k \in 1 .. Len(pairs) : w[k] = Filed(w[k - 1], pairs[k][1], pairs[k][2])
               /\ \A k \in 0 .. Len(pairs) : w[k] \in Indexes(N)
  BY FiledSteps
<1> DEFINE n == Len(pairs)
           P == { k \in 0 .. n : IndexOK(w[k], pairs, k) }
<1>2. n \in Nat
  OBVIOUS
<1>3. 0 \in P
  <2>1. 1 .. 0 = {} /\ DOMAIN w[0] = {}
    BY <1>1
  <2>2. IndexOK(w[0], pairs, 0)
    BY <2>1 DEF IndexOK, OnceNamed
  <2> QED BY <2>2
<1>4. ASSUME NEW k \in 1 .. n, k - 1 \in P PROVE k \in P
  <2>1. k \in 0 .. n /\ k - 1 \in 0 .. n /\ IndexOK(w[k - 1], pairs, k - 1)
    BY <1>2, <1>4
  <2>2. w[k - 1] \in Indexes(N) /\ w[k] = Filed(w[k - 1], pairs[k][1], pairs[k][2])
    BY <1>1, <2>1
  <2>3. IndexOK(w[k], pairs, k)
    BY <2>1, <2>2, FiledStep
  <2> QED BY <2>1, <2>3
<1>5. IndexOK(FiledAll(pairs), pairs, n)
  <2>1. n \in 0 .. n
    BY <1>2
  <2>2. n \in P
    <3> HIDE DEF P
    <3> QED BY <1>2, <1>3, <1>4, <2>1, InductionUpTo
  <2> QED BY <1>1, <2>2
<1> DEFINE idx == FiledAll(pairs)
<1> HIDE DEF idx
<1> SUFFICES ASSUME Roomy(idx)
             PROVE  Sorted(Lookup(idx, name)) /\ ToSet(Lookup(idx, name)) = Having(pairs, n, name)
  BY DEF idx
<1> DEFINE at == {i \in DOMAIN idx : idx[i].name = name}
<1>6. CASE at # {}
  <2> DEFINE i == CHOOSE j \in at : TRUE
  <2>1. i \in at /\ Lookup(idx, name) = idx[i].ids
    BY <1>6 DEF Lookup
  <2> HIDE DEF i
  <2> QED BY <1>5, <2>1 DEF IndexOK, idx
<1>7. CASE at = {}
  <2>1. Lookup(idx, name) = <<>>
    BY <1>7 DEF Lookup
  <2>2. Having(pairs, n, name) = {}
    BY <1>5, <1>7 DEF IndexOK, Having, idx
  <2>3. Sorted(<<>>) /\ ToSet(<<>>) = {}
    BY DEF Sorted, ToSet
  <2> QED BY <2>1, <2>2, <2>3
<1> QED BY <1>6, <1>7

(* The numbers picked from 1 .. n are found in their order.              *)
LEMMA FlattenThose ==
    ASSUME NEW n \in Nat, NEW T \in SUBSET (1 .. n)
    PROVE  ToSet(FlattenSeq([e \in 1 .. n |-> IF e \in T THEN <<e>> ELSE <<>>])) = T
<1> DEFINE lists == [e \in 1 .. n |-> IF e \in T THEN <<e>> ELSE <<>>]
           all == FlattenSeq(lists)
<1>1. ASSUME NEW e \in 1 .. n
      PROVE  lists[e] \in Seq(1 .. n) /\ ToSet(lists[e]) = IF e \in T THEN {e} ELSE {}
  <2>1. <<e>> \in Seq(1 .. n) /\ <<>> \in Seq(1 .. n)
    OBVIOUS
  <2>2. ToSet(<<e>>) = {e} /\ ToSet(<<>>) = {}
    BY DEF ToSet
  <2>3. lists[e] = IF e \in T THEN <<e>> ELSE <<>>
    OBVIOUS
  <2> HIDE DEF lists
  <2> QED BY <2>1, <2>2, <2>3
<1>2. lists \in [1 .. n -> Seq(1 .. n)]
  BY <1>1
<1> HIDE DEF lists
<1>3. Placed(1 .. n, lists, n, all)
  BY <1>2, FlattenPlaced
<1> HIDE DEF all
<1>4. ASSUME NEW x \in ToSet(all) PROVE x \in T
  <2>1. PICK i \in 1 .. Len(all) : x = all[i]
    BY <1>3 DEF ToSet, Placed
  <2>2. PICK v \in 1 .. n : all[i] \in ToSet(lists[v])
    BY <1>3 DEF Placed
  <2> QED BY <1>1, <2>1, <2>2
<1>5. ASSUME NEW x \in T PROVE x \in ToSet(all)
  <2>1. x \in ToSet(lists[x]) /\ x \in 1 .. n
    BY <1>1
  <2> QED BY <1>3, <2>1 DEF Placed
<1> QED BY <1>4, <1>5 DEF all, lists

(* A list of names filed under each of n nodes, and the nodes that have a*)
(* name.                                                                 *)
NamePairs(names, n) == FlattenSeq([v \in 1 .. n |-> Names(names[v], v)])
Naming(names, n, name) == { v \in 1 .. n : name \in ToSet(names[v]) }

(* Names filed for each number in turn.                                  *)
LEMMA FlattenNames ==
    ASSUME NEW N, NEW n \in Nat, NEW names \in [1 .. n -> Seq(N)]
    PROVE  LET pairs == NamePairs(names, n)
           IN  /\ pairs \in Seq(N \X Nat)
               /\ \A i, j \in 1 .. Len(pairs) : i <= j => pairs[i][2] <= pairs[j][2]
               /\ \A m : Having(pairs, Len(pairs), m) = Naming(names, n, m)
<1> DEFINE lists == [v \in 1 .. n |-> Names(names[v], v)]
           pairs == FlattenSeq(lists)
           Pairs == N \X Nat
<1>1. ASSUME NEW v \in 1 .. n
      PROVE  /\ lists[v] \in Seq(Pairs)
             /\ \A x \in ToSet(lists[v]) : x[2] = v /\ x[1] \in ToSet(names[v])
             /\ \A m \in ToSet(names[v]) : <<m, v>> \in ToSet(lists[v])
  <2> DEFINE l == names[v]
  <2>1. l \in Seq(N) /\ Len(l) \in Nat /\ DOMAIN l = 1 .. Len(l) /\ \A i \in 1 .. Len(l) : l[i] \in N
    OBVIOUS
  <2>2. lists[v] = Names(l, v)
    OBVIOUS
  <2> HIDE DEF l, lists
  <2>3. lists[v] = [i \in 1 .. Len(l) |-> <<l[i], v>>]
    BY <2>1, <2>2 DEF Names
  <2>4. \A i \in 1 .. Len(l) : <<l[i], v>> \in Pairs
    BY <2>1
  <2>5. lists[v] \in Seq(Pairs)
    <3> HIDE DEF Pairs
    <3> QED BY <2>1, <2>3, <2>4
  <2>6. DOMAIN (lists[v]) = 1 .. Len(l) /\ \A i \in 1 .. Len(l) : lists[v][i] = <<l[i], v>>
    BY <2>3
  <2>7. ASSUME NEW x \in ToSet(lists[v]) PROVE x[2] = v /\ x[1] \in ToSet(l)
    BY <2>1, <2>6 DEF ToSet
  <2>8. ASSUME NEW m \in ToSet(l) PROVE <<m, v>> \in ToSet(lists[v])
    <3>1. PICK i \in 1 .. Len(l) : m = l[i]
      BY <2>1 DEF ToSet
    <3> QED BY <2>6, <3>1 DEF ToSet
  <2> QED BY <2>5, <2>7, <2>8 DEF l
<1>2. lists \in [1 .. n -> Seq(Pairs)]
  <2>1. lists = [v \in 1 .. n |-> lists[v]]
    OBVIOUS
  <2> HIDE DEF lists, Pairs
  <2> QED BY <1>1, <2>1
<1> HIDE DEF lists
<1>3. Placed(Pairs, lists, n, pairs)
  <2> HIDE DEF Pairs
  <2> QED BY <1>2, FlattenPlaced
<1> HIDE DEF pairs
<1>4. PICK at \in [1 .. Len(pairs) -> 1 .. n] :
         /\ \A i \in 1 .. Len(pairs) : pairs[i] \in ToSet(lists[at[i]])
         /\ \A i, j \in 1 .. Len(pairs) : i <= j => at[i] <= at[j]
  BY <1>3 DEF Placed
<1>5. pairs \in Seq(Pairs) /\ \A v \in 1 .. n : ToSet(lists[v]) \subseteq ToSet(pairs)
  BY <1>3 DEF Placed
<1>6. \A i \in 1 .. Len(pairs) : pairs[i][2] = at[i] /\ pairs[i][1] \in ToSet(names[at[i]])
  BY <1>1, <1>4
<1>7. \A i, j \in 1 .. Len(pairs) : i <= j => pairs[i][2] <= pairs[j][2]
  BY <1>4, <1>6
<1>8. ASSUME NEW m PROVE Having(pairs, Len(pairs), m) = { v \in 1 .. n : m \in ToSet(names[v]) }
  <2>1. ASSUME NEW x \in Having(pairs, Len(pairs), m) PROVE x \in 1 .. n /\ m \in ToSet(names[x])
    <3>1. PICK i \in 1 .. Len(pairs) : pairs[i][1] = m /\ x = pairs[i][2]
      BY DEF Having
    <3> QED BY <1>4, <1>6, <3>1
  <2>2. ASSUME NEW v \in 1 .. n, m \in ToSet(names[v]) PROVE v \in Having(pairs, Len(pairs), m)
    <3>1. <<m, v>> \in ToSet(pairs)
      BY <1>1, <1>5, <2>2
    <3>2. PICK i \in 1 .. Len(pairs) : pairs[i] = <<m, v>>
      <4> HIDE DEF Pairs
      <4>1. DOMAIN pairs = 1 .. Len(pairs)
        BY <1>5
      <4> QED BY <3>1, <4>1 DEF ToSet
    <3> QED BY <3>2, SMTT(60) DEF Having
  <2> QED BY <2>1, <2>2
<1>9. pairs = NamePairs(names, n) /\ \A m : Having(pairs, Len(pairs), m) = Naming(names, n, m)
  BY <1>8 DEF pairs, lists, NamePairs, Naming
<1> HIDE DEF Pairs
<1>10. pairs \in Seq(Pairs)
  BY <1>5
<1> QED BY <1>7, <1>9, <1>10 DEF Pairs

(* The records of nodes and edges, and what an adjacency list holds.     *)
NodeRecs == [labels : Seq(Labels), props : Seq(PropKeys \X PropVals)]
EdgeRecs == [from : Nat, to : Nat, type : EdgeTypes, directed : BOOLEAN]
Links    == [edge : Nat, to : Nat]

(* Edges join nodes, the adjacency lists have what the records of the    *)
(* edges say, and a node has a key once.                                 *)
ListsOK(g) ==
    \A v \in NodesOf(g) : \A x :
       x \in ToSet(g.adj[v]) <=>
          \E e \in EdgesOf(g), w \in NodesOf(g) : x = [edge |-> e, to |-> w] /\ Leads(g, e, v, w)
KeysOnce(props) == \A i, j \in DOMAIN props : props[i][1] = props[j][1] => i = j
GraphOK(g) ==
    /\ Len(g.adj) = Len(g.nodes)
    /\ \A e \in EdgesOf(g) : {g.edges[e].from, g.edges[e].to} \subseteq NodesOf(g)
    /\ ListsOK(g)
    /\ \A v \in NodesOf(g) : KeysOnce(g.nodes[v].props)

(* The records of graphs, and those among them that are in order.        *)
GraphRecs == [kind : {"graph"}, nodes : Seq(NodeRecs), edges : Seq(EdgeRecs),
              adj : Seq(Seq(Links)), room : Nat]
Graphs == { g \in GraphRecs : GraphOK(g) }

GraphInv == handle \in Graphs

(* The parts of a graph.                                                 *)
LEMMA GraphParts ==
    ASSUME NEW g \in Graphs
    PROVE  /\ g.nodes \in Seq(NodeRecs) /\ g.edges \in Seq(EdgeRecs) /\ g.adj \in Seq(Seq(Links))
           /\ g.kind = "graph" /\ g.room \in Nat
           /\ g \in GraphRecs /\ GraphOK(g)
           /\ NodesOf(g) = 1 .. Len(g.nodes) /\ Len(g.nodes) \in Nat
           /\ EdgesOf(g) = 1 .. Len(g.edges) /\ Len(g.edges) \in Nat
           /\ DOMAIN (g.adj) = 1 .. Len(g.nodes)
<1>1. /\ g.nodes \in Seq(NodeRecs) /\ g.edges \in Seq(EdgeRecs) /\ g.adj \in Seq(Seq(Links))
      /\ g.kind = "graph" /\ g.room \in Nat
      /\ g \in GraphRecs /\ GraphOK(g)
  BY DEF Graphs, GraphRecs
<1>2. Len(g.adj) = Len(g.nodes)
  BY <1>1 DEF GraphOK
<1> QED BY <1>1, <1>2 DEF NodesOf, EdgesOf

(* A record with such parts is a graph.                                  *)
LEMMA ItIsGraph ==
    ASSUME NEW g, NEW nodes \in Seq(NodeRecs), NEW edges \in Seq(EdgeRecs), NEW adj \in Seq(Seq(Links)),
           NEW room \in Nat, GraphOK(g),
           g = [kind |-> "graph", nodes |-> nodes, edges |-> edges, adj |-> adj, room |-> room]
    PROVE  g \in Graphs
BY DEF Graphs, GraphRecs

(* The empty graph is in order.                                          *)
LEMMA NewGraphOK == NewGraph \in Graphs
<1> DEFINE e == <<>>
           g == NewGraph
<1>1. e \in Seq(NodeRecs) /\ e \in Seq(EdgeRecs) /\ e \in Seq(Seq(Links)) /\ DOMAIN e = {} /\ 0 \in Nat
  OBVIOUS
<1>2. g = [kind |-> "graph", nodes |-> e, edges |-> e, adj |-> e, room |-> 0]
  BY DEF NewGraph
<1> HIDE DEF e, g
<1>3. g.nodes = e /\ g.edges = e /\ g.adj = e
  BY <1>2
<1>4. GraphOK(g)
  BY <1>1, <1>3 DEF GraphOK, ListsOK, NodesOf, EdgesOf
<1>5. g \in Graphs
  BY <1>1, <1>2, <1>4, ItIsGraph
<1> QED BY <1>5 DEF g

(* So is one whose caller has less to do.                                *)
LEMMA RoomOK ==
    ASSUME NEW g \in Graphs, NEW room \in Nat
    PROVE  [g EXCEPT !.room = room] \in Graphs
<1> DEFINE h == [g EXCEPT !.room = room]
<1>1. /\ g.nodes \in Seq(NodeRecs) /\ g.edges \in Seq(EdgeRecs) /\ g.adj \in Seq(Seq(Links))
      /\ g.kind = "graph" /\ GraphOK(g)
      /\ g \in GraphRecs
  BY GraphParts
<1>2. h = [kind |-> "graph", nodes |-> g.nodes, edges |-> g.edges, adj |-> g.adj, room |-> room]
  BY <1>1 DEF GraphRecs
<1> HIDE DEF h
<1>3. h.nodes = g.nodes /\ h.edges = g.edges /\ h.adj = g.adj
  BY <1>2
<1>4. GraphOK(h)
  BY <1>1, <1>3 DEF GraphOK, ListsOK, NodesOf, EdgesOf, Leads
<1> QED BY <1>1, <1>2, <1>4, ItIsGraph DEF h

(* graph_create_node keeps a graph in order.                             *)
LEMMA CreatedNodeOK ==
    ASSUME NEW g \in Graphs
    PROVE  CreatedNode(g) \in Graphs
<1> DEFINE rec == [labels |-> <<>>, props |-> <<>>]
           h == [g EXCEPT !.nodes = Append(@, rec), !.adj = Append(@, <<>>)]
           n == Len(g.nodes)
<1>1. /\ g.nodes \in Seq(NodeRecs) /\ g.edges \in Seq(EdgeRecs) /\ g.adj \in Seq(Seq(Links))
      /\ g.kind = "graph" /\ g.room \in Nat /\ GraphOK(g)
      /\ g \in GraphRecs
      /\ NodesOf(g) = 1 .. n /\ n \in Nat /\ Len(g.adj) = n
  BY GraphParts DEF GraphOK
<1>2. rec \in NodeRecs /\ rec.props = <<>> /\ <<>> \in Seq(Links)
  BY DEF NodeRecs
<1>3. h = [kind |-> "graph", nodes |-> Append(g.nodes, rec), edges |-> g.edges,
           adj |-> Append(g.adj, <<>>), room |-> g.room]
  <2> DEFINE a == Append(g.nodes, rec)
             b == Append(g.adj, <<>>)
  <2>1. h = [g EXCEPT !.nodes = a, !.adj = b]
    OBVIOUS
  <2> HIDE DEF a, b, h
  <2>2. h = [kind |-> "graph", nodes |-> a, edges |-> g.edges, adj |-> b, room |-> g.room]
    BY <1>1, <2>1 DEF GraphRecs
  <2> QED BY <2>2 DEF a, b
<1> HIDE DEF h, rec, n
<1> DEFINE empty == <<>>
<1>4. h.nodes = Append(g.nodes, rec) /\ h.edges = g.edges /\ h.adj = Append(g.adj, empty)
  BY <1>3
<1>5. ToSet(empty) = {} /\ DOMAIN empty = {} /\ empty \in Seq(Links) /\ rec.props = empty
  BY <1>2 DEF ToSet
<1> HIDE DEF empty
<1>6. /\ h.nodes \in Seq(NodeRecs) /\ h.adj \in Seq(Seq(Links))
      /\ Len(h.nodes) = n + 1 /\ Len(h.adj) = n + 1
      /\ \A v \in 1 .. n : h.nodes[v] = g.nodes[v] /\ h.adj[v] = g.adj[v]
      /\ h.nodes[n + 1] = rec /\ h.adj[n + 1] = empty
  BY <1>1, <1>2, <1>4, <1>5 DEF n
<1>7. NodesOf(h) = (1 .. n) \cup {n + 1} /\ EdgesOf(h) = EdgesOf(g)
  <2>1. NodesOf(h) = 1 .. n + 1
    BY <1>6 DEF NodesOf
  <2> QED BY <1>1, <1>4, <2>1 DEF EdgesOf
<1>8. \A e \in EdgesOf(g) : g.edges[e].from \in 1 .. n /\ g.edges[e].to \in 1 .. n
  BY <1>1 DEF GraphOK
<1>9. n + 1 \notin 1 .. n
  BY <1>1
<1>10. \A e \in EdgesOf(g), v, w \in NodesOf(h) : Leads(h, e, v, w) <=> v \in 1 .. n /\ w \in 1 .. n /\ Leads(g, e, v, w)
  BY <1>4, <1>8 DEF Leads
<1>11. ListsOK(h)
  <2> SUFFICES ASSUME NEW v \in NodesOf(h), NEW x
               PROVE  x \in ToSet(h.adj[v]) <=>
                         \E e \in EdgesOf(h), w \in NodesOf(h) :
                            x = [edge |-> e, to |-> w] /\ Leads(h, e, v, w)
    BY DEF ListsOK
  <2>1. CASE v = n + 1
    BY <1>5, <1>6, <1>7, <1>9, <1>10, <2>1
  <2>2. CASE v \in 1 .. n
    <3>1. x \in ToSet(g.adj[v]) <=>
             \E e \in EdgesOf(g), w \in 1 .. n : x = [edge |-> e, to |-> w] /\ Leads(g, e, v, w)
      BY <1>1, <2>2 DEF GraphOK, ListsOK
    <3> QED BY <1>6, <1>7, <1>10, <2>2, <3>1
  <2> QED BY <1>7, <2>1, <2>2
<1>12. \A v \in NodesOf(h) : KeysOnce(h.nodes[v].props)
  BY <1>1, <1>5, <1>6, <1>7, ZenonT(120) DEF GraphOK, KeysOnce
<1>13. GraphOK(h)
  BY <1>1, <1>4, <1>6, <1>7, <1>8, <1>11, <1>12 DEF GraphOK
<1>14. h \in Graphs
  BY <1>1, <1>3, <1>4, <1>6, <1>13, ItIsGraph
<1> QED BY <1>14 DEF CreatedNode, h, rec

(* A link added at a node is in the list of that node and in no other.   *)
LEMMA LinkedOK ==
    ASSUME NEW adj \in Seq(Seq(Links)), NEW v \in DOMAIN adj, NEW e \in Nat, NEW w \in Nat
    PROVE  /\ Linked(adj, v, e, w) \in Seq(Seq(Links))
           /\ Len(Linked(adj, v, e, w)) = Len(adj) /\ DOMAIN Linked(adj, v, e, w) = DOMAIN adj
           /\ \A u \in DOMAIN adj : ToSet(Linked(adj, v, e, w)[u]) =
                 ToSet(adj[u]) \cup (IF u = v THEN {[edge |-> e, to |-> w]} ELSE {})
<1> DEFINE x == [edge |-> e, to |-> w]
           old == adj[v]
           new == <<x>> \o old
<1>1. x \in Links
  BY DEF Links
<1>2. old \in Seq(Links) /\ v \in 1 .. Len(adj) /\ DOMAIN adj = 1 .. Len(adj)
  OBVIOUS
<1>3. Linked(adj, v, e, w) = [adj EXCEPT ![v] = new]
  BY DEF Linked
<1> HIDE DEF x
<1>4. /\ new \in Seq(Links) /\ Len(old) \in Nat /\ Len(new) = 1 + Len(old) /\ new[1] = x
      /\ \A i \in 1 .. Len(old) : new[i + 1] = old[i]
  <2> HIDE DEF old
  <2> QED BY <1>1, <1>2
<1> HIDE DEF new, old
<1>5. ToSet(new) = ToSet(old) \cup {x}
  <2>1. ASSUME NEW y \in ToSet(new) PROVE y \in ToSet(old) \cup {x}
    <3>1. PICK i \in 1 .. 1 + Len(old) : y = new[i]
      BY <1>4 DEF ToSet
    <3>2. i = 1 \/ (i - 1 \in 1 .. Len(old) /\ (i - 1) + 1 = i)
      BY <1>4
    <3>3. ASSUME i # 1 PROVE y \in ToSet(old)
      <4> DEFINE j == i - 1
      <4>1. j \in 1 .. Len(old) /\ j + 1 = i
        BY <3>2, <3>3
      <4> HIDE DEF j
      <4>2. y = old[j] /\ j \in DOMAIN old
        BY <1>2, <1>4, <3>1, <4>1 DEF old
      <4> QED BY <4>2 DEF ToSet
    <3> QED BY <1>4, <3>1, <3>3
  <2>2. x \in ToSet(new)
    BY <1>4, SMTT(60) DEF ToSet
  <2>3. ASSUME NEW y \in ToSet(old) PROVE y \in ToSet(new)
    <3>1. PICK i \in 1 .. Len(old) : y = old[i]
      BY <1>2 DEF ToSet, old
    <3> DEFINE j == i + 1
    <3>2. j \in 1 .. Len(new) /\ new[j] = y
      BY <1>4, <3>1
    <3>3. DOMAIN new = 1 .. Len(new)
      BY <1>4
    <3> HIDE DEF j
    <3> QED BY <3>2, <3>3 DEF ToSet
  <2> QED BY <2>1, <2>2, <2>3
<1>6. [adj EXCEPT ![v] = new] \in Seq(Seq(Links))
  BY <1>2, <1>4
<1> QED BY <1>2, <1>3, <1>5, <1>6 DEF old, x

(* graph_create_edge keeps a graph in order, loops and undirected edges  *)
(* among the rest.                                                       *)
LEMMA CreatedEdgeOK ==
    ASSUME NEW g \in Graphs, NEW from \in Nat, NEW to \in Nat, NEW type \in EdgeTypes,
           NEW directed \in BOOLEAN
    PROVE  CreatedEdge(g, from, to, type, directed) \in Graphs
<1>1. CASE Len(g.edges) >= EdgeCap \/ from \notin NodesOf(g) \/ to \notin NodesOf(g)
  BY <1>1 DEF CreatedEdge
<1>2. CASE ~(Len(g.edges) >= EdgeCap \/ from \notin NodesOf(g) \/ to \notin NodesOf(g))
  <2> DEFINE n == Len(g.edges)
             e == n + 1
             rec == [from |-> from, to |-> to, type |-> type, directed |-> directed]
             out == Linked(g.adj, from, e, to)
             adj == IF directed THEN out ELSE Linked(out, to, e, from)
             edges == Append(g.edges, rec)
             h == [g EXCEPT !.edges = edges, !.adj = adj]
  <2>1. CreatedEdge(g, from, to, type, directed) = h
    BY <1>2 DEF CreatedEdge
  <2>2. /\ g.nodes \in Seq(NodeRecs) /\ g.edges \in Seq(EdgeRecs) /\ g.adj \in Seq(Seq(Links))
        /\ g.kind = "graph" /\ g.room \in Nat /\ g \in GraphRecs /\ GraphOK(g)
        /\ NodesOf(g) = 1 .. Len(g.nodes) /\ EdgesOf(g) = 1 .. n /\ n \in Nat
        /\ DOMAIN (g.adj) = NodesOf(g) /\ Len(g.adj) = Len(g.nodes)
    BY GraphParts DEF GraphOK
  <2>3. e \in Nat /\ from \in NodesOf(g) /\ to \in NodesOf(g)
    BY <1>2, <2>2
  <2>4. rec \in EdgeRecs
    BY DEF EdgeRecs
  <2>5. /\ rec.from = from /\ rec.to = to /\ rec.directed = directed
    OBVIOUS
  <2> HIDE DEF rec
  <2>6. /\ edges \in Seq(EdgeRecs) /\ Len(edges) = n + 1 /\ edges[e] = rec
        /\ \A d \in 1 .. n : edges[d] = g.edges[d]
    BY <2>2, <2>4
  <2> HIDE DEF e
  <2>7. /\ out \in Seq(Seq(Links)) /\ Len(out) = Len(g.adj) /\ DOMAIN out = DOMAIN (g.adj)
        /\ \A u \in DOMAIN (g.adj) : ToSet(out[u]) =
              ToSet(g.adj[u]) \cup (IF u = from THEN {[edge |-> e, to |-> to]} ELSE {})
    <3> DEFINE old == g.adj
    <3>1. old \in Seq(Seq(Links)) /\ from \in DOMAIN old
      BY <2>2, <2>3
    <3> HIDE DEF old
    <3>2. /\ Linked(old, from, e, to) \in Seq(Seq(Links))
          /\ Len(Linked(old, from, e, to)) = Len(old)
          /\ DOMAIN Linked(old, from, e, to) = DOMAIN old
          /\ \A u \in DOMAIN old : ToSet(Linked(old, from, e, to)[u]) =
                ToSet(old[u]) \cup (IF u = from THEN {[edge |-> e, to |-> to]} ELSE {})
      BY <2>3, <3>1, LinkedOK
    <3> QED BY <3>2 DEF old
  <2> HIDE DEF out
  <2> DEFINE back == Linked(out, to, e, from)
  <2>8. /\ back \in Seq(Seq(Links)) /\ Len(back) = Len(out) /\ DOMAIN back = DOMAIN out
        /\ \A u \in DOMAIN out : ToSet(back[u]) =
              ToSet(out[u]) \cup (IF u = to THEN {[edge |-> e, to |-> from]} ELSE {})
    <3>1. to \in DOMAIN out
      BY <2>2, <2>3, <2>7
    <3> QED BY <2>3, <2>7, <3>1, LinkedOK
  <2>9. adj = IF directed THEN out ELSE back
    OBVIOUS
  <2> HIDE DEF back, adj
  <2>10. /\ adj \in Seq(Seq(Links)) /\ Len(adj) = Len(g.adj)
         /\ \A u \in NodesOf(g) : ToSet(adj[u]) =
              ToSet(g.adj[u])
              \cup (IF u = from THEN {[edge |-> e, to |-> to]} ELSE {})
              \cup (IF ~directed /\ u = to THEN {[edge |-> e, to |-> from]} ELSE {})
    <3>1. CASE directed
      BY <2>2, <2>7, <2>9, <3>1
    <3>2. CASE ~directed
      BY <2>2, <2>7, <2>8, <2>9, <3>2
    <3> QED BY <3>1, <3>2
  <2> HIDE DEF edges
  <2>11. h = [kind |-> "graph", nodes |-> g.nodes, edges |-> edges, adj |-> adj, room |-> g.room]
    <3>1. h = [g EXCEPT !.edges = edges, !.adj = adj]
      OBVIOUS
    <3> HIDE DEF h
    <3>2. g \in GraphRecs /\ g.kind = "graph"
      BY <2>2
    <3> QED BY <3>1, <3>2 DEF GraphRecs
  <2> HIDE DEF h
  <2>12. h.nodes = g.nodes /\ h.edges = edges /\ h.adj = adj
    BY <2>11
  <2>13. NodesOf(h) = NodesOf(g) /\ EdgesOf(h) = EdgesOf(g) \cup {e} /\ e \notin EdgesOf(g)
    <3>1. DOMAIN edges = 1 .. n + 1
      BY <2>6
    <3>2. 1 .. n + 1 = (1 .. n) \cup {n + 1} /\ n + 1 \notin 1 .. n
      BY <2>2
    <3> QED BY <2>2, <2>12, <3>1, <3>2 DEF NodesOf, EdgesOf, e
  <2>14. \A d \in EdgesOf(g), v, w \in NodesOf(g) : Leads(h, d, v, w) <=> Leads(g, d, v, w)
    BY <2>2, <2>6, <2>12 DEF Leads
  <2>15. \A v, w \in NodesOf(g) :
            Leads(h, e, v, w) <=> (from = v /\ to = w) \/ (~directed /\ from = w /\ to = v)
    BY <2>5, <2>6, <2>12 DEF Leads
  <2>16. ListsOK(h)
    <3> SUFFICES ASSUME NEW v \in NodesOf(h), NEW x
                 PROVE  x \in ToSet(h.adj[v]) <=>
                           \E d \in EdgesOf(h), w \in NodesOf(h) :
                              x = [edge |-> d, to |-> w] /\ Leads(h, d, v, w)
      BY DEF ListsOK
    <3>1. x \in ToSet(g.adj[v]) <=>
             \E d \in EdgesOf(g), w \in NodesOf(g) : x = [edge |-> d, to |-> w] /\ Leads(g, d, v, w)
      BY <2>2, <2>13 DEF GraphOK, ListsOK
    <3>2. x \in ToSet(h.adj[v]) <=>
             \/ x \in ToSet(g.adj[v])
             \/ v = from /\ x = [edge |-> e, to |-> to]
             \/ ~directed /\ v = to /\ x = [edge |-> e, to |-> from]
      BY <2>10, <2>12, <2>13
    <3>3. (\E w \in NodesOf(g) : x = [edge |-> e, to |-> w] /\ Leads(h, e, v, w)) <=>
             \/ v = from /\ x = [edge |-> e, to |-> to]
             \/ ~directed /\ v = to /\ x = [edge |-> e, to |-> from]
      BY <2>3, <2>13, <2>15
    <3> QED BY <2>13, <2>14, <3>1, <3>2, <3>3
  <2>17. \A d \in EdgesOf(h) : {h.edges[d].from, h.edges[d].to} \subseteq NodesOf(h)
    BY <2>2, <2>3, <2>5, <2>6, <2>12, <2>13 DEF GraphOK
  <2>18. GraphOK(h)
    BY <2>2, <2>10, <2>12, <2>13, <2>16, <2>17 DEF GraphOK
  <2>19. h \in Graphs
    BY <2>2, <2>6, <2>10, <2>11, <2>18, ItIsGraph
  <2> QED BY <2>1, <2>19
<1> QED BY <1>1, <1>2

(* A node gets other labels or properties.                               *)
LEMMA NodeChanged ==
    ASSUME NEW g \in Graphs, NEW v \in NodesOf(g), NEW rec \in NodeRecs, KeysOnce(rec.props)
    PROVE  [g EXCEPT !.nodes[v] = rec] \in Graphs
<1> DEFINE nodes == [g.nodes EXCEPT ![v] = rec]
           h == [g EXCEPT !.nodes = nodes]
<1>1. /\ g.nodes \in Seq(NodeRecs) /\ g.edges \in Seq(EdgeRecs) /\ g.adj \in Seq(Seq(Links))
      /\ g.kind = "graph" /\ g.room \in Nat /\ g \in GraphRecs /\ GraphOK(g)
  BY GraphParts
<1>2. nodes \in Seq(NodeRecs) /\ Len(nodes) = Len(g.nodes) /\ DOMAIN nodes = DOMAIN (g.nodes)
  BY <1>1 DEF NodesOf
<1>3. \A u \in NodesOf(g) : nodes[u] = IF u = v THEN rec ELSE g.nodes[u]
  BY DEF NodesOf
<1>4. [g EXCEPT !.nodes[v] = rec] = h
  OBVIOUS
<1> HIDE DEF nodes
<1>5. h = [kind |-> "graph", nodes |-> nodes, edges |-> g.edges, adj |-> g.adj, room |-> g.room]
  BY <1>1, SMTT(60) DEF GraphRecs
<1> HIDE DEF h
<1>6. h.nodes = nodes /\ h.edges = g.edges /\ h.adj = g.adj
  BY <1>5
<1>7. NodesOf(h) = NodesOf(g) /\ EdgesOf(h) = EdgesOf(g)
  BY <1>2, <1>6 DEF NodesOf, EdgesOf
<1>8. ListsOK(h)
  BY <1>1, <1>6, <1>7 DEF GraphOK, ListsOK, Leads
<1>9. \A u \in NodesOf(h) : KeysOnce(h.nodes[u].props)
  BY <1>1, <1>3, <1>6, <1>7 DEF GraphOK
<1>10. GraphOK(h)
  BY <1>1, <1>2, <1>6, <1>7, <1>8, <1>9 DEF GraphOK
<1> QED BY <1>1, <1>2, <1>4, <1>5, <1>10, ItIsGraph

(* The parts of a node.                                                  *)
LEMMA NodeParts ==
    ASSUME NEW g \in Graphs, NEW v \in NodesOf(g)
    PROVE  /\ g.nodes[v] = [labels |-> g.nodes[v].labels, props |-> g.nodes[v].props]
           /\ g.nodes[v].labels \in Seq(Labels) /\ g.nodes[v].props \in Seq(PropKeys \X PropVals)
           /\ KeysOnce(g.nodes[v].props)
<1>1. g.nodes \in Seq(NodeRecs) /\ GraphOK(g) /\ NodesOf(g) = 1 .. Len(g.nodes)
  BY GraphParts
<1>2. g.nodes[v] \in NodeRecs
  BY <1>1
<1> QED BY <1>1, <1>2 DEF NodeRecs, GraphOK

(* graph_node_add_label keeps a graph in order.                          *)
LEMMA LabelledOK ==
    ASSUME NEW g \in Graphs, NEW v \in NodesOf(g), NEW l \in Labels
    PROVE  Labelled(g, v, l) \in Graphs
<1> DEFINE rec == [g.nodes[v] EXCEPT !.labels = Append(@, l)]
<1>1. /\ g.nodes[v] = [labels |-> g.nodes[v].labels, props |-> g.nodes[v].props]
      /\ g.nodes[v].labels \in Seq(Labels) /\ g.nodes[v].props \in Seq(PropKeys \X PropVals)
      /\ KeysOnce(g.nodes[v].props)
  BY NodeParts
<1>2. rec \in NodeRecs /\ rec.props = g.nodes[v].props
  <2> DEFINE labels == Append(g.nodes[v].labels, l)
  <2>1. labels \in Seq(Labels)
    BY <1>1
  <2>2. rec = [g.nodes[v] EXCEPT !.labels = labels]
    OBVIOUS
  <2> HIDE DEF labels, rec
  <2> QED BY <1>1, <2>1, <2>2 DEF NodeRecs
<1>3. [g EXCEPT !.nodes[v].labels = Append(@, l)] = [g EXCEPT !.nodes[v] = rec]
  OBVIOUS
<1> HIDE DEF rec
<1>4. [g EXCEPT !.nodes[v] = rec] \in Graphs
  BY <1>1, <1>2, NodeChanged
<1> QED BY <1>3, <1>4 DEF Labelled

(* graph_node_set_property keeps a graph in order, and each key once.    *)
LEMMA WithPropOK ==
    ASSUME NEW g \in Graphs, NEW v \in NodesOf(g), NEW key \in PropKeys, NEW value \in PropVals
    PROVE  WithProp(g, v, key, value) \in Graphs
<1> DEFINE props == g.nodes[v].props
           at == {i \in DOMAIN props : props[i][1] = key}
           new == <<key, value>>
           i == CHOOSE j \in at : TRUE
           changed == [props EXCEPT ![i] = new]
           more == Append(props, new)
           With(s) == [g EXCEPT !.nodes[v] = [g.nodes[v] EXCEPT !.props = s]]
<1>1. /\ g.nodes[v] = [labels |-> g.nodes[v].labels, props |-> props]
      /\ g.nodes[v].labels \in Seq(Labels) /\ props \in Seq(PropKeys \X PropVals)
      /\ KeysOnce(props)
  BY NodeParts, SMTT(60)
<1>2. WithProp(g, v, key, value) =
        IF at # {} THEN With(changed) ELSE IF Len(props) >= PropCap THEN g ELSE With(more)
  <2>1. [g EXCEPT !.nodes[v].props[i] = new] = With(changed)
    OBVIOUS
  <2>2. [g EXCEPT !.nodes[v].props = Append(@, new)] = With(more)
    OBVIOUS
  <2> HIDE DEF With
  <2> QED BY <2>1, <2>2 DEF WithProp
<1> DEFINE Pairs == PropKeys \X PropVals
<1>3. new \in Pairs /\ new[1] = key
  OBVIOUS
<1>4. ASSUME NEW s \in Seq(Pairs), KeysOnce(s) PROVE With(s) \in Graphs
  <2> DEFINE rec == [g.nodes[v] EXCEPT !.props = s]
  <2>1. rec \in NodeRecs /\ rec.props = s
    <3> HIDE DEF props
    <3> QED BY <1>1 DEF NodeRecs
  <2> HIDE DEF rec
  <2>2. [g EXCEPT !.nodes[v] = rec] \in Graphs
    BY <1>4, <2>1, NodeChanged
  <2> QED BY <2>2 DEF rec
<1>5. /\ DOMAIN props = 1 .. Len(props) /\ Len(props) \in Nat /\ props \in Seq(Pairs)
  BY <1>1
<1> HIDE DEF With, props, Pairs, new
<1>6. CASE at # {}
  <2>1. i \in DOMAIN props /\ props[i][1] = key
    BY <1>6
  <2> HIDE DEF i
  <2>2. changed \in Seq(Pairs)
    BY <1>3, <1>5, <2>1
  <2>3. \A j \in DOMAIN props : changed[j][1] = props[j][1]
    BY <1>3, <2>1
  <2>4. DOMAIN changed = DOMAIN props
    OBVIOUS
  <2> HIDE DEF changed
  <2>5. KeysOnce(changed)
    BY <1>1, <2>3, <2>4 DEF KeysOnce
  <2> QED BY <1>2, <1>4, <1>6, <2>2, <2>5
<1>7. CASE at = {}
  <2>1. more \in Seq(Pairs)
    BY <1>3, <1>5
  <2>2. DOMAIN more = (1 .. Len(props)) \cup {Len(props) + 1} /\ more[Len(props) + 1] = new
        /\ \A j \in 1 .. Len(props) : more[j] = props[j]
    BY <1>3, <1>5
  <2>3. \A j \in 1 .. Len(props) : props[j][1] # key
    BY <1>5, <1>7
  <2> HIDE DEF more
  <2>4. KeysOnce(more)
    BY <1>1, <1>3, <1>5, <2>2, <2>3 DEF KeysOnce
  <2> QED BY <1>2, <1>4, <1>7, <2>1, <2>4
<1> QED BY <1>6, <1>7

(* What every step of a fold keeps holds at its end.                     *)
LEMMA FoldStays ==
    ASSUME NEW n \in Nat, NEW S, NEW h, h[{}] \in S,
           \A s \in SUBSET (1 .. n) : s # {} /\ h[s \ {Max(s)}] \in S => h[s] \in S
    PROVE  h[1 .. n] \in S
<1> DEFINE P == { k \in 0 .. n : h[1 .. k] \in S }
<1>1. 0 \in P
  <2>1. 1 .. 0 = {}
    OBVIOUS
  <2> QED BY <2>1
<1>2. ASSUME NEW k \in 1 .. n, k - 1 \in P PROVE k \in P
  <2>1. k \in 0 .. n /\ k \in Nat /\ 1 .. k \in SUBSET (1 .. n) /\ k \in 1 .. k
    OBVIOUS
  <2>2. Max(1 .. k) = k
    BY <2>1, MaxOfTop
  <2>3. (1 .. k) \ {k} = 1 .. k - 1
    BY <2>1
  <2>4. h[1 .. k - 1] \in S
    BY <1>2
  <2>5. h[1 .. k] \in S
    BY <2>1, <2>2, <2>3, <2>4
  <2> QED BY <2>1, <2>5
<1>3. n \in P
  <2>1. n \in 0 .. n
    OBVIOUS
  <2> HIDE DEF P
  <2> QED BY <1>1, <1>2, <2>1, InductionUpTo
<1> QED BY <1>3

(* The graphs of the caller are built by the same operations.            *)
NodesBuilt(n) == FoldLeft(LAMBDA g, v : CreatedNode(g), NewGraph, [v \in 1 .. n |-> v])
EdgesBuilt(base, edges) ==
    FoldLeft(LAMBDA g, e : CreatedEdge(g, e[1], e[2], e[3], e[4]), base, edges)

(* The graphs callers start from are in order: first their nodes,        *)
LEMMA NodesBuiltOK ==
    ASSUME NEW n \in Nat
    PROVE  NodesBuilt(n) \in Graphs
<1> DEFINE places == [v \in 1 .. n |-> v]
           S == Graphs
           f == [p \in (1 .. n) \X S |-> CreatedNode(p[2])]
           Step(g, s) == IF s = {} THEN NewGraph ELSE CreatedNode(g[s \ {Max(s)}])
           Solves(g, d) == g = [s \in SUBSET d |-> Step(g, s)]
           iter == CHOOSE g : Solves(g, DOMAIN places)
<1>1. NodesBuilt(n) = iter[DOMAIN places]
  BY DEF NodesBuilt, FoldLeft, MapThenFoldSet
<1>2. DOMAIN places = 1 .. n
  OBVIOUS
<1>3. \A k \in 1 .. n, x \in S : f[<<k, x>>] = CreatedNode(x)
  OBVIOUS
<1>4. StaysIn(n, S, f)
  <2> HIDE DEF f
  <2> QED BY <1>3, CreatedNodeOK DEF StaysIn
<1> HIDE DEF f, S, places
<1>5. PICK h : Folds(h, n, S, NewGraph, f)
  BY <1>4, NewGraphOK, FoldSolved DEF S
<1>6. \A s \in SUBSET (1 .. n) : h[s] = Step(h, s)
  <2> TAKE s \in SUBSET (1 .. n)
  <2>1. CASE s = {}
    BY <1>5, <2>1 DEF Folds
  <2>2. CASE s # {}
    <3>1. Max(s) \in 1 .. n
      <4>1. s \in SUBSET (0 .. n)
        OBVIOUS
      <4> QED BY <2>2, <4>1, MaxIsMember
    <3>2. h[s \ {Max(s)}] \in S /\ h[s] = f[<<Max(s), h[s \ {Max(s)}]>>]
      BY <1>5, <2>2 DEF Folds
    <3> QED BY <1>3, <2>2, <3>1, <3>2
  <2> QED BY <2>1, <2>2
<1>7. Solves(iter, 1 .. n)
  <2>1. h = [s \in SUBSET (1 .. n) |-> h[s]]
    BY <1>5 DEF Folds
  <2>2. Solves(h, 1 .. n)
    <3> HIDE DEF Step
    <3> QED BY <1>6, <2>1
  <2> HIDE DEF Solves
  <2> QED BY <1>2, <2>2
<1> HIDE DEF iter
<1>8. \A s \in SUBSET (1 .. n) : iter[s] = Step(iter, s)
  <2> HIDE DEF Step
  <2> QED BY <1>7
<1>9. iter[{}] \in S
  BY <1>8, NewGraphOK DEF S
<1>10. \A s \in SUBSET (1 .. n) : s # {} /\ iter[s \ {Max(s)}] \in S => iter[s] \in S
  BY <1>8, CreatedNodeOK DEF S
<1> HIDE DEF Solves, Step
<1>11. iter[1 .. n] \in S
  BY <1>9, <1>10, FoldStays
<1> QED BY <1>1, <1>2, <1>11 DEF S

SeedEdges == Nat \X Nat \X EdgeTypes \X BOOLEAN

(* then their edges.                                                     *)
LEMMA EdgesBuiltOK ==
    ASSUME NEW base \in Graphs, NEW edges \in Seq(SeedEdges)
    PROVE  EdgesBuilt(base, edges) \in Graphs
<1> DEFINE n == Len(edges)
           S == Graphs
           Made(g, e) == CreatedEdge(g, e[1], e[2], e[3], e[4])
           f == [p \in (1 .. n) \X S |-> Made(p[2], edges[p[1]])]
           Step(g, s) == IF s = {} THEN base ELSE Made(g[s \ {Max(s)}], edges[Max(s)])
           Solves(g, d) == g = [s \in SUBSET d |-> Step(g, s)]
           iter == CHOOSE g : Solves(g, DOMAIN edges)
<1>1. EdgesBuilt(base, edges) = iter[DOMAIN edges]
  BY DEF EdgesBuilt, FoldLeft, MapThenFoldSet
<1>2. DOMAIN edges = 1 .. n /\ n \in Nat
  OBVIOUS
<1>3. \A k \in 1 .. n, x \in S : f[<<k, x>>] = Made(x, edges[k])
  <2> HIDE DEF Made, S
  <2> QED OBVIOUS
<1>4. \A k \in 1 .. n, x \in S : Made(x, edges[k]) \in S
  <2> TAKE k \in 1 .. n, x \in S
  <2> DEFINE e == edges[k]
  <2>1. e \in SeedEdges
    OBVIOUS
  <2> HIDE DEF e
  <2>2. e[1] \in Nat /\ e[2] \in Nat /\ e[3] \in EdgeTypes /\ e[4] \in BOOLEAN
    BY <2>1 DEF SeedEdges
  <2>3. Made(x, e) \in S
    BY <2>2, CreatedEdgeOK
  <2> HIDE DEF Made
  <2> QED BY <2>3 DEF e
<1> HIDE DEF Made
<1>5. StaysIn(n, S, f)
  <2> HIDE DEF f, S, n
  <2> QED BY <1>3, <1>4 DEF StaysIn
<1> HIDE DEF f, S, n
<1>6. PICK h : Folds(h, n, S, base, f)
  BY <1>2, <1>5, FoldSolved DEF S
<1>7. \A s \in SUBSET (1 .. n) : s # {} => Max(s) \in 1 .. n
  <2> TAKE s \in SUBSET (1 .. n)
  <2>1. s \in SUBSET (0 .. n)
    BY <1>2
  <2> QED BY <1>2, <2>1, MaxIsMember
<1>8. \A s \in SUBSET (1 .. n) : h[s] = Step(h, s)
  <2> TAKE s \in SUBSET (1 .. n)
  <2>1. CASE s = {}
    BY <1>6, <2>1 DEF Folds
  <2>2. CASE s # {}
    <3>1. h[s \ {Max(s)}] \in S /\ h[s] = f[<<Max(s), h[s \ {Max(s)}]>>]
      BY <1>6, <2>2 DEF Folds
    <3> QED BY <1>3, <1>7, <2>2, <3>1
  <2> QED BY <2>1, <2>2
<1>9. Solves(iter, 1 .. n)
  <2>1. h = [s \in SUBSET (1 .. n) |-> h[s]]
    BY <1>6 DEF Folds
  <2>2. Solves(h, 1 .. n)
    <3> HIDE DEF Step
    <3> QED BY <1>8, <2>1
  <2> HIDE DEF Solves
  <2> QED BY <1>2, <2>2
<1> HIDE DEF iter
<1>10. \A s \in SUBSET (1 .. n) : iter[s] = Step(iter, s)
  <2> HIDE DEF Step
  <2> QED BY <1>9
<1>11. iter[{}] \in S
  BY <1>10 DEF S
<1>12. \A s \in SUBSET (1 .. n) : s # {} /\ iter[s \ {Max(s)}] \in S => iter[s] \in S
  BY <1>4, <1>7, <1>10
<1> HIDE DEF Solves, Step
<1>13. iter[1 .. n] \in S
  BY <1>2, <1>11, <1>12, FoldStays
<1> QED BY <1>1, <1>2, <1>13 DEF S

(* Each start is a graph in order.                                       *)
LEMMA GraphInitInv == GraphInit => GraphInv
<1> SUFFICES ASSUME GraphInit PROVE handle \in Graphs
  BY DEF GraphInv
<1>1. PICK seed \in Seeds : handle = Built(seed)
  BY DEF GraphInit
<1>2. seed.n \in Nat /\ seed.room \in Nat /\ seed.edges \in Seq(SeedEdges)
  BY GraphAssumption DEF SeedEdges
<1> DEFINE nodes == NodesBuilt(seed.n)
           graph == EdgesBuilt(nodes, seed.edges)
<1>3. handle = [graph EXCEPT !.room = seed.room]
  BY <1>1 DEF Built, NodesBuilt, EdgesBuilt
<1>4. nodes \in Graphs
  BY <1>2, NodesBuiltOK
<1> HIDE DEF nodes
<1>5. graph \in Graphs
  BY <1>2, <1>4, EdgesBuiltOK
<1> HIDE DEF graph
<1> QED BY <1>2, <1>3, <1>5, RoomOK

(* Each step leaves one.                                                 *)
LEMMA GraphNextInv == GraphInv /\ [GraphNext]_handle => GraphInv'
<1> SUFFICES ASSUME handle \in Graphs, [GraphNext]_handle PROVE handle' \in Graphs
  BY DEF GraphInv
<1>1. ASSUME NEW g \in Graphs, Change(g) PROVE handle' \in Graphs
  <2>1. handle.room - 1 \in Nat /\ handle' = [g EXCEPT !.room = handle.room - 1]
    BY <1>1, GraphParts DEF Change
  <2> QED BY <2>1, RoomOK
<1>2. NodesOf(handle) \subseteq Nat
  BY GraphParts
<1>3. CASE AddNode
  BY <1>1, <1>3, CreatedNodeOK DEF AddNode
<1>4. ASSUME NEW v \in NodesOf(handle), NEW w \in NodesOf(handle), NEW t \in EdgeTypes, NEW d \in BOOLEAN,
             AddEdge(v, w, t, d)
      PROVE  handle' \in Graphs
  <2>1. CreatedEdge(handle, v, w, t, d) \in Graphs
    BY <1>2, CreatedEdgeOK
  <2> QED BY <1>1, <1>4, <2>1 DEF AddEdge
<1>5. ASSUME NEW v \in NodesOf(handle), NEW l \in Labels, AddLabel(v, l) PROVE handle' \in Graphs
  BY <1>1, <1>5, LabelledOK DEF AddLabel
<1>6. ASSUME NEW v \in NodesOf(handle), NEW k \in PropKeys, NEW x \in PropVals, SetProperty(v, k, x)
      PROVE  handle' \in Graphs
  BY <1>1, <1>6, WithPropOK DEF SetProperty
<1>7. CASE UNCHANGED handle
  BY <1>7
<1> QED BY <1>3, <1>4, <1>5, <1>6, <1>7 DEF GraphNext

-----------------------------------------------------------------------------
(* The adjacency lists and graph_get_out_edges tell what the edges are.  *)
LEMMA ListsAgree ==
    ASSUME NEW g \in Graphs
    PROVE  /\ \A v, w \in NodesOf(g), e \in EdgesOf(g) :
                 Leads(g, e, v, w) <=> [edge |-> e, to |-> w] \in ToSet(g.adj[v])
           /\ \A v \in NodesOf(g) :
                 ToSet(OutEdges(g, v)) = {e \in EdgesOf(g) : \E w \in NodesOf(g) : Leads(g, e, v, w)}
<1>1. ListsOK(g)
  BY GraphParts DEF GraphOK
<1>2. ASSUME NEW v \in NodesOf(g), NEW w \in NodesOf(g), NEW e \in EdgesOf(g)
      PROVE  Leads(g, e, v, w) <=> [edge |-> e, to |-> w] \in ToSet(g.adj[v])
  <2>1. \A d, u : [edge |-> e, to |-> w] = [edge |-> d, to |-> u] => d = e /\ u = w
    <3> TAKE d, u
    <3> DEFINE x == [edge |-> e, to |-> w]
               y == [edge |-> d, to |-> u]
    <3>1. x.edge = e /\ x.to = w /\ y.edge = d /\ y.to = u
      OBVIOUS
    <3> HIDE DEF x, y
    <3>2. x = y => d = e /\ u = w
      BY <3>1
    <3> QED BY <3>2 DEF x, y
  <2>2. [edge |-> e, to |-> w] \in ToSet(g.adj[v]) <=>
           \E d \in EdgesOf(g), u \in NodesOf(g) :
              [edge |-> e, to |-> w] = [edge |-> d, to |-> u] /\ Leads(g, d, v, u)
    BY <1>1 DEF ListsOK
  <2> QED BY <2>1, <2>2
<1>3. ASSUME NEW v \in NodesOf(g)
      PROVE  ToSet(OutEdges(g, v)) = {e \in EdgesOf(g) : \E w \in NodesOf(g) : Leads(g, e, v, w)}
  <2>1. ToSet(OutEdges(g, v)) = { x.edge : x \in ToSet(g.adj[v]) }
    BY DEF OutEdges, ToSet
  <2>2. \A x : x \in ToSet(g.adj[v]) <=>
           \E e \in EdgesOf(g), w \in NodesOf(g) : x = [edge |-> e, to |-> w] /\ Leads(g, e, v, w)
    BY <1>1 DEF ListsOK
  <2>3. ASSUME NEW x \in ToSet(g.adj[v])
        PROVE  x.edge \in EdgesOf(g) /\ \E w \in NodesOf(g) : Leads(g, x.edge, v, w)
    BY <2>2
  <2>4. ASSUME NEW e \in EdgesOf(g), NEW w \in NodesOf(g), Leads(g, e, v, w)
        PROVE  \E x \in ToSet(g.adj[v]) : x.edge = e
    BY <1>2, <2>4
  <2> QED BY <2>1, <2>3, <2>4
<1> QED BY <1>2, <1>3

(* A node with each key once is filed under its value.                   *)
LEMMA FirstOfIs ==
    ASSUME NEW props \in Seq(PropKeys \X PropVals), KeysOnce(props), NEW k, NEW x
    PROVE  /\ FirstOf(props, k) \in Seq(PropVals)
           /\ x \in ToSet(FirstOf(props, k)) <=> <<k, x>> \in ToSet(props)
<1> DEFINE at == {i \in DOMAIN props : props[i][1] = k}
           m == Min(at)
<1>1. /\ DOMAIN props = 1 .. Len(props) /\ Len(props) \in Nat
      /\ \A i \in DOMAIN props : props[i] = <<props[i][1], props[i][2]>> /\ props[i][2] \in PropVals
  OBVIOUS
<1>2. <<k, x>> \in ToSet(props) <=> \E i \in at : props[i][2] = x
  BY <1>1 DEF ToSet
<1>3. CASE at = {}
  <2>1. FirstOf(props, k) = <<>>
    BY <1>3 DEF FirstOf
  <2> QED BY <1>2, <1>3, <2>1 DEF ToSet
<1>4. CASE at # {}
  <2>1. FirstOf(props, k) = <<props[m][2]>>
    BY <1>4 DEF FirstOf
  <2>2. m \in at
    <3>1. at \in SUBSET Nat
      BY <1>1
    <3> HIDE DEF at
    <3> QED BY <1>4, <3>1, MinIsMember
  <2> HIDE DEF m
  <2>3. \A i \in at : i = m
    BY <2>2 DEF KeysOnce
  <2>4. props[m][2] \in PropVals
    BY <1>1, <2>2
  <2> HIDE DEF at
  <2>5. ToSet(<<props[m][2]>>) = {props[m][2]} /\ <<props[m][2]>> \in Seq(PropVals)
    BY <2>4 DEF ToSet
  <2> QED BY <1>2, <2>1, <2>2, <2>3, <2>5
<1> QED BY <1>3, <1>4

(* What a search finds that the index still had room for.                *)
Found(idx, name, having) ==
    Roomy(idx) => Sorted(Lookup(idx, name)) /\ ToSet(Lookup(idx, name)) = having

(* What a list of names filed under node after node finds.               *)
LEMMA NamesFound ==
    ASSUME NEW N, NEW n \in Nat, NEW names \in [1 .. n -> Seq(N)], NEW name
    PROVE  Found(FiledAll(NamePairs(names, n)), name, Naming(names, n, name))
<1> DEFINE pairs == NamePairs(names, n)
<1>1. /\ pairs \in Seq(N \X Nat)
      /\ \A i, j \in 1 .. Len(pairs) : i <= j => pairs[i][2] <= pairs[j][2]
      /\ Having(pairs, Len(pairs), name) = Naming(names, n, name)
  BY FlattenNames
<1> HIDE DEF pairs
<1>2. LET ids == Lookup(FiledAll(pairs), name)
      IN  Roomy(FiledAll(pairs)) =>
             Sorted(ids) /\ ToSet(ids) = Having(pairs, Len(pairs), name)
  BY <1>1, FiledFinds
<1>3. Found(FiledAll(pairs), name, Naming(names, n, name))
  BY <1>1, <1>2 DEF Found
<1> QED BY <1>3 DEF pairs

(* What each of the three indexes finds if it had room.                  *)
LEMMA IndexesAgree ==
    ASSUME NEW g \in Graphs
    PROVE  /\ \A l \in Labels :
                 Found(NodeIndex(g), l, {v \in NodesOf(g) : l \in ToSet(g.nodes[v].labels)})
           /\ \A t \in EdgeTypes :
                 Found(EdgeIndex(g), t, {e \in EdgesOf(g) : g.edges[e].type = t})
           /\ \A k \in PropKeys, x \in PropVals :
                 Found(PropertyIndex(g, k), x, {v \in NodesOf(g) : <<k, x>> \in ToSet(g.nodes[v].props)})
<1> DEFINE n == Len(g.nodes)
<1>1. /\ NodesOf(g) = 1 .. n /\ n \in Nat /\ EdgesOf(g) = 1 .. Len(g.edges) /\ Len(g.edges) \in Nat
      /\ g.edges \in Seq(EdgeRecs)
  BY GraphParts
<1>2. \A v \in NodesOf(g) :
         /\ g.nodes[v].labels \in Seq(Labels) /\ g.nodes[v].props \in Seq(PropKeys \X PropVals)
         /\ KeysOnce(g.nodes[v].props)
  BY NodeParts
<1> HIDE DEF n
<1>3. ASSUME NEW l \in Labels
      PROVE  Found(NodeIndex(g), l, {v \in NodesOf(g) : l \in ToSet(g.nodes[v].labels)})
  <2> DEFINE names == [v \in 1 .. n |-> g.nodes[v].labels]
  <2>1. names \in [1 .. n -> Seq(Labels)] /\ \A v \in 1 .. n : names[v] = g.nodes[v].labels
    BY <1>1, <1>2
  <2> HIDE DEF names
  <2>2. NodeIndex(g) = FiledAll(NamePairs(names, n))
    <3>1. [v \in 1 .. n |-> Names(names[v], v)] = [v \in NodesOf(g) |-> Names(g.nodes[v].labels, v)]
      BY <1>1, <2>1
    <3> QED BY <3>1 DEF NodeIndex, NamePairs
  <2>3. Found(NodeIndex(g), l, Naming(names, n, l))
    BY <1>1, <2>1, <2>2, NamesFound
  <2>4. Naming(names, n, l) = {v \in NodesOf(g) : l \in ToSet(g.nodes[v].labels)}
    BY <1>1, <2>1 DEF Naming
  <2> QED BY <2>3, <2>4
<1>4. ASSUME NEW k \in PropKeys, NEW x \in PropVals
      PROVE  Found(PropertyIndex(g, k), x, {v \in NodesOf(g) : <<k, x>> \in ToSet(g.nodes[v].props)})
  <2> DEFINE names == [v \in 1 .. n |-> FirstOf(g.nodes[v].props, k)]
  <2>1. \A v \in 1 .. n : /\ names[v] = FirstOf(g.nodes[v].props, k) /\ names[v] \in Seq(PropVals)
                          /\ x \in ToSet(names[v]) <=> <<k, x>> \in ToSet(g.nodes[v].props)
    BY <1>1, <1>2, FirstOfIs
  <2>2. names \in [1 .. n -> Seq(PropVals)]
    BY <2>1
  <2> HIDE DEF names
  <2>3. PropertyIndex(g, k) = FiledAll(NamePairs(names, n))
    <3>1. [v \in 1 .. n |-> Names(names[v], v)]
             = [v \in NodesOf(g) |-> Names(FirstOf(g.nodes[v].props, k), v)]
      BY <1>1, <2>1
    <3> QED BY <3>1 DEF PropertyIndex, NamePairs
  <2>4. Found(PropertyIndex(g, k), x, Naming(names, n, x))
    BY <1>1, <2>2, <2>3, NamesFound
  <2>5. Naming(names, n, x) = {v \in NodesOf(g) : <<k, x>> \in ToSet(g.nodes[v].props)}
    BY <1>1, <2>1 DEF Naming
  <2> QED BY <2>4, <2>5
<1>5. ASSUME NEW t \in EdgeTypes
      PROVE  Found(EdgeIndex(g), t, {e \in EdgesOf(g) : g.edges[e].type = t})
  <2> DEFINE m == Len(g.edges)
             pairs == [e \in EdgesOf(g) |-> <<g.edges[e].type, e>>]
  <2>1. \A e \in 1 .. m : g.edges[e].type \in EdgeTypes
    <3>1. \A e \in 1 .. m : g.edges[e] \in EdgeRecs
      BY <1>1
    <3> QED BY <3>1 DEF EdgeRecs
  <2> HIDE DEF m
  <2>2. EdgesOf(g) = 1 .. m /\ m \in Nat
    BY <1>1 DEF m
  <2>3. /\ pairs = [e \in 1 .. m |-> <<g.edges[e].type, e>>]
        /\ \A e \in 1 .. m : <<g.edges[e].type, e>> \in EdgeTypes \X Nat
    BY <2>1, <2>2
  <2>4. EdgeIndex(g) = FiledAll(pairs)
    BY DEF EdgeIndex
  <2> HIDE DEF pairs
  <2>5. pairs \in Seq(EdgeTypes \X Nat) /\ Len(pairs) = m
    <3> DEFINE Pairs == EdgeTypes \X Nat
    <3>1. \A e \in 1 .. m : <<g.edges[e].type, e>> \in Pairs
      BY <2>3
    <3> HIDE DEF Pairs
    <3>2. pairs \in Seq(Pairs) /\ Len(pairs) = m
      BY <2>2, <2>3, <3>1
    <3> QED BY <3>2 DEF Pairs
  <2>6. \A e \in 1 .. m : pairs[e][1] = g.edges[e].type /\ pairs[e][2] = e
    BY <2>3
  <2>7. \A i, j \in 1 .. Len(pairs) : i <= j => pairs[i][2] <= pairs[j][2]
    BY <2>2, <2>5, <2>6
  <2>8. Having(pairs, Len(pairs), t) = {e \in EdgesOf(g) : g.edges[e].type = t}
    BY <2>2, <2>5, <2>6 DEF Having
  <2>9. LET ids == Lookup(FiledAll(pairs), t)
        IN  Roomy(FiledAll(pairs)) =>
               Sorted(ids) /\ ToSet(ids) = Having(pairs, Len(pairs), t)
    BY <2>5, <2>7, FiledFinds
  <2> QED BY <2>4, <2>8, <2>9 DEF Found
<1> QED BY <1>3, <1>4, <1>5

(* graph_get_in_edges and graph_get_edges_by_type pick the edges they are*)
(* asked for.                                                            *)
LEMMA PickedEdges ==
    ASSUME NEW g \in Graphs
    PROVE  /\ \A v : ToSet(InEdges(g, v)) = {e \in EdgesOf(g) : g.edges[e].to = v}
           /\ \A t : ToSet(EdgesByType(g, t)) = {e \in EdgesOf(g) : g.edges[e].type = t}
<1> DEFINE n == Len(g.edges)
<1>1. EdgesOf(g) = 1 .. n /\ n \in Nat
  BY GraphParts
<1> HIDE DEF n
<1>2. ASSUME NEW v PROVE ToSet(InEdges(g, v)) = {e \in EdgesOf(g) : g.edges[e].to = v}
  <2> DEFINE T == {e \in 1 .. n : g.edges[e].to = v}
  <2>1. InEdges(g, v) = FlattenSeq([e \in 1 .. n |-> IF e \in T THEN <<e>> ELSE <<>>])
    <3>1. [e \in 1 .. n |-> IF e \in T THEN <<e>> ELSE <<>>]
             = [e \in EdgesOf(g) |-> IF g.edges[e].to = v THEN <<e>> ELSE <<>>]
      BY <1>1
    <3> QED BY <3>1 DEF InEdges
  <2>2. T \in SUBSET (1 .. n) /\ T = {e \in EdgesOf(g) : g.edges[e].to = v}
    BY <1>1
  <2> HIDE DEF T
  <2> QED BY <1>1, <2>1, <2>2, FlattenThose
<1>3. ASSUME NEW t PROVE ToSet(EdgesByType(g, t)) = {e \in EdgesOf(g) : g.edges[e].type = t}
  <2> DEFINE T == {e \in 1 .. n : g.edges[e].type = t}
  <2>1. EdgesByType(g, t) = FlattenSeq([e \in 1 .. n |-> IF e \in T THEN <<e>> ELSE <<>>])
    <3>1. [e \in 1 .. n |-> IF e \in T THEN <<e>> ELSE <<>>]
             = [e \in EdgesOf(g) |-> IF g.edges[e].type = t THEN <<e>> ELSE <<>>]
      BY <1>1
    <3> QED BY <3>1 DEF EdgesByType
  <2>2. T \in SUBSET (1 .. n) /\ T = {e \in EdgesOf(g) : g.edges[e].type = t}
    BY <1>1
  <2> HIDE DEF T
  <2> QED BY <1>1, <2>1, <2>2, FlattenThose
<1> QED BY <1>2, <1>3

(* Whatever nodes, edges, labels and properties are added, in any order  *)
(* and up to any limits, the adjacency lists have what the records of the*)
(* edges say and each index finds what it was built from.                *)
THEOREM ListsAndIndexesAgreeHolds == GraphInit /\ [][GraphNext]_handle => []ListsAndIndexesAgree
<1>1. GraphInv => ListsAndIndexesAgree
  <2> SUFFICES ASSUME handle \in Graphs PROVE ListsAndIndexesAgree
    BY DEF GraphInv
  <2>1. /\ \A l \in Labels :
              Found(NodeIndex(handle), l, {v \in NodesOf(handle) : l \in ToSet(handle.nodes[v].labels)})
        /\ \A t \in EdgeTypes :
              /\ ToSet(EdgesByType(handle, t)) = {e \in EdgesOf(handle) : handle.edges[e].type = t}
              /\ Found(EdgeIndex(handle), t, ToSet(EdgesByType(handle, t)))
        /\ \A k \in PropKeys, x \in PropVals :
              Found(PropertyIndex(handle, k), x,
                    {v \in NodesOf(handle) : <<k, x>> \in ToSet(handle.nodes[v].props)})
    BY IndexesAgree, PickedEdges
  <2>2. /\ \A v, w \in NodesOf(handle), e \in EdgesOf(handle) :
              Leads(handle, e, v, w) <=> [edge |-> e, to |-> w] \in ToSet(handle.adj[v])
        /\ \A v \in NodesOf(handle) :
              ToSet(OutEdges(handle, v))
                 = {e \in EdgesOf(handle) : \E w \in NodesOf(handle) : Leads(handle, e, v, w)}
    BY ListsAgree
  <2>3. \A v \in NodesOf(handle) : ToSet(InEdges(handle, v)) = {e \in EdgesOf(handle) : handle.edges[e].to = v}
    BY PickedEdges
  <2> QED BY <2>1, <2>2, <2>3, Zenon DEF ListsAndIndexesAgree, Found, Roomy, Sorted
<1> QED BY <1>1, GraphInitInv, GraphNextInv, PTL

=============================================================================
