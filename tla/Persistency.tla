----------------------------- MODULE Persistency ----------------------------
(***************************************************************************)
(* What may be on the disk after a crash (PersistencyChecker.cpp).  disk   *)
(* lists the disk writes and disk fences of an execution, in the order in  *)
(* which they were added; the writes to a location are coherence-ordered   *)
(* by it.  An event is a record                                            *)
(*   kind  "data", "md", "dir", "jnl" (writes), "fsync", "sync", "pbarrier"*)
(*   loc   what is written: an inode, a field of it, and a position in it  *)
(*   map   the inode whose data the write belongs to, 0 for the journal    *)
(*   pre   the disk events that happen before it                           *)
(*   pb    its persists-before view: disk events that persist before it    *)
(***************************************************************************)
EXTENDS Integers, Sequences

CONSTANT BlockSize
ASSUME BlockSizeAssumption == BlockSize \in Nat \ {0}

\* The labels.  Only metadata wait for a range of data: [inode, from, to].
NoOrd == [inode |-> 0, from |-> 0, to |-> 0]
DskReadLabel(loc, rf) == [loc |-> loc, rf |-> rf]
DskWriteLabel(loc, val, map) == [kind |-> "data", loc |-> loc, val |-> val, map |-> map, ord |-> NoOrd]
DskMdWriteLabel(loc, val, map, ord) == [kind |-> "md", loc |-> loc, val |-> val, map |-> map, ord |-> ord]
DskDirWriteLabel(loc, val, map) == [DskWriteLabel(loc, val, map) EXCEPT !.kind = "dir"]
DskJnlWriteLabel(loc, val) == [DskWriteLabel(loc, val, 0) EXCEPT !.kind = "jnl"]
DskFsyncLabel(inode) == [kind |-> "fsync", inode |-> inode]
DskSyncLabel == [kind |-> "sync"]
DskPbarrierLabel == [kind |-> "pbarrier"]

DskWrites(disk) == {i \in DOMAIN disk : disk[i].kind \in {"data", "md", "dir", "jnl"}}
DskFences(disk) == DOMAIN disk \ DskWrites(disk)

\* Where a location is in its mapping; an entry of a directory is a pointer.
\* The journal has no mapping: the address of the flag counts, in inodes that
\* are allocated one after the other, with 16 bytes before 64 of data.
PtrSize   == 8
InodeSize == 80
Offset(loc) ==
  CASE loc.field = "name"  -> PtrSize * loc.pos
    [] loc.field = "trans" -> InodeSize * loc.inode + 8
    [] OTHER               -> loc.pos

isDskAccessInRange(disk, i, inode) == i \in DskFences(disk) \/ disk[i].loc.inode = inode

writeSameBlock(disk, i, j) ==
  /\ disk[i].map = disk[j].map /\ disk[i].kind = disk[j].kind
  /\ Offset(disk[i].loc) \div BlockSize = Offset(disk[j].loc) \div BlockSize

\* The views of some events, taken together.
Joined(disk, S) == S \cup UNION {disk[i].pb : i \in S}

\* Faulty variant: the data that metadata must wait for are not considered.
calcDskMemAccessPbViewUnordered(disk, pre, new) ==
  Joined(disk, {i \in pre : i \in DskFences(disk)})

\* The view of a new write whose prefix contains the disk events pre.  New
\* metadata wait for data in new.ord = [inode, from, to].
calcDskMemAccessPbView(disk, pre, new) ==
  Joined(disk,
    {i \in pre :
       \/ i \in DskFences(disk)
       \/ disk[i].kind = "jnl" /\ disk[i].loc.inode = new.map
       \/ /\ disk[i].kind = "data" /\ new.kind = "md"
          /\ disk[i].loc.inode = new.ord.inode
          /\ disk[i].loc.pos \in new.ord.from .. new.ord.to - 1
       \/ i \in DskWrites(disk) /\ new.kind = "jnl" /\ disk[i].map = new.loc.inode
       \/ disk[i].kind = "dir" /\ new.kind = "md"})

calcFsyncPbView(disk, pre, inode) == Joined(disk, {i \in pre : isDskAccessInRange(disk, i, inode)})

\* sync() and the persistency barrier order everything that happens before.
calcSyncPbView(disk, pre) == pre
calcPbarrierPbView(disk, pre) == pre

calcDskFencePbView(disk, pre, f) ==
  CASE f.kind = "fsync"    -> calcFsyncPbView(disk, pre, f.inode)
    [] f.kind = "sync"     -> calcSyncPbView(disk, pre)
    [] f.kind = "pbarrier" -> calcPbarrierPbView(disk, pre)

-----------------------------------------------------------------------------
CoBefore(disk, i, j) == i < j /\ disk[i].loc = disk[j].loc

\* The edges of pb: coherence, the views, and writes to the same block.
PbEdge(disk, i, j) ==
  \/ CoBefore(disk, i, j)
  \/ i \in disk[j].pb
  \/ i \in disk[j].pre /\ writeSameBlock(disk, i, j)

\* For each write, what persists before it.  Edges point forward in the
\* list, so that one pass from the front computes the transitive closure.
calcPb(disk) ==
  LET pass[n \in 0 .. Len(disk)] ==
        IF n = 0 THEN <<>>
        ELSE LET below  == pass[n - 1]
                 direct == {i \in DskWrites(disk) : i < n /\ PbEdge(disk, i, n)}
             IN Append(below, IF n \in DskFences(disk) THEN {}
                              ELSE direct \cup UNION {below[i] : i \in direct})
  IN pass[Len(disk)]

(* Recovery.  reads is the set of pairs [loc, rf] of the recovery routine;  *)
(* rf = 0 is a read of the initial contents.                                *)

\* Faulty variant: only the stores that were read themselves matter.
isRecFromReadValidDirectly(disk, pb, reads, r) ==
  \A s \in DskWrites(disk) : disk[s].loc = r.loc /\ r.rf < s => \A q \in reads : q.rf # s

\* Faulty variant: a read counts as missing the store that it reads.
isRecFromReadValidStrictly(disk, pb, reads, r) ==
  \A s \in DskWrites(disk) : disk[s].loc = r.loc /\ r.rf <= s =>
    \A q \in reads : q.rf # 0 => q.rf # s /\ s \notin pb[q.rf]

\* A read must not miss a store that is known to have persisted, because it
\* or something that persists after it was read.
isRecFromReadValid(disk, pb, reads, r) ==
  \A s \in DskWrites(disk) : disk[s].loc = r.loc /\ r.rf < s =>
    \A q \in reads : q.rf # 0 => q.rf # s /\ s \notin pb[q.rf]

isRecAcyclic(disk, pb, reads) == \A r \in reads : isRecFromReadValid(disk, pb, reads, r)
=============================================================================
