-------------------------- MODULE FileSystemProofs --------------------------
(***************************************************************************)
(* The locks of the file system, what files, directory and disk hold, and  *)
(* what recovery finds there after a crash, for all programs of all        *)
(* numbers of threads and all sizes of blocks and files.                   *)
(***************************************************************************)
EXTENDS FileSystem, InductionLemmas, TLAPS

-----------------------------------------------------------------------------
(* The disk as a store.                                                    *)

WriteKinds == {"data", "md", "dir", "jnl"}
\* All that was ever stored in a location.
Values(s, loc) == {s.disk[w].val : w \in StoresTo(s, loc)}

\* The last write to a location is one of the writes to it, or 0.
LEMMA LastWriteIsLast ==
  ASSUME NEW s, IsSeq(s.disk), NEW loc
  PROVE  LET w == LastWrite(s, loc)
         IN /\ w \in {0} \cup StoresTo(s, loc)
            /\ \A v \in StoresTo(s, loc) : v <= w
            /\ w \in 0 .. Len(s.disk)
<1> DEFINE n == Len(s.disk)
           S == {0} \cup StoresTo(s, loc)
<1>1. n \in Nat /\ DOMAIN s.disk = 1 .. n
  BY DEF IsSeq
<1>2. S \subseteq 0 .. n
  BY <1>1 DEF StoresTo, DskWrites
<1>3. S # {}
  OBVIOUS
<1> HIDE DEF S, n
<1>4. PICK w \in S : \A v \in S : w >= v
  BY <1>1, <1>2, <1>3, GreatestNat
<1>5. LastWrite(s, loc) = CHOOSE x \in S : \A y \in S : x >= y
  BY DEF LastWrite, Sets!Max, S, StoresTo
<1>6. LastWrite(s, loc) \in S /\ \A y \in S : LastWrite(s, loc) >= y
  BY <1>4, <1>5, Zenon
<1> QED BY <1>1, <1>2, <1>6 DEF S, n

\* There is only one such number.
LEMMA LastWriteIsOnly ==
  ASSUME NEW s, IsSeq(s.disk), NEW loc, NEW w \in {0} \cup StoresTo(s, loc),
         \A v \in StoresTo(s, loc) : v <= w
  PROVE  LastWrite(s, loc) = w
<1>1. StoresTo(s, loc) \subseteq Nat
  BY DEF StoresTo, DskWrites, IsSeq
<1>2. /\ LastWrite(s, loc) \in {0} \cup StoresTo(s, loc)
      /\ \A v \in StoresTo(s, loc) : v <= LastWrite(s, loc)
  BY LastWriteIsLast
<1> QED BY <1>1, <1>2

\* A write is the last one to its location and leaves the others alone.
LEMMA WriteStores ==
  ASSUME NEW s, IsSeq(s.disk), NEW e, NEW z, z.disk = Append(s.disk, e), e.kind \in WriteKinds
  PROVE  /\ LastWrite(z, e.loc) = Len(s.disk) + 1 /\ Stored(z, e.loc) = e.val
         /\ Values(z, e.loc) = Values(s, e.loc) \cup {e.val}
         /\ \A loc : loc # e.loc => /\ LastWrite(z, loc) = LastWrite(s, loc)
                                    /\ Stored(z, loc) = Stored(s, loc)
                                    /\ Values(z, loc) = Values(s, loc)
<1> DEFINE n == Len(s.disk)
<1>1. /\ IsSeq(z.disk) /\ Len(z.disk) = n + 1 /\ z.disk[n + 1] = e
      /\ DOMAIN z.disk = 1 .. n + 1 /\ DOMAIN s.disk = 1 .. n
      /\ \A i \in 1 .. n : z.disk[i] = s.disk[i]
  BY AppendFacts
<1>2. n \in Nat
  BY DEF IsSeq
<1>3. DskWrites(z.disk) = DskWrites(s.disk) \cup {n + 1}
  BY <1>1, <1>2 DEF DskWrites, WriteKinds
<1>4. DskWrites(s.disk) \subseteq 1 .. n
  BY <1>1 DEF DskWrites
<1> HIDE DEF n
<1>5. LastWrite(z, e.loc) = n + 1
  <2>1. n + 1 \in StoresTo(z, e.loc) /\ \A v \in StoresTo(z, e.loc) : v <= n + 1
    BY <1>1, <1>2, <1>3, <1>4 DEF StoresTo
  <2> QED BY <1>1, <2>1, LastWriteIsOnly
<1>6. Stored(z, e.loc) = e.val
  BY <1>1, <1>2, <1>5 DEF Stored, ValueOf
<1>8. Values(z, e.loc) = Values(s, e.loc) \cup {e.val}
  <2>1. StoresTo(z, e.loc) = StoresTo(s, e.loc) \cup {n + 1} /\ StoresTo(s, e.loc) \subseteq 1 .. n
    BY <1>1, <1>2, <1>3, <1>4 DEF StoresTo
  <2> QED BY <1>1, <1>2, <2>1 DEF Values
<1>7. ASSUME NEW loc, loc # e.loc
      PROVE  /\ LastWrite(z, loc) = LastWrite(s, loc) /\ Stored(z, loc) = Stored(s, loc)
             /\ Values(z, loc) = Values(s, loc)
  <2>1. StoresTo(z, loc) = StoresTo(s, loc) /\ StoresTo(s, loc) \subseteq 1 .. n
    BY <1>1, <1>2, <1>3, <1>4, <1>7 DEF StoresTo
  <2>2. LastWrite(z, loc) = LastWrite(s, loc)
    BY <1>1, <2>1, LastWriteIsLast, LastWriteIsOnly
  <2>3. LastWrite(s, loc) \in 0 .. n
    BY LastWriteIsLast DEF n
  <2>4. Values(z, loc) = Values(s, loc)
    BY <1>1, <2>1 DEF Values
  <2> QED BY <1>1, <1>2, <2>2, <2>3, <2>4 DEF Stored, ValueOf
<1> QED BY <1>5, <1>6, <1>7, <1>8 DEF n

\* A fence changes no contents.
LEMMA FenceStores ==
  ASSUME NEW s, IsSeq(s.disk), NEW e, NEW z, z.disk = Append(s.disk, e), e.kind \notin WriteKinds
  PROVE  \A loc : /\ LastWrite(z, loc) = LastWrite(s, loc) /\ Stored(z, loc) = Stored(s, loc)
                  /\ Values(z, loc) = Values(s, loc)
<1> DEFINE n == Len(s.disk)
<1>1. /\ IsSeq(z.disk) /\ Len(z.disk) = n + 1 /\ z.disk[n + 1] = e
      /\ DOMAIN z.disk = 1 .. n + 1 /\ DOMAIN s.disk = 1 .. n
      /\ \A i \in 1 .. n : z.disk[i] = s.disk[i]
  BY AppendFacts
<1>2. n \in Nat
  BY DEF IsSeq
<1>3. DskWrites(z.disk) = DskWrites(s.disk)
  BY <1>1, <1>2 DEF DskWrites, WriteKinds
<1>4. DskWrites(s.disk) \subseteq 1 .. n
  BY <1>1 DEF DskWrites
<1> HIDE DEF n
<1> TAKE loc
<1>5. StoresTo(z, loc) = StoresTo(s, loc) /\ StoresTo(s, loc) \subseteq 1 .. n
  BY <1>1, <1>2, <1>3, <1>4 DEF StoresTo
<1>6. LastWrite(z, loc) = LastWrite(s, loc)
  BY <1>1, <1>5, LastWriteIsLast, LastWriteIsOnly
<1>7. LastWrite(s, loc) \in 0 .. n
  BY LastWriteIsLast DEF n
<1>8. Values(z, loc) = Values(s, loc)
  BY <1>1, <1>5 DEF Values
<1> QED BY <1>1, <1>2, <1>6, <1>7, <1>8 DEF Stored, ValueOf
-----------------------------------------------------------------------------
(* The invariant.                                                          *)

SizeRec  == [size : Nat, at : Nat, sk : SUBSET Nat]
InodeRec == [isize : Nat, lock : Threads \cup {Nobody}, lk : SUBSET Nat, sk : SUBSET Nat,
             sizes : SUBSET SizeRec]
FileRec  == [inode : Nat, flags : SUBSET Flags, offset : Int, count : Int,
             lock : Threads \cup {Nobody}, lk : SUBSET Nat, made : SUBSET Nat, freed : BOOLEAN]

IsFs(s) ==
  /\ s = [files |-> s.files, inodes |-> s.inodes, disk |-> s.disk,
          known |-> s.known, error |-> s.error]
  /\ s.files \in Seq(FileRec) /\ s.inodes \in Seq(InodeRec) /\ Len(s.inodes) >= 1
  /\ IsSeq(s.disk) /\ \A i \in 1 .. Len(s.disk) : s.disk[i].pre \subseteq Nat
  /\ s.known \in [Threads -> SUBSET Nat] /\ s.error \in BOOLEAN

Data(s, i, p) == Stored(s, Loc(i, "data", p))
Named(s, n)   == Values(s, Loc(Dir, "name", n))

\* Descriptions and names lead to files that exist, and so did names before.
FileInodes(s) == \A f \in 1 .. Len(s.files) : s.files[f].inode \in 2 .. Len(s.inodes)
NamedInodes(s) == \A n \in Names : {Lookup(s, n)} \cup Named(s, n) \subseteq {NoInode} \cup 2 .. Len(s.inodes)

IsSpec(sp, n) ==
  /\ sp = [names |-> sp.names, data |-> sp.data, past |-> sp.past]
  /\ sp.names \in [Names -> Nat] /\ sp.data \in Seq(Seq(Int)) /\ Len(sp.data) = n

RenamePcs == {"link", "unlink", "endrename"}
WritePcs  == {"block", "bytes", "written"}

\* Which locks of inodes a thread holds.
HoldsInode(t, i) == \/ ctl[t].pc \in RenamePcs /\ i = Dir
                    \/ ctl[t].pc \in WritePcs /\ i = File(t).inode

InCall(t, ops)   == prog[t] # <<>> /\ Call(t).op \in ops
OnFile(t, ops)   == InCall(t, ops) /\ Call(t).fd \in 1 .. Len(fs.files)

Resting(t) == ctl[t] \in [pc : {"idle", "blocked"}, ret : Int]

\* The names during a rename.
NamesAt(t) ==
  LET c == Call(t)
      l == [spec.names EXCEPT ![c.to] = ctl[t].inode]
  IN CASE ctl[t].pc = "link"   -> spec.names
       [] ctl[t].pc = "unlink" -> l
       [] OTHER                -> [l EXCEPT ![c.from] = NoInode]

Renaming(t) ==
  /\ ctl[t] \in [pc : RenamePcs, inode : Nat, ret : Int] /\ InCall(t, {"rename"})
  /\ ctl[t].inode \in 2 .. Len(fs.inodes) /\ ctl[t].inode = spec.names[Call(t).from]
  /\ \A n \in Names : Lookup(fs, n) = NamesAt(t)[n]

Truncating(t) ==
  /\ ctl[t] \in [pc : {"truncate"}, inode : Nat, len : Int, ret : Int] /\ prog[t] # <<>>
  /\ ctl[t].inode \in 2 .. Len(fs.inodes)

Starting(t) == ctl[t] \in [pc : {"write"}, off : Int, ret : Int] /\ OnFile(t, {"write", "pwrite"})

\* The bytes of the call that is being done are in the file up to at.
DataAt(t, k) ==
  LET c == ctl[t]
      d == spec.data[File(t).inode]
  IN IF c.off < k /\ k <= c.at THEN Call(t).buf[k - c.off]
     ELSE IF k <= Len(d) THEN d[k] ELSE 0

Writing(t) ==
  LET c == ctl[t]
      i == File(t).inode
      d == spec.data[i]
  IN /\ c \in [pc : WritePcs, off : Int, at : Int, end : Int, ord : Int, upto : Int, ret : Int]
     /\ OnFile(t, {"write", "pwrite"})
     /\ c.off <= c.at /\ c.at <= c.upto /\ c.upto <= c.end /\ c.end - c.off <= Len(Call(t).buf)
     /\ c.pc = "block" => c.at = c.upto /\ c.at < c.end
     /\ c.pc = "written" => c.at = c.end /\ c.end <= fs.inodes[i].isize
     /\ "append" \in File(t).flags => c.off = Len(d)
     /\ Len(d) <= fs.inodes[i].isize
     /\ fs.inodes[i].isize = Len(d) \/ fs.inodes[i].isize <= c.at
     /\ \A k \in Nat \ {0} : k <= Len(d) \/ k <= c.at => Data(fs, i, k - 1) = DataAt(t, k)

\* The writes that the bytes were read from.
Reading(t) ==
  LET c == ctl[t]
  IN /\ c \in [pc : {"read"}, off : Nat, got : Seq(Nat), ret : Int, n : Nat]
     /\ OnFile(t, {"read", "pread"})
     /\ Len(c.got) <= c.n

ThreadOK(t) == Resting(t) \/ Renaming(t) \/ Truncating(t) \/ Starting(t) \/ Writing(t) \/ Reading(t)

\* An inode that nobody has locked is as its calls should leave it.
FileOK(i) ==
  /\ fs.inodes[i].isize = Len(spec.data[i])
  /\ \A k \in 1 .. Len(spec.data[i]) : Data(fs, i, k - 1) = spec.data[i][k]
DirOK == (\A n \in Names : Lookup(fs, n) = spec.names[n]) /\ getInodeTransStatus(fs, Dir) = 0


TypeInv ==
  /\ mode \in Modes /\ prog \in [Threads -> Seq(CallTypes)] /\ DOMAIN ctl = Threads
  /\ IsFs(fs) /\ FileInodes(fs) /\ NamedInodes(fs) /\ IsSpec(spec, Len(fs.inodes))

Owners == \A t \in Threads : \A i \in 1 .. Len(fs.inodes) : fs.inodes[i].lock = t <=> HoldsInode(t, i)

IInv ==
  /\ TypeInv /\ Owners
  /\ \A t \in Threads : ThreadOK(t)
  /\ \A i \in 2 .. Len(fs.inodes) : fs.inodes[i].lock = Nobody => FileOK(i)
  /\ fs.inodes[Dir].lock = Nobody => DirOK

-----------------------------------------------------------------------------
(* What the operations on the state do.                                    *)

\* Only the disk and what is known have changed.
DiskStep(s, z) == IsFs(z) /\ z.files = s.files /\ z.inodes = s.inodes /\ z.error = s.error

IsFence(lab) == "kind" \in DOMAIN lab /\ lab.kind \notin WriteKinds
IsLabel(lab) == /\ {"kind", "loc", "val"} \subseteq DOMAIN lab
                /\ lab.kind \in WriteKinds

\* An event carries its label and its views.
LEMMA DskEventViews ==
  ASSUME NEW lab, NEW pre, NEW pb
  PROVE  DskEvent(lab, pre, pb).pre = pre /\ DskEvent(lab, pre, pb).pb = pb
BY DEF DskEvent

LEMMA DskEventLabel ==
  ASSUME NEW lab, IsLabel(lab), NEW pre, NEW pb
  PROVE  LET e == DskEvent(lab, pre, pb)
         IN e.kind = lab.kind /\ e.loc = lab.loc /\ e.val = lab.val
BY DEF DskEvent, IsLabel

LEMMA DskEventFence ==
  ASSUME NEW lab, IsFence(lab), NEW pre, NEW pb
  PROVE  DskEvent(lab, pre, pb).kind = lab.kind
BY DEF DskEvent, IsFence

\* It is appended, and becomes known to the thread.
LEMMA LogFacts ==
  ASSUME NEW s, IsFs(s), NEW t \in Threads, NEW lab, NEW pb, NEW z, z = Log(s, t, lab, pb)
  PROVE  /\ DiskStep(s, z)
         /\ z.disk = Append(s.disk, DskEvent(lab, s.known[t], pb))
<1> DEFINE e == DskEvent(lab, s.known[t], pb)
<1>1. e.pre = s.known[t]
  BY DskEventViews
<1>2. z = [s EXCEPT !.disk = Append(@, e), !.known[t] = @ \cup {Len(s.disk) + 1}]
  BY DEF Log
<1> HIDE DEF e
<1>3. /\ z.files = s.files /\ z.inodes = s.inodes /\ z.error = s.error
      /\ z.disk = Append(s.disk, e)
      /\ z.known = [s.known EXCEPT ![t] = @ \cup {Len(s.disk) + 1}]
      /\ z = [files |-> z.files, inodes |-> z.inodes, disk |-> z.disk,
              known |-> z.known, error |-> z.error]
  BY <1>2 DEF IsFs
<1>4. /\ IsSeq(z.disk) /\ Len(z.disk) = Len(s.disk) + 1 /\ z.disk[Len(s.disk) + 1] = e
      /\ \A i \in 1 .. Len(s.disk) : z.disk[i] = s.disk[i]
  BY <1>3, AppendFacts DEF IsFs
<1>5. Len(s.disk) \in Nat /\ s.known \in [Threads -> SUBSET Nat]
  BY DEF IsFs, IsSeq
<1>6. z.known \in [Threads -> SUBSET Nat]
  BY <1>3, <1>5
<1>7. \A i \in 1 .. Len(z.disk) : z.disk[i].pre \subseteq Nat
  BY <1>1, <1>4, <1>5 DEF IsFs
<1>8. IsFs(z)
  BY <1>3, <1>4, <1>6, <1>7 DEF IsFs
<1> QED BY <1>3, <1>8 DEF DiskStep, e

\* A write to the disk is the last to its location.
LEMMA DskWriteFacts ==
  ASSUME NEW s, IsFs(s), NEW t \in Threads, NEW lab, IsLabel(lab), NEW z, z = DskWrite(s, t, lab)
  PROVE  /\ DiskStep(s, z)
         /\ LastWrite(z, lab.loc) = Len(s.disk) + 1 /\ Stored(z, lab.loc) = lab.val
         /\ Values(z, lab.loc) = Values(s, lab.loc) \cup {lab.val}
         /\ \A loc : loc # lab.loc => /\ LastWrite(z, loc) = LastWrite(s, loc)
                                      /\ Stored(z, loc) = Stored(s, loc)
                                      /\ Values(z, loc) = Values(s, loc)
<1>1. PICK pb : z = Log(s, t, lab, pb)
  BY DEF DskWrite
<1>2. PICK e : e = DskEvent(lab, s.known[t], pb)
  OBVIOUS
<1>3. e.kind = lab.kind /\ e.loc = lab.loc /\ e.val = lab.val
  BY <1>2, DskEventLabel
<1>4. DiskStep(s, z) /\ z.disk = Append(s.disk, e)
  BY <1>1, <1>2, LogFacts
<1>5. IsSeq(s.disk) /\ e.kind \in WriteKinds
  BY <1>3 DEF IsFs, IsLabel
<1>6. /\ LastWrite(z, e.loc) = Len(s.disk) + 1 /\ Stored(z, e.loc) = e.val
      /\ Values(z, e.loc) = Values(s, e.loc) \cup {e.val}
      /\ \A loc : loc # e.loc => /\ LastWrite(z, loc) = LastWrite(s, loc)
                                 /\ Stored(z, loc) = Stored(s, loc)
                                 /\ Values(z, loc) = Values(s, loc)
  <2>1. z.disk = Append(s.disk, e) /\ IsSeq(s.disk) /\ e.kind \in WriteKinds
    BY <1>4, <1>5
  <2> QED BY <2>1, WriteStores
<1>8. e.loc = lab.loc /\ e.val = lab.val
  BY <1>3
<1>9. \A loc : loc # lab.loc => /\ LastWrite(z, loc) = LastWrite(s, loc)
                                /\ Stored(z, loc) = Stored(s, loc)
                                /\ Values(z, loc) = Values(s, loc)
  BY <1>6, <1>8
<1>10. /\ LastWrite(z, lab.loc) = Len(s.disk) + 1 /\ Stored(z, lab.loc) = lab.val
       /\ Values(z, lab.loc) = Values(s, lab.loc) \cup {lab.val}
  BY <1>6, <1>8
<1> QED BY <1>4, <1>9, <1>10

\* A fence leaves the contents of the disk alone.
LEMMA DskFenceFacts ==
  ASSUME NEW s, IsFs(s), NEW t \in Threads, NEW lab, IsFence(lab), NEW z, z = DskFence(s, t, lab)
  PROVE  /\ DiskStep(s, z)
         /\ \A loc : /\ LastWrite(z, loc) = LastWrite(s, loc) /\ Stored(z, loc) = Stored(s, loc)
                     /\ Values(z, loc) = Values(s, loc)
<1>1. PICK pb : z = Log(s, t, lab, pb)
  BY DEF DskFence
<1>2. PICK e : e = DskEvent(lab, s.known[t], pb)
  OBVIOUS
<1>3. e.kind \notin WriteKinds
  BY <1>2, DskEventFence DEF IsFence
<1>4. DiskStep(s, z) /\ z.disk = Append(s.disk, e)
  BY <1>1, <1>2, LogFacts
<1>5. IsSeq(s.disk)
  BY DEF IsFs
<1> QED BY <1>3, <1>4, <1>5, FenceStores

\* Locations differ if a component does.
LEMMA LocEq ==
  ASSUME NEW i, NEW f, NEW p, NEW j, NEW g, NEW q, Loc(i, f, p) = Loc(j, g, q)
  PROVE  i = j /\ f = g /\ p = q
<1>1. Loc(i, f, p).inode = i /\ Loc(i, f, p).field = f /\ Loc(i, f, p).pos = p
  BY DEF Loc
<1>2. Loc(j, g, q).inode = j /\ Loc(j, g, q).field = g /\ Loc(j, g, q).pos = q
  BY DEF Loc
<1> QED BY <1>1, <1>2

\* What is in files other than I, and in the directory, stays as it is.
SameContents(s, z, I) ==
  /\ \A i, p : i \notin I => Data(z, i, p) = Data(s, i, p)
  /\ Dir \notin I => /\ \A n : Lookup(z, n) = Lookup(s, n) /\ Named(z, n) = Named(s, n)
                     /\ getInodeTransStatus(z, Dir) = getInodeTransStatus(s, Dir)

\* Only the locations in L change.
Elsewhere(s, z, L) == \A loc : loc \notin L => /\ LastWrite(z, loc) = LastWrite(s, loc)
                                               /\ Stored(z, loc) = Stored(s, loc)
                                               /\ Values(z, loc) = Values(s, loc)

LEMMA SameElsewhere ==
  ASSUME NEW s, NEW z, Elsewhere(s, z, {})
  PROVE  SameContents(s, z, {})
BY DEF Elsewhere, SameContents, Data, Named, Lookup, getInodeTransStatus

LEMMA SameDisk ==
  ASSUME NEW s, NEW z, z.disk = s.disk
  PROVE  SameContents(s, z, {}) /\ Elsewhere(s, z, {})
<1>1. Elsewhere(s, z, {})
  BY DEF Elsewhere, Stored, Values, LastWrite, ValueOf, StoresTo
<1> QED BY <1>1, SameElsewhere

\* One step after another.
LEMMA SameContentsTrans ==
  ASSUME NEW s, NEW x, NEW z, NEW I, NEW J, SameContents(s, x, I), SameContents(x, z, J), J \subseteq I
  PROVE  SameContents(s, z, I)
BY DEF SameContents

LEMMA DiskStepTrans ==
  ASSUME NEW s, NEW x, NEW z, DiskStep(s, x), DiskStep(x, z)
  PROVE  DiskStep(s, z)
BY DEF DiskStep

\* The three fences.
FenceLabels == {DskFsyncLabel(i) : i \in Nat} \cup {DskSyncLabel, DskPbarrierLabel}

LEMMA FenceKeeps ==
  ASSUME NEW s, IsFs(s), NEW t \in Threads, NEW lab \in FenceLabels, NEW z, z = DskFence(s, t, lab)
  PROVE  DiskStep(s, z) /\ SameContents(s, z, {}) /\ Elsewhere(s, z, {})
<1>1. IsFence(lab)
  BY DEF FenceLabels, IsFence, DskFsyncLabel, DskSyncLabel, DskPbarrierLabel, WriteKinds
<1>2. DiskStep(s, z) /\ Elsewhere(s, z, {})
  BY <1>1, DskFenceFacts DEF Elsewhere
<1> QED BY <1>2, SameElsewhere

LEMMA FsyncKeeps ==
  ASSUME NEW s, IsFs(s), NEW t \in Threads, NEW i \in Nat, NEW z, z = executeFsyncFS(s, t, i)
  PROVE  DiskStep(s, z) /\ SameContents(s, z, {}) /\ Elsewhere(s, z, {})
BY FenceKeeps DEF executeFsyncFS, FenceLabels

\* The status of a transaction.
LEMMA SetTrans ==
  ASSUME NEW s, IsFs(s), NEW t \in Threads, NEW i \in Nat, NEW v, NEW z, z = setInodeTransStatus(s, t, i, v)
  PROVE  /\ DiskStep(s, z) /\ SameContents(s, z, {Dir})
         /\ i # Dir => SameContents(s, z, {})
         /\ \A n : Lookup(z, n) = Lookup(s, n) /\ Named(z, n) = Named(s, n)
         /\ i = Dir => getInodeTransStatus(z, Dir) = v
<1> DEFINE lab == DskJnlWriteLabel(Loc(i, "trans", 0), v)
<1>1. IsLabel(lab) /\ lab.loc = Loc(i, "trans", 0) /\ lab.val = v
  BY DEF IsLabel, DskJnlWriteLabel, DskWriteLabel, WriteKinds
<1>2. z = DskWrite(s, t, lab)
  BY DEF setInodeTransStatus
<1> HIDE DEF lab
<1>3. DiskStep(s, z) /\ Stored(z, Loc(i, "trans", 0)) = v /\ Elsewhere(s, z, {Loc(i, "trans", 0)})
  BY <1>1, <1>2, DskWriteFacts DEF Elsewhere
<1>4. /\ \A j, p : Loc(j, "data", p) # Loc(i, "trans", 0)
      /\ \A n : Loc(Dir, "name", n) # Loc(i, "trans", 0)
      /\ i # Dir => Loc(Dir, "trans", 0) # Loc(i, "trans", 0)
  BY LocEq
<1> QED BY <1>3, <1>4 DEF Elsewhere, SameContents, Data, Named, Lookup, getInodeTransStatus

\* The size on the disk is not part of the contents.
LEMMA SetDisksize ==
  ASSUME NEW s, IsFs(s), NEW t \in Threads, NEW i \in Nat, NEW n, NEW from, NEW to,
         NEW z, z = updateInodeDisksizeFS(s, t, i, n, from, to)
  PROVE  DiskStep(s, z) /\ SameContents(s, z, {})
<1> DEFINE ord == IF Journal = "ordered" THEN [inode |-> i, from |-> from, to |-> to] ELSE NoOrd
           lab == DskMdWriteLabel(Loc(i, "size", 0), n, i, ord)
           w   == DskWrite(s, t, lab)
<1>1. IsLabel(lab) /\ lab.loc = Loc(i, "size", 0)
  <2> HIDE DEF ord
  <2> QED BY DEF IsLabel, DskMdWriteLabel, WriteKinds
<1>2. z = w \/ z = executeFsyncFS(w, t, i)
  BY DEF updateInodeDisksizeFS
<1> HIDE DEF lab
<1>3. DiskStep(s, w) /\ Elsewhere(s, w, {Loc(i, "size", 0)})
  BY <1>1, DskWriteFacts DEF Elsewhere
<1>4. /\ \A j, p : Loc(j, "data", p) # Loc(i, "size", 0)
      /\ \A m : Loc(Dir, "name", m) # Loc(i, "size", 0)
      /\ Loc(Dir, "trans", 0) # Loc(i, "size", 0)
  BY LocEq
<1>5. SameContents(s, w, {})
  BY <1>3, <1>4 DEF Elsewhere, SameContents, Data, Named, Lookup, getInodeTransStatus
<1>6. CASE z = executeFsyncFS(w, t, i)
  <2>1. DiskStep(w, z) /\ SameContents(w, z, {})
    BY <1>3, <1>6, FsyncKeeps DEF DiskStep
  <2> QED BY <1>3, <1>5, <2>1, DiskStepTrans, SameContentsTrans
<1> QED BY <1>2, <1>3, <1>5, <1>6

\* An entry of the directory.
LEMMA SetName ==
  ASSUME NEW s, IsFs(s), NEW t \in Threads, NEW n, NEW i, NEW z, z = updateDirNameInode(s, t, n, i)
  PROVE  /\ DiskStep(s, z) /\ SameContents(s, z, {Dir})
         /\ Lookup(z, n) = i /\ Named(z, n) = Named(s, n) \cup {i}
         /\ \A m : m # n => Lookup(z, m) = Lookup(s, m) /\ Named(z, m) = Named(s, m)
         /\ getInodeTransStatus(z, Dir) = getInodeTransStatus(s, Dir)
<1> DEFINE lab == DskDirWriteLabel(Loc(Dir, "name", n), i, Dir)
           f == executeFsyncFS(s, t, Dir)
           w == DskWrite(f, t, lab)
<1>0. Dir \in Nat
  BY DEF Dir
<1>1. IsLabel(lab) /\ lab.loc = Loc(Dir, "name", n) /\ lab.val = i
  BY DEF IsLabel, DskDirWriteLabel, DskWriteLabel, WriteKinds
<1>2. z = w \/ z = executeFsyncFS(w, t, Dir)
  BY DEF updateDirNameInode
<1> HIDE DEF lab
<1>3. DiskStep(s, f) /\ SameContents(s, f, {})
  BY <1>0, FsyncKeeps
<1>4. IsFs(f)
  BY <1>3 DEF DiskStep
<1> HIDE DEF f
<1>5. /\ DiskStep(f, w) /\ Elsewhere(f, w, {Loc(Dir, "name", n)}) /\ Stored(w, Loc(Dir, "name", n)) = i
      /\ Values(w, Loc(Dir, "name", n)) = Values(f, Loc(Dir, "name", n)) \cup {i}
  BY <1>1, <1>4, DskWriteFacts DEF Elsewhere
<1> HIDE DEF w
<1>6. IsFs(w) /\ DiskStep(s, w)
  BY <1>3, <1>5, DiskStepTrans DEF DiskStep
<1>7. /\ \A j, p : Loc(j, "data", p) # Loc(Dir, "name", n)
      /\ \A m : m # n => Loc(Dir, "name", m) # Loc(Dir, "name", n)
      /\ Loc(Dir, "trans", 0) # Loc(Dir, "name", n)
  BY LocEq
<1>8. /\ SameContents(f, w, {Dir}) /\ Lookup(w, n) = i /\ Named(w, n) = Named(f, n) \cup {i}
      /\ \A m : m # n => Lookup(w, m) = Lookup(f, m) /\ Named(w, m) = Named(f, m)
      /\ getInodeTransStatus(w, Dir) = getInodeTransStatus(f, Dir)
  BY <1>5, <1>7 DEF Elsewhere, SameContents, Data, Named, Lookup, getInodeTransStatus
<1>9. /\ SameContents(s, w, {Dir}) /\ Lookup(w, n) = i /\ Named(w, n) = Named(s, n) \cup {i}
      /\ \A m : m # n => Lookup(w, m) = Lookup(s, m) /\ Named(w, m) = Named(s, m)
      /\ getInodeTransStatus(w, Dir) = getInodeTransStatus(s, Dir)
  BY <1>3, <1>8 DEF SameContents
<1>10. CASE z = executeFsyncFS(w, t, Dir)
  <2>1. DiskStep(w, z) /\ SameContents(w, z, {})
    BY <1>0, <1>6, <1>10, FsyncKeeps
  <2>2. DiskStep(s, z)
    BY <1>6, <2>1, DiskStepTrans
  <2> QED BY <1>9, <2>1, <2>2 DEF SameContents
<1> QED BY <1>2, <1>6, <1>9, <1>10

\* A byte of a file.
ByteWritten(s, z, i, p, v) ==
  /\ DiskStep(s, z) /\ SameContents(s, z, {i})
  /\ Data(z, i, p) = v /\ \A q : q # p => Data(z, i, q) = Data(s, i, q)

LEMMA WriteData ==
  ASSUME NEW s, IsFs(s), NEW t \in Threads, NEW i, i # Dir, NEW p, NEW v,
         NEW z, z = DskWrite(s, t, DskWriteLabel(Loc(i, "data", p), v, i))
  PROVE  ByteWritten(s, z, i, p, v)
<1> DEFINE lab == DskWriteLabel(Loc(i, "data", p), v, i)
<1>1. IsLabel(lab) /\ lab.loc = Loc(i, "data", p) /\ lab.val = v
  BY DEF IsLabel, DskWriteLabel, WriteKinds
<1> HIDE DEF lab
<1>2. DiskStep(s, z) /\ Stored(z, Loc(i, "data", p)) = v /\ Elsewhere(s, z, {Loc(i, "data", p)})
  BY <1>1, DskWriteFacts DEF Elsewhere, lab
<1>4. /\ \A j, q : j # i \/ q # p => Loc(j, "data", q) # Loc(i, "data", p)
      /\ \A m : Loc(Dir, "name", m) # Loc(i, "data", p)
      /\ Loc(Dir, "trans", 0) # Loc(i, "data", p)
  BY LocEq
<1>5. Data(z, i, p) = v
  BY <1>2 DEF Data
<1>6. \A j, q : j # i \/ q # p => Data(z, j, q) = Data(s, j, q)
  BY <1>2, <1>4 DEF Elsewhere, Data
<1>8. /\ \A n : Lookup(z, n) = Lookup(s, n) /\ Named(z, n) = Named(s, n)
      /\ getInodeTransStatus(z, Dir) = getInodeTransStatus(s, Dir)
  BY <1>2, <1>4 DEF Elsewhere, Lookup, Named, getInodeTransStatus
<1> QED BY <1>2, <1>5, <1>6, <1>8 DEF SameContents, ByteWritten

\* The fields of inodes and descriptions.
LEMMA InodeFields ==
  ASSUME NEW s, IsFs(s), NEW i \in 1 .. Len(s.inodes)
  PROVE  /\ s.inodes[i] \in InodeRec /\ s.inodes[i].isize \in Nat
         /\ s.inodes[i].lock \in Threads \cup {Nobody}
         /\ s.inodes[i].lk \in SUBSET Nat /\ s.inodes[i].sk \in SUBSET Nat
         /\ s.inodes[i].sizes \in SUBSET SizeRec
<1>1. s.inodes[i] \in InodeRec
  BY DEF IsFs
<1> QED BY <1>1 DEF InodeRec

LEMMA FileFields ==
  ASSUME NEW s, IsFs(s), NEW f \in 1 .. Len(s.files)
  PROVE  /\ s.files[f] \in FileRec /\ s.files[f].inode \in Nat /\ s.files[f].flags \in SUBSET Flags
         /\ s.files[f].offset \in Int /\ s.files[f].count \in Int
         /\ s.files[f].lock \in Threads \cup {Nobody}
         /\ s.files[f].lk \in SUBSET Nat /\ s.files[f].made \in SUBSET Nat /\ s.files[f].freed \in BOOLEAN
<1>1. s.files[f] \in FileRec
  BY DEF IsFs
<1> QED BY <1>1 DEF FileRec

\* Reads of the disk, of sizes and of names only add to what is known.
KnownStep(s, z) == DiskStep(s, z) /\ z.disk = s.disk

LEMMA KnownFacts ==
  ASSUME NEW s, IsFs(s), NEW t \in Threads, NEW K \in SUBSET Nat,
         NEW z, z = [s EXCEPT !.known[t] = @ \cup K]
  PROVE  KnownStep(s, z)
<1>1. s.known \in [Threads -> SUBSET Nat]
  BY DEF IsFs
<1>2. z.known = [s.known EXCEPT ![t] = @ \cup K]
  BY DEF IsFs
<1>3. z.known \in [Threads -> SUBSET Nat]
  BY <1>1, <1>2
<1>4. /\ z.files = s.files /\ z.inodes = s.inodes /\ z.error = s.error /\ z.disk = s.disk
      /\ z = [files |-> z.files, inodes |-> z.inodes, disk |-> z.disk,
              known |-> z.known, error |-> z.error]
  BY DEF IsFs
<1> QED BY <1>3, <1>4 DEF IsFs, KnownStep, DiskStep

LEMMA KnownStepTrans ==
  ASSUME NEW s, NEW x, NEW z, KnownStep(s, x), KnownStep(x, z)
  PROVE  KnownStep(s, z)
BY DEF KnownStep, DiskStep

\* A read finds a write to the location, or none.
LEMMA StoresAre ==
  ASSUME NEW s, IsFs(s), NEW t, NEW loc
  PROVE  /\ \A w \in {0} \cup StoresTo(s, loc) : w \in 0 .. Len(s.disk)
         /\ CoherentStores(s, t, loc) \subseteq {0} \cup StoresTo(s, loc)
         /\ LastWrite(s, loc) \in {0} \cup StoresTo(s, loc)
<1>1. Len(s.disk) \in Nat /\ DOMAIN s.disk = 1 .. Len(s.disk)
  BY DEF IsFs, IsSeq
<1>2. LastWrite(s, loc) \in {0} \cup StoresTo(s, loc)
  BY LastWriteIsLast DEF IsFs
<1> QED BY <1>1, <1>2 DEF StoresTo, DskWrites, CoherentStores

LEMMA ReadFromFacts ==
  ASSUME NEW s, IsFs(s), NEW t \in Threads, NEW loc, NEW w \in {0} \cup StoresTo(s, loc),
         NEW z, z = ReadFrom(s, t, w)
  PROVE  KnownStep(s, z)
<1>1. w \in 0 .. Len(s.disk) /\ Len(s.disk) \in Nat
  BY StoresAre DEF IsFs, IsSeq
<1>2. CASE w = 0
  <2>1. z = s
    BY <1>2 DEF ReadFrom
  <2> QED BY <2>1 DEF KnownStep, DiskStep
<1>3. CASE w # 0
  <2>1. PICK K : K = {w} \cup s.disk[w].pre
    OBVIOUS
  <2>2. K \in SUBSET Nat
    BY <1>1, <1>3, <2>1 DEF IsFs
  <2>3. z = [s EXCEPT !.known[t] = @ \cup K]
    <3>1. z = [s EXCEPT !.known[t] = @ \cup {w} \cup s.disk[w].pre]
      BY <1>3 DEF ReadFrom
    <3>2. s.known[t] \cup {w} \cup s.disk[w].pre = s.known[t] \cup K
      BY <2>1
    <3> QED BY <3>1, <3>2
  <2> QED BY <2>2, <2>3, KnownFacts
<1> QED BY <1>2, <1>3

LEMMA DskReadFacts ==
  ASSUME NEW s, IsFs(s), NEW t \in Threads, NEW loc, NEW z, z = DskRead(s, t, loc)
  PROVE  KnownStep(s, z)
BY StoresAre, ReadFromFacts DEF DskRead

LEMMA LookupReadsFacts ==
  ASSUME NEW s, IsFs(s), NEW t \in Threads, NEW n, NEW z, z = LookupReads(s, t, n)
  PROVE  KnownStep(s, z)
<1> DEFINE x == DskRead(s, t, Loc(Dir, "trans", 0))
<1>1. KnownStep(s, x)
  BY DskReadFacts
<1>2. IsFs(x)
  BY <1>1 DEF KnownStep, DiskStep
<1>3. z = DskRead(x, t, Loc(Dir, "name", n))
  BY DEF LookupReads
<1> HIDE DEF x
<1>4. KnownStep(x, z)
  BY <1>2, <1>3, DskReadFacts
<1> QED BY <1>1, <1>4, KnownStepTrans

LEMMA StoredSizeFacts ==
  ASSUME NEW s, IsFs(s), NEW t \in Threads, NEW st, st.sk \in SUBSET Nat, NEW z, z = ReadSize(s, t, st)
  PROVE  KnownStep(s, z)
BY KnownFacts DEF ReadSize

LEMMA ReadSizeFacts ==
  ASSUME NEW s, IsFs(s), NEW t \in Threads, NEW i \in 1 .. Len(s.inodes),
         NEW z, z = readInodeSizeFS(s, t, i)
  PROVE  KnownStep(s, z)
BY InodeFields, StoredSizeFacts DEF readInodeSizeFS

\* The sizes that a read may find were sizes of the file.
LEMMA CoherentSizesAre ==
  ASSUME NEW s, IsFs(s), NEW t, NEW i \in 1 .. Len(s.inodes), NEW st \in CoherentSizes(s, t, i)
  PROVE  st \in s.inodes[i].sizes /\ st.size \in Nat /\ st.sk \in SUBSET Nat
<1>1. st \in SizeRec /\ st \in s.inodes[i].sizes
  BY InodeFields DEF CoherentSizes
<1> QED BY <1>1 DEF SizeRec

IsRec(z) == z = [files |-> z.files, inodes |-> z.inodes, disk |-> z.disk,
                 known |-> z.known, error |-> z.error]

\* One inode changes, and what is known.
InodeStep(s, z, i) ==
  /\ IsFs(z) /\ z.files = s.files /\ z.disk = s.disk /\ z.error = s.error
  /\ Len(z.inodes) = Len(s.inodes)
  /\ \A j \in 1 .. Len(s.inodes) : j # i => z.inodes[j] = s.inodes[j]

LEMMA InodeFacts ==
  ASSUME NEW s, IsFs(s), NEW i \in 1 .. Len(s.inodes), NEW a \in InodeRec,
         NEW z, IsRec(z), z.files = s.files, z.disk = s.disk, z.error = s.error,
         z.known \in [Threads -> SUBSET Nat], z.inodes = [s.inodes EXCEPT ![i] = a]
  PROVE  InodeStep(s, z, i) /\ z.inodes[i] = a
<1>1. s.inodes \in Seq(InodeRec) /\ Len(s.inodes) \in Nat
  BY DEF IsFs
<1>3. /\ z.inodes \in Seq(InodeRec) /\ Len(z.inodes) = Len(s.inodes)
      /\ \A j \in 1 .. Len(s.inodes) : j # i => z.inodes[j] = s.inodes[j]
      /\ z.inodes[i] = a
  BY <1>1
<1> QED BY <1>3 DEF IsFs, IsRec, InodeStep

LEMMA LockInodeFacts ==
  ASSUME NEW s, IsFs(s), NEW t \in Threads, NEW i \in 1 .. Len(s.inodes), NEW z, z = LockInode(s, t, i)
  PROVE  /\ InodeStep(s, z, i) /\ z.inodes[i].lock = t /\ z.inodes[i].isize = s.inodes[i].isize
         /\ z.inodes[i].sk = s.inodes[i].sk /\ z.inodes[i].sizes = s.inodes[i].sizes
<1> DEFINE a == [s.inodes[i] EXCEPT !.lock = t]
           k == [s.known EXCEPT ![t] = @ \cup s.inodes[i].lk]
<1>1. s.inodes[i] \in InodeRec /\ s.inodes[i].lk \in SUBSET Nat
  BY InodeFields
<1>2. /\ a \in InodeRec /\ a.lock = t /\ a.isize = s.inodes[i].isize
      /\ a.sk = s.inodes[i].sk /\ a.sizes = s.inodes[i].sizes
  BY <1>1 DEF InodeRec
<1>3. k \in [Threads -> SUBSET Nat]
  <2>1. s.known \in [Threads -> SUBSET Nat]
    BY DEF IsFs
  <2> QED BY <1>1, <2>1
<1>4. /\ IsRec(z) /\ z.files = s.files /\ z.disk = s.disk /\ z.error = s.error
      /\ z.known = k /\ z.inodes = [s.inodes EXCEPT ![i] = a]
  BY DEF LockInode, IsFs, IsRec
<1> HIDE DEF a, k
<1> QED BY <1>1, <1>2, <1>3, <1>4, InodeFacts

LEMMA UnlockInodeFacts ==
  ASSUME NEW s, IsFs(s), NEW t \in Threads, NEW i \in 1 .. Len(s.inodes), NEW z, z = UnlockInode(s, t, i)
  PROVE  /\ InodeStep(s, z, i) /\ z.inodes[i].lock = Nobody /\ z.inodes[i].isize = s.inodes[i].isize
         /\ z.inodes[i].sk = s.inodes[i].sk /\ z.inodes[i].sizes = s.inodes[i].sizes
<1> DEFINE a == [s.inodes[i] EXCEPT !.lock = Nobody, !.lk = s.known[t]]
           k == s.known
<1>1. s.inodes[i] \in InodeRec /\ k \in [Threads -> SUBSET Nat]
  BY InodeFields DEF IsFs
<1>2. /\ a \in InodeRec /\ a.lock = Nobody /\ a.isize = s.inodes[i].isize
      /\ a.sk = s.inodes[i].sk /\ a.sizes = s.inodes[i].sizes
  BY <1>1 DEF InodeRec
<1>3. /\ IsRec(z) /\ z.files = s.files /\ z.disk = s.disk /\ z.error = s.error
      /\ z.known = k /\ z.inodes = [s.inodes EXCEPT ![i] = a]
  BY DEF UnlockInode, IsFs, IsRec
<1> HIDE DEF a, k
<1> QED BY <1>1, <1>2, <1>3, InodeFacts

LEMMA UpdateSizeFacts ==
  ASSUME NEW s, IsFs(s), NEW t \in Threads, NEW i \in 1 .. Len(s.inodes), NEW n \in Nat,
         NEW z, z = updateInodeSizeFS(s, t, i, n)
  PROVE  /\ InodeStep(s, z, i) /\ z.inodes[i].lock = s.inodes[i].lock /\ z.inodes[i].isize = n
         /\ z.inodes[i].sk = s.known[t]
         /\ z.inodes[i].sizes = s.inodes[i].sizes \cup {[size |-> n, at |-> Len(s.disk), sk |-> s.known[t]]}
         /\ z.known = s.known
<1> DEFINE r == s.inodes[i]
           k == s.known
           st == [size |-> n, at |-> Len(s.disk), sk |-> k[t]]
           q == r.sizes \cup {st}
           a == [r EXCEPT !.isize = n, !.sk = k[t], !.sizes = q]
<1>1. /\ r \in InodeRec /\ r.sizes \in SUBSET SizeRec /\ k \in [Threads -> SUBSET Nat]
      /\ Len(s.disk) \in Nat
  BY InodeFields DEF IsFs, IsSeq
<1>2. q \in SUBSET SizeRec
  BY <1>1 DEF SizeRec
<1>3. /\ IsRec(z) /\ z.files = s.files /\ z.disk = s.disk /\ z.error = s.error
      /\ z.known = k /\ z.inodes = [s.inodes EXCEPT ![i] = a]
  BY DEF updateInodeSizeFS, IsFs, IsRec
<1>4. k[t] \in SUBSET Nat
  BY <1>1
<1>5. a \in InodeRec /\ a.lock = r.lock /\ a.isize = n /\ a.sk = k[t] /\ a.sizes = q
  <2> DEFINE b == [r EXCEPT !.isize = n, !.sk = k[t]]
  <2>1. b \in InodeRec /\ b.lock = r.lock /\ b.isize = n /\ b.sk = k[t]
    <3> HIDE DEF r, k
    <3> QED BY <1>1, <1>4 DEF InodeRec
  <2>2. a = [b EXCEPT !.sizes = q]
    OBVIOUS
  <2> HIDE DEF a, b, q, r, k
  <2> QED BY <1>2, <2>1, <2>2 DEF InodeRec
<1>6. /\ z.inodes[i].lock = r.lock /\ z.inodes[i].isize = n /\ z.inodes[i].sk = k[t]
      /\ z.inodes[i].sizes = q /\ InodeStep(s, z, i)
  <2> HIDE DEF a, k, r, q
  <2> QED BY <1>1, <1>3, <1>5, InodeFacts
<1> QED BY <1>3, <1>6

\* One description changes, but neither its file nor its flags.
FileStep(s, z, f) ==
  /\ IsFs(z) /\ z.inodes = s.inodes /\ z.disk = s.disk /\ z.error = s.error
  /\ Len(z.files) = Len(s.files)
  /\ \A g \in 1 .. Len(s.files) : g # f => z.files[g] = s.files[g]
  /\ z.files[f].inode = s.files[f].inode /\ z.files[f].flags = s.files[f].flags

LEMMA FileFacts ==
  ASSUME NEW s, IsFs(s), NEW f \in 1 .. Len(s.files), NEW a \in FileRec,
         a.inode = s.files[f].inode, a.flags = s.files[f].flags,
         NEW z, IsRec(z), z.inodes = s.inodes, z.disk = s.disk, z.error = s.error,
         z.known \in [Threads -> SUBSET Nat], z.files = [s.files EXCEPT ![f] = a]
  PROVE  FileStep(s, z, f) /\ z.files[f] = a
<1>1. s.files \in Seq(FileRec) /\ Len(s.files) \in Nat
  BY DEF IsFs
<1>3. /\ z.files \in Seq(FileRec) /\ Len(z.files) = Len(s.files)
      /\ \A g \in 1 .. Len(s.files) : g # f => z.files[g] = s.files[g]
      /\ z.files[f] = a
  BY <1>1
<1> QED BY <1>3 DEF IsFs, IsRec, FileStep

\* Descriptions may change or be added; what they describe stays.
FilesStep(s, z) ==
  /\ IsFs(z) /\ z.inodes = s.inodes /\ z.disk = s.disk
  /\ Len(s.files) <= Len(z.files)
  /\ \A g \in 1 .. Len(s.files) : z.files[g].inode = s.files[g].inode /\ z.files[g].flags = s.files[g].flags

LEMMA FileStepIsFilesStep ==
  ASSUME NEW s, IsFs(s), NEW f \in 1 .. Len(s.files), NEW z, FileStep(s, z, f)
  PROVE  FilesStep(s, z)
<1>1. Len(s.files) \in Nat
  BY DEF IsFs
<1> QED BY <1>1 DEF FileStep, FilesStep

LEMMA SameIsFilesStep ==
  ASSUME NEW s, IsFs(s)
  PROVE  FilesStep(s, s)
<1>1. Len(s.files) \in Nat
  BY DEF IsFs
<1> QED BY <1>1 DEF FilesStep

LEMMA LockFileFacts ==
  ASSUME IsFs(fs), NEW t \in Threads, Call(t).fd \in 1 .. Len(fs.files), NEW z, z = LockFile(fs, t)
  PROVE  FilesStep(fs, z) /\ Len(z.files) = Len(fs.files)
<1>1. CASE Positioned(t)
  <2>1. KnownStep(fs, z)
    BY <1>1, FileFields, KnownFacts DEF LockFile, File
  <2>2. Len(fs.files) \in Nat
    BY DEF IsFs
  <2> QED BY <2>1, <2>2 DEF KnownStep, DiskStep, FilesStep
<1>2. CASE ~Positioned(t)
  <2> DEFINE f == Call(t).fd
             a == [fs.files[f] EXCEPT !.lock = t]
             k == [fs.known EXCEPT ![t] = @ \cup fs.files[f].lk]
  <2>1. fs.files[f] \in FileRec /\ fs.files[f].lk \in SUBSET Nat /\ fs.known \in [Threads -> SUBSET Nat]
    BY FileFields DEF IsFs
  <2>2. a \in FileRec /\ a.inode = fs.files[f].inode /\ a.flags = fs.files[f].flags
    BY <2>1 DEF FileRec
  <2>3. k \in [Threads -> SUBSET Nat]
    BY <2>1
  <2>4. /\ IsRec(z) /\ z.inodes = fs.inodes /\ z.disk = fs.disk /\ z.error = fs.error
        /\ z.known = k /\ z.files = [fs.files EXCEPT ![f] = a]
    BY <1>2 DEF LockFile, File, IsFs, IsRec
  <2> HIDE DEF a, k
  <2>5. FileStep(fs, z, f)
    BY <2>2, <2>3, <2>4, FileFacts
  <2> QED BY <2>5, FileStepIsFilesStep DEF FileStep
<1> QED BY <1>1, <1>2

LEMMA ReleasedFacts ==
  ASSUME NEW s, IsFs(s), NEW t \in Threads, Call(t).fd \in 1 .. Len(s.files), NEW v \in Int,
         NEW z, z = Released(s, t, v)
  PROVE  FilesStep(s, z) /\ Len(z.files) = Len(s.files)
<1> DEFINE f == Call(t).fd
           o == IF v >= 0 THEN s.files[f].offset + v ELSE s.files[f].offset
           a == [s.files[f] EXCEPT !.offset = o, !.lock = Nobody, !.lk = s.known[t]]
<1>1. /\ s.files[f] \in FileRec /\ s.files[f].offset \in Int
      /\ s.known \in [Threads -> SUBSET Nat]
  BY FileFields DEF IsFs
<1>2. o \in Int
  BY <1>1
<1>3. a \in FileRec /\ a.inode = s.files[f].inode /\ a.flags = s.files[f].flags
  <2> HIDE DEF o
  <2> QED BY <1>1, <1>2 DEF FileRec
<1>4. /\ IsRec(z) /\ z.inodes = s.inodes /\ z.disk = s.disk /\ z.error = s.error
      /\ z.known = s.known /\ z.files = [s.files EXCEPT ![f] = a]
  BY <1>1 DEF Released, IsFs, IsRec, FileRec
<1> HIDE DEF a
<1>5. FileStep(s, z, f)
  BY <1>1, <1>3, <1>4, FileFacts
<1> QED BY <1>5, FileStepIsFilesStep DEF FileStep

LEMMA OpenFacts ==
  ASSUME NEW s, IsFs(s), NEW t \in Threads, NEW i \in Nat, NEW flags \in SUBSET Flags,
         NEW z, z = executeOpenFS(s, t, i, flags)
  PROVE  /\ FilesStep(s, z) /\ Len(z.files) = Len(s.files) + 1
         /\ z.files[Len(s.files) + 1].inode = i /\ z.files[Len(s.files) + 1].lock = Nobody
         /\ \A g \in 1 .. Len(s.files) : z.files[g] = s.files[g]
<1> DEFINE a == [inode |-> i, flags |-> flags, offset |-> 0, count |-> 1,
                 lock |-> Nobody, lk |-> s.known[t], made |-> s.known[t], freed |-> FALSE]
<1>1. s.files \in Seq(FileRec) /\ Len(s.files) \in Nat /\ s.known \in [Threads -> SUBSET Nat]
  BY DEF IsFs
<1>2. a \in FileRec /\ a.inode = i /\ a.lock = Nobody
  BY <1>1 DEF FileRec
<1>3. /\ IsRec(z) /\ z.inodes = s.inodes /\ z.disk = s.disk /\ z.error = s.error
      /\ z.known = s.known /\ z.files = Append(s.files, a)
  BY DEF executeOpenFS, IsFs, IsRec
<1> HIDE DEF a
<1>4. /\ z.files \in Seq(FileRec) /\ Len(z.files) = Len(s.files) + 1 /\ z.files[Len(s.files) + 1] = a
      /\ \A g \in 1 .. Len(s.files) : z.files[g] = s.files[g]
  BY <1>1, <1>2, <1>3
<1>5. IsFs(z)
  BY <1>3, <1>4 DEF IsFs, IsRec
<1> QED BY <1>1, <1>2, <1>3, <1>4, <1>5 DEF FilesStep

\* The steps of zeroing a range.
ZeroByte(s, t, i, p) == DskWrite(s, t, DskWriteLabel(Loc(i, "data", p), 0, i))
IsZeroing(s, t, i, from, n, f) ==
  f = [k \in 0 .. n |-> IF k = 0 THEN s ELSE ZeroByte(f[k - 1], t, i, from + k - 1)]

LEMMA ZeroingExists ==
  ASSUME NEW s, NEW t, NEW i, NEW from
  PROVE  \A n \in Nat : \E f : IsZeroing(s, t, i, from, n, f)
<1> DEFINE S == {n \in Nat : \E f : IsZeroing(s, t, i, from, n, f)}
<1>1. 0 \in S
  <2> DEFINE f == [k \in 0 .. 0 |-> s]
  <2>1. IsZeroing(s, t, i, from, 0, f)
    BY DEF IsZeroing
  <2> QED BY <2>1
<1>2. ASSUME NEW n \in S PROVE n + 1 \in S
  <2>1. PICK f : IsZeroing(s, t, i, from, n, f)
    OBVIOUS
  <2> DEFINE next == ZeroByte(f[n], t, i, from + (n + 1) - 1)
             g == [k \in 0 .. n + 1 |-> IF k = n + 1 THEN next ELSE f[k]]
  <2>2. n \in Nat
    OBVIOUS
  <2>3. \A k \in 0 .. n : g[k] = f[k]
    BY <2>2
  <2>4. g[n + 1] = next
    BY <2>2
  <2>5. ASSUME NEW k \in 0 .. n + 1
        PROVE  g[k] = IF k = 0 THEN s ELSE ZeroByte(g[k - 1], t, i, from + k - 1)
    <3>1. CASE k = n + 1
      <4>1. g[k - 1] = f[n] /\ k # 0
        BY <2>2, <2>3, <3>1
      <4>2. g[k] = next
        BY <2>4, <3>1
      <4> HIDE DEF g
      <4> QED BY <3>1, <4>1, <4>2, Zenon
    <3>2. CASE k \in 1 .. n
      <4>1. g[k] = f[k] /\ g[k - 1] = f[k - 1]
        BY <2>2, <2>3, <3>2
      <4>2. k \in 0 .. n /\ k # 0
        BY <2>2, <3>2
      <4> HIDE DEF g, next
      <4>3. f[k] = IF k = 0 THEN s ELSE ZeroByte(f[k - 1], t, i, from + k - 1)
        BY <2>1, <4>2, Zenon DEF IsZeroing
      <4> QED BY <4>1, <4>3, Zenon
    <3>3. CASE k = 0
      <4> HIDE DEF g, next
      <4>1. 0 \in 0 .. n
        BY <2>2
      <4>2. f[0] = s
        BY <2>1, <4>1, Zenon DEF IsZeroing
      <4> QED BY <2>3, <3>3, <4>1, <4>2
    <3> QED BY <2>2, <3>1, <3>2, <3>3
  <2>6. g = [k \in 0 .. n + 1 |-> g[k]]
    OBVIOUS
  <2> HIDE DEF g, next
  <2>7. IsZeroing(s, t, i, from, n + 1, g)
    BY <2>5, <2>6 DEF IsZeroing
  <2> QED BY <2>2, <2>7
<1> HIDE DEF S
<1>3. S \in SUBSET Nat
  BY DEF S
<1>4. S = Nat
  BY <1>1, <1>2, <1>3, SetInduction
<1> QED BY <1>4 DEF S

\* After it the range reads as zeros, and the rest of the file as before.
ZeroedTo(s, z, i, from, n) ==
  /\ DiskStep(s, z) /\ SameContents(s, z, {i})
  /\ \A p \in Int : from <= p /\ p < from + n => Data(z, i, p) = 0
  /\ \A p \in Int : p < from \/ from + n <= p => Data(z, i, p) = Data(s, i, p)

LEMMA ZeroedStep ==
  ASSUME NEW s, NEW x, NEW t \in Threads, NEW i, i # Dir, NEW from \in Int, NEW k \in Nat,
         ZeroedTo(s, x, i, from, k), NEW z, z = ZeroByte(x, t, i, from + k)
  PROVE  ZeroedTo(s, z, i, from, k + 1)
<1>0. IsFs(x) /\ z = DskWrite(x, t, DskWriteLabel(Loc(i, "data", from + k), 0, i))
  BY DEF ZeroedTo, DiskStep, ZeroByte
<1>1. /\ DiskStep(x, z) /\ SameContents(x, z, {i})
      /\ Data(z, i, from + k) = 0
      /\ \A q : q # from + k => Data(z, i, q) = Data(x, i, q)
  <2>1. ByteWritten(x, z, i, from + k, 0)
    BY <1>0, WriteData
  <2> QED BY <2>1 DEF ByteWritten
<1>2. DiskStep(s, z) /\ SameContents(s, z, {i})
  BY <1>1, DiskStepTrans, SameContentsTrans DEF ZeroedTo
<1>3. \A p \in Int : from <= p /\ p < from + (k + 1) => Data(z, i, p) = 0
  <2> TAKE p \in Int
  <2> HAVE from <= p /\ p < from + (k + 1)
  <2>1. CASE p = from + k
    BY <1>1, <2>1
  <2>2. CASE p # from + k
    <3>1. p < from + k
      BY <2>2
    <3> QED BY <1>1, <2>2, <3>1 DEF ZeroedTo, SameContents
  <2> QED BY <2>1, <2>2
<1>4. \A p \in Int : p < from \/ from + (k + 1) <= p => Data(z, i, p) = Data(s, i, p)
  <2> TAKE p \in Int
  <2> HAVE p < from \/ from + (k + 1) <= p
  <2>1. p # from + k /\ (p < from \/ from + k <= p)
    OBVIOUS
  <2> QED BY <1>1, <2>1 DEF ZeroedTo
<1> QED BY <1>2, <1>3, <1>4 DEF ZeroedTo

Zeroed(s, z, i, from, to) ==
  /\ DiskStep(s, z) /\ SameContents(s, z, {i})
  /\ \A p \in Int : from <= p /\ p < to => Data(z, i, p) = 0
  /\ \A p \in Int : p < from \/ to <= p => Data(z, i, p) = Data(s, i, p)

LEMMA ZeroFacts ==
  ASSUME NEW s, IsFs(s), NEW t \in Threads, NEW i, i # Dir, NEW from \in Int, NEW to \in Int,
         NEW z, z = zeroDskRangeFS(s, t, i, from, to)
  PROVE  Zeroed(s, z, i, from, to)
<1> DEFINE n == IF from < to THEN to - from ELSE 0
           D(f) == IsZeroing(s, t, i, from, n, f)
<1>1. n \in Nat
  OBVIOUS
<1>2. \E f : D(f)
  BY <1>1, ZeroingExists
<1>3. z = (CHOOSE f : D(f))[n]
  BY Zenon DEF zeroDskRangeFS, IsZeroing, ZeroByte
<1>4. PICK f : D(f) /\ z = f[n]
  <2> HIDE DEF D
  <2> QED BY <1>2, <1>3, Zenon
<1> HIDE DEF n
<1>5. f[0] = s /\ \A k \in 0 .. n - 1 : f[k + 1] = ZeroByte(f[k], t, i, from + k)
  <2>1. \A k \in 0 .. n : f[k] = IF k = 0 THEN s ELSE ZeroByte(f[k - 1], t, i, from + k - 1)
    BY <1>4, Zenon DEF IsZeroing
  <2>2. ASSUME NEW k \in 0 .. n - 1 PROVE f[k + 1] = ZeroByte(f[k], t, i, from + k)
    <3>1. k + 1 \in 0 .. n /\ k + 1 # 0 /\ (k + 1) - 1 = k /\ from + (k + 1) - 1 = from + k
      BY <1>1
    <3> QED BY <2>1, <3>1
  <2> QED BY <1>1, <2>1, <2>2
<1> DEFINE S == {k \in Nat : ZeroedTo(s, f[k], i, from, k)}
<1>6. 0 \in S
  <2>1. DiskStep(s, s) /\ SameContents(s, s, {i})
    BY DEF DiskStep, SameContents
  <2>2. ZeroedTo(s, s, i, from, 0)
    BY <2>1 DEF ZeroedTo
  <2> QED BY <1>5, <2>2
<1>7. \A k \in 0 .. n - 1 : k \in S => k + 1 \in S
  BY <1>1, <1>5, ZeroedStep
<1>8. n \in 0 .. n
  BY <1>1
<1> HIDE DEF S
<1>9. n \in S
  BY <1>1, <1>6, <1>7, <1>8, BoundedInduction
<1>10. ZeroedTo(s, z, i, from, n)
  BY <1>4, <1>9 DEF S
<1>11. \A p \in Int : /\ from <= p /\ p < to => p < from + n
                      /\ p < from \/ to <= p => p < from \/ from + n <= p
  BY DEF n
<1> QED BY <1>10, <1>11 DEF ZeroedTo, Zeroed

-----------------------------------------------------------------------------
(* What a step of a thread leaves alone: everything but the inodes in I,   *)
(* which are new, free or its own.                                         *)

Keeps(s, z, I) ==
  /\ IsFs(z)
  /\ Len(s.files) <= Len(z.files) /\ Len(s.inodes) <= Len(z.inodes)
  /\ \A g \in 1 .. Len(s.files) : z.files[g].inode = s.files[g].inode /\ z.files[g].flags = s.files[g].flags
  /\ \A i \in 1 .. Len(s.inodes) : i \notin I => /\ z.inodes[i].lock = s.inodes[i].lock
                                                 /\ z.inodes[i].isize = s.inodes[i].isize
  /\ SameContents(s, z, I)

LEMMA KeepsTrans ==
  ASSUME NEW s, NEW x, NEW z, NEW I, NEW J, IsFs(s), Keeps(s, x, I), Keeps(x, z, J), J \subseteq I
  PROVE  Keeps(s, z, I)
<1>1. /\ Len(s.files) \in Nat /\ Len(x.files) \in Nat /\ Len(z.files) \in Nat
      /\ Len(s.inodes) \in Nat /\ Len(x.inodes) \in Nat /\ Len(z.inodes) \in Nat
  BY DEF Keeps, IsFs
<1>2. SameContents(s, z, I)
  BY SameContentsTrans DEF Keeps
<1>3. \A g \in 1 .. Len(s.files) : z.files[g].inode = s.files[g].inode /\ z.files[g].flags = s.files[g].flags
  BY <1>1 DEF Keeps
<1>4. \A i \in 1 .. Len(s.inodes) : i \notin I => /\ z.inodes[i].lock = s.inodes[i].lock
                                                  /\ z.inodes[i].isize = s.inodes[i].isize
  BY <1>1 DEF Keeps
<1> QED BY <1>1, <1>2, <1>3, <1>4 DEF Keeps

LEMMA KeepsMore ==
  ASSUME NEW s, NEW z, NEW I, NEW J, Keeps(s, z, I), I \subseteq J
  PROVE  Keeps(s, z, J)
BY DEF Keeps, SameContents

LEMMA DiskKeeps ==
  ASSUME NEW s, IsFs(s), NEW z, DiskStep(s, z), NEW I, SameContents(s, z, I)
  PROVE  Keeps(s, z, I)
<1>1. Len(s.files) \in Nat /\ Len(s.inodes) \in Nat
  BY DEF IsFs
<1> QED BY <1>1 DEF Keeps, DiskStep

LEMMA KnownKeeps ==
  ASSUME NEW s, IsFs(s), NEW z, KnownStep(s, z)
  PROVE  Keeps(s, z, {})
BY DiskKeeps, SameDisk DEF KnownStep

LEMMA InodeKeeps ==
  ASSUME NEW s, IsFs(s), NEW i, NEW z, InodeStep(s, z, i)
  PROVE  Keeps(s, z, {i}) /\ SameContents(s, z, {})
<1>1. Len(s.files) \in Nat /\ Len(s.inodes) \in Nat
  BY DEF IsFs
<1>2. SameContents(s, z, {})
  BY SameDisk DEF InodeStep
<1>3. SameContents(s, z, {i})
  BY <1>2 DEF SameContents
<1> QED BY <1>1, <1>2, <1>3 DEF Keeps, InodeStep

LEMMA FilesKeep ==
  ASSUME NEW s, IsFs(s), NEW z, FilesStep(s, z)
  PROVE  Keeps(s, z, {})
<1>1. Len(s.files) \in Nat /\ Len(s.inodes) \in Nat
  BY DEF IsFs
<1>2. SameContents(s, z, {})
  BY SameDisk DEF FilesStep
<1> QED BY <1>1, <1>2 DEF Keeps, FilesStep

StepFrame(t, I) ==
  /\ mode' = mode /\ prog' \in [Threads -> Seq(CallTypes)] /\ DOMAIN ctl' = Threads
  /\ \A u \in Threads : u # t => ctl'[u] = ctl[u] /\ prog'[u] = prog[u]
  /\ Keeps(fs, fs', I) /\ FileInodes(fs')
  /\ \A i \in 1 .. Len(fs.inodes) : i \in I => fs.inodes[i].lock \in {t, Nobody}
  /\ \A i \in 1 .. Len(fs'.inodes) : i > Len(fs.inodes) => i \in I
  /\ IsSpec(spec', Len(fs'.inodes))
  /\ \A i \in 2 .. Len(fs.inodes) : i \notin I => spec'.data[i] = spec.data[i]
  /\ Dir \notin I => spec'.names = spec.names

\* And what it has to see to itself.
StepOwn(t, I) ==
  /\ ThreadOK(t)'
  /\ \A i \in 1 .. Len(fs'.inodes) : i \notin I => (HoldsInode(t, i)' <=> HoldsInode(t, i))
  /\ \A i \in 1 .. Len(fs'.inodes) : i \in I => /\ fs'.inodes[i].lock \in {t, Nobody}
                                                /\ fs'.inodes[i].lock = t <=> HoldsInode(t, i)'
  /\ \A i \in 2 .. Len(fs'.inodes) : i \in I /\ fs'.inodes[i].lock = Nobody => FileOK(i)'
  /\ Dir \in I => NamedInodes(fs') /\ (fs'.inodes[Dir].lock = Nobody => DirOK')

\* A thread that makes no step still satisfies the invariant.
LEMMA OthersOK ==
  ASSUME IInv, NEW t \in Threads, NEW I, StepFrame(t, I), NEW u \in Threads, u # t
  PROVE  ThreadOK(u)'
<1>0. /\ ctl'[u] = ctl[u] /\ prog'[u] = prog[u] /\ Keeps(fs, fs', I)
      /\ IsFs(fs) /\ IsFs(fs') /\ Len(fs.files) \in Nat /\ Len(fs.inodes) \in Nat
      /\ Len(fs'.files) \in Nat /\ Len(fs'.inodes) \in Nat
      /\ Len(fs.files) <= Len(fs'.files) /\ Len(fs.inodes) <= Len(fs'.inodes)
  BY DEF StepFrame, Keeps, IInv, TypeInv, IsFs
<1>1. Call(u)' = Call(u)
  BY <1>0 DEF Call
<1>2. ASSUME NEW ops, OnFile(u, ops)
      PROVE  /\ OnFile(u, ops)' /\ File(u)'.inode = File(u).inode /\ File(u)'.flags = File(u).flags
             /\ File(u).inode \in 2 .. Len(fs.inodes)
  <2>1. Call(u).fd \in 1 .. Len(fs.files) /\ Call(u)'.fd = Call(u).fd
    BY <1>1, <1>2 DEF OnFile
  <2>2. OnFile(u, ops)'
    BY <1>0, <1>1, <1>2, <2>1 DEF OnFile, InCall
  <2>3. File(u)'.inode = File(u).inode /\ File(u)'.flags = File(u).flags
    BY <1>0, <2>1 DEF File, Keeps
  <2>4. File(u).inode \in 2 .. Len(fs.inodes)
    BY <2>1 DEF File, IInv, TypeInv, FileInodes
  <2> QED BY <2>2, <2>3, <2>4
<1>3. ASSUME NEW i \in 1 .. Len(fs.inodes), HoldsInode(u, i)
      PROVE  i \notin I
  <2>1. fs.inodes[i].lock = u
    BY <1>3 DEF IInv, Owners
  <2>2. fs.inodes[i].lock \notin {t, Nobody}
    BY <2>1, ThreadsAssumption DEF Nobody
  <2> QED BY <2>2 DEF StepFrame
<1>4. ThreadOK(u)
  BY DEF IInv
<1>5. CASE Resting(u)
  BY <1>0, <1>5 DEF ThreadOK, Resting
<1>6. CASE Renaming(u)
  <2>1. Dir \in 1 .. Len(fs.inodes) /\ HoldsInode(u, Dir)
    BY <1>0, <1>6 DEF HoldsInode, Renaming, Dir, IsFs
  <2>2. Dir \notin I
    BY <1>3, <2>1
  <2>3. spec'.names = spec.names /\ \A n : Lookup(fs', n) = Lookup(fs, n)
    BY <1>0, <2>2 DEF StepFrame, Keeps, SameContents
  <2>4. NamesAt(u)' = NamesAt(u)
    BY <1>0, <1>1, <2>3 DEF NamesAt
  <2>5. Renaming(u)'
    BY <1>0, <1>1, <1>6, <2>3, <2>4 DEF Renaming, InCall
  <2> QED BY <2>5 DEF ThreadOK
<1>7. CASE Truncating(u)
  BY <1>0, <1>7 DEF ThreadOK, Truncating
<1>8. CASE Starting(u)
  <2>1. OnFile(u, {"write", "pwrite"})'
    BY <1>2, <1>8 DEF Starting
  <2> QED BY <1>0, <1>8, <2>1 DEF ThreadOK, Starting
<1>9. CASE Writing(u)
  <2> DEFINE i == File(u).inode
  <2>1. /\ OnFile(u, {"write", "pwrite"})' /\ File(u)'.inode = i /\ File(u)'.flags = File(u).flags
        /\ i \in 2 .. Len(fs.inodes)
    BY <1>2, <1>9 DEF Writing
  <2>2. HoldsInode(u, i) /\ i \in 1 .. Len(fs.inodes)
    BY <1>9, <2>1 DEF HoldsInode, Writing
  <2>3. i \notin I
    BY <1>3, <2>2
  <2>4. /\ spec'.data[i] = spec.data[i] /\ fs'.inodes[i].isize = fs.inodes[i].isize
        /\ \A p : Data(fs', i, p) = Data(fs, i, p)
    BY <1>0, <2>1, <2>2, <2>3 DEF StepFrame, Keeps, SameContents
  <2>5. \A k : DataAt(u, k)' = DataAt(u, k)
    BY <1>0, <1>1, <2>1, <2>4 DEF DataAt
  <2>6. Writing(u)'
    <3> HIDE DEF i
    <3> USE <1>9 DEF Writing
    <3>1. /\ ctl'[u] \in [pc : WritePcs, off : Int, at : Int, end : Int, ord : Int, upto : Int, ret : Int]
          /\ ctl'[u].off <= ctl'[u].at /\ ctl'[u].at <= ctl'[u].upto /\ ctl'[u].upto <= ctl'[u].end
          /\ ctl'[u].end - ctl'[u].off <= Len(Call(u)'.buf)
          /\ ctl'[u].pc = "block" => ctl'[u].at = ctl'[u].upto /\ ctl'[u].at < ctl'[u].end
      BY <1>0, <1>1
    <3>2. /\ ctl'[u].pc = "written" => ctl'[u].at = ctl'[u].end /\ ctl'[u].end <= fs'.inodes[i].isize
          /\ "append" \in File(u)'.flags => ctl'[u].off = Len(spec'.data[i])
          /\ Len(spec'.data[i]) <= fs'.inodes[i].isize
          /\ fs'.inodes[i].isize = Len(spec'.data[i]) \/ fs'.inodes[i].isize <= ctl'[u].at
      BY <1>0, <2>1, <2>4 DEF i
    <3>3. \A k \in Nat \ {0} : k <= Len(spec'.data[i]) \/ k <= ctl'[u].at => Data(fs', i, k - 1) = DataAt(u, k)'
      BY <1>0, <2>4, <2>5 DEF i
    <3> QED BY <2>1, <3>1, <3>2, <3>3
  <2> QED BY <2>6 DEF ThreadOK
<1>10. CASE Reading(u)
  <2>1. OnFile(u, {"read", "pread"})'
    BY <1>2, <1>10 DEF Reading
  <2>2. Reading(u)'
    BY <1>0, <1>10, <2>1 DEF Reading
  <2> QED BY <2>2 DEF ThreadOK
<1> QED BY <1>4, <1>5, <1>6, <1>7, <1>8, <1>9, <1>10 DEF ThreadOK

\* The state of a call goes with its pc.
LEMMA PcCases ==
  ASSUME NEW t, ThreadOK(t)
  PROVE  /\ ctl[t].pc \in {"idle", "blocked"} => Resting(t)
         /\ ctl[t].pc \in RenamePcs => Renaming(t)
         /\ ctl[t].pc = "truncate" => Truncating(t)
         /\ ctl[t].pc = "write" => Starting(t)
         /\ ctl[t].pc \in WritePcs => Writing(t)
         /\ ctl[t].pc = "read" => Reading(t)
<1>1. Resting(t) => ctl[t].pc \in {"idle", "blocked"}
  BY DEF Resting
<1>2. Renaming(t) => ctl[t].pc \in RenamePcs
  BY DEF Renaming
<1>3. Truncating(t) => ctl[t].pc = "truncate"
  BY DEF Truncating
<1>4. Starting(t) => ctl[t].pc = "write"
  BY DEF Starting
<1>5. Writing(t) => ctl[t].pc \in WritePcs
  BY DEF Writing
<1>6. Reading(t) => ctl[t].pc = "read"
  BY DEF Reading
<1> HIDE DEF Resting, Renaming, Truncating, Starting, Writing, Reading
<1> QED BY <1>1, <1>2, <1>3, <1>4, <1>5, <1>6 DEF ThreadOK, RenamePcs, WritePcs

\* A thread that makes no step keeps its locks.
LEMMA OthersHold ==
  ASSUME IInv, NEW t \in Threads, NEW I, StepFrame(t, I), NEW u \in Threads, u # t
  PROVE  /\ \A i : HoldsInode(u, i)' <=> HoldsInode(u, i)
         /\ \A i : HoldsInode(u, i) => i \in 1 .. Len(fs.inodes)
<1>0. /\ ctl'[u] = ctl[u] /\ prog'[u] = prog[u] /\ Keeps(fs, fs', I)
      /\ IsFs(fs) /\ Len(fs.inodes) \in Nat /\ Len(fs.inodes) >= 1
  BY DEF StepFrame, Keeps, IInv, TypeInv, IsFs
<1>1. Dir \in 1 .. Len(fs.inodes)
  BY <1>0 DEF Dir
<1>2. CASE ctl[u].pc \in WritePcs
  <2>1. Writing(u)
    BY <1>2, PcCases DEF IInv
  <2>2. Call(u).fd \in 1 .. Len(fs.files) /\ Call(u)' = Call(u)
    BY <1>0, <2>1 DEF Writing, OnFile, Call
  <2>3. File(u)'.inode = File(u).inode /\ File(u).inode \in 2 .. Len(fs.inodes)
    BY <1>0, <2>2 DEF File, Keeps, IInv, TypeInv, FileInodes
  <2> QED BY <1>0, <1>1, <2>3 DEF HoldsInode
<1>3. CASE ctl[u].pc \notin WritePcs
  BY <1>0, <1>1, <1>3 DEF HoldsInode
<1> QED BY <1>2, <1>3

LEMMA Preserved ==
  ASSUME IInv, NEW t \in Threads, NEW I, StepFrame(t, I), StepOwn(t, I)
  PROVE  IInv'
<1>0. /\ mode' = mode /\ prog' \in [Threads -> Seq(CallTypes)] /\ DOMAIN ctl' = Threads
      /\ Keeps(fs, fs', I) /\ FileInodes(fs') /\ IsSpec(spec', Len(fs'.inodes))
      /\ IsFs(fs) /\ IsFs(fs')
      /\ Len(fs.inodes) \in Nat /\ Len(fs'.inodes) \in Nat
      /\ 1 <= Len(fs.inodes) /\ Len(fs.inodes) <= Len(fs'.inodes)
  BY DEF StepFrame, Keeps, IInv, TypeInv, IsFs
<1>1. Dir \in 1 .. Len(fs.inodes) /\ Dir \in 1 .. Len(fs'.inodes)
  BY <1>0 DEF Dir
<1>2. ASSUME Dir \notin I
      PROVE  /\ \A n : Lookup(fs', n) = Lookup(fs, n) /\ Named(fs', n) = Named(fs, n)
             /\ getInodeTransStatus(fs', Dir) = getInodeTransStatus(fs, Dir)
             /\ spec'.names = spec.names /\ fs'.inodes[Dir].lock = fs.inodes[Dir].lock
  BY <1>0, <1>1, <1>2 DEF StepFrame, Keeps, SameContents
<1>3. NamedInodes(fs')
  <2>1. CASE Dir \in I
    BY <2>1 DEF StepOwn
  <2>2. CASE Dir \notin I
    <3>1. NamedInodes(fs)
      BY DEF IInv, TypeInv
    <3> QED BY <1>0, <1>2, <2>2, <3>1 DEF NamedInodes
  <2> QED BY <2>1, <2>2
<1>4. TypeInv'
  <2>1. mode' \in Modes
    BY <1>0 DEF IInv, TypeInv
  <2> QED BY <1>0, <1>3, <2>1 DEF TypeInv
<1>5. \A u \in Threads : ThreadOK(u)'
  BY OthersOK DEF StepOwn
<1>6. ASSUME NEW u \in Threads, NEW i \in 1 .. Len(fs'.inodes)
      PROVE  fs'.inodes[i].lock = u <=> HoldsInode(u, i)'
  <2>1. CASE i \notin I
    <3>1. i \in 1 .. Len(fs.inodes)
      BY <1>0, <2>1 DEF StepFrame
    <3>2. fs'.inodes[i].lock = fs.inodes[i].lock
      BY <2>1, <3>1, <1>0 DEF Keeps
    <3>3. fs.inodes[i].lock = u <=> HoldsInode(u, i)
      BY <3>1 DEF IInv, Owners
    <3>4. HoldsInode(u, i)' <=> HoldsInode(u, i)
      BY <2>1, OthersHold DEF StepOwn
    <3> QED BY <3>2, <3>3, <3>4
  <2>2. CASE i \in I /\ u = t
    BY <2>2 DEF StepOwn
  <2>3. CASE i \in I /\ u # t
    <3>1. fs'.inodes[i].lock # u
      BY <2>3, ThreadsAssumption DEF StepOwn, Nobody
    <3>2. ~HoldsInode(u, i)
      <4> SUFFICES ASSUME HoldsInode(u, i) PROVE FALSE
        OBVIOUS
      <4>1. i \in 1 .. Len(fs.inodes)
        BY <2>3, OthersHold
      <4>2. fs.inodes[i].lock = u
        BY <4>1 DEF IInv, Owners
      <4>3. fs.inodes[i].lock \in {t, Nobody}
        BY <2>3, <4>1 DEF StepFrame
      <4> QED BY <2>3, <4>2, <4>3, ThreadsAssumption DEF Nobody
    <3> QED BY <2>3, <3>1, <3>2, OthersHold
  <2> QED BY <2>1, <2>2, <2>3
<1>7. Owners'
  BY <1>6 DEF Owners
<1>8. ASSUME NEW i \in 2 .. Len(fs'.inodes)
      PROVE  fs'.inodes[i].lock = Nobody => FileOK(i)'
  <2>1. CASE i \in I
    BY <2>1 DEF StepOwn
  <2>2. CASE i \notin I
    <3>1. i \in 2 .. Len(fs.inodes)
      BY <1>0, <2>2 DEF StepFrame
    <3>2. /\ fs'.inodes[i].lock = fs.inodes[i].lock /\ fs'.inodes[i].isize = fs.inodes[i].isize
          /\ \A p : Data(fs', i, p) = Data(fs, i, p)
      BY <1>0, <2>2, <3>1 DEF Keeps, SameContents
    <3>3. fs.inodes[i].lock = Nobody => FileOK(i)
      BY <3>1 DEF IInv
    <3>4. spec'.data[i] = spec.data[i]
      BY <2>2, <3>1 DEF StepFrame
    <3>5. FileOK(i) => FileOK(i)'
      BY <3>2, <3>4 DEF FileOK
    <3> QED BY <3>2, <3>3, <3>5
  <2> QED BY <2>1, <2>2
<1>9. fs'.inodes[Dir].lock = Nobody => DirOK'
  <2>1. CASE Dir \in I
    BY <2>1 DEF StepOwn
  <2>2. CASE Dir \notin I
    <3>1. DirOK => DirOK'
      BY <1>2, <2>2 DEF DirOK
    <3> QED BY <1>2, <2>2, <3>1 DEF IInv
  <2> QED BY <2>1, <2>2
<1> HIDE DEF TypeInv, Owners, ThreadOK, FileOK, DirOK
<1> QED BY <1>4, <1>5, <1>7, <1>8, <1>9 DEF IInv

-----------------------------------------------------------------------------
(* The ends of calls.                                                      *)

\* What a step does to the control of the other threads: nothing.
CtlStep(t) ==
  /\ prog' \in [Threads -> Seq(CallTypes)] /\ DOMAIN ctl' = Threads
  /\ \A u \in Threads : u # t => ctl'[u] = ctl[u] /\ prog'[u] = prog[u]

LEMMA ReturnFacts ==
  ASSUME IInv, NEW t \in Threads, prog[t] # <<>>, NEW v \in Int, Return(t, v)
  PROVE  CtlStep(t) /\ Resting(t)' /\ ctl'[t].pc = "idle"
<1>1. prog \in [Threads -> Seq(CallTypes)] /\ DOMAIN ctl = Threads
  BY DEF IInv, TypeInv
<1>2. Tail(prog[t]) \in Seq(CallTypes)
  BY <1>1
<1>3. prog' = [prog EXCEPT ![t] = Tail(prog[t])] /\ ctl' = [ctl EXCEPT ![t] = [pc |-> "idle", ret |-> v]]
  BY DEF Return
<1>4. prog' \in [Threads -> Seq(CallTypes)] /\ \A u \in Threads : u # t => prog'[u] = prog[u]
  BY <1>1, <1>2, <1>3
<1>5. DOMAIN ctl' = Threads /\ \A u \in Threads : u # t => ctl'[u] = ctl[u]
  BY <1>1, <1>3
<1>6. ctl'[t] = [pc |-> "idle", ret |-> v]
  BY <1>1, <1>3
<1> QED BY <1>4, <1>5, <1>6 DEF CtlStep, Resting

LEMMA ContinueFacts ==
  ASSUME IInv, NEW t \in Threads, NEW c, Continue(t, c)
  PROVE  CtlStep(t) /\ ctl'[t] = c /\ prog' = prog
BY DEF IInv, TypeInv, Continue, CtlStep

LEMMA BlockFacts ==
  ASSUME IInv, NEW t \in Threads, Block(t)
  PROVE  CtlStep(t) /\ Resting(t)' /\ ctl'[t].pc = "blocked"
<1>1. Continue(t, [pc |-> "blocked", ret |-> 0])
  BY DEF Block, Continue
<1> QED BY <1>1, ContinueFacts DEF Resting

\* The calls and their arguments.
LEMMA CallFields ==
  ASSUME NEW c \in CallTypes
  PROVE  /\ c.op = "open" => c.name \in Names /\ c.flags \in SUBSET Flags
         /\ c.op \in {"link", "rename"} => c.from \in Names /\ c.to \in Names
         /\ c.op \in {"unlink", "truncate"} => c.name \in Names
         /\ c.op = "truncate" => c.len \in Int
         /\ c.op \in {"write", "pwrite"} => c.buf \in Seq(Int)
         /\ c.op \in {"pwrite", "pread", "lseek"} => c.offset \in Int
         /\ c.op \in {"read", "pread"} => c.n \in Nat
         /\ c.op \in {"write", "pwrite", "read", "pread", "lseek", "fsync", "close"} => c.fd \in Int
BY DEF CallTypes

LEMMA CallTyped ==
  ASSUME IInv, NEW t \in Threads, prog[t] # <<>>
  PROVE  Call(t) \in CallTypes
<1>1. prog[t] \in Seq(CallTypes)
  BY DEF IInv, TypeInv
<1> QED BY <1>1 DEF Call

\* A thread that holds no lock of an inode.
Free(t) == ctl[t].pc \notin RenamePcs \cup WritePcs

LEMMA FreeHolds ==
  ASSUME NEW t, Free(t)
  PROVE  \A i : ~HoldsInode(t, i)
BY DEF Free, HoldsInode

LEMMA RestingFree ==
  ASSUME NEW t, Resting(t)
  PROVE  Free(t) /\ ThreadOK(t)
BY DEF Free, Resting, RenamePcs, WritePcs, ThreadOK

LEMMA ErrorFacts ==
  ASSUME NEW s, IsFs(s), NEW z, z = [s EXCEPT !.error = TRUE]
  PROVE  FilesStep(s, z) /\ z.files = s.files
<1>1. /\ z.files = s.files /\ z.inodes = s.inodes /\ z.disk = s.disk /\ z.known = s.known
      /\ z.error = TRUE /\ IsRec(z)
  BY DEF IsFs, IsRec
<1>2. IsFs(z)
  BY <1>1 DEF IsFs, IsRec
<1>3. Len(s.files) \in Nat
  BY DEF IsFs
<1> QED BY <1>1, <1>2, <1>3 DEF FilesStep

LEMMA SameFileInodes ==
  ASSUME NEW s, FileInodes(s), NEW z, FilesStep(s, z), Len(z.files) = Len(s.files)
  PROVE  FileInodes(z)
BY DEF FilesStep, FileInodes

LEMMA FinishAccessFacts ==
  ASSUME IInv, NEW t \in Threads, prog[t] # <<>>, NEW s, IsFs(s), FileInodes(s),
         Call(t).fd \in 1 .. Len(s.files), NEW v \in Int, FinishAccess(t, s, v)
  PROVE  CtlStep(t) /\ FilesStep(s, fs') /\ FileInodes(fs') /\ Free(t)' /\ ThreadOK(t)'
<1>1. \E w \in Int : Return(t, w)
  BY DEF FinishAccess
<1>2. CtlStep(t) /\ Resting(t)'
  BY <1>1, ReturnFacts
<1>3. fs' = s \/ fs' = Released(s, t, v)
  BY DEF FinishAccess
<1>4. FilesStep(s, fs') /\ Len(fs'.files) = Len(s.files)
  BY <1>3, ReleasedFacts, SameIsFilesStep
<1>5. Free(t)' /\ ThreadOK(t)'
  BY <1>2, RestingFree DEF Free, Resting, RenamePcs, WritePcs, ThreadOK
<1> QED BY <1>2, <1>4, <1>5, SameFileInodes

LEMMA FinishOpenFacts ==
  ASSUME IInv, NEW t \in Threads, prog[t] # <<>>, ctl[t].pc = "idle", NEW s, IsFs(s), FileInodes(s),
         NEW i, i = NoInode \/ i \in 2 .. Len(s.inodes), NEW flags \in SUBSET Flags,
         FinishOpen(t, s, i, flags)
  PROVE  CtlStep(t) /\ FilesStep(s, fs') /\ FileInodes(fs') /\ Free(t)' /\ ThreadOK(t)'
<1>0. Len(s.files) \in Nat /\ Len(s.inodes) \in Nat
  BY DEF IsFs
<1> DEFINE o == executeOpenFS(s, t, i, flags)
<1>1. ASSUME i # NoInode
      PROVE  FilesStep(s, o) /\ FileInodes(o) /\ IsFs(o)
  <2>1. i \in 2 .. Len(s.inodes) /\ i \in Nat
    BY <1>0, <1>1
  <2>2. /\ FilesStep(s, o) /\ Len(o.files) = Len(s.files) + 1
        /\ o.files[Len(s.files) + 1].inode = i
        /\ \A g \in 1 .. Len(s.files) : o.files[g] = s.files[g]
    BY <2>1, OpenFacts
  <2> HIDE DEF o
  <2>3. ASSUME NEW f \in 1 .. Len(o.files) PROVE o.files[f].inode \in 2 .. Len(s.inodes)
    <3>1. CASE f = Len(s.files) + 1
      BY <2>1, <2>2, <3>1
    <3>2. CASE f # Len(s.files) + 1
      <4>1. f \in 1 .. Len(s.files)
        BY <1>0, <2>2, <3>2
      <4>2. s.files[f].inode \in 2 .. Len(s.inodes)
        BY <4>1 DEF FileInodes
      <4> QED BY <2>2, <4>1, <4>2
    <3> QED BY <3>1, <3>2
  <2>4. o.inodes = s.inodes /\ IsFs(o)
    BY <2>2 DEF FilesStep
  <2>5. FileInodes(o)
    BY <2>3, <2>4 DEF FileInodes
  <2> QED BY <2>2, <2>4, <2>5
<1>2. visitDskOpen(s) \in Int /\ -1 \in Int
  BY <1>0 DEF visitDskOpen
<1>3. ASSUME NEW v \in Int, Return(t, v)
      PROVE  CtlStep(t) /\ Free(t)' /\ ThreadOK(t)'
  <2>1. CtlStep(t) /\ Resting(t)'
    BY <1>3, ReturnFacts
  <2> QED BY <2>1 DEF Free, Resting, RenamePcs, WritePcs, ThreadOK
<1>4. CASE i = NoInode /\ fs' = s /\ Return(t, -1)
  BY <1>2, <1>3, <1>4, SameIsFilesStep
<1>5. CASE i # NoInode /\ fs' = o /\ Return(t, visitDskOpen(s))
  <2> HIDE DEF o
  <2>1. FilesStep(s, fs') /\ FileInodes(fs')
    BY <1>1, <1>5
  <2>2. CtlStep(t) /\ Free(t)' /\ ThreadOK(t)'
    BY <1>2, <1>3, <1>5
  <2> QED BY <2>1, <2>2
<1>6. CASE /\ i # NoInode /\ fs' = o
           /\ Continue(t, [pc |-> "truncate", inode |-> i, len |-> 0, ret |-> visitDskOpen(s)])
  <2> HIDE DEF o
  <2>1. /\ CtlStep(t) /\ prog' = prog
        /\ ctl'[t] = [pc |-> "truncate", inode |-> i, len |-> 0, ret |-> visitDskOpen(s)]
    BY <1>6, ContinueFacts
  <2>2. FilesStep(s, fs') /\ FileInodes(fs')
    BY <1>1, <1>6
  <2>3. i \in 2 .. Len(fs'.inodes) /\ i \in Nat
    BY <1>0, <1>6, <2>2 DEF FilesStep
  <2>4. Truncating(t)'
    BY <1>2, <2>1, <2>3 DEF Truncating
  <2> QED BY <2>1, <2>2, <2>4 DEF Free, RenamePcs, WritePcs, ThreadOK
<1>7. CASE i # NoInode /\ fs' = [o EXCEPT !.error = TRUE] /\ UNCHANGED <<prog, ctl>>
  <2>1. Resting(t)
    BY PcCases DEF IInv
  <2>2. CtlStep(t) /\ Free(t)' /\ ThreadOK(t)'
    BY <1>7, <2>1 DEF CtlStep, Free, Resting, RenamePcs, WritePcs, ThreadOK, IInv, TypeInv
  <2> HIDE DEF o
  <2>3. FilesStep(o, fs') /\ fs'.files = o.files /\ FilesStep(s, o) /\ FileInodes(o)
    BY <1>1, <1>7, ErrorFacts
  <2>4. FilesStep(s, fs') /\ FileInodes(fs')
    BY <2>3 DEF FilesStep, FileInodes
  <2> QED BY <2>2, <2>4
<1> QED BY <1>4, <1>5, <1>6, <1>7 DEF FinishOpen

-----------------------------------------------------------------------------
(* Steps that change no file.                                              *)

Quiet(s, z) == Keeps(s, z, {}) /\ Len(z.inodes) = Len(s.inodes) /\ Len(z.files) = Len(s.files)

LEMMA QuietSelf ==
  ASSUME NEW s, IsFs(s)
  PROVE  Quiet(s, s)
BY SameDisk DEF Quiet, Keeps, IsFs

LEMMA QuietTrans ==
  ASSUME NEW s, NEW x, NEW z, IsFs(s), Quiet(s, x), Quiet(x, z)
  PROVE  Quiet(s, z)
BY KeepsTrans DEF Quiet

LEMMA DiskQuiet ==
  ASSUME NEW s, IsFs(s), NEW z, DiskStep(s, z), SameContents(s, z, {})
  PROVE  Quiet(s, z)
BY DiskKeeps DEF Quiet, DiskStep

LEMMA KnownQuiet ==
  ASSUME NEW s, IsFs(s), NEW z, KnownStep(s, z)
  PROVE  Quiet(s, z)
BY DiskQuiet, SameDisk DEF KnownStep

LEMMA FilesQuiet ==
  ASSUME NEW s, IsFs(s), NEW z, FilesStep(s, z), Len(z.files) = Len(s.files)
  PROVE  Quiet(s, z)
BY FilesKeep DEF Quiet, FilesStep

LEMMA QuietFileInodes ==
  ASSUME NEW s, FileInodes(s), NEW z, Quiet(s, z)
  PROVE  FileInodes(z)
BY DEF Quiet, Keeps, FileInodes

\* The lock of a free inode is taken and given back.
LEMMA LockedQuiet ==
  ASSUME NEW s, IsFs(s), NEW t \in Threads, NEW i \in 1 .. Len(s.inodes), s.inodes[i].lock = Nobody,
         NEW l, KnownStep(LockInode(s, t, i), l), NEW z, z = UnlockInode(l, t, i)
  PROVE  Quiet(s, z) /\ z.files = s.files
<1> DEFINE x == LockInode(s, t, i)
<1>1. InodeStep(s, x, i) /\ x.inodes[i].isize = s.inodes[i].isize
  BY LockInodeFacts
<1>2. KnownStep(x, l)
  OBVIOUS
<1> HIDE DEF x
<1>3. IsFs(l) /\ Len(l.inodes) = Len(s.inodes)
  BY <1>1, <1>2 DEF KnownStep, DiskStep, InodeStep
<1>4. /\ InodeStep(l, z, i) /\ z.inodes[i].lock = Nobody /\ z.inodes[i].isize = l.inodes[i].isize
  BY <1>3, UnlockInodeFacts
<1>5. /\ IsFs(z) /\ z.files = s.files /\ z.disk = s.disk /\ Len(z.inodes) = Len(s.inodes)
      /\ \A j \in 1 .. Len(s.inodes) : z.inodes[j].lock = s.inodes[j].lock
                                       /\ z.inodes[j].isize = s.inodes[j].isize
  BY <1>1, <1>2, <1>3, <1>4 DEF KnownStep, DiskStep, InodeStep
<1>6. Len(s.files) \in Nat /\ Len(s.inodes) \in Nat
  BY DEF IsFs
<1>7. SameContents(s, z, {})
  BY <1>5, SameDisk
<1> QED BY <1>5, <1>6, <1>7 DEF Quiet, Keeps

LEMMA QuietStep ==
  ASSUME IInv, NEW t \in Threads, mode' = mode, spec' = spec, CtlStep(t),
         Keeps(fs, fs', {}), Len(fs'.inodes) = Len(fs.inodes), FileInodes(fs'),
         \A i : HoldsInode(t, i)' <=> HoldsInode(t, i), ThreadOK(t)'
  PROVE  IInv'
<1>1. IsSpec(spec', Len(fs'.inodes)) /\ Len(fs.inodes) \in Nat
  BY DEF IInv, TypeInv, IsFs
<1>2. StepFrame(t, {})
  BY <1>1 DEF StepFrame, CtlStep
<1>3. StepOwn(t, {})
  BY DEF StepOwn
<1> QED BY <1>2, <1>3, Preserved

LEMMA FreeStep ==
  ASSUME NEW t, Free(t), Free(t)'
  PROVE  \A i : HoldsInode(t, i)' <=> HoldsInode(t, i)
BY DEF Free, HoldsInode

LEMMA QuietReturn ==
  ASSUME IInv, NEW t \in Threads, mode' = mode, spec' = spec, prog[t] # <<>>, Free(t),
         Quiet(fs, fs'), NEW v \in Int, Return(t, v)
  PROVE  IInv'
<1>1. CtlStep(t) /\ Resting(t)'
  BY ReturnFacts
<1>2. Free(t)' /\ ThreadOK(t)'
  BY <1>1, RestingFree DEF Free, Resting, RenamePcs, WritePcs, ThreadOK
<1>3. FileInodes(fs')
  BY QuietFileInodes DEF IInv, TypeInv
<1> QED BY <1>1, <1>2, <1>3, FreeStep, QuietStep DEF Quiet

LEMMA QuietFinish ==
  ASSUME IInv, NEW t \in Threads, mode' = mode, spec' = spec, prog[t] # <<>>, Free(t),
         Call(t).fd \in 1 .. Len(fs.files), NEW s, Quiet(fs, s), NEW v \in Int, FinishAccess(t, s, v)
  PROVE  IInv'
<1>1. IsFs(fs) /\ IsFs(s) /\ FileInodes(s) /\ Call(t).fd \in 1 .. Len(s.files)
  BY QuietFileInodes DEF IInv, TypeInv, Quiet, Keeps
<1>2. CtlStep(t) /\ FilesStep(s, fs') /\ FileInodes(fs') /\ Free(t)' /\ ThreadOK(t)'
  BY <1>1, FinishAccessFacts
<1>3. Keeps(s, fs', {}) /\ Len(fs'.inodes) = Len(s.inodes)
  BY <1>1, <1>2, FilesKeep DEF FilesStep
<1>4. Keeps(fs, fs', {}) /\ Len(fs'.inodes) = Len(fs.inodes)
  BY <1>1, <1>3, KeepsTrans DEF Quiet
<1> QED BY <1>2, <1>4, FreeStep, QuietStep

LEMMA QuietOpen ==
  ASSUME IInv, NEW t \in Threads, mode' = mode, spec' = spec, prog[t] # <<>>, ctl[t].pc = "idle",
         NEW s, Quiet(fs, s), NEW i, i = NoInode \/ i \in 2 .. Len(fs.inodes),
         NEW flags \in SUBSET Flags, FinishOpen(t, s, i, flags)
  PROVE  IInv'
<1>1. /\ IsFs(fs) /\ IsFs(s) /\ FileInodes(s) /\ (i = NoInode \/ i \in 2 .. Len(s.inodes))
  BY QuietFileInodes DEF IInv, TypeInv, Quiet, Keeps
<1>2. CtlStep(t) /\ FilesStep(s, fs') /\ FileInodes(fs') /\ Free(t)' /\ ThreadOK(t)'
  BY <1>1, FinishOpenFacts
<1>3. Keeps(s, fs', {}) /\ Len(fs'.inodes) = Len(s.inodes)
  BY <1>1, <1>2, FilesKeep DEF FilesStep
<1>4. Keeps(fs, fs', {}) /\ Len(fs'.inodes) = Len(fs.inodes)
  BY <1>1, <1>3, KeepsTrans DEF Quiet
<1>5. Free(t)
  BY DEF Free, RenamePcs, WritePcs
<1> QED BY <1>2, <1>4, <1>5, FreeStep, QuietStep

\* A call that has not yet begun.
LEMMA StartsFacts ==
  ASSUME IInv, NEW t \in Threads, NEW ops, Starts(t, ops)
  PROVE  /\ prog[t] # <<>> /\ ctl[t].pc = "idle" /\ Free(t) /\ Call(t) \in CallTypes
         /\ Call(t).op \in ops /\ IsFs(fs) /\ ~fs.error /\ Resting(t)
BY CallTyped, PcCases DEF Starts, Calls, Free, RenamePcs, WritePcs, IInv, TypeInv

LEMMA FdFacts ==
  ASSUME IInv, NEW t \in Threads, HasFile(Call(t).fd)
  PROVE  /\ Call(t).fd \in 1 .. Len(fs.files) /\ File(t).inode \in 2 .. Len(fs.inodes)
         /\ File(t) \in FileRec /\ File(t).flags \in SUBSET Flags /\ File(t).offset \in Int
         /\ File(t).inode \in 1 .. Len(fs.inodes) /\ File(t).inode # Dir /\ File(t).inode \in Nat
<1>1. Call(t).fd \in 1 .. Len(fs.files)
  BY DEF HasFile, IInv, TypeInv, IsFs
<1>2. File(t).inode \in 2 .. Len(fs.inodes) /\ Len(fs.inodes) \in Nat
  BY <1>1 DEF File, IInv, TypeInv, FileInodes, IsFs
<1>3. /\ File(t) \in FileRec /\ File(t).flags \in SUBSET Flags /\ File(t).offset \in Int
  BY <1>1, FileFields DEF File, IInv, TypeInv
<1> QED BY <1>1, <1>2, <1>3 DEF Dir

LEMMA BadDescriptorKeeps ==
  ASSUME IInv, NEW t \in Threads, BadDescriptor(t)
  PROVE  IInv'
<1>1. prog[t] # <<>> /\ Free(t) /\ IsFs(fs) /\ Resting(t)
  BY StartsFacts DEF BadDescriptor
<1>2. CASE Return(t, -1) /\ UNCHANGED <<mode, fs, spec, rec>>
  <2>1. Quiet(fs, fs') /\ -1 \in Int
    BY <1>1, <1>2, QuietSelf
  <2> QED BY <1>1, <1>2, <2>1, QuietReturn
<1>3. CASE Fail(t, fs)
  <2>1. FilesStep(fs, fs') /\ fs'.files = fs.files
    BY <1>1, <1>3, ErrorFacts DEF Fail
  <2>2. Quiet(fs, fs') /\ CtlStep(t) /\ mode' = mode /\ spec' = spec
    BY <1>1, <1>3, <2>1, FilesQuiet DEF Fail, CtlStep, IInv, TypeInv
  <2>3. Resting(t)' /\ ThreadOK(t)' /\ Free(t)'
    BY <1>1, <1>3 DEF Fail, Resting, ThreadOK, Free
  <2>4. FileInodes(fs')
    BY <2>2, QuietFileInodes DEF IInv, TypeInv
  <2> QED BY <1>1, <2>2, <2>3, <2>4, FreeStep, QuietStep DEF Quiet
<1> QED BY <1>2, <1>3 DEF BadDescriptor

LEMMA SameReturn ==
  ASSUME IInv, NEW t \in Threads, prog[t] # <<>>, Free(t), NEW v \in Int, Return(t, v),
         UNCHANGED <<mode, fs, spec>>
  PROVE  IInv'
<1>1. IsFs(fs) /\ Quiet(fs, fs')
  BY QuietSelf DEF IInv, TypeInv
<1> QED BY <1>1, QuietReturn

LEMMA OpenBadFlagsKeeps ==
  ASSUME IInv, NEW t \in Threads, OpenBadFlags(t)
  PROVE  IInv'
<1>1. prog[t] # <<>> /\ Free(t) /\ -1 \in Int
  BY StartsFacts DEF OpenBadFlags
<1> QED BY <1>1, SameReturn DEF OpenBadFlags

LEMMA BadOffsetKeeps ==
  ASSUME IInv, NEW t \in Threads, BadOffset(t)
  PROVE  IInv'
<1>1. prog[t] # <<>> /\ Free(t) /\ -1 \in Int
  BY StartsFacts DEF BadOffset
<1> QED BY <1>1, SameReturn DEF BadOffset

LEMMA SameBlock ==
  ASSUME IInv, NEW t \in Threads, Free(t), Block(t), UNCHANGED <<mode, fs, spec>>
  PROVE  IInv'
<1>1. IsFs(fs) /\ Quiet(fs, fs') /\ FileInodes(fs')
  BY QuietSelf, QuietFileInodes DEF IInv, TypeInv
<1>2. CtlStep(t) /\ Resting(t)'
  BY BlockFacts
<1>3. ThreadOK(t)' /\ Free(t)'
  BY <1>2 DEF Resting, ThreadOK, Free, RenamePcs, WritePcs
<1> QED BY <1>1, <1>2, <1>3, FreeStep, QuietStep DEF Quiet

\* What a lookup without the lock finds: no inode, or a file the name once had.
LEMMA OpenLookupFacts ==
  ASSUME IsFs(fs), NEW t \in Threads, NEW n, NEW w \in CoherentStores(fs, t, Loc(Dir, "trans", 0)),
         NEW s, s = ReadFrom(fs, t, w), NEW v \in CoherentStores(s, t, Loc(Dir, "name", n)),
         NEW z, z = ReadFrom(s, t, v)
  PROVE  KnownStep(fs, s) /\ KnownStep(fs, z) /\ ValueOf(fs, v) \in {NoInode} \cup Named(fs, n)
<1>1. KnownStep(fs, s)
  BY StoresAre, ReadFromFacts
<1>2. IsFs(s) /\ s.disk = fs.disk
  BY <1>1 DEF KnownStep, DiskStep
<1>3. v \in {0} \cup StoresTo(s, Loc(Dir, "name", n))
  BY <1>2, StoresAre
<1>4. KnownStep(s, z)
  BY <1>2, <1>3, ReadFromFacts
<1>5. KnownStep(fs, z)
  BY <1>1, <1>4, KnownStepTrans
<1>6. v \in {0} \cup StoresTo(fs, Loc(Dir, "name", n))
  BY <1>2, <1>3 DEF StoresTo
<1>7. ValueOf(fs, v) \in {NoInode} \cup Named(fs, n)
  BY <1>6 DEF ValueOf, Named, Values, NoInode
<1> QED BY <1>1, <1>5, <1>7

LEMMA OpenLookupKeeps ==
  ASSUME IInv, NEW t \in Threads, OpenLookup(t)
  PROVE  IInv'
<1>1. /\ prog[t] # <<>> /\ Free(t) /\ ctl[t].pc = "idle" /\ IsFs(fs) /\ mode' = mode /\ spec' = spec
      /\ Call(t).name \in Names /\ Call(t).flags \in SUBSET Flags
  BY StartsFacts, CallFields DEF OpenLookup
<1>2. CASE Block(t) /\ UNCHANGED fs
  BY <1>1, <1>2, SameBlock
<1>3. ASSUME NEW w \in CoherentStores(fs, t, Loc(Dir, "trans", 0)), NEW s, s = ReadFrom(fs, t, w),
             NEW v \in CoherentStores(s, t, Loc(Dir, "name", Call(t).name)),
             FinishOpen(t, ReadFrom(s, t, v), ValueOf(fs, v), Call(t).flags)
      PROVE  IInv'
  <2> DEFINE z == ReadFrom(s, t, v)
             i == ValueOf(fs, v)
  <2>1. KnownStep(fs, z) /\ i \in {NoInode} \cup Named(fs, Call(t).name)
    BY <1>1, <1>3, OpenLookupFacts
  <2>2. i = NoInode \/ i \in 2 .. Len(fs.inodes)
    BY <1>1, <2>1 DEF IInv, TypeInv, NamedInodes
  <2>3. FinishOpen(t, z, i, Call(t).flags)
    BY <1>3
  <2> HIDE DEF z, i
  <2>4. Quiet(fs, z)
    BY <1>1, <2>1, KnownQuiet
  <2> QED BY <1>1, <2>2, <2>3, <2>4, QuietOpen
<1> QED BY <1>2, <1>3 DEF OpenLookup

\* A call that looks at the directory under its lock, and finds what it needs.
LEMMA DirFacts ==
  ASSUME IInv, NEW t \in Threads
  PROVE  /\ Dir \in 1 .. Len(fs.inodes) /\ IsFs(fs)
         /\ KnownStep(LockInode(fs, t, Dir), LockInode(fs, t, Dir))
         /\ \A n : KnownStep(LockInode(fs, t, Dir), LookupReads(LockInode(fs, t, Dir), t, n))
         /\ \A m, n : KnownStep(LockInode(fs, t, Dir),
                                LookupReads(LookupReads(LockInode(fs, t, Dir), t, m), t, n))
<1>1. Dir \in 1 .. Len(fs.inodes) /\ IsFs(fs)
  BY DEF IInv, TypeInv, IsFs, Dir
<1> DEFINE x == LockInode(fs, t, Dir)
<1>2. InodeStep(fs, x, Dir)
  BY <1>1, LockInodeFacts
<1> HIDE DEF x
<1>3. IsFs(x) /\ KnownStep(x, x)
  BY <1>2 DEF InodeStep, KnownStep, DiskStep
<1>4. \A n : KnownStep(x, LookupReads(x, t, n))
  BY <1>3, LookupReadsFacts
<1>5. \A m, n : KnownStep(x, LookupReads(LookupReads(x, t, m), t, n))
  <2> TAKE m, n
  <2>1. KnownStep(x, LookupReads(x, t, m)) /\ IsFs(LookupReads(x, t, m))
    BY <1>4 DEF KnownStep, DiskStep
  <2>2. KnownStep(LookupReads(x, t, m), LookupReads(LookupReads(x, t, m), t, n))
    BY <2>1, LookupReadsFacts
  <2> QED BY <2>1, <2>2, KnownStepTrans
<1> QED BY <1>1, <1>3, <1>4, <1>5 DEF x

LEMMA DirQuiet ==
  ASSUME IInv, NEW t \in Threads, InodeFree(Dir), NEW l, KnownStep(LockInode(fs, t, Dir), l),
         NEW z, z = UnlockInode(l, t, Dir)
  PROVE  Quiet(fs, z)
BY DirFacts, LockedQuiet DEF InodeFree

LEMMA TruncateLookupKeeps ==
  ASSUME IInv, NEW t \in Threads, TruncateLookup(t)
  PROVE  IInv'
<1>1. /\ prog[t] # <<>> /\ Free(t) /\ IsFs(fs) /\ mode' = mode /\ spec' = spec
      /\ Call(t).name \in Names /\ Call(t).len \in Int
  BY StartsFacts, CallFields DEF TruncateLookup
<1>2. Quiet(fs, fs')
  BY DirFacts, DirQuiet DEF TruncateLookup
<1> DEFINE i == Lookup(fs, Call(t).name)
<1>3. CASE Return(t, -1)
  BY <1>1, <1>2, <1>3, QuietReturn
<1>4. CASE /\ i # NoInode
           /\ Continue(t, [pc |-> "truncate", inode |-> i, len |-> Call(t).len, ret |-> 0])
  <2>1. i \in 2 .. Len(fs.inodes) /\ Len(fs.inodes) \in Nat
    BY <1>1, <1>4 DEF IInv, TypeInv, NamedInodes, IsFs
  <2> HIDE DEF i
  <2>2. CtlStep(t) /\ prog' = prog /\ ctl'[t] = [pc |-> "truncate", inode |-> i, len |-> Call(t).len, ret |-> 0]
    BY <1>4, ContinueFacts
  <2>3. Truncating(t)'
    BY <1>1, <1>2, <2>1, <2>2 DEF Truncating, Quiet
  <2>4. ThreadOK(t)' /\ Free(t)'
    BY <2>2, <2>3 DEF ThreadOK, Free, RenamePcs, WritePcs
  <2>5. FileInodes(fs')
    BY <1>2, QuietFileInodes DEF IInv, TypeInv
  <2> QED BY <1>1, <1>2, <2>2, <2>4, <2>5, FreeStep, QuietStep DEF Quiet
<1> QED BY <1>3, <1>4 DEF TruncateLookup

LEMMA LockFileQuiet ==
  ASSUME IInv, NEW t \in Threads, HasFile(Call(t).fd)
  PROVE  /\ Quiet(fs, LockFile(fs, t)) /\ IsFs(fs) /\ IsFs(LockFile(fs, t))
         /\ \A st \in CoherentSizes(LockFile(fs, t), t, File(t).inode) :
              st.size \in Nat /\ Quiet(fs, ReadSize(LockFile(fs, t), t, st))
<1> DEFINE x == LockFile(fs, t)
<1>1. IsFs(fs) /\ Call(t).fd \in 1 .. Len(fs.files) /\ File(t).inode \in 1 .. Len(fs.inodes)
  BY FdFacts DEF IInv, TypeInv
<1>2. FilesStep(fs, x) /\ Len(x.files) = Len(fs.files)
  BY <1>1, LockFileFacts
<1> HIDE DEF x
<1>3. Quiet(fs, x) /\ IsFs(x) /\ File(t).inode \in 1 .. Len(x.inodes)
  BY <1>1, <1>2, FilesQuiet DEF FilesStep
<1>4. ASSUME NEW st \in CoherentSizes(x, t, File(t).inode)
      PROVE  st.size \in Nat /\ Quiet(fs, ReadSize(x, t, st))
  <2>1. st.size \in Nat /\ st.sk \in SUBSET Nat
    BY <1>3, CoherentSizesAre
  <2>2. KnownStep(x, ReadSize(x, t, st))
    BY <1>3, <2>1, StoredSizeFacts
  <2>3. Quiet(x, ReadSize(x, t, st))
    BY <1>3, <2>2, KnownQuiet
  <2> QED BY <1>1, <1>3, <2>1, <2>3, QuietTrans
<1> QED BY <1>1, <1>3, <1>4 DEF x

LEMMA StartOffsetFacts ==
  ASSUME IInv, NEW t \in Threads, HasFile(Call(t).fd), Call(t) \in CallTypes
  PROVE  StartOffset(t) \in Int
BY FdFacts, CallFields DEF StartOffset, Positioned

LEMMA StartWriteKeeps ==
  ASSUME IInv, NEW t \in Threads, StartWrite(t)
  PROVE  IInv'
<1>1. /\ prog[t] # <<>> /\ Free(t) /\ mode' = mode /\ spec' = spec /\ HasFile(Call(t).fd)
      /\ Call(t) \in CallTypes /\ Call(t).op \in {"write", "pwrite"} /\ -1 \in Int
  BY StartsFacts DEF StartWrite, FreeFd
<1>2. /\ Call(t).fd \in 1 .. Len(fs.files) /\ Quiet(fs, LockFile(fs, t)) /\ StartOffset(t) \in Int
  BY <1>1, FdFacts, LockFileQuiet, StartOffsetFacts
<1>3. CASE FinishAccess(t, LockFile(fs, t), -1)
  BY <1>1, <1>2, <1>3, QuietFinish
<1>4. CASE /\ fs' = LockFile(fs, t)
           /\ Continue(t, [pc |-> "write", off |-> StartOffset(t), ret |-> 0])
  <2>1. CtlStep(t) /\ prog' = prog /\ ctl'[t] = [pc |-> "write", off |-> StartOffset(t), ret |-> 0]
    BY <1>4, ContinueFacts
  <2>2. Quiet(fs, fs') /\ Call(t)' = Call(t)
    BY <1>2, <1>4, <2>1 DEF Call
  <2>3. OnFile(t, {"write", "pwrite"})'
    BY <1>1, <1>2, <2>1, <2>2 DEF OnFile, InCall, Quiet
  <2>4. Starting(t)' /\ ThreadOK(t)' /\ Free(t)'
    BY <1>2, <2>1, <2>3 DEF Starting, ThreadOK, Free, RenamePcs, WritePcs
  <2>5. FileInodes(fs')
    BY <2>2, QuietFileInodes DEF IInv, TypeInv
  <2> QED BY <1>1, <2>1, <2>2, <2>4, <2>5, FreeStep, QuietStep DEF Quiet
<1> QED BY <1>3, <1>4 DEF StartWrite

LEMMA StartReadKeeps ==
  ASSUME IInv, NEW t \in Threads, StartRead(t)
  PROVE  IInv'
<1> DEFINE i == File(t).inode
           off == StartOffset(t)
           l == LockFile(fs, t)
<1>1. /\ prog[t] # <<>> /\ Free(t) /\ mode' = mode /\ spec' = spec /\ HasFile(Call(t).fd)
      /\ Call(t) \in CallTypes /\ Call(t).op \in {"read", "pread"} /\ -1 \in Int
  BY StartsFacts DEF StartRead, FreeFd
<1>2. /\ Call(t).fd \in 1 .. Len(fs.files)
      /\ Quiet(fs, LockFile(fs, t)) /\ off \in Int /\ Call(t).n \in Nat /\ IsFs(fs)
  BY <1>1, FdFacts, LockFileQuiet, StartOffsetFacts, CallFields
<1>3. CASE FinishAccess(t, LockFile(fs, t), -1)
  BY <1>1, <1>2, <1>3, QuietFinish
<1>4. ASSUME NEW st \in CoherentSizes(l, t, i)
      PROVE  st.size \in Nat /\ Quiet(fs, ReadSize(l, t, st))
  BY <1>1, <1>4, LockFileQuiet
<1>5. ASSUME NEW st \in CoherentSizes(l, t, i), FinishAccess(t, ReadSize(l, t, st), 0)
      PROVE  IInv'
  <2> DEFINE x == ReadSize(l, t, st)
  <2>1. Quiet(fs, x) /\ FinishAccess(t, x, 0)
    BY <1>4, <1>5
  <2> HIDE DEF x
  <2> QED BY <1>1, <1>2, <2>1, QuietFinish
<1>6. ASSUME NEW st \in CoherentSizes(l, t, i), NEW left, left = st.size - off,
             off >= 0, left > 0, fs' = ReadSize(l, t, st),
             NEW n, n = IF left >= Call(t).n THEN Call(t).n ELSE left,
             Continue(t, [pc |-> "read", off |-> off, got |-> <<>>, ret |-> 0, n |-> n])
      PROVE  IInv'
  <2>1. st.size \in Nat /\ Quiet(fs, fs')
    BY <1>4, <1>6
  <2> HIDE DEF l, off
  <2>2. off \in Nat /\ left \in Nat
    BY <1>2, <1>6, <2>1
  <2>3. n \in Nat
    BY <1>2, <1>6, <2>2
  <2>6. CtlStep(t) /\ prog' = prog /\ ctl'[t] = [pc |-> "read", off |-> off, got |-> <<>>, ret |-> 0, n |-> n]
    BY <1>6, ContinueFacts
  <2>7. Call(t)' = Call(t)
    BY <2>6 DEF Call
  <2>8. OnFile(t, {"read", "pread"})'
    BY <1>1, <1>2, <2>1, <2>6, <2>7 DEF OnFile, InCall, Quiet
  <2>10. Reading(t)'
    <3>1. /\ ctl'[t] \in [pc : {"read"}, off : Nat, got : Seq(Nat), ret : Int, n : Nat]
          /\ ctl'[t].n = n /\ ctl'[t].got = <<>>
      BY <2>2, <2>3, <2>6
    <3>2. Len(ctl'[t].got) <= ctl'[t].n
      BY <2>3, <3>1
    <3> QED BY <2>8, <3>1, <3>2 DEF Reading
  <2>11. ThreadOK(t)' /\ Free(t)'
    BY <2>6, <2>10 DEF ThreadOK, Free, RenamePcs, WritePcs
  <2>12. FileInodes(fs')
    BY <2>1, QuietFileInodes DEF IInv, TypeInv
  <2> QED BY <1>1, <2>1, <2>6, <2>11, <2>12, FreeStep, QuietStep DEF Quiet
<1> QED BY <1>3, <1>5, <1>6, Zenon DEF StartRead

\* A thread that reads, and what it has read.
LEMMA ReadingFacts ==
  ASSUME IInv, NEW t \in Threads, ctl[t].pc = "read"
  PROVE  /\ Reading(t) /\ prog[t] # <<>> /\ Free(t) /\ IsFs(fs) /\ HasFile(Call(t).fd)
         /\ Call(t).fd \in 1 .. Len(fs.files)
<1>1. Reading(t)
  BY PcCases DEF IInv
<1> QED BY <1>1 DEF Reading, OnFile, InCall, Free, RenamePcs, WritePcs, HasFile, IInv, TypeInv, IsFs

LEMMA ReadByteKeeps ==
  ASSUME IInv, NEW t \in Threads, ReadByte(t)
  PROVE  IInv'
<1> DEFINE c == ctl[t]
           b == Loc(File(t).inode, "data", c.off + Len(c.got))
<1>1. /\ Reading(t) /\ prog[t] # <<>> /\ Free(t) /\ IsFs(fs) /\ c.pc = "read" /\ Len(c.got) < c.n
      /\ mode' = mode /\ spec' = spec
  BY ReadingFacts DEF ReadByte, At
<1>0. PICK w \in CoherentStores(fs, t, b) : fs' = ReadFrom(fs, t, w) /\ Continue(t, [c EXCEPT !.got = Append(@, w)])
  BY DEF ReadByte
<1> DEFINE d == [c EXCEPT !.got = Append(@, w)]
<1>2. CtlStep(t) /\ prog' = prog /\ ctl'[t] = d
  BY <1>0, ContinueFacts
<1>6. w \in {0} \cup StoresTo(fs, b) /\ w \in Nat
  <2> HIDE DEF b
  <2>1. w \in {0} \cup StoresTo(fs, b)
    BY <1>0, <1>1, StoresAre
  <2>2. w \in 0 .. Len(fs.disk)
    BY <1>1, <2>1, StoresAre
  <2> QED BY <2>1, <2>2
<1>3. Quiet(fs, fs') /\ Call(t)' = Call(t)
  BY <1>0, <1>1, <1>2, <1>6, ReadFromFacts, KnownQuiet DEF Call
<1>4. c \in [pc : {"read"}, off : Nat, got : Seq(Nat), ret : Int, n : Nat]
  BY <1>1 DEF Reading
<1>5. Len(c.got) \in Nat
  BY <1>4
<1>7. d \in [pc : {"read"}, off : Nat, got : Seq(Nat), ret : Int, n : Nat] /\ Len(d.got) <= d.n
  <2>1. Append(c.got, w) \in Seq(Nat) /\ Len(Append(c.got, w)) = Len(c.got) + 1
    BY <1>4, <1>6
  <2> DEFINE q == Append(c.got, w)
  <2>2. d = [c EXCEPT !.got = q]
    OBVIOUS
  <2>3. q \in Seq(Nat) /\ Len(q) = Len(c.got) + 1
    BY <2>1
  <2> HIDE DEF q, d, c
  <2>4. d \in [pc : {"read"}, off : Nat, got : Seq(Nat), ret : Int, n : Nat]
    BY <1>4, <2>2, <2>3
  <2>5. d.got = q /\ d.n = c.n
    BY <1>4, <2>2
  <2>6. c.n \in Nat
    BY <1>4
  <2>7. Len(q) <= c.n
    BY <1>1, <1>5, <2>3, <2>6
  <2> QED BY <2>4, <2>5, <2>7
<1> HIDE DEF d
<1>8. OnFile(t, {"read", "pread"})'
  BY <1>1, <1>2, <1>3 DEF OnFile, InCall, Quiet, Reading
<1>10. Reading(t)'
  BY <1>2, <1>7, <1>8 DEF Reading
<1>11. ThreadOK(t)' /\ Free(t)'
  BY <1>2, <1>7, <1>10 DEF ThreadOK, Free, RenamePcs, WritePcs
<1>12. FileInodes(fs')
  BY <1>3, QuietFileInodes DEF IInv, TypeInv
<1> QED BY <1>1, <1>2, <1>3, <1>11, <1>12, FreeStep, QuietStep DEF Quiet

LEMMA EndReadKeeps ==
  ASSUME IInv, NEW t \in Threads, EndRead(t)
  PROVE  IInv'
<1> DEFINE tr == Loc(File(t).inode, "trans", 0)
<1>1. /\ Reading(t) /\ prog[t] # <<>> /\ Free(t) /\ IsFs(fs) /\ mode' = mode /\ spec' = spec
      /\ Call(t).fd \in 1 .. Len(fs.files)
  BY ReadingFacts DEF EndRead, At
<1>2. ctl[t].n \in Int
  BY <1>1 DEF Reading
<1>3. CASE Block(t) /\ UNCHANGED fs
  BY <1>1, <1>3, SameBlock
<1>4. CASE FinishAccess(t, fs, ctl[t].n)
  BY <1>1, <1>2, <1>4, QuietSelf, QuietFinish
<1>5. ASSUME NEW w \in CoherentStores(fs, t, tr), FinishAccess(t, ReadFrom(fs, t, w), ctl[t].n)
      PROVE  IInv'
  <2> DEFINE s == ReadFrom(fs, t, w)
  <2>1. w \in {0} \cup StoresTo(fs, tr)
    BY <1>1, StoresAre
  <2>2. Quiet(fs, s)
    BY <1>1, <2>1, ReadFromFacts, KnownQuiet
  <2>3. FinishAccess(t, s, ctl[t].n)
    BY <1>5
  <2> HIDE DEF s
  <2> QED BY <1>1, <1>2, <2>2, <2>3, QuietFinish
<1> QED BY <1>3, <1>4, <1>5 DEF EndRead

\* The offset of the description changes, and its lock is given back.
LEMMA LseekFacts ==
  ASSUME IInv, NEW t \in Threads, Lseek(t)
  PROVE  \E st \in CoherentSizes(LockFile(fs, t), t, File(t).inode) :
           LET z == ReadSize(LockFile(fs, t), t, st)
           IN /\ FileStep(z, fs', Call(t).fd) /\ Quiet(fs, z) /\ fs'.files[Call(t).fd].lock = Nobody
              /\ fs'.known = z.known /\ \E v \in Int : Return(t, v)
<1>0. PICK st \in CoherentSizes(LockFile(fs, t), t, File(t).inode) :
        LET c == Call(t)
            l == ReadSize(LockFile(fs, t), t, st)
            new == CASE c.whence = "set" -> c.offset
                     [] c.whence = "end" -> st.size + c.offset
                     [] c.whence = "cur" -> File(t).offset + c.offset
                     [] OTHER            -> -1
            moved == IF c.whence \in {"set", "end", "cur"} THEN [l EXCEPT !.files[c.fd].offset = new] ELSE l
        IN /\ fs' = [moved EXCEPT !.files[c.fd].lock = Nobody, !.files[c.fd].lk = l.known[t]]
           /\ Return(t, new)
  BY DEF Lseek
<1> DEFINE c == Call(t)
           f == c.fd
           l == ReadSize(LockFile(fs, t), t, st)
           new == CASE c.whence = "set" -> c.offset
                    [] c.whence = "end" -> st.size + c.offset
                    [] c.whence = "cur" -> File(t).offset + c.offset
                    [] OTHER            -> -1
           moved == IF c.whence \in {"set", "end", "cur"} THEN [l EXCEPT !.files[f].offset = new] ELSE l
           o == IF c.whence \in {"set", "end", "cur"} THEN new ELSE l.files[f].offset
           a == [l.files[f] EXCEPT !.offset = o, !.lock = Nobody, !.lk = l.known[t]]
<1>1. /\ prog[t] # <<>> /\ Free(t) /\ mode' = mode /\ spec' = spec /\ HasFile(f) /\ IsFs(fs)
      /\ c \in CallTypes /\ c.op = "lseek" /\ Return(t, new)
      /\ fs' = [moved EXCEPT !.files[f].lock = Nobody, !.files[f].lk = l.known[t]]
  <2>1. Return(t, new) /\ fs' = [moved EXCEPT !.files[f].lock = Nobody, !.files[f].lk = l.known[t]]
    BY <1>0
  <2>2. /\ prog[t] # <<>> /\ Free(t) /\ mode' = mode /\ spec' = spec /\ HasFile(f) /\ IsFs(fs)
        /\ c \in CallTypes /\ c.op = "lseek"
    BY StartsFacts DEF Lseek, FreeFd
  <2> QED BY <2>1, <2>2
<1>2. f \in 1 .. Len(fs.files) /\ c.offset \in Int /\ File(t).offset \in Int
  BY <1>1, FdFacts, CallFields
<1>3. Quiet(fs, l) /\ st.size \in Nat
  BY <1>0, <1>1, LockFileQuiet
<1>4. new \in Int
  BY <1>2, <1>3
<1> HIDE DEF new, l, c
<1>5. IsFs(l) /\ f \in 1 .. Len(l.files) /\ l.known \in [Threads -> SUBSET Nat]
  BY <1>2, <1>3 DEF Quiet, Keeps, IsFs
<1>6. l.files[f] \in FileRec /\ l.files[f].offset \in Int
  BY <1>5, FileFields
<1>7. o \in Int
  BY <1>4, <1>6
<1>8. /\ IsRec(fs') /\ fs'.inodes = l.inodes /\ fs'.disk = l.disk /\ fs'.error = l.error
      /\ fs'.known = l.known /\ fs'.files = [l.files EXCEPT ![f] = a]
  <2>1. CASE c.whence \in {"set", "end", "cur"}
    <3>1. o = new /\ moved = [l EXCEPT !.files[f].offset = new]
      BY <2>1
    <3> HIDE DEF o, moved
    <3> QED BY <1>1, <1>5, <1>6, <3>1 DEF IsFs, IsRec, FileRec
  <2>2. CASE c.whence \notin {"set", "end", "cur"}
    <3>1. o = l.files[f].offset /\ moved = l
      BY <2>2
    <3> HIDE DEF o, moved
    <3> QED BY <1>1, <1>5, <1>6, <3>1 DEF IsFs, IsRec, FileRec
  <2> QED BY <2>1, <2>2
<1>9. a \in FileRec /\ a.inode = l.files[f].inode /\ a.flags = l.files[f].flags
  <2> HIDE DEF o
  <2>1. l.known[t] \in SUBSET Nat
    BY <1>5
  <2> DEFINE k == l.known[t]
             r == l.files[f]
  <2>2. a = [r EXCEPT !.offset = o, !.lock = Nobody, !.lk = k] /\ k \in SUBSET Nat /\ r \in FileRec
    BY <1>6, <2>1
  <2> HIDE DEF a, k, r
  <2>3. a \in FileRec /\ a.inode = r.inode /\ a.flags = r.flags
    BY <1>7, <2>2 DEF FileRec
  <2> QED BY <2>3 DEF r
<1>10. a.lock = Nobody
  <2> HIDE DEF o
  <2> DEFINE k == l.known[t]
             r == l.files[f]
  <2>1. a = [r EXCEPT !.offset = o, !.lock = Nobody, !.lk = k] /\ r \in FileRec
    BY <1>6
  <2> HIDE DEF a, k, r
  <2> QED BY <2>1 DEF FileRec
<1> HIDE DEF a
<1>11. FileStep(l, fs', f) /\ fs'.files[f] = a
  BY <1>5, <1>8, <1>9, FileFacts
<1> QED BY <1>0, <1>1, <1>3, <1>4, <1>8, <1>10, <1>11 DEF c, l

LEMMA LseekKeeps ==
  ASSUME IInv, NEW t \in Threads, Lseek(t)
  PROVE  IInv'
<1> DEFINE f == Call(t).fd
<1>2. PICK l : FileStep(l, fs', f) /\ Quiet(fs, l) /\ \E v \in Int : Return(t, v)
  BY LseekFacts
<1>3. /\ prog[t] # <<>> /\ Free(t) /\ mode' = mode /\ spec' = spec /\ IsFs(fs)
      /\ f \in 1 .. Len(fs.files)
  BY StartsFacts, FdFacts DEF Lseek, FreeFd
<1>4. IsFs(l) /\ f \in 1 .. Len(l.files)
  BY <1>2, <1>3 DEF Quiet, Keeps
<1>5. FilesStep(l, fs') /\ Len(fs'.files) = Len(l.files)
  BY <1>2, <1>4, FileStepIsFilesStep DEF FileStep
<1>6. Quiet(fs, fs')
  BY <1>2, <1>3, <1>4, <1>5, FilesQuiet, QuietTrans
<1> QED BY <1>2, <1>3, <1>6, QuietReturn

LEMMA CloseKeeps ==
  ASSUME IInv, NEW t \in Threads, Close(t)
  PROVE  IInv'
<1> DEFINE f == Call(t).fd
           a == [fs.files[f] EXCEPT !.count = @ - 1, !.freed = (File(t).count = 1)]
<1>1. /\ prog[t] # <<>> /\ Free(t) /\ mode' = mode /\ spec' = spec /\ HasFile(f) /\ IsFs(fs)
      /\ Return(t, 0)
  BY StartsFacts DEF Close, FreeFd
<1>2. f \in 1 .. Len(fs.files)
  BY <1>1, FdFacts
<1>3. fs.files[f] \in FileRec /\ fs.files[f].count \in Int /\ fs.known \in [Threads -> SUBSET Nat]
  BY <1>1, <1>2, FileFields DEF IsFs
<1>4. a \in FileRec /\ a.inode = fs.files[f].inode /\ a.flags = fs.files[f].flags
  <2> DEFINE r == fs.files[f]
             n == r.count - 1
             b == (File(t).count = 1)
  <2>1. a = [r EXCEPT !.count = n, !.freed = b] /\ r \in FileRec /\ n \in Int /\ b \in BOOLEAN
    BY <1>3
  <2> HIDE DEF a, r, n, b
  <2>2. a \in FileRec /\ a.inode = r.inode /\ a.flags = r.flags
    BY <2>1 DEF FileRec
  <2> QED BY <2>2 DEF r
<1>5. /\ IsRec(fs') /\ fs'.inodes = fs.inodes /\ fs'.disk = fs.disk /\ fs'.error = fs.error
      /\ fs'.known = fs.known /\ fs'.files = [fs.files EXCEPT ![f] = a]
  BY <1>1, <1>2, <1>3 DEF Close, IsFs, IsRec, FileRec, File
<1> HIDE DEF a
<1>6. FileStep(fs, fs', f)
  BY <1>1, <1>2, <1>3, <1>4, <1>5, FileFacts
<1>7. Quiet(fs, fs')
  BY <1>1, <1>2, <1>6, FileStepIsFilesStep, FilesQuiet DEF FileStep
<1> QED BY <1>1, <1>7, QuietReturn

LEMMA FenceCallKeeps ==
  ASSUME IInv, NEW t \in Threads, NEW ops, Starts(t, ops), NEW lab \in FenceLabels,
         fs' = DskFence(fs, t, lab), Return(t, 0), mode' = mode, spec' = spec
  PROVE  IInv'
<1>1. prog[t] # <<>> /\ Free(t) /\ IsFs(fs)
  BY StartsFacts
<1>2. Quiet(fs, fs')
  BY <1>1, FenceKeeps, DiskQuiet
<1> QED BY <1>1, <1>2, QuietReturn

LEMMA FencesKeep ==
  ASSUME IInv, NEW t \in Threads, Fsync(t) \/ Sync(t) \/ PersBarrier(t)
  PROVE  IInv'
<1>1. CASE Fsync(t)
  <2>1. File(t).inode \in Nat
    BY <1>1, FdFacts DEF Fsync, FreeFd
  <2>2. DskFsyncLabel(File(t).inode) \in FenceLabels
    BY <2>1 DEF FenceLabels
  <2> QED BY <1>1, <2>2, FenceCallKeeps DEF Fsync, executeFsyncFS
<1>2. CASE Sync(t)
  BY <1>2, FenceCallKeeps DEF Sync, FenceLabels
<1>3. CASE PersBarrier(t)
  BY <1>3, FenceCallKeeps DEF PersBarrier, FenceLabels
<1> QED BY <1>1, <1>2, <1>3

-----------------------------------------------------------------------------
(* Steps that change the directory.                                        *)

LEMMA WithNamesFacts ==
  ASSUME NEW sp, NEW n, IsSpec(sp, n), NEW names \in [Names -> Nat], NEW z, z = WithNames(sp, names)
  PROVE  IsSpec(z, n) /\ z.names = names /\ z.data = sp.data
<1>1. /\ z.names = names /\ z.data = sp.data
      /\ z = [names |-> z.names, data |-> z.data, past |-> z.past]
  BY DEF WithNames, IsSpec
<1> QED BY <1>1 DEF IsSpec

\* What the directory refers to.
Entries(s, n) == {Lookup(s, n)} \cup Named(s, n) \subseteq {NoInode} \cup 2 .. Len(fs.inodes)

\* A thread that works on the directory.
DirHeld(s) ==
  /\ Keeps(fs, s, {Dir}) /\ Len(s.inodes) = Len(fs.inodes) /\ Len(s.files) = Len(fs.files)

LEMMA DirHeldFacts ==
  ASSUME IInv, NEW s, DirHeld(s)
  PROVE  IsFs(fs) /\ IsFs(s) /\ Dir \in 1 .. Len(s.inodes) /\ Dir \in Nat /\ FileInodes(s)
BY DEF IInv, TypeInv, IsFs, Dir, DirHeld, Keeps, FileInodes

LEMMA DirLockedFacts ==
  ASSUME IInv, NEW t \in Threads, NEW l, KnownStep(LockInode(fs, t, Dir), l)
  PROVE  /\ DirHeld(l) /\ l.inodes[Dir].lock = t
         /\ \A n : Lookup(l, n) = Lookup(fs, n) /\ Named(l, n) = Named(fs, n)
         /\ getInodeTransStatus(l, Dir) = getInodeTransStatus(fs, Dir)
<1> DEFINE x == LockInode(fs, t, Dir)
<1>1. InodeStep(fs, x, Dir) /\ x.inodes[Dir].lock = t /\ IsFs(fs)
  BY DirFacts, LockInodeFacts
<1>2. KnownStep(x, l)
  OBVIOUS
<1> HIDE DEF x
<1>3. Keeps(fs, x, {Dir}) /\ SameContents(fs, x, {}) /\ Len(x.inodes) = Len(fs.inodes) /\ IsFs(x)
  BY <1>1, InodeKeeps DEF InodeStep
<1>4. Keeps(x, l, {}) /\ l.inodes = x.inodes
  BY <1>2, <1>3, KnownKeeps DEF KnownStep, DiskStep
<1>5. Keeps(fs, l, {Dir})
  BY <1>1, <1>3, <1>4, KeepsTrans
<1>6. SameContents(fs, l, {})
  BY <1>3, <1>4, SameContentsTrans DEF Keeps
<1>7. Len(l.files) = Len(fs.files)
  BY <1>1, <1>2 DEF InodeStep, KnownStep, DiskStep
<1> QED BY <1>1, <1>3, <1>4, <1>5, <1>6, <1>7 DEF SameContents, DirHeld

LEMMA DirDiskFacts ==
  ASSUME IInv, NEW s, DirHeld(s), NEW z, DiskStep(s, z), SameContents(s, z, {Dir})
  PROVE  DirHeld(z) /\ z.inodes = s.inodes
<1>1. Keeps(s, z, {Dir}) /\ Len(z.inodes) = Len(s.inodes) /\ Len(z.files) = Len(s.files)
  BY DirHeldFacts, DiskKeeps DEF DiskStep
<1>2. Keeps(fs, z, {Dir})
  BY <1>1, DirHeldFacts, KeepsTrans DEF DirHeld
<1> QED BY <1>1, <1>2 DEF DirHeld, DiskStep

LEMMA DirUnlockedFacts ==
  ASSUME IInv, NEW t \in Threads, NEW s, DirHeld(s), NEW z, z = UnlockInode(s, t, Dir)
  PROVE  /\ DirHeld(z) /\ z.inodes[Dir].lock = Nobody
         /\ \A n : Lookup(z, n) = Lookup(s, n) /\ Named(z, n) = Named(s, n)
         /\ getInodeTransStatus(z, Dir) = getInodeTransStatus(s, Dir)
<1>1. InodeStep(s, z, Dir) /\ z.inodes[Dir].lock = Nobody
  BY DirHeldFacts, UnlockInodeFacts
<1>2. Keeps(s, z, {Dir}) /\ SameContents(s, z, {})
  BY <1>1, DirHeldFacts, InodeKeeps
<1>3. Keeps(fs, z, {Dir})
  BY <1>2, DirHeldFacts, KeepsTrans DEF DirHeld
<1> QED BY <1>1, <1>2, <1>3 DEF SameContents, DirHeld, InodeStep

LEMMA DirStep ==
  ASSUME IInv, NEW t \in Threads, mode' = mode, CtlStep(t), DirHeld(fs'),
         fs.inodes[Dir].lock \in {t, Nobody}, fs'.inodes[Dir].lock \in {t, Nobody},
         IsSpec(spec', Len(fs.inodes)), spec'.data = spec.data,
         ctl[t].pc \notin WritePcs, ctl'[t].pc \notin WritePcs, ThreadOK(t)',
         fs'.inodes[Dir].lock = t <=> ctl'[t].pc \in RenamePcs,
         \A n \in Names : Entries(fs', n),
         fs'.inodes[Dir].lock = Nobody => DirOK'
  PROVE  IInv'
<1>1. Keeps(fs, fs', {Dir}) /\ Len(fs'.inodes) = Len(fs.inodes) /\ FileInodes(fs')
  BY DirHeldFacts DEF DirHeld
<1>2. Len(fs.inodes) \in Nat
  BY DEF IInv, TypeInv, IsFs
<1>3. StepFrame(t, {Dir})
  BY <1>1, <1>2 DEF StepFrame, CtlStep
<1>4. \A i : i # Dir => ~HoldsInode(t, i) /\ ~HoldsInode(t, i)'
  BY DEF HoldsInode
<1>5. HoldsInode(t, Dir)' <=> ctl'[t].pc \in RenamePcs
  BY DEF HoldsInode
<1>6. NamedInodes(fs')
  BY <1>1 DEF NamedInodes, Entries
<1>7. Dir \notin 2 .. Len(fs'.inodes)
  BY DEF Dir
<1>8. StepOwn(t, {Dir})
  BY <1>4, <1>5, <1>6, <1>7 DEF StepOwn
<1> QED BY <1>3, <1>8, Preserved

\* When nobody works on the directory, its entries are those it should have.
LEMMA DirFreeFacts ==
  ASSUME IInv, InodeFree(Dir)
  PROVE  /\ \A n \in Names : Lookup(fs, n) = spec.names[n] /\ Entries(fs, n)
         /\ getInodeTransStatus(fs, Dir) = 0
         /\ spec.names \in [Names -> Nat] /\ IsSpec(spec, Len(fs.inodes))
         /\ fs.inodes[Dir].lock = Nobody /\ NoInode \in Nat
BY DEF IInv, TypeInv, DirOK, InodeFree, Entries, NamedInodes, IsSpec, NoInode

\* link() and unlink() are one step.
LEMMA OneEntryKeeps ==
  ASSUME IInv, NEW t \in Threads, prog[t] # <<>>, Free(t), InodeFree(Dir), mode' = mode,
         NEW n \in Names, NEW i, i = NoInode \/ i \in 2 .. Len(fs.inodes),
         NEW l, KnownStep(LockInode(fs, t, Dir), l),
         fs' = UnlockInode(updateDirNameInode(l, t, n, i), t, Dir),
         spec' = WithNames(spec, NamedSpec(n, i)), Return(t, 0)
  PROVE  IInv'
<1>1. /\ \A m \in Names : Lookup(fs, m) = spec.names[m] /\ Entries(fs, m)
      /\ getInodeTransStatus(fs, Dir) = 0 /\ spec.names \in [Names -> Nat]
      /\ IsSpec(spec, Len(fs.inodes)) /\ fs.inodes[Dir].lock = Nobody
  BY DirFreeFacts
<1>2. /\ DirHeld(l) /\ l.inodes[Dir].lock = t
      /\ \A m : Lookup(l, m) = Lookup(fs, m) /\ Named(l, m) = Named(fs, m)
      /\ getInodeTransStatus(l, Dir) = getInodeTransStatus(fs, Dir)
  BY DirLockedFacts
<1>3. PICK u : u = updateDirNameInode(l, t, n, i)
  OBVIOUS
<1>4. IsFs(l)
  BY <1>2, DirHeldFacts
<1>5. /\ DiskStep(l, u) /\ SameContents(l, u, {Dir})
      /\ Lookup(u, n) = i /\ Named(u, n) = Named(l, n) \cup {i}
      /\ \A m : m # n => Lookup(u, m) = Lookup(l, m) /\ Named(u, m) = Named(l, m)
      /\ getInodeTransStatus(u, Dir) = getInodeTransStatus(l, Dir)
  <2>1. DiskStep(l, u)
    BY <1>3, <1>4, SetName
  <2>2. SameContents(l, u, {Dir})
    BY <1>3, <1>4, SetName
  <2>3. Lookup(u, n) = i /\ Named(u, n) = Named(l, n) \cup {i}
    BY <1>3, <1>4, SetName
  <2>4. \A m : m # n => Lookup(u, m) = Lookup(l, m) /\ Named(u, m) = Named(l, m)
    BY <1>3, <1>4, SetName
  <2>5. getInodeTransStatus(u, Dir) = getInodeTransStatus(l, Dir)
    BY <1>3, <1>4, SetName
  <2> QED BY <2>1, <2>2, <2>3, <2>4, <2>5
<1>6. fs' = UnlockInode(u, t, Dir)
  BY <1>3
<1>7. DirHeld(u)
  BY <1>2, <1>5, DirDiskFacts
<1>8. /\ DirHeld(fs') /\ fs'.inodes[Dir].lock = Nobody
      /\ \A m : Lookup(fs', m) = Lookup(u, m) /\ Named(fs', m) = Named(u, m)
      /\ getInodeTransStatus(fs', Dir) = getInodeTransStatus(u, Dir)
  BY <1>6, <1>7, DirUnlockedFacts
<1>9. NamedSpec(n, i) \in [Names -> Nat] /\ NamedSpec(n, i)[n] = i
      /\ \A m \in Names : m # n => NamedSpec(n, i)[m] = spec.names[m]
  <2>1. i \in Nat
    BY DEF NoInode, IInv, TypeInv, IsFs
  <2> QED BY <1>1, <2>1 DEF NamedSpec
<1>10. IsSpec(spec', Len(fs.inodes)) /\ spec'.names = NamedSpec(n, i) /\ spec'.data = spec.data
  BY <1>1, <1>9, WithNamesFacts
<1>11. \A m \in Names : Lookup(fs', m) = spec'.names[m] /\ Entries(fs', m)
  <2> TAKE m \in Names
  <2>1. CASE m = n
    <3>1. Lookup(fs', m) = i /\ spec'.names[m] = i /\ Named(fs', m) = Named(fs, m) \cup {i}
      BY <1>2, <1>5, <1>8, <1>9, <1>10, <2>1
    <3> QED BY <1>1, <3>1 DEF Entries
  <2>2. CASE m # n
    <3>1. Lookup(fs', m) = Lookup(fs, m) /\ Named(fs', m) = Named(fs, m) /\ spec'.names[m] = spec.names[m]
      BY <1>2, <1>5, <1>8, <1>9, <1>10, <2>2
    <3> QED BY <1>1, <3>1 DEF Entries
  <2> QED BY <2>1, <2>2
<1>12. DirOK'
  BY <1>1, <1>2, <1>5, <1>8, <1>11 DEF DirOK
<1>13. CtlStep(t) /\ Resting(t)'
  BY ReturnFacts
<1>14. ctl[t].pc \notin WritePcs /\ ctl'[t].pc \notin WritePcs \cup RenamePcs /\ ThreadOK(t)'
  BY <1>13 DEF Free, Resting, RenamePcs, WritePcs, ThreadOK
<1>15. Nobody # t
  BY ThreadsAssumption DEF Nobody
<1> QED BY <1>1, <1>8, <1>10, <1>11, <1>12, <1>13, <1>14, <1>15, DirStep

LEMMA LinkKeeps ==
  ASSUME IInv, NEW t \in Threads, Link(t)
  PROVE  IInv'
<1> DEFINE c == Call(t)
           l == LookupReads(LookupReads(LockInode(fs, t, Dir), t, c.from), t, c.to)
           i == Lookup(fs, c.from)
           ok == i # NoInode /\ Lookup(fs, c.to) = NoInode
<1>1. /\ prog[t] # <<>> /\ Free(t) /\ IsFs(fs) /\ mode' = mode /\ InodeFree(Dir)
      /\ c.from \in Names /\ c.to \in Names /\ KnownStep(LockInode(fs, t, Dir), l)
  BY StartsFacts, CallFields, DirFacts DEF Link
<1>2. CASE ok
  <2>1. i = spec.names[c.from] /\ i \in 2 .. Len(fs.inodes)
    BY <1>1, <1>2, DirFreeFacts DEF Entries
  <2>2. /\ fs' = UnlockInode(updateDirNameInode(l, t, c.to, i), t, Dir)
        /\ spec' = WithNames(spec, NamedSpec(c.to, i)) /\ Return(t, 0)
    BY <1>2, <2>1 DEF Link
  <2> HIDE DEF l, i, c
  <2> QED BY <1>1, <2>1, <2>2, OneEntryKeeps
<1>3. CASE ~ok
  <2>1. fs' = UnlockInode(l, t, Dir) /\ spec' = spec /\ Return(t, -1) /\ -1 \in Int
    BY <1>3 DEF Link
  <2> HIDE DEF l, i, c
  <2>2. Quiet(fs, fs')
    BY <1>1, <2>1, DirQuiet
  <2> QED BY <1>1, <2>1, <2>2, QuietReturn
<1> QED BY <1>2, <1>3

LEMMA UnlinkKeeps ==
  ASSUME IInv, NEW t \in Threads, Unlink(t)
  PROVE  IInv'
<1> DEFINE n == Call(t).name
           l == LookupReads(LockInode(fs, t, Dir), t, n)
           ok == Lookup(fs, n) # NoInode
<1>1. /\ prog[t] # <<>> /\ Free(t) /\ IsFs(fs) /\ mode' = mode /\ InodeFree(Dir)
      /\ n \in Names /\ KnownStep(LockInode(fs, t, Dir), l)
  BY StartsFacts, CallFields, DirFacts DEF Unlink
<1>2. CASE ok
  <2>1. /\ fs' = UnlockInode(updateDirNameInode(l, t, n, NoInode), t, Dir)
        /\ spec' = WithNames(spec, NamedSpec(n, NoInode)) /\ Return(t, 0)
    BY <1>2 DEF Unlink
  <2> HIDE DEF l, n
  <2> QED BY <1>1, <2>1, OneEntryKeeps
<1>3. CASE ~ok
  <2>1. fs' = UnlockInode(l, t, Dir) /\ spec' = spec /\ Return(t, -1) /\ -1 \in Int
    BY <1>3 DEF Unlink
  <2> HIDE DEF l, n
  <2>2. Quiet(fs, fs')
    BY <1>1, <2>1, DirQuiet
  <2> QED BY <1>1, <2>1, <2>2, QuietReturn
<1> QED BY <1>2, <1>3

\* rename() takes four steps, between which it keeps the directory.
LEMMA RenameBeginKeeps ==
  ASSUME IInv, NEW t \in Threads, RenameBegin(t)
  PROVE  IInv'
<1> DEFINE c == Call(t)
           l == LookupReads(LookupReads(LockInode(fs, t, Dir), t, c.from), t, c.to)
           from == Lookup(fs, c.from)
           to == Lookup(fs, c.to)
<1>1. /\ prog[t] # <<>> /\ Free(t) /\ IsFs(fs) /\ mode' = mode /\ spec' = spec /\ InodeFree(Dir)
      /\ c.op = "rename" /\ c.from \in Names /\ c.to \in Names
      /\ KnownStep(LockInode(fs, t, Dir), l)
  BY StartsFacts, CallFields, DirFacts DEF RenameBegin
<1>2. CASE fs' = UnlockInode(l, t, Dir) /\ Return(t, IF from = NoInode THEN -1 ELSE 0)
  <2>1. \E v \in Int : Return(t, v)
    BY <1>2
  <2> HIDE DEF l, c
  <2>2. Quiet(fs, fs')
    BY <1>1, <1>2, DirQuiet
  <2> QED BY <1>1, <2>1, <2>2, QuietReturn
<1>3. CASE /\ from # NoInode
           /\ fs' = setInodeTransStatus(l, t, Dir, 1)
           /\ Continue(t, [pc |-> "link", inode |-> from, ret |-> 0])
  <2>1. /\ \A n \in Names : Lookup(fs, n) = spec.names[n] /\ Entries(fs, n)
        /\ IsSpec(spec, Len(fs.inodes)) /\ fs.inodes[Dir].lock = Nobody
    BY <1>1, DirFreeFacts
  <2>2. from \in 2 .. Len(fs.inodes) /\ from = spec.names[c.from] /\ from \in Nat
    <3>1. Entries(fs, c.from) /\ from = spec.names[c.from]
      BY <1>1, <2>1
    <3>2. from \in 2 .. Len(fs.inodes)
      BY <1>3, <3>1 DEF Entries
    <3> QED BY <3>1, <3>2
  <2> HIDE DEF l, from
  <2>3. DirHeld(l) /\ l.inodes[Dir].lock = t /\ \A n : Lookup(l, n) = Lookup(fs, n) /\ Named(l, n) = Named(fs, n)
    BY <1>1, DirLockedFacts
  <2>4. IsFs(l) /\ Dir \in Nat
    BY <2>3, DirHeldFacts
  <2>5. DiskStep(l, fs') /\ SameContents(l, fs', {Dir})
    BY <1>3, <2>4, SetTrans
  <2>6. \A n : Lookup(fs', n) = Lookup(l, n) /\ Named(fs', n) = Named(l, n)
    BY <1>3, <2>4, SetTrans
  <2>7. DirHeld(fs') /\ fs'.inodes[Dir].lock = t
    BY <2>3, <2>5, DirDiskFacts
  <2>8. CtlStep(t) /\ prog' = prog /\ ctl'[t] = [pc |-> "link", inode |-> from, ret |-> 0]
    BY <1>3, ContinueFacts
  <2>9. Call(t)' = Call(t)
    BY <2>8 DEF Call
  <2>10. \A n \in Names : Lookup(fs', n) = NamesAt(t)'[n]
    BY <1>1, <2>1, <2>3, <2>6, <2>8 DEF NamesAt
  <2>11. Renaming(t)'
    <3>1. ctl'[t] \in [pc : RenamePcs, inode : Nat, ret : Int]
      BY <2>2, <2>8 DEF RenamePcs
    <3>2. InCall(t, {"rename"})'
      BY <1>1, <2>8, <2>9 DEF InCall
    <3> QED BY <1>1, <2>2, <2>7, <2>8, <2>9, <2>10, <3>1, <3>2 DEF Renaming, DirHeld
  <2>12. ThreadOK(t)' /\ ctl'[t].pc \in RenamePcs /\ ctl'[t].pc \notin WritePcs /\ ctl[t].pc \notin WritePcs
    BY <1>1, <2>8, <2>11 DEF ThreadOK, RenamePcs, WritePcs, Free
  <2>13. \A n \in Names : Entries(fs', n)
    BY <2>1, <2>3, <2>6 DEF Entries
  <2>14. t # Nobody
    BY ThreadsAssumption DEF Nobody
  <2> QED BY <1>1, <2>1, <2>7, <2>8, <2>12, <2>13, <2>14, DirStep
<1> QED BY <1>2, <1>3 DEF RenameBegin

\* A thread that renames.
LEMMA RenamingFacts ==
  ASSUME IInv, NEW t \in Threads, ctl[t].pc \in RenamePcs
  PROVE  /\ Renaming(t) /\ prog[t] # <<>> /\ Call(t).op = "rename"
         /\ Call(t).from \in Names /\ Call(t).to \in Names
         /\ DirHeld(fs) /\ fs.inodes[Dir].lock = t /\ IsFs(fs) /\ Dir \in Nat
         /\ spec.names \in [Names -> Nat] /\ IsSpec(spec, Len(fs.inodes)) /\ t # Nobody
         /\ ctl[t].pc \notin WritePcs /\ ctl[t].inode \in 2 .. Len(fs.inodes) /\ ctl[t].inode \in Nat
         /\ \A n \in Names : Entries(fs, n)
<1>1. Renaming(t)
  BY PcCases DEF IInv
<1>2. prog[t] # <<>> /\ Call(t).op = "rename" /\ Call(t) \in CallTypes
  BY <1>1, CallTyped DEF Renaming, InCall
<1>3. IsFs(fs) /\ Dir \in 1 .. Len(fs.inodes) /\ Dir \in Nat
  BY DirFacts DEF Dir
<1>4. HoldsInode(t, Dir)
  BY DEF HoldsInode
<1>5. fs.inodes[Dir].lock = t
  BY <1>3, <1>4 DEF IInv, Owners
<1>6. t # Nobody
  BY ThreadsAssumption DEF Nobody
<1>7. DirHeld(fs)
  <2>1. Quiet(fs, fs) /\ {} \subseteq {Dir}
    BY <1>3, QuietSelf
  <2> QED BY <2>1, KeepsMore DEF DirHeld, Quiet
<1>8. spec.names \in [Names -> Nat] /\ IsSpec(spec, Len(fs.inodes)) /\ \A n \in Names : Entries(fs, n)
  BY DEF IInv, TypeInv, IsSpec, Entries, NamedInodes
<1>9. ctl[t].pc \notin WritePcs /\ ctl[t].inode \in 2 .. Len(fs.inodes) /\ ctl[t].inode \in Nat
  BY <1>1 DEF Renaming, WritePcs, RenamePcs
<1> QED BY <1>1, <1>2, <1>3, <1>5, <1>6, <1>7, <1>8, <1>9, CallFields

\* An entry is changed while the directory is kept.
LEMMA RenameEntryKeeps ==
  ASSUME IInv, NEW t \in Threads, ctl[t].pc \in RenamePcs, NEW pc \in RenamePcs,
         NEW n \in Names, NEW i, i = NoInode \/ i \in 2 .. Len(fs.inodes),
         fs' = updateDirNameInode(fs, t, n, i), mode' = mode, spec' = spec,
         Continue(t, [ctl[t] EXCEPT !.pc = pc]),
         NamesAt(t)'[n] = i, \A m \in Names : m # n => NamesAt(t)'[m] = NamesAt(t)[m]
  PROVE  IInv'
<1>1. /\ Renaming(t) /\ prog[t] # <<>> /\ Call(t).op = "rename"
      /\ DirHeld(fs) /\ fs.inodes[Dir].lock = t /\ IsFs(fs) /\ Dir \in Nat
      /\ IsSpec(spec, Len(fs.inodes)) /\ t # Nobody /\ ctl[t].pc \notin WritePcs
      /\ \A m \in Names : Entries(fs, m)
  BY RenamingFacts
<1>2. DiskStep(fs, fs')
  BY <1>1, SetName
<1>3. SameContents(fs, fs', {Dir})
  BY <1>1, SetName
<1>4. Lookup(fs', n) = i /\ Named(fs', n) = Named(fs, n) \cup {i}
  BY <1>1, SetName
<1>5. \A m : m # n => Lookup(fs', m) = Lookup(fs, m) /\ Named(fs', m) = Named(fs, m)
  BY <1>1, SetName
<1>6. DirHeld(fs') /\ fs'.inodes[Dir].lock = t
  BY <1>1, <1>2, <1>3, DirDiskFacts
<1>7. CtlStep(t) /\ prog' = prog /\ ctl'[t] = [ctl[t] EXCEPT !.pc = pc] /\ Call(t)' = Call(t)
  BY ContinueFacts DEF Call
<1>8. ctl[t] \in [pc : RenamePcs, inode : Nat, ret : Int]
  BY <1>1 DEF Renaming
<1>9. /\ ctl'[t] \in [pc : RenamePcs, inode : Nat, ret : Int]
      /\ ctl'[t].pc = pc /\ ctl'[t].inode = ctl[t].inode
  BY <1>7, <1>8
<1>10. \A m \in Names : Lookup(fs', m) = NamesAt(t)'[m]
  BY <1>1, <1>4, <1>5 DEF Renaming
<1>11. Renaming(t)'
  BY <1>1, <1>6, <1>7, <1>9, <1>10 DEF Renaming, InCall, DirHeld
<1>12. ThreadOK(t)' /\ ctl'[t].pc \in RenamePcs /\ ctl'[t].pc \notin WritePcs
  BY <1>9, <1>11 DEF ThreadOK, RenamePcs, WritePcs
<1>13. \A m \in Names : Entries(fs', m)
  <2> TAKE m \in Names
  <2>1. Entries(fs, m) /\ (m = n \/ m # n)
    BY <1>1
  <2> QED BY <1>4, <1>5, <2>1 DEF Entries
<1> QED BY <1>1, <1>6, <1>7, <1>12, <1>13, DirStep

LEMMA RenameLinkKeeps ==
  ASSUME IInv, NEW t \in Threads, RenameLink(t)
  PROVE  IInv'
<1> DEFINE c == Call(t)
<1>1. /\ ctl[t].pc = "link" /\ ctl[t].pc \in RenamePcs /\ "unlink" \in RenamePcs
      /\ fs' = updateDirNameInode(fs, t, c.to, ctl[t].inode) /\ mode' = mode /\ spec' = spec
      /\ Continue(t, [ctl[t] EXCEPT !.pc = "unlink"])
  BY DEF RenameLink, At, RenamePcs
<1>2. /\ Renaming(t) /\ c.to \in Names /\ ctl[t].inode \in 2 .. Len(fs.inodes)
      /\ spec.names \in [Names -> Nat]
  BY <1>1, RenamingFacts
<1>3. ctl'[t] = [ctl[t] EXCEPT !.pc = "unlink"] /\ Call(t)' = c
  BY <1>1, ContinueFacts DEF Call
<1>4. ctl'[t].pc = "unlink" /\ ctl'[t].inode = ctl[t].inode
  BY <1>2, <1>3 DEF Renaming
<1>5. NamesAt(t) = spec.names
  BY <1>1 DEF NamesAt
<1>6. NamesAt(t)' = [spec.names EXCEPT ![c.to] = ctl[t].inode]
  BY <1>1, <1>3, <1>4 DEF NamesAt
<1>7. NamesAt(t)'[c.to] = ctl[t].inode /\ \A m \in Names : m # c.to => NamesAt(t)'[m] = NamesAt(t)[m]
  BY <1>2, <1>5, <1>6
<1> QED BY <1>1, <1>2, <1>7, RenameEntryKeeps

LEMMA RenameUnlinkKeeps ==
  ASSUME IInv, NEW t \in Threads, RenameUnlink(t)
  PROVE  IInv'
<1> DEFINE c == Call(t)
           l == [spec.names EXCEPT ![c.to] = ctl[t].inode]
<1>1. /\ ctl[t].pc = "unlink" /\ ctl[t].pc \in RenamePcs /\ "endrename" \in RenamePcs
      /\ fs' = updateDirNameInode(fs, t, c.from, NoInode) /\ mode' = mode /\ spec' = spec
      /\ Continue(t, [ctl[t] EXCEPT !.pc = "endrename"])
  BY DEF RenameUnlink, At, RenamePcs
<1>2. /\ Renaming(t) /\ c.from \in Names /\ c.to \in Names /\ ctl[t].inode \in Nat
      /\ spec.names \in [Names -> Nat]
  BY <1>1, RenamingFacts
<1>3. ctl'[t] = [ctl[t] EXCEPT !.pc = "endrename"] /\ Call(t)' = c
  BY <1>1, ContinueFacts DEF Call
<1>4. ctl'[t].pc = "endrename" /\ ctl'[t].inode = ctl[t].inode
  BY <1>2, <1>3 DEF Renaming
<1>5. l \in [Names -> Nat]
  BY <1>2
<1>6. NamesAt(t) = l
  BY <1>1 DEF NamesAt
<1>7. NamesAt(t)' = [l EXCEPT ![c.from] = NoInode]
  BY <1>1, <1>3, <1>4 DEF NamesAt
<1> HIDE DEF l
<1>8. NamesAt(t)'[c.from] = NoInode /\ \A m \in Names : m # c.from => NamesAt(t)'[m] = NamesAt(t)[m]
  BY <1>2, <1>5, <1>6, <1>7
<1> QED BY <1>1, <1>2, <1>8, RenameEntryKeeps

LEMMA RenameEndKeeps ==
  ASSUME IInv, NEW t \in Threads, RenameEnd(t)
  PROVE  IInv'
<1> DEFINE c == Call(t)
           names == [NamedSpec(c.to, spec.names[c.from]) EXCEPT ![c.from] = NoInode]
           u == setInodeTransStatus(fs, t, Dir, 0)
<1>1. /\ ctl[t].pc = "endrename" /\ ctl[t].pc \in RenamePcs
      /\ fs' = UnlockInode(u, t, Dir) /\ mode' = mode
      /\ spec' = WithNames(spec, names) /\ Return(t, 0)
  BY DEF RenameEnd, At, RenamePcs
<1>2. /\ Renaming(t) /\ prog[t] # <<>> /\ c.from \in Names /\ c.to \in Names /\ ctl[t].inode \in Nat
      /\ spec.names \in [Names -> Nat] /\ IsSpec(spec, Len(fs.inodes)) /\ t # Nobody
      /\ DirHeld(fs) /\ fs.inodes[Dir].lock = t /\ IsFs(fs) /\ Dir \in Nat
      /\ \A m \in Names : Entries(fs, m) /\ ctl[t].pc \notin WritePcs
  BY <1>1, RenamingFacts
<1>3. names = NamesAt(t) /\ names \in [Names -> Nat]
  <2>1. ctl[t].inode = spec.names[c.from] /\ NoInode \in Nat
    BY <1>2 DEF Renaming, NoInode
  <2> QED BY <1>1, <1>2, <2>1 DEF NamesAt, NamedSpec
<1> HIDE DEF u, names
<1>4. DiskStep(fs, u) /\ SameContents(fs, u, {Dir})
  BY <1>2, SetTrans DEF u
<1>5. \A n : Lookup(u, n) = Lookup(fs, n) /\ Named(u, n) = Named(fs, n)
  BY <1>2, SetTrans DEF u
<1>6. getInodeTransStatus(u, Dir) = 0
  BY <1>2, SetTrans DEF u
<1>7. DirHeld(u)
  BY <1>2, <1>4, DirDiskFacts
<1>8. /\ DirHeld(fs') /\ fs'.inodes[Dir].lock = Nobody
      /\ \A n : Lookup(fs', n) = Lookup(u, n) /\ Named(fs', n) = Named(u, n)
      /\ getInodeTransStatus(fs', Dir) = getInodeTransStatus(u, Dir)
  BY <1>1, <1>7, DirUnlockedFacts
<1>9. IsSpec(spec', Len(fs.inodes)) /\ spec'.names = names /\ spec'.data = spec.data
  BY <1>1, <1>2, <1>3, WithNamesFacts
<1>10. \A n \in Names : Lookup(fs', n) = spec'.names[n] /\ Entries(fs', n)
  BY <1>2, <1>3, <1>5, <1>8, <1>9 DEF Renaming, Entries
<1>11. DirOK'
  BY <1>6, <1>8, <1>10 DEF DirOK
<1>12. CtlStep(t) /\ Resting(t)'
  BY <1>1, <1>2, ReturnFacts
<1>13. ctl'[t].pc \notin WritePcs \cup RenamePcs /\ ThreadOK(t)'
  BY <1>12 DEF Resting, RenamePcs, WritePcs, ThreadOK
<1> QED BY <1>1, <1>2, <1>8, <1>9, <1>10, <1>11, <1>12, <1>13, DirStep

\* A new inode is empty and free; the directory refers to it.
LEMMA CreateFacts ==
  ASSUME NEW s, IsFs(s), NEW t \in Threads, NEW n, NEW z, z = executeInodeCreateFS(s, t, n)
  PROVE  /\ IsFs(z) /\ z.files = s.files /\ Len(z.inodes) = Len(s.inodes) + 1
         /\ \A j \in 1 .. Len(s.inodes) : z.inodes[j] = s.inodes[j]
         /\ z.inodes[Len(s.inodes) + 1].isize = 0 /\ z.inodes[Len(s.inodes) + 1].lock = Nobody
         /\ SameContents(s, z, {Dir})
         /\ Lookup(z, n) = Len(s.inodes) + 1 /\ Named(z, n) = Named(s, n) \cup {Len(s.inodes) + 1}
         /\ \A m : m # n => Lookup(z, m) = Lookup(s, m) /\ Named(z, m) = Named(s, m)
         /\ getInodeTransStatus(z, Dir) = getInodeTransStatus(s, Dir)
<1> DEFINE i == Len(s.inodes) + 1
           r == [isize |-> 0, lock |-> Nobody, lk |-> s.known[t], sk |-> s.known[t],
                 sizes |-> {[size |-> 0, at |-> 0, sk |-> s.known[t]]}]
           a == [s EXCEPT !.inodes = Append(@, r)]
           x == setInodeTransStatus(a, t, i, 0)
           b == updateInodeDisksizeFS(x, t, i, 0, 0, 0)
<1>1. /\ s.inodes \in Seq(InodeRec) /\ Len(s.inodes) \in Nat /\ Len(s.inodes) >= 1
      /\ s.known \in [Threads -> SUBSET Nat]
  BY DEF IsFs
<1>2. r \in InodeRec /\ r.isize = 0 /\ r.lock = Nobody
  BY <1>1 DEF InodeRec, SizeRec
<1> HIDE DEF r
<1>3. i \in Nat /\ i # Dir
  BY <1>1 DEF Dir
<1>4. /\ IsRec(a) /\ a.files = s.files /\ a.disk = s.disk /\ a.error = s.error
      /\ a.known = s.known /\ a.inodes = Append(s.inodes, r)
  <2> DEFINE q == Append(s.inodes, r)
  <2>1. a = [s EXCEPT !.inodes = q]
    OBVIOUS
  <2> HIDE DEF a, q
  <2>2. /\ IsRec(a) /\ a.files = s.files /\ a.disk = s.disk /\ a.error = s.error
        /\ a.known = s.known /\ a.inodes = q
    BY <2>1 DEF IsFs, IsRec
  <2> QED BY <2>2 DEF q
<1>5. z = updateDirNameInode(b, t, n, i)
  BY DEF executeInodeCreateFS, r
<1> HIDE DEF a
<1>6. /\ a.inodes \in Seq(InodeRec) /\ Len(a.inodes) = i /\ a.inodes[i] = r
      /\ \A j \in 1 .. Len(s.inodes) : a.inodes[j] = s.inodes[j]
  BY <1>1, <1>2, <1>4
<1>7. IsFs(a)
  BY <1>1, <1>3, <1>4, <1>6 DEF IsFs, IsRec
<1>8. SameContents(s, a, {})
  BY <1>4, SameDisk
<1> HIDE DEF i, x, b
<1>9. DiskStep(a, x) /\ SameContents(a, x, {})
  BY <1>3, <1>7, SetTrans DEF x
<1>10. DiskStep(x, b) /\ SameContents(x, b, {}) /\ IsFs(b)
  BY <1>3, <1>9, SetDisksize DEF b, DiskStep
<1>11. DiskStep(b, z)
  BY <1>5, <1>10, SetName
<1>12. SameContents(b, z, {Dir})
  BY <1>5, <1>10, SetName
<1>13. Lookup(z, n) = i /\ Named(z, n) = Named(b, n) \cup {i}
  BY <1>5, <1>10, SetName
<1>14. \A m : m # n => Lookup(z, m) = Lookup(b, m) /\ Named(z, m) = Named(b, m)
  BY <1>5, <1>10, SetName
<1>15. getInodeTransStatus(z, Dir) = getInodeTransStatus(b, Dir)
  BY <1>5, <1>10, SetName
<1>16. SameContents(s, b, {})
  BY <1>8, <1>9, <1>10, SameContentsTrans
<1>17. SameContents(s, z, {Dir})
  BY <1>12, <1>16 DEF SameContents
<1>18. /\ \A m : Lookup(b, m) = Lookup(s, m) /\ Named(b, m) = Named(s, m)
       /\ getInodeTransStatus(b, Dir) = getInodeTransStatus(s, Dir)
  BY <1>16 DEF SameContents
<1>19. IsFs(z) /\ z.files = s.files /\ z.inodes = a.inodes
  BY <1>4, <1>9, <1>10, <1>11 DEF DiskStep
<1> QED BY <1>2, <1>6, <1>13, <1>14, <1>15, <1>17, <1>18, <1>19 DEF i

LEMMA OpenCreateKeeps ==
  ASSUME IInv, NEW t \in Threads, OpenCreate(t)
  PROVE  IInv'
<1> DEFINE n == Call(t).name
           l == LookupReads(LockInode(fs, t, Dir), t, n)
           i == Lookup(fs, n)
           u == executeInodeCreateFS(l, t, n)
           s == UnlockInode(u, t, Dir)
           flags == Call(t).flags \ {"trunc"}
<1>1. /\ prog[t] # <<>> /\ Free(t) /\ ctl[t].pc = "idle" /\ IsFs(fs) /\ mode' = mode /\ InodeFree(Dir)
      /\ n \in Names /\ Call(t).flags \in SUBSET Flags /\ KnownStep(LockInode(fs, t, Dir), l)
  BY StartsFacts, CallFields, DirFacts DEF OpenCreate
<1>2. CASE i # NoInode /\ UNCHANGED spec /\ FinishOpen(t, UnlockInode(l, t, Dir), i, Call(t).flags)
  <2>1. Quiet(fs, UnlockInode(l, t, Dir))
    BY <1>1, DirQuiet
  <2>2. i = NoInode \/ i \in 2 .. Len(fs.inodes)
    BY <1>1 DEF IInv, TypeInv, NamedInodes
  <2> HIDE DEF l, i
  <2> QED BY <1>1, <1>2, <2>1, <2>2, QuietOpen
<1>3. PICK k : k = Len(fs.inodes) + 1
  OBVIOUS
<1>4. CASE /\ i = NoInode
           /\ spec' = [WithNames(spec, NamedSpec(n, k)) EXCEPT !.data = Append(@, <<>>)]
           /\ FinishOpen(t, s, k, flags)
  <2>1. /\ \A m \in Names : Lookup(fs, m) = spec.names[m] /\ Entries(fs, m)
        /\ getInodeTransStatus(fs, Dir) = 0 /\ spec.names \in [Names -> Nat]
        /\ IsSpec(spec, Len(fs.inodes)) /\ fs.inodes[Dir].lock = Nobody
    BY <1>1, DirFreeFacts
  <2> HIDE DEF l, i
  <2>2. /\ DirHeld(l) /\ l.inodes[Dir].lock = t
        /\ \A m : Lookup(l, m) = Lookup(fs, m) /\ Named(l, m) = Named(fs, m)
        /\ getInodeTransStatus(l, Dir) = getInodeTransStatus(fs, Dir)
    BY <1>1, DirLockedFacts
  <2>3. /\ IsFs(l) /\ Dir \in 1 .. Len(fs.inodes) /\ Dir \in Nat /\ FileInodes(l) /\ Len(fs.inodes) \in Nat
        /\ Len(l.inodes) = Len(fs.inodes) /\ Len(l.files) = Len(fs.files) /\ k \in Nat /\ k # Dir
        /\ k = Len(fs.inodes) + 1
    BY <1>3, <2>2, DirHeldFacts DEF DirHeld, IsFs, Dir
  <2> HIDE DEF u
  <2>4. /\ IsFs(u) /\ u.files = l.files /\ Len(u.inodes) = k
        /\ \A j \in 1 .. Len(l.inodes) : u.inodes[j] = l.inodes[j]
        /\ u.inodes[k].isize = 0 /\ u.inodes[k].lock = Nobody
    <3>1. k = Len(l.inodes) + 1
      BY <2>3
    <3>2. IsFs(u) /\ u.files = l.files /\ Len(u.inodes) = k
      BY <2>3, <3>1, CreateFacts DEF u
    <3>3. \A j \in 1 .. Len(l.inodes) : u.inodes[j] = l.inodes[j]
      BY <2>3, <3>1, CreateFacts DEF u
    <3>4. u.inodes[k].isize = 0 /\ u.inodes[k].lock = Nobody
      BY <2>3, <3>1, CreateFacts DEF u
    <3> QED BY <3>2, <3>3, <3>4
  <2>5. SameContents(l, u, {Dir})
    BY <2>3, CreateFacts DEF u
  <2>6. Lookup(u, n) = k /\ Named(u, n) = Named(l, n) \cup {k}
    <3>1. k = Len(l.inodes) + 1
      BY <2>3
    <3>2. /\ Lookup(u, n) = Len(l.inodes) + 1
          /\ Named(u, n) = Named(l, n) \cup {Len(l.inodes) + 1}
      BY <2>3, CreateFacts DEF u
    <3> QED BY <3>1, <3>2
  <2>7. \A m : m # n => Lookup(u, m) = Lookup(l, m) /\ Named(u, m) = Named(l, m)
    BY <2>3, CreateFacts DEF u
  <2>8. getInodeTransStatus(u, Dir) = getInodeTransStatus(l, Dir)
    BY <2>3, CreateFacts DEF u
  <2> HIDE DEF s
  <2>9. InodeStep(u, s, Dir) /\ s.inodes[Dir].lock = Nobody
    <3>1. Dir \in 1 .. Len(u.inodes)
      BY <2>3, <2>4 DEF Dir
    <3> QED BY <2>4, <3>1, UnlockInodeFacts DEF s
  <2>10. SameContents(u, s, {})
    BY <2>4, <2>9, InodeKeeps
  <2>11. /\ IsFs(s) /\ s.files = l.files /\ Len(s.inodes) = k
         /\ s.inodes[k].isize = 0 /\ s.inodes[k].lock = Nobody
         /\ \A j \in 1 .. Len(fs.inodes) : j # Dir => s.inodes[j] = l.inodes[j]
    <3>1. /\ IsFs(s) /\ s.files = u.files /\ Len(s.inodes) = Len(u.inodes)
          /\ \A j \in 1 .. Len(u.inodes) : j # Dir => s.inodes[j] = u.inodes[j]
      BY <2>9 DEF InodeStep
    <3>2. k \in 1 .. k /\ k # Dir /\ \A j \in 1 .. Len(fs.inodes) : j \in 1 .. k /\ j \in 1 .. Len(l.inodes)
      BY <2>3
    <3>3. s.inodes[k] = u.inodes[k]
      BY <2>4, <3>1, <3>2
    <3>4. \A j \in 1 .. Len(fs.inodes) : j # Dir => s.inodes[j] = l.inodes[j]
      BY <2>4, <3>1, <3>2
    <3>5. s.files = l.files /\ Len(s.inodes) = k /\ s.inodes[k].isize = 0 /\ s.inodes[k].lock = Nobody
      BY <2>4, <3>1, <3>3
    <3> QED BY <3>1, <3>4, <3>5
  <2>12. FileInodes(s)
    BY <2>3, <2>11 DEF FileInodes
  <2>13. CtlStep(t) /\ FilesStep(s, fs') /\ FileInodes(fs') /\ Free(t)' /\ ThreadOK(t)'
    <3>1. k \in 2 .. Len(s.inodes) /\ flags \in SUBSET Flags
      BY <1>1, <2>3, <2>11 DEF Dir
    <3> HIDE DEF flags
    <3> QED BY <1>1, <1>4, <2>11, <2>12, <3>1, FinishOpenFacts
  <2>14. SameContents(s, fs', {})
    BY <2>11, <2>13, FilesKeep DEF Keeps
  <2>15. /\ IsFs(fs') /\ fs'.inodes = s.inodes /\ Len(fs'.inodes) = k
         /\ Len(fs.files) <= Len(fs'.files)
         /\ \A g \in 1 .. Len(fs.files) : /\ fs'.files[g].inode = l.files[g].inode
                                          /\ fs'.files[g].flags = l.files[g].flags
    BY <2>3, <2>11, <2>13 DEF FilesStep
  <2> DEFINE I == {Dir, k}
  <2>16. SameContents(fs, fs', {Dir})
    BY <2>2, <2>5, <2>10, <2>14 DEF DirHeld, Keeps, SameContents
  <2>17. Keeps(fs, fs', I)
    <3>1. SameContents(fs, fs', I)
      BY <2>16 DEF SameContents
    <3>2. /\ \A g \in 1 .. Len(fs.files) : /\ fs'.files[g].inode = fs.files[g].inode
                                           /\ fs'.files[g].flags = fs.files[g].flags
          /\ \A j \in 1 .. Len(fs.inodes) : j \notin I => /\ fs'.inodes[j].lock = fs.inodes[j].lock
                                                          /\ fs'.inodes[j].isize = fs.inodes[j].isize
      <4>1. Keeps(fs, l, {Dir})
        BY <2>2 DEF DirHeld
      <4>2. \A g \in 1 .. Len(fs.files) : l.files[g].inode = fs.files[g].inode /\ l.files[g].flags = fs.files[g].flags
        BY <4>1 DEF Keeps
      <4>3. \A j \in 1 .. Len(fs.inodes) : j # Dir => /\ l.inodes[j].lock = fs.inodes[j].lock
                                                     /\ l.inodes[j].isize = fs.inodes[j].isize
        BY <4>1 DEF Keeps
      <4>4. \A j \in 1 .. Len(fs.inodes) : j \notin I => fs'.inodes[j] = l.inodes[j] /\ j # Dir
        BY <2>11, <2>15
      <4> HIDE DEF I
      <4>5. \A g \in 1 .. Len(fs.files) : /\ fs'.files[g].inode = fs.files[g].inode
                                          /\ fs'.files[g].flags = fs.files[g].flags
        BY <2>15, <4>2
      <4> QED BY <4>3, <4>4, <4>5
    <3> QED BY <2>3, <2>15, <3>1, <3>2 DEF Keeps
  <2>18. /\ \A m : m # n => Lookup(fs', m) = Lookup(fs, m) /\ Named(fs', m) = Named(fs, m)
         /\ Lookup(fs', n) = k /\ Named(fs', n) = Named(fs, n) \cup {k}
         /\ getInodeTransStatus(fs', Dir) = 0
    BY <2>1, <2>2, <2>6, <2>7, <2>8, <2>10, <2>14 DEF SameContents
  <2> DEFINE names == NamedSpec(n, k)
             sp == WithNames(spec, names)
  <2>19. /\ names \in [Names -> Nat] /\ names[n] = k
         /\ \A m \in Names : m # n => names[m] = spec.names[m]
    BY <1>1, <2>1, <2>3 DEF NamedSpec
  <2> HIDE DEF names, sp
  <2>20. IsSpec(sp, Len(fs.inodes)) /\ sp.names = names /\ sp.data = spec.data
    BY <2>1, <2>19, WithNamesFacts DEF sp
  <2>21. spec' = [sp EXCEPT !.data = Append(@, <<>>)]
    BY <1>4 DEF sp, names
  <2>22. /\ IsSpec(spec', k) /\ spec'.names = names /\ spec'.data[k] = <<>>
         /\ \A j \in 1 .. Len(fs.inodes) : spec'.data[j] = spec.data[j]
    <3>1. sp.data \in Seq(Seq(Int)) /\ Len(sp.data) = Len(fs.inodes) /\ <<>> \in Seq(Int)
      BY <2>20 DEF IsSpec
    <3>2. /\ spec'.names = sp.names /\ spec'.data = Append(sp.data, <<>>)
          /\ spec' = [names |-> spec'.names, data |-> spec'.data, past |-> spec'.past]
      BY <2>20, <2>21 DEF IsSpec
    <3>3. /\ spec'.data \in Seq(Seq(Int)) /\ Len(spec'.data) = k /\ spec'.data[k] = <<>>
          /\ \A j \in 1 .. Len(fs.inodes) : spec'.data[j] = sp.data[j]
      <4> DEFINE S == Seq(Int)
                 e == <<>>
                 d == sp.data
      <4>1. d \in Seq(S) /\ e \in S /\ Len(d) = Len(fs.inodes) /\ spec'.data = Append(d, e)
        BY <3>1, <3>2
      <4> HIDE DEF S, d
      <4>2. /\ spec'.data \in Seq(S) /\ Len(spec'.data) = k /\ spec'.data[k] = e
            /\ \A j \in 1 .. Len(fs.inodes) : spec'.data[j] = d[j]
        BY <2>3, <4>1
      <4> QED BY <4>2 DEF S, d
    <3> QED BY <2>19, <2>20, <3>2, <3>3 DEF IsSpec
  <2>23. StepFrame(t, I)
    <3>1. \A j \in 1 .. Len(fs.inodes) : j \in I => fs.inodes[j].lock \in {t, Nobody}
      BY <2>1, <2>3
    <3>2. \A j \in 1 .. Len(fs'.inodes) : j > Len(fs.inodes) => j \in I
      BY <2>3, <2>15
    <3>3. \A j \in 2 .. Len(fs.inodes) : j \notin I => spec'.data[j] = spec.data[j]
      BY <2>3, <2>22
    <3> QED BY <1>1, <2>13, <2>15, <2>17, <2>22, <3>1, <3>2, <3>3 DEF StepFrame, CtlStep
  <2>24. \A m \in Names : /\ Lookup(fs', m) = spec'.names[m]
                          /\ {Lookup(fs', m)} \cup Named(fs', m) \subseteq {NoInode} \cup 2 .. k
    <3> TAKE m \in Names
    <3>0. {Lookup(fs, m)} \cup Named(fs, m) \subseteq {NoInode} \cup 2 .. k
      BY <2>1, <2>3 DEF Entries
    <3>1. CASE m = n
      BY <2>3, <2>18, <2>19, <2>22, <3>0, <3>1 DEF Dir
    <3>2. CASE m # n
      BY <2>1, <2>18, <2>19, <2>22, <3>0, <3>2
    <3> QED BY <3>1, <3>2
  <2>25. StepOwn(t, I)
    <3>1. \A j : ~HoldsInode(t, j) /\ ~HoldsInode(t, j)'
      BY <1>1, <2>13 DEF Free, HoldsInode
    <3>2. fs'.inodes[Dir].lock = Nobody /\ fs'.inodes[k].lock = Nobody /\ fs'.inodes[k].isize = 0
      BY <2>9, <2>11, <2>15
    <3>3. t # Nobody
      BY ThreadsAssumption DEF Nobody
    <3>4. NamedInodes(fs') /\ DirOK'
      BY <2>15, <2>18, <2>24 DEF NamedInodes, DirOK
    <3>6. FileOK(k)'
      <4>1. Len(spec'.data[k]) = 0
        BY <2>22
      <4> QED BY <3>2, <4>1 DEF FileOK
    <3>7. \A j \in 2 .. Len(fs'.inodes) : j \in I => j = k
      BY DEF Dir
    <3>8. \A j \in 2 .. Len(fs'.inodes) : j \in I => FileOK(j)'
      <4> HIDE DEF FileOK, I
      <4> QED BY <3>6, <3>7
    <3> HIDE DEF FileOK
    <3> QED BY <2>13, <3>1, <3>2, <3>3, <3>4, <3>8 DEF StepOwn
  <2> HIDE DEF I
  <2> QED BY <2>23, <2>25, Preserved
<1> QED BY <1>2, <1>4, <1>3 DEF OpenCreate

-----------------------------------------------------------------------------
(* Steps that change a file.                                               *)

\* A thread that works on inode i.
FileHeld(s, i) ==
  /\ Keeps(fs, s, {i}) /\ Len(s.inodes) = Len(fs.inodes) /\ Len(s.files) = Len(fs.files)

LEMMA FileHeldFacts ==
  ASSUME IInv, NEW i \in 2 .. Len(fs.inodes), NEW s, FileHeld(s, i)
  PROVE  /\ IsFs(fs) /\ IsFs(s) /\ i \in 1 .. Len(s.inodes) /\ i \in 1 .. Len(fs.inodes)
         /\ i \in Nat /\ i # Dir /\ FileInodes(s) /\ Len(fs.inodes) \in Nat
<1>1. IsFs(fs) /\ IsFs(s) /\ FileInodes(fs) /\ Len(s.inodes) = Len(fs.inodes) /\ Keeps(fs, s, {i})
  BY DEF IInv, TypeInv, FileHeld, Keeps
<1>2. Len(fs.inodes) \in Nat
  BY <1>1 DEF IsFs
<1>3. FileInodes(s)
  BY <1>1 DEF FileInodes, FileHeld, Keeps
<1> QED BY <1>1, <1>2, <1>3 DEF Dir

LEMMA SelfHeld ==
  ASSUME IInv, NEW i
  PROVE  FileHeld(fs, i)
<1>1. Quiet(fs, fs) /\ {} \subseteq {i}
  BY QuietSelf DEF IInv, TypeInv
<1> QED BY <1>1, KeepsMore DEF FileHeld, Quiet

LEMMA FileInodeFacts ==
  ASSUME IInv, NEW i \in 2 .. Len(fs.inodes), NEW s, FileHeld(s, i), NEW z, InodeStep(s, z, i)
  PROVE  FileHeld(z, i) /\ SameContents(s, z, {}) /\ IsFs(z)
<1>1. Keeps(s, z, {i}) /\ SameContents(s, z, {}) /\ IsFs(z)
  BY FileHeldFacts, InodeKeeps DEF InodeStep
<1>2. Keeps(fs, z, {i})
  BY <1>1, FileHeldFacts, KeepsTrans DEF FileHeld
<1> QED BY <1>1, <1>2 DEF FileHeld, InodeStep

LEMMA FileDiskFacts ==
  ASSUME IInv, NEW i \in 2 .. Len(fs.inodes), NEW s, FileHeld(s, i), NEW z, DiskStep(s, z),
         SameContents(s, z, {i})
  PROVE  FileHeld(z, i) /\ z.inodes = s.inodes /\ IsFs(z)
<1>1. Keeps(s, z, {i}) /\ Len(z.inodes) = Len(s.inodes) /\ Len(z.files) = Len(s.files) /\ IsFs(z)
  BY FileHeldFacts, DiskKeeps DEF DiskStep
<1>2. Keeps(fs, z, {i})
  BY <1>1, FileHeldFacts, KeepsTrans DEF FileHeld
<1> QED BY <1>1, <1>2 DEF FileHeld, DiskStep

LEMMA SameAll ==
  ASSUME NEW s, NEW z, SameContents(s, z, {}), NEW I
  PROVE  SameContents(s, z, I)
BY DEF SameContents

LEMMA FileLockedFacts ==
  ASSUME IInv, NEW t \in Threads, NEW i \in 2 .. Len(fs.inodes), NEW l,
         l = readInodeSizeFS(LockInode(fs, t, i), t, i)
  PROVE  /\ FileHeld(l, i) /\ SameContents(fs, l, {}) /\ KnownStep(LockInode(fs, t, i), l) /\ IsFs(l)
         /\ l.inodes[i].lock = t /\ l.inodes[i].isize = fs.inodes[i].isize
<1>1. PICK x : x = LockInode(fs, t, i)
  OBVIOUS
<1>2. IsFs(fs) /\ i \in 1 .. Len(fs.inodes) /\ FileHeld(fs, i)
  BY SelfHeld, FileHeldFacts
<1>3. InodeStep(fs, x, i) /\ x.inodes[i].lock = t /\ x.inodes[i].isize = fs.inodes[i].isize
  BY <1>1, <1>2, LockInodeFacts
<1>4. FileHeld(x, i) /\ SameContents(fs, x, {}) /\ IsFs(x)
  BY <1>2, <1>3, FileInodeFacts
<1>5. i \in 1 .. Len(x.inodes)
  BY <1>4, FileHeldFacts
<1>6. KnownStep(x, l)
  BY <1>1, <1>4, <1>5, ReadSizeFacts
<1>7. DiskStep(x, l) /\ SameContents(x, l, {})
  BY <1>6, SameDisk DEF KnownStep
<1>8. FileHeld(l, i) /\ l.inodes = x.inodes /\ IsFs(l)
  BY <1>4, <1>7, SameAll, FileDiskFacts
<1>9. SameContents(fs, l, {})
  BY <1>4, <1>7, SameContentsTrans
<1> QED BY <1>1, <1>3, <1>6, <1>8, <1>9

LEMMA OwnFileStep ==
  ASSUME IInv, NEW t \in Threads, NEW i \in 2 .. Len(fs.inodes), mode' = mode, CtlStep(t), FileHeld(fs', i),
         fs.inodes[i].lock \in {t, Nobody}, fs'.inodes[i].lock \in {t, Nobody},
         IsSpec(spec', Len(fs.inodes)), spec'.names = spec.names,
         \A j \in 2 .. Len(fs.inodes) : j # i => spec'.data[j] = spec.data[j],
         ThreadOK(t)', \A j : j # i => ~HoldsInode(t, j) /\ ~HoldsInode(t, j)',
         fs'.inodes[i].lock = t <=> HoldsInode(t, i)',
         fs'.inodes[i].lock = Nobody => FileOK(i)'
  PROVE  IInv'
<1>1. /\ Keeps(fs, fs', {i}) /\ Len(fs'.inodes) = Len(fs.inodes) /\ FileInodes(fs')
      /\ Len(fs.inodes) \in Nat /\ i # Dir
  BY FileHeldFacts DEF FileHeld
<1>2. StepFrame(t, {i})
  BY <1>1 DEF StepFrame, CtlStep
<1>3. StepOwn(t, {i})
  <2> HIDE DEF FileOK
  <2> QED BY <1>1 DEF StepOwn
<1> QED BY <1>2, <1>3, Preserved

LEMMA ZeroPaddedFacts ==
  ASSUME NEW d \in Seq(Int), NEW n \in Nat
  PROVE  /\ ZeroPadded(d, n) \in Seq(Int) /\ Len(ZeroPadded(d, n)) = n /\ DOMAIN ZeroPadded(d, n) = 1 .. n
         /\ \A k \in 1 .. n : ZeroPadded(d, n)[k] = IF k <= Len(d) THEN d[k] ELSE 0
BY DEF ZeroPadded

\* The file that a description leads to.
LEMMA SpecData ==
  ASSUME IInv, NEW i \in 2 .. Len(fs.inodes)
  PROVE  /\ spec.data[i] \in Seq(Int) /\ Len(spec.data[i]) \in Nat /\ IsSpec(spec, Len(fs.inodes))
         /\ fs.inodes[i].isize \in Nat
         /\ fs.inodes[i].lock = Nobody => FileOK(i)
<1>1. IsSpec(spec, Len(fs.inodes)) /\ IsFs(fs) /\ i \in 1 .. Len(fs.inodes)
  BY SelfHeld, FileHeldFacts DEF IInv, TypeInv
<1>2. spec.data[i] \in Seq(Int)
  <2> DEFINE S == Seq(Int)
  <2>1. spec.data \in Seq(S) /\ Len(spec.data) = Len(fs.inodes)
    BY <1>1 DEF IsSpec
  <2> HIDE DEF S
  <2>2. spec.data[i] \in S
    BY <1>1, <2>1
  <2> QED BY <2>2 DEF S
<1>3. fs.inodes[i].isize \in Nat
  BY <1>1, InodeFields
<1> QED BY <1>1, <1>2, <1>3 DEF IInv

LEMMA SetData ==
  ASSUME IInv, NEW i \in 2 .. Len(fs.inodes), NEW d \in Seq(Int), spec' = [spec EXCEPT !.data[i] = d]
  PROVE  /\ IsSpec(spec', Len(fs.inodes)) /\ spec'.names = spec.names /\ spec'.data[i] = d
         /\ \A j \in 2 .. Len(fs.inodes) : j # i => spec'.data[j] = spec.data[j]
<1> DEFINE S == Seq(Int)
<1>1. IsSpec(spec, Len(fs.inodes)) /\ d \in S /\ i \in 1 .. Len(fs.inodes)
  BY SpecData, SelfHeld, FileHeldFacts
<1> HIDE DEF S
<1>2. spec.data \in Seq(S) /\ Len(spec.data) = Len(fs.inodes)
  BY <1>1 DEF IsSpec, S
<1>3. /\ spec'.names = spec.names /\ spec'.past = spec.past /\ spec'.data = [spec.data EXCEPT ![i] = d]
      /\ spec' = [names |-> spec'.names, data |-> spec'.data, past |-> spec'.past]
  BY <1>1 DEF IsSpec
<1>4. /\ spec'.data \in Seq(S) /\ Len(spec'.data) = Len(fs.inodes) /\ spec'.data[i] = d
      /\ \A j \in 1 .. Len(fs.inodes) : j # i => spec'.data[j] = spec.data[j]
  BY <1>1, <1>2, <1>3
<1> QED BY <1>1, <1>3, <1>4 DEF IsSpec, S

\* After a truncation, the kept part is as before and the rest reads as zeros.
LEMMA TruncateKeeps ==
  ASSUME IInv, NEW t \in Threads, executeTruncateFS(t)
  PROVE  IInv'
<1>1. PICK i, n : i = ctl[t].inode /\ n = ctl[t].len
  OBVIOUS
<1> DEFINE l == readInodeSizeFS(LockInode(fs, t, i), t, i)
           old == fs.inodes[i].isize
           z == IF n > old THEN zeroDskRangeFS(l, t, i, old, n) ELSE l
           d == updateInodeDisksizeFS(z, t, i, n, IF n > old THEN old ELSE 0, IF n > old THEN n ELSE 0)
           u == updateInodeSizeFS(d, t, i, n)
           f == IF Journal \in {"ordered", "journal"} THEN executeFsyncFS(u, t, i) ELSE u
<1>2. /\ Truncating(t) /\ ctl[t].pc = "truncate" /\ mode' = mode
  BY PcCases DEF executeTruncateFS, At, IInv
<1>3. /\ n \in Int /\ i \in 2 .. Len(fs.inodes) /\ ctl[t].ret \in Int /\ prog[t] # <<>> /\ -1 \in Int
      /\ Free(t)
  BY <1>1, <1>2 DEF Truncating, Free, RenamePcs, WritePcs
<1>4. /\ FileHeld(l, i) /\ SameContents(fs, l, {}) /\ KnownStep(LockInode(fs, t, i), l) /\ IsFs(l)
  BY <1>3, FileLockedFacts
<1>5. /\ IsFs(fs) /\ i \in 1 .. Len(fs.inodes) /\ i # Dir /\ i \in Nat
  BY <1>3, <1>4, FileHeldFacts
<1>6. CASE Return(t, -1) /\ UNCHANGED <<fs, spec>>
  BY <1>2, <1>3, <1>6, SameReturn
<1>7. CASE InodeFree(i) /\ fs' = UnlockInode(l, t, i) /\ Return(t, -1) /\ UNCHANGED spec
  <2> HIDE DEF l
  <2>1. Quiet(fs, fs')
    BY <1>4, <1>5, <1>7, LockedQuiet DEF InodeFree
  <2> QED BY <1>2, <1>3, <1>7, <2>1, QuietReturn
<1>8. CASE /\ n >= 0 /\ InodeFree(i) /\ fs' = UnlockInode(f, t, i) /\ Return(t, ctl[t].ret)
           /\ spec' = [spec EXCEPT !.data[i] = ZeroPadded(@, n)]
  <2>1. /\ n \in Nat /\ old \in Nat /\ spec.data[i] \in Seq(Int)
        /\ old = Len(spec.data[i]) /\ IsSpec(spec, Len(fs.inodes))
        /\ \A k \in 1 .. old : Data(fs, i, k - 1) = spec.data[i][k]
    BY <1>3, <1>8, SpecData DEF InodeFree, FileOK
  <2> HIDE DEF l
  <2>2. /\ FileHeld(z, i) /\ IsFs(z) /\ SameContents(fs, z, {i})
        /\ \A p \in Int : old <= p /\ p < n => Data(z, i, p) = 0
        /\ \A p \in Int : p < old => Data(z, i, p) = Data(fs, i, p)
    <3>1. CASE n > old
      <4>1. PICK x : x = zeroDskRangeFS(l, t, i, old, n)
        OBVIOUS
      <4>2. old \in Int
        BY <2>1
      <4> HIDE DEF old
      <4>3. Zeroed(l, x, i, old, n)
        BY <1>3, <1>4, <1>5, <4>1, <4>2, ZeroFacts
      <4>4. DiskStep(l, x) /\ SameContents(l, x, {i})
        BY <4>3 DEF Zeroed
      <4>5. /\ \A p \in Int : old <= p /\ p < n => Data(x, i, p) = 0
            /\ \A p \in Int : p < old \/ n <= p => Data(x, i, p) = Data(l, i, p)
        BY <4>3 DEF Zeroed
      <4>6. z = x
        BY <3>1, <4>1
      <4> HIDE DEF z
      <4>7. FileHeld(x, i) /\ IsFs(x)
        BY <1>3, <1>4, <4>4, FileDiskFacts
      <4>8. SameContents(fs, x, {i})
        BY <1>4, <4>4 DEF SameContents
      <4>9. \A p : Data(l, i, p) = Data(fs, i, p)
        BY <1>4 DEF SameContents
      <4> QED BY <4>5, <4>6, <4>7, <4>8, <4>9
    <3>2. CASE ~(n > old)
      <4>1. z = l
        BY <3>2
      <4>2. \A p : Data(l, i, p) = Data(fs, i, p)
        BY <1>4 DEF SameContents
      <4>3. \A p \in Int : ~(old <= p /\ p < n)
        BY <2>1, <3>2
      <4>4. SameContents(fs, l, {i})
        BY <1>4, SameAll
      <4> HIDE DEF z, old
      <4> QED BY <1>4, <4>1, <4>2, <4>3, <4>4
    <3> QED BY <3>1, <3>2
  <2> HIDE DEF z
  <2>3. DiskStep(z, d) /\ SameContents(z, d, {})
    BY <1>5, <2>2, SetDisksize
  <2> HIDE DEF d
  <2>4. FileHeld(d, i) /\ IsFs(d)
    BY <1>3, <2>2, <2>3, SameAll, FileDiskFacts
  <2>5. i \in 1 .. Len(d.inodes)
    BY <1>3, <2>4, FileHeldFacts
  <2>6. InodeStep(d, u, i) /\ u.inodes[i].isize = n
    BY <2>1, <2>4, <2>5, UpdateSizeFacts
  <2> HIDE DEF u
  <2>7. FileHeld(u, i) /\ SameContents(d, u, {}) /\ IsFs(u)
    BY <1>3, <2>4, <2>6, FileInodeFacts
  <2>8. DiskStep(u, f) /\ SameContents(u, f, {})
    <3>1. CASE f = u
      BY <2>7, <3>1, SameDisk DEF DiskStep
    <3>2. CASE f = executeFsyncFS(u, t, i)
      BY <1>5, <2>7, <3>2, FsyncKeeps
    <3> QED BY <3>1, <3>2
  <2> HIDE DEF f
  <2>9. FileHeld(f, i) /\ f.inodes = u.inodes /\ IsFs(f)
    BY <1>3, <2>7, <2>8, SameAll, FileDiskFacts
  <2>10. i \in 1 .. Len(f.inodes)
    BY <1>3, <2>9, FileHeldFacts
  <2>11. InodeStep(f, fs', i) /\ fs'.inodes[i].lock = Nobody /\ fs'.inodes[i].isize = n
    BY <1>8, <2>6, <2>9, <2>10, UnlockInodeFacts
  <2>12. FileHeld(fs', i) /\ SameContents(f, fs', {})
    BY <1>3, <2>9, <2>11, FileInodeFacts
  <2>13. SameContents(z, fs', {})
    BY <2>3, <2>7, <2>8, <2>12 DEF SameContents
  <2>14. /\ \A p \in Int : old <= p /\ p < n => Data(fs', i, p) = 0
         /\ \A p \in Int : p < old => Data(fs', i, p) = Data(fs, i, p)
    BY <2>2, <2>13 DEF SameContents
  <2> DEFINE D == ZeroPadded(spec.data[i], n)
  <2>15. /\ D \in Seq(Int) /\ Len(D) = n
         /\ \A k \in 1 .. n : D[k] = IF k <= old THEN spec.data[i][k] ELSE 0
    BY <2>1, ZeroPaddedFacts
  <2>16. spec' = [spec EXCEPT !.data[i] = D]
    BY <1>8
  <2> HIDE DEF D
  <2>17. /\ IsSpec(spec', Len(fs.inodes)) /\ spec'.names = spec.names /\ spec'.data[i] = D
         /\ \A j \in 2 .. Len(fs.inodes) : j # i => spec'.data[j] = spec.data[j]
    BY <1>3, <2>15, <2>16, SetData
  <2> HIDE DEF old
  <2>19. \A k \in 1 .. n : Data(fs', i, k - 1) = D[k]
    <3> TAKE k \in 1 .. n
    <3>1. CASE k <= old
      <4>1. k - 1 \in Int /\ k - 1 < old /\ k \in 1 .. old
        BY <2>1, <3>1
      <4> QED BY <2>1, <2>14, <2>15, <3>1, <4>1
    <3>2. CASE k > old
      <4>1. k - 1 \in Int /\ old <= k - 1 /\ k - 1 < n /\ ~(k <= old)
        BY <2>1, <3>2
      <4> QED BY <2>14, <2>15, <4>1
    <3> QED BY <2>1, <3>1, <3>2
  <2>20. FileOK(i)'
    BY <2>11, <2>15, <2>17, <2>19 DEF FileOK
  <2>21. CtlStep(t) /\ Resting(t)'
    BY <1>3, <1>8, ReturnFacts
  <2>22. ThreadOK(t)' /\ Free(t)'
    BY <2>21 DEF Resting, ThreadOK, Free, RenamePcs, WritePcs
  <2>23. \A j : ~HoldsInode(t, j) /\ ~HoldsInode(t, j)'
    BY <1>3, <2>22 DEF Free, HoldsInode
  <2>24. t # Nobody /\ fs.inodes[i].lock = Nobody
    BY <1>8, ThreadsAssumption DEF Nobody, InodeFree
  <2> HIDE DEF FileOK
  <2> QED BY <1>2, <1>3, <2>11, <2>12, <2>17, <2>20, <2>21, <2>22, <2>23, <2>24, OwnFileStep
<1> QED BY <1>1, <1>6, <1>7, <1>8 DEF executeTruncateFS

\* A thread that is in the middle of a write holds the lock of the inode.
LEMMA WritingFacts ==
  ASSUME IInv, NEW t \in Threads, ctl[t].pc \in WritePcs, NEW i, i = File(t).inode
  PROVE  /\ Writing(t) /\ prog[t] # <<>> /\ HasFile(Call(t).fd) /\ Call(t).fd \in 1 .. Len(fs.files)
         /\ Call(t).op \in {"write", "pwrite"} /\ Call(t).buf \in Seq(Int)
         /\ i \in 2 .. Len(fs.inodes) /\ i \in 1 .. Len(fs.inodes) /\ i # Dir /\ i \in Nat
         /\ HoldsInode(t, i) /\ fs.inodes[i].lock = t /\ t # Nobody
         /\ \A j : j # i => ~HoldsInode(t, j)
         /\ IsFs(fs) /\ FileHeld(fs, i)
<1>1. Writing(t)
  BY PcCases DEF IInv
<1>2. prog[t] # <<>> /\ Call(t).op \in {"write", "pwrite"} /\ HasFile(Call(t).fd) /\ IsFs(fs)
  <2>1. prog[t] # <<>> /\ Call(t).op \in {"write", "pwrite"} /\ Call(t).fd \in 1 .. Len(fs.files)
    BY <1>1 DEF Writing, OnFile, InCall
  <2>2. IsFs(fs)
    BY DEF IInv, TypeInv
  <2>3. DOMAIN fs.files = 1 .. Len(fs.files)
    BY <2>2 DEF IsFs
  <2> QED BY <2>1, <2>2, <2>3 DEF HasFile
<1>3. Call(t).buf \in Seq(Int)
  BY <1>2, CallTyped, CallFields
<1>4. HoldsInode(t, i) /\ \A j : j # i => ~HoldsInode(t, j)
  BY DEF HoldsInode, WritePcs, RenamePcs
<1>5. /\ Call(t).fd \in 1 .. Len(fs.files) /\ i \in 2 .. Len(fs.inodes)
      /\ i \in 1 .. Len(fs.inodes) /\ i # Dir /\ i \in Nat
  BY <1>2, FdFacts
<1>6. fs.inodes[i].lock = t
  BY <1>4, <1>5 DEF IInv, Owners
<1> QED BY <1>1, <1>2, <1>3, <1>4, <1>5, <1>6, SelfHeld, ThreadsAssumption DEF Nobody

\* It goes on with c, having changed nothing but inode i.
LEMMA WriteGoesOn ==
  ASSUME IInv, NEW t \in Threads, ctl[t].pc \in WritePcs, NEW i, i = File(t).inode,
         mode' = mode, spec' = spec, NEW c, Continue(t, c), c.pc \in WritePcs,
         FileHeld(fs', i), fs'.inodes[i].lock = t, Writing(t)'
  PROVE  IInv'
<1>1. /\ i \in 2 .. Len(fs.inodes) /\ fs.inodes[i].lock = t /\ t # Nobody
      /\ \A j : j # i => ~HoldsInode(t, j)
      /\ Call(t).fd \in 1 .. Len(fs.files)
  BY WritingFacts
<1>2. CtlStep(t) /\ prog' = prog /\ ctl'[t] = c /\ Call(t)' = Call(t)
  BY ContinueFacts DEF Call
<1>3. File(t)'.inode = i
  BY <1>1, <1>2 DEF FileHeld, Keeps, File
<1>4. HoldsInode(t, i)' /\ \A j : j # i => ~HoldsInode(t, j)'
  BY <1>2, <1>3 DEF HoldsInode, WritePcs, RenamePcs
<1>5. IsSpec(spec', Len(fs.inodes))
  BY <1>1, SpecData
<1>6. ThreadOK(t)'
  BY DEF ThreadOK
<1> HIDE DEF ThreadOK, Writing
<1> QED BY <1>1, <1>2, <1>4, <1>5, <1>6, OwnFileStep

\* What goes on in a write, besides the bytes.
LEMMA WritingStep ==
  ASSUME IInv, NEW t \in Threads, ctl[t].pc \in WritePcs, NEW i, i = File(t).inode,
         spec' = spec, NEW c, Continue(t, c), FileHeld(fs', i),
         c \in [pc : WritePcs, off : Int, at : Int, end : Int, ord : Int, upto : Int, ret : Int],
         c.off = ctl[t].off, c.end = ctl[t].end,
         c.off <= c.at, c.at <= c.upto, c.upto <= c.end,
         c.pc = "block" => c.at = c.upto /\ c.at < c.end,
         c.pc = "written" => c.at = c.end /\ c.end <= fs'.inodes[i].isize,
         Len(spec.data[i]) <= fs'.inodes[i].isize,
         fs'.inodes[i].isize = Len(spec.data[i]) \/ fs'.inodes[i].isize <= c.at,
         \A k \in Nat \ {0} : k <= Len(spec.data[i]) \/ k <= c.at =>
           Data(fs', i, k - 1) = IF c.off < k /\ k <= c.at THEN Call(t).buf[k - c.off]
                                 ELSE IF k <= Len(spec.data[i]) THEN spec.data[i][k] ELSE 0
  PROVE  Writing(t)'
<1>1. /\ Writing(t) /\ Call(t).fd \in 1 .. Len(fs.files) /\ Call(t).op \in {"write", "pwrite"}
      /\ i \in 2 .. Len(fs.inodes) /\ prog[t] # <<>>
  BY WritingFacts
<1>2. prog' = prog /\ ctl'[t] = c /\ Call(t)' = Call(t)
  BY ContinueFacts DEF Call
<1>3. File(t)'.inode = i /\ File(t)'.flags = File(t).flags
  BY <1>1, <1>2 DEF FileHeld, Keeps, File
<1>4. OnFile(t, {"write", "pwrite"})'
  BY <1>1, <1>2 DEF OnFile, InCall, FileHeld
<1>5. c.end - c.off <= Len(Call(t)'.buf)
  BY <1>1, <1>2 DEF Writing
<1>6. "append" \in File(t)'.flags => c.off = Len(spec.data[i])
  BY <1>1, <1>3 DEF Writing
<1>7. \A k : DataAt(t, k)' = IF c.off < k /\ k <= c.at THEN Call(t).buf[k - c.off]
                             ELSE IF k <= Len(spec.data[i]) THEN spec.data[i][k] ELSE 0
  BY <1>2, <1>3 DEF DataAt
<1>8. \A k \in Nat \ {0} : k <= Len(spec.data[i]) \/ k <= c.at => Data(fs', i, k - 1) = DataAt(t, k)'
  BY <1>7
<1> QED BY <1>2, <1>3, <1>4, <1>5, <1>6, <1>8 DEF Writing

\* The next byte.
LEMMA WriteByteKeeps ==
  ASSUME IInv, NEW t \in Threads, WriteByte(t)
  PROVE  IInv'
<1>1. PICK i, c, v, d : /\ i = File(t).inode /\ c = ctl[t] /\ v = Call(t).buf[c.at - c.off + 1]
                        /\ d = [c EXCEPT !.at = @ + 1]
  OBVIOUS
<1>2. /\ c.pc = "bytes" /\ ctl[t].pc \in WritePcs /\ c.at < c.upto /\ mode' = mode /\ spec' = spec
      /\ fs' = DskWrite(fs, t, DskWriteLabel(Loc(i, "data", c.at), v, i)) /\ Continue(t, d)
  BY <1>1 DEF WriteByte, At, WritePcs
<1>3. /\ Writing(t) /\ i \in 2 .. Len(fs.inodes) /\ i # Dir /\ IsFs(fs) /\ FileHeld(fs, i)
      /\ fs.inodes[i].lock = t
  BY <1>1, <1>2, WritingFacts
<1>4. /\ c \in [pc : WritePcs, off : Int, at : Int, end : Int, ord : Int, upto : Int, ret : Int]
      /\ c.off <= c.at /\ c.at <= c.upto /\ c.upto <= c.end
  BY <1>1, <1>3 DEF Writing
<1>5. /\ d \in [pc : WritePcs, off : Int, at : Int, end : Int, ord : Int, upto : Int, ret : Int]
      /\ d.pc = "bytes" /\ d.off = c.off /\ d.at = c.at + 1 /\ d.end = c.end /\ d.upto = c.upto
  BY <1>1, <1>2, <1>4
<1>6. ByteWritten(fs, fs', i, c.at, v)
  BY <1>2, <1>3, WriteData
<1>7. DiskStep(fs, fs') /\ SameContents(fs, fs', {i}) /\ Data(fs', i, c.at) = v
  BY <1>6 DEF ByteWritten
<1>8. \A q : q # c.at => Data(fs', i, q) = Data(fs, i, q)
  BY <1>6 DEF ByteWritten
<1>9. FileHeld(fs', i) /\ fs'.inodes = fs.inodes
  BY <1>3, <1>7, FileDiskFacts
<1>10. /\ Len(spec.data[i]) \in Nat /\ fs.inodes[i].isize \in Nat
  BY <1>3, SpecData
<1>12. \A k \in Nat \ {0} : k <= Len(spec.data[i]) \/ k <= d.at =>
         Data(fs', i, k - 1) = IF d.off < k /\ k <= d.at THEN Call(t).buf[k - d.off]
                               ELSE IF k <= Len(spec.data[i]) THEN spec.data[i][k] ELSE 0
  <2> SUFFICES ASSUME NEW k \in Nat \ {0}, k <= Len(spec.data[i]) \/ k <= d.at
               PROVE  Data(fs', i, k - 1) = IF d.off < k /\ k <= d.at THEN Call(t).buf[k - d.off]
                                            ELSE IF k <= Len(spec.data[i]) THEN spec.data[i][k] ELSE 0
    OBVIOUS
  <2>1. CASE k = c.at + 1
    <3>1. k - 1 = c.at /\ d.off < k /\ k <= d.at /\ k - d.off = c.at - c.off + 1
      <4>1. c.at \in Int /\ c.off \in Int /\ c.off <= c.at /\ d.off = c.off /\ d.at = c.at + 1
        BY <1>4, <1>5
      <4> QED BY <2>1, <4>1
    <3> QED BY <1>1, <1>7, <3>1
  <2>2. CASE k # c.at + 1
    <3>1. /\ k - 1 # c.at /\ (k <= Len(spec.data[i]) \/ k <= c.at)
          /\ d.off < k /\ k <= d.at <=> c.off < k /\ k <= c.at
      BY <1>4, <1>5, <1>10, <2>2
    <3>2. Data(fs, i, k - 1) = DataAt(t, k)
      BY <1>1, <1>3, <3>1 DEF Writing
    <3> QED BY <1>1, <1>5, <1>8, <3>1, <3>2 DEF DataAt
  <2> QED BY <2>1, <2>2
<1>14. /\ Len(spec.data[i]) <= fs'.inodes[i].isize
       /\ fs'.inodes[i].isize = Len(spec.data[i]) \/ fs'.inodes[i].isize <= d.at
  <2>1. /\ Len(spec.data[i]) <= fs.inodes[i].isize
        /\ fs.inodes[i].isize = Len(spec.data[i]) \/ fs.inodes[i].isize <= c.at
    BY <1>1, <1>3 DEF Writing
  <2>2. c.at \in Int /\ d.at = c.at + 1
    BY <1>4, <1>5
  <2>3. fs.inodes[i].isize <= c.at => fs.inodes[i].isize <= d.at
    BY <1>10, <2>2
  <2> QED BY <1>9, <2>1, <2>3
<1>15. Writing(t)'
  <2>1. d.off <= d.at /\ d.at <= d.upto /\ d.upto <= d.end
    BY <1>2, <1>4, <1>5
  <2> QED BY <1>1, <1>2, <1>5, <1>9, <1>12, <1>14, <2>1, WritingStep
<1> QED BY <1>1, <1>2, <1>3, <1>5, <1>9, <1>15, WriteGoesOn

\* A part that ends with its block or with the call.
LEMMA BlockPart ==
  ASSUME NEW at \in Int, NEW end \in Int, at < end,
         NEW rem, rem = BlockSize - (at % BlockSize),
         NEW bytes, bytes = IF end - at < BlockSize THEN end - at ELSE BlockSize,
         NEW upto, upto = at + (IF at % BlockSize # 0 /\ bytes > rem THEN rem ELSE bytes)
  PROVE  upto \in Int /\ at <= upto /\ upto <= end
<1>1. BlockSize \in Nat \ {0}
  BY BlockSizeAssumption
<1>2. at % BlockSize \in 0 .. BlockSize - 1
  BY <1>1
<1>3. rem \in Int /\ 1 <= rem
  BY <1>1, <1>2
<1>4. bytes \in Int /\ 1 <= bytes /\ bytes <= end - at
  BY <1>1
<1> QED BY <1>3, <1>4

LEMMA BlockBeginKeeps ==
  ASSUME IInv, NEW t \in Threads, BlockBegin(t)
  PROVE  IInv'
<1>1. PICK i, c, rem, bytes, upto, d :
         /\ i = File(t).inode /\ c = ctl[t] /\ rem = BlockSize - (c.at % BlockSize)
         /\ bytes = IF c.end - c.at < BlockSize THEN c.end - c.at ELSE BlockSize
         /\ upto = c.at + (IF c.at % BlockSize # 0 /\ bytes > rem THEN rem ELSE bytes)
         /\ d = [c EXCEPT !.pc = "bytes", !.upto = upto]
  OBVIOUS
<1>2. /\ c.pc = "block" /\ ctl[t].pc \in WritePcs /\ mode' = mode /\ spec' = spec
      /\ fs' = IF Journal = "journal" THEN setInodeTransStatus(fs, t, i, 1) ELSE fs
      /\ Continue(t, d)
  BY <1>1 DEF BlockBegin, At, WritePcs
<1>3. /\ Writing(t) /\ i \in 2 .. Len(fs.inodes) /\ i # Dir /\ i \in Nat /\ IsFs(fs) /\ FileHeld(fs, i)
      /\ fs.inodes[i].lock = t
  BY <1>1, <1>2, WritingFacts
<1>4. /\ c \in [pc : WritePcs, off : Int, at : Int, end : Int, ord : Int, upto : Int, ret : Int]
      /\ c.off <= c.at /\ c.at < c.end
  BY <1>1, <1>2, <1>3 DEF Writing
<1>5. upto \in Int /\ c.at <= upto /\ upto <= c.end
  BY <1>1, <1>4, BlockPart
<1>6. /\ d \in [pc : WritePcs, off : Int, at : Int, end : Int, ord : Int, upto : Int, ret : Int]
      /\ d.pc = "bytes" /\ d.off = c.off /\ d.at = c.at /\ d.end = c.end /\ d.upto = upto
  BY <1>1, <1>2, <1>4, <1>5 DEF WritePcs
<1>7. DiskStep(fs, fs') /\ SameContents(fs, fs', {})
  <2>1. CASE fs' = fs
    BY <1>3, <2>1, SameDisk DEF DiskStep
  <2>2. CASE fs' = setInodeTransStatus(fs, t, i, 1)
    BY <1>3, <2>2, SetTrans
  <2> QED BY <1>2, <2>1, <2>2
<1>8. FileHeld(fs', i) /\ fs'.inodes = fs.inodes
  BY <1>3, <1>7, SameAll, FileDiskFacts
<1>11. \A k \in Nat \ {0} : k <= Len(spec.data[i]) \/ k <= d.at =>
         Data(fs', i, k - 1) = IF d.off < k /\ k <= d.at THEN Call(t).buf[k - d.off]
                               ELSE IF k <= Len(spec.data[i]) THEN spec.data[i][k] ELSE 0
  <2>1. \A k \in Nat \ {0} : k <= Len(spec.data[i]) \/ k <= c.at => Data(fs, i, k - 1) = DataAt(t, k)
    BY <1>1, <1>3 DEF Writing
  <2>2. \A p : Data(fs', i, p) = Data(fs, i, p)
    BY <1>3, <1>7 DEF SameContents
  <2>3. \A k : DataAt(t, k) = IF c.off < k /\ k <= c.at THEN Call(t).buf[k - c.off]
                              ELSE IF k <= Len(spec.data[i]) THEN spec.data[i][k] ELSE 0
    BY <1>1 DEF DataAt
  <2>4. d.off = c.off /\ d.at = c.at
    BY <1>6
  <2> QED BY <2>1, <2>2, <2>3, <2>4
<1>13. /\ Len(spec.data[i]) <= fs'.inodes[i].isize
       /\ fs'.inodes[i].isize = Len(spec.data[i]) \/ fs'.inodes[i].isize <= d.at
  BY <1>1, <1>3, <1>6, <1>8 DEF Writing
<1>14. Writing(t)'
  <2>1. d.off <= d.at /\ d.at <= d.upto /\ d.upto <= d.end
    BY <1>4, <1>5, <1>6
  <2> QED BY <1>1, <1>2, <1>6, <1>8, <1>11, <1>13, <2>1, WritingStep
<1> QED BY <1>1, <1>2, <1>3, <1>6, <1>8, <1>14, WriteGoesOn

\* The size grows to what has been written.
LEMMA BlockEndKeeps ==
  ASSUME IInv, NEW t \in Threads, BlockEnd(t)
  PROVE  IInv'
<1>1. PICK i, c, x, u, d :
         /\ i = File(t).inode /\ c = ctl[t]
         /\ x = updateInodeDisksizeFS(fs, t, i, c.at, c.ord, c.at)
         /\ u = IF c.at > fs.inodes[i].isize THEN updateInodeSizeFS(x, t, i, c.at) ELSE fs
         /\ d = [c EXCEPT !.pc = IF c.at < c.end THEN "block" ELSE "written",
                          !.ord = IF c.at > fs.inodes[i].isize THEN c.at ELSE @]
  OBVIOUS
<1>2. /\ c.pc = "bytes" /\ c.at = c.upto /\ ctl[t].pc \in WritePcs /\ mode' = mode /\ spec' = spec
      /\ fs' = (IF Journal = "journal" THEN executeFsyncFS(setInodeTransStatus(u, t, i, 0), t, i) ELSE u)
      /\ Continue(t, d)
  BY <1>1 DEF BlockEnd, At, WritePcs
<1>3. /\ Writing(t) /\ i \in 2 .. Len(fs.inodes) /\ i # Dir /\ i \in Nat /\ IsFs(fs) /\ FileHeld(fs, i)
      /\ fs.inodes[i].lock = t
  BY <1>1, <1>2, WritingFacts
<1>4. /\ c \in [pc : WritePcs, off : Int, at : Int, end : Int, ord : Int, upto : Int, ret : Int]
      /\ c.off <= c.at /\ c.at <= c.end
  BY <1>1, <1>2, <1>3 DEF Writing
<1>5. /\ d \in [pc : WritePcs, off : Int, at : Int, end : Int, ord : Int, upto : Int, ret : Int]
      /\ d.pc = (IF c.at < c.end THEN "block" ELSE "written")
      /\ d.off = c.off /\ d.at = c.at /\ d.end = c.end /\ d.upto = c.upto
  BY <1>1, <1>4 DEF WritePcs
<1>6. /\ Len(spec.data[i]) \in Nat /\ fs.inodes[i].isize \in Nat
      /\ Len(spec.data[i]) <= fs.inodes[i].isize
      /\ fs.inodes[i].isize = Len(spec.data[i]) \/ fs.inodes[i].isize <= c.at
  BY <1>1, <1>3, SpecData DEF Writing
<1>7. /\ FileHeld(u, i) /\ IsFs(u) /\ SameContents(fs, u, {}) /\ u.inodes[i].lock = t
      /\ u.inodes[i].isize = IF c.at > fs.inodes[i].isize THEN c.at ELSE fs.inodes[i].isize
  <2>1. CASE c.at > fs.inodes[i].isize
    <3>1. c.at \in Nat
      BY <1>4, <1>6, <2>1
    <3>2. DiskStep(fs, x) /\ SameContents(fs, x, {})
      BY <1>1, <1>3, SetDisksize
    <3>3. FileHeld(x, i) /\ x.inodes = fs.inodes /\ IsFs(x)
      BY <1>3, <3>2, SameAll, FileDiskFacts
    <3>4. i \in 1 .. Len(x.inodes)
      BY <1>3, <3>3, FileHeldFacts
    <3>5. u = updateInodeSizeFS(x, t, i, c.at)
      BY <1>1, <2>1
    <3>6. InodeStep(x, u, i) /\ u.inodes[i].lock = x.inodes[i].lock /\ u.inodes[i].isize = c.at
      BY <3>1, <3>3, <3>4, <3>5, UpdateSizeFacts
    <3>7. FileHeld(u, i) /\ SameContents(x, u, {}) /\ IsFs(u)
      BY <1>3, <3>3, <3>6, FileInodeFacts
    <3>8. SameContents(fs, u, {})
      BY <3>2, <3>7, SameContentsTrans
    <3> QED BY <1>3, <2>1, <3>3, <3>6, <3>7, <3>8
  <2>2. CASE ~(c.at > fs.inodes[i].isize)
    <3>1. u = fs
      BY <1>1, <2>2
    <3> QED BY <1>3, <2>2, <3>1, SameDisk
  <2> QED BY <2>1, <2>2
<1>8. DiskStep(u, fs') /\ SameContents(u, fs', {})
  <2>1. CASE fs' = u
    BY <1>7, <2>1, SameDisk DEF DiskStep
  <2>2. CASE fs' = executeFsyncFS(setInodeTransStatus(u, t, i, 0), t, i)
    <3>1. PICK y : y = setInodeTransStatus(u, t, i, 0)
      OBVIOUS
    <3>2. DiskStep(u, y) /\ SameContents(u, y, {})
      BY <1>3, <1>7, <3>1, SetTrans
    <3>3. IsFs(y) /\ fs' = executeFsyncFS(y, t, i)
      BY <2>2, <3>1, <3>2 DEF DiskStep
    <3>4. DiskStep(y, fs') /\ SameContents(y, fs', {})
      BY <1>3, <3>3, FsyncKeeps
    <3> QED BY <3>2, <3>4, DiskStepTrans, SameContentsTrans
  <2> QED BY <1>2, <2>1, <2>2
<1>9. FileHeld(fs', i) /\ fs'.inodes = u.inodes
  BY <1>3, <1>7, <1>8, SameAll, FileDiskFacts
<1>10. SameContents(fs, fs', {})
  BY <1>7, <1>8, SameContentsTrans
<1>11. \A k \in Nat \ {0} : k <= Len(spec.data[i]) \/ k <= d.at =>
         Data(fs', i, k - 1) = IF d.off < k /\ k <= d.at THEN Call(t).buf[k - d.off]
                               ELSE IF k <= Len(spec.data[i]) THEN spec.data[i][k] ELSE 0
  BY <1>1, <1>3, <1>5, <1>10 DEF Writing, DataAt, SameContents
<1>14. /\ Len(spec.data[i]) <= fs'.inodes[i].isize
       /\ fs'.inodes[i].isize = Len(spec.data[i]) \/ fs'.inodes[i].isize <= d.at
       /\ c.at <= fs'.inodes[i].isize
  <2>1. c.at \in Int /\ d.at = c.at
    BY <1>4, <1>5
  <2>2. fs'.inodes[i].isize = IF c.at > fs.inodes[i].isize THEN c.at ELSE fs.inodes[i].isize
    BY <1>7, <1>9
  <2>3. CASE c.at > fs.inodes[i].isize
    <3>1. fs'.inodes[i].isize = c.at
      BY <2>2, <2>3
    <3>2. Len(spec.data[i]) <= c.at
      BY <1>6, <2>1, <2>3
    <3> QED BY <2>1, <3>1, <3>2
  <2>4. CASE ~(c.at > fs.inodes[i].isize)
    <3>1. fs'.inodes[i].isize = fs.inodes[i].isize
      BY <2>2, <2>4
    <3>2. c.at <= fs.inodes[i].isize
      BY <1>6, <2>1, <2>4
    <3> QED BY <1>6, <2>1, <3>1, <3>2
  <2> QED BY <2>3, <2>4
<1>15. Writing(t)'
  <2>1. d.off <= d.at /\ d.at <= d.upto /\ d.upto <= d.end
    BY <1>2, <1>4, <1>5
  <2>2. d.pc = "block" => d.at = d.upto /\ d.at < d.end
    BY <1>2, <1>4, <1>5
  <2>3. d.pc = "written" => d.at = d.end /\ d.end <= fs'.inodes[i].isize
    BY <1>4, <1>5, <1>14
  <2>4. /\ d \in [pc : WritePcs, off : Int, at : Int, end : Int, ord : Int, upto : Int, ret : Int]
        /\ d.off = ctl[t].off /\ d.end = ctl[t].end
    BY <1>1, <1>5
  <2>5. i = File(t).inode /\ Continue(t, d) /\ ctl[t].pc \in WritePcs /\ spec' = spec
    BY <1>1, <1>2
  <2>6. /\ Len(spec.data[i]) <= fs'.inodes[i].isize
        /\ fs'.inodes[i].isize = Len(spec.data[i]) \/ fs'.inodes[i].isize <= d.at
    BY <1>14
  <2> QED BY <1>9, <1>11, <2>1, <2>2, <2>3, <2>4, <2>5, <2>6, WritingStep
<1>16. d.pc \in WritePcs
  BY <1>5
<1>17. /\ i = File(t).inode /\ ctl[t].pc \in WritePcs /\ mode' = mode /\ spec' = spec
       /\ Continue(t, d)
  BY <1>1, <1>2
<1>18. FileHeld(fs', i) /\ fs'.inodes[i].lock = t
  BY <1>7, <1>9
<1> QED BY <1>15, <1>16, <1>17, <1>18, WriteGoesOn

\* The contents after a write.
Overwrite(d, buf, off, end, n) ==
  [k \in DOMAIN ZeroPadded(d, n) |->
     IF k \in off + 1 .. off + end - off THEN buf[k - off] ELSE ZeroPadded(d, n)[k]]
Overwritten(d, buf, off, end, n, D) ==
  /\ D \in Seq(Int) /\ Len(D) = n
  /\ \A k \in 1 .. n : D[k] = IF off < k /\ k <= end THEN buf[k - off]
                              ELSE IF k <= Len(d) THEN d[k] ELSE 0

LEMMA OverwrittenFacts ==
  ASSUME NEW d \in Seq(Int), NEW buf \in Seq(Int), NEW off \in Int, NEW end \in Int,
         off <= end, end - off <= Len(buf), NEW n, n = IF end > Len(d) THEN end ELSE Len(d),
         NEW D, D = Overwrite(d, buf, off, end, n)
  PROVE  Overwritten(d, buf, off, end, n, D)
<1>1. n \in Nat /\ Len(d) \in Nat /\ Len(buf) \in Nat
  OBVIOUS
<1>2. PICK z : z = ZeroPadded(d, n)
  OBVIOUS
<1>3. /\ z \in Seq(Int) /\ DOMAIN z = 1 .. n
      /\ \A k \in 1 .. n : z[k] = IF k <= Len(d) THEN d[k] ELSE 0
  BY <1>1, <1>2, ZeroPaddedFacts
<1>4. D = [k \in 1 .. n |-> IF off < k /\ k <= end THEN buf[k - off] ELSE z[k]]
  <2>1. \A k \in 1 .. n : k \in off + 1 .. off + end - off <=> off < k /\ k <= end
    BY <1>1
  <2> QED BY <1>2, <1>3, <2>1 DEF Overwrite
<1>5. \A k \in 1 .. n : D[k] = IF off < k /\ k <= end THEN buf[k - off] ELSE z[k]
  BY <1>4
<1>6. ASSUME NEW k \in 1 .. n PROVE D[k] \in Int
  <2>1. CASE off < k /\ k <= end
    <3>1. k - off \in 1 .. Len(buf)
      BY <1>1, <2>1
    <3>2. buf[k - off] \in Int
      BY <3>1
    <3> QED BY <1>5, <2>1, <3>2
  <2>2. CASE ~(off < k /\ k <= end)
    <3>1. z[k] \in Int
      BY <1>3
    <3> QED BY <1>5, <2>2, <3>1
  <2> QED BY <2>1, <2>2
<1>7. D \in [1 .. n -> Int]
  BY <1>4, <1>6
<1>8. D \in Seq(Int) /\ Len(D) = n
  <2> SUFFICES ASSUME NEW m \in Nat, NEW E \in [1 .. m -> Int] PROVE E \in Seq(Int) /\ Len(E) = m
    BY <1>1, <1>7
  <2> QED OBVIOUS
<1> QED BY <1>3, <1>5, <1>8 DEF Overwritten

\* What has been written is what the file should contain.
LEMMA EndWriteKeeps ==
  ASSUME IInv, NEW t \in Threads, EndWrite(t)
  PROVE  IInv'
<1>1. PICK i, c, d, n, buf, x, D :
         /\ i = File(t).inode /\ c = ctl[t] /\ d = spec.data[i] /\ buf = Call(t).buf
         /\ n = IF c.end > Len(d) THEN c.end ELSE Len(d)
         /\ x = IF "sync" \in File(t).flags THEN executeFsyncFS(UnlockInode(fs, t, i), t, i)
                ELSE UnlockInode(fs, t, i)
         /\ D = Overwrite(d, buf, c.off, c.end, n)
  OBVIOUS
<1>2. c.pc = "written" /\ ctl[t].pc \in WritePcs /\ mode' = mode /\ FinishAccess(t, x, c.end - c.off)
  BY <1>1 DEF EndWrite, At, WritePcs
<1>3. /\ Writing(t) /\ prog[t] # <<>> /\ Call(t).fd \in 1 .. Len(fs.files) /\ buf \in Seq(Int)
      /\ i \in 2 .. Len(fs.inodes) /\ i \in 1 .. Len(fs.inodes) /\ i # Dir /\ i \in Nat
      /\ fs.inodes[i].lock = t /\ t # Nobody /\ IsFs(fs) /\ FileHeld(fs, i)
      /\ \A j : j # i => ~HoldsInode(t, j)
  BY <1>1, <1>2, WritingFacts
<1>4. /\ c.off \in Int /\ c.end \in Int /\ c.off <= c.end /\ c.end - c.off <= Len(buf) /\ c.at = c.end
  BY <1>1, <1>2, <1>3 DEF Writing
<1>5. /\ Len(d) <= fs.inodes[i].isize /\ c.end <= fs.inodes[i].isize
      /\ fs.inodes[i].isize = Len(d) \/ fs.inodes[i].isize <= c.end
      /\ "append" \in File(t).flags => c.off = Len(d)
  BY <1>1, <1>2, <1>3, <1>4 DEF Writing
<1>6. d \in Seq(Int) /\ Len(d) \in Nat /\ fs.inodes[i].isize \in Nat
  BY <1>1, <1>3, SpecData
<1>7. n = fs.inodes[i].isize
  BY <1>1, <1>4, <1>5, <1>6
<1>8. D \in Seq(Int) /\ Len(D) = n /\ Overwritten(d, buf, c.off, c.end, n, D)
  <2>1. Overwritten(d, buf, c.off, c.end, n, D)
    BY <1>1, <1>3, <1>4, <1>6, OverwrittenFacts
  <2> QED BY <2>1 DEF Overwritten
<1>9. spec' = [spec EXCEPT !.data[i] = D]
  <2>1. (IF "append" \in File(t).flags THEN Len(spec.data[i]) ELSE c.off) = c.off
    BY <1>1, <1>5
  <2>2. spec' = [spec EXCEPT !.data[i] = Overwrite(spec.data[i], Call(t).buf, c.off, c.end, n)]
    BY <1>1, <2>1 DEF EndWrite, Overwrite
  <2> QED BY <1>1, <2>2
<1>10. /\ IsSpec(spec', Len(fs.inodes)) /\ spec'.names = spec.names /\ spec'.data[i] = D
       /\ \A j \in 2 .. Len(fs.inodes) : j # i => spec'.data[j] = spec.data[j]
  BY <1>3, <1>8, <1>9, SetData
<1>11. /\ FileHeld(x, i) /\ IsFs(x) /\ SameContents(fs, x, {})
       /\ x.inodes[i].lock = Nobody /\ x.inodes[i].isize = n
  <2>1. PICK u : u = UnlockInode(fs, t, i)
    OBVIOUS
  <2>2. InodeStep(fs, u, i) /\ u.inodes[i].lock = Nobody /\ u.inodes[i].isize = fs.inodes[i].isize
    BY <1>3, <2>1, UnlockInodeFacts
  <2>3. FileHeld(u, i) /\ SameContents(fs, u, {}) /\ IsFs(u)
    BY <1>3, <2>2, FileInodeFacts
  <2>4. CASE x = u
    BY <1>7, <2>2, <2>3, <2>4
  <2>5. CASE x = executeFsyncFS(u, t, i)
    <3>1. DiskStep(u, x) /\ SameContents(u, x, {})
      BY <1>3, <2>3, <2>5, FsyncKeeps
    <3>2. FileHeld(x, i) /\ x.inodes = u.inodes /\ IsFs(x)
      BY <1>3, <2>3, <3>1, SameAll, FileDiskFacts
    <3> QED BY <1>7, <2>2, <2>3, <3>1, <3>2, SameContentsTrans
  <2> QED BY <1>1, <2>1, <2>4, <2>5
<1>12. FileInodes(x) /\ Call(t).fd \in 1 .. Len(x.files)
  BY <1>3, <1>11, FileHeldFacts DEF FileHeld
<1>13. CtlStep(t) /\ FilesStep(x, fs') /\ Free(t)' /\ ThreadOK(t)'
  <2>1. c.end - c.off \in Int
    BY <1>4
  <2> QED BY <1>2, <1>3, <1>11, <1>12, <2>1, FinishAccessFacts
<1>14. Len(fs'.files) = Len(x.files)
  <2>1. fs' = x \/ fs' = Released(x, t, c.end - c.off)
    BY <1>2 DEF FinishAccess
  <2> QED BY <1>4, <1>11, <1>12, <2>1, ReleasedFacts
<1>15. /\ FileHeld(fs', i) /\ SameContents(fs, fs', {})
       /\ fs'.inodes[i].lock = Nobody /\ fs'.inodes[i].isize = n
  <2>1. SameContents(x, fs', {}) /\ fs'.inodes = x.inodes
    BY <1>13, SameDisk DEF FilesStep
  <2>2. SameContents(fs, fs', {})
    BY <1>11, <2>1, SameContentsTrans
  <2>3. SameContents(fs, fs', {i})
    BY <2>2, SameAll
  <2> HIDE DEF SameContents
  <2>4. FileHeld(fs', i)
    BY <1>11, <1>13, <1>14, <2>1, <2>3 DEF FileHeld, Keeps, FilesStep
  <2> QED BY <1>11, <2>1, <2>2, <2>4
<1>17. FileOK(i)'
  <2>1. \A k \in 1 .. n : Data(fs', i, k - 1) = D[k]
    <3> TAKE k \in 1 .. n
    <3>1. k \in Nat \ {0} /\ (k <= Len(d) \/ k <= c.at)
      BY <1>1, <1>4, <1>6
    <3>2. Data(fs, i, k - 1) = DataAt(t, k)
      BY <1>1, <1>3, <3>1 DEF Writing
    <3>3. DataAt(t, k) = IF c.off < k /\ k <= c.end THEN buf[k - c.off]
                         ELSE IF k <= Len(d) THEN d[k] ELSE 0
      BY <1>1, <1>4 DEF DataAt
    <3>4. Data(fs', i, k - 1) = Data(fs, i, k - 1)
      BY <1>15 DEF SameContents
    <3>5. D[k] = IF c.off < k /\ k <= c.end THEN buf[k - c.off]
                 ELSE IF k <= Len(d) THEN d[k] ELSE 0
      BY <1>8 DEF Overwritten
    <3> QED BY <3>2, <3>3, <3>4, <3>5
  <2> QED BY <1>8, <1>10, <1>15, <2>1 DEF FileOK
<1>18. \A j : ~HoldsInode(t, j)'
  BY <1>13 DEF Free, HoldsInode
<1> HIDE DEF FileOK
<1> QED BY <1>2, <1>3, <1>10, <1>13, <1>15, <1>17, <1>18, OwnFileStep

\* A write fits into its buffer.
LEMMA ChecksFacts ==
  ASSUME NEW t, NEW i, Call(t).buf \in Seq(Int), fs.inodes[i].isize \in Int, ctl[t].off \in Int,
         NEW w, w = executeWriteChecksFS(t, i)
  PROVE  /\ w.off \in Int /\ w.n \in Int /\ w.n <= Len(Call(t).buf)
         /\ "append" \in File(t).flags => w.off = fs.inodes[i].isize
<1>1. PICK off, n : /\ off = (IF "append" \in File(t).flags THEN fs.inodes[i].isize ELSE ctl[t].off)
                    /\ n = Len(Call(t).buf)
  OBVIOUS
<1>2. MaxFileSize \in Int /\ n \in Nat /\ off \in Int
  BY <1>1, MaxFileSizeAssumption
<1>3. /\ w.off = off
      /\ w.n = IF n <= 0 THEN n ELSE IF off >= MaxFileSize THEN -1
               ELSE IF n < MaxFileSize - off THEN n ELSE MaxFileSize - off
  BY <1>1 DEF executeWriteChecksFS
<1>4. w.n \in Int /\ w.n <= n
  BY <1>2, <1>3
<1> QED BY <1>1, <1>2, <1>3, <1>4

\* What lies between the old end and the write reads as zeros.
LEMMA WriteChecksKeeps ==
  ASSUME IInv, NEW t \in Threads, WriteChecks(t)
  PROVE  IInv'
<1>1. PICK i, w, l, size, be, d, e :
         /\ i = File(t).inode /\ w = executeWriteChecksFS(t, i)
         /\ l = readInodeSizeFS(LockInode(fs, t, i), t, i) /\ size = fs.inodes[i].isize
         /\ be = size + BlockSize - (size % BlockSize)
         /\ d = IF be < w.off + w.n THEN be ELSE w.off + w.n
         /\ e = IF DelAlloc /\ shouldUpdateInodeDisksizeFS(size, w.off, w.n)
                THEN updateInodeDisksizeFS(zeroDskRangeFS(l, t, i, size, d), t, i, d, size, d)
                ELSE l
  OBVIOUS
<1>2. /\ ctl[t].pc = "write" /\ fs.inodes[i].lock = Nobody /\ mode' = mode /\ spec' = spec
      /\ IF w.n <= 0 THEN FinishAccess(t, UnlockInode(l, t, i), 0)
         ELSE /\ fs' = PadUpTo(e, t, i, w.off)
              /\ Continue(t, [pc |-> "block", off |-> w.off, at |-> w.off, end |-> w.off + w.n,
                              ord |-> 0, upto |-> w.off, ret |-> 0])
  <2>1. WriteChecks(t)
    OBVIOUS
  <2> QED BY <1>1, <2>1 DEF WriteChecks, At, InodeFree
<1>3. Starting(t)
  BY <1>2, PcCases DEF IInv
<1>4. /\ prog[t] # <<>> /\ Call(t) \in CallTypes /\ Call(t).op \in {"write", "pwrite"}
      /\ Call(t).fd \in 1 .. Len(fs.files) /\ ctl[t].off \in Int
  <2>1. prog[t] \in Seq(CallTypes)
    BY DEF IInv, TypeInv
  <2> QED BY <1>3, <2>1 DEF Starting, OnFile, InCall, Call
<1>5. Free(t) /\ Call(t).buf \in Seq(Int) /\ Len(Call(t).buf) \in Nat
  BY <1>2, <1>4, CallFields DEF Free, RenamePcs, WritePcs
<1>6. i \in 2 .. Len(fs.inodes)
  BY <1>1, <1>4 DEF IInv, TypeInv, FileInodes, File
<1>7. /\ FileHeld(l, i) /\ SameContents(fs, l, {}) /\ KnownStep(LockInode(fs, t, i), l) /\ IsFs(l)
      /\ l.inodes[i].lock = t /\ l.inodes[i].isize = size
  <2>1. l = readInodeSizeFS(LockInode(fs, t, i), t, i) /\ size = fs.inodes[i].isize
    BY <1>1
  <2> QED BY <1>6, <2>1, FileLockedFacts
<1>8. IsFs(fs) /\ i \in 1 .. Len(fs.inodes) /\ i # Dir /\ i \in Nat
  BY <1>6, <1>7, FileHeldFacts
<1>9. /\ size \in Nat /\ IsSpec(spec, Len(fs.inodes)) /\ FileOK(i)
      /\ spec.data[i] \in Seq(Int) /\ Len(spec.data[i]) \in Nat
  BY <1>1, <1>2, <1>6, SpecData
<1>10. /\ w.off \in Int /\ w.n \in Int /\ w.n <= Len(Call(t).buf)
       /\ "append" \in File(t).flags => w.off = size
  <2>1. size = fs.inodes[i].isize /\ size \in Int /\ w = executeWriteChecksFS(t, i) /\ ctl[t].off \in Int
    BY <1>1, <1>4, <1>9
  <2> QED BY <1>5, <2>1, ChecksFacts
<1>11. CASE w.n <= 0
  <2>1. Quiet(fs, UnlockInode(l, t, i))
    BY <1>2, <1>7, <1>8, LockedQuiet
  <2>2. 0 \in Int /\ FinishAccess(t, UnlockInode(l, t, i), 0)
    BY <1>2, <1>11
  <2> QED BY <1>2, <1>4, <1>5, <2>1, <2>2, QuietFinish
<1>12. CASE ~(w.n <= 0)
  <2>1. PICK c : c = [pc |-> "block", off |-> w.off, at |-> w.off, end |-> w.off + w.n,
                      ord |-> 0, upto |-> w.off, ret |-> 0]
    OBVIOUS
  <2>2. fs' = zeroDskRangeFS(e, t, i, e.inodes[i].isize, w.off) /\ Continue(t, c)
    BY <1>2, <1>12, <2>1 DEF PadUpTo
  <2>3. d \in Int
    <3>1. be \in Int
      <4>1. size \in Int /\ size % BlockSize \in Int /\ BlockSize \in Int
        BY <1>9, BlockSizeAssumption
      <4> QED BY <1>1, <4>1
    <3>2. w.off \in Int /\ w.n \in Int /\ (d = be \/ d = w.off + w.n)
      BY <1>1, <1>10
    <3> QED BY <3>1, <3>2
  <2>4. /\ FileHeld(e, i) /\ IsFs(e) /\ e.inodes = l.inodes
        /\ \A p \in Int : p < size => Data(e, i, p) = Data(fs, i, p)
    <3>1. CASE e = l
      BY <1>7, <3>1 DEF SameContents
    <3>2. CASE e = updateInodeDisksizeFS(zeroDskRangeFS(l, t, i, size, d), t, i, d, size, d)
      <4>1. PICK z : z = zeroDskRangeFS(l, t, i, size, d)
        OBVIOUS
      <4>2. Zeroed(l, z, i, size, d)
        BY <1>7, <1>8, <1>9, <2>3, <4>1, ZeroFacts
      <4>3. DiskStep(l, z) /\ SameContents(l, z, {i})
        BY <4>2 DEF Zeroed
      <4>4. \A p \in Int : p < size => Data(z, i, p) = Data(l, i, p)
        BY <4>2 DEF Zeroed
      <4>5. FileHeld(z, i) /\ z.inodes = l.inodes /\ IsFs(z)
        BY <1>6, <1>7, <4>3, FileDiskFacts
      <4>6. e = updateInodeDisksizeFS(z, t, i, d, size, d)
        BY <3>2, <4>1
      <4>7. DiskStep(z, e) /\ SameContents(z, e, {})
        BY <1>8, <4>5, <4>6, SetDisksize
      <4>8. FileHeld(e, i) /\ e.inodes = z.inodes /\ IsFs(e)
        BY <1>6, <4>5, <4>7, SameAll, FileDiskFacts
      <4>10. \A p : Data(e, i, p) = Data(z, i, p) /\ Data(l, i, p) = Data(fs, i, p)
        BY <1>7, <4>7 DEF SameContents
      <4> QED BY <4>4, <4>5, <4>8, <4>10
    <3> QED BY <1>1, <3>1, <3>2
  <2>5. Zeroed(e, fs', i, size, w.off)
    <3>1. e.inodes[i].isize = size
      BY <1>7, <2>4
    <3> QED BY <1>8, <1>9, <1>10, <2>2, <2>4, <3>1, ZeroFacts
  <2>6. DiskStep(e, fs') /\ SameContents(e, fs', {i})
    BY <2>5 DEF Zeroed
  <2>7. FileHeld(fs', i) /\ fs'.inodes = l.inodes
    BY <1>6, <2>4, <2>6, FileDiskFacts
  <2>8. /\ \A p \in Int : size <= p /\ p < w.off => Data(fs', i, p) = 0
        /\ \A p \in Int : p < size => Data(fs', i, p) = Data(e, i, p)
    BY <2>5 DEF Zeroed
  <2>10. size = Len(spec.data[i]) /\ \A k \in 1 .. size : Data(fs, i, k - 1) = spec.data[i][k]
    BY <1>1, <1>9 DEF FileOK
  <2>12. \A k \in Nat \ {0} : k <= size \/ k <= w.off =>
           Data(fs', i, k - 1) = IF k <= size THEN spec.data[i][k] ELSE 0
    <3> SUFFICES ASSUME NEW k \in Nat \ {0}, k <= size \/ k <= w.off
                 PROVE  Data(fs', i, k - 1) = IF k <= size THEN spec.data[i][k] ELSE 0
      OBVIOUS
    <3>1. CASE k <= size
      <4>1. k - 1 \in Int /\ k - 1 < size /\ k \in 1 .. size
        BY <1>9, <3>1
      <4> QED BY <2>4, <2>8, <2>10, <3>1, <4>1
    <3>2. CASE ~(k <= size)
      <4>1. k - 1 \in Int /\ size <= k - 1 /\ k - 1 < w.off
        BY <1>9, <1>10, <3>2
      <4> QED BY <2>8, <3>2, <4>1
    <3> QED BY <3>1, <3>2
  <2>13. CtlStep(t) /\ ctl'[t] = c /\ prog' = prog /\ Call(t)' = Call(t)
    BY <2>2, ContinueFacts DEF Call
  <2>14. File(t)'.inode = i /\ File(t)'.flags = File(t).flags /\ OnFile(t, {"write", "pwrite"})'
    BY <1>1, <1>4, <2>7, <2>13 DEF FileHeld, Keeps, File, OnFile, InCall
  <2>15. /\ c \in [pc : WritePcs, off : Int, at : Int, end : Int, ord : Int, upto : Int, ret : Int]
         /\ c.pc = "block" /\ c.off = w.off /\ c.at = w.off /\ c.upto = w.off /\ c.end = w.off + w.n
    BY <1>10, <2>1 DEF WritePcs
  <2>16. fs'.inodes[i].lock = t /\ fs'.inodes[i].isize = size
    BY <1>7, <2>7
  <2>17. Writing(t)'
    <3>1. /\ c.off <= c.at /\ c.at <= c.upto /\ c.upto <= c.end /\ c.end - c.off <= Len(Call(t)'.buf)
          /\ c.at = c.upto /\ c.at < c.end
      <4>1. /\ w.off \in Int /\ w.n \in Int /\ 0 < w.n /\ w.n <= Len(Call(t).buf)
            /\ Len(Call(t).buf) \in Nat /\ Call(t)' = Call(t)
        BY <1>5, <1>10, <1>12, <2>13
      <4>2. /\ w.off <= w.off /\ w.off <= w.off + w.n /\ w.off < w.off + w.n /\ (w.off + w.n) - w.off = w.n
        BY <4>1
      <4> QED BY <2>15, <4>1, <4>2
    <3>2. \A k \in Nat \ {0} : k <= Len(spec.data[i]) \/ k <= c.at => Data(fs', i, k - 1) = DataAt(t, k)'
      <4> SUFFICES ASSUME NEW k \in Nat \ {0}, k <= Len(spec.data[i]) \/ k <= c.at
                   PROVE  Data(fs', i, k - 1) = DataAt(t, k)'
        OBVIOUS
      <4>1. ~(c.off < k /\ k <= c.at)
        BY <1>10, <2>15
      <4>2. DataAt(t, k)' = IF k <= Len(spec.data[i]) THEN spec.data[i][k] ELSE 0
        BY <1>2, <2>13, <2>14, <4>1 DEF DataAt
      <4> QED BY <2>10, <2>12, <2>15, <4>2
    <3>4. "append" \in File(t)'.flags => c.off = Len(spec.data[i])
      BY <1>10, <2>10, <2>14, <2>15
    <3>5. Len(spec.data[i]) <= fs'.inodes[i].isize /\ fs'.inodes[i].isize = Len(spec.data[i])
      BY <1>9, <2>10, <2>16
    <3> HIDE DEF DataAt, Data
    <3> QED BY <1>2, <2>13, <2>14, <2>15, <3>1, <3>2, <3>4, <3>5 DEF Writing
  <2>19. ThreadOK(t)'
    BY <2>17 DEF ThreadOK
  <2>20. HoldsInode(t, i)' /\ \A j : j # i => ~HoldsInode(t, j)'
    BY <2>13, <2>14, <2>15 DEF HoldsInode, WritePcs, RenamePcs
  <2>21. (\A j : ~HoldsInode(t, j)) /\ t # Nobody
    BY <1>5, FreeHolds, ThreadsAssumption DEF Nobody
  <2> HIDE DEF FileOK, ThreadOK, Writing
  <2>22. fs'.inodes[i].lock = Nobody => FileOK(i)'
    BY <2>16, <2>21
  <2> QED BY <1>2, <1>6, <1>9, <2>7, <2>13, <2>16, <2>19, <2>20, <2>21, <2>22, OwnFileStep
<1> QED BY <1>11, <1>12

-----------------------------------------------------------------------------
(* The invariant holds at all times.                                       *)

LEMMA InitHolds ==
  ASSUME Init
  PROVE  IInv
<1>1. /\ fs.files = <<>> /\ fs.disk = <<>> /\ fs.error = FALSE /\ Len(fs.inodes) = 1
      /\ fs.inodes \in Seq(InodeRec) /\ fs.inodes[1].lock = Nobody
      /\ fs.known \in [Threads -> SUBSET Nat]
      /\ fs = [files |-> fs.files, inodes |-> fs.inodes, disk |-> fs.disk,
               known |-> fs.known, error |-> fs.error]
  <2>1. [isize |-> 0, lock |-> Nobody, lk |-> {}, sk |-> {},
        sizes |-> {[size |-> 0, at |-> 0, sk |-> {}]}] \in InodeRec
    BY DEF InodeRec, SizeRec
  <2>2. fs.inodes = <<[isize |-> 0, lock |-> Nobody, lk |-> {}, sk |-> {},
                     sizes |-> {[size |-> 0, at |-> 0, sk |-> {}]}]>>
    BY DEF Init
  <2>3. /\ fs.inodes \in Seq(InodeRec) /\ Len(fs.inodes) = 1 /\ fs.inodes[1].lock = Nobody
    BY <2>1, <2>2
  <2>4. fs.known = [t \in Threads |-> {}]
    BY DEF Init
  <2>5. fs.known \in [Threads -> SUBSET Nat]
    BY <2>4
  <2>6. fs.files = <<>> /\ fs.disk = <<>> /\ fs.error = FALSE
    BY DEF Init
  <2>7. fs = [files |-> fs.files, inodes |-> fs.inodes, disk |-> fs.disk,
              known |-> fs.known, error |-> fs.error]
    BY DEF Init
  <2> QED BY <2>3, <2>5, <2>6, <2>7
<1>2. IsSeq(fs.disk) /\ Len(fs.disk) = 0
  BY <1>1 DEF IsSeq
<1>3. IsFs(fs)
  <2>1. fs.files \in Seq(FileRec)
    BY <1>1
  <2>2. \A i \in 1 .. Len(fs.disk) : fs.disk[i].pre \subseteq Nat
    BY <1>2
  <2>3. fs.error \in BOOLEAN
    BY <1>1, Zenon
  <2>4. /\ fs.inodes \in Seq(InodeRec) /\ fs.known \in [Threads -> SUBSET Nat]
        /\ fs = [files |-> fs.files, inodes |-> fs.inodes, disk |-> fs.disk,
                 known |-> fs.known, error |-> fs.error]
    BY <1>1
  <2> QED BY <1>1, <1>2, <2>1, <2>2, <2>3, <2>4 DEF IsFs
<1>4. \A loc : LastWrite(fs, loc) = 0 /\ Stored(fs, loc) = 0 /\ Values(fs, loc) = {}
  <2> TAKE loc
  <2>1. StoresTo(fs, loc) = {}
    BY <1>1 DEF StoresTo, DskWrites
  <2>2. LastWrite(fs, loc) = 0
    BY <1>2, <2>1, LastWriteIsOnly
  <2> QED BY <2>1, <2>2 DEF Stored, ValueOf, Values
<1>5. \A t \in Threads : ctl[t] = [pc |-> "idle", ret |-> 0]
  BY DEF Init
<1>6. \A t \in Threads : ThreadOK(t) /\ Free(t)
  BY <1>5 DEF ThreadOK, Resting, Free, RenamePcs, WritePcs
<1>7. /\ spec = [names |-> spec.names, data |-> spec.data, past |-> spec.past]
      /\ spec.names = [n \in Names |-> NoInode] /\ spec.data = <<<<>>>>
  BY DEF Init
<1>8. IsSpec(spec, 1)
  <2>1. <<>> \in Seq(Int)
    OBVIOUS
  <2>2. spec.data \in Seq(Seq(Int)) /\ Len(spec.data) = 1
    BY <1>7, <2>1
  <2>3. spec.names \in [Names -> Nat]
    BY <1>7 DEF NoInode
  <2> QED BY <1>7, <2>2, <2>3 DEF IsSpec
<1>9. NamedInodes(fs) /\ DirOK
  <2>1. \A n : Lookup(fs, n) = 0 /\ Named(fs, n) = {}
    BY <1>4 DEF Lookup, Named
  <2>2. getInodeTransStatus(fs, Dir) = 0
    BY <1>4 DEF getInodeTransStatus
  <2>3. \A n \in Names : spec.names[n] = NoInode
    BY <1>7
  <2> QED BY <2>1, <2>2, <2>3 DEF NamedInodes, DirOK, NoInode
<1>10. mode \in Modes /\ prog \in [Threads -> Seq(CallTypes)] /\ DOMAIN ctl = Threads
  BY ProgramsAssumption DEF Init
<1>11. FileInodes(fs)
  BY <1>1 DEF FileInodes
<1>12. TypeInv
  BY <1>1, <1>3, <1>8, <1>9, <1>10, <1>11 DEF TypeInv
<1>13. Owners
  BY <1>1, <1>6, FreeHolds, ThreadsAssumption DEF Owners, Nobody
<1>14. \A i \in 2 .. Len(fs.inodes) : fs.inodes[i].lock = Nobody => FileOK(i)
  BY <1>1
<1> QED BY <1>6, <1>9, <1>12, <1>13, <1>14 DEF IInv

\* What the invariant is about.
LEMMA SameState ==
  ASSUME IInv, UNCHANGED <<mode, prog, ctl, fs, spec>>
  PROVE  IInv'
<1>1. mode' = mode /\ prog' = prog /\ ctl' = ctl /\ fs' = fs /\ spec' = spec
  OBVIOUS
<1>2. \A t : Call(t)' = Call(t) /\ File(t)' = File(t)
  BY <1>1 DEF Call, File
<1>3. TypeInv'
  BY <1>1 DEF IInv, TypeInv
<1>4. \A t, i : HoldsInode(t, i)' <=> HoldsInode(t, i)
  BY <1>1, <1>2 DEF HoldsInode
<1>5. Owners'
  BY <1>1, <1>4 DEF IInv, Owners
<1>6. \A t : Resting(t)' <=> Resting(t)
  BY <1>1 DEF Resting
<1>7. \A t, ops : (InCall(t, ops)' <=> InCall(t, ops)) /\ (OnFile(t, ops)' <=> OnFile(t, ops))
  BY <1>1, <1>2 DEF InCall, OnFile
<1>8. \A t : Renaming(t)' <=> Renaming(t)
  <2>1. \A t : NamesAt(t)' = NamesAt(t)
    BY <1>1, <1>2 DEF NamesAt
  <2> QED BY <1>1, <1>2, <1>7, <2>1 DEF Renaming
<1>9. \A t : (Truncating(t)' <=> Truncating(t)) /\ (Starting(t)' <=> Starting(t))
  BY <1>1, <1>7 DEF Truncating, Starting
<1>10. \A t : Writing(t)' <=> Writing(t)
  <2>1. \A t, k : DataAt(t, k)' = DataAt(t, k)
    BY <1>1, <1>2 DEF DataAt
  <2> QED BY <1>1, <1>2, <1>7, <2>1 DEF Writing
<1>11. \A t : Reading(t)' <=> Reading(t)
  BY <1>1, <1>2, <1>7 DEF Reading
<1>12. \A t : ThreadOK(t)' <=> ThreadOK(t)
  BY <1>6, <1>8, <1>9, <1>10, <1>11 DEF ThreadOK
<1>13. \A i : FileOK(i)' <=> FileOK(i)
  BY <1>1 DEF FileOK
<1>14. DirOK' <=> DirOK
  BY <1>1 DEF DirOK
<1> QED BY <1>1, <1>3, <1>5, <1>12, <1>13, <1>14 DEF IInv

LEMMA StepKeeps ==
  ASSUME IInv, NEW t \in Threads, Step(t)
  PROVE  IInv'
<1>1. CASE BadDescriptor(t)
  BY <1>1, BadDescriptorKeeps
<1>2. CASE OpenBadFlags(t)
  BY <1>2, OpenBadFlagsKeeps
<1>3. CASE OpenLookup(t)
  BY <1>3, OpenLookupKeeps
<1>4. CASE OpenCreate(t)
  BY <1>4, OpenCreateKeeps
<1>5. CASE Link(t)
  BY <1>5, LinkKeeps
<1>6. CASE Unlink(t)
  BY <1>6, UnlinkKeeps
<1>7. CASE RenameBegin(t)
  BY <1>7, RenameBeginKeeps
<1>8. CASE RenameLink(t)
  BY <1>8, RenameLinkKeeps
<1>9. CASE RenameUnlink(t)
  BY <1>9, RenameUnlinkKeeps
<1>10. CASE RenameEnd(t)
  BY <1>10, RenameEndKeeps
<1>11. CASE TruncateLookup(t)
  BY <1>11, TruncateLookupKeeps
<1>12. CASE executeTruncateFS(t)
  BY <1>12, TruncateKeeps
<1>13. CASE BadOffset(t)
  BY <1>13, BadOffsetKeeps
<1>14. CASE StartWrite(t)
  BY <1>14, StartWriteKeeps
<1>15. CASE WriteChecks(t)
  BY <1>15, WriteChecksKeeps
<1>16. CASE BlockBegin(t)
  BY <1>16, BlockBeginKeeps
<1>17. CASE WriteByte(t)
  BY <1>17, WriteByteKeeps
<1>18. CASE BlockEnd(t)
  BY <1>18, BlockEndKeeps
<1>19. CASE EndWrite(t)
  BY <1>19, EndWriteKeeps
<1>20. CASE StartRead(t)
  BY <1>20, StartReadKeeps
<1>21. CASE ReadByte(t)
  BY <1>21, ReadByteKeeps
<1>22. CASE EndRead(t)
  BY <1>22, EndReadKeeps
<1>23. CASE Lseek(t)
  BY <1>23, LseekKeeps
<1>24. CASE Fsync(t) \/ Sync(t) \/ PersBarrier(t)
  BY <1>24, FencesKeep
<1>25. CASE Close(t)
  BY <1>25, CloseKeeps
<1> QED BY <1>1, <1>2, <1>3, <1>4, <1>5, <1>6, <1>7, <1>8, <1>9, <1>10, <1>11, <1>12, <1>13,
           <1>14, <1>15, <1>16, <1>17, <1>18, <1>19, <1>20, <1>21, <1>22, <1>23, <1>24, <1>25 DEF Step

\* A step of a thread, or one of recovery, which changes nothing else.
LEMMA NextIs ==
  ASSUME [Next]_vars
  PROVE  (\E t \in Threads : Step(t)) \/ UNCHANGED <<mode, prog, ctl, fs, spec>>
BY DEF Next, vars, handleRecoveryStart, RecLookup, RecReadSize, RecReadByte, RecReadDone, RecStep

\* The inductive invariant: types, which thread holds the lock of which inode
\* (GET_INODE_LOCK_ADDR in Execution.cpp), and what sizes in memory and bytes on
\* the disk are at each point of the calls that have begun.
THEOREM FileSystemInvariant == Spec => []IInv
<1>1. Init => IInv
  BY InitHolds
<1>2. IInv /\ [Next]_vars => IInv'
  <2> SUFFICES ASSUME IInv, [Next]_vars PROVE IInv'
    OBVIOUS
  <2>1. (\E t \in Threads : Step(t)) \/ UNCHANGED <<mode, prog, ctl, fs, spec>>
    BY NextIs
  <2>2. CASE \E t \in Threads : Step(t)
    BY <2>2, StepKeeps
  <2>3. CASE UNCHANGED <<mode, prog, ctl, fs, spec>>
    BY <2>3, SameState
  <2> QED BY <2>1, <2>2, <2>3
<1> QED BY <1>1, <1>2, PTL DEF Spec

\* While no lock is held, files and directory are exactly what the calls should
\* leave, in the order in which they got the locks: appends do not overwrite
\* each other, and what a truncation cut off or a write skipped reads as zeros
\* (executeBufferedWriteFS, executeTruncateFS, executeRenameFS of Execution.cpp).
THEOREM FilesAreExact == Spec => []FilesExact
<1>1. IInv => FilesExact
  <2> SUFFICES ASSUME IInv PROVE FilesExact
    OBVIOUS
  <2>1. IsFs(fs) /\ IsSpec(spec, Len(fs.inodes))
    BY DEF IInv, TypeInv
  <2>2. DOMAIN fs.inodes = 1 .. Len(fs.inodes) /\ Len(fs.inodes) \in Nat
    BY <2>1 DEF IsFs
  <2>3. ASSUME NEW i \in DOMAIN fs.inodes, i # Dir, fs.inodes[i].lock = Nobody
        PROVE  /\ fs.inodes[i].isize = Len(spec.data[i])
               /\ \A k \in DOMAIN spec.data[i] : Stored(fs, Loc(i, "data", k - 1)) = spec.data[i][k]
    <3>1. i \in 2 .. Len(fs.inodes)
      BY <2>2, <2>3 DEF Dir
    <3>2. FileOK(i)
      BY <2>3, <3>1 DEF IInv
    <3>3. DOMAIN spec.data[i] = 1 .. Len(spec.data[i])
      BY <3>1, SpecData
    <3> QED BY <3>2, <3>3 DEF FileOK, Data
  <2>4. ContentsExact
    BY <2>3 DEF ContentsExact
  <2>5. DirectoryExact
    BY DEF DirectoryExact, IInv, DirOK
  <2> QED BY <2>4, <2>5 DEF FilesExact
<1> QED BY <1>1, FileSystemInvariant, PTL

-----------------------------------------------------------------------------
(* The locks of descriptions.                                              *)

\* Descriptions that an operation on disk, inodes or knowledge leaves alone.
HasFiles(s) == "files" \in DOMAIN s
SameFiles(s, z) == HasFiles(z) /\ z.files = s.files

LEMMA LogSame ==
  ASSUME NEW s, HasFiles(s), NEW t, NEW lab, NEW pb
  PROVE  SameFiles(s, Log(s, t, lab, pb))
<1>1. PICK e : e = DskEvent(lab, s.known[t], pb)
  OBVIOUS
<1>2. Log(s, t, lab, pb) = [s EXCEPT !.disk = Append(@, e), !.known[t] = @ \cup {Len(s.disk) + 1}]
  BY <1>1 DEF Log
<1>3. PICK a, b : a = Append(s.disk, e) /\ b = [s.known EXCEPT ![t] = @ \cup {Len(s.disk) + 1}]
  OBVIOUS
<1>4. Log(s, t, lab, pb) = [[s EXCEPT !.disk = a] EXCEPT !.known = b]
  BY <1>2, <1>3
<1> QED BY <1>4 DEF SameFiles, HasFiles

LEMMA DskSame ==
  ASSUME NEW s, HasFiles(s), NEW t, NEW lab
  PROVE  SameFiles(s, DskWrite(s, t, lab)) /\ SameFiles(s, DskFence(s, t, lab))
BY LogSame DEF DskWrite, DskFence

LEMMA FsyncSame ==
  ASSUME NEW s, HasFiles(s), NEW t, NEW i
  PROVE  SameFiles(s, executeFsyncFS(s, t, i))
BY DskSame DEF executeFsyncFS

LEMMA SetTransSame ==
  ASSUME NEW s, HasFiles(s), NEW t, NEW i, NEW v
  PROVE  SameFiles(s, setInodeTransStatus(s, t, i, v))
BY DskSame DEF setInodeTransStatus

LEMMA SameFilesTrans ==
  ASSUME NEW s, NEW x, NEW z, SameFiles(s, x), SameFiles(x, z)
  PROVE  SameFiles(s, z)
BY DEF SameFiles

LEMMA DisksizeSame ==
  ASSUME NEW s, HasFiles(s), NEW t, NEW i, NEW n, NEW from, NEW to
  PROVE  SameFiles(s, updateInodeDisksizeFS(s, t, i, n, from, to))
<1>1. PICK lab : /\ updateInodeDisksizeFS(s, t, i, n, from, to) \in
                      {DskWrite(s, t, lab), executeFsyncFS(DskWrite(s, t, lab), t, i)}
  BY DEF updateInodeDisksizeFS
<1>2. SameFiles(s, DskWrite(s, t, lab))
  BY DskSame
<1>3. HasFiles(DskWrite(s, t, lab))
  BY <1>2 DEF SameFiles
<1>4. SameFiles(DskWrite(s, t, lab), executeFsyncFS(DskWrite(s, t, lab), t, i))
  BY <1>3, FsyncSame
<1> QED BY <1>1, <1>2, <1>4, SameFilesTrans

LEMMA EntrySame ==
  ASSUME NEW s, HasFiles(s), NEW t, NEW n, NEW i
  PROVE  SameFiles(s, updateDirNameInode(s, t, n, i))
<1>1. PICK x, lab, w : /\ x = executeFsyncFS(s, t, Dir) /\ w = DskWrite(x, t, lab)
                       /\ updateDirNameInode(s, t, n, i) \in {w, executeFsyncFS(w, t, Dir)}
  BY DEF updateDirNameInode
<1>2. SameFiles(s, x)
  BY <1>1, FsyncSame
<1>3. SameFiles(x, w)
  BY <1>1, <1>2, DskSame DEF SameFiles
<1>4. SameFiles(w, executeFsyncFS(w, t, Dir))
  BY <1>3, FsyncSame DEF SameFiles
<1> QED BY <1>1, <1>2, <1>3, <1>4, SameFilesTrans

LEMMA LockSame ==
  ASSUME NEW s, HasFiles(s), NEW t, NEW i
  PROVE  SameFiles(s, LockInode(s, t, i)) /\ SameFiles(s, UnlockInode(s, t, i))
<1>1. ASSUME NEW a, NEW b PROVE SameFiles(s, [[s EXCEPT !.inodes = a] EXCEPT !.known = b])
  BY DEF SameFiles, HasFiles
<1>2. ASSUME NEW a PROVE SameFiles(s, [s EXCEPT !.inodes = a])
  BY DEF SameFiles, HasFiles
<1>3. \E a, b : LockInode(s, t, i) = [[s EXCEPT !.inodes = a] EXCEPT !.known = b]
  BY DEF LockInode
<1>4. \E a : UnlockInode(s, t, i) = [s EXCEPT !.inodes = a]
  BY DEF UnlockInode
<1>5. SameFiles(s, LockInode(s, t, i))
  <2>1. PICK z : z = LockInode(s, t, i)
    OBVIOUS
  <2>2. PICK a, b : z = [[s EXCEPT !.inodes = a] EXCEPT !.known = b]
    BY <1>3, <2>1
  <2>3. SameFiles(s, z)
    BY <1>1, <2>2
  <2> QED BY <2>1, <2>3
<1>6. SameFiles(s, UnlockInode(s, t, i))
  BY <1>2, <1>4
<1> QED BY <1>5, <1>6

LEMMA ReadSame ==
  ASSUME NEW s, HasFiles(s), NEW t, NEW w, NEW st
  PROVE  SameFiles(s, ReadFrom(s, t, w)) /\ SameFiles(s, ReadSize(s, t, st))
<1>1. ASSUME NEW b PROVE SameFiles(s, [s EXCEPT !.known = b])
  BY DEF SameFiles, HasFiles
<1>2. ReadFrom(s, t, w) = s \/ \E b : ReadFrom(s, t, w) = [s EXCEPT !.known = b]
  BY DEF ReadFrom
<1>3. \E b : ReadSize(s, t, st) = [s EXCEPT !.known = b]
  BY DEF ReadSize
<1> QED BY <1>1, <1>2, <1>3 DEF SameFiles

LEMMA SizeSame ==
  ASSUME NEW s, HasFiles(s), NEW t, NEW i, NEW n
  PROVE  SameFiles(s, readInodeSizeFS(s, t, i)) /\ SameFiles(s, updateInodeSizeFS(s, t, i, n))
<1>1. SameFiles(s, readInodeSizeFS(s, t, i))
  BY ReadSame DEF readInodeSizeFS
<1>2. SameFiles(s, updateInodeSizeFS(s, t, i, n))
  BY DEF updateInodeSizeFS, SameFiles, HasFiles
<1> QED BY <1>1, <1>2

LEMMA DskReadSame ==
  ASSUME NEW s, HasFiles(s), NEW t, NEW loc
  PROVE  SameFiles(s, DskRead(s, t, loc))
BY ReadSame DEF DskRead

LEMMA LookupSame ==
  ASSUME NEW s, HasFiles(s), NEW t, NEW n
  PROVE  SameFiles(s, LookupReads(s, t, n))
<1>1. PICK x, y : x = DskRead(s, t, Loc(Dir, "trans", 0)) /\ y = LookupReads(s, t, n)
  OBVIOUS
<1>2. y = DskRead(x, t, Loc(Dir, "name", n))
  BY <1>1 DEF LookupReads
<1>3. SameFiles(s, x)
  BY <1>1, DskReadSame
<1>4. SameFiles(x, y)
  BY <1>2, <1>3, DskReadSame DEF SameFiles
<1> QED BY <1>1, <1>3, <1>4, SameFilesTrans

LEMMA CreateSame ==
  ASSUME NEW s, HasFiles(s), NEW t, NEW n
  PROVE  SameFiles(s, executeInodeCreateFS(s, t, n))
<1>1. PICK i, a, b, c, z :
         /\ \E q : a = [s EXCEPT !.inodes = q]
         /\ b = setInodeTransStatus(a, t, i, 0) /\ c = updateInodeDisksizeFS(b, t, i, 0, 0, 0)
         /\ z = executeInodeCreateFS(s, t, n) /\ z = updateDirNameInode(c, t, n, i)
  BY DEF executeInodeCreateFS
<1>2. SameFiles(s, a)
  BY <1>1 DEF SameFiles, HasFiles
<1>3. SameFiles(a, b)
  <2>1. HasFiles(a) /\ b = setInodeTransStatus(a, t, i, 0)
    BY <1>1, <1>2 DEF SameFiles
  <2> QED BY <2>1, SetTransSame
<1>4. SameFiles(b, c)
  BY <1>1, <1>3, DisksizeSame DEF SameFiles
<1>5. SameFiles(c, z)
  BY <1>1, <1>4, EntrySame DEF SameFiles
<1> QED BY <1>1, <1>2, <1>3, <1>4, <1>5, SameFilesTrans

\* Which locks of descriptions a thread holds.  A thread that was dropped for
\* good keeps its lock.
FilePcs == {"write", "block", "bytes", "written", "read", "blocked"}
HoldsFile(t, f) == ctl[t].pc \in FilePcs /\ prog[t] # <<>> /\ ~Positioned(t) /\ f = Call(t).fd

\* Writes of what cannot be mistaken for a lock that was not available.
Short(q) == \A k \in 1 .. Len(q) : q[k].op = "write" => Len(q[k].buf) < LockFailed
ShortWrites == \A p \in Programs : \A t \in Threads : Short(p[t])

LInv == /\ \A t \in Threads : \A f \in 1 .. Len(fs.files) : fs.files[f].lock = t => HoldsFile(t, f)
        /\ \A t \in Threads : Short(prog[t])

\* A thread goes on, or to its next call.
MoveStep(t) == /\ prog' = prog \/ prog' = [prog EXCEPT ![t] = Tail(@)]
               /\ ctl' = ctl \/ \E c : ctl' = [ctl EXCEPT ![t] = c]

\* It has the lock of the description that it uses, and takes no other's.
LocksStep(t) ==
  \A f \in 1 .. Len(fs'.files) :
    /\ fs'.files[f].lock = t => HoldsFile(t, f)'
    /\ \A u \in Threads : u # t /\ fs'.files[f].lock = u => f \in 1 .. Len(fs.files) /\ fs.files[f].lock = u

LEMMA TailShort ==
  ASSUME NEW q \in Seq(CallTypes), q # <<>>, Short(q)
  PROVE  Short(Tail(q))
<1>1. Len(q) \in Nat /\ Len(Tail(q)) = Len(q) - 1 /\ \A k \in 1 .. Len(Tail(q)) : Tail(q)[k] = q[k + 1]
  OBVIOUS
<1>2. \A k \in 1 .. Len(Tail(q)) : k + 1 \in 1 .. Len(q)
  BY <1>1
<1> QED BY <1>1, <1>2 DEF Short

LEMMA MoveFacts ==
  ASSUME IInv, NEW t \in Threads, MoveStep(t), prog[t] # <<>> \/ prog' = prog, NEW u \in Threads
  PROVE  /\ u # t => ctl'[u] = ctl[u] /\ prog'[u] = prog[u]
         /\ Short(prog[u]) => Short(prog'[u])
<1>1. prog \in [Threads -> Seq(CallTypes)] /\ DOMAIN ctl = Threads
  BY DEF IInv, TypeInv
<1>2. u # t => ctl'[u] = ctl[u] /\ prog'[u] = prog[u]
  BY <1>1 DEF MoveStep
<1>3. prog'[u] = prog[u] \/ (u = t /\ prog[t] # <<>> /\ prog'[u] = Tail(prog[t]))
  BY <1>1 DEF MoveStep
<1>4. Short(prog[u]) => Short(prog'[u])
  <2>1. prog[u] \in Seq(CallTypes)
    BY <1>1
  <2> HIDE DEF Short
  <2> QED BY <1>3, <2>1, TailShort
<1> QED BY <1>2, <1>4

LEMMA LocksPreserved ==
  ASSUME IInv, LInv, NEW t \in Threads, MoveStep(t), prog[t] # <<>> \/ prog' = prog, LocksStep(t)
  PROVE  LInv'
<1>1. ASSUME NEW u \in Threads, u # t PROVE \A f : HoldsFile(u, f)' <=> HoldsFile(u, f)
  <2>1. ctl'[u] = ctl[u] /\ prog'[u] = prog[u]
    BY <1>1, MoveFacts
  <2> QED BY <2>1 DEF HoldsFile, Positioned, Call
<1>2. ASSUME NEW u \in Threads, NEW f \in 1 .. Len(fs'.files), fs'.files[f].lock = u
      PROVE  HoldsFile(u, f)'
  <2>1. CASE u = t
    BY <1>2, <2>1 DEF LocksStep
  <2>2. CASE u # t
    <3>1. f \in 1 .. Len(fs.files) /\ fs.files[f].lock = u
      BY <1>2, <2>2 DEF LocksStep
    <3> QED BY <1>1, <2>2, <3>1 DEF LInv
  <2> QED BY <2>1, <2>2
<1>3. \A u \in Threads : Short(prog'[u])
  BY MoveFacts DEF LInv
<1> HIDE DEF HoldsFile, Short
<1> QED BY <1>2, <1>3 DEF LInv

LEMMA SteadyLocks ==
  ASSUME IInv, LInv, NEW t \in Threads, MoveStep(t), prog[t] # <<>> \/ prog' = prog, SameFiles(fs, fs'),
         \A f : HoldsFile(t, f) => HoldsFile(t, f)'
  PROVE  LInv'
<1>1. fs'.files = fs.files
  BY DEF SameFiles
<1> HIDE DEF HoldsFile
<1>2. LocksStep(t)
  BY <1>1 DEF LocksStep, LInv
<1> QED BY <1>2, LocksPreserved

LEMMA FreeLocks ==
  ASSUME IInv, LInv, NEW t \in Threads, MoveStep(t), prog[t] # <<>> \/ prog' = prog, SameFiles(fs, fs'),
         ctl[t].pc \notin FilePcs
  PROVE  LInv'
BY SteadyLocks DEF HoldsFile

\* The calls that go on.
LEMMA GoesOnLocks ==
  ASSUME IInv, LInv, NEW t \in Threads, NEW c, Continue(t, c) , SameFiles(fs, fs'),
         c.pc \in FilePcs
  PROVE  LInv'
<1>1. prog' = prog /\ ctl'[t] = c
  BY ContinueFacts
<1>2. \A f : HoldsFile(t, f) => HoldsFile(t, f)'
  BY <1>1 DEF HoldsFile, Positioned, Call
<1>3. MoveStep(t)
  BY DEF MoveStep, Continue
<1> QED BY <1>1, <1>2, <1>3, SteadyLocks

LEMMA MoveIs ==
  ASSUME NEW t, NEW v, Return(t, v) \/ Block(t) \/ Continue(t, v)
  PROVE  MoveStep(t) /\ (Block(t) \/ Continue(t, v) => prog' = prog)
BY DEF MoveStep, Return, Block, Continue

\* Another description than the one in use has not changed.
LEMMA FinishLocks ==
  ASSUME IInv, LInv, NEW t \in Threads, prog[t] # <<>>, NEW s, IsFs(s), Len(s.files) = Len(fs.files),
         Call(t).fd \in 1 .. Len(fs.files),
         \A g \in 1 .. Len(fs.files) : s.files[g].lock = fs.files[g].lock \/ (~Positioned(t) /\ g = Call(t).fd),
         NEW v, Call(t).op = "write" => v # LockFailed, FinishAccess(t, s, v)
  PROVE  LInv'
<1>1. MoveStep(t)
  BY DEF FinishAccess, MoveStep, Return
<1>2. CASE Positioned(t)
  <2>1. fs' = s
    BY <1>2 DEF FinishAccess
  <2>2. \A f : ~HoldsFile(t, f)
    BY <1>2 DEF HoldsFile
  <2> HIDE DEF HoldsFile
  <2>3. LocksStep(t)
    BY <1>2, <2>1, <2>2 DEF LocksStep, LInv
  <2> QED BY <1>1, <2>3, LocksPreserved
<1>3. CASE ~Positioned(t)
  <2>1. fs' = Released(s, t, v)
    BY <1>3 DEF FinishAccess
  <2>2. /\ Len(fs'.files) = Len(s.files) /\ fs'.files[Call(t).fd].lock = Nobody
        /\ \A g \in 1 .. Len(s.files) : g # Call(t).fd => fs'.files[g] = s.files[g]
    <3>1. PICK f, off, lk : f = Call(t).fd /\ fs'.files = [s.files EXCEPT ![f].offset = off, ![f].lock = Nobody, ![f].lk = lk]
      BY <2>1 DEF Released, IsFs
    <3>2. s.files \in Seq(FileRec) /\ f \in 1 .. Len(s.files) /\ s.files[f] \in FileRec
      BY <3>1 DEF IsFs
    <3>3. Len(fs'.files) = Len(s.files) /\ \A g \in 1 .. Len(s.files) : g # f => fs'.files[g] = s.files[g]
      BY <3>1, <3>2
    <3>4. fs'.files[f].lock = Nobody
      <4>1. fs'.files[f] = [s.files[f] EXCEPT !.offset = off, !.lock = Nobody, !.lk = lk]
        BY <3>1, <3>2
      <4> QED BY <3>2, <4>1 DEF FileRec
    <3> QED BY <3>1, <3>3, <3>4
  <2>3. \A f : HoldsFile(t, f) => f = Call(t).fd
    BY DEF HoldsFile
  <2>4. t # Nobody /\ \A u \in Threads : u # Nobody
    BY ThreadsAssumption DEF Nobody
  <2> HIDE DEF HoldsFile
  <2>5. ASSUME NEW f \in 1 .. Len(fs'.files), f # Call(t).fd
        PROVE  f \in 1 .. Len(fs.files) /\ fs'.files[f].lock = fs.files[f].lock
    BY <2>2, <2>5
  <2>6. LocksStep(t)
    BY <2>2, <2>3, <2>4, <2>5 DEF LocksStep, LInv
  <2> QED BY <1>1, <2>6, LocksPreserved
<1> QED BY <1>2, <1>3

LEMMA FsHasFiles ==
  ASSUME IInv
  PROVE  HasFiles(fs) /\ IsFs(fs)
<1>1. IsFs(fs)
  BY DEF IInv, TypeInv
<1>2. fs = [files |-> fs.files, inodes |-> fs.inodes, disk |-> fs.disk, known |-> fs.known, error |-> fs.error]
  BY <1>1 DEF IsFs
<1> QED BY <1>1, <1>2 DEF HasFiles

LEMMA LookedUpSame ==
  ASSUME IInv, NEW t, NEW n, NEW l, l = LookupReads(LockInode(fs, t, Dir), t, n)
  PROVE  SameFiles(fs, l) /\ SameFiles(fs, UnlockInode(l, t, Dir))
<1>1. PICK a : a = LockInode(fs, t, Dir)
  OBVIOUS
<1>2. SameFiles(fs, a)
  BY <1>1, FsHasFiles, LockSame
<1>3. l = LookupReads(a, t, n)
  BY <1>1
<1>4. SameFiles(a, l)
  BY <1>2, <1>3, LookupSame DEF SameFiles
<1>5. SameFiles(l, UnlockInode(l, t, Dir))
  BY <1>4, LockSame DEF SameFiles
<1> QED BY <1>2, <1>4, <1>5, SameFilesTrans

\* An entry is changed under the lock of the directory, or not.
LEMMA EntryLocks ==
  ASSUME IInv, LInv, NEW t \in Threads, prog[t] # <<>>, ctl[t].pc \notin FilePcs,
         NEW l, SameFiles(fs, l), NEW n, NEW i, NEW ok,
         fs' = UnlockInode(IF ok THEN updateDirNameInode(l, t, n, i) ELSE l, t, Dir),
         NEW v, Return(t, v)
  PROVE  LInv'
<1>1. PICK x : x = (IF ok THEN updateDirNameInode(l, t, n, i) ELSE l) /\ fs' = UnlockInode(x, t, Dir)
  OBVIOUS
<1>2. SameFiles(l, x)
  BY <1>1, EntrySame DEF SameFiles
<1>3. SameFiles(x, fs')
  BY <1>1, <1>2, LockSame DEF SameFiles
<1>4. SameFiles(fs, fs')
  BY <1>2, <1>3, SameFilesTrans
<1>5. MoveStep(t)
  BY MoveIs
<1> QED BY <1>4, <1>5, FreeLocks

LEMMA LinkLocks ==
  ASSUME IInv, LInv, NEW t \in Threads, Link(t)
  PROVE  LInv'
<1>1. prog[t] # <<>> /\ ctl[t].pc \notin FilePcs
  BY StartsFacts DEF Link, FilePcs
<1>2. PICK from, to, a, l, ok, i, v :
        /\ a = LookupReads(LockInode(fs, t, Dir), t, from) /\ l = LookupReads(a, t, to)
        /\ fs' = UnlockInode(IF ok THEN updateDirNameInode(l, t, to, i) ELSE l, t, Dir) /\ Return(t, v)
  BY DEF Link
<1>3. SameFiles(fs, a)
  BY <1>2, LookedUpSame
<1>4. SameFiles(a, l)
  BY <1>2, <1>3, LookupSame DEF SameFiles
<1>5. SameFiles(fs, l)
  BY <1>3, <1>4, SameFilesTrans
<1> QED BY <1>1, <1>2, <1>5, EntryLocks

LEMMA UnlinkLocks ==
  ASSUME IInv, LInv, NEW t \in Threads, Unlink(t)
  PROVE  LInv'
<1>1. prog[t] # <<>> /\ ctl[t].pc \notin FilePcs
  BY StartsFacts DEF Unlink, FilePcs
<1>2. PICK n, l, ok, v :
        /\ l = LookupReads(LockInode(fs, t, Dir), t, n)
        /\ fs' = UnlockInode(IF ok THEN updateDirNameInode(l, t, n, NoInode) ELSE l, t, Dir) /\ Return(t, v)
  BY DEF Unlink
<1>3. SameFiles(fs, l)
  BY <1>2, LookedUpSame
<1> QED BY <1>1, <1>2, <1>3, EntryLocks

LEMMA RenameBeginLocks ==
  ASSUME IInv, LInv, NEW t \in Threads, RenameBegin(t)
  PROVE  LInv'
<1>1. prog[t] # <<>> /\ ctl[t].pc \notin FilePcs
  BY StartsFacts DEF RenameBegin, FilePcs
<1>2. PICK from, to, a, l, v :
        /\ a = LookupReads(LockInode(fs, t, Dir), t, from) /\ l = LookupReads(a, t, to)
        /\ fs' = UnlockInode(l, t, Dir) \/ fs' = setInodeTransStatus(l, t, Dir, 1)
        /\ Return(t, v) \/ Continue(t, v)
  BY DEF RenameBegin
<1>3. SameFiles(fs, a)
  BY <1>2, LookedUpSame
<1>4. SameFiles(a, l)
  BY <1>2, <1>3, LookupSame DEF SameFiles
<1>5. SameFiles(l, fs')
  BY <1>2, <1>4, LockSame, SetTransSame DEF SameFiles
<1>6. SameFiles(fs, fs')
  BY <1>3, <1>4, <1>5, SameFilesTrans
<1> QED BY <1>1, <1>2, <1>6, MoveIs, FreeLocks

LEMMA RenamingLocks ==
  ASSUME IInv, LInv, NEW t \in Threads, RenameLink(t) \/ RenameUnlink(t) \/ RenameEnd(t)
  PROVE  LInv'
<1>1. ctl[t].pc \in RenamePcs /\ ctl[t].pc \notin FilePcs
  BY DEF RenameLink, RenameUnlink, RenameEnd, At, RenamePcs, FilePcs
<1>2. prog[t] # <<>>
  BY <1>1, PcCases DEF IInv, Renaming, InCall
<1>3. CASE RenameLink(t) \/ RenameUnlink(t)
  <2>1. PICK n, i, c : fs' = updateDirNameInode(fs, t, n, i) /\ Continue(t, c)
    BY <1>3 DEF RenameLink, RenameUnlink
  <2>2. SameFiles(fs, fs')
    BY <2>1, FsHasFiles, EntrySame
  <2> QED BY <1>1, <1>2, <2>1, <2>2, MoveIs, FreeLocks
<1>4. CASE RenameEnd(t)
  <2>1. PICK x : x = setInodeTransStatus(fs, t, Dir, 0) /\ fs' = UnlockInode(x, t, Dir) /\ Return(t, 0)
    BY <1>4 DEF RenameEnd
  <2>2. SameFiles(fs, x)
    BY <2>1, FsHasFiles, SetTransSame
  <2>3. SameFiles(x, fs')
    BY <2>1, <2>2, LockSame DEF SameFiles
  <2>4. SameFiles(fs, fs')
    BY <2>2, <2>3, SameFilesTrans
  <2> QED BY <1>1, <1>2, <2>1, <2>4, MoveIs, FreeLocks
<1> QED BY <1>3, <1>4

LEMMA TruncateLookupLocks ==
  ASSUME IInv, LInv, NEW t \in Threads, TruncateLookup(t)
  PROVE  LInv'
<1>1. prog[t] # <<>> /\ ctl[t].pc \notin FilePcs
  BY StartsFacts DEF TruncateLookup, FilePcs
<1>2. PICK n, l, v :
        /\ l = LookupReads(LockInode(fs, t, Dir), t, n) /\ fs' = UnlockInode(l, t, Dir)
        /\ Return(t, v) \/ Continue(t, v)
  BY DEF TruncateLookup
<1>3. SameFiles(fs, fs')
  BY <1>2, LookedUpSame
<1> QED BY <1>1, <1>2, <1>3, MoveIs, FreeLocks

LEMMA ZeroedSame ==
  ASSUME NEW s, IsFs(s), NEW t \in Threads, NEW i, i # Dir, NEW from \in Int, NEW to \in Int,
         NEW z, z = zeroDskRangeFS(s, t, i, from, to)
  PROVE  SameFiles(s, z) /\ IsFs(z)
<1>1. Zeroed(s, z, i, from, to)
  BY ZeroFacts
<1>2. DiskStep(s, z)
  BY <1>1 DEF Zeroed
<1>3. z = [files |-> z.files, inodes |-> z.inodes, disk |-> z.disk, known |-> z.known, error |-> z.error]
  BY <1>2 DEF DiskStep, IsFs
<1> QED BY <1>2, <1>3 DEF SameFiles, HasFiles, DiskStep

LEMMA TruncateLocks ==
  ASSUME IInv, LInv, NEW t \in Threads, executeTruncateFS(t)
  PROVE  LInv'
<1>1. PICK i, n : i = ctl[t].inode /\ n = ctl[t].len
  OBVIOUS
<1>2. PICK l, old, z, d, u, f :
        /\ l = readInodeSizeFS(LockInode(fs, t, i), t, i) /\ old = fs.inodes[i].isize
        /\ z = IF n > old THEN zeroDskRangeFS(l, t, i, old, n) ELSE l
        /\ d = updateInodeDisksizeFS(z, t, i, n, IF n > old THEN old ELSE 0, IF n > old THEN n ELSE 0)
        /\ u = updateInodeSizeFS(d, t, i, n)
        /\ f = IF Journal \in {"ordered", "journal"} THEN executeFsyncFS(u, t, i) ELSE u
  OBVIOUS
<1>3. /\ At(t, "truncate")
      /\ fs' = fs \/ fs' = UnlockInode(l, t, i) \/ fs' = UnlockInode(f, t, i)
      /\ Return(t, -1) \/ Return(t, ctl[t].ret)
  <2>1. executeTruncateFS(t)
    OBVIOUS
  <2> QED BY <1>1, <1>2, <2>1 DEF executeTruncateFS
<1>4. Truncating(t) /\ ctl[t].pc \notin FilePcs
  BY <1>3, PcCases DEF IInv, At, FilePcs
<1>5. n \in Int /\ i \in 2 .. Len(fs.inodes) /\ prog[t] # <<>>
  BY <1>1, <1>4 DEF Truncating
<1>6. IsFs(l) /\ i # Dir /\ FileHeld(l, i)
  BY <1>2, <1>5, FileLockedFacts, FileHeldFacts
<1>7. old \in Int
  BY <1>2, <1>5, SpecData
<1>8. SameFiles(fs, l)
  <2>1. PICK a : a = LockInode(fs, t, i) /\ l = readInodeSizeFS(a, t, i)
    BY <1>2
  <2>2. SameFiles(fs, a)
    BY <2>1, FsHasFiles, LockSame
  <2>3. SameFiles(a, l)
    BY <2>1, <2>2, SizeSame DEF SameFiles
  <2> QED BY <2>2, <2>3, SameFilesTrans
<1>9. SameFiles(l, z)
  <2>1. CASE z = l
    BY <1>8, <2>1 DEF SameFiles
  <2>2. CASE z = zeroDskRangeFS(l, t, i, old, n)
    BY <1>5, <1>6, <1>7, <2>2, ZeroedSame
  <2> QED BY <1>2, <2>1, <2>2
<1>10. SameFiles(z, d)
  BY <1>2, <1>9, DisksizeSame DEF SameFiles
<1>11. SameFiles(d, u)
  BY <1>2, <1>10, SizeSame DEF SameFiles
<1>12. SameFiles(u, f)
  <2>1. HasFiles(u)
    BY <1>11 DEF SameFiles
  <2>2. f = u \/ f = executeFsyncFS(u, t, i)
    BY <1>2
  <2>3. CASE f = u
    BY <2>1, <2>3 DEF SameFiles
  <2>4. CASE f = executeFsyncFS(u, t, i)
    BY <2>1, <2>4, FsyncSame
  <2> QED BY <2>2, <2>3, <2>4
<1>13. SameFiles(l, f) /\ SameFiles(fs, fs)
  BY <1>9, <1>10, <1>11, <1>12, SameFilesTrans, FsHasFiles DEF SameFiles
<1>14. SameFiles(l, UnlockInode(l, t, i)) /\ SameFiles(f, UnlockInode(f, t, i))
  BY <1>8, <1>12, LockSame DEF SameFiles
<1>15. SameFiles(fs, fs')
  BY <1>3, <1>8, <1>13, <1>14, SameFilesTrans
<1> QED BY <1>3, <1>4, <1>5, <1>15, MoveIs, FreeLocks

\* The new description is not locked.
LEMMA FinishOpenLocks ==
  ASSUME IInv, LInv, NEW t \in Threads, prog[t] # <<>>, ctl[t].pc \notin FilePcs,
         NEW s, SameFiles(fs, s), NEW i, NEW flags, FinishOpen(t, s, i, flags)
  PROVE  LInv'
<1>1. PICK o : o = executeOpenFS(s, t, i, flags)
  OBVIOUS
<1>2. /\ fs' = s \/ fs' = o \/ fs' = [o EXCEPT !.error = TRUE]
      /\ MoveStep(t)
  BY <1>1 DEF FinishOpen, MoveStep, Return, Continue
<1>3. Len(fs.files) \in Nat /\ DOMAIN fs.files = 1 .. Len(fs.files) /\ fs.files \in Seq(FileRec)
  BY FsHasFiles DEF IsFs
<1>4. PICK r : o = [s EXCEPT !.files = Append(s.files, r)] /\ r.lock = Nobody
  <2>1. PICK r : r = [inode |-> i, flags |-> flags, offset |-> 0, count |-> 1,
                      lock |-> Nobody, lk |-> s.known[t], made |-> s.known[t], freed |-> FALSE]
    OBVIOUS
  <2>2. o = [s EXCEPT !.files = Append(s.files, r)]
    BY <1>1, <2>1 DEF executeOpenFS
  <2>3. r.lock = Nobody
    BY <2>1
  <2> QED BY <2>2, <2>3
<1>5. HasFiles(s) /\ s.files = fs.files
  BY DEF SameFiles
<1>6. o.files = Append(fs.files, r) /\ HasFiles(o)
  BY <1>4, <1>5 DEF HasFiles
<1>7. fs'.files = fs.files \/ fs'.files = Append(fs.files, r)
  <2>1. [o EXCEPT !.error = TRUE].files = o.files
    BY <1>6 DEF HasFiles
  <2> QED BY <1>2, <1>5, <1>6, <2>1
<1>8. \A f \in 1 .. Len(fs'.files) : \/ f \in 1 .. Len(fs.files) /\ fs'.files[f] = fs.files[f]
                                     \/ fs'.files[f].lock = Nobody
  <2>1. CASE fs'.files = fs.files
    BY <2>1
  <2>2. CASE fs'.files = Append(fs.files, r)
    BY <1>3, <1>4, <2>2
  <2> QED BY <1>7, <2>1, <2>2
<1>9. \A f : ~HoldsFile(t, f)
  BY DEF HoldsFile
<1>10. \A u \in Threads : u # Nobody
  BY ThreadsAssumption DEF Nobody
<1> HIDE DEF HoldsFile
<1>11. LocksStep(t)
  BY <1>8, <1>9, <1>10 DEF LocksStep, LInv
<1> QED BY <1>2, <1>11, LocksPreserved

LEMMA OpenLocks ==
  ASSUME IInv, LInv, NEW t \in Threads, OpenLookup(t) \/ OpenCreate(t)
  PROVE  LInv'
<1>1. prog[t] # <<>> /\ ctl[t].pc \notin FilePcs
  BY StartsFacts DEF OpenLookup, OpenCreate, FilePcs
<1>2. CASE OpenLookup(t)
  <2>1. CASE Block(t) /\ fs' = fs
    <3>1. SameFiles(fs, fs')
      BY <2>1, FsHasFiles DEF SameFiles
    <3> QED BY <1>1, <2>1, <3>1, MoveIs, FreeLocks
  <2>2. CASE \E w, v, i, flags : FinishOpen(t, ReadFrom(ReadFrom(fs, t, w), t, v), i, flags)
    <3>1. PICK w, v, i, flags : FinishOpen(t, ReadFrom(ReadFrom(fs, t, w), t, v), i, flags)
      BY <2>2
    <3>2. PICK x : x = ReadFrom(fs, t, w)
      OBVIOUS
    <3>3. SameFiles(fs, x)
      BY <3>2, FsHasFiles, ReadSame
    <3>4. SameFiles(x, ReadFrom(x, t, v))
      BY <3>3, ReadSame DEF SameFiles
    <3>5. SameFiles(fs, ReadFrom(x, t, v))
      BY <3>3, <3>4, SameFilesTrans
    <3> QED BY <1>1, <3>1, <3>2, <3>5, FinishOpenLocks
  <2> QED BY <1>2, <2>1, <2>2 DEF OpenLookup
<1>3. CASE OpenCreate(t)
  <2>1. PICK n, l, i, flags, x :
          /\ l = LookupReads(LockInode(fs, t, Dir), t, n)
          /\ x = l \/ x = executeInodeCreateFS(l, t, n)
          /\ FinishOpen(t, UnlockInode(x, t, Dir), i, flags)
    BY <1>3 DEF OpenCreate
  <2>2. SameFiles(fs, l)
    BY <2>1, LookedUpSame
  <2>3. SameFiles(l, x)
    BY <2>1, <2>2, CreateSame DEF SameFiles
  <2>4. SameFiles(x, UnlockInode(x, t, Dir))
    BY <2>3, LockSame DEF SameFiles
  <2>5. SameFiles(fs, UnlockInode(x, t, Dir))
    BY <2>2, <2>3, <2>4, SameFilesTrans
  <2> QED BY <1>1, <2>1, <2>5, FinishOpenLocks
<1> QED BY <1>2, <1>3

LEMMA BadCallLocks ==
  ASSUME IInv, LInv, NEW t \in Threads, BadDescriptor(t) \/ OpenBadFlags(t) \/ BadOffset(t)
  PROVE  LInv'
<1>1. prog[t] # <<>> /\ ctl[t].pc \notin FilePcs
  BY StartsFacts DEF BadDescriptor, OpenBadFlags, BadOffset, FilePcs
<1>2. \/ fs' = fs /\ Return(t, -1)
      \/ fs' = [fs EXCEPT !.error = TRUE] /\ UNCHANGED <<prog, ctl>>
  BY DEF BadDescriptor, OpenBadFlags, BadOffset, Fail
<1>3. SameFiles(fs, fs')
  BY <1>2, FsHasFiles DEF SameFiles, HasFiles
<1>4. MoveStep(t)
  BY <1>2, MoveIs DEF MoveStep
<1> QED BY <1>1, <1>3, <1>4, FreeLocks

LEMMA FenceLocks ==
  ASSUME IInv, LInv, NEW t \in Threads, Fsync(t) \/ Sync(t) \/ PersBarrier(t)
  PROVE  LInv'
<1>1. prog[t] # <<>> /\ ctl[t].pc \notin FilePcs
  BY StartsFacts DEF Fsync, Sync, PersBarrier, FilePcs
<1>2. PICK lab : fs' = DskFence(fs, t, lab) /\ Return(t, 0)
  BY DEF Fsync, Sync, PersBarrier, executeFsyncFS
<1>3. SameFiles(fs, fs')
  BY <1>2, FsHasFiles, DskSame
<1> QED BY <1>1, <1>2, <1>3, MoveIs, FreeLocks

\* The description in use is changed, and is not locked afterwards.
LEMMA UsedLocks ==
  ASSUME IInv, LInv, NEW t \in Threads, prog[t] # <<>>, ctl[t].pc \notin FilePcs, MoveStep(t),
         NEW fd \in 1 .. Len(fs.files), Len(fs'.files) = Len(fs.files),
         fs'.files[fd].lock \in {Nobody, fs.files[fd].lock},
         \A g \in 1 .. Len(fs.files) : g # fd => fs'.files[g].lock = fs.files[g].lock
  PROVE  LInv'
<1>1. \A f : ~HoldsFile(t, f)
  BY DEF HoldsFile
<1>2. \A u \in Threads : u # Nobody
  BY ThreadsAssumption DEF Nobody
<1> HIDE DEF HoldsFile
<1>3. LocksStep(t)
  BY <1>1, <1>2 DEF LocksStep, LInv
<1> QED BY <1>3, LocksPreserved

LEMMA CloseLocks ==
  ASSUME IInv, LInv, NEW t \in Threads, Close(t)
  PROVE  LInv'
<1>1. prog[t] # <<>> /\ ctl[t].pc \notin FilePcs
  BY StartsFacts DEF Close, FilePcs
<1>2. PICK fd : fd = Call(t).fd /\ fd \in 1 .. Len(fs.files)
  BY FdFacts DEF Close, FreeFd
<1>3. PICK c, d : fs'.files = [fs.files EXCEPT ![fd].count = c, ![fd].freed = d]
  BY <1>2, FsHasFiles DEF Close, HasFiles
<1>4. fs.files \in Seq(FileRec)
  BY FsHasFiles DEF IsFs
<1>5. /\ Len(fs'.files) = Len(fs.files) /\ fs'.files[fd].lock = fs.files[fd].lock
      /\ \A g \in 1 .. Len(fs.files) : g # fd => fs'.files[g].lock = fs.files[g].lock
  <2>1. PICK r, a : r = fs.files[fd] /\ a = [[r EXCEPT !.count = c] EXCEPT !.freed = d]
    OBVIOUS
  <2>2. r \in FileRec
    BY <1>2, <1>4, <2>1
  <2>3. a.lock = r.lock
    BY <2>1, <2>2 DEF FileRec
  <2>4. fs'.files = [fs.files EXCEPT ![fd] = a]
    BY <1>2, <1>3, <1>4, <2>1
  <2> QED BY <1>2, <1>4, <2>1, <2>3, <2>4
<1>6. MoveStep(t)
  BY MoveIs DEF Close
<1> QED BY <1>1, <1>2, <1>5, <1>6, UsedLocks

\* The call that is being done is short.
LEMMA CallShort ==
  ASSUME IInv, LInv, NEW t \in Threads, prog[t] # <<>>, Call(t).op = "write"
  PROVE  Len(Call(t).buf) < LockFailed
<1>1. prog[t] \in Seq(CallTypes) /\ Short(prog[t])
  BY DEF IInv, TypeInv, LInv
<1>2. 1 \in 1 .. Len(prog[t]) /\ Call(t) = prog[t][1]
  BY <1>1 DEF Call
<1> QED BY <1>1, <1>2 DEF Short

LEMMA LockedFile ==
  ASSUME IInv, NEW t \in Threads, HasFile(Call(t).fd), NEW z, z = LockFile(fs, t)
  PROVE  /\ IsFs(z) /\ Len(z.files) = Len(fs.files) /\ Call(t).fd \in 1 .. Len(fs.files)
         /\ Positioned(t) => z.files = fs.files
         /\ ~Positioned(t) => z.files[Call(t).fd].lock = t
         /\ \A g \in 1 .. Len(fs.files) : z.files[g].lock = fs.files[g].lock \/ (~Positioned(t) /\ g = Call(t).fd)
<1>1. Quiet(fs, z) /\ IsFs(z) /\ Call(t).fd \in 1 .. Len(fs.files)
  BY LockFileQuiet, FdFacts
<1>2. CASE Positioned(t)
  BY <1>1, <1>2, FsHasFiles DEF LockFile, HasFiles
<1>3. CASE ~Positioned(t)
  <2>1. PICK f, k : f = Call(t).fd /\ k = fs.known[t] \cup File(t).lk
    OBVIOUS
  <2>2. z = [fs EXCEPT !.files[f].lock = t, !.known[t] = k]
    BY <1>3, <2>1 DEF LockFile
  <2>3. fs.files \in Seq(FileRec) /\ fs.files[f] \in FileRec /\ f \in 1 .. Len(fs.files)
    BY <1>1, <2>1, FsHasFiles DEF IsFs
  <2>4. PICK a : a = [fs.files[f] EXCEPT !.lock = t]
    OBVIOUS
  <2>5. a.lock = t
    BY <2>3, <2>4 DEF FileRec
  <2>6. z.files = [fs.files EXCEPT ![f] = a]
    BY <2>2, <2>4, FsHasFiles DEF HasFiles
  <2> QED BY <1>1, <1>3, <2>1, <2>3, <2>5, <2>6 DEF Quiet
<1> QED BY <1>2, <1>3

\* What is known is not part of it.
LEMMA LockedFileRead ==
  ASSUME IInv, NEW t \in Threads, HasFile(Call(t).fd), NEW i, i = File(t).inode,
         NEW st \in CoherentSizes(LockFile(fs, t), t, i), NEW z, z = ReadSize(LockFile(fs, t), t, st)
  PROVE  SameFiles(LockFile(fs, t), z) /\ IsFs(z)
<1>1. PICK x : x = LockFile(fs, t)
  OBVIOUS
<1>2. IsFs(x) /\ Quiet(fs, z)
  BY <1>1, LockedFile, LockFileQuiet
<1>3. HasFiles(x)
  BY <1>2 DEF IsFs, HasFiles
<1>4. IsFs(z)
  BY <1>2 DEF Quiet, Keeps
<1> QED BY <1>1, <1>3, <1>4, ReadSame

\* A read or write that has just begun.
LEMMA BegunLocks ==
  ASSUME IInv, LInv, NEW t \in Threads, prog[t] # <<>>, ctl[t].pc \notin FilePcs, HasFile(Call(t).fd),
         fs'.files = LockFile(fs, t).files, NEW c, Continue(t, c), c.pc \in FilePcs
  PROVE  LInv'
<1>1. PICK z : z = LockFile(fs, t)
  OBVIOUS
<1>2. /\ fs'.files = z.files /\ Len(z.files) = Len(fs.files) /\ Call(t).fd \in 1 .. Len(fs.files)
      /\ Positioned(t) => z.files = fs.files
      /\ \A g \in 1 .. Len(fs.files) : z.files[g].lock = fs.files[g].lock \/ (~Positioned(t) /\ g = Call(t).fd)
  BY <1>1, LockedFile
<1>3. prog' = prog /\ ctl'[t] = c /\ MoveStep(t)
  BY ContinueFacts, MoveIs
<1>4. \A f : ~Positioned(t) /\ f = Call(t).fd => HoldsFile(t, f)'
  BY <1>3 DEF HoldsFile, Positioned, Call
<1>5. \A f : ~HoldsFile(t, f)
  BY DEF HoldsFile
<1>6. ~Positioned(t) => z.files[Call(t).fd].lock = t
  BY <1>1, LockedFile
<1> HIDE DEF HoldsFile
<1>7. LocksStep(t)
  <2>1. ASSUME NEW f \in 1 .. Len(fs'.files), fs'.files[f].lock = t PROVE HoldsFile(t, f)'
    <3>1. fs.files[f].lock # t
      BY <1>2, <1>5, <2>1 DEF LInv
    <3>2. ~Positioned(t) /\ f = Call(t).fd
      BY <1>2, <2>1, <3>1
    <3> QED BY <1>4, <3>2
  <2>2. ASSUME NEW f \in 1 .. Len(fs'.files), NEW u \in Threads, u # t, fs'.files[f].lock = u
        PROVE  f \in 1 .. Len(fs.files) /\ fs.files[f].lock = u
    BY <1>2, <1>6, <2>2
  <2> QED BY <2>1, <2>2 DEF LocksStep
<1> QED BY <1>3, <1>7, LocksPreserved

LEMMA StartLocks ==
  ASSUME IInv, LInv, NEW t \in Threads, StartWrite(t) \/ StartRead(t)
  PROVE  LInv'
<1>1. prog[t] # <<>> /\ ctl[t].pc \notin FilePcs /\ HasFile(Call(t).fd)
  BY StartsFacts DEF StartWrite, StartRead, FilePcs, FreeFd
<1>2. PICK x, i : x = LockFile(fs, t) /\ i = File(t).inode
  OBVIOUS
<1>3. /\ IsFs(x) /\ Len(x.files) = Len(fs.files) /\ Call(t).fd \in 1 .. Len(fs.files)
      /\ \A g \in 1 .. Len(fs.files) : x.files[g].lock = fs.files[g].lock \/ (~Positioned(t) /\ g = Call(t).fd)
  BY <1>1, <1>2, LockedFile
<1>4. \A st \in CoherentSizes(x, t, i) : IsFs(ReadSize(x, t, st)) /\ ReadSize(x, t, st).files = x.files
  BY <1>1, <1>2, LockedFileRead DEF SameFiles
<1>5. ASSUME NEW s, IsFs(s), s.files = x.files, NEW v, Call(t).op = "write" => v # LockFailed, FinishAccess(t, s, v)
      PROVE  LInv'
  BY <1>1, <1>3, <1>5, FinishLocks
<1>6. CASE StartWrite(t)
  <2>1. CASE FinishAccess(t, x, -1)
    <3>1. -1 # LockFailed
      BY LockFailedAssumption
    <3> QED BY <1>3, <1>5, <2>1, <3>1
  <2>2. CASE fs' = x /\ \E off : Continue(t, [pc |-> "write", off |-> off, ret |-> 0])
    <3>1. PICK c : Continue(t, c) /\ c.pc = "write"
      BY <2>2
    <3> QED BY <1>1, <1>2, <2>2, <3>1, BegunLocks DEF FilePcs
  <2> QED BY <1>2, <1>6, <2>1, <2>2 DEF StartWrite
<1>7. CASE StartRead(t)
  <2>1. Call(t).op # "write"
    BY <1>7, StartsFacts DEF StartRead
  <2>2. CASE FinishAccess(t, x, -1)
    BY <1>3, <1>5, <2>1, <2>2
  <2>3. CASE \E st \in CoherentSizes(x, t, i) : FinishAccess(t, ReadSize(x, t, st), 0)
    BY <1>4, <1>5, <2>1, <2>3
  <2>4. CASE \E st \in CoherentSizes(x, t, i) : \E c : fs' = ReadSize(x, t, st) /\ Continue(t, c) /\ c.pc = "read"
    <3>1. PICK st \in CoherentSizes(x, t, i) : fs' = ReadSize(x, t, st) /\ \E c : Continue(t, c) /\ c.pc = "read"
      BY <2>4
    <3>2. fs'.files = x.files
      BY <1>4, <3>1
    <3> QED BY <1>1, <1>2, <3>1, <3>2, BegunLocks DEF FilePcs
  <2>5. \/ FinishAccess(t, x, -1)
        \/ \E st \in CoherentSizes(x, t, i) : FinishAccess(t, ReadSize(x, t, st), 0)
        \/ \E st \in CoherentSizes(x, t, i) : \E c : fs' = ReadSize(x, t, st) /\ Continue(t, c) /\ c.pc = "read"
    <3>1. CASE \E st \in CoherentSizes(x, t, i) :
                 LET left == st.size - StartOffset(t)
                 IN \/ (StartOffset(t) < 0 \/ left <= 0) /\ FinishAccess(t, ReadSize(x, t, st), 0)
                    \/ /\ StartOffset(t) >= 0 /\ left > 0 /\ fs' = ReadSize(x, t, st)
                       /\ Continue(t, [pc |-> "read", off |-> StartOffset(t), got |-> <<>>, ret |-> 0,
                                       n |-> IF left >= Call(t).n THEN Call(t).n ELSE left])
      <4>1. PICK st \in CoherentSizes(x, t, i) :
              \/ FinishAccess(t, ReadSize(x, t, st), 0)
              \/ fs' = ReadSize(x, t, st) /\ \E c : Continue(t, c) /\ c.pc = "read"
        BY <3>1
      <4> QED BY <4>1
    <3> QED BY <1>2, <1>7, <3>1 DEF StartRead
  <2> QED BY <2>2, <2>3, <2>4, <2>5
<1> QED BY <1>6, <1>7

LEMMA LseekLocks ==
  ASSUME IInv, LInv, NEW t \in Threads, Lseek(t)
  PROVE  LInv'
<1>1. prog[t] # <<>> /\ ctl[t].pc \notin FilePcs /\ HasFile(Call(t).fd) /\ Call(t).op = "lseek"
  BY StartsFacts DEF Lseek, FilePcs, FreeFd
<1>2. PICK x, f : x = LockFile(fs, t) /\ f = Call(t).fd
  OBVIOUS
<1>3. /\ Len(x.files) = Len(fs.files) /\ f \in 1 .. Len(fs.files)
      /\ \A g \in 1 .. Len(fs.files) : x.files[g].lock = fs.files[g].lock \/ (~Positioned(t) /\ g = f)
  BY <1>1, <1>2, LockedFile
<1>5. PICK st \in CoherentSizes(x, t, File(t).inode) :
        FileStep(ReadSize(x, t, st), fs', f) /\ fs'.files[f].lock = Nobody /\ MoveStep(t)
  BY <1>2, LseekFacts, MoveIs
<1>4. ReadSize(x, t, st).files = x.files
  BY <1>1, <1>2, LockedFileRead DEF SameFiles
<1>6. /\ Len(fs'.files) = Len(fs.files)
      /\ \A g \in 1 .. Len(fs.files) : g # f => fs'.files[g].lock = fs.files[g].lock
  BY <1>3, <1>4, <1>5 DEF FileStep
<1> QED BY <1>1, <1>3, <1>5, <1>6, UsedLocks

LEMMA WriteChecksLocks ==
  ASSUME IInv, LInv, NEW t \in Threads, WriteChecks(t)
  PROVE  LInv'
<1>1. PICK i, w, l, size, d, e :
         /\ i = File(t).inode /\ w = executeWriteChecksFS(t, i)
         /\ l = readInodeSizeFS(LockInode(fs, t, i), t, i) /\ size = fs.inodes[i].isize
         /\ d = IF size + BlockSize - (size % BlockSize) < w.off + w.n
                THEN size + BlockSize - (size % BlockSize) ELSE w.off + w.n
         /\ e = IF DelAlloc /\ shouldUpdateInodeDisksizeFS(size, w.off, w.n)
                THEN updateInodeDisksizeFS(zeroDskRangeFS(l, t, i, size, d), t, i, d, size, d)
                ELSE l
  OBVIOUS
<1>2. /\ ctl[t].pc = "write" /\ fs.inodes[i].lock = Nobody
      /\ \/ FinishAccess(t, UnlockInode(l, t, i), 0)
         \/ fs' = PadUpTo(e, t, i, w.off) /\ \E c : Continue(t, c) /\ c.pc = "block"
  <2>1. WriteChecks(t)
    OBVIOUS
  <2>2. /\ ctl[t].pc = "write" /\ fs.inodes[i].lock = Nobody
        /\ IF w.n <= 0 THEN FinishAccess(t, UnlockInode(l, t, i), 0)
           ELSE /\ fs' = PadUpTo(e, t, i, w.off)
                /\ Continue(t, [pc |-> "block", off |-> w.off, at |-> w.off, end |-> w.off + w.n,
                                ord |-> 0, upto |-> w.off, ret |-> 0])
    BY <1>1, <2>1 DEF WriteChecks, At, InodeFree
  <2>3. CASE w.n <= 0
    BY <2>2, <2>3
  <2>4. CASE ~(w.n <= 0)
    <3>1. PICK c : /\ c = [pc |-> "block", off |-> w.off, at |-> w.off, end |-> w.off + w.n,
                           ord |-> 0, upto |-> w.off, ret |-> 0]
                   /\ Continue(t, c)
      BY <2>2, <2>4
    <3>2. c.pc = "block"
      BY <3>1
    <3> QED BY <2>2, <2>4, <3>1, <3>2
  <2> QED BY <2>3, <2>4
<1>3. Starting(t)
  BY <1>2, PcCases DEF IInv
<1>4. /\ prog[t] # <<>> /\ Call(t) \in CallTypes /\ Call(t).op \in {"write", "pwrite"}
      /\ Call(t).fd \in 1 .. Len(fs.files) /\ ctl[t].off \in Int
  <2>1. prog[t] \in Seq(CallTypes)
    BY DEF IInv, TypeInv
  <2> QED BY <1>3, <2>1 DEF Starting, OnFile, InCall, Call
<1>5. Call(t).buf \in Seq(Int) /\ Len(Call(t).buf) \in Nat
  BY <1>4, CallFields
<1>6. i \in 2 .. Len(fs.inodes)
  BY <1>1, <1>4 DEF IInv, TypeInv, FileInodes, File
<1>7. /\ KnownStep(LockInode(fs, t, i), l) /\ IsFs(l) /\ IsFs(fs) /\ i # Dir /\ i \in Nat
      /\ i \in 1 .. Len(fs.inodes) /\ size \in Nat /\ l.inodes[i].isize = size
  BY <1>1, <1>6, FileLockedFacts, FileHeldFacts, SpecData
<1>8. w.off \in Int /\ w.n \in Int
  BY <1>1, <1>4, <1>5, <1>7, ChecksFacts
<1>9. CASE FinishAccess(t, UnlockInode(l, t, i), 0)
  <2>1. PICK s : s = UnlockInode(l, t, i)
    OBVIOUS
  <2>2. Quiet(fs, s) /\ s.files = fs.files
    BY <1>2, <1>7, <2>1, LockedQuiet
  <2>3. IsFs(s)
    BY <2>2 DEF Quiet, Keeps
  <2>4. Call(t).op = "write" => 0 # LockFailed
    BY <1>4, <1>5, CallShort
  <2> QED BY <1>4, <1>9, <2>1, <2>2, <2>3, <2>4, FinishLocks
<1>10. CASE fs' = PadUpTo(e, t, i, w.off) /\ \E c : Continue(t, c) /\ c.pc = "block"
  <2>1. d \in Int
    <3>1. size + BlockSize - (size % BlockSize) \in Int
      BY <1>7, BlockSizeAssumption
    <3> QED BY <1>1, <1>8, <3>1
  <2>2. SameFiles(fs, l)
    <3>1. PICK a : a = LockInode(fs, t, i) /\ l = readInodeSizeFS(a, t, i)
      BY <1>1
    <3>2. SameFiles(fs, a)
      BY <3>1, FsHasFiles, LockSame
    <3>3. SameFiles(a, l)
      BY <3>1, <3>2, SizeSame DEF SameFiles
    <3> QED BY <3>2, <3>3, SameFilesTrans
  <2>3. SameFiles(l, e) /\ IsFs(e) /\ e.inodes[i].isize = size
    <3>1. CASE e = l
      BY <1>7, <2>2, <3>1 DEF SameFiles
    <3>2. CASE e = updateInodeDisksizeFS(zeroDskRangeFS(l, t, i, size, d), t, i, d, size, d)
      <4>1. PICK z : z = zeroDskRangeFS(l, t, i, size, d)
        OBVIOUS
      <4>2. SameFiles(l, z) /\ IsFs(z) /\ Zeroed(l, z, i, size, d)
        BY <1>7, <2>1, <4>1, ZeroedSame, ZeroFacts
      <4>3. e = updateInodeDisksizeFS(z, t, i, d, size, d)
        BY <3>2, <4>1
      <4>4. DiskStep(z, e) /\ SameFiles(z, e)
        BY <1>7, <4>2, <4>3, SetDisksize, DisksizeSame DEF SameFiles
      <4>5. e.inodes = l.inodes /\ IsFs(e)
        BY <4>2, <4>4 DEF DiskStep, Zeroed
      <4> QED BY <1>7, <4>2, <4>4, <4>5, SameFilesTrans
    <3> QED BY <1>1, <3>1, <3>2
  <2>4. SameFiles(e, fs')
    <3>1. fs' = zeroDskRangeFS(e, t, i, size, w.off)
      BY <1>10, <2>3 DEF PadUpTo
    <3> QED BY <1>7, <1>8, <2>3, <3>1, ZeroedSame
  <2>5. SameFiles(fs, fs')
    BY <2>2, <2>3, <2>4, SameFilesTrans
  <2>6. PICK c : Continue(t, c) /\ c.pc \in FilePcs
    BY <1>10 DEF FilePcs
  <2> QED BY <2>5, <2>6, GoesOnLocks
<1> QED BY <1>2, <1>9, <1>10

LEMMA BlockBeginLocks ==
  ASSUME IInv, LInv, NEW t \in Threads, BlockBegin(t)
  PROVE  LInv'
<1>1. PICK i, c, upto, d : /\ c = ctl[t] /\ d = [[c EXCEPT !.pc = "bytes"] EXCEPT !.upto = upto]
                           /\ fs' = fs \/ fs' = setInodeTransStatus(fs, t, i, 1)
                           /\ Continue(t, d) /\ c.pc = "block"
  BY DEF BlockBegin, At
<1>2. Writing(t)
  BY <1>1, WritingFacts DEF WritePcs
<1>3. d.pc = "bytes"
  BY <1>1, <1>2 DEF Writing
<1>4. SameFiles(fs, fs')
  BY <1>1, FsHasFiles, SetTransSame DEF SameFiles
<1> QED BY <1>1, <1>3, <1>4, GoesOnLocks DEF FilePcs

LEMMA WriteByteLocks ==
  ASSUME IInv, LInv, NEW t \in Threads, WriteByte(t)
  PROVE  LInv'
<1>1. PICK lab, c, d : /\ c = ctl[t] /\ d = [c EXCEPT !.at = @ + 1]
                       /\ fs' = DskWrite(fs, t, lab) /\ Continue(t, d) /\ c.pc = "bytes"
  BY DEF WriteByte, At
<1>2. Writing(t)
  BY <1>1, WritingFacts DEF WritePcs
<1>3. d.pc = "bytes"
  BY <1>1, <1>2 DEF Writing
<1>4. SameFiles(fs, fs')
  BY <1>1, FsHasFiles, DskSame
<1> QED BY <1>1, <1>3, <1>4, GoesOnLocks DEF FilePcs

LEMMA BlockEndLocks ==
  ASSUME IInv, LInv, NEW t \in Threads, BlockEnd(t)
  PROVE  LInv'
<1>1. PICK i, c, x, u, y, pc, ord, d :
        /\ c = ctl[t] /\ c.pc = "bytes" /\ x = updateInodeDisksizeFS(fs, t, i, c.at, c.ord, c.at)
        /\ u = updateInodeSizeFS(x, t, i, c.at) \/ u = fs
        /\ y = setInodeTransStatus(u, t, i, 0)
        /\ fs' = executeFsyncFS(y, t, i) \/ fs' = u
        /\ d = [[c EXCEPT !.pc = pc] EXCEPT !.ord = ord] /\ pc \in FilePcs /\ Continue(t, d)
  <2>1. PICK i, c : i = File(t).inode /\ c = ctl[t]
    OBVIOUS
  <2>2. PICK x, pc, ord, d : /\ x = updateInodeDisksizeFS(fs, t, i, c.at, c.ord, c.at)
                             /\ pc = IF c.at < c.end THEN "block" ELSE "written"
                             /\ ord = IF c.at > fs.inodes[i].isize THEN c.at ELSE c.ord
                             /\ d = [[c EXCEPT !.pc = pc] EXCEPT !.ord = ord]
    OBVIOUS
  <2>3. PICK u : u = IF c.at > fs.inodes[i].isize THEN updateInodeSizeFS(x, t, i, c.at) ELSE fs
    OBVIOUS
  <2>4. PICK y : y = setInodeTransStatus(u, t, i, 0)
    OBVIOUS
  <2>5. c.pc = "bytes" /\ fs' = IF Journal = "journal" THEN executeFsyncFS(y, t, i) ELSE u
    BY <2>1, <2>2, <2>3, <2>4 DEF BlockEnd, At
  <2>6. Writing(t)
    BY <2>1, <2>5, WritingFacts DEF WritePcs
  <2>7. Continue(t, d)
    <3>1. Continue(t, [c EXCEPT !.pc = IF c.at < c.end THEN "block" ELSE "written",
                                !.ord = IF c.at > fs.inodes[i].isize THEN c.at ELSE @])
      BY <2>1 DEF BlockEnd
    <3>2. d = [c EXCEPT !.pc = IF c.at < c.end THEN "block" ELSE "written",
                        !.ord = IF c.at > fs.inodes[i].isize THEN c.at ELSE @]
      BY <2>1, <2>2, <2>6 DEF Writing
    <3> QED BY <3>1, <3>2
  <2>8. pc \in FilePcs
    BY <2>2 DEF FilePcs
  <2> QED BY <2>1, <2>2, <2>3, <2>4, <2>5, <2>7, <2>8
<1>2. Writing(t)
  BY <1>1, WritingFacts DEF WritePcs
<1>3. d.pc \in FilePcs
  BY <1>1, <1>2 DEF Writing
<1>4. SameFiles(fs, x)
  BY <1>1, FsHasFiles, DisksizeSame
<1>5. SameFiles(fs, u)
  <2>1. SameFiles(x, updateInodeSizeFS(x, t, i, c.at)) /\ SameFiles(fs, fs)
    BY <1>4, FsHasFiles, SizeSame DEF SameFiles
  <2> QED BY <1>1, <1>4, <2>1, SameFilesTrans
<1>6. SameFiles(u, y)
  BY <1>1, <1>5, SetTransSame DEF SameFiles
<1>7. SameFiles(y, executeFsyncFS(y, t, i))
  BY <1>6, FsyncSame DEF SameFiles
<1>8. SameFiles(fs, fs')
  BY <1>1, <1>5, <1>6, <1>7, SameFilesTrans
<1> QED BY <1>1, <1>3, <1>8, GoesOnLocks

LEMMA ReadByteLocks ==
  ASSUME IInv, LInv, NEW t \in Threads, ReadByte(t)
  PROVE  LInv'
<1>1. PICK c, w, d : /\ c = ctl[t] /\ d = [c EXCEPT !.got = Append(@, w)]
                     /\ fs' = ReadFrom(fs, t, w) /\ Continue(t, d) /\ c.pc = "read"
  BY DEF ReadByte, At
<1>2. Reading(t)
  BY <1>1, ReadingFacts
<1>3. d.pc = "read"
  BY <1>1, <1>2 DEF Reading
<1>4. SameFiles(fs, fs')
  BY <1>1, FsHasFiles, ReadSame
<1> QED BY <1>1, <1>3, <1>4, GoesOnLocks DEF FilePcs

LEMMA EndReadLocks ==
  ASSUME IInv, LInv, NEW t \in Threads, EndRead(t)
  PROVE  LInv'
<1>1. /\ ctl[t].pc = "read"
      /\ \/ Block(t) /\ fs' = fs
         \/ FinishAccess(t, fs, ctl[t].n)
         \/ \E loc : \E w \in CoherentStores(fs, t, loc) : FinishAccess(t, ReadFrom(fs, t, w), ctl[t].n)
  BY DEF EndRead, At
<1>2. prog[t] # <<>> /\ IsFs(fs) /\ Call(t).fd \in 1 .. Len(fs.files) /\ Call(t).op \in {"read", "pread"}
  BY <1>1, ReadingFacts DEF Reading, OnFile, InCall
<1>3. CASE Block(t) /\ fs' = fs
  <2>1. prog' = prog /\ MoveStep(t) /\ SameFiles(fs, fs')
    BY <1>3, MoveIs, FsHasFiles DEF SameFiles
  <2>2. ctl'[t].pc = "blocked"
    BY <1>3 DEF Block, IInv, TypeInv
  <2>3. \A f : HoldsFile(t, f) => HoldsFile(t, f)'
    BY <2>1, <2>2 DEF HoldsFile, Positioned, Call, FilePcs
  <2> QED BY <2>1, <2>3, SteadyLocks
<1>4. ASSUME NEW s, IsFs(s), s.files = fs.files, FinishAccess(t, s, ctl[t].n) PROVE LInv'
  BY <1>2, <1>4, FinishLocks
<1>5. CASE FinishAccess(t, fs, ctl[t].n)
  BY <1>2, <1>4, <1>5
<1>6. CASE \E loc : \E w \in CoherentStores(fs, t, loc) : FinishAccess(t, ReadFrom(fs, t, w), ctl[t].n)
  <2>1. PICK loc, w : w \in CoherentStores(fs, t, loc) /\ FinishAccess(t, ReadFrom(fs, t, w), ctl[t].n)
    BY <1>6
  <2>2. KnownStep(fs, ReadFrom(fs, t, w))
    BY <1>2, <2>1, StoresAre, ReadFromFacts
  <2> QED BY <1>4, <2>1, <2>2 DEF KnownStep, DiskStep
<1> QED BY <1>1, <1>3, <1>5, <1>6

LEMMA EndWriteLocks ==
  ASSUME IInv, LInv, NEW t \in Threads, EndWrite(t)
  PROVE  LInv'
<1>1. PICK i, u, x, v : /\ i = File(t).inode /\ u = UnlockInode(fs, t, i)
                        /\ x = u \/ x = executeFsyncFS(u, t, i)
                        /\ v = ctl[t].end - ctl[t].off
                        /\ ctl[t].pc = "written" /\ FinishAccess(t, x, v)
  <2>1. PICK i, u : i = File(t).inode /\ u = UnlockInode(fs, t, i)
    OBVIOUS
  <2>2. PICK x : x = IF "sync" \in File(t).flags THEN executeFsyncFS(u, t, i) ELSE u
    OBVIOUS
  <2>3. ctl[t].pc = "written" /\ FinishAccess(t, x, ctl[t].end - ctl[t].off)
    BY <2>1, <2>2 DEF EndWrite, At
  <2>4. x = u \/ x = executeFsyncFS(u, t, i)
    BY <2>2
  <2> QED BY <2>1, <2>3, <2>4
<1>2. /\ Writing(t) /\ prog[t] # <<>> /\ Call(t).fd \in 1 .. Len(fs.files) /\ Call(t).buf \in Seq(Int)
      /\ i \in 1 .. Len(fs.inodes) /\ i \in Nat /\ IsFs(fs)
  BY <1>1, WritingFacts DEF WritePcs
<1>3. InodeStep(fs, u, i)
  BY <1>1, <1>2, UnlockInodeFacts
<1>4. IsFs(x) /\ x.files = fs.files
  <2>1. IsFs(u) /\ u.files = fs.files
    BY <1>3 DEF InodeStep
  <2>2. CASE x = executeFsyncFS(u, t, i)
    <3>1. DiskStep(u, x)
      BY <1>2, <2>1, <2>2, FsyncKeeps
    <3> QED BY <2>1, <3>1 DEF DiskStep
  <2> QED BY <1>1, <2>1, <2>2
<1>5. Call(t).op = "write" => v # LockFailed
  <2>1. v \in Int /\ v <= Len(Call(t).buf) /\ Len(Call(t).buf) \in Nat
    <3>1. /\ ctl[t].off \in Int /\ ctl[t].end \in Int
          /\ ctl[t].end - ctl[t].off <= Len(Call(t).buf)
      BY <1>2 DEF Writing
    <3> QED BY <1>1, <1>2, <3>1
  <2> QED BY <1>2, <2>1, CallShort, LockFailedAssumption
<1> QED BY <1>1, <1>2, <1>4, <1>5, FinishLocks

LEMMA InitLocks ==
  ASSUME Init, ShortWrites
  PROVE  LInv
<1>1. fs.files = <<>> /\ prog \in Programs
  BY DEF Init
<1> HIDE DEF Short
<1> QED BY <1>1 DEF LInv, ShortWrites

LEMMA StepLocks ==
  ASSUME IInv, LInv, NEW t \in Threads, Step(t)
  PROVE  LInv'
<1>1. CASE BadDescriptor(t) \/ OpenBadFlags(t) \/ BadOffset(t)
  BY <1>1, BadCallLocks
<1>2. CASE OpenLookup(t) \/ OpenCreate(t)
  BY <1>2, OpenLocks
<1>3. CASE Link(t)
  BY <1>3, LinkLocks
<1>4. CASE Unlink(t)
  BY <1>4, UnlinkLocks
<1>5. CASE RenameBegin(t)
  BY <1>5, RenameBeginLocks
<1>6. CASE RenameLink(t) \/ RenameUnlink(t) \/ RenameEnd(t)
  BY <1>6, RenamingLocks
<1>7. CASE TruncateLookup(t)
  BY <1>7, TruncateLookupLocks
<1>8. CASE executeTruncateFS(t)
  BY <1>8, TruncateLocks
<1>9. CASE StartWrite(t) \/ StartRead(t)
  BY <1>9, StartLocks
<1>10. CASE WriteChecks(t)
  BY <1>10, WriteChecksLocks
<1>11. CASE BlockBegin(t)
  BY <1>11, BlockBeginLocks
<1>12. CASE WriteByte(t)
  BY <1>12, WriteByteLocks
<1>13. CASE BlockEnd(t)
  BY <1>13, BlockEndLocks
<1>14. CASE EndWrite(t)
  BY <1>14, EndWriteLocks
<1>15. CASE ReadByte(t)
  BY <1>15, ReadByteLocks
<1>16. CASE EndRead(t)
  BY <1>16, EndReadLocks
<1>17. CASE Lseek(t)
  BY <1>17, LseekLocks
<1>18. CASE Fsync(t) \/ Sync(t) \/ PersBarrier(t)
  BY <1>18, FenceLocks
<1>19. CASE Close(t)
  BY <1>19, CloseLocks
<1> QED BY <1>1, <1>2, <1>3, <1>4, <1>5, <1>6, <1>7, <1>8, <1>9, <1>10, <1>11, <1>12, <1>13,
           <1>14, <1>15, <1>16, <1>17, <1>18, <1>19 DEF Step

LEMMA SameLocks ==
  ASSUME LInv, UNCHANGED <<mode, prog, ctl, fs, spec>>
  PROVE  LInv'
<1>1. \A t, f : HoldsFile(t, f)' <=> HoldsFile(t, f)
  BY DEF HoldsFile, Positioned, Call
<1> HIDE DEF HoldsFile, Short
<1> QED BY <1>1 DEF LInv

\* A thread that is not in a call holds no lock, whichever way its last call
\* ended, if every write() is shorter than the value that stands for a lock that
\* was not available (executeWriteFS and executeReadFS of Execution.cpp).  A
\* write() of exactly that many bytes does leave the description locked, and a
\* longer one may be cut to that many by the limit on the size.
THEOREM LocksAreReleased == ASSUME ShortWrites PROVE Spec => []LocksReleased
<1>1. Init => IInv /\ LInv
  BY InitHolds, InitLocks
<1>2. IInv /\ LInv /\ [Next]_vars => (IInv /\ LInv)'
  <2> SUFFICES ASSUME IInv, LInv, [Next]_vars PROVE IInv' /\ LInv'
    OBVIOUS
  <2>1. (\E t \in Threads : Step(t)) \/ UNCHANGED <<mode, prog, ctl, fs, spec>>
    BY NextIs
  <2>2. CASE \E t \in Threads : Step(t)
    BY <2>2, StepKeeps, StepLocks
  <2>3. CASE UNCHANGED <<mode, prog, ctl, fs, spec>>
    BY <2>3, SameState, SameLocks
  <2> QED BY <2>1, <2>2, <2>3
<1>3. IInv /\ LInv => LocksReleased
  <2> SUFFICES ASSUME IInv, LInv, NEW t \in Threads, ctl[t].pc = "idle"
               PROVE  /\ \A i \in DOMAIN fs.inodes : fs.inodes[i].lock # t
                      /\ \A f \in DOMAIN fs.files : fs.files[f].lock # t
    BY DEF LocksReleased
  <2>1. DOMAIN fs.inodes = 1 .. Len(fs.inodes) /\ DOMAIN fs.files = 1 .. Len(fs.files)
    BY FsHasFiles DEF IsFs
  <2>2. \A i : ~HoldsInode(t, i)
    BY DEF HoldsInode, RenamePcs, WritePcs
  <2>3. \A f : ~HoldsFile(t, f)
    BY DEF HoldsFile, FilePcs
  <2> HIDE DEF HoldsInode, HoldsFile
  <2> QED BY <2>1, <2>2, <2>3 DEF IInv, Owners, LInv
<1> QED BY <1>1, <1>2, <1>3, PTL DEF Spec

-----------------------------------------------------------------------------
(* The history of the disk.  An operation adds events to it, and what the  *)
(* threads know grows.                                                     *)

Class(loc) == IF loc.field = "size" THEN "size" ELSE IF loc.inode = Dir THEN "dir" ELSE "other"

\* The new writes are to locations of the classes in C.
LogGrows(s, z, C) ==
  /\ Len(s.disk) <= Len(z.disk)
  /\ \A k \in 1 .. Len(s.disk) : z.disk[k] = s.disk[k]
  /\ \A k \in 1 .. Len(z.disk) :
       k <= Len(s.disk) \/ z.disk[k].kind \notin WriteKinds \/ Class(z.disk[k].loc) \in C
  /\ \A u \in Threads : s.known[u] \subseteq z.known[u]
FilesStay(s, z) ==
  Len(s.files) <= Len(z.files) /\ \A f \in 1 .. Len(s.files) : z.files[f].inode = s.files[f].inode
SameSize(a, b) == a.isize = b.isize /\ a.sk = b.sk /\ a.sizes = b.sizes
IsEmpty(a)     == a.isize = 0 /\ \A st \in a.sizes : st.size = 0
SizesStay(s, z) ==
  /\ Len(s.inodes) <= Len(z.inodes)
  /\ \A j \in 1 .. Len(s.inodes) : SameSize(z.inodes[j], s.inodes[j])
  /\ \A j \in 1 .. Len(z.inodes) : j <= Len(s.inodes) \/ IsEmpty(z.inodes[j])
DirStays(s, z) == z.inodes[Dir].lock = s.inodes[Dir].lock /\ z.inodes[Dir].lk = s.inodes[Dir].lk

Adds(s, z, C) ==
  /\ IsFs(z) /\ LogGrows(s, z, C) /\ FilesStay(s, z) /\ SizesStay(s, z)
  /\ "dir" \notin C => DirStays(s, z)

LEMMA LogGrowsTrans ==
  ASSUME NEW s, IsFs(s), NEW x, IsFs(x), NEW z, IsFs(z), NEW C, LogGrows(s, x, C), LogGrows(x, z, C)
  PROVE  LogGrows(s, z, C)
<1>1. Len(s.disk) \in Nat /\ Len(x.disk) \in Nat /\ Len(z.disk) \in Nat
  BY DEF IsFs, IsSeq
<1> HIDE DEF Class
<1>2. /\ Len(s.disk) <= Len(z.disk) /\ \A k \in 1 .. Len(s.disk) : z.disk[k] = s.disk[k]
      /\ \A u \in Threads : s.known[u] \subseteq z.known[u]
  BY <1>1 DEF LogGrows
<1>3. ASSUME NEW k \in 1 .. Len(z.disk), ~(k <= Len(s.disk)), z.disk[k].kind \in WriteKinds
      PROVE  Class(z.disk[k].loc) \in C
  <2>1. CASE k <= Len(x.disk)
    <3>1. k \in 1 .. Len(x.disk) /\ z.disk[k] = x.disk[k]
      BY <1>1, <2>1 DEF LogGrows
    <3> QED BY <1>3, <3>1 DEF LogGrows
  <2>2. CASE ~(k <= Len(x.disk))
    BY <1>3, <2>2 DEF LogGrows
  <2> QED BY <2>1, <2>2
<1> QED BY <1>2, <1>3 DEF LogGrows

LEMMA LogGrowsMore ==
  ASSUME NEW s, NEW z, NEW C, LogGrows(s, z, C), NEW D, C \subseteq D
  PROVE  LogGrows(s, z, D)
BY DEF LogGrows

LEMMA SizesStayTrans ==
  ASSUME NEW s, IsFs(s), NEW x, IsFs(x), NEW z, IsFs(z), SizesStay(s, x), SizesStay(x, z)
  PROVE  SizesStay(s, z)
<1>1. Len(s.inodes) \in Nat /\ Len(x.inodes) \in Nat /\ Len(z.inodes) \in Nat
  BY DEF IsFs
<1>2. /\ Len(s.inodes) <= Len(z.inodes)
      /\ \A j \in 1 .. Len(s.inodes) : SameSize(z.inodes[j], s.inodes[j])
  BY <1>1 DEF SizesStay, SameSize
<1>3. ASSUME NEW j \in 1 .. Len(z.inodes), ~(j <= Len(s.inodes))
      PROVE  IsEmpty(z.inodes[j])
  <2>1. CASE j <= Len(x.inodes)
    <3>1. j \in 1 .. Len(x.inodes) /\ SameSize(z.inodes[j], x.inodes[j])
      BY <1>1, <2>1 DEF SizesStay
    <3>2. IsEmpty(x.inodes[j])
      BY <1>3, <3>1 DEF SizesStay
    <3> QED BY <3>1, <3>2 DEF SameSize, IsEmpty
  <2>2. CASE ~(j <= Len(x.inodes))
    BY <2>2 DEF SizesStay
  <2> QED BY <2>1, <2>2
<1> QED BY <1>2, <1>3 DEF SizesStay

LEMMA FilesStayTrans ==
  ASSUME NEW s, IsFs(s), NEW x, IsFs(x), NEW z, IsFs(z), FilesStay(s, x), FilesStay(x, z)
  PROVE  FilesStay(s, z)
<1>1. Len(s.files) \in Nat /\ Len(x.files) \in Nat /\ Len(z.files) \in Nat
  BY DEF IsFs
<1> QED BY <1>1 DEF FilesStay

LEMMA AddsTrans ==
  ASSUME NEW s, IsFs(s), NEW x, NEW z, NEW C, NEW D, Adds(s, x, C), Adds(x, z, D)
  PROVE  Adds(s, z, C \cup D)
<1>1. IsFs(x) /\ IsFs(z)
  BY DEF Adds
<1>2. LogGrows(s, x, C \cup D) /\ LogGrows(x, z, C \cup D)
  BY LogGrowsMore DEF Adds
<1>3. LogGrows(s, z, C \cup D)
  BY <1>1, <1>2, LogGrowsTrans
<1>4. FilesStay(s, z) /\ SizesStay(s, z)
  BY <1>1, FilesStayTrans, SizesStayTrans DEF Adds
<1>5. "dir" \notin C \cup D => DirStays(s, z)
  BY DEF Adds, DirStays
<1> QED BY <1>1, <1>3, <1>4, <1>5 DEF Adds

LEMMA AddsMore ==
  ASSUME NEW s, NEW z, NEW C, Adds(s, z, C), NEW D, C \subseteq D
  PROVE  Adds(s, z, D)
BY LogGrowsMore DEF Adds

\* Several operations of a kind.
LEMMA AddsBoth ==
  ASSUME NEW s, IsFs(s), NEW x, NEW z, NEW C, Adds(s, x, C), Adds(x, z, C)
  PROVE  Adds(s, z, C)
<1>1. Adds(s, z, C \cup C)
  BY AddsTrans
<1>2. C \cup C = C
  OBVIOUS
<1> QED BY <1>1, <1>2

LEMMA AddsSelf ==
  ASSUME NEW s, IsFs(s), NEW C
  PROVE  Adds(s, s, C)
<1>1. Len(s.disk) \in Nat /\ Len(s.files) \in Nat /\ Len(s.inodes) \in Nat
  BY DEF IsFs, IsSeq
<1> QED BY <1>1 DEF Adds, LogGrows, FilesStay, SizesStay, SameSize, DirStays

-----------------------------------------------------------------------------
\* One event.
LEMMA LogKnown ==
  ASSUME NEW s, IsFs(s), NEW t \in Threads, NEW lab, NEW pb, NEW z, z = Log(s, t, lab, pb)
  PROVE  Len(s.disk) + 1 \in z.known[t] /\ \A u \in Threads : s.known[u] \subseteq z.known[u]
<1>1. PICK e : e = DskEvent(lab, s.known[t], pb)
  OBVIOUS
<1>2. z = [s EXCEPT !.disk = Append(@, e), !.known[t] = @ \cup {Len(s.disk) + 1}]
  BY <1>1 DEF Log
<1>3. z.known = [s.known EXCEPT ![t] = @ \cup {Len(s.disk) + 1}]
  BY <1>2 DEF IsFs
<1>4. s.known \in [Threads -> SUBSET Nat]
  BY DEF IsFs
<1> QED BY <1>3, <1>4

LEMMA LogEvent ==
  ASSUME NEW s, IsFs(s), NEW t \in Threads, NEW lab, NEW pb, NEW z, z = Log(s, t, lab, pb),
         NEW e, e = DskEvent(lab, s.known[t], pb)
  PROVE  /\ DiskStep(s, z) /\ Len(s.disk) \in Nat /\ Len(z.disk) = Len(s.disk) + 1
         /\ z.disk[Len(s.disk) + 1] = e /\ \A k \in 1 .. Len(s.disk) : z.disk[k] = s.disk[k]
         /\ Len(s.disk) + 1 \in z.known[t]
         /\ \A u \in Threads : s.known[u] \subseteq z.known[u]
<1>1. DiskStep(s, z) /\ z.disk = Append(s.disk, e)
  BY LogFacts
<1>2. /\ Len(z.disk) = Len(s.disk) + 1 /\ z.disk[Len(s.disk) + 1] = e
      /\ \A k \in 1 .. Len(s.disk) : z.disk[k] = s.disk[k]
  BY <1>1, AppendFacts DEF IsFs
<1>3. Len(s.disk) \in Nat
  BY DEF IsFs, IsSeq
<1> QED BY <1>1, <1>2, <1>3, LogKnown

LEMMA EventAdds ==
  ASSUME NEW s, IsFs(s), NEW t \in Threads, NEW lab, NEW pb, NEW z, z = Log(s, t, lab, pb), NEW C,
         NEW e, e = DskEvent(lab, s.known[t], pb), e.kind \notin WriteKinds \/ Class(e.loc) \in C
  PROVE  Adds(s, z, C)
<1>1. /\ DiskStep(s, z) /\ Len(s.disk) \in Nat /\ Len(z.disk) = Len(s.disk) + 1
      /\ z.disk[Len(s.disk) + 1] = e /\ \A k \in 1 .. Len(s.disk) : z.disk[k] = s.disk[k]
      /\ \A u \in Threads : s.known[u] \subseteq z.known[u]
  BY LogEvent
<1>2. \A k \in 1 .. Len(z.disk) : k <= Len(s.disk) \/ k = Len(s.disk) + 1
  BY <1>1
<1> HIDE DEF Class
<1>3. LogGrows(s, z, C)
  BY <1>1, <1>2 DEF LogGrows
<1>4. z.files = s.files /\ z.inodes = s.inodes /\ IsFs(z)
  BY <1>1 DEF DiskStep
<1>5. Len(s.files) \in Nat /\ Len(s.inodes) \in Nat
  BY DEF IsFs
<1>6. FilesStay(s, z) /\ SizesStay(s, z) /\ DirStays(s, z)
  BY <1>4, <1>5 DEF FilesStay, SizesStay, SameSize, DirStays
<1> QED BY <1>3, <1>4, <1>6 DEF Adds

LEMMA WriteAdds ==
  ASSUME NEW s, IsFs(s), NEW t \in Threads, NEW lab, IsLabel(lab), NEW z, z = DskWrite(s, t, lab)
  PROVE  Adds(s, z, {Class(lab.loc)})
<1>1. PICK pb : z = Log(s, t, lab, pb)
  BY DEF DskWrite
<1>2. PICK e : e = DskEvent(lab, s.known[t], pb)
  OBVIOUS
<1>3. e.loc = lab.loc
  BY <1>2, DskEventLabel
<1> QED BY <1>1, <1>2, <1>3, EventAdds

LEMMA FenceAdds ==
  ASSUME NEW s, IsFs(s), NEW t \in Threads, NEW lab, IsFence(lab), NEW z, z = DskFence(s, t, lab), NEW C
  PROVE  Adds(s, z, C)
<1>1. PICK pb : z = Log(s, t, lab, pb)
  BY DEF DskFence
<1>2. PICK e : e = DskEvent(lab, s.known[t], pb)
  OBVIOUS
<1>3. e.kind \notin WriteKinds
  BY <1>2, DskEventFence DEF IsFence
<1> QED BY <1>1, <1>2, <1>3, EventAdds

\* What the operations on the state add to the disk.
LEMMA FsyncAdds ==
  ASSUME NEW s, IsFs(s), NEW t \in Threads, NEW i, NEW z, z = executeFsyncFS(s, t, i), NEW C
  PROVE  Adds(s, z, C)
<1>1. IsFence(DskFsyncLabel(i))
  BY DEF IsFence, DskFsyncLabel, WriteKinds
<1> QED BY <1>1, FenceAdds DEF executeFsyncFS

LEMMA SetTransAdds ==
  ASSUME NEW s, IsFs(s), NEW t \in Threads, NEW i, NEW v, NEW z, z = setInodeTransStatus(s, t, i, v)
  PROVE  Adds(s, z, {IF i = Dir THEN "dir" ELSE "other"})
<1>1. PICK lab : lab = DskJnlWriteLabel(Loc(i, "trans", 0), v)
  OBVIOUS
<1>2. IsLabel(lab) /\ lab.loc = Loc(i, "trans", 0)
  BY <1>1 DEF IsLabel, DskJnlWriteLabel, DskWriteLabel, WriteKinds
<1>3. Class(lab.loc) = IF i = Dir THEN "dir" ELSE "other"
  BY <1>2 DEF Class, Loc
<1>4. z = DskWrite(s, t, lab)
  BY <1>1 DEF setInodeTransStatus
<1> QED BY <1>2, <1>3, <1>4, WriteAdds

LEMMA DisksizeAdds ==
  ASSUME NEW s, IsFs(s), NEW t \in Threads, NEW i, NEW n, NEW from, NEW to,
         NEW z, z = updateInodeDisksizeFS(s, t, i, n, from, to)
  PROVE  Adds(s, z, {"size"})
<1>1. PICK ord, lab, w :
        /\ lab = DskMdWriteLabel(Loc(i, "size", 0), n, i, ord) /\ w = DskWrite(s, t, lab)
        /\ z = w \/ z = executeFsyncFS(w, t, i)
  BY DEF updateInodeDisksizeFS
<1>2. IsLabel(lab) /\ lab.loc = Loc(i, "size", 0)
  BY <1>1 DEF IsLabel, DskMdWriteLabel, WriteKinds
<1>3. Class(lab.loc) = "size"
  BY <1>2 DEF Class, Loc
<1>4. Adds(s, w, {"size"})
  BY <1>1, <1>2, <1>3, WriteAdds
<1>5. CASE z = executeFsyncFS(w, t, i)
  <2>1. IsFs(w)
    BY <1>4 DEF Adds
  <2>2. Adds(w, z, {"size"})
    BY <1>5, <2>1, FsyncAdds
  <2> QED BY <1>4, <2>2, AddsBoth
<1> QED BY <1>1, <1>4, <1>5

LEMMA EntryAdds ==
  ASSUME NEW s, IsFs(s), NEW t \in Threads, NEW n, NEW i, NEW z, z = updateDirNameInode(s, t, n, i)
  PROVE  Adds(s, z, {"dir"})
<1>1. PICK x, lab, w :
        /\ x = executeFsyncFS(s, t, Dir) /\ w = DskWrite(x, t, lab)
        /\ lab = DskDirWriteLabel(Loc(Dir, "name", n), i, Dir)
        /\ z = w \/ z = executeFsyncFS(w, t, Dir)
  BY DEF updateDirNameInode
<1>2. IsLabel(lab) /\ lab.loc = Loc(Dir, "name", n)
  BY <1>1 DEF IsLabel, DskDirWriteLabel, DskWriteLabel, WriteKinds
<1>3. Class(lab.loc) = "dir"
  BY <1>2 DEF Class, Loc
<1>4. Adds(s, x, {"dir"})
  BY <1>1, FsyncAdds
<1>5. IsFs(x)
  BY <1>4 DEF Adds
<1>6. Adds(x, w, {"dir"})
  BY <1>1, <1>2, <1>3, <1>5, WriteAdds
<1>7. Adds(s, w, {"dir"}) /\ IsFs(w)
  BY <1>4, <1>6, AddsBoth DEF Adds
<1>8. CASE z = executeFsyncFS(w, t, Dir)
  <2>1. Adds(w, z, {"dir"})
    BY <1>7, <1>8, FsyncAdds
  <2> QED BY <1>7, <2>1, AddsBoth
<1> QED BY <1>1, <1>7, <1>8

LEMMA DataAdds ==
  ASSUME NEW s, IsFs(s), NEW t \in Threads, NEW i, i # Dir, NEW p, NEW v,
         NEW z, z = DskWrite(s, t, DskWriteLabel(Loc(i, "data", p), v, i))
  PROVE  Adds(s, z, {"other"})
<1>1. PICK lab : lab = DskWriteLabel(Loc(i, "data", p), v, i)
  OBVIOUS
<1>2. IsLabel(lab) /\ lab.loc = Loc(i, "data", p)
  BY <1>1 DEF IsLabel, DskWriteLabel, WriteKinds
<1>3. Class(lab.loc) = "other"
  BY <1>2 DEF Class, Loc
<1> QED BY <1>1, <1>2, <1>3, WriteAdds

\* What is known to a thread has grown.
LEMMA KnownAdds ==
  ASSUME NEW s, IsFs(s), NEW t \in Threads, NEW K \in SUBSET Nat,
         NEW z, z = [s EXCEPT !.known[t] = @ \cup K], NEW C
  PROVE  Adds(s, z, C)
<1>1. KnownStep(s, z)
  BY KnownFacts
<1>2. /\ IsFs(z) /\ z.disk = s.disk /\ z.files = s.files /\ z.inodes = s.inodes
  BY <1>1 DEF KnownStep, DiskStep
<1>3. z.known = [s.known EXCEPT ![t] = @ \cup K] /\ s.known \in [Threads -> SUBSET Nat]
  BY DEF IsFs
<1>4. \A u \in Threads : s.known[u] \subseteq z.known[u]
  BY <1>3
<1>5. Len(s.disk) \in Nat /\ Len(s.files) \in Nat /\ Len(s.inodes) \in Nat
  BY DEF IsFs, IsSeq
<1> HIDE DEF Class
<1> QED BY <1>2, <1>4, <1>5 DEF Adds, LogGrows, FilesStay, SizesStay, SameSize, DirStays

LEMMA ReadFromAdds ==
  ASSUME NEW s, IsFs(s), NEW t \in Threads, NEW loc, NEW w \in {0} \cup StoresTo(s, loc),
         NEW z, z = ReadFrom(s, t, w), NEW C
  PROVE  Adds(s, z, C)
<1>1. w \in 0 .. Len(s.disk)
  BY StoresAre
<1>2. CASE w = 0
  BY <1>2, AddsSelf DEF ReadFrom
<1>3. CASE w # 0
  <2>1. w \in 1 .. Len(s.disk)
    BY <1>1, <1>3 DEF IsFs, IsSeq
  <2>2. PICK K : K = {w} \cup s.disk[w].pre
    OBVIOUS
  <2>3. K \in SUBSET Nat
    BY <2>1, <2>2 DEF IsFs
  <2>4. z = [s EXCEPT !.known[t] = @ \cup K]
    <3>1. z = [s EXCEPT !.known[t] = @ \cup {w} \cup s.disk[w].pre]
      BY <1>3 DEF ReadFrom
    <3>2. s.known[t] \cup {w} \cup s.disk[w].pre = s.known[t] \cup K
      BY <2>2
    <3> QED BY <3>1, <3>2
  <2> QED BY <2>3, <2>4, KnownAdds
<1> QED BY <1>2, <1>3

LEMMA DskReadAdds ==
  ASSUME NEW s, IsFs(s), NEW t \in Threads, NEW loc, NEW z, z = DskRead(s, t, loc), NEW C
  PROVE  Adds(s, z, C)
BY StoresAre, ReadFromAdds DEF DskRead

LEMMA LookupAdds ==
  ASSUME NEW s, IsFs(s), NEW t \in Threads, NEW n, NEW z, z = LookupReads(s, t, n), NEW C
  PROVE  Adds(s, z, C)
<1>1. PICK x : x = DskRead(s, t, Loc(Dir, "trans", 0)) /\ z = DskRead(x, t, Loc(Dir, "name", n))
  BY DEF LookupReads
<1>2. Adds(s, x, C)
  BY <1>1, DskReadAdds
<1>3. Adds(x, z, C)
  BY <1>1, <1>2, DskReadAdds DEF Adds
<1> QED BY <1>2, <1>3, AddsBoth

LEMMA StoredSizeAdds ==
  ASSUME NEW s, IsFs(s), NEW t \in Threads, NEW st, st.sk \in SUBSET Nat, NEW z, z = ReadSize(s, t, st), NEW C
  PROVE  Adds(s, z, C)
BY KnownAdds DEF ReadSize

LEMMA ReadSizeAdds ==
  ASSUME NEW s, IsFs(s), NEW t \in Threads, NEW i \in 1 .. Len(s.inodes),
         NEW z, z = readInodeSizeFS(s, t, i), NEW C
  PROVE  Adds(s, z, C)
BY InodeFields, StoredSizeAdds DEF readInodeSizeFS

\* An inode is locked and unlocked; that of the directory is no other's.
LEMMA LockingAdds ==
  ASSUME NEW s, IsFs(s), NEW i \in 1 .. Len(s.inodes), NEW z, InodeStep(s, z, i),
         SameSize(z.inodes[i], s.inodes[i]), \A u \in Threads : s.known[u] \subseteq z.known[u],
         NEW C, i = Dir => "dir" \in C
  PROVE  Adds(s, z, C)
<1>1. IsFs(z) /\ z.files = s.files /\ z.disk = s.disk /\ Len(z.inodes) = Len(s.inodes)
  BY DEF InodeStep
<1>2. Len(s.disk) \in Nat /\ Len(s.files) \in Nat /\ Len(s.inodes) \in Nat /\ Dir \in 1 .. Len(s.inodes)
  BY DEF IsFs, IsSeq, Dir
<1> HIDE DEF Class
<1>3. LogGrows(s, z, C) /\ FilesStay(s, z)
  BY <1>1, <1>2 DEF LogGrows, FilesStay
<1>4. \A j \in 1 .. Len(s.inodes) : SameSize(z.inodes[j], s.inodes[j])
  BY DEF InodeStep, SameSize
<1>5. SizesStay(s, z)
  BY <1>1, <1>2, <1>4 DEF SizesStay
<1>6. "dir" \notin C => DirStays(s, z)
  BY <1>2 DEF InodeStep, DirStays
<1> QED BY <1>1, <1>3, <1>5, <1>6 DEF Adds

LEMMA LockAdds ==
  ASSUME NEW s, IsFs(s), NEW t \in Threads, NEW i \in 1 .. Len(s.inodes), NEW z, z = LockInode(s, t, i),
         NEW C, i = Dir => "dir" \in C
  PROVE  Adds(s, z, C)
<1>1. InodeStep(s, z, i) /\ SameSize(z.inodes[i], s.inodes[i])
  BY LockInodeFacts DEF SameSize
<1>2. PICK K : K = s.inodes[i].lk
  OBVIOUS
<1>3. z.known = [s.known EXCEPT ![t] = @ \cup K] /\ s.known \in [Threads -> SUBSET Nat]
  BY <1>2 DEF LockInode, IsFs
<1>4. \A u \in Threads : s.known[u] \subseteq z.known[u]
  BY <1>3
<1> QED BY <1>1, <1>4, LockingAdds

LEMMA UnlockAdds ==
  ASSUME NEW s, IsFs(s), NEW t \in Threads, NEW i \in 1 .. Len(s.inodes), NEW z, z = UnlockInode(s, t, i),
         NEW C, i = Dir => "dir" \in C
  PROVE  Adds(s, z, C)
<1>1. InodeStep(s, z, i) /\ SameSize(z.inodes[i], s.inodes[i])
  BY UnlockInodeFacts DEF SameSize
<1>2. z.known = s.known
  BY DEF UnlockInode, IsFs
<1> QED BY <1>1, <1>2, LockingAdds

\* Descriptions change, or the call ends with an error.
LEMMA DescriptionAdds ==
  ASSUME NEW s, IsFs(s), NEW z, FilesStep(s, z), \A u \in Threads : s.known[u] \subseteq z.known[u], NEW C
  PROVE  Adds(s, z, C)
<1>1. /\ IsFs(z) /\ z.disk = s.disk /\ z.inodes = s.inodes
      /\ Len(s.disk) \in Nat /\ Len(s.inodes) \in Nat
  BY DEF FilesStep, IsFs, IsSeq
<1> HIDE DEF Class
<1>2. LogGrows(s, z, C) /\ SizesStay(s, z) /\ DirStays(s, z)
  BY <1>1 DEF LogGrows, SizesStay, SameSize, DirStays
<1>3. FilesStay(s, z)
  BY DEF FilesStep, FilesStay
<1> QED BY <1>1, <1>2, <1>3 DEF Adds

LEMMA LockFileAdds ==
  ASSUME IsFs(fs), NEW t \in Threads, Call(t).fd \in 1 .. Len(fs.files), NEW z, z = LockFile(fs, t), NEW C
  PROVE  Adds(fs, z, C)
<1>1. FilesStep(fs, z)
  BY LockFileFacts
<1>2. \A u \in Threads : fs.known[u] \subseteq z.known[u]
  <2>1. PICK K : K = IF Positioned(t) THEN File(t).made ELSE File(t).lk
    OBVIOUS
  <2>2. z.known = [fs.known EXCEPT ![t] = @ \cup K] /\ fs.known \in [Threads -> SUBSET Nat]
    BY <2>1 DEF LockFile, IsFs
  <2> QED BY <2>2
<1> QED BY <1>1, <1>2, DescriptionAdds

LEMMA ReleasedAdds ==
  ASSUME NEW s, IsFs(s), NEW t \in Threads, Call(t).fd \in 1 .. Len(s.files), NEW v \in Int,
         NEW z, z = Released(s, t, v), NEW C
  PROVE  Adds(s, z, C)
<1>1. FilesStep(s, z)
  BY ReleasedFacts
<1>2. z.known = s.known
  BY DEF Released, IsFs
<1> QED BY <1>1, <1>2, DescriptionAdds

LEMMA OpenAdds ==
  ASSUME NEW s, IsFs(s), NEW t \in Threads, NEW i \in Nat, NEW flags \in SUBSET Flags,
         NEW z, z = executeOpenFS(s, t, i, flags), NEW C
  PROVE  Adds(s, z, C)
<1>1. FilesStep(s, z)
  BY OpenFacts
<1>2. z.known = s.known
  BY DEF executeOpenFS, IsFs
<1> QED BY <1>1, <1>2, DescriptionAdds

LEMMA ErrorAdds ==
  ASSUME NEW s, IsFs(s), NEW z, z = [s EXCEPT !.error = TRUE], NEW C
  PROVE  Adds(s, z, C)
<1>1. FilesStep(s, z)
  BY ErrorFacts
<1>2. z.known = s.known
  BY DEF IsFs
<1> QED BY <1>1, <1>2, DescriptionAdds

LEMMA FinishAccessAdds ==
  ASSUME NEW t \in Threads, NEW s, IsFs(s), Call(t).fd \in 1 .. Len(s.files), NEW v \in Int,
         FinishAccess(t, s, v), NEW C
  PROVE  Adds(s, fs', C)
<1>1. fs' = s \/ fs' = Released(s, t, v)
  BY DEF FinishAccess
<1> QED BY <1>1, AddsSelf, ReleasedAdds

LEMMA FinishOpenAdds ==
  ASSUME NEW t \in Threads, NEW s, IsFs(s), NEW i \in Nat, NEW flags \in SUBSET Flags,
         FinishOpen(t, s, i, flags), NEW C
  PROVE  Adds(s, fs', C)
<1>1. PICK o : o = executeOpenFS(s, t, i, flags)
  OBVIOUS
<1>2. fs' = s \/ fs' = o \/ fs' = [o EXCEPT !.error = TRUE]
  BY <1>1 DEF FinishOpen
<1>3. Adds(s, o, C) /\ IsFs(o)
  BY <1>1, OpenAdds DEF Adds
<1>4. fs' = [o EXCEPT !.error = TRUE] => Adds(o, fs', C)
  BY <1>3, ErrorAdds
<1> QED BY <1>2, <1>3, <1>4, AddsSelf, AddsBoth

\* The byte is written by one of the events in K, by one that t knows.
Among(s, K, i, p) ==
  \E d \in K \cap DskWrites(s.disk) : s.disk[d].kind = "data" /\ s.disk[d].loc = Loc(i, "data", p)
Knows(s, t, i, p) == Among(s, s.known[t], i, p)

LEMMA AmongStays ==
  ASSUME NEW s, IsFs(s), NEW z, IsFs(z), NEW C, LogGrows(s, z, C),
         NEW K, NEW L, K \subseteq L, NEW i, NEW p, Among(s, K, i, p)
  PROVE  Among(z, L, i, p)
<1>1. PICK d \in K \cap DskWrites(s.disk) :
        s.disk[d].kind = "data" /\ s.disk[d].loc = Loc(i, "data", p)
  BY DEF Among
<1>2. d \in 1 .. Len(s.disk)
  BY <1>1 DEF DskWrites, IsFs, IsSeq
<1>3. Len(s.disk) \in Nat /\ Len(z.disk) \in Nat
  BY DEF IsFs, IsSeq
<1> HIDE DEF Class
<1>4. z.disk[d] = s.disk[d] /\ d \in L /\ d \in 1 .. Len(z.disk)
  BY <1>1, <1>2, <1>3 DEF LogGrows
<1>5. d \in DskWrites(z.disk)
  <2>1. DOMAIN z.disk = 1 .. Len(z.disk)
    BY <1>3 DEF IsFs, IsSeq
  <2> QED BY <1>1, <1>4, <2>1 DEF DskWrites
<1> QED BY <1>1, <1>4, <1>5 DEF Among

LEMMA KnowsStays ==
  ASSUME NEW s, IsFs(s), NEW z, IsFs(z), NEW C, LogGrows(s, z, C),
         NEW t \in Threads, NEW i, NEW p, Knows(s, t, i, p)
  PROVE  Knows(z, t, i, p)
<1>1. s.known[t] \subseteq z.known[t]
  BY DEF LogGrows
<1> QED BY <1>1, AmongStays DEF Knows

LEMMA DataKnown ==
  ASSUME NEW s, IsFs(s), NEW t \in Threads, NEW i, NEW p, NEW v,
         NEW z, z = DskWrite(s, t, DskWriteLabel(Loc(i, "data", p), v, i))
  PROVE  Knows(z, t, i, p)
<1>1. PICK lab : lab = DskWriteLabel(Loc(i, "data", p), v, i)
  OBVIOUS
<1>2. IsLabel(lab) /\ lab.loc = Loc(i, "data", p) /\ lab.kind = "data"
  BY <1>1 DEF IsLabel, DskWriteLabel, WriteKinds
<1>3. PICK pb : z = Log(s, t, lab, pb)
  BY <1>1 DEF DskWrite
<1>4. PICK e : e = DskEvent(lab, s.known[t], pb)
  OBVIOUS
<1>5. e.kind = "data" /\ e.loc = Loc(i, "data", p)
  BY <1>2, <1>4, DskEventLabel
<1>6. PICK n : n = Len(s.disk) + 1
  OBVIOUS
<1>7. /\ DiskStep(s, z) /\ Len(s.disk) \in Nat /\ Len(z.disk) = n /\ z.disk[n] = e /\ n \in z.known[t]
  BY <1>3, <1>4, <1>6, LogEvent
<1>8. n \in DskWrites(z.disk)
  <2>1. DOMAIN z.disk = 1 .. Len(z.disk)
    BY <1>7 DEF DiskStep, IsFs, IsSeq
  <2> QED BY <1>5, <1>6, <1>7, <2>1 DEF DskWrites
<1> QED BY <1>5, <1>7, <1>8 DEF Knows, Among

\* Zeroing a range writes nothing else, and every byte of it.
ZeroKnown(s, z, t, i, from, n) ==
  Adds(s, z, {"other"}) /\ \A p \in Int : from <= p /\ p < from + n => Knows(z, t, i, p)

LEMMA ZeroKnownStep ==
  ASSUME NEW s, IsFs(s), NEW x, NEW t \in Threads, NEW i, i # Dir, NEW from \in Int, NEW k \in Nat,
         ZeroKnown(s, x, t, i, from, k), NEW z, z = ZeroByte(x, t, i, from + k)
  PROVE  ZeroKnown(s, z, t, i, from, k + 1)
<1>1. Adds(s, x, {"other"}) /\ IsFs(x)
  BY DEF ZeroKnown, Adds
<1>2. Adds(x, z, {"other"}) /\ Knows(z, t, i, from + k)
  BY <1>1, DataAdds, DataKnown DEF ZeroByte
<1>3. Adds(s, z, {"other"})
  BY <1>1, <1>2, AddsBoth
<1>4. ASSUME NEW p \in Int, from <= p, p < from + (k + 1) PROVE Knows(z, t, i, p)
  <2>1. CASE p = from + k
    BY <1>2, <2>1
  <2>2. CASE p < from + k
    <3>1. Knows(x, t, i, p)
      BY <1>4, <2>2 DEF ZeroKnown
    <3> QED BY <1>1, <1>2, <3>1, KnowsStays DEF Adds
  <2> QED BY <1>4, <2>1, <2>2
<1> QED BY <1>3, <1>4 DEF ZeroKnown

LEMMA ZeroAdds ==
  ASSUME NEW s, IsFs(s), NEW t \in Threads, NEW i, i # Dir, NEW from \in Int, NEW to \in Int,
         NEW z, z = zeroDskRangeFS(s, t, i, from, to)
  PROVE  Adds(s, z, {"other"}) /\ \A p \in Int : from <= p /\ p < to => Knows(z, t, i, p)
<1> DEFINE n == IF from < to THEN to - from ELSE 0
           D(f) == IsZeroing(s, t, i, from, n, f)
<1>1. n \in Nat
  OBVIOUS
<1>2. \E f : D(f)
  BY <1>1, ZeroingExists
<1>3. z = (CHOOSE f : D(f))[n]
  BY Zenon DEF zeroDskRangeFS, IsZeroing, ZeroByte
<1>4. PICK f : D(f) /\ z = f[n]
  <2> HIDE DEF D
  <2> QED BY <1>2, <1>3, Zenon
<1>5. \A p \in Int : from <= p /\ p < to => p < from + n
  BY DEF n
<1> HIDE DEF n
<1>6. f[0] = s /\ \A k \in 0 .. n - 1 : f[k + 1] = ZeroByte(f[k], t, i, from + k)
  <2>1. \A k \in 0 .. n : f[k] = IF k = 0 THEN s ELSE ZeroByte(f[k - 1], t, i, from + k - 1)
    BY <1>4, Zenon DEF IsZeroing
  <2>2. ASSUME NEW k \in 0 .. n - 1 PROVE f[k + 1] = ZeroByte(f[k], t, i, from + k)
    <3>1. k + 1 \in 0 .. n /\ k + 1 # 0 /\ (k + 1) - 1 = k /\ from + (k + 1) - 1 = from + k
      BY <1>1
    <3> QED BY <2>1, <3>1
  <2> QED BY <1>1, <2>1, <2>2
<1> DEFINE S == {k \in Nat : ZeroKnown(s, f[k], t, i, from, k)}
<1>7. 0 \in S
  <2>1. ZeroKnown(s, s, t, i, from, 0)
    <3>1. \A p \in Int : ~(from <= p /\ p < from + 0)
      OBVIOUS
    <3> QED BY <3>1, AddsSelf DEF ZeroKnown
  <2> QED BY <1>6, <2>1
<1>8. \A k \in 0 .. n - 1 : k \in S => k + 1 \in S
  BY <1>1, <1>6, ZeroKnownStep
<1>9. n \in 0 .. n
  BY <1>1
<1> HIDE DEF S
<1>10. n \in S
  BY <1>1, <1>7, <1>8, <1>9, BoundedInduction
<1>11. ZeroKnown(s, z, t, i, from, n)
  BY <1>4, <1>10 DEF S
<1> QED BY <1>5, <1>11 DEF ZeroKnown

\* An inode is added.
NewInode(K) == [isize |-> 0, lock |-> Nobody, lk |-> K, sk |-> K, sizes |-> {[size |-> 0, at |-> 0, sk |-> K]}]

LEMMA NewInodeAdds ==
  ASSUME NEW s, IsFs(s), NEW t \in Threads, NEW r, NEW a,
         r = NewInode(s.known[t]),
         a = [s EXCEPT !.inodes = Append(@, r)], NEW C
  PROVE  /\ Adds(s, a, C) /\ IsFs(a) /\ a.disk = s.disk /\ a.known = s.known
         /\ Len(a.inodes) = Len(s.inodes) + 1 /\ a.inodes[Len(s.inodes) + 1] = r
         /\ \A j \in 1 .. Len(s.inodes) : a.inodes[j] = s.inodes[j]
<1>1. /\ s.inodes \in Seq(InodeRec) /\ Len(s.inodes) \in Nat /\ Len(s.inodes) >= 1
      /\ s.known \in [Threads -> SUBSET Nat]
  BY DEF IsFs
<1>2. r \in InodeRec /\ IsEmpty(r)
  <2>1. PICK K : K = s.known[t] /\ K \in SUBSET Nat
    BY <1>1
  <2>2. r = NewInode(K)
    BY <2>1
  <2> QED BY <2>1, <2>2 DEF NewInode, InodeRec, SizeRec, IsEmpty
<1>3. /\ IsRec(a) /\ a.files = s.files /\ a.disk = s.disk /\ a.error = s.error
      /\ a.known = s.known /\ a.inodes = Append(s.inodes, r)
  <2>1. PICK q : q = Append(s.inodes, r)
    OBVIOUS
  <2>2. a = [s EXCEPT !.inodes = q]
    BY <2>1
  <2>3. /\ IsRec(a) /\ a.files = s.files /\ a.disk = s.disk /\ a.error = s.error
        /\ a.known = s.known /\ a.inodes = q
    BY <2>2 DEF IsFs, IsRec
  <2> QED BY <2>1, <2>3
<1>4. /\ a.inodes \in Seq(InodeRec) /\ Len(a.inodes) = Len(s.inodes) + 1 /\ a.inodes[Len(s.inodes) + 1] = r
      /\ \A j \in 1 .. Len(s.inodes) : a.inodes[j] = s.inodes[j]
  BY <1>1, <1>2, <1>3
<1>5. IsFs(a)
  BY <1>1, <1>3, <1>4 DEF IsFs, IsRec
<1>6. Len(s.disk) \in Nat /\ Len(s.files) \in Nat
  BY DEF IsFs, IsSeq
<1>7. LogGrows(s, a, C) /\ FilesStay(s, a)
  BY <1>3, <1>6 DEF LogGrows, FilesStay
<1>8. SizesStay(s, a) /\ DirStays(s, a)
  BY <1>1, <1>2, <1>4 DEF SizesStay, SameSize, DirStays, Dir
<1> QED BY <1>3, <1>4, <1>5, <1>7, <1>8 DEF Adds

LEMMA CreateAdds ==
  ASSUME NEW s, IsFs(s), NEW t \in Threads, NEW n, NEW z, z = executeInodeCreateFS(s, t, n)
  PROVE  Adds(s, z, {"dir", "size", "other"})
<1>1. PICK i, r, a, x, b :
        /\ i = Len(s.inodes) + 1
        /\ r = NewInode(s.known[t])
        /\ a = [s EXCEPT !.inodes = Append(@, r)]
        /\ x = setInodeTransStatus(a, t, i, 0) /\ b = updateInodeDisksizeFS(x, t, i, 0, 0, 0)
        /\ z = updateDirNameInode(b, t, n, i)
  BY DEF executeInodeCreateFS, NewInode
<1>2. Adds(s, a, {"dir", "size", "other"}) /\ IsFs(a)
  BY <1>1, NewInodeAdds
<1>3. Adds(a, x, {"dir", "size", "other"})
  <2>1. PICK k : k = (IF i = Dir THEN "dir" ELSE "other") /\ Adds(a, x, {k})
    BY <1>1, <1>2, SetTransAdds
  <2> QED BY <2>1, AddsMore
<1>4. Adds(x, b, {"dir", "size", "other"})
  <2>1. Adds(x, b, {"size"})
    BY <1>1, <1>3, DisksizeAdds DEF Adds
  <2> QED BY <2>1, AddsMore
<1>5. Adds(b, z, {"dir", "size", "other"})
  <2>1. Adds(b, z, {"dir"})
    BY <1>1, <1>4, EntryAdds DEF Adds
  <2> QED BY <2>1, AddsMore
<1> QED BY <1>2, <1>3, <1>4, <1>5, AddsBoth

-----------------------------------------------------------------------------
(* What the steps of the threads add to the disk.                          *)

LEMMA InvFs ==
  ASSUME IInv
  PROVE  /\ IsFs(fs) /\ Dir \in 1 .. Len(fs.inodes) /\ Dir \in Nat
         /\ \A n \in Names : Lookup(fs, n) \in Nat
<1>1. IsFs(fs) /\ NamedInodes(fs)
  BY DEF IInv, TypeInv
<1>2. Len(fs.inodes) \in Nat /\ Len(fs.inodes) >= 1
  BY <1>1 DEF IsFs
<1>3. \A n \in Names : Lookup(fs, n) \in {NoInode} \cup 2 .. Len(fs.inodes)
  BY <1>1 DEF NamedInodes
<1> QED BY <1>1, <1>2, <1>3 DEF Dir, NoInode

LEMMA SameAdds ==
  ASSUME IInv, UNCHANGED fs, NEW C
  PROVE  Adds(fs, fs', C)
<1>1. Adds(fs, fs, C)
  BY InvFs, AddsSelf
<1>2. fs' = fs
  OBVIOUS
<1> QED BY <1>1, <1>2

LEMMA OpenLookupAdds ==
  ASSUME IInv, NEW t \in Threads, OpenLookup(t), NEW C
  PROVE  Adds(fs, fs', C)
<1>1. CASE UNCHANGED fs
  BY <1>1, SameAdds
<1>2. ASSUME NEW w \in CoherentStores(fs, t, Loc(Dir, "trans", 0)), NEW x, x = ReadFrom(fs, t, w),
             NEW v \in CoherentStores(x, t, Loc(Dir, "name", Call(t).name)),
             FinishOpen(t, ReadFrom(x, t, v), ValueOf(fs, v), Call(t).flags)
      PROVE  Adds(fs, fs', C)
  <2>1. Call(t).name \in Names /\ Call(t).flags \in SUBSET Flags /\ IsFs(fs)
    BY StartsFacts, CallFields, InvFs DEF OpenLookup
  <2>2. PICK s, i : s = ReadFrom(x, t, v) /\ i = ValueOf(fs, v)
    OBVIOUS
  <2>3. KnownStep(fs, x) /\ i \in {NoInode} \cup Named(fs, Call(t).name)
    BY <1>2, <2>1, <2>2, OpenLookupFacts
  <2>4. IsFs(x)
    BY <2>3 DEF KnownStep, DiskStep
  <2>5. Adds(fs, x, C)
    BY <1>2, <2>1, StoresAre, ReadFromAdds
  <2>6. Adds(x, s, C)
    BY <1>2, <2>2, <2>4, StoresAre, ReadFromAdds
  <2>7. Adds(fs, s, C)
    BY <2>1, <2>5, <2>6, AddsBoth
  <2>8. i \in Nat
    <3>1. Named(fs, Call(t).name) \subseteq {NoInode} \cup 2 .. Len(fs.inodes)
      BY <2>1 DEF IInv, TypeInv, NamedInodes
    <3> QED BY <2>3, <3>1 DEF NoInode
  <2>9. Adds(s, fs', C)
    BY <1>2, <2>1, <2>2, <2>7, <2>8, FinishOpenAdds DEF Adds
  <2> QED BY <2>1, <2>7, <2>9, AddsBoth
<1> QED BY <1>1, <1>2 DEF OpenLookup

\* The call has locked the description that it uses.
LEMMA DescriptorAdds ==
  ASSUME IInv, NEW t \in Threads, HasFile(Call(t).fd), NEW z, z = LockFile(fs, t), NEW C
  PROVE  /\ Adds(fs, z, C) /\ Call(t).fd \in 1 .. Len(z.files)
         /\ \A st \in CoherentSizes(z, t, File(t).inode) :
              Adds(fs, ReadSize(z, t, st), C) /\ Call(t).fd \in 1 .. Len(ReadSize(z, t, st).files)
<1>1. Call(t).fd \in 1 .. Len(fs.files) /\ File(t).inode \in 1 .. Len(fs.inodes) /\ IsFs(fs)
  BY FdFacts, InvFs
<1>2. Adds(fs, z, C) /\ FilesStep(fs, z) /\ Len(z.files) = Len(fs.files)
  BY <1>1, LockFileAdds, LockFileFacts
<1>3. File(t).inode \in 1 .. Len(z.inodes) /\ IsFs(z)
  BY <1>1, <1>2 DEF FilesStep
<1>4. ASSUME NEW st \in CoherentSizes(z, t, File(t).inode), NEW l, l = ReadSize(z, t, st)
      PROVE  Adds(fs, l, C) /\ Call(t).fd \in 1 .. Len(l.files)
  <2>1. st.sk \in SUBSET Nat
    BY <1>3, CoherentSizesAre
  <2>2. Adds(z, l, C) /\ l.files = z.files
    BY <1>3, <1>4, <2>1, StoredSizeAdds, StoredSizeFacts DEF KnownStep, DiskStep
  <2>3. Adds(fs, l, C)
    BY <1>1, <1>2, <2>2, AddsBoth
  <2> QED BY <1>1, <1>2, <2>2, <2>3
<1> QED BY <1>1, <1>2, <1>4

LEMMA StartWriteAdds ==
  ASSUME IInv, NEW t \in Threads, StartWrite(t), NEW C
  PROVE  Adds(fs, fs', C)
<1>1. HasFile(Call(t).fd) /\ IsFs(fs) /\ -1 \in Int
  BY InvFs DEF StartWrite, FreeFd
<1>2. PICK z : z = LockFile(fs, t)
  OBVIOUS
<1>3. Adds(fs, z, C) /\ Call(t).fd \in 1 .. Len(z.files)
  BY <1>1, <1>2, DescriptorAdds
<1>4. fs' = z \/ FinishAccess(t, z, -1)
  BY <1>2 DEF StartWrite
<1>5. CASE FinishAccess(t, z, -1)
  <2>1. Adds(z, fs', C)
    BY <1>1, <1>3, <1>5, FinishAccessAdds DEF Adds
  <2> QED BY <1>1, <1>3, <2>1, AddsBoth
<1> QED BY <1>3, <1>4, <1>5

LEMMA StartReadAdds ==
  ASSUME IInv, NEW t \in Threads, StartRead(t), NEW C
  PROVE  Adds(fs, fs', C)
<1>1. HasFile(Call(t).fd) /\ IsFs(fs) /\ -1 \in Int /\ 0 \in Int
  BY InvFs DEF StartRead, FreeFd
<1>2. PICK z : z = LockFile(fs, t)
  OBVIOUS
<1>3. PICK l, v : /\ Adds(fs, l, C) /\ Call(t).fd \in 1 .. Len(l.files)
                  /\ (FinishAccess(t, l, v) /\ v \in Int) \/ fs' = l
  <2>1. CASE FinishAccess(t, z, -1)
    BY <1>1, <1>2, <2>1, DescriptorAdds
  <2>2. CASE \E st \in CoherentSizes(z, t, File(t).inode) :
               FinishAccess(t, ReadSize(z, t, st), 0) \/ fs' = ReadSize(z, t, st)
    BY <1>1, <1>2, <2>2, DescriptorAdds
  <2> QED BY <1>2, <2>1, <2>2 DEF StartRead
<1>4. CASE FinishAccess(t, l, v) /\ v \in Int
  <2>1. Adds(l, fs', C)
    BY <1>3, <1>4, FinishAccessAdds DEF Adds
  <2> QED BY <1>1, <1>3, <2>1, AddsBoth
<1> QED BY <1>3, <1>4

LEMMA ReadsAdd ==
  ASSUME IInv, NEW t \in Threads, ReadByte(t) \/ EndRead(t), NEW C
  PROVE  Adds(fs, fs', C)
<1>1. Reading(t) /\ IsFs(fs) /\ Call(t).fd \in 1 .. Len(fs.files)
  BY ReadingFacts DEF ReadByte, EndRead, At
<1>2. CASE ReadByte(t)
  <2>1. PICK loc, w : w \in CoherentStores(fs, t, loc) /\ fs' = ReadFrom(fs, t, w)
    BY <1>2 DEF ReadByte
  <2> QED BY <1>1, <2>1, StoresAre, ReadFromAdds
<1>3. CASE EndRead(t)
  <2>1. PICK loc, s, w : /\ s = fs \/ (w \in CoherentStores(fs, t, loc) /\ s = ReadFrom(fs, t, w))
                         /\ UNCHANGED fs \/ FinishAccess(t, s, ctl[t].n)
    BY <1>3 DEF EndRead
  <2>2. Adds(fs, s, C) /\ s.files = fs.files
    <3>1. CASE w \in CoherentStores(fs, t, loc) /\ s = ReadFrom(fs, t, w)
      <4>1. w \in {0} \cup StoresTo(fs, loc)
        BY <1>1, <3>1, StoresAre
      <4> QED BY <1>1, <3>1, <4>1, ReadFromAdds, ReadFromFacts DEF KnownStep, DiskStep
    <3> QED BY <1>1, <2>1, <3>1, AddsSelf
  <2>3. ctl[t].n \in Int
    BY <1>1 DEF Reading
  <2>4. CASE FinishAccess(t, s, ctl[t].n)
    <3>1. Adds(s, fs', C)
      BY <1>1, <2>2, <2>3, <2>4, FinishAccessAdds DEF Adds
    <3> QED BY <1>1, <2>2, <3>1, AddsBoth
  <2> QED BY <2>1, <2>4, SameAdds
<1> QED BY <1>2, <1>3

LEMMA LseekAdds ==
  ASSUME IInv, NEW t \in Threads, Lseek(t), NEW C
  PROVE  Adds(fs, fs', C)
<1>1. HasFile(Call(t).fd) /\ IsFs(fs)
  BY InvFs DEF Lseek, FreeFd
<1>2. PICK y, z, f, st : /\ f = Call(t).fd /\ y = LockFile(fs, t) /\ z = ReadSize(y, t, st)
                         /\ st \in CoherentSizes(y, t, File(t).inode)
                         /\ FileStep(z, fs', f) /\ fs'.known = z.known
  BY LseekFacts
<1>3. Adds(fs, z, C) /\ f \in 1 .. Len(z.files) /\ IsFs(z)
  BY <1>1, <1>2, DescriptorAdds DEF Adds
<1>5. FilesStep(z, fs')
  BY <1>2, <1>3, FileStepIsFilesStep
<1>7. Adds(z, fs', C)
  BY <1>2, <1>3, <1>5, DescriptionAdds
<1> QED BY <1>1, <1>3, <1>7, AddsBoth

LEMMA CloseAdds ==
  ASSUME IInv, IInv', NEW t \in Threads, Close(t), NEW C
  PROVE  Adds(fs, fs', C)
<1>1. IsFs(fs) /\ IsFs(fs')
  BY InvFs DEF IInv, TypeInv
<1>2. PICK f, n, b : fs' = [fs EXCEPT !.files[f].count = n, !.files[f].freed = b]
  BY DEF Close
<1>3. /\ fs'.disk = fs.disk /\ fs'.inodes = fs.inodes /\ fs'.known = fs.known
      /\ fs'.files = [fs.files EXCEPT ![f].count = n, ![f].freed = b]
  BY <1>1, <1>2 DEF IsFs
<1>4. fs.files \in Seq(FileRec) /\ Len(fs.files) \in Nat
  BY <1>1 DEF IsFs
<1>5. Len(fs.files) <= Len(fs'.files) /\ \A g \in 1 .. Len(fs.files) : fs'.files[g].inode = fs.files[g].inode
  BY <1>3, <1>4 DEF FileRec
<1>6. Len(fs.disk) \in Nat /\ Len(fs.inodes) \in Nat
  BY <1>1 DEF IsFs, IsSeq
<1> HIDE DEF Class
<1> QED BY <1>1, <1>3, <1>5, <1>6 DEF Adds, LogGrows, FilesStay, SizesStay, SameSize, DirStays

LEMMA BadCallsAdd ==
  ASSUME IInv, NEW t \in Threads, BadDescriptor(t) \/ OpenBadFlags(t) \/ BadOffset(t), NEW C
  PROVE  Adds(fs, fs', C)
<1>1. IsFs(fs)
  BY InvFs
<1>2. UNCHANGED fs \/ fs' = [fs EXCEPT !.error = TRUE]
  BY DEF BadDescriptor, OpenBadFlags, BadOffset, Fail
<1> QED BY <1>1, <1>2, SameAdds, ErrorAdds

LEMMA FencesAdd ==
  ASSUME IInv, NEW t \in Threads, Fsync(t) \/ Sync(t) \/ PersBarrier(t), NEW C
  PROVE  Adds(fs, fs', C)
<1>1. IsFs(fs)
  BY InvFs
<1>2. PICK lab : IsFence(lab) /\ fs' = DskFence(fs, t, lab)
  <2>1. ASSUME Fsync(t) PROVE IsFence(DskFsyncLabel(File(t).inode)) /\ fs' = DskFence(fs, t, DskFsyncLabel(File(t).inode))
    BY <2>1 DEF Fsync, executeFsyncFS, IsFence, DskFsyncLabel, WriteKinds
  <2>2. ASSUME Sync(t) PROVE IsFence(DskSyncLabel) /\ fs' = DskFence(fs, t, DskSyncLabel)
    BY <2>2 DEF Sync, IsFence, DskSyncLabel, WriteKinds
  <2>3. ASSUME PersBarrier(t) PROVE IsFence(DskPbarrierLabel) /\ fs' = DskFence(fs, t, DskPbarrierLabel)
    BY <2>3 DEF PersBarrier, IsFence, DskPbarrierLabel, WriteKinds
  <2> QED BY <2>1, <2>2, <2>3
<1> QED BY <1>1, <1>2, FenceAdds

LEMMA BlockBeginAdds ==
  ASSUME IInv, NEW t \in Threads, BlockBegin(t)
  PROVE  Adds(fs, fs', {"other"})
<1>1. PICK i : i = File(t).inode
  OBVIOUS
<1>2. UNCHANGED fs \/ fs' = setInodeTransStatus(fs, t, i, 1)
  BY <1>1 DEF BlockBegin
<1>3. i # Dir /\ IsFs(fs)
  BY <1>1, WritingFacts DEF BlockBegin, At, WritePcs
<1>4. CASE fs' = setInodeTransStatus(fs, t, i, 1)
  <2>1. Adds(fs, fs', {IF i = Dir THEN "dir" ELSE "other"})
    BY <1>3, <1>4, SetTransAdds
  <2> QED BY <1>3, <2>1
<1> QED BY <1>2, <1>4, SameAdds

LEMMA WriteByteAdds ==
  ASSUME IInv, NEW t \in Threads, WriteByte(t), NEW i, i = File(t).inode
  PROVE  Adds(fs, fs', {"other"}) /\ Knows(fs', t, i, ctl[t].at)
<1>1. PICK v : fs' = DskWrite(fs, t, DskWriteLabel(Loc(i, "data", ctl[t].at), v, i))
  BY DEF WriteByte
<1>2. i # Dir /\ IsFs(fs)
  BY WritingFacts DEF WriteByte, At, WritePcs
<1> QED BY <1>1, <1>2, DataAdds, DataKnown

LEMMA EndWriteAdds ==
  ASSUME IInv, NEW t \in Threads, EndWrite(t)
  PROVE  Adds(fs, fs', {"other"})
<1>1. PICK i, u, x, v : /\ i = File(t).inode /\ u = UnlockInode(fs, t, i)
                        /\ x = u \/ x = executeFsyncFS(u, t, i)
                        /\ v = ctl[t].end - ctl[t].off
                        /\ ctl[t].pc = "written" /\ FinishAccess(t, x, v)
  <2>1. PICK i, u : i = File(t).inode /\ u = UnlockInode(fs, t, i)
    OBVIOUS
  <2>2. PICK x : x = IF "sync" \in File(t).flags THEN executeFsyncFS(u, t, i) ELSE u
    OBVIOUS
  <2>3. ctl[t].pc = "written" /\ FinishAccess(t, x, ctl[t].end - ctl[t].off)
    BY <2>1, <2>2 DEF EndWrite, At
  <2>4. x = u \/ x = executeFsyncFS(u, t, i)
    BY <2>2
  <2> QED BY <2>1, <2>3, <2>4
<1>2. /\ Writing(t) /\ Call(t).fd \in 1 .. Len(fs.files)
      /\ i \in 1 .. Len(fs.inodes) /\ i # Dir /\ i \in Nat /\ IsFs(fs)
  BY <1>1, WritingFacts DEF WritePcs
<1>3. Adds(fs, u, {"other"}) /\ InodeStep(fs, u, i)
  BY <1>1, <1>2, UnlockAdds, UnlockInodeFacts
<1>4. IsFs(u) /\ u.files = fs.files
  BY <1>3 DEF InodeStep
<1>5. Adds(u, x, {"other"}) /\ x.files = u.files /\ IsFs(x)
  <2>1. CASE x = u
    BY <1>4, <2>1, AddsSelf
  <2>2. CASE x = executeFsyncFS(u, t, i)
    BY <1>2, <1>4, <2>2, FsyncAdds, FsyncKeeps DEF DiskStep
  <2> QED BY <1>1, <2>1, <2>2
<1>6. v \in Int
  BY <1>1, <1>2 DEF Writing
<1>7. Adds(x, fs', {"other"})
  <2>1. Call(t).fd \in 1 .. Len(x.files)
    BY <1>2, <1>4, <1>5
  <2> QED BY <1>1, <1>5, <1>6, <2>1, FinishAccessAdds
<1> QED BY <1>2, <1>3, <1>4, <1>5, <1>7, AddsBoth

\* The directory is locked and looked up.
LEMMA DirLockedAdds ==
  ASSUME IInv, NEW t \in Threads, NEW n, NEW m, NEW l,
         l = LookupReads(LockInode(fs, t, Dir), t, n)
           \/ l = LookupReads(LookupReads(LockInode(fs, t, Dir), t, n), t, m)
  PROVE  Adds(fs, l, {"dir"}) /\ IsFs(l) /\ Dir \in 1 .. Len(l.inodes)
<1>1. IsFs(fs) /\ Dir \in 1 .. Len(fs.inodes)
  BY InvFs
<1>2. PICK x, y : x = LockInode(fs, t, Dir) /\ y = LookupReads(x, t, n)
  OBVIOUS
<1>3. Adds(fs, x, {"dir"}) /\ IsFs(x)
  BY <1>1, <1>2, LockAdds DEF Adds
<1>4. Adds(x, y, {"dir"}) /\ IsFs(y)
  BY <1>2, <1>3, LookupAdds DEF Adds
<1>5. Adds(fs, y, {"dir"})
  BY <1>1, <1>3, <1>4, AddsBoth
<1>6. l = y \/ l = LookupReads(y, t, m)
  BY <1>2
<1>7. Adds(fs, l, {"dir"})
  <2>1. CASE l = LookupReads(y, t, m)
    <3>1. Adds(y, l, {"dir"})
      BY <1>4, <2>1, LookupAdds
    <3> QED BY <1>1, <1>5, <3>1, AddsBoth
  <2> QED BY <1>5, <1>6, <2>1
<1>8. IsFs(l)
  BY <1>7 DEF Adds
<1>9. Len(l.inodes) \in Nat /\ Len(l.inodes) >= 1
  BY <1>8 DEF IsFs
<1> QED BY <1>7, <1>8, <1>9 DEF Dir

LEMMA TruncateLookupAdds ==
  ASSUME IInv, NEW t \in Threads, TruncateLookup(t)
  PROVE  Adds(fs, fs', {"dir"})
<1>1. PICK l : l = LookupReads(LockInode(fs, t, Dir), t, Call(t).name)
  OBVIOUS
<1>2. fs' = UnlockInode(l, t, Dir)
  BY <1>1 DEF TruncateLookup
<1>3. Adds(fs, l, {"dir"}) /\ IsFs(l) /\ Dir \in 1 .. Len(l.inodes) /\ IsFs(fs)
  BY <1>1, DirLockedAdds, InvFs
<1>4. Adds(l, fs', {"dir"})
  BY <1>2, <1>3, UnlockAdds
<1> QED BY <1>3, <1>4, AddsBoth

\* One entry of the directory, or none, is changed under its lock.
LEMMA EntryChangeAdds ==
  ASSUME IInv, NEW t \in Threads, Link(t) \/ Unlink(t)
  PROVE  Adds(fs, fs', {"dir"})
<1>1. PICK l, x, n, i :
        /\ Adds(fs, l, {"dir"}) /\ IsFs(l) /\ Dir \in 1 .. Len(l.inodes)
        /\ x = l \/ x = updateDirNameInode(l, t, n, i)
        /\ fs' = UnlockInode(x, t, Dir)
  <2>1. CASE Link(t)
    <3>1. PICK l, x, n, i :
            /\ l = LookupReads(LookupReads(LockInode(fs, t, Dir), t, Call(t).from), t, Call(t).to)
            /\ x = l \/ x = updateDirNameInode(l, t, n, i)
            /\ fs' = UnlockInode(x, t, Dir)
      BY <2>1 DEF Link
    <3>2. Adds(fs, l, {"dir"}) /\ IsFs(l) /\ Dir \in 1 .. Len(l.inodes)
      BY <3>1, DirLockedAdds
    <3> QED BY <3>1, <3>2
  <2>2. CASE Unlink(t)
    <3>1. PICK l, x, n, i :
            /\ l = LookupReads(LockInode(fs, t, Dir), t, Call(t).name)
            /\ x = l \/ x = updateDirNameInode(l, t, n, i)
            /\ fs' = UnlockInode(x, t, Dir)
      BY <2>2 DEF Unlink
    <3>2. Adds(fs, l, {"dir"}) /\ IsFs(l) /\ Dir \in 1 .. Len(l.inodes)
      BY <3>1, DirLockedAdds
    <3> QED BY <3>1, <3>2
  <2> QED BY <2>1, <2>2
<1>2. IsFs(fs)
  BY InvFs
<1>3. Adds(l, x, {"dir"}) /\ x.inodes = l.inodes
  BY <1>1, AddsSelf, EntryAdds, SetName DEF DiskStep
<1>4. Adds(x, fs', {"dir"})
  BY <1>1, <1>3, UnlockAdds DEF Adds
<1>5. Adds(fs, x, {"dir"})
  BY <1>1, <1>2, <1>3, AddsBoth
<1> QED BY <1>2, <1>4, <1>5, AddsBoth

LEMMA RenameAdds ==
  ASSUME IInv, NEW t \in Threads, RenameBegin(t) \/ RenameLink(t) \/ RenameUnlink(t) \/ RenameEnd(t)
  PROVE  Adds(fs, fs', {"dir"})
<1>1. IsFs(fs) /\ Dir \in 1 .. Len(fs.inodes)
  BY InvFs
<1>2. CASE RenameBegin(t)
  <2>1. PICK l : l = LookupReads(LookupReads(LockInode(fs, t, Dir), t, Call(t).from), t, Call(t).to)
    OBVIOUS
  <2>2. fs' = UnlockInode(l, t, Dir) \/ fs' = setInodeTransStatus(l, t, Dir, 1)
    BY <1>2, <2>1 DEF RenameBegin
  <2>3. Adds(fs, l, {"dir"}) /\ IsFs(l) /\ Dir \in 1 .. Len(l.inodes)
    BY <2>1, DirLockedAdds
  <2>4. Adds(l, fs', {"dir"})
    <3>1. CASE fs' = UnlockInode(l, t, Dir)
      BY <2>3, <3>1, UnlockAdds
    <3>2. CASE fs' = setInodeTransStatus(l, t, Dir, 1)
      <4>1. Adds(l, fs', {IF Dir = Dir THEN "dir" ELSE "other"})
        BY <2>3, <3>2, SetTransAdds
      <4> QED BY <4>1
    <3> QED BY <2>2, <3>1, <3>2
  <2> QED BY <1>1, <2>3, <2>4, AddsBoth
<1>3. CASE RenameLink(t) \/ RenameUnlink(t)
  <2>1. PICK n, i : fs' = updateDirNameInode(fs, t, n, i)
    BY <1>3 DEF RenameLink, RenameUnlink
  <2> QED BY <1>1, <2>1, EntryAdds
<1>4. CASE RenameEnd(t)
  <2>1. PICK x : x = setInodeTransStatus(fs, t, Dir, 0) /\ fs' = UnlockInode(x, t, Dir)
    BY <1>4 DEF RenameEnd
  <2>2. Dir \in Nat
    BY <1>1
  <2>3. DiskStep(fs, x)
    BY <1>1, <2>1, <2>2, SetTrans
  <2>4. Adds(fs, x, {IF Dir = Dir THEN "dir" ELSE "other"})
    BY <1>1, <2>1, SetTransAdds
  <2>5. Adds(fs, x, {"dir"}) /\ IsFs(x) /\ Dir \in 1 .. Len(x.inodes)
    BY <1>1, <2>3, <2>4 DEF DiskStep
  <2>6. Adds(x, fs', {"dir"})
    BY <2>1, <2>5, UnlockAdds
  <2> QED BY <1>1, <2>5, <2>6, AddsBoth
<1> QED BY <1>2, <1>3, <1>4

\* The two ways of open(O_CREAT).
LEMMA OpenCreateSplit ==
  ASSUME IInv, NEW t \in Threads, OpenCreate(t), NEW n, n = Call(t).name,
         NEW l, l = LookupReads(LockInode(fs, t, Dir), t, n)
  PROVE  \E x, s, i, flags :
           /\ x = l \/ x = executeInodeCreateFS(l, t, n)
           /\ s = UnlockInode(x, t, Dir) /\ i \in Nat /\ flags \in SUBSET Flags
           /\ FinishOpen(t, s, i, flags)
<1>1. n \in Names /\ Call(t).flags \in SUBSET Flags
  BY StartsFacts, CallFields DEF OpenCreate
<1>2. PICK i : i = Lookup(fs, n)
  OBVIOUS
<1>3. i \in Nat /\ Len(fs.inodes) + 1 \in Nat
  BY <1>1, <1>2, InvFs DEF IsFs
<1>4. CASE FinishOpen(t, UnlockInode(l, t, Dir), i, Call(t).flags)
  BY <1>1, <1>3, <1>4
<1>5. CASE FinishOpen(t, UnlockInode(executeInodeCreateFS(l, t, n), t, Dir), Len(fs.inodes) + 1, Call(t).flags \ {"trunc"})
  <2>1. Call(t).flags \ {"trunc"} \in SUBSET Flags
    BY <1>1
  <2> QED BY <1>3, <1>5, <2>1
<1> QED BY <1>2, <1>4, <1>5 DEF OpenCreate

\* What is done to the disk during a call is one of these for all calls but
\* those that change a size.
SizeCall(t) == OpenCreate(t) \/ executeTruncateFS(t) \/ WriteChecks(t) \/ BlockEnd(t)

LEMMA StepAdds ==
  ASSUME IInv, IInv', NEW t \in Threads, Step(t), ~SizeCall(t)
  PROVE  Adds(fs, fs', {"dir", "other"})
<1> DEFINE D == {"dir", "other"}
<1>1. CASE BadDescriptor(t) \/ OpenBadFlags(t) \/ BadOffset(t)
  BY <1>1, BadCallsAdd
<1>2. CASE OpenLookup(t)
  BY <1>2, OpenLookupAdds
<1>3. CASE Link(t) \/ Unlink(t)
  BY <1>3, EntryChangeAdds, AddsMore
<1>4. CASE RenameBegin(t) \/ RenameLink(t) \/ RenameUnlink(t) \/ RenameEnd(t)
  BY <1>4, RenameAdds, AddsMore
<1>5. CASE TruncateLookup(t)
  BY <1>5, TruncateLookupAdds, AddsMore
<1>6. CASE StartWrite(t)
  BY <1>6, StartWriteAdds
<1>7. CASE StartRead(t)
  BY <1>7, StartReadAdds
<1>8. CASE BlockBegin(t)
  BY <1>8, BlockBeginAdds, AddsMore
<1>9. CASE WriteByte(t)
  BY <1>9, WriteByteAdds, AddsMore
<1>10. CASE EndWrite(t)
  BY <1>10, EndWriteAdds, AddsMore
<1>11. CASE ReadByte(t) \/ EndRead(t)
  BY <1>11, ReadsAdd
<1>12. CASE Lseek(t)
  BY <1>12, LseekAdds
<1>13. CASE Fsync(t) \/ Sync(t) \/ PersBarrier(t)
  BY <1>13, FencesAdd
<1>14. CASE Close(t)
  BY <1>14, CloseAdds
<1> QED BY <1>1, <1>2, <1>3, <1>4, <1>5, <1>6, <1>7, <1>8, <1>9, <1>10, <1>11, <1>12, <1>13, <1>14 DEF Step, SizeCall

\* What a step does to the control of its thread.
DataPcs == {"read"} \cup WritePcs
Leaves(t) == MoveStep(t) /\ (UNCHANGED <<prog, ctl>> \/ ctl'[t].pc \notin DataPcs)

LEMMA ReturnLeaves ==
  ASSUME IInv, NEW t \in Threads, NEW v, Return(t, v)
  PROVE  Leaves(t)
<1>1. DOMAIN ctl = Threads
  BY DEF IInv, TypeInv
<1>2. ctl'[t] = [pc |-> "idle", ret |-> v]
  BY <1>1 DEF Return
<1> QED BY <1>2, MoveIs DEF Leaves, DataPcs, WritePcs

LEMMA ContinueLeaves ==
  ASSUME IInv, NEW t \in Threads, NEW c, Continue(t, c), c.pc \notin DataPcs
  PROVE  Leaves(t)
<1>1. ctl'[t] = c
  BY ContinueFacts
<1> QED BY <1>1, MoveIs DEF Leaves

LEMMA BlockLeaves ==
  ASSUME IInv, NEW t \in Threads, Block(t)
  PROVE  Leaves(t)
<1>1. Continue(t, [pc |-> "blocked", ret |-> 0])
  BY DEF Block, Continue
<1> QED BY <1>1, ContinueLeaves DEF DataPcs, WritePcs

LEMMA StayLeaves ==
  ASSUME NEW t, UNCHANGED <<prog, ctl>>
  PROVE  Leaves(t)
BY DEF Leaves, MoveStep

LEMMA FinishAccessLeaves ==
  ASSUME IInv, NEW t \in Threads, NEW s, NEW v, FinishAccess(t, s, v)
  PROVE  Leaves(t)
<1>1. \E w : Return(t, w)
  BY DEF FinishAccess
<1> QED BY <1>1, ReturnLeaves

LEMMA FinishOpenLeaves ==
  ASSUME IInv, NEW t \in Threads, NEW s, NEW i, NEW flags, FinishOpen(t, s, i, flags)
  PROVE  Leaves(t)
<1>1. PICK v, c : /\ Return(t, v) \/ Return(t, -1) \/ Continue(t, c) \/ UNCHANGED <<prog, ctl>>
                  /\ c = [pc |-> "truncate", inode |-> i, len |-> 0, ret |-> visitDskOpen(s)]
  BY DEF FinishOpen
<1>2. c.pc \notin DataPcs
  BY <1>1 DEF DataPcs, WritePcs
<1> QED BY <1>1, <1>2, ReturnLeaves, ContinueLeaves, StayLeaves

\* The steps of a read() or write() in progress, and those that lead there.
DataCall(t) == WriteChecks(t) \/ BlockBegin(t) \/ WriteByte(t) \/ BlockEnd(t) \/ StartRead(t) \/ ReadByte(t)

LEMMA StepLeaves ==
  ASSUME IInv, NEW t \in Threads, Step(t), ~DataCall(t)
  PROVE  Leaves(t)
<1>1. CASE BadDescriptor(t)
  BY <1>1, ReturnLeaves, StayLeaves DEF BadDescriptor, Fail
<1>2. CASE OpenBadFlags(t) \/ BadOffset(t)
  BY <1>2, ReturnLeaves DEF OpenBadFlags, BadOffset
<1>3. CASE OpenLookup(t)
  BY <1>3, BlockLeaves, FinishOpenLeaves DEF OpenLookup
<1>4. CASE OpenCreate(t)
  BY <1>4, FinishOpenLeaves DEF OpenCreate
<1>5. CASE Link(t)
  <2>1. PICK v : Return(t, v)
    BY <1>5 DEF Link
  <2> QED BY <2>1, ReturnLeaves
<1>6. CASE Unlink(t)
  <2>1. PICK v : Return(t, v)
    BY <1>6 DEF Unlink
  <2> QED BY <2>1, ReturnLeaves
<1>7. CASE RenameBegin(t)
  <2>1. PICK v, c, i : (Return(t, v) \/ Continue(t, c)) /\ c = [pc |-> "link", inode |-> i, ret |-> 0]
    BY <1>7 DEF RenameBegin
  <2>2. c.pc \notin DataPcs
    BY <2>1 DEF DataPcs, WritePcs
  <2> QED BY <2>1, <2>2, ReturnLeaves, ContinueLeaves
<1>8. CASE RenameLink(t) \/ RenameUnlink(t)
  <2>1. Renaming(t)
    BY <1>8, RenamingFacts DEF RenameLink, RenameUnlink, At, RenamePcs
  <2>2. PICK c, pc : Continue(t, c) /\ c = [ctl[t] EXCEPT !.pc = pc] /\ pc \in {"unlink", "endrename"}
    BY <1>8 DEF RenameLink, RenameUnlink
  <2>3. c.pc = pc
    BY <2>1, <2>2 DEF Renaming
  <2> QED BY <2>2, <2>3, ContinueLeaves DEF DataPcs, WritePcs
<1>9. CASE RenameEnd(t)
  BY <1>9, ReturnLeaves DEF RenameEnd
<1>10. CASE TruncateLookup(t)
  <2>1. PICK v, c, i, n : (Return(t, v) \/ Continue(t, c)) /\ c = [pc |-> "truncate", inode |-> i, len |-> n, ret |-> 0]
    BY <1>10 DEF TruncateLookup
  <2>2. c.pc \notin DataPcs
    BY <2>1 DEF DataPcs, WritePcs
  <2> QED BY <2>1, <2>2, ReturnLeaves, ContinueLeaves
<1>11. CASE executeTruncateFS(t)
  <2>1. PICK v : Return(t, v)
    BY <1>11 DEF executeTruncateFS
  <2> QED BY <2>1, ReturnLeaves
<1>12. CASE StartWrite(t)
  <2>1. PICK s, c, o : /\ FinishAccess(t, s, -1) \/ Continue(t, c)
                       /\ c = [pc |-> "write", off |-> o, ret |-> 0]
    BY <1>12 DEF StartWrite
  <2>2. c.pc \notin DataPcs
    BY <2>1 DEF DataPcs, WritePcs
  <2> QED BY <2>1, <2>2, FinishAccessLeaves, ContinueLeaves
<1>14. CASE EndWrite(t)
  <2>1. PICK s, v : FinishAccess(t, s, v)
    BY <1>14 DEF EndWrite
  <2> QED BY <2>1, FinishAccessLeaves
<1>16. CASE EndRead(t)
  <2>1. PICK s, v : Block(t) \/ FinishAccess(t, s, v)
    BY <1>16 DEF EndRead
  <2> QED BY <2>1, BlockLeaves, FinishAccessLeaves
<1>17. CASE Lseek(t)
  <2>1. PICK v : Return(t, v)
    BY <1>17 DEF Lseek
  <2> QED BY <2>1, ReturnLeaves
<1>18. CASE Fsync(t) \/ Sync(t) \/ PersBarrier(t) \/ Close(t)
  BY <1>18, ReturnLeaves DEF Fsync, Sync, PersBarrier, Close
<1> QED BY <1>1, <1>2, <1>3, <1>4, <1>5, <1>6, <1>7, <1>8, <1>9, <1>10, <1>11, <1>12, <1>14,
           <1>16, <1>17, <1>18 DEF Step, DataCall

LEMMA StepMoves ==
  ASSUME IInv, NEW t \in Threads, Step(t)
  PROVE  MoveStep(t) /\ mode' = mode /\ rec' = rec /\ prog[t] # <<>>
<1>1. MoveStep(t) /\ prog[t] # <<>>
  <2>1. CASE ~DataCall(t)
    <3>1. MoveStep(t)
      BY <2>1, StepLeaves DEF Leaves
    <3>2. ASSUME prog[t] = <<>> PROVE FALSE
      <4>1. Resting(t)
        BY <3>2 DEF IInv, ThreadOK, Renaming, Truncating, Starting, Writing, Reading, OnFile, InCall
      <4>2. \A pc : pc \in {"link", "unlink", "endrename", "truncate", "written", "read"} => ~At(t, pc)
        BY <4>1 DEF Resting, At
      <4>3. \A op : ~Starts(t, op)
        BY <3>2 DEF Starts, Calls
      <4> HIDE DEF At, Starts
      <4> QED BY <2>1, <4>2, <4>3 DEF Step, DataCall, BadDescriptor, OpenBadFlags, OpenLookup, OpenCreate,
              Link, Unlink, RenameBegin, RenameLink, RenameUnlink, RenameEnd, TruncateLookup, executeTruncateFS,
              BadOffset, StartWrite, EndWrite, EndRead, Lseek, Fsync, Sync, PersBarrier, Close
    <3> QED BY <3>1, <3>2
  <2>2. CASE WriteChecks(t)
    <3>1. PICK s, v, c : FinishAccess(t, s, v) \/ Continue(t, c)
      BY <2>2 DEF WriteChecks
    <3>2. prog[t] # <<>>
      BY <2>2, PcCases DEF WriteChecks, At, IInv, Starting, OnFile, InCall
    <3>3. MoveStep(t)
      BY <3>1, FinishAccessLeaves, MoveIs DEF Leaves
    <3> QED BY <3>2, <3>3
  <2>3. CASE BlockBegin(t) \/ WriteByte(t) \/ BlockEnd(t) \/ ReadByte(t)
    <3>1. PICK c : Continue(t, c)
      BY <2>3 DEF BlockBegin, WriteByte, BlockEnd, ReadByte
    <3>2. prog[t] # <<>>
      BY <2>3, WritingFacts, ReadingFacts DEF BlockBegin, WriteByte, BlockEnd, ReadByte, At, WritePcs
    <3> QED BY <3>1, <3>2, MoveIs
  <2>4. CASE StartRead(t)
    <3>1. PICK s, v, c : FinishAccess(t, s, v) \/ Continue(t, c)
      BY <2>4 DEF StartRead
    <3>2. prog[t] # <<>>
      BY <2>4 DEF StartRead, Starts, Calls
    <3> QED BY <3>1, <3>2, FinishAccessLeaves, MoveIs DEF Leaves
  <2> QED BY <2>1, <2>2, <2>3, <2>4 DEF DataCall
<1>2. mode' = mode /\ rec' = rec
  BY DEF Step, BadDescriptor, OpenBadFlags, OpenLookup, OpenCreate, Fail,
         Link, Unlink, RenameBegin, RenameLink, RenameUnlink, RenameEnd, TruncateLookup, executeTruncateFS,
         BadOffset, StartWrite, WriteChecks, BlockBegin, WriteByte, BlockEnd, EndWrite, StartRead, ReadByte,
         EndRead, Lseek, Fsync, Sync, PersBarrier, Close
<1> QED BY <1>1, <1>2

-----------------------------------------------------------------------------
(* Sizes, and in ordered mode those on the disk.                           *)

\* Who reads a size, the newest or an older one, knows the bytes it covers.
Hands(s, i, n, K) == \A p \in Nat : p < n => Among(s, K, i, p)
Handed(s, i) == /\ Hands(s, i, s.inodes[i].isize, s.inodes[i].sk)
                /\ \A st \in s.inodes[i].sizes : Hands(s, i, st.size, st.sk)
AllHanded(s) == \A i \in 1 .. Len(s.inodes) : Handed(s, i)

SizeWrites(s) == {w \in DskWrites(s.disk) : s.disk[w].loc.field = "size"}

\* Each byte that a size covers is in data that persist before it, or was
\* covered by an earlier size.
Justified(s, w) ==
  \A p \in Nat : p < s.disk[w].val =>
    \E d \in DskWrites(s.disk) : d < w /\
      \/ s.disk[d].loc = Loc(s.disk[w].loc.inode, "data", p) /\ d \in s.disk[w].pb
      \/ s.disk[d].loc = s.disk[w].loc /\ p < s.disk[d].val
\* The size on the disk has been past p.
OnDisk(s, i, p) == \E w \in SizeWrites(s) : s.disk[w].loc = Loc(i, "size", 0) /\ p < s.disk[w].val

SizesOK(s) == /\ \A w \in SizeWrites(s) : Justified(s, w)
              /\ \A i \in 2 .. Len(s.inodes) : \A p \in Nat : p < s.inodes[i].isize => OnDisk(s, i, p)

DataOK(s) == AllHanded(s) /\ (Journal = "ordered" => SizesOK(s))

\* A writer knows what there was and what it has written, a reader what it is
\* about to read.
KnownData(t) ==
  LET c == ctl[t]
      i == File(t).inode
  IN /\ c.pc \in WritePcs =>
          /\ c.ord <= fs.inodes[i].isize
          /\ \A p \in Nat : p < fs.inodes[i].isize \/ p < c.at => Knows(fs, t, i, p)
     /\ c.pc = "read" => /\ \A p \in Nat : p < c.off + c.n => Knows(fs, t, i, p)
                         /\ \A k \in DOMAIN c.got : c.got[k] # 0

SInv == DataOK(fs) /\ \A t \in Threads : KnownData(t)

LEMMA HandsStays ==
  ASSUME NEW s, IsFs(s), NEW z, IsFs(z), NEW C, LogGrows(s, z, C), NEW i, NEW n, NEW K, Hands(s, i, n, K)
  PROVE  Hands(z, i, n, K)
<1> HIDE DEF Among
<1> QED BY AmongStays DEF Hands

LEMMA HandedStays ==
  ASSUME NEW s, IsFs(s), NEW z, IsFs(z), NEW C, LogGrows(s, z, C), NEW i, Handed(s, i),
         SameSize(z.inodes[i], s.inodes[i])
  PROVE  Handed(z, i)
<1> HIDE DEF Hands
<1> QED BY HandsStays DEF Handed, SameSize

LEMMA HandedSteady ==
  ASSUME NEW s, IsFs(s), AllHanded(s), NEW z, NEW C, Adds(s, z, C)
  PROVE  AllHanded(z)
<1>1. IsFs(z) /\ LogGrows(s, z, C) /\ SizesStay(s, z) /\ Len(s.inodes) \in Nat
  BY DEF Adds, IsFs
<1>2. ASSUME NEW i \in 1 .. Len(z.inodes) PROVE Handed(z, i)
  <2>1. CASE i <= Len(s.inodes)
    <3>1. Handed(s, i) /\ SameSize(z.inodes[i], s.inodes[i])
      BY <1>1, <2>1 DEF AllHanded, SizesStay
    <3> QED BY <1>1, <3>1, HandedStays
  <2>2. CASE ~(i <= Len(s.inodes))
    <3>1. IsEmpty(z.inodes[i]) /\ \A K : Hands(z, i, 0, K)
      BY <1>1, <2>2 DEF SizesStay, Hands
    <3> HIDE DEF Hands
    <3> QED BY <3>1 DEF IsEmpty, Handed
  <2> QED BY <2>1, <2>2
<1> QED BY <1>2 DEF AllHanded

\* Where a state and one that continues it agree.
LEMMA GrownDisk ==
  ASSUME NEW s, IsFs(s), NEW z, IsFs(z), NEW C, LogGrows(s, z, C)
  PROVE  /\ DskWrites(s.disk) \subseteq 1 .. Len(s.disk)
         /\ \A k \in 1 .. Len(s.disk) : z.disk[k] = s.disk[k]
         /\ \A k \in 1 .. Len(s.disk) : k \in DskWrites(z.disk) <=> k \in DskWrites(s.disk)
         /\ \A k \in DskWrites(z.disk) : k \in DskWrites(s.disk) \/ (Len(s.disk) < k /\ Class(z.disk[k].loc) \in C)
         /\ Len(s.disk) \in Nat /\ DskWrites(z.disk) \subseteq 1 .. Len(z.disk) /\ Len(z.disk) \in Nat
<1>1. /\ Len(s.disk) \in Nat /\ DOMAIN s.disk = 1 .. Len(s.disk)
      /\ Len(z.disk) \in Nat /\ DOMAIN z.disk = 1 .. Len(z.disk)
  BY DEF IsFs, IsSeq
<1> HIDE DEF Class
<1>2. /\ DskWrites(s.disk) = {k \in 1 .. Len(s.disk) : s.disk[k].kind \in WriteKinds}
      /\ DskWrites(z.disk) = {k \in 1 .. Len(z.disk) : z.disk[k].kind \in WriteKinds}
  BY <1>1 DEF DskWrites, WriteKinds
<1>3. \A k \in 1 .. Len(s.disk) : z.disk[k] = s.disk[k] /\ k \in 1 .. Len(z.disk)
  BY <1>1 DEF LogGrows
<1>4. \A k \in 1 .. Len(z.disk) : k \in 1 .. Len(s.disk) \/ Len(s.disk) < k
  BY <1>1
<1>5. \A k \in 1 .. Len(z.disk) : k <= Len(s.disk) \/ z.disk[k].kind \notin WriteKinds \/ Class(z.disk[k].loc) \in C
  BY DEF LogGrows
<1> QED BY <1>1, <1>2, <1>3, <1>4, <1>5

LEMMA JustifiedStays ==
  ASSUME NEW s, IsFs(s), NEW z, IsFs(z), NEW C, LogGrows(s, z, C), NEW w \in DskWrites(s.disk), Justified(s, w)
  PROVE  Justified(z, w)
<1>1. z.disk[w] = s.disk[w] /\ w \in 1 .. Len(s.disk)
  BY GrownDisk
<1>2. ASSUME NEW p \in Nat, p < z.disk[w].val
      PROVE  \E d \in DskWrites(z.disk) : d < w /\
               \/ z.disk[d].loc = Loc(z.disk[w].loc.inode, "data", p) /\ d \in z.disk[w].pb
               \/ z.disk[d].loc = z.disk[w].loc /\ p < z.disk[d].val
  <2>1. PICK d \in DskWrites(s.disk) : d < w /\
           \/ s.disk[d].loc = Loc(s.disk[w].loc.inode, "data", p) /\ d \in s.disk[w].pb
           \/ s.disk[d].loc = s.disk[w].loc /\ p < s.disk[d].val
    BY <1>1, <1>2 DEF Justified
  <2>2. d \in DskWrites(z.disk) /\ z.disk[d] = s.disk[d]
    BY GrownDisk
  <2> QED BY <1>1, <2>1, <2>2
<1> QED BY <1>2 DEF Justified

LEMMA OnDiskStays ==
  ASSUME NEW s, IsFs(s), NEW z, IsFs(z), NEW C, LogGrows(s, z, C), NEW i, NEW p, OnDisk(s, i, p)
  PROVE  OnDisk(z, i, p)
<1>1. PICK w \in SizeWrites(s) : s.disk[w].loc = Loc(i, "size", 0) /\ p < s.disk[w].val
  BY DEF OnDisk
<1>2. w \in DskWrites(z.disk) /\ z.disk[w] = s.disk[w]
  BY <1>1, GrownDisk DEF SizeWrites
<1> QED BY <1>1, <1>2 DEF OnDisk, SizeWrites

\* No size is written.
LEMMA SizesSteady ==
  ASSUME NEW s, IsFs(s), SizesOK(s), NEW z, NEW C, Adds(s, z, C), "size" \notin C
  PROVE  SizesOK(z)
<1>1. IsFs(z) /\ LogGrows(s, z, C) /\ SizesStay(s, z)
  BY DEF Adds
<1>2. ASSUME NEW w \in SizeWrites(z) PROVE Justified(z, w)
  <2>1. Class(z.disk[w].loc) = "size" /\ w \in DskWrites(z.disk)
    BY DEF SizeWrites, Class
  <2>2. w \in DskWrites(s.disk) /\ z.disk[w] = s.disk[w]
    BY <1>1, <2>1, GrownDisk
  <2>3. w \in SizeWrites(s)
    BY <2>2 DEF SizeWrites
  <2> QED BY <1>1, <2>2, <2>3, JustifiedStays DEF SizesOK
<1>3. ASSUME NEW i \in 2 .. Len(z.inodes), NEW p \in Nat, p < z.inodes[i].isize PROVE OnDisk(z, i, p)
  <2>1. Len(s.inodes) \in Nat /\ Len(z.inodes) \in Nat
    BY <1>1 DEF IsFs
  <2>2. i \in 1 .. Len(z.inodes) /\ i <= Len(s.inodes)
    BY <1>1, <1>3, <2>1 DEF SizesStay, IsEmpty
  <2>3. i \in 2 .. Len(s.inodes) /\ z.inodes[i].isize = s.inodes[i].isize
    BY <1>1, <2>1, <2>2 DEF SizesStay, SameSize
  <2>4. OnDisk(s, i, p)
    BY <1>3, <2>3 DEF SizesOK
  <2> QED BY <1>1, <2>4, OnDiskStays
<1> HIDE DEF Justified, OnDisk
<1> QED BY <1>2, <1>3 DEF SizesOK

LEMMA DataSteady ==
  ASSUME NEW s, IsFs(s), DataOK(s), NEW z, NEW C, Adds(s, z, C), "size" \notin C
  PROVE  DataOK(z)
BY HandedSteady, SizesSteady DEF DataOK

\* A size is written: its bytes are covered already, or known.
LEMMA DisksizeSizes ==
  ASSUME NEW s, IsFs(s), SizesOK(s), NEW t \in Threads, NEW i, NEW n, NEW from \in Int, NEW to \in Int,
         NEW z, z = updateInodeDisksizeFS(s, t, i, n, from, to), Journal = "ordered",
         \A p \in Nat : p < n => OnDisk(s, i, p) \/ (from <= p /\ p < to /\ Knows(s, t, i, p))
  PROVE  SizesOK(z) /\ \A p \in Nat : p < n => OnDisk(z, i, p)
<1>1. PICK ord, lab, x :
        /\ ord = [inode |-> i, from |-> from, to |-> to]
        /\ lab = DskMdWriteLabel(Loc(i, "size", 0), n, i, ord) /\ x = DskWrite(s, t, lab)
        /\ z = x \/ z = executeFsyncFS(x, t, i)
  BY DEF updateInodeDisksizeFS
<1>2. /\ IsLabel(lab) /\ lab.loc = Loc(i, "size", 0) /\ lab.val = n /\ lab.kind = "md"
      /\ lab.ord.inode = i /\ lab.ord.from = from /\ lab.ord.to = to
  BY <1>1 DEF IsLabel, DskMdWriteLabel, WriteKinds
<1>3. PICK pb : pb = calcDskMemAccessPbView(s.disk, s.known[t], lab) /\ x = Log(s, t, lab, pb)
  BY <1>1 DEF DskWrite
<1>4. PICK e, m : e = DskEvent(lab, s.known[t], pb) /\ m = Len(s.disk) + 1
  OBVIOUS
<1>5. e.pb = pb /\ e.loc = Loc(i, "size", 0) /\ e.val = n /\ e.kind = "md"
  BY <1>2, <1>4, DskEventLabel, DskEventViews
<1>6. /\ DiskStep(s, x) /\ Len(s.disk) \in Nat /\ Len(x.disk) = m
      /\ x.disk[m] = e /\ \A k \in 1 .. Len(s.disk) : x.disk[k] = s.disk[k]
  BY <1>3, <1>4, LogEvent
<1>7. IsFs(x) /\ x.inodes = s.inodes
  BY <1>6 DEF DiskStep
<1>8. LogGrows(s, x, {"size"})
  <2>1. Class(e.loc) = "size"
    BY <1>5 DEF Class, Loc
  <2> HIDE DEF Class
  <2>2. Adds(s, x, {"size"})
    BY <1>3, <1>4, <2>1, EventAdds
  <2> QED BY <2>2 DEF Adds
<1>9. m \in DskWrites(x.disk)
  <2>1. DOMAIN x.disk = 1 .. Len(x.disk)
    BY <1>7 DEF IsFs, IsSeq
  <2> QED BY <1>4, <1>5, <1>6, <2>1 DEF DskWrites
<1>10. Justified(x, m)
  <2> SUFFICES ASSUME NEW p \in Nat, p < n
               PROVE  \E d \in DskWrites(x.disk) : d < m /\
                        \/ x.disk[d].loc = Loc(i, "data", p) /\ d \in pb
                        \/ x.disk[d].loc = Loc(i, "size", 0) /\ p < x.disk[d].val
    <3>1. x.disk[m].loc.inode = i
      BY <1>5, <1>6 DEF Loc
    <3> QED BY <1>5, <1>6, <3>1 DEF Justified
  <2>1. CASE OnDisk(s, i, p)
    <3>1. PICK w \in SizeWrites(s) : s.disk[w].loc = Loc(i, "size", 0) /\ p < s.disk[w].val
      BY <2>1 DEF OnDisk
    <3>2. w \in DskWrites(x.disk) /\ x.disk[w] = s.disk[w] /\ w \in 1 .. Len(s.disk)
      BY <1>7, <1>8, <3>1, GrownDisk DEF SizeWrites
    <3>3. w < m /\ x.disk[w].loc = Loc(i, "size", 0) /\ p < x.disk[w].val
      BY <1>4, <1>6, <3>1, <3>2
    <3> QED BY <3>2, <3>3
  <2>2. CASE from <= p /\ p < to /\ Knows(s, t, i, p)
    <3>1. PICK d \in s.known[t] \cap DskWrites(s.disk) :
            s.disk[d].kind = "data" /\ s.disk[d].loc = Loc(i, "data", p)
      BY <2>2 DEF Knows, Among
    <3>2. s.disk[d].loc.inode = i /\ s.disk[d].loc.pos = p
      BY <3>1 DEF Loc
    <3>3. d \in pb
      <4>1. /\ d \in s.known[t] /\ s.disk[d].kind = "data" /\ lab.kind = "md"
            /\ s.disk[d].loc.inode = lab.ord.inode /\ s.disk[d].loc.pos \in lab.ord.from .. lab.ord.to - 1
        BY <1>2, <2>2, <3>1, <3>2
      <4> QED BY <1>3, <4>1 DEF calcDskMemAccessPbView, Joined
    <3>4. d \in DskWrites(x.disk) /\ x.disk[d] = s.disk[d] /\ d \in 1 .. Len(s.disk)
      BY <1>7, <1>8, <3>1, GrownDisk
    <3> QED BY <1>4, <1>6, <3>1, <3>3, <3>4
  <2> QED BY <2>1, <2>2
<1>11. SizesOK(x)
  <2>1. ASSUME NEW w \in SizeWrites(x) PROVE Justified(x, w)
    <3>1. w \in DskWrites(x.disk) /\ x.disk[w].loc.field = "size"
      BY DEF SizeWrites
    <3>2. CASE w \in DskWrites(s.disk)
      <4>1. x.disk[w] = s.disk[w]
        BY <1>7, <1>8, <3>2, GrownDisk
      <4>2. w \in SizeWrites(s)
        BY <3>1, <3>2, <4>1 DEF SizeWrites
      <4> QED BY <1>7, <1>8, <3>2, <4>2, JustifiedStays DEF SizesOK
    <3>3. CASE w \notin DskWrites(s.disk)
      <4> HIDE DEF Class
      <4>1. Len(s.disk) < w /\ w \in 1 .. Len(x.disk)
        BY <1>7, <1>8, <3>1, <3>3, GrownDisk
      <4>2. w = m
        BY <1>4, <1>6, <4>1
      <4> QED BY <1>10, <4>2
    <3> QED BY <3>2, <3>3
  <2>2. ASSUME NEW j \in 2 .. Len(x.inodes), NEW p \in Nat, p < x.inodes[j].isize PROVE OnDisk(x, j, p)
    BY <1>7, <1>8, <2>2, OnDiskStays DEF SizesOK
  <2> HIDE DEF Justified, OnDisk
  <2> QED BY <2>1, <2>2 DEF SizesOK
<1>12. \A p \in Nat : p < n => OnDisk(x, i, p)
  <2>1. m \in SizeWrites(x)
    BY <1>5, <1>6, <1>9 DEF SizeWrites, Loc
  <2> QED BY <1>5, <1>6, <2>1 DEF OnDisk
<1>13. CASE z = executeFsyncFS(x, t, i)
  <2>1. Adds(x, z, {})
    BY <1>7, <1>13, FsyncAdds
  <2>2. SizesOK(z)
    BY <1>7, <1>11, <2>1, SizesSteady
  <2>3. \A p \in Nat : p < n => OnDisk(z, i, p)
    BY <1>7, <1>12, <2>1, OnDiskStays DEF Adds
  <2> QED BY <2>2, <2>3
<1> QED BY <1>1, <1>11, <1>12, <1>13

\* The size grows to one that is on the disk.
LEMMA UpdateSizes ==
  ASSUME NEW s, IsFs(s), SizesOK(s), NEW i \in 1 .. Len(s.inodes), NEW n \in Nat,
         \A p \in Nat : p < n => OnDisk(s, i, p), NEW z, InodeStep(s, z, i), z.inodes[i].isize = n
  PROVE  SizesOK(z)
<1>1. z.disk = s.disk /\ Len(z.inodes) = Len(s.inodes)
  BY DEF InodeStep
<1>2. \A w \in SizeWrites(z) : Justified(z, w)
  BY <1>1 DEF SizesOK, SizeWrites, Justified
<1>3. ASSUME NEW j \in 2 .. Len(z.inodes), NEW p \in Nat, p < z.inodes[j].isize PROVE OnDisk(z, j, p)
  <2>1. j \in 1 .. Len(s.inodes) /\ j \in 2 .. Len(s.inodes)
    BY <1>1, InodeFields DEF IsFs
  <2>2. OnDisk(s, j, p)
    <3>1. CASE j = i
      BY <1>3, <3>1
    <3>2. CASE j # i
      BY <1>3, <2>1, <3>2 DEF InodeStep, SizesOK
    <3> QED BY <3>1, <3>2
  <2> QED BY <1>1, <2>2 DEF OnDisk, SizeWrites
<1> HIDE DEF Justified, OnDisk
<1> QED BY <1>2, <1>3 DEF SizesOK

\* Whoever stores the new size knows all that it covers.
LEMMA UpdateData ==
  ASSUME NEW s, IsFs(s), AllHanded(s), NEW t \in Threads, NEW i \in 1 .. Len(s.inodes), NEW n \in Nat,
         \A p \in Nat : p < n => Knows(s, t, i, p), NEW z, z = updateInodeSizeFS(s, t, i, n)
  PROVE  AllHanded(z)
<1>1. /\ InodeStep(s, z, i) /\ z.inodes[i].isize = n /\ z.inodes[i].sk = s.known[t]
      /\ z.inodes[i].sizes = s.inodes[i].sizes \cup {[size |-> n, at |-> Len(s.disk), sk |-> s.known[t]]}
  BY UpdateSizeFacts
<1>2. z.disk = s.disk /\ Len(z.inodes) = Len(s.inodes)
  BY <1>1 DEF InodeStep
<1>3. \A j, m, K : Hands(z, j, m, K) <=> Hands(s, j, m, K)
  BY <1>2 DEF Hands, Among
<1>4. Hands(s, i, n, s.known[t])
  BY DEF Hands, Knows
<1> HIDE DEF Hands
<1>5. ASSUME NEW j \in 1 .. Len(s.inodes) PROVE Handed(z, j)
  <2>1. Handed(s, j)
    BY DEF AllHanded
  <2>2. CASE j = i
    BY <1>1, <1>3, <1>4, <2>1, <2>2 DEF Handed
  <2>3. CASE j # i
    BY <1>1, <1>3, <2>1, <2>3 DEF Handed, InodeStep
  <2> QED BY <2>2, <2>3
<1> QED BY <1>2, <1>5 DEF AllHanded

\* The threads that do not go on know as much as before.
LEMMA KnownDataStays ==
  ASSUME IInv, IsFs(fs'), NEW C, LogGrows(fs, fs', C), FilesStay(fs, fs'),
         NEW u \in Threads, KnownData(u), ctl'[u] = ctl[u], prog'[u] = prog[u],
         ctl[u].pc \in WritePcs => fs'.inodes[File(u).inode].isize = fs.inodes[File(u).inode].isize
  PROVE  KnownData(u)'
<1>1. CASE ctl[u].pc \notin DataPcs
  BY <1>1 DEF KnownData, DataPcs
<1>2. CASE ctl[u].pc \in DataPcs
  <2>1. PICK i : i = File(u).inode
    OBVIOUS
  <2>2. Call(u).fd \in 1 .. Len(fs.files) /\ IsFs(fs)
    BY <1>2, WritingFacts, ReadingFacts DEF DataPcs
  <2>3. File(u)'.inode = i
    BY <2>1, <2>2 DEF File, Call, FilesStay
  <2>4. \A p : Knows(fs, u, i, p) => Knows(fs', u, i, p)
    BY <2>2, KnowsStays
  <2>5. ctl[u].pc \in WritePcs => fs'.inodes[i].isize = fs.inodes[i].isize
    BY <2>1
  <2> HIDE DEF Knows
  <2> QED BY <2>1, <2>3, <2>4, <2>5 DEF KnownData
<1> QED BY <1>1, <1>2

\* A step that takes care of the sizes on the disk and of its own data.
LEMMA SizesKept ==
  ASSUME IInv, SInv, NEW t \in Threads, Step(t), IsFs(fs'), NEW C, LogGrows(fs, fs', C), FilesStay(fs, fs'),
         \A u \in Threads : u # t /\ ctl[u].pc \in WritePcs =>
           fs'.inodes[File(u).inode].isize = fs.inodes[File(u).inode].isize,
         DataOK(fs'), KnownData(t)'
  PROVE  SInv'
<1>1. MoveStep(t) /\ mode' = mode /\ prog[t] # <<>>
  BY StepMoves
<1>2. SUFFICES ASSUME NEW u \in Threads, u # t PROVE KnownData(u)'
  BY <1>1 DEF SInv, DataOK, Journal
<1>3. ctl'[u] = ctl[u] /\ prog'[u] = prog[u]
  BY <1>1, <1>2, MoveFacts
<1>4. KnownData(u)
  BY <1>2 DEF SInv
<1>5. ctl[u].pc \in WritePcs => fs'.inodes[File(u).inode].isize = fs.inodes[File(u).inode].isize
  BY <1>2
<1> HIDE DEF KnownData
<1> QED BY <1>3, <1>4, <1>5, KnownDataStays

\* Writers hold the locks of different inodes, which are in the list.
LEMMA WriterInode ==
  ASSUME IInv, NEW u \in Threads, ctl[u].pc \in WritePcs
  PROVE  File(u).inode \in 1 .. Len(fs.inodes) /\ fs.inodes[File(u).inode].lock = u /\ u # Nobody
BY WritingFacts

LEMMA SizesStaySame ==
  ASSUME IInv, SizesStay(fs, fs'), NEW u \in Threads, ctl[u].pc \in WritePcs
  PROVE  fs'.inodes[File(u).inode].isize = fs.inodes[File(u).inode].isize
BY WriterInode DEF SizesStay, SameSize

\* A step without writes of sizes.
LEMMA SteadySizes ==
  ASSUME IInv, SInv, NEW t \in Threads, Step(t), NEW C, Adds(fs, fs', C), "size" \notin C,
         KnownData(t)'
  PROVE  SInv'
<1>1. IsFs(fs) /\ IsFs(fs') /\ LogGrows(fs, fs', C) /\ FilesStay(fs, fs') /\ SizesStay(fs, fs')
  BY InvFs DEF Adds
<1>2. DataOK(fs')
  BY <1>1, DataSteady DEF SInv
<1> HIDE DEF KnownData
<1> QED BY <1>1, <1>2, SizesStaySame, SizesKept

LEMMA LeavesKnown ==
  ASSUME IInv, IsFs(fs'), NEW C, LogGrows(fs, fs', C), FilesStay(fs, fs'), SizesStay(fs, fs'),
         NEW t \in Threads, Leaves(t), KnownData(t)
  PROVE  KnownData(t)'
<1>1. CASE UNCHANGED <<prog, ctl>>
  <2>1. ctl'[t] = ctl[t] /\ prog'[t] = prog[t]
    BY <1>1
  <2> HIDE DEF KnownData
  <2> QED BY <2>1, SizesStaySame, KnownDataStays
<1>2. CASE ctl'[t].pc \notin DataPcs
  BY <1>2 DEF KnownData, DataPcs
<1> QED BY <1>1, <1>2 DEF Leaves

LEMMA OtherSizes ==
  ASSUME IInv, IInv', SInv, NEW t \in Threads, Step(t), ~SizeCall(t), Leaves(t)
  PROVE  SInv'
<1>1. Adds(fs, fs', {"dir", "other"})
  BY StepAdds
<1>2. IsFs(fs) /\ IsFs(fs') /\ LogGrows(fs, fs', {"dir", "other"}) /\ FilesStay(fs, fs') /\ SizesStay(fs, fs')
  BY <1>1, InvFs DEF Adds
<1>3. KnownData(t)'
  BY <1>2, LeavesKnown DEF SInv
<1> HIDE DEF KnownData
<1> QED BY <1>1, <1>3, SteadySizes

\* The size, the newest or not, hands the bytes in its range on to the reader.
LEMMA StartReadSizes ==
  ASSUME IInv, IInv', SInv, NEW t \in Threads, Step(t), ~SizeCall(t), StartRead(t)
  PROVE  SInv'
<1>1. PICK i, z : i = File(t).inode /\ z = LockFile(fs, t)
  OBVIOUS
<1>2. CASE \E s, v : FinishAccess(t, s, v)
  BY <1>2, FinishAccessLeaves, OtherSizes
<1>3. ASSUME NEW st \in CoherentSizes(z, t, i), NEW c, fs' = ReadSize(z, t, st), Continue(t, c),
             c.pc = "read", c.off + c.n <= st.size, c.off + c.n \in Int, c.got = <<>>
      PROVE  SInv'
  <2>1. HasFile(Call(t).fd) /\ IsFs(fs)
    BY InvFs DEF StartRead, FreeFd
  <2>2. /\ Adds(fs, z, {}) /\ FilesStep(fs, z) /\ Adds(fs, fs', {}) /\ i \in 1 .. Len(fs.inodes)
        /\ Call(t).fd \in 1 .. Len(fs.files)
    BY <1>1, <1>3, <2>1, DescriptorAdds, FdFacts, LockFileFacts
  <2>3. IsFs(z) /\ z.inodes = fs.inodes
    BY <2>2 DEF FilesStep
  <2>4. st \in fs.inodes[i].sizes /\ st.size \in Nat /\ st.sk \in SUBSET Nat
    BY <2>2, <2>3, CoherentSizesAre
  <2>5. Hands(fs, i, st.size, st.sk)
    BY <2>2, <2>4 DEF SInv, DataOK, AllHanded, Handed
  <2>6. st.sk \subseteq fs'.known[t]
    <3>1. fs'.known = [z.known EXCEPT ![t] = @ \cup st.sk] /\ z.known \in [Threads -> SUBSET Nat]
      BY <1>3, <2>3 DEF ReadSize, IsFs
    <3> QED BY <3>1
  <2>7. IsFs(fs') /\ LogGrows(fs, fs', {}) /\ FilesStay(fs, fs')
    BY <2>2 DEF Adds
  <2>8. ASSUME NEW p \in Nat, p < c.off + c.n PROVE Knows(fs', t, i, p)
    <3>1. Among(fs, st.sk, i, p)
      BY <1>3, <2>4, <2>5, <2>8 DEF Hands
    <3> QED BY <2>1, <2>6, <2>7, <3>1, AmongStays DEF Knows
  <2>9. ctl'[t] = c /\ File(t)'.inode = i
    BY <1>1, <1>3, <2>2, <2>7, ContinueFacts DEF FilesStay, File, Call
  <2> HIDE DEF Knows
  <2>10. KnownData(t)'
    BY <1>3, <2>8, <2>9 DEF KnownData, WritePcs
  <2> HIDE DEF KnownData
  <2> QED BY <2>2, <2>10, SteadySizes
<1>4. ASSUME ~\E s, v : FinishAccess(t, s, v)
      PROVE  \E st \in CoherentSizes(z, t, i) : \E c :
               /\ fs' = ReadSize(z, t, st) /\ Continue(t, c) /\ c.pc = "read"
               /\ c.off + c.n <= st.size /\ c.off + c.n \in Int /\ c.got = <<>>
  <2>1. PICK st, off, left, n, c :
          /\ st \in CoherentSizes(z, t, i)
          /\ fs' = ReadSize(z, t, st) /\ Continue(t, c) /\ off = StartOffset(t) /\ left = st.size - off
          /\ n = (IF left >= Call(t).n THEN Call(t).n ELSE left)
          /\ c = [pc |-> "read", off |-> off, got |-> <<>>, ret |-> 0, n |-> n]
    BY <1>1, <1>4 DEF StartRead
  <2>2. ctl'[t] = c
    BY <2>1, ContinueFacts
  <2>3. /\ HasFile(Call(t).fd) /\ IsFs(fs) /\ prog[t] # <<>> /\ Call(t).op \in {"read", "pread"}
        /\ Call(t) \in CallTypes
    BY StartsFacts DEF StartRead, FreeFd
  <2>4. off \in Int /\ Call(t).n \in Nat
    BY <2>1, <2>3, FdFacts, CallFields DEF StartOffset, Positioned
  <2>5. st.size \in Nat
    BY <1>1, <2>1, <2>3, LockFileQuiet
  <2>6. off + n <= st.size /\ off + n \in Int
    BY <2>1, <2>4, <2>5
  <2> QED BY <2>1, <2>6
<1> QED BY <1>2, <1>3, <1>4

\* So it cannot find the byte before the first of its stores.
LEMMA ReadByteSizes ==
  ASSUME IInv, SInv, NEW t \in Threads, Step(t), ReadByte(t)
  PROVE  SInv'
<1>1. PICK i, c, p, w :
        /\ i = File(t).inode /\ c = ctl[t] /\ p = c.off + Len(c.got) /\ c.pc = "read" /\ Len(c.got) < c.n
        /\ w \in CoherentStores(fs, t, Loc(i, "data", p)) /\ Continue(t, [c EXCEPT !.got = Append(@, w)])
  BY DEF ReadByte, At
<1>2. /\ c \in [pc : {"read"}, off : Nat, got : Seq(Nat), ret : Int, n : Nat]
      /\ Call(t).fd \in 1 .. Len(fs.files) /\ IsFs(fs)
  BY <1>1, ReadingFacts DEF Reading
<1>3. /\ \A q \in Nat : q < c.off + c.n => Knows(fs, t, i, q)
      /\ \A k \in DOMAIN c.got : c.got[k] # 0
  BY <1>1 DEF SInv, KnownData
<1>4. Knows(fs, t, i, p)
  BY <1>1, <1>2, <1>3
<1>5. w # 0
  <2>1. PICK d \in fs.known[t] \cap DskWrites(fs.disk) : fs.disk[d].loc = Loc(i, "data", p)
    BY <1>4 DEF Knows, Among
  <2>2. d \in StoresTo(fs, Loc(i, "data", p)) \cap fs.known[t] /\ 0 < d
    BY <1>2, <2>1 DEF StoresTo, DskWrites, IsFs, IsSeq
  <2> QED BY <1>1, <2>2 DEF CoherentStores
<1>6. w \in Nat
  <2>1. w \in 0 .. Len(fs.disk)
    BY <1>1, <1>2, StoresAre
  <2> QED BY <1>2, <2>1 DEF IsFs, IsSeq
<1>7. PICK d : d = [c EXCEPT !.got = Append(@, w)] /\ ctl'[t] = d /\ prog' = prog
  BY <1>1, ContinueFacts
<1>8. d.pc = "read" /\ d.off = c.off /\ d.n = c.n /\ \A k \in DOMAIN d.got : d.got[k] # 0
  <2>1. d.pc = "read" /\ d.off = c.off /\ d.n = c.n /\ d.got = Append(c.got, w)
    BY <1>2, <1>7
  <2> QED BY <1>2, <1>3, <1>5, <1>6, <2>1
<1>9. Adds(fs, fs', {})
  BY ReadsAdd
<1>10. IsFs(fs') /\ LogGrows(fs, fs', {}) /\ FilesStay(fs, fs')
  BY <1>9 DEF Adds
<1>11. File(t)'.inode = i
  BY <1>1, <1>2, <1>7, <1>10 DEF FilesStay, File, Call
<1>12. \A q \in Nat : q < c.off + c.n => Knows(fs', t, i, q)
  BY <1>2, <1>3, <1>10, KnowsStays
<1> HIDE DEF Knows
<1>13. KnownData(t)'
  BY <1>7, <1>8, <1>11, <1>12 DEF KnownData, WritePcs
<1> HIDE DEF KnownData
<1> QED BY <1>9, <1>13, SteadySizes

\* The beginning of a block, and its bytes.
LEMMA ByteSizes ==
  ASSUME IInv, SInv, NEW t \in Threads, Step(t), BlockBegin(t) \/ WriteByte(t)
  PROVE  SInv'
<1>1. PICK i, c : i = File(t).inode /\ c = ctl[t]
  OBVIOUS
<1>2. /\ Writing(t) /\ Call(t).fd \in 1 .. Len(fs.files) /\ IsFs(fs) /\ i \in 1 .. Len(fs.inodes)
      /\ c.pc \in WritePcs
  BY <1>1, WritingFacts DEF BlockBegin, WriteByte, At, WritePcs
<1>3. Adds(fs, fs', {"other"}) /\ (WriteByte(t) => Knows(fs', t, i, c.at))
  BY <1>1, BlockBeginAdds, WriteByteAdds
<1>4. /\ IsFs(fs') /\ LogGrows(fs, fs', {"other"}) /\ FilesStay(fs, fs')
      /\ fs'.inodes[i].isize = fs.inodes[i].isize
  BY <1>2, <1>3 DEF Adds, SizesStay, SameSize
<1>5. PICK d : /\ Continue(t, d) /\ \/ BlockBegin(t) /\ \E n : d = [c EXCEPT !.pc = "bytes", !.upto = n]
                                    \/ WriteByte(t) /\ d = [c EXCEPT !.at = @ + 1]
  BY <1>1 DEF BlockBegin, WriteByte
<1>6. c \in [pc : WritePcs, off : Int, at : Int, end : Int, ord : Int, upto : Int, ret : Int]
  BY <1>1, <1>2 DEF Writing
<1>7. d.pc # "read" /\ d.ord = c.ord /\ (d.at = c.at \/ (WriteByte(t) /\ d.at = c.at + 1))
  BY <1>5, <1>6 DEF WritePcs
<1>8. prog' = prog /\ ctl'[t] = d /\ File(t)'.inode = i
  <2>1. prog' = prog /\ ctl'[t] = d
    BY <1>5, ContinueFacts
  <2> QED BY <1>1, <1>2, <1>4, <2>1 DEF File, Call, FilesStay
<1>9. KnownData(t)'
  <2>1. /\ c.ord <= fs.inodes[i].isize
        /\ \A p \in Nat : p < fs.inodes[i].isize \/ p < c.at => Knows(fs, t, i, p)
    BY <1>1, <1>2 DEF SInv, KnownData
  <2>2. ASSUME NEW p \in Nat, p < fs.inodes[i].isize \/ p < d.at PROVE Knows(fs', t, i, p)
    <3>1. CASE p < fs.inodes[i].isize \/ p < c.at
      <4>1. Knows(fs, t, i, p)
        BY <2>1, <2>2, <3>1
      <4> QED BY <1>2, <1>4, <4>1, KnowsStays
    <3>2. CASE ~(p < fs.inodes[i].isize \/ p < c.at)
      <4>1. p = c.at /\ WriteByte(t)
        BY <1>6, <1>7, <2>2, <3>2
      <4> QED BY <1>3, <4>1
    <3> QED BY <3>1, <3>2
  <2> QED BY <1>4, <1>7, <1>8, <2>1, <2>2 DEF KnownData
<1> HIDE DEF KnownData
<1> QED BY <1>3, <1>9, SteadySizes

-----------------------------------------------------------------------------
(* The calls that change a size.                                           *)

\* The file grows or shrinks, in steps; the others and the directory stay.
FileGrows(s, z, i) ==
  /\ IsFs(z) /\ LogGrows(s, z, {"size", "other"}) /\ FilesStay(s, z) /\ DirStays(s, z)
  /\ Len(z.inodes) = Len(s.inodes)
  /\ \A j \in 1 .. Len(s.inodes) : j # i => SameSize(z.inodes[j], s.inodes[j])

LEMMA FileGrowsTrans ==
  ASSUME NEW s, IsFs(s), NEW x, NEW z, NEW i, FileGrows(s, x, i), FileGrows(x, z, i)
  PROVE  FileGrows(s, z, i)
<1>1. IsFs(x) /\ IsFs(z) /\ Len(z.inodes) = Len(s.inodes) /\ Len(x.inodes) = Len(s.inodes)
  BY DEF FileGrows
<1>2. LogGrows(s, z, {"size", "other"}) /\ FilesStay(s, z)
  BY <1>1, LogGrowsTrans, FilesStayTrans DEF FileGrows
<1>3. DirStays(s, z)
  BY DEF FileGrows, DirStays
<1>4. \A j \in 1 .. Len(s.inodes) : j # i => SameSize(z.inodes[j], s.inodes[j])
  BY <1>1 DEF FileGrows, SameSize
<1> QED BY <1>1, <1>2, <1>3, <1>4 DEF FileGrows

LEMMA AddsGrows ==
  ASSUME NEW s, NEW z, NEW C, Adds(s, z, C), C \subseteq {"size", "other"}, Len(z.inodes) = Len(s.inodes), NEW i
  PROVE  FileGrows(s, z, i)
<1>1. LogGrows(s, z, {"size", "other"}) /\ "dir" \notin C
  BY LogGrowsMore DEF Adds
<1> QED BY <1>1 DEF Adds, FileGrows, SizesStay

LEMMA UpdateGrows ==
  ASSUME NEW s, IsFs(s), NEW t \in Threads, NEW i \in 2 .. Len(s.inodes), NEW n \in Nat,
         NEW z, z = updateInodeSizeFS(s, t, i, n)
  PROVE  /\ FileGrows(s, z, i) /\ InodeStep(s, z, i) /\ z.inodes[i].isize = n
         /\ z.inodes[i].lock = s.inodes[i].lock
<1>1. i \in 1 .. Len(s.inodes) /\ i # Dir /\ Dir \in 1 .. Len(s.inodes)
  BY DEF Dir, IsFs
<1>2. InodeStep(s, z, i) /\ z.inodes[i].isize = n /\ z.inodes[i].lock = s.inodes[i].lock /\ z.known = s.known
  BY <1>1, UpdateSizeFacts
<1>3. z.disk = s.disk /\ z.files = s.files
  BY <1>2 DEF InodeStep
<1>4. /\ Len(s.disk) \in Nat /\ Len(s.files) \in Nat
  BY DEF IsFs, IsSeq
<1>5. LogGrows(s, z, {"size", "other"}) /\ FilesStay(s, z)
  BY <1>2, <1>3, <1>4 DEF LogGrows, FilesStay
<1>6. DirStays(s, z)
  BY <1>1, <1>2 DEF InodeStep, DirStays
<1> QED BY <1>2, <1>5, <1>6 DEF FileGrows, InodeStep, SameSize

\* The size is written to the disk, and then changed.
LEMMA SetSizeGrows ==
  ASSUME NEW s, IsFs(s), NEW t \in Threads, NEW i \in 2 .. Len(s.inodes), NEW n \in Nat, NEW from, NEW to,
         NEW d, d = updateInodeDisksizeFS(s, t, i, n, from, to), NEW z, z = updateInodeSizeFS(d, t, i, n)
  PROVE  /\ FileGrows(s, z, i) /\ z.inodes[i].isize = n
         /\ IsFs(d) /\ d.inodes = s.inodes /\ InodeStep(d, z, i)
<1>1. i \in Nat /\ i \in 1 .. Len(s.inodes)
  BY DEF IsFs
<1>2. DiskStep(s, d) /\ Adds(s, d, {"size"})
  BY <1>1, SetDisksize, DisksizeAdds
<1>3. IsFs(d) /\ d.inodes = s.inodes
  BY <1>2 DEF DiskStep
<1>4. FileGrows(s, d, i)
  BY <1>2, <1>3, AddsGrows
<1>5. FileGrows(d, z, i) /\ InodeStep(d, z, i) /\ z.inodes[i].isize = n
  BY <1>3, UpdateGrows
<1> QED BY <1>3, <1>4, <1>5, FileGrowsTrans

LEMMA SetSizeSizes ==
  ASSUME NEW s, IsFs(s), DataOK(s), NEW t \in Threads, NEW i \in 2 .. Len(s.inodes), NEW n \in Nat,
         NEW from \in Int, NEW to \in Int,
         \A p \in Nat : p < n => Knows(s, t, i, p) /\ (p < s.inodes[i].isize \/ (from <= p /\ p < to)),
         NEW d, d = updateInodeDisksizeFS(s, t, i, n, from, to), NEW z, z = updateInodeSizeFS(d, t, i, n)
  PROVE  DataOK(z)
<1>1. IsFs(d) /\ d.inodes = s.inodes /\ InodeStep(d, z, i) /\ z.inodes[i].isize = n
  BY SetSizeGrows
<1>2. i \in 1 .. Len(d.inodes)
  BY <1>1 DEF IsFs
<1>3. Adds(s, d, {"size"})
  BY DisksizeAdds
<1> HIDE DEF OnDisk, Knows
<1>4. AllHanded(z)
  <2>1. AllHanded(d) /\ \A p \in Nat : p < n => Knows(d, t, i, p)
    BY <1>1, <1>3, HandedSteady, KnowsStays DEF Adds, DataOK
  <2> QED BY <1>1, <1>2, <2>1, UpdateData
<1>5. ASSUME Journal = "ordered" PROVE SizesOK(z)
  <2>1. SizesOK(s)
    BY <1>5 DEF DataOK
  <2>2. \A p \in Nat : p < n => OnDisk(s, i, p) \/ (from <= p /\ p < to /\ Knows(s, t, i, p))
    BY <2>1 DEF SizesOK
  <2>3. SizesOK(d) /\ \A p \in Nat : p < n => OnDisk(d, i, p)
    BY <1>5, <2>1, <2>2, DisksizeSizes
  <2> QED BY <1>1, <1>2, <2>3, UpdateSizes
<1> QED BY <1>4, <1>5 DEF DataOK

\* The inode is locked, and its size is read: with it comes what it covers.
LEMMA LockedGrows ==
  ASSUME IInv, NEW t \in Threads, NEW i \in 2 .. Len(fs.inodes), NEW l,
         l = readInodeSizeFS(LockInode(fs, t, i), t, i)
  PROVE  /\ FileGrows(fs, l, i) /\ l.inodes[i].isize = fs.inodes[i].isize
         /\ DataOK(fs) => DataOK(l) /\ \A p \in Nat : p < fs.inodes[i].isize => Knows(l, t, i, p)
<1>1. IsFs(fs) /\ i \in 1 .. Len(fs.inodes) /\ i # Dir
  BY InvFs DEF Dir, IsFs
<1>2. PICK k : k = LockInode(fs, t, i)
  OBVIOUS
<1>3. /\ InodeStep(fs, k, i) /\ Adds(fs, k, {}) /\ IsFs(k) /\ Len(k.inodes) = Len(fs.inodes)
      /\ k.inodes[i].sk = fs.inodes[i].sk
  BY <1>1, <1>2, LockInodeFacts, LockAdds DEF InodeStep
<1>4. Adds(k, l, {})
  BY <1>1, <1>2, <1>3, ReadSizeAdds
<1>5. Adds(fs, l, {}) /\ l.inodes[i].isize = fs.inodes[i].isize
  BY <1>1, <1>3, <1>4, AddsBoth, FileLockedFacts
<1>6. Len(l.inodes) = Len(fs.inodes) /\ fs.inodes[i].sk \subseteq l.known[t]
  <2>1. PICK K : K = fs.inodes[i].sk
    OBVIOUS
  <2>2. l = [k EXCEPT !.known[t] = @ \cup K] /\ k.known \in [Threads -> SUBSET Nat]
    BY <1>2, <1>3, <2>1 DEF readInodeSizeFS, ReadSize, IsFs
  <2> QED BY <1>3, <2>1, <2>2 DEF IsFs
<1>7. FileGrows(fs, l, i)
  BY <1>5, <1>6, AddsGrows
<1>8. ASSUME DataOK(fs), NEW p \in Nat, p < fs.inodes[i].isize PROVE Knows(l, t, i, p)
  <2>1. Among(fs, fs.inodes[i].sk, i, p)
    BY <1>1, <1>8 DEF DataOK, AllHanded, Handed, Hands
  <2> QED BY <1>1, <1>5, <1>6, <2>1, AmongStays DEF Adds, Knows
<1> HIDE DEF Knows
<1> QED BY <1>1, <1>5, <1>7, <1>8, DataSteady

LEMMA UnlockGrows ==
  ASSUME NEW s, IsFs(s), NEW t \in Threads, NEW i \in 2 .. Len(s.inodes), NEW z, z = UnlockInode(s, t, i)
  PROVE  FileGrows(s, z, i) /\ (DataOK(s) => DataOK(z))
<1>1. i \in 1 .. Len(s.inodes) /\ i # Dir
  BY DEF Dir, IsFs
<1>2. Adds(s, z, {}) /\ InodeStep(s, z, i)
  BY <1>1, UnlockAdds, UnlockInodeFacts
<1> QED BY <1>2, AddsGrows, DataSteady DEF InodeStep

LEMMA FsyncGrows ==
  ASSUME NEW s, IsFs(s), NEW t \in Threads, NEW i \in Nat, NEW z, z = executeFsyncFS(s, t, i), NEW j
  PROVE  FileGrows(s, z, j) /\ z.inodes = s.inodes /\ (DataOK(s) => DataOK(z))
<1>1. Adds(s, z, {}) /\ DiskStep(s, z)
  BY FsyncAdds, FsyncKeeps
<1> QED BY <1>1, AddsGrows, DataSteady DEF DiskStep

LEMMA ZeroGrows ==
  ASSUME NEW s, IsFs(s), NEW t \in Threads, NEW i \in 2 .. Len(s.inodes), NEW from \in Int, NEW to \in Int,
         NEW z, z = zeroDskRangeFS(s, t, i, from, to)
  PROVE  /\ FileGrows(s, z, i) /\ z.inodes = s.inodes /\ (DataOK(s) => DataOK(z))
         /\ \A p \in Int : from <= p /\ p < to => Knows(z, t, i, p)
<1>1. i \in 1 .. Len(s.inodes) /\ i # Dir /\ i \in Nat
  BY DEF Dir, IsFs
<1>2. Adds(s, z, {"other"}) /\ DiskStep(s, z)
  BY <1>1, ZeroAdds, ZeroFacts DEF Zeroed
<1>3. \A p \in Int : from <= p /\ p < to => Knows(z, t, i, p)
  BY <1>1, ZeroAdds
<1>4. FileGrows(s, z, i) /\ z.inodes = s.inodes
  BY <1>2, AddsGrows DEF DiskStep
<1>5. DataOK(s) => DataOK(z)
  BY <1>2, DataSteady
<1> QED BY <1>3, <1>4, <1>5

\* A step of a call that holds, or gets, the lock of the file.
LEMMA FileSizes ==
  ASSUME IInv, SInv, NEW t \in Threads, Step(t), NEW i, FileGrows(fs, fs', i),
         fs.inodes[i].lock \in {t, Nobody}, DataOK(fs'), KnownData(t)'
  PROVE  SInv'
<1>1. IsFs(fs') /\ LogGrows(fs, fs', {"size", "other"}) /\ FilesStay(fs, fs')
  BY DEF FileGrows
<1>2. ASSUME NEW u \in Threads, u # t, ctl[u].pc \in WritePcs
      PROVE  fs'.inodes[File(u).inode].isize = fs.inodes[File(u).inode].isize
  <2>1. /\ File(u).inode \in 1 .. Len(fs.inodes) /\ fs.inodes[File(u).inode].lock = u /\ u # Nobody
    BY <1>2, WriterInode
  <2>2. File(u).inode # i
    BY <1>2, <2>1
  <2> QED BY <2>1, <2>2 DEF FileGrows, SameSize
<1> HIDE DEF KnownData
<1> QED BY <1>1, <1>2, SizesKept

LEMMA TruncateSizes ==
  ASSUME IInv, NEW t \in Threads, executeTruncateFS(t)
  PROVE  (\E i : FileGrows(fs, fs', i)) /\ (SInv => SInv')
<1>1. PICK i, n, old : i = ctl[t].inode /\ n = ctl[t].len /\ old = fs.inodes[i].isize
  OBVIOUS
<1>2. PICK l, z, from, to, d, u, f :
        /\ l = readInodeSizeFS(LockInode(fs, t, i), t, i)
        /\ z = IF n > old THEN zeroDskRangeFS(l, t, i, old, n) ELSE l
        /\ from = (IF n > old THEN old ELSE 0) /\ to = IF n > old THEN n ELSE 0
        /\ d = updateInodeDisksizeFS(z, t, i, n, from, to) /\ u = updateInodeSizeFS(d, t, i, n)
        /\ f = IF Journal \in {"ordered", "journal"} THEN executeFsyncFS(u, t, i) ELSE u
  OBVIOUS
<1>3. /\ ctl[t].pc = "truncate"
      /\ \/ Return(t, -1) /\ UNCHANGED fs
         \/ InodeFree(i) /\ fs' = UnlockInode(l, t, i)
         \/ n >= 0 /\ InodeFree(i) /\ fs' = UnlockInode(f, t, i)
  BY <1>2, <1>1 DEF executeTruncateFS, At
<1>4. /\ Truncating(t) /\ n \in Int /\ i \in 2 .. Len(fs.inodes)
  BY <1>3, <1>1, PcCases DEF IInv, Truncating
<1>5. IsFs(fs) /\ i \in 1 .. Len(fs.inodes) /\ i \in Nat /\ fs.inodes[i].isize \in Nat
  <2>1. IsFs(fs) /\ i \in 1 .. Len(fs.inodes) /\ i \in Nat
    BY <1>4, InvFs DEF IsFs
  <2> QED BY <2>1, InodeFields
<1>6. /\ FileGrows(fs, l, i) /\ l.inodes[i].isize = old
      /\ DataOK(fs) => DataOK(l) /\ \A p \in Nat : p < old => Knows(l, t, i, p)
  BY <1>2, <1>4, <1>1, LockedGrows
<1>7. IsFs(l) /\ Len(l.inodes) = Len(fs.inodes)
  BY <1>6 DEF FileGrows
<1>8. UNCHANGED fs \/ (InodeFree(i) /\ FileGrows(fs, fs', i) /\ (DataOK(fs) => DataOK(fs')))
  <2>1. CASE InodeFree(i) /\ fs' = UnlockInode(l, t, i)
    <3>1. FileGrows(l, fs', i) /\ (DataOK(l) => DataOK(fs'))
      BY <1>4, <1>7, <2>1, UnlockGrows
    <3> QED BY <1>5, <1>6, <2>1, <3>1, FileGrowsTrans
  <2>2. CASE n >= 0 /\ InodeFree(i) /\ fs' = UnlockInode(f, t, i)
    <3>1. n \in Nat /\ old \in Nat /\ from \in Int /\ to \in Int
      <4>1. n \in Nat /\ old \in Nat
        BY <1>4, <1>5, <1>1, <2>2
      <4>2. (from = old /\ to = n) \/ (from = 0 /\ to = 0)
        <5>1. CASE n > old
          BY <1>2, <5>1
        <5>2. CASE ~(n > old)
          BY <1>2, <5>2
        <5> QED BY <5>1, <5>2
      <4> QED BY <4>1, <4>2
    <3>2. /\ FileGrows(l, z, i) /\ z.inodes = l.inodes /\ (DataOK(l) => DataOK(z))
          /\ DataOK(fs) => \A p \in Nat : p < n => Knows(z, t, i, p) /\ (p < old \/ (from <= p /\ p < to))
      <4>1. CASE n > old
        <5>1. z = zeroDskRangeFS(l, t, i, old, n) /\ from = old /\ to = n
          BY <1>2, <4>1
        <5>2. \A p \in Int : old <= p /\ p < n => Knows(z, t, i, p)
          BY <1>4, <1>7, <3>1, <5>1, ZeroGrows
        <5>3. /\ FileGrows(l, z, i) /\ z.inodes = l.inodes /\ (DataOK(l) => DataOK(z))
          BY <1>4, <1>7, <3>1, <5>1, ZeroGrows
        <5>4. \A p : Knows(l, t, i, p) => Knows(z, t, i, p)
          BY <1>7, <5>3, KnowsStays DEF FileGrows
        <5> HIDE DEF Knows
        <5> QED BY <1>6, <3>1, <5>1, <5>2, <5>3, <5>4
      <4>2. CASE ~(n > old)
        <5>1. z = l
          BY <1>2, <4>2
        <5>2. FileGrows(l, l, i)
          BY <1>7, AddsSelf, AddsGrows
        <5> QED BY <1>6, <3>1, <4>2, <5>1, <5>2
      <4> QED BY <4>1, <4>2
    <3>3. IsFs(z) /\ Len(z.inodes) = Len(fs.inodes) /\ z.inodes[i].isize = old
      BY <1>6, <1>7, <3>2 DEF FileGrows
    <3>4. FileGrows(z, u, i)
      BY <1>2, <1>4, <3>1, <3>3, SetSizeGrows
    <3>5. DataOK(fs) /\ DataOK(z) => DataOK(u)
      BY <1>2, <1>4, <3>1, <3>2, <3>3, SetSizeSizes
    <3>6. IsFs(u) /\ Len(u.inodes) = Len(fs.inodes)
      BY <3>3, <3>4 DEF FileGrows
    <3>7. FileGrows(u, f, i) /\ (DataOK(u) => DataOK(f))
      <4>1. CASE f = u
        BY <3>6, <4>1, AddsSelf, AddsGrows
      <4>2. CASE f = executeFsyncFS(u, t, i)
        BY <1>5, <3>6, <4>2, FsyncGrows
      <4> QED BY <1>2, <4>1, <4>2
    <3>8. IsFs(f) /\ Len(f.inodes) = Len(fs.inodes)
      BY <3>6, <3>7 DEF FileGrows
    <3>9. FileGrows(f, fs', i) /\ (DataOK(f) => DataOK(fs'))
      BY <1>4, <2>2, <3>8, UnlockGrows
    <3>10. FileGrows(fs, z, i) /\ FileGrows(z, f, i)
      BY <1>5, <1>6, <3>2, <3>3, <3>4, <3>7, FileGrowsTrans
    <3>11. FileGrows(fs, fs', i)
      BY <1>5, <3>3, <3>9, <3>10, FileGrowsTrans
    <3> QED BY <1>6, <2>2, <3>2, <3>5, <3>7, <3>9, <3>11
  <2>3. CASE Return(t, -1) /\ UNCHANGED fs
    BY <2>3
  <2> QED BY <1>3, <2>1, <2>2, <2>3
<1>9. FileGrows(fs, fs', i)
  <2>1. CASE UNCHANGED fs
    <3>1. FileGrows(fs, fs, i)
      BY <1>5, AddsSelf, AddsGrows
    <3> QED BY <2>1, <3>1
  <2> QED BY <1>8, <2>1
<1>10. ASSUME SInv PROVE SInv'
  <2>1. Step(t)
    BY DEF Step
  <2>3. KnownData(t)'
    <3>1. PICK v : Return(t, v)
      BY DEF executeTruncateFS
    <3>2. ctl'[t] = [pc |-> "idle", ret |-> v]
      BY <3>1 DEF Return, IInv, TypeInv
    <3> QED BY <3>2 DEF KnownData, WritePcs
  <2> HIDE DEF KnownData
  <2>4. CASE InodeFree(i) /\ (DataOK(fs) => DataOK(fs'))
    <3>1. DataOK(fs')
      BY <1>10, <2>4 DEF SInv
    <3>2. fs.inodes[i].lock \in {t, Nobody}
      BY <2>4 DEF InodeFree
    <3> QED BY <1>9, <1>10, <2>1, <2>3, <3>1, <3>2, FileSizes
  <2>5. CASE UNCHANGED fs
    <3>1. Adds(fs, fs', {})
      BY <2>5, SameAdds
    <3> QED BY <1>10, <2>1, <2>3, <3>1, SteadySizes
  <2> QED BY <1>8, <2>4, <2>5
<1> QED BY <1>9, <1>10

LEMMA WriteChecksSizes ==
  ASSUME IInv, NEW t \in Threads, WriteChecks(t)
  PROVE  (\E i : FileGrows(fs, fs', i)) /\ (SInv => SInv')
<1>1. PICK i, w, size : i = File(t).inode /\ w = executeWriteChecksFS(t, i) /\ size = fs.inodes[i].isize
  OBVIOUS
<1>2. PICK l, be, d, z, e :
        /\ l = readInodeSizeFS(LockInode(fs, t, i), t, i) /\ be = size + BlockSize - (size % BlockSize)
        /\ d = IF be < w.off + w.n THEN be ELSE w.off + w.n
        /\ z = zeroDskRangeFS(l, t, i, size, d)
        /\ e = IF DelAlloc /\ shouldUpdateInodeDisksizeFS(size, w.off, w.n)
               THEN updateInodeDisksizeFS(z, t, i, d, size, d) ELSE l
  OBVIOUS
<1>3. /\ ctl[t].pc = "write" /\ fs.inodes[i].lock = Nobody
      /\ IF w.n <= 0 THEN FinishAccess(t, UnlockInode(l, t, i), 0)
         ELSE /\ fs' = PadUpTo(e, t, i, w.off)
              /\ Continue(t, [pc |-> "block", off |-> w.off, at |-> w.off, end |-> w.off + w.n,
                              ord |-> 0, upto |-> w.off, ret |-> 0])
  <2>1. WriteChecks(t)
    OBVIOUS
  <2> QED BY <1>1, <1>2, <2>1 DEF WriteChecks, At, InodeFree
<1>4. Starting(t)
  BY <1>3, PcCases DEF IInv
<1>5. /\ prog[t] # <<>> /\ Call(t).op \in {"write", "pwrite"}
      /\ Call(t).fd \in 1 .. Len(fs.files) /\ ctl[t].off \in Int /\ Call(t) \in CallTypes
  <2>1. prog[t] \in Seq(CallTypes)
    BY DEF IInv, TypeInv
  <2> QED BY <1>4, <2>1 DEF Starting, OnFile, InCall, Call
<1>6. i \in 2 .. Len(fs.inodes) /\ Call(t).buf \in Seq(Int)
  BY <1>1, <1>5, CallFields DEF IInv, TypeInv, FileInodes, File
<1>7. IsFs(fs) /\ i \in 1 .. Len(fs.inodes) /\ i \in Nat /\ size \in Nat
  <2>1. IsFs(fs) /\ i \in 1 .. Len(fs.inodes) /\ i \in Nat
    BY <1>6, InvFs DEF IsFs
  <2> QED BY <1>1, <2>1, InodeFields
<1>8. w.off \in Int /\ w.n \in Int
  BY <1>1, <1>5, <1>6, <1>7, ChecksFacts
<1>9. /\ FileGrows(fs, l, i) /\ l.inodes[i].isize = size
      /\ DataOK(fs) => DataOK(l) /\ \A p \in Nat : p < size => Knows(l, t, i, p)
  BY <1>1, <1>2, <1>6, LockedGrows
<1>10. IsFs(l) /\ Len(l.inodes) = Len(fs.inodes)
  BY <1>9 DEF FileGrows
<1>11. Step(t)
  BY DEF Step
<1>12. CASE w.n <= 0
  <2>1. PICK x : x = UnlockInode(l, t, i) /\ FinishAccess(t, x, 0)
    BY <1>3, <1>12
  <2>2. FileGrows(l, x, i) /\ (DataOK(l) => DataOK(x))
    BY <1>6, <1>10, <2>1, UnlockGrows
  <2>3. IsFs(x) /\ Len(x.inodes) = Len(fs.inodes) /\ Call(t).fd \in 1 .. Len(x.files)
    <3>1. Len(fs.files) \in Nat /\ Len(l.files) \in Nat /\ Len(x.files) \in Nat
      BY <1>7, <1>10, <2>2 DEF IsFs, IsSeq, FileGrows
    <3> QED BY <1>5, <1>9, <1>10, <2>2, <3>1 DEF FileGrows, FilesStay
  <2>4. Adds(x, fs', {})
    BY <2>1, <2>3, FinishAccessAdds
  <2>5. Len(fs'.inodes) = Len(x.inodes)
    <3>1. CASE fs' = x
      BY <3>1
    <3>2. CASE fs' = Released(x, t, 0)
      <4>1. fs'.inodes = x.inodes
        BY <2>3, <3>2 DEF Released, IsFs, IsRec
      <4> QED BY <4>1
    <3> QED BY <2>1, <3>1, <3>2 DEF FinishAccess
  <2>6. FileGrows(fs, fs', i)
    <3>1. FileGrows(x, fs', i) /\ FileGrows(fs, x, i)
      BY <1>7, <1>9, <2>2, <2>4, <2>5, AddsGrows, FileGrowsTrans
    <3> QED BY <1>7, <3>1, FileGrowsTrans
  <2>7. DataOK(fs) => DataOK(fs')
    BY <1>9, <2>2, <2>3, <2>4, DataSteady
  <2>8. KnownData(t)'
    <3>1. PICK v : Return(t, v)
      BY <2>1 DEF FinishAccess
    <3>2. ctl'[t] = [pc |-> "idle", ret |-> v]
      BY <3>1 DEF Return, IInv, TypeInv
    <3> QED BY <3>2 DEF KnownData, WritePcs
  <2> HIDE DEF KnownData
  <2>9. ASSUME SInv PROVE SInv'
    <3>1. DataOK(fs')
      BY <2>7, <2>9 DEF SInv
    <3>2. fs.inodes[i].lock \in {t, Nobody}
      BY <1>3
    <3> QED BY <1>11, <2>6, <2>8, <2>9, <3>1, <3>2, FileSizes
  <2> QED BY <2>6, <2>9
<1>13. CASE ~(w.n <= 0)
  <2>1. PICK c : c = [pc |-> "block", off |-> w.off, at |-> w.off, end |-> w.off + w.n,
                      ord |-> 0, upto |-> w.off, ret |-> 0]
    OBVIOUS
  <2>2. fs' = zeroDskRangeFS(e, t, i, e.inodes[i].isize, w.off) /\ Continue(t, c)
    BY <1>3, <1>13, <2>1 DEF PadUpTo
  <2>3. d \in Int
    <3>1. size % BlockSize \in Int
      BY <1>7, BlockSizeAssumption
    <3>2. be \in Int
      BY <1>2, <1>7, <3>1, BlockSizeAssumption
    <3>3. d \in {be, w.off + w.n}
      <4>1. CASE be < w.off + w.n
        BY <1>2, <4>1
      <4>2. CASE ~(be < w.off + w.n)
        BY <1>2, <4>2
      <4> QED BY <4>1, <4>2
    <3> QED BY <1>8, <3>2, <3>3
  <2>4. /\ FileGrows(l, z, i) /\ z.inodes = l.inodes /\ (DataOK(l) => DataOK(z))
    BY <1>2, <1>6, <1>7, <1>10, <2>3, ZeroGrows
  <2>5. \A p \in Int : size <= p /\ p < d => Knows(z, t, i, p)
    BY <1>2, <1>6, <1>7, <1>10, <2>3, ZeroGrows
  <2>6. IsFs(z) /\ z.inodes[i].isize = size
    BY <1>9, <2>4 DEF FileGrows
  <2>7. FileGrows(l, e, i) /\ e.inodes = l.inodes /\ (DataOK(l) => DataOK(e))
    <3>1. CASE e = l
      BY <1>10, <3>1, AddsSelf, AddsGrows
    <3>2. CASE e = updateInodeDisksizeFS(z, t, i, d, size, d)
      <4>1. Adds(z, e, {"size"}) /\ DiskStep(z, e)
        BY <1>7, <2>6, <3>2, DisksizeAdds, SetDisksize
      <4>2. FileGrows(z, e, i) /\ e.inodes = z.inodes
        BY <4>1, AddsGrows DEF DiskStep
      <4>3. ASSUME DataOK(l) PROVE DataOK(e)
        <5>1. AllHanded(e) /\ DataOK(z)
          BY <2>4, <2>6, <4>1, <4>3, HandedSteady DEF DataOK
        <5>2. i \in 2 .. Len(z.inodes) /\ size \in Int
          BY <1>6, <1>7, <1>10, <2>4
        <5>3. ASSUME Journal = "ordered" PROVE SizesOK(e)
          <6>1. SizesOK(z)
            BY <5>1, <5>3 DEF DataOK
          <6>2. ASSUME NEW p \in Nat, p < d PROVE OnDisk(z, i, p) \/ (size <= p /\ p < d /\ Knows(z, t, i, p))
            <7>1. p < size => OnDisk(z, i, p)
              BY <2>6, <5>2, <6>1 DEF SizesOK
            <7> HIDE DEF OnDisk, Knows
            <7> QED BY <2>5, <5>2, <6>2, <7>1
          <6> HIDE DEF OnDisk
          <6> QED BY <2>3, <2>6, <3>2, <5>2, <5>3, <6>1, <6>2, DisksizeSizes
        <5> QED BY <5>1, <5>3 DEF DataOK
      <4> QED BY <1>10, <2>4, <4>2, <4>3, FileGrowsTrans
    <3> QED BY <1>2, <3>1, <3>2
  <2>8. IsFs(e) /\ Len(e.inodes) = Len(fs.inodes) /\ e.inodes[i].isize = size
    BY <1>9, <1>10, <2>7 DEF FileGrows
  <2>9. FileGrows(e, fs', i) /\ fs'.inodes = e.inodes /\ (DataOK(e) => DataOK(fs'))
    BY <1>6, <1>7, <1>8, <2>2, <2>8, ZeroGrows
  <2>10. \A p \in Int : size <= p /\ p < w.off => Knows(fs', t, i, p)
    BY <1>6, <1>7, <1>8, <2>2, <2>8, ZeroGrows
  <2>11. FileGrows(fs, fs', i)
    <3>1. FileGrows(fs, e, i)
      BY <1>7, <1>9, <2>7, FileGrowsTrans
    <3> QED BY <1>7, <2>9, <3>1, FileGrowsTrans
  <2>12. ASSUME SInv PROVE KnownData(t)'
    <3>1. ctl'[t] = c /\ prog' = prog
      BY <2>2, ContinueFacts
    <3>2. File(t)'.inode = i
      BY <1>1, <1>5, <2>11, <3>1 DEF FileGrows, FilesStay, File, Call
    <3>3. c.ord = 0 /\ c.at = w.off /\ c.pc # "read"
      BY <2>1
    <3>4. fs'.inodes[i].isize = size
      BY <2>8, <2>9
    <3>5. FileGrows(l, fs', i)
      BY <1>10, <2>7, <2>9, FileGrowsTrans
    <3>6. \A p \in Nat : p < size => Knows(fs', t, i, p)
      BY <1>9, <1>10, <2>12, <3>5, KnowsStays DEF SInv, FileGrows
    <3> HIDE DEF Knows
    <3>7. \A p \in Nat : p < size \/ p < w.off => Knows(fs', t, i, p)
      BY <1>7, <2>10, <3>6
    <3> QED BY <1>7, <3>1, <3>2, <3>3, <3>4, <3>7 DEF KnownData
  <2> HIDE DEF KnownData
  <2>13. ASSUME SInv PROVE SInv'
    <3>1. DataOK(fs')
      BY <1>9, <2>7, <2>9, <2>13 DEF SInv
    <3>2. fs.inodes[i].lock \in {t, Nobody}
      BY <1>3
    <3> QED BY <1>11, <2>11, <2>12, <2>13, <3>1, <3>2, FileSizes
  <2> QED BY <2>11, <2>13
<1> QED BY <1>12, <1>13

LEMMA BlockEndSizes ==
  ASSUME IInv, NEW t \in Threads, BlockEnd(t)
  PROVE  (\E i : FileGrows(fs, fs', i)) /\ (SInv => SInv')
<1>1. PICK i, c : i = File(t).inode /\ c = ctl[t]
  OBVIOUS
<1>2. PICK x, u, y, d :
        /\ x = updateInodeDisksizeFS(fs, t, i, c.at, c.ord, c.at)
        /\ u = IF c.at > fs.inodes[i].isize THEN updateInodeSizeFS(x, t, i, c.at) ELSE fs
        /\ y = setInodeTransStatus(u, t, i, 0)
        /\ d = [c EXCEPT !.pc = IF c.at < c.end THEN "block" ELSE "written",
                         !.ord = IF c.at > fs.inodes[i].isize THEN c.at ELSE @]
  OBVIOUS
<1>3. /\ c.pc = "bytes" /\ ctl[t].pc \in WritePcs
      /\ fs' = (IF Journal = "journal" THEN executeFsyncFS(y, t, i) ELSE u)
      /\ Continue(t, d)
  BY <1>1, <1>2 DEF BlockEnd, At, WritePcs
<1>4. /\ Writing(t) /\ i \in 2 .. Len(fs.inodes) /\ i \in 1 .. Len(fs.inodes) /\ i # Dir /\ i \in Nat /\ IsFs(fs)
      /\ fs.inodes[i].lock = t /\ Call(t).fd \in 1 .. Len(fs.files)
  BY <1>1, <1>3, WritingFacts
<1>5. /\ c \in [pc : WritePcs, off : Int, at : Int, end : Int, ord : Int, upto : Int, ret : Int]
      /\ fs.inodes[i].isize \in Nat
  BY <1>1, <1>3, <1>4, InodeFields DEF Writing
<1>6. /\ d.at = c.at /\ d.ord = IF c.at > fs.inodes[i].isize THEN c.at ELSE c.ord
  BY <1>2, <1>5
<1>7. c.at \in Int /\ c.ord \in Int
  BY <1>5
<1>8. /\ FileGrows(fs, u, i)
      /\ u.inodes[i].isize = IF c.at > fs.inodes[i].isize THEN c.at ELSE fs.inodes[i].isize
  <2>1. CASE c.at > fs.inodes[i].isize
    <3>1. c.at \in Nat
      BY <1>5, <1>7, <2>1
    <3>2. u = updateInodeSizeFS(x, t, i, c.at)
      BY <1>2, <2>1
    <3>3. FileGrows(fs, u, i) /\ u.inodes[i].isize = c.at
      BY <1>2, <1>4, <3>1, <3>2, SetSizeGrows
    <3> QED BY <2>1, <3>3
  <2>2. CASE ~(c.at > fs.inodes[i].isize)
    <3>1. u = fs
      BY <1>2, <2>2
    <3> QED BY <1>4, <2>2, <3>1, AddsSelf, AddsGrows
  <2> QED BY <2>1, <2>2
<1>9. IsFs(u) /\ Len(u.inodes) = Len(fs.inodes)
  BY <1>8 DEF FileGrows
<1>10. FileGrows(u, fs', i) /\ fs'.inodes = u.inodes /\ (DataOK(u) => DataOK(fs'))
  <2>1. CASE fs' = u
    BY <1>9, <2>1, AddsSelf, AddsGrows
  <2>2. CASE fs' = executeFsyncFS(y, t, i)
    <3>1. Adds(u, y, {"other"}) /\ DiskStep(u, y)
      BY <1>2, <1>4, <1>9, SetTransAdds, SetTrans
    <3>2. FileGrows(u, y, i) /\ y.inodes = u.inodes /\ IsFs(y) /\ (DataOK(u) => DataOK(y))
      BY <1>9, <3>1, AddsGrows, DataSteady DEF DiskStep
    <3>3. FileGrows(y, fs', i) /\ fs'.inodes = y.inodes /\ (DataOK(y) => DataOK(fs'))
      BY <1>4, <2>2, <3>2, FsyncGrows
    <3> QED BY <1>9, <3>2, <3>3, FileGrowsTrans
  <2> QED BY <1>3, <2>1, <2>2
<1>11. FileGrows(fs, fs', i)
  BY <1>4, <1>8, <1>10, FileGrowsTrans
<1>12. ASSUME SInv PROVE SInv'
  <2>1. DataOK(fs) /\ c.ord <= fs.inodes[i].isize
    BY <1>1, <1>3, <1>12 DEF SInv, KnownData
  <2>2. \A p \in Nat : p < fs.inodes[i].isize \/ p < c.at => Knows(fs, t, i, p)
    BY <1>1, <1>3, <1>12 DEF SInv, KnownData
  <2> HIDE DEF Knows
  <2>3. DataOK(u)
    <3>1. CASE c.at > fs.inodes[i].isize
      <4>1. c.at \in Nat /\ u = updateInodeSizeFS(x, t, i, c.at)
        BY <1>2, <1>5, <1>7, <3>1
      <4>2. \A p \in Nat : p < c.at => Knows(fs, t, i, p) /\ (p < fs.inodes[i].isize \/ (c.ord <= p /\ p < c.at))
        BY <1>5, <1>7, <2>1, <2>2
      <4> QED BY <1>2, <1>4, <1>7, <2>1, <4>1, <4>2, SetSizeSizes
    <3> QED BY <1>2, <2>1, <3>1
  <2>4. fs'.inodes[i].isize = IF c.at > fs.inodes[i].isize THEN c.at ELSE fs.inodes[i].isize
    BY <1>8, <1>10
  <2>5. d.ord <= fs'.inodes[i].isize /\ d.at = c.at /\ d.pc # "read"
    BY <1>2, <1>5, <1>6, <1>7, <2>1, <2>4
  <2>6. KnownData(t)'
    <3>1. ctl'[t] = d /\ prog' = prog
      BY <1>3, ContinueFacts
    <3>2. File(t)'.inode = i
      BY <1>1, <1>4, <1>11, <3>1 DEF FileGrows, FilesStay, File, Call
    <3>3. \A p : Knows(fs, t, i, p) => Knows(fs', t, i, p)
      BY <1>4, <1>11, KnowsStays DEF FileGrows
    <3>4. \A p \in Nat : p < fs'.inodes[i].isize \/ p < d.at => Knows(fs', t, i, p)
      BY <2>2, <2>4, <2>5, <3>3
    <3> QED BY <2>5, <3>1, <3>2, <3>4 DEF KnownData
  <2>7. DataOK(fs') /\ Step(t) /\ fs.inodes[i].lock \in {t, Nobody}
    BY <1>4, <1>10, <2>3 DEF Step
  <2> HIDE DEF KnownData
  <2> QED BY <1>11, <1>12, <2>6, <2>7, FileSizes
<1> QED BY <1>11, <1>12

\* A new inode has a size of 0.
LEMMA CreateSizes ==
  ASSUME NEW s, IsFs(s), DataOK(s), NEW t \in Threads, NEW n, NEW z, z = executeInodeCreateFS(s, t, n)
  PROVE  DataOK(z)
<1>1. PICK i, r, a, x, b :
        /\ i = Len(s.inodes) + 1
        /\ r = NewInode(s.known[t])
        /\ a = [s EXCEPT !.inodes = Append(@, r)]
        /\ x = setInodeTransStatus(a, t, i, 0) /\ b = updateInodeDisksizeFS(x, t, i, 0, 0, 0)
        /\ z = updateDirNameInode(b, t, n, i)
  BY DEF executeInodeCreateFS, NewInode
<1>2. IsFs(a) /\ Adds(s, a, {"dir", "other"})
  BY <1>1, NewInodeAdds
<1>3. PICK k : k = (IF i = Dir THEN "dir" ELSE "other") /\ Adds(a, x, {k})
  BY <1>1, <1>2, SetTransAdds
<1>4. IsFs(x) /\ DataOK(x)
  BY <1>2, <1>3, DataSteady DEF Adds
<1>5. b = updateInodeDisksizeFS(x, t, i, 0, 0, 0) /\ Adds(x, b, {"size"}) /\ IsFs(b)
  BY <1>1, <1>4, DisksizeAdds DEF Adds
<1>6. ASSUME Journal = "ordered" PROVE SizesOK(b)
  <2>1. \A p \in Nat : ~(p < 0)
    OBVIOUS
  <2> HIDE DEF OnDisk
  <2>2. \A p \in Nat : p < 0 => OnDisk(x, i, p) \/ (0 <= p /\ p < 0 /\ Knows(x, t, i, p))
    BY <2>1
  <2>3. SizesOK(x) /\ 0 \in Int
    BY <1>4, <1>6 DEF DataOK
  <2> QED BY <1>4, <1>5, <1>6, <2>2, <2>3, DisksizeSizes
<1>7. DataOK(b)
  BY <1>4, <1>5, <1>6, HandedSteady DEF DataOK
<1>8. Adds(b, z, {"dir"})
  BY <1>1, <1>5, EntryAdds
<1> QED BY <1>5, <1>7, <1>8, DataSteady

LEMMA OpenCreateSizes ==
  ASSUME IInv, NEW t \in Threads, OpenCreate(t)
  PROVE  Adds(fs, fs', {"dir", "size", "other"}) /\ (SInv => SInv')
<1>1. PICK n, l : n = Call(t).name /\ l = LookupReads(LockInode(fs, t, Dir), t, n)
  OBVIOUS
<1>2. PICK x, s, i, flags :
        /\ x = l \/ x = executeInodeCreateFS(l, t, n)
        /\ s = UnlockInode(x, t, Dir) /\ i \in Nat /\ flags \in SUBSET Flags
        /\ FinishOpen(t, s, i, flags)
  BY <1>1, OpenCreateSplit
<1>3. Adds(fs, l, {"dir"}) /\ IsFs(l) /\ IsFs(fs) /\ Dir \in 1 .. Len(l.inodes)
  BY <1>1, DirLockedAdds, InvFs
<1>4. Adds(l, x, {"dir", "size", "other"})
  BY <1>2, <1>3, AddsSelf, CreateAdds
<1>5. Dir \in 1 .. Len(x.inodes) /\ IsFs(x)
  BY <1>3, <1>4 DEF Adds, SizesStay, IsFs, Dir
<1>6. Adds(x, s, {"dir"}) /\ IsFs(s)
  BY <1>2, <1>5, UnlockAdds DEF Adds
<1>7. Adds(s, fs', {"dir"})
  BY <1>2, <1>6, FinishOpenAdds
<1>8. Adds(fs, fs', {"dir", "size", "other"})
  <2>1. /\ Adds(fs, l, {"dir", "size", "other"}) /\ Adds(x, s, {"dir", "size", "other"})
        /\ Adds(s, fs', {"dir", "size", "other"})
    BY <1>3, <1>6, <1>7, AddsMore
  <2>2. Adds(fs, x, {"dir", "size", "other"}) /\ Adds(x, fs', {"dir", "size", "other"})
    BY <1>3, <1>4, <1>5, <2>1, AddsBoth
  <2> QED BY <1>3, <2>2, AddsBoth
<1>9. ASSUME SInv PROVE SInv'
  <2>1. Leaves(t) /\ Step(t)
    BY <1>2, FinishOpenLeaves DEF Step
  <2>2. IsFs(fs') /\ LogGrows(fs, fs', {"dir", "size", "other"}) /\ FilesStay(fs, fs') /\ SizesStay(fs, fs')
    BY <1>8 DEF Adds
  <2>3. KnownData(t)'
    BY <1>9, <2>1, <2>2, LeavesKnown DEF SInv
  <2>4. DataOK(l)
    BY <1>3, <1>9, DataSteady DEF SInv
  <2>5. DataOK(x)
    BY <1>2, <1>3, <2>4, CreateSizes
  <2>6. DataOK(fs')
    BY <1>5, <1>6, <1>7, <2>5, DataSteady
  <2> HIDE DEF KnownData
  <2> QED BY <1>9, <2>1, <2>2, <2>3, <2>6, SizesStaySame, SizesKept
<1> QED BY <1>8, <1>9

LEMMA StepSizes ==
  ASSUME IInv, IInv', SInv, NEW t \in Threads, Step(t)
  PROVE  SInv'
<1>1. CASE SizeCall(t)
  BY <1>1, OpenCreateSizes, TruncateSizes, WriteChecksSizes, BlockEndSizes DEF SizeCall
<1>2. CASE ~SizeCall(t) /\ (BlockBegin(t) \/ WriteByte(t))
  BY <1>2, ByteSizes
<1>3. CASE ~SizeCall(t) /\ (StartRead(t) \/ ReadByte(t))
  BY <1>3, StartReadSizes, ReadByteSizes
<1>4. CASE ~SizeCall(t) /\ ~DataCall(t)
  BY <1>4, StepLeaves, OtherSizes
<1> QED BY <1>1, <1>2, <1>3, <1>4 DEF DataCall, SizeCall

LEMMA SameSizes ==
  ASSUME SInv, UNCHANGED <<mode, prog, ctl, fs, spec>>
  PROVE  SInv'
<1>1. mode' = mode /\ prog' = prog /\ ctl' = ctl /\ fs' = fs
  OBVIOUS
<1>2. \A t : Call(t)' = Call(t) /\ File(t)' = File(t)
  BY <1>1 DEF Call, File
<1>3. \A t : KnownData(t)' <=> KnownData(t)
  BY <1>1, <1>2 DEF KnownData
<1> QED BY <1>1, <1>3 DEF SInv, DataOK, Journal

LEMMA InitSizes ==
  ASSUME Init
  PROVE  SInv
<1>1. /\ fs.disk = <<>> /\ Len(fs.inodes) = 1 /\ fs.inodes[1].isize = 0
      /\ \A st \in fs.inodes[1].sizes : st.size = 0
      /\ \A t \in Threads : ctl[t].pc = "idle"
  BY DEF Init
<1>2. SizeWrites(fs) = {} /\ AllHanded(fs)
  BY <1>1 DEF SizeWrites, DskWrites, AllHanded, Handed, Hands
<1>3. \A t \in Threads : KnownData(t)
  BY <1>1 DEF KnownData, WritePcs
<1> QED BY <1>1, <1>2, <1>3 DEF SInv, DataOK, SizesOK

LEMMA DataStep ==
  ASSUME IInv, SInv, [Next]_vars
  PROVE  IInv' /\ SInv'
<1>1. (\E t \in Threads : Step(t)) \/ UNCHANGED <<mode, prog, ctl, fs, spec>>
  BY NextIs
<1> QED BY <1>1, StepKeeps, StepSizes, SameState, SameSizes

\* A read() without the lock of the inode may find an older size and older
\* bytes, but no byte below the size that nobody has written: the data and the
\* zeros are on the disk before the size grows, and the store of a size hands
\* them on (executeReadFS and executeBufferedWriteFS of Execution.cpp).
THEOREM ReadsAreInitialized == Spec => []ReadsInitialized
<1>1. Init => IInv /\ SInv
  BY InitHolds, InitSizes
<1>2. IInv /\ SInv /\ [Next]_vars => (IInv /\ SInv)'
  BY DataStep
<1>3. SInv => ReadsInitialized
  BY DEF SInv, KnownData, ReadsInitialized
<1> QED BY <1>1, <1>2, <1>3, PTL DEF Spec

-----------------------------------------------------------------------------
(* What persists before a write.                                           *)

Direct(disk, n) == {i \in DskWrites(disk) : i < n /\ PbEdge(disk, i, n)}
Closed(disk, below, n) ==
  IF n \in DskFences(disk) THEN {} ELSE Direct(disk, n) \cup UNION {below[i] : i \in Direct(disk, n)}
PbNext(disk, below, n) == Append(below, Closed(disk, below, n))
IsPass(disk, n, f) == f = [k \in 0 .. n |-> IF k = 0 THEN <<>> ELSE PbNext(disk, f[k - 1], k)]

LEMMA PassExists ==
  ASSUME NEW disk
  PROVE  \A n \in Nat : \E f : IsPass(disk, n, f)
<1> DEFINE S == {n \in Nat : \E f : IsPass(disk, n, f)}
<1>1. 0 \in S
  <2> DEFINE f == [k \in 0 .. 0 |-> <<>>]
  <2>1. IsPass(disk, 0, f)
    BY DEF IsPass
  <2> QED BY <2>1
<1>2. ASSUME NEW n \in S PROVE n + 1 \in S
  <2>1. PICK f : IsPass(disk, n, f)
    OBVIOUS
  <2> DEFINE next == PbNext(disk, f[n], n + 1)
             g == [k \in 0 .. n + 1 |-> IF k = n + 1 THEN next ELSE f[k]]
  <2>2. n \in Nat
    OBVIOUS
  <2>3. \A k \in 0 .. n : g[k] = f[k]
    BY <2>2
  <2>4. g[n + 1] = next
    BY <2>2
  <2>5. ASSUME NEW k \in 0 .. n + 1
        PROVE  g[k] = IF k = 0 THEN <<>> ELSE PbNext(disk, g[k - 1], k)
    <3>1. CASE k = n + 1
      <4>1. g[k - 1] = f[n] /\ k # 0
        BY <2>2, <2>3, <3>1
      <4>2. g[k] = next
        BY <2>4, <3>1
      <4> HIDE DEF g
      <4> QED BY <3>1, <4>1, <4>2, Zenon
    <3>2. CASE k \in 1 .. n
      <4>1. g[k] = f[k] /\ g[k - 1] = f[k - 1]
        BY <2>2, <2>3, <3>2
      <4>2. k \in 0 .. n /\ k # 0
        BY <2>2, <3>2
      <4> HIDE DEF g, next
      <4>3. f[k] = IF k = 0 THEN <<>> ELSE PbNext(disk, f[k - 1], k)
        BY <2>1, <4>2, Zenon DEF IsPass
      <4> QED BY <4>1, <4>3, Zenon
    <3>3. CASE k = 0
      <4> HIDE DEF g, next
      <4>1. 0 \in 0 .. n
        BY <2>2
      <4>2. f[0] = <<>>
        BY <2>1, <4>1, Zenon DEF IsPass
      <4> QED BY <2>3, <3>3, <4>1, <4>2
    <3> QED BY <2>2, <3>1, <3>2, <3>3
  <2>6. g = [k \in 0 .. n + 1 |-> g[k]]
    OBVIOUS
  <2> HIDE DEF g, next
  <2>7. IsPass(disk, n + 1, g)
    BY <2>5, <2>6 DEF IsPass
  <2> QED BY <2>2, <2>7
<1> HIDE DEF S
<1>3. S \in SUBSET Nat
  BY DEF S
<1>4. S = Nat
  BY <1>1, <1>2, <1>3, SetInduction
<1> QED BY <1>4 DEF S

\* The pass has come to k.
Passed(disk, q, k) ==
  IsSeq(q) /\ Len(q) = k /\ \A n \in 1 .. k : q[n] = Closed(disk, q, n)

LEMMA PassStep ==
  ASSUME NEW disk, NEW k \in Nat, NEW q, Passed(disk, q, k), NEW r, r = PbNext(disk, q, k + 1),
         \A i \in DskWrites(disk) : i \in Nat \ {0}
  PROVE  Passed(disk, r, k + 1)
<1>1. IsSeq(q) /\ Len(q) = k /\ \A n \in 1 .. k : q[n] = Closed(disk, q, n)
  BY DEF Passed
<1>2. PICK x : x = Closed(disk, q, k + 1) /\ r = Append(q, x)
  BY DEF PbNext
<1>3. IsSeq(r) /\ Len(r) = k + 1 /\ r[k + 1] = x /\ \A i \in 1 .. k : r[i] = q[i]
  <2>1. IsSeq(q) /\ Len(q) = k /\ r = Append(q, x)
    BY <1>1, <1>2
  <2>2. /\ IsSeq(Append(q, x)) /\ Len(Append(q, x)) = Len(q) + 1 /\ Append(q, x)[Len(q) + 1] = x
        /\ \A i \in 1 .. Len(q) : Append(q, x)[i] = q[i]
    <3> HIDE DEF Passed
    <3> QED BY <2>1, AppendFacts
  <2> QED BY <2>1, <2>2
<1>4. ASSUME NEW n \in 1 .. k + 1 PROVE r[n] = Closed(disk, r, n)
  <2>1. \A i \in Direct(disk, n) : r[i] = q[i]
    <3>1. \A i \in Direct(disk, n) : i \in DskWrites(disk) /\ i < n
      BY DEF Direct
    <3>2. \A i \in Direct(disk, n) : i \in 1 .. k
      BY <1>4, <3>1
    <3> QED BY <1>3, <3>2
  <2>2. Closed(disk, r, n) = Closed(disk, q, n)
    BY <2>1 DEF Closed
  <2>3. r[n] = Closed(disk, q, n)
    BY <1>1, <1>2, <1>3
  <2> QED BY <2>2, <2>3
<1> QED BY <1>3, <1>4 DEF Passed

LEMMA PbIsClosed ==
  ASSUME NEW disk, IsSeq(disk)
  PROVE  Passed(disk, calcPb(disk), Len(disk))
<1> DEFINE N == Len(disk)
           D(f) == IsPass(disk, N, f)
<1>1. N \in Nat /\ \A i \in DskWrites(disk) : i \in Nat \ {0}
  BY DEF IsSeq, DskWrites
<1>2. \E f : D(f)
  BY <1>1, PassExists
<1>3. calcPb(disk) = (CHOOSE f : D(f))[N]
  BY Zenon DEF calcPb, IsPass, PbNext, Closed, Direct
<1>4. PICK f : D(f) /\ calcPb(disk) = f[N]
  <2> HIDE DEF D
  <2> QED BY <1>2, <1>3, Zenon
<1> HIDE DEF N
<1>5. f[0] = <<>> /\ \A k \in 0 .. N - 1 : f[k + 1] = PbNext(disk, f[k], k + 1)
  <2>1. \A k \in 0 .. N : f[k] = IF k = 0 THEN <<>> ELSE PbNext(disk, f[k - 1], k)
    BY <1>4, Zenon DEF IsPass
  <2>2. ASSUME NEW k \in 0 .. N - 1 PROVE f[k + 1] = PbNext(disk, f[k], k + 1)
    <3>1. k + 1 \in 0 .. N /\ k + 1 # 0 /\ (k + 1) - 1 = k
      BY <1>1
    <3> QED BY <2>1, <3>1
  <2> QED BY <1>1, <2>1, <2>2
<1> DEFINE S == {k \in Nat : Passed(disk, f[k], k)}
<1>6. 0 \in S
  <2>1. Passed(disk, <<>>, 0)
    BY DEF Passed, IsSeq
  <2> QED BY <1>5, <2>1
<1>7. \A k \in 0 .. N - 1 : k \in S => k + 1 \in S
  BY <1>1, <1>5, PassStep
<1>8. N \in 0 .. N
  BY <1>1
<1> HIDE DEF S
<1>9. N \in S
  BY <1>1, <1>6, <1>7, <1>8, BoundedInduction
<1> QED BY <1>4, <1>9 DEF S, N

\* An edge leads on to what persists before.
LEMMA PbClosed ==
  ASSUME NEW disk, IsSeq(disk), NEW pb, pb = calcPb(disk), NEW w \in DskWrites(disk), NEW i \in DskWrites(disk),
         i < w, PbEdge(disk, i, w)
  PROVE  i \in pb[w] /\ pb[i] \subseteq pb[w]
<1>1. w \in 1 .. Len(disk) /\ w \notin DskFences(disk)
  BY DEF IsSeq, DskWrites, DskFences
<1>2. pb[w] = Direct(disk, w) \cup UNION {pb[j] : j \in Direct(disk, w)}
  <2>1. pb[w] = Closed(disk, pb, w)
    BY <1>1, PbIsClosed DEF Passed
  <2> QED BY <1>1, <2>1 DEF Closed
<1>3. i \in Direct(disk, w)
  BY DEF Direct
<1> QED BY <1>2, <1>3

-----------------------------------------------------------------------------
(* Recovery.                                                               *)

IsRf(r) == r.rf = 0 \/ (r.rf \in DskWrites(fs.disk) /\ fs.disk[r.rf].loc = r.loc)
IsRead(loc, w) == DskReadLabel(loc, w) \in rec.reads

NameSeen(n) == \E v : IsRead(Loc(Dir, "name", n), v) /\ rec.names[n] = ValueOf(fs, v)
TransSeen   == \E v : IsRead(Loc(Dir, "trans", 0), v) /\ (rec.blocked \/ ValueOf(fs, v) # 1)
SizeSeen    == \E v : IsRead(Loc(rec.got.inode, "size", 0), v) /\ rec.got.size = ValueOf(fs, v)
ByteSeen(k) == k - 1 < rec.got.size /\ IsRead(Loc(rec.got.inode, "data", k - 1), rec.got.rfs[k])

Recovering ==
  IF rec.on THEN /\ \A t \in Threads : prog[t] = <<>>
                 /\ rec.pb = calcPb(fs.disk) /\ isRecAcyclic(fs.disk, rec.pb, rec.reads)
                 /\ \A r \in rec.reads : IsRf(r)
            ELSE rec.reads = {}

\* What recovery has found comes from its reads.
RInv ==
  /\ rec = [on |-> rec.on, pb |-> rec.pb, reads |-> rec.reads, names |-> rec.names,
            got |-> rec.got, blocked |-> rec.blocked]
  /\ Recovering
  /\ \A n \in DOMAIN rec.names : rec.on /\ NameSeen(n) /\ TransSeen
  /\ rec.got # <<>> =>
       /\ rec.on /\ SizeSeen
       /\ rec.got = [inode |-> rec.got.inode, size |-> rec.got.size, rfs |-> rec.got.rfs, done |-> rec.got.done]
       /\ rec.got.rfs \in Seq(Nat) /\ \A k \in 1 .. Len(rec.got.rfs) : ByteSeen(k)

LEMMA InitRecovery ==
  ASSUME Init
  PROVE  RInv
<1>1. rec = [on |-> FALSE, pb |-> <<>>, reads |-> {}, names |-> <<>>, got |-> <<>>, blocked |-> FALSE]
  BY DEF Init
<1>2. DOMAIN rec.names = {} /\ rec.got = <<>> /\ rec.on = FALSE /\ rec.reads = {}
  BY <1>1
<1> QED BY <1>1, <1>2 DEF RInv, Recovering

\* The threads do nothing any more when recovery has begun.
LEMMA StepRecovery ==
  ASSUME IInv, RInv, NEW t \in Threads, Step(t)
  PROVE  RInv' /\ ~rec.on
<1>1. rec' = rec /\ prog[t] # <<>>
  BY StepMoves
<1>2. ~rec.on
  BY <1>1 DEF RInv, Recovering
<1>3. rec.reads = {} /\ DOMAIN rec.names = {} /\ rec.got = <<>>
  BY <1>2 DEF RInv, Recovering
<1>4. rec = [on |-> rec.on, pb |-> rec.pb, reads |-> rec.reads, names |-> rec.names,
             got |-> rec.got, blocked |-> rec.blocked]
  BY DEF RInv
<1> QED BY <1>1, <1>2, <1>3, <1>4 DEF RInv, Recovering

LEMMA SameRecovery ==
  ASSUME RInv, UNCHANGED vars
  PROVE  RInv'
<1>1. prog' = prog /\ fs' = fs /\ rec' = rec
  BY DEF vars
<1> QED BY <1>1 DEF RInv, Recovering, NameSeen, TransSeen, SizeSeen, ByteSeen, IsRead, IsRf, ValueOf

LEMMA RecoveryBegins ==
  ASSUME RInv, handleRecoveryStart
  PROVE  RInv'
<1>1. /\ ~rec.on /\ \A t \in Threads : prog[t] = <<>>
      /\ rec' = [rec EXCEPT !.on = TRUE, !.pb = calcPb(fs.disk)] /\ prog' = prog /\ fs' = fs
  BY DEF handleRecoveryStart
<1>2. rec.reads = {} /\ DOMAIN rec.names = {} /\ rec.got = <<>>
  BY <1>1 DEF RInv, Recovering
<1>3. rec = [on |-> rec.on, pb |-> rec.pb, reads |-> rec.reads, names |-> rec.names,
             got |-> rec.got, blocked |-> rec.blocked]
  BY DEF RInv
<1>4. /\ rec' = [on |-> TRUE, pb |-> calcPb(fs.disk), reads |-> rec.reads, names |-> rec.names,
                 got |-> rec.got, blocked |-> rec.blocked]
  BY <1>1, <1>3
<1>5. /\ rec'.on /\ rec'.pb = calcPb(fs.disk) /\ rec'.reads = {} /\ DOMAIN rec'.names = {} /\ rec'.got = <<>>
      /\ rec' = [on |-> rec'.on, pb |-> rec'.pb, reads |-> rec'.reads, names |-> rec'.names,
                 got |-> rec'.got, blocked |-> rec'.blocked]
  BY <1>2, <1>4
<1> QED BY <1>1, <1>5 DEF RInv, Recovering, isRecAcyclic

\* A read that the checker accepts.
LEMMA ReadIsValid ==
  ASSUME NEW R, NEW loc, NEW w \in ValidRecRfs(R, loc), NEW r, r = DskReadLabel(loc, w)
  PROVE  IsRf(r) /\ isRecAcyclic(fs.disk, rec.pb, R \cup {r}) /\ w \in {0} \cup DskWrites(fs.disk)
<1>1. w \in RecRfs(R, loc) /\ isRecAcyclic(fs.disk, rec.pb, R \cup {r})
  BY DEF ValidRecRfs
<1>2. w = 0 \/ (w \in DskWrites(fs.disk) /\ fs.disk[w].loc = loc)
  BY <1>1 DEF RecRfs, StoresTo
<1>3. r.rf = w /\ r.loc = loc
  BY DEF DskReadLabel
<1> QED BY <1>1, <1>2, <1>3 DEF IsRf

\* Recovery goes on with more reads.
LEMMA RecoveryGoesOn ==
  ASSUME RInv, rec.on, ~rec.blocked, prog' = prog, fs' = fs, rec'.on = rec.on, rec'.pb = rec.pb,
         rec.reads \subseteq rec'.reads,
         isRecAcyclic(fs.disk, rec.pb, rec'.reads), \A r \in rec'.reads : r \in rec.reads \/ IsRf(r)
  PROVE  /\ Recovering'
         /\ \A n : rec'.names[n] = rec.names[n] /\ NameSeen(n) => NameSeen(n)'
         /\ TransSeen => TransSeen'
<1>1. \A r \in rec'.reads : IsRf(r)
  BY DEF RInv, Recovering
<1>2. \A r \in rec'.reads : IsRf(r)'
  BY <1>1 DEF IsRf
<1>3. Recovering'
  BY <1>2 DEF RInv, Recovering
<1>4. \A n : rec'.names[n] = rec.names[n] /\ NameSeen(n) => NameSeen(n)'
  BY DEF NameSeen, IsRead, ValueOf
<1>5. TransSeen => TransSeen'
  BY DEF TransSeen, IsRead, ValueOf
<1> QED BY <1>3, <1>4, <1>5

LEMMA RecLookupKeeps ==
  ASSUME RInv, NEW n \in Names, RecLookup(n)
  PROVE  RInv'
<1> DEFINE tr == Loc(Dir, "trans", 0)
           nm == Loc(Dir, "name", n)
<1>1. PICK w \in ValidRecRfs(rec.reads, tr) :
        LET reads == rec.reads \cup {DskReadLabel(tr, w)}
        IN \/ /\ ValueOf(fs, w) = 1
              /\ rec' = [rec EXCEPT !.reads = reads, !.blocked = TRUE]
           \/ /\ ValueOf(fs, w) # 1
              /\ \E v \in ValidRecRfs(reads, nm) :
                   rec' = [rec EXCEPT !.reads = reads \cup {DskReadLabel(nm, v)},
                                      !.names = [m \in DOMAIN rec.names \cup {n} |->
                                                   IF m = n THEN ValueOf(fs, v) ELSE rec.names[m]]]
  BY DEF RecLookup
<1>2. PICK R : R = rec.reads \cup {DskReadLabel(tr, w)}
  OBVIOUS
<1>3. rec.on /\ ~rec.blocked /\ prog' = prog /\ fs' = fs /\ n \notin DOMAIN rec.names
  BY DEF RecLookup, RecStep
<1>4. rec = [on |-> rec.on, pb |-> rec.pb, reads |-> rec.reads, names |-> rec.names,
             got |-> rec.got, blocked |-> rec.blocked]
  BY DEF RInv
<1>5. isRecAcyclic(fs.disk, rec.pb, R) /\ \A r \in R : r \in rec.reads \/ IsRf(r)
  BY <1>2, ReadIsValid
<1>6. CASE ValueOf(fs, w) = 1 /\ rec' = [rec EXCEPT !.reads = R, !.blocked = TRUE]
  <2>1. /\ rec' = [on |-> rec.on, pb |-> rec.pb, reads |-> R, names |-> rec.names, got |-> rec.got, blocked |-> TRUE]
    BY <1>4, <1>6
  <2>2. /\ rec' = [on |-> rec'.on, pb |-> rec'.pb, reads |-> rec'.reads, names |-> rec'.names,
                   got |-> rec'.got, blocked |-> rec'.blocked]
        /\ rec'.on = rec.on /\ rec'.pb = rec.pb /\ rec'.reads = R /\ rec'.names = rec.names /\ rec'.got = rec.got
    BY <2>1
  <2>3. rec.reads \subseteq rec'.reads
    BY <1>2, <2>2
  <2>4. /\ Recovering'
        /\ \A m : NameSeen(m) => NameSeen(m)'
        /\ TransSeen => TransSeen'
    BY <1>3, <1>5, <2>2, <2>3, RecoveryGoesOn
  <2>5. \A m \in DOMAIN rec'.names : rec'.on /\ NameSeen(m)' /\ TransSeen'
    BY <2>2, <2>4 DEF RInv
  <2> QED BY <1>3, <2>2, <2>3, <2>4, <2>5 DEF RInv, SizeSeen, ByteSeen, IsRead, ValueOf
<1>7. ASSUME NEW v \in ValidRecRfs(R, nm), NEW S, S = R \cup {DskReadLabel(nm, v)}, ValueOf(fs, w) # 1,
             NEW names, names = [m \in DOMAIN rec.names \cup {n} |-> IF m = n THEN ValueOf(fs, v) ELSE rec.names[m]],
             rec' = [rec EXCEPT !.reads = S, !.names = names]
      PROVE  RInv'
  <2>1. /\ rec' = [on |-> rec.on, pb |-> rec.pb, reads |-> S, names |-> names, got |-> rec.got, blocked |-> rec.blocked]
    BY <1>4, <1>7
  <2>2. /\ rec' = [on |-> rec'.on, pb |-> rec'.pb, reads |-> rec'.reads, names |-> rec'.names,
                   got |-> rec'.got, blocked |-> rec'.blocked]
        /\ rec'.on = rec.on /\ rec'.pb = rec.pb /\ rec'.reads = S /\ rec'.names = names /\ rec'.got = rec.got
    BY <2>1
  <2>3. rec.reads \subseteq rec'.reads /\ R \subseteq rec'.reads
    BY <1>2, <1>7, <2>2
  <2>4. isRecAcyclic(fs.disk, rec.pb, S) /\ \A r \in S : r \in rec.reads \/ IsRf(r)
    BY <1>5, <1>7, ReadIsValid
  <2>5. /\ Recovering'
        /\ \A m : names[m] = rec.names[m] /\ NameSeen(m) => NameSeen(m)'
    BY <1>3, <2>2, <2>3, <2>4, RecoveryGoesOn
  <2>6. TransSeen'
    <3>1. DskReadLabel(tr, w) \in rec'.reads
      BY <1>2, <2>3
    <3> QED BY <1>1, <1>3, <1>7, <3>1 DEF TransSeen, IsRead, ValueOf
  <2>7. NameSeen(n)'
    <3>1. DskReadLabel(nm, v) \in rec'.reads /\ rec'.names[n] = ValueOf(fs, v)
      BY <1>7, <2>2
    <3> QED BY <1>1, <1>3, <3>1 DEF NameSeen, IsRead, ValueOf
  <2>8. ASSUME NEW m \in DOMAIN rec'.names PROVE NameSeen(m)'
    <3>1. CASE m = n
      BY <2>7, <3>1
    <3>2. CASE m # n
      <4>1. DOMAIN names = DOMAIN rec.names \cup {n}
        BY <1>7
      <4>2. m \in DOMAIN rec.names
        BY <2>2, <2>8, <3>2, <4>1
      <4>3. names[m] = rec.names[m]
        BY <1>7, <3>2, <4>2
      <4> QED BY <2>5, <4>2, <4>3 DEF RInv
    <3> QED BY <3>1, <3>2
  <2>9. \A m \in DOMAIN rec'.names : rec'.on /\ NameSeen(m)' /\ TransSeen'
    BY <1>3, <2>2, <2>6, <2>8
  <2> QED BY <1>3, <2>2, <2>3, <2>5, <2>9 DEF RInv, SizeSeen, ByteSeen, IsRead, ValueOf
<1>8. CASE /\ ValueOf(fs, w) # 1
           /\ \E v \in ValidRecRfs(R, nm) :
                rec' = [rec EXCEPT !.reads = R \cup {DskReadLabel(nm, v)},
                                   !.names = [m \in DOMAIN rec.names \cup {n} |->
                                                IF m = n THEN ValueOf(fs, v) ELSE rec.names[m]]]
  <2>1. PICK v \in ValidRecRfs(R, nm) :
               rec' = [rec EXCEPT !.reads = R \cup {DskReadLabel(nm, v)},
                                  !.names = [m \in DOMAIN rec.names \cup {n} |->
                                               IF m = n THEN ValueOf(fs, v) ELSE rec.names[m]]]
    BY <1>8
  <2>2. PICK S, names :
          /\ S = R \cup {DskReadLabel(nm, v)}
          /\ names = [m \in DOMAIN rec.names \cup {n} |-> IF m = n THEN ValueOf(fs, v) ELSE rec.names[m]]
    OBVIOUS
  <2>3. rec' = [rec EXCEPT !.reads = S, !.names = names]
    BY <2>1, <2>2
  <2> HIDE DEF nm
  <2> QED BY <1>7, <1>8, <2>2, <2>3
<1> HIDE DEF tr, nm
<1> QED BY <1>1, <1>2, <1>6, <1>8

\* The names stay what they were.
LEMMA ReadsAddedKeep ==
  ASSUME RInv, rec.on, ~rec.blocked, prog' = prog, fs' = fs, NEW R, NEW g, NEW b,
         rec' = [rec EXCEPT !.reads = R, !.got = g, !.blocked = b],
         rec.reads \subseteq R, isRecAcyclic(fs.disk, rec.pb, R), \A r \in R : r \in rec.reads \/ IsRf(r),
         g = [inode |-> g.inode, size |-> g.size, rfs |-> g.rfs, done |-> g.done], g.rfs \in Seq(Nat),
         \E v : DskReadLabel(Loc(g.inode, "size", 0), v) \in R /\ g.size = ValueOf(fs, v),
         \A k \in 1 .. Len(g.rfs) : k - 1 < g.size /\ DskReadLabel(Loc(g.inode, "data", k - 1), g.rfs[k]) \in R
  PROVE  RInv'
<1>1. rec = [on |-> rec.on, pb |-> rec.pb, reads |-> rec.reads, names |-> rec.names,
             got |-> rec.got, blocked |-> rec.blocked]
  BY DEF RInv
<1>2. rec' = [on |-> rec.on, pb |-> rec.pb, reads |-> R, names |-> rec.names, got |-> g, blocked |-> b]
  BY <1>1
<1>3. /\ rec' = [on |-> rec'.on, pb |-> rec'.pb, reads |-> rec'.reads, names |-> rec'.names,
                 got |-> rec'.got, blocked |-> rec'.blocked]
      /\ rec'.on = rec.on /\ rec'.pb = rec.pb /\ rec'.reads = R /\ rec'.names = rec.names /\ rec'.got = g
  BY <1>2
<1>4. /\ Recovering'
      /\ \A m : NameSeen(m) => NameSeen(m)'
      /\ TransSeen => TransSeen'
  BY <1>3, RecoveryGoesOn
<1>5. \A m \in DOMAIN rec'.names : rec'.on /\ NameSeen(m)' /\ TransSeen'
  BY <1>3, <1>4 DEF RInv
<1>6. SizeSeen' /\ \A k \in 1 .. Len(g.rfs) : ByteSeen(k)'
  BY <1>3 DEF SizeSeen, ByteSeen, IsRead, ValueOf
<1>7. /\ rec'.got = [inode |-> rec'.got.inode, size |-> rec'.got.size, rfs |-> rec'.got.rfs, done |-> rec'.got.done]
      /\ rec'.got.rfs \in Seq(Nat) /\ \A k \in 1 .. Len(rec'.got.rfs) : ByteSeen(k)'
  BY <1>3, <1>6
<1> QED BY <1>3, <1>4, <1>5, <1>6, <1>7 DEF RInv

LEMMA RecReadSizeKeeps ==
  ASSUME RInv, RecReadSize
  PROVE  RInv'
<1>1. PICK n, w :
        /\ w \in ValidRecRfs(rec.reads, Loc(rec.names[n], "size", 0))
        /\ rec' = [rec EXCEPT !.reads = rec.reads \cup {DskReadLabel(Loc(rec.names[n], "size", 0), w)},
                              !.got = [inode |-> rec.names[n], size |-> ValueOf(fs, w), rfs |-> <<>>, done |-> FALSE]]
  BY DEF RecReadSize
<1>2. rec.on /\ ~rec.blocked /\ prog' = prog /\ fs' = fs
  BY DEF RecReadSize, RecStep
<1>3. PICK i, loc, R, g :
        /\ i = rec.names[n] /\ loc = Loc(i, "size", 0) /\ R = rec.reads \cup {DskReadLabel(loc, w)}
        /\ g = [inode |-> i, size |-> ValueOf(fs, w), rfs |-> <<>>, done |-> FALSE]
  OBVIOUS
<1>4. rec = [on |-> rec.on, pb |-> rec.pb, reads |-> rec.reads, names |-> rec.names,
             got |-> rec.got, blocked |-> rec.blocked]
  BY DEF RInv
<1>5. rec' = [rec EXCEPT !.reads = R, !.got = g, !.blocked = rec.blocked]
  <2>1. rec' = [rec EXCEPT !.reads = R, !.got = g]
    BY <1>1, <1>3
  <2> QED BY <1>4, <2>1
<1>6. isRecAcyclic(fs.disk, rec.pb, R) /\ \A r \in R : r \in rec.reads \/ IsRf(r)
  BY <1>1, <1>3, ReadIsValid
<1>7. /\ g = [inode |-> g.inode, size |-> g.size, rfs |-> g.rfs, done |-> g.done]
      /\ g.inode = i /\ g.size = ValueOf(fs, w) /\ g.rfs = <<>>
  BY <1>3
<1>8. g.rfs \in Seq(Nat) /\ Len(g.rfs) = 0
  BY <1>7
<1>9. /\ rec.reads \subseteq R
      /\ \E v : DskReadLabel(Loc(g.inode, "size", 0), v) \in R /\ g.size = ValueOf(fs, v)
  BY <1>3, <1>7
<1>10. \A k \in 1 .. Len(g.rfs) : k - 1 < g.size /\ DskReadLabel(Loc(g.inode, "data", k - 1), g.rfs[k]) \in R
  BY <1>8
<1> QED BY <1>2, <1>5, <1>6, <1>7, <1>8, <1>9, <1>10, ReadsAddedKeep

LEMMA RecReadByteKeeps ==
  ASSUME RInv, IsFs(fs), RecReadByte
  PROVE  RInv'
<1>1. PICK n, loc, w, R, q, g :
        /\ n = Len(rec.got.rfs) /\ loc = Loc(rec.got.inode, "data", n) /\ w \in ValidRecRfs(rec.reads, loc)
        /\ R = rec.reads \cup {DskReadLabel(loc, w)} /\ q = Append(rec.got.rfs, w)
        /\ g = [rec.got EXCEPT !.rfs = q]
        /\ rec' = [rec EXCEPT !.reads = R, !.got.rfs = q]
  BY DEF RecReadByte
<1>2. rec.on /\ ~rec.blocked /\ prog' = prog /\ fs' = fs /\ rec.got # <<>> /\ n < rec.got.size
  BY <1>1 DEF RecReadByte, RecStep
<1>3. /\ rec = [on |-> rec.on, pb |-> rec.pb, reads |-> rec.reads, names |-> rec.names,
                got |-> rec.got, blocked |-> rec.blocked]
      /\ rec.got = [inode |-> rec.got.inode, size |-> rec.got.size, rfs |-> rec.got.rfs, done |-> rec.got.done]
      /\ rec.got.rfs \in Seq(Nat)
  BY <1>2 DEF RInv
<1>4. SizeSeen /\ \A k \in 1 .. n : ByteSeen(k)
  BY <1>1, <1>2 DEF RInv
<1>5. rec' = [rec EXCEPT !.reads = R, !.got = g, !.blocked = rec.blocked]
  BY <1>1, <1>3
<1>6. isRecAcyclic(fs.disk, rec.pb, R) /\ \A r \in R : r \in rec.reads \/ IsRf(r)
  BY <1>1, ReadIsValid
<1>7. /\ g = [inode |-> g.inode, size |-> g.size, rfs |-> g.rfs, done |-> g.done]
      /\ g.inode = rec.got.inode /\ g.size = rec.got.size /\ g.rfs = q
  <2>1. g = [inode |-> rec.got.inode, size |-> rec.got.size, rfs |-> q, done |-> rec.got.done]
    BY <1>1, <1>3
  <2> QED BY <2>1
<1>8. w \in Nat
  <2>1. w \in {0} \cup DskWrites(fs.disk)
    BY <1>1, ReadIsValid
  <2> QED BY <2>1 DEF DskWrites, IsFs, IsSeq
<1>9. q \in Seq(Nat) /\ Len(q) = n + 1 /\ n \in Nat /\ q[n + 1] = w /\ \A k \in 1 .. n : q[k] = rec.got.rfs[k]
  BY <1>1, <1>3, <1>8
<1>10. /\ rec.reads \subseteq R
       /\ \E v : DskReadLabel(Loc(g.inode, "size", 0), v) \in R /\ g.size = ValueOf(fs, v)
  BY <1>1, <1>4, <1>7 DEF SizeSeen, IsRead
<1>11. ASSUME NEW k \in 1 .. Len(g.rfs)
       PROVE  k - 1 < g.size /\ DskReadLabel(Loc(g.inode, "data", k - 1), g.rfs[k]) \in R
  <2>1. CASE k \in 1 .. n
    <3>1. k - 1 < rec.got.size /\ DskReadLabel(Loc(rec.got.inode, "data", k - 1), rec.got.rfs[k]) \in rec.reads
      BY <1>4, <2>1 DEF ByteSeen, IsRead
    <3> QED BY <1>1, <1>7, <1>9, <2>1, <3>1
  <2>2. CASE k = n + 1
    <3>1. k - 1 = n
      BY <1>9, <2>2
    <3>2. g.rfs[k] = w /\ DskReadLabel(loc, w) \in R
      BY <1>1, <1>7, <1>9, <2>2
    <3> QED BY <1>1, <1>2, <1>7, <3>1, <3>2
  <2> QED BY <1>7, <1>9, <1>11, <2>1, <2>2
<1> QED BY <1>2, <1>5, <1>6, <1>7, <1>9, <1>10, <1>11, ReadsAddedKeep

LEMMA RecReadDoneKeeps ==
  ASSUME RInv, RecReadDone
  PROVE  RInv'
<1> DEFINE tr == Loc(rec.got.inode, "trans", 0)
<1>2. rec.on /\ ~rec.blocked /\ prog' = prog /\ fs' = fs /\ rec.got # <<>>
  BY DEF RecReadDone, RecStep
<1>3. /\ rec = [on |-> rec.on, pb |-> rec.pb, reads |-> rec.reads, names |-> rec.names,
                got |-> rec.got, blocked |-> rec.blocked]
      /\ rec.got = [inode |-> rec.got.inode, size |-> rec.got.size, rfs |-> rec.got.rfs, done |-> rec.got.done]
      /\ rec.got.rfs \in Seq(Nat)
  BY <1>2 DEF RInv
<1>4. SizeSeen /\ \A k \in 1 .. Len(rec.got.rfs) : ByteSeen(k)
  BY <1>2 DEF RInv
<1>5. PICK R, done, b, g :
        /\ \/ R = rec.reads
           \/ \E w \in ValidRecRfs(rec.reads, tr) : R = rec.reads \cup {DskReadLabel(tr, w)}
        /\ g = [rec.got EXCEPT !.done = done]
        /\ rec' = [rec EXCEPT !.reads = R, !.got = g, !.blocked = b]
  <2>1. CASE rec' = [rec EXCEPT !.got.done = TRUE]
    <3>1. PICK g : g = [rec.got EXCEPT !.done = TRUE]
      OBVIOUS
    <3>2. rec' = [rec EXCEPT !.reads = rec.reads, !.got = g, !.blocked = rec.blocked]
      <4>1. rec' = [rec EXCEPT !.got = g]
        BY <1>3, <2>1, <3>1
      <4> QED BY <1>3, <4>1
    <3> QED BY <3>1, <3>2
  <2>2. \/ rec' = [rec EXCEPT !.got.done = TRUE]
        \/ \E w \in ValidRecRfs(rec.reads, tr) :
             rec' = [rec EXCEPT !.reads = rec.reads \cup {DskReadLabel(tr, w)},
                                !.blocked = (ValueOf(fs, w) = 1), !.got.done = (ValueOf(fs, w) # 1)]
    BY DEF RecReadDone
  <2>3. CASE \E w \in ValidRecRfs(rec.reads, tr) :
                rec' = [rec EXCEPT !.reads = rec.reads \cup {DskReadLabel(tr, w)},
                                   !.blocked = (ValueOf(fs, w) = 1), !.got.done = (ValueOf(fs, w) # 1)]
    <3>1. PICK w \in ValidRecRfs(rec.reads, tr) :
                rec' = [rec EXCEPT !.reads = rec.reads \cup {DskReadLabel(tr, w)},
                                   !.blocked = (ValueOf(fs, w) = 1), !.got.done = (ValueOf(fs, w) # 1)]
      BY <2>3
    <3>2. PICK R, b, c : R = rec.reads \cup {DskReadLabel(tr, w)} /\ b = (ValueOf(fs, w) = 1) /\ c = (ValueOf(fs, w) # 1)
      OBVIOUS
    <3>3. rec' = [rec EXCEPT !.reads = R, !.blocked = b, !.got.done = c]
      BY <3>1, <3>2, Zenon
    <3>4. PICK g : /\ g = [rec.got EXCEPT !.done = c]
                   /\ rec' = [rec EXCEPT !.reads = R, !.got = g, !.blocked = b]
      <4>1. PICK g : g = [rec.got EXCEPT !.done = c]
        OBVIOUS
      <4>2. rec' = [rec EXCEPT !.reads = R, !.got = g, !.blocked = b]
        BY <1>3, <3>3, <4>1
      <4> QED BY <4>1, <4>2
    <3>5. \E v \in ValidRecRfs(rec.reads, tr) : R = rec.reads \cup {DskReadLabel(tr, v)}
      BY <3>2
    <3> QED BY <3>4, <3>5
  <2> QED BY <2>1, <2>2, <2>3
<1>6. isRecAcyclic(fs.disk, rec.pb, R) /\ rec.reads \subseteq R /\ \A r \in R : r \in rec.reads \/ IsRf(r)
  <2>1. CASE R = rec.reads
    BY <1>2, <2>1 DEF RInv, Recovering
  <2>2. CASE \E w \in ValidRecRfs(rec.reads, tr) : R = rec.reads \cup {DskReadLabel(tr, w)}
    BY <2>2, ReadIsValid
  <2> QED BY <1>5, <2>1, <2>2
<1>7. /\ g = [inode |-> g.inode, size |-> g.size, rfs |-> g.rfs, done |-> g.done]
      /\ g.inode = rec.got.inode /\ g.size = rec.got.size /\ g.rfs = rec.got.rfs
  <2>1. g = [inode |-> rec.got.inode, size |-> rec.got.size, rfs |-> rec.got.rfs, done |-> done]
    BY <1>3, <1>5
  <2> QED BY <2>1
<1>8. /\ \E v : DskReadLabel(Loc(g.inode, "size", 0), v) \in R /\ g.size = ValueOf(fs, v)
      /\ \A k \in 1 .. Len(g.rfs) : k - 1 < g.size /\ DskReadLabel(Loc(g.inode, "data", k - 1), g.rfs[k]) \in R
  BY <1>4, <1>6, <1>7 DEF SizeSeen, ByteSeen, IsRead
<1>9. rec' = [rec EXCEPT !.reads = R, !.got = g, !.blocked = b]
  BY <1>5
<1>10. g.rfs \in Seq(Nat) /\ g = [inode |-> g.inode, size |-> g.size, rfs |-> g.rfs, done |-> g.done]
  BY <1>3, <1>7
<1> QED BY <1>2, <1>6, <1>8, <1>9, <1>10, ReadsAddedKeep

LEMMA NextRecovery ==
  ASSUME IInv, RInv, [Next]_vars
  PROVE  RInv'
<1>1. IsFs(fs)
  BY InvFs
<1>2. CASE UNCHANGED vars
  BY <1>2, SameRecovery
<1>3. CASE Next
  BY <1>1, <1>3, StepRecovery, RecoveryBegins, RecLookupKeeps, RecReadSizeKeeps, RecReadByteKeeps,
     RecReadDoneKeeps DEF Next
<1> QED BY <1>2, <1>3

\* What a size covers has persisted before it.
LEMMA JustifiedData ==
  ASSUME NEW s, IsFs(s), SizesOK(s), NEW pb, pb = calcPb(s.disk), NEW p \in Nat,
         NEW w \in SizeWrites(s), p < s.disk[w].val
  PROVE  \E d \in DskWrites(s.disk) : d \in pb[w] /\ s.disk[d].loc = Loc(s.disk[w].loc.inode, "data", p)
<1> DEFINE Found(v) == \E d \in DskWrites(s.disk) : d \in pb[v] /\ s.disk[d].loc = Loc(s.disk[v].loc.inode, "data", p)
           S == {v \in SizeWrites(s) : p < s.disk[v].val /\ ~Found(v)}
<1>1. IsSeq(s.disk) /\ DskWrites(s.disk) \subseteq Nat /\ SizeWrites(s) \subseteq DskWrites(s.disk)
  BY DEF IsFs, IsSeq, DskWrites, SizeWrites
<1>2. SUFFICES ASSUME S # {} PROVE FALSE
  OBVIOUS
<1>3. S \in SUBSET Nat
  BY <1>1
<1>4. PICK v \in S : \A m \in S : v <= m
  BY <1>2, <1>3, LeastNat
<1>5. v \in SizeWrites(s) /\ v \in DskWrites(s.disk) /\ p < s.disk[v].val /\ ~Found(v)
  BY <1>1, <1>4
<1>6. PICK d \in DskWrites(s.disk) : d < v /\
        \/ s.disk[d].loc = Loc(s.disk[v].loc.inode, "data", p) /\ d \in s.disk[v].pb
        \/ s.disk[d].loc = s.disk[v].loc /\ p < s.disk[d].val
  BY <1>5 DEF SizesOK, Justified
<1>7. PbEdge(s.disk, d, v)
  BY <1>6 DEF PbEdge, CoBefore
<1>8. d \in pb[v] /\ pb[d] \subseteq pb[v]
  BY <1>1, <1>5, <1>6, <1>7, PbClosed
<1>9. CASE s.disk[d].loc = Loc(s.disk[v].loc.inode, "data", p)
  BY <1>5, <1>8, <1>9
<1>10. CASE s.disk[d].loc = s.disk[v].loc /\ p < s.disk[d].val
  <2>1. d \in SizeWrites(s)
    BY <1>5, <1>10 DEF SizeWrites
  <2>2. Found(d)
    <3>1. d \notin S
      BY <1>1, <1>4, <1>5, <1>6
    <3> QED BY <1>10, <2>1, <3>1
  <2>3. PICK e \in DskWrites(s.disk) : e \in pb[d] /\ s.disk[e].loc = Loc(s.disk[d].loc.inode, "data", p)
    BY <2>2
  <2> QED BY <1>5, <1>8, <1>10, <2>3
<1> QED BY <1>6, <1>9, <1>10

\* A read does not miss what has persisted.
LEMMA ReadIsCurrent ==
  ASSUME RInv, IsFs(fs), NEW r \in rec.reads, NEW q \in rec.reads, q.rf # 0,
         NEW d \in DskWrites(fs.disk), fs.disk[d].loc = r.loc, d = q.rf \/ d \in rec.pb[q.rf]
  PROVE  ~(r.rf < d)
<1>1. isRecFromReadValid(fs.disk, rec.pb, rec.reads, r)
  BY DEF RInv, Recovering, isRecAcyclic
<1> QED BY <1>1 DEF isRecFromReadValid

\* Recovery reads a file up to the size it found, and in ordered mode
\* (updateInodeDisksizeFS waits for the range) it finds a byte that the
\* programs wrote, wherever the crash was: never one that was not written.
THEOREM SizesAreRecovered == Spec => []RecoveredInitialized
<1>1. Init => IInv /\ SInv /\ RInv
  BY InitHolds, InitSizes, InitRecovery
<1>2. IInv /\ SInv /\ RInv /\ [Next]_vars => (IInv /\ SInv /\ RInv)'
  <2> SUFFICES ASSUME IInv, SInv, RInv, [Next]_vars PROVE IInv' /\ SInv' /\ RInv'
    OBVIOUS
  <2> QED BY DataStep, NextRecovery
<1>3. IInv /\ SInv /\ RInv => RecoveredInitialized
  <2> SUFFICES ASSUME IInv, SInv, RInv, Journal = "ordered", rec.got # <<>>, NEW k \in DOMAIN rec.got.rfs, rec.got.rfs[k] = 0
               PROVE  FALSE
    BY DEF RecoveredInitialized
  <2>1. IsFs(fs) /\ SizesOK(fs)
    BY InvFs DEF SInv, DataOK
  <2>2. /\ rec.on /\ SizeSeen /\ rec.got.rfs \in Seq(Nat) /\ \A n \in 1 .. Len(rec.got.rfs) : ByteSeen(n)
    BY DEF RInv
  <2>3. k \in 1 .. Len(rec.got.rfs)
    BY <2>2
  <2>4. PICK i, p, r : /\ i = rec.got.inode /\ p = k - 1 /\ r = DskReadLabel(Loc(i, "data", p), 0)
    OBVIOUS
  <2>5. p \in Nat /\ p < rec.got.size /\ r \in rec.reads /\ r.rf = 0 /\ r.loc = Loc(i, "data", p)
    BY <2>2, <2>3, <2>4 DEF ByteSeen, IsRead, DskReadLabel
  <2>6. PICK w, q : /\ q = DskReadLabel(Loc(i, "size", 0), w) /\ q \in rec.reads /\ rec.got.size = ValueOf(fs, w)
    BY <2>2, <2>4 DEF SizeSeen, IsRead
  <2>7. q.rf = w /\ q.loc = Loc(i, "size", 0)
    BY <2>6 DEF DskReadLabel
  <2>8. w # 0
    <3>1. ~(p < 0)
      BY <2>5
    <3> QED BY <2>5, <2>6, <3>1 DEF ValueOf
  <2>9. w \in DskWrites(fs.disk) /\ fs.disk[w].loc = Loc(i, "size", 0) /\ rec.pb = calcPb(fs.disk)
    BY <2>2, <2>6, <2>7, <2>8 DEF RInv, Recovering, IsRf
  <2>10. w \in SizeWrites(fs) /\ p < fs.disk[w].val /\ fs.disk[w].loc.inode = i
    BY <2>5, <2>6, <2>8, <2>9 DEF SizeWrites, Loc, ValueOf
  <2>11. PICK d \in DskWrites(fs.disk) : d \in rec.pb[w] /\ fs.disk[d].loc = Loc(i, "data", p)
    BY <2>1, <2>5, <2>9, <2>10, JustifiedData
  <2>12. ~(0 < d)
    BY <2>1, <2>5, <2>6, <2>7, <2>8, <2>11, ReadIsCurrent
  <2>13. d \in Nat /\ d # 0
    BY <2>1, <2>11 DEF DskWrites, IsFs, IsSeq
  <2> QED BY <2>12, <2>13
<1> QED BY <1>1, <1>2, <1>3, PTL DEF Spec

-----------------------------------------------------------------------------
(* The history of the directory.                                           *)

DirWrites(s) == {w \in DskWrites(s.disk) : Class(s.disk[w].loc) = "dir"}

\* A write to the directory persists after those before it.
DirLogged(s) ==
  /\ \A a \in DirWrites(s) : s.disk[a].loc = Loc(Dir, "trans", 0) \/ s.disk[a].map = Dir
  /\ \A a, b \in DirWrites(s) : a < b => a \in s.disk[b].pb \/ s.disk[a].loc = s.disk[b].loc

\* A thread that may change it knows them all.
Held(s, t) == DirLogged(s) /\ DirWrites(s) \subseteq s.known[t]

\* The lock hands them on, and while it is held a transaction is open.
DirInv(s) ==
  /\ DirLogged(s)
  /\ IF s.inodes[Dir].lock = Nobody THEN DirWrites(s) \subseteq s.inodes[Dir].lk
     ELSE DirWrites(s) \subseteq s.known[s.inodes[Dir].lock] /\ getInodeTransStatus(s, Dir) = 1

OneMore(s, z) == \E n : DirWrites(z) \subseteq DirWrites(s) \cup {n}

LEMMA DirClass ==
  /\ Class(Loc(Dir, "trans", 0)) = "dir" /\ \A n : Class(Loc(Dir, "name", n)) = "dir"
  /\ \A loc : Class(loc) = "dir" => loc.inode = Dir
BY DEF Class, Loc

\* Writes to other locations do not matter.
LEMMA DirSteady ==
  ASSUME NEW s, IsFs(s), NEW z, IsFs(z), NEW C, LogGrows(s, z, C), "dir" \notin C
  PROVE  /\ DirWrites(z) = DirWrites(s) /\ DirWrites(s) \subseteq 1 .. Len(s.disk)
         /\ \A a \in DirWrites(s) : z.disk[a] = s.disk[a]
<1> HIDE DEF Class
<1>1. /\ DskWrites(s.disk) \subseteq 1 .. Len(s.disk)
      /\ \A k \in 1 .. Len(s.disk) : z.disk[k] = s.disk[k]
      /\ \A k \in 1 .. Len(s.disk) : k \in DskWrites(z.disk) <=> k \in DskWrites(s.disk)
      /\ \A k \in DskWrites(z.disk) : k \in DskWrites(s.disk) \/ Class(z.disk[k].loc) \in C
  BY GrownDisk
<1>2. DirWrites(z) \subseteq DirWrites(s)
  BY <1>1 DEF DirWrites
<1>3. DirWrites(s) \subseteq DirWrites(z)
  BY <1>1 DEF DirWrites
<1>4. DirWrites(s) \subseteq 1 .. Len(s.disk)
  BY <1>1 DEF DirWrites
<1> QED BY <1>1, <1>2, <1>3, <1>4

LEMMA SteadyLogged ==
  ASSUME NEW s, IsFs(s), NEW z, IsFs(z), NEW C, LogGrows(s, z, C), "dir" \notin C, DirLogged(s)
  PROVE  DirLogged(z) /\ DirWrites(z) = DirWrites(s)
<1>1. DirWrites(z) = DirWrites(s) /\ \A a \in DirWrites(s) : z.disk[a] = s.disk[a]
  BY DirSteady
<1> HIDE DEF DirWrites
<1> QED BY <1>1 DEF DirLogged

LEMMA SteadyHeld ==
  ASSUME NEW s, IsFs(s), NEW z, IsFs(z), NEW C, LogGrows(s, z, C), "dir" \notin C, NEW t \in Threads, Held(s, t)
  PROVE  Held(z, t) /\ DirWrites(z) = DirWrites(s)
<1>1. DirLogged(z) /\ DirWrites(z) = DirWrites(s)
  BY SteadyLogged DEF Held
<1>2. s.known[t] \subseteq z.known[t]
  BY DEF LogGrows
<1> HIDE DEF DirWrites, DirLogged
<1> QED BY <1>1, <1>2 DEF Held

LEMMA SteadyStored ==
  ASSUME NEW s, IsFs(s), NEW z, IsFs(z), NEW C, LogGrows(s, z, C), "dir" \notin C, NEW loc, Class(loc) = "dir"
  PROVE  Stored(z, loc) = Stored(s, loc)
<1> HIDE DEF Class
<1>1. DirWrites(z) = DirWrites(s) /\ \A a \in DirWrites(s) : z.disk[a] = s.disk[a]
  BY DirSteady
<1>2. StoresTo(z, loc) = StoresTo(s, loc)
  <2>1. ASSUME NEW x, Class(loc) = "dir" PROVE StoresTo(x, loc) = {a \in DirWrites(x) : x.disk[a].loc = loc}
    BY <2>1 DEF StoresTo, DirWrites
  <2>2. /\ StoresTo(z, loc) = {a \in DirWrites(z) : z.disk[a].loc = loc}
        /\ StoresTo(s, loc) = {a \in DirWrites(s) : s.disk[a].loc = loc}
    BY <2>1
  <2> HIDE DEF DirWrites, StoresTo
  <2> QED BY <1>1, <2>2
<1>3. LastWrite(z, loc) = LastWrite(s, loc)
  BY <1>2 DEF LastWrite, StoresTo
<1>4. LastWrite(s, loc) \in {0} \cup StoresTo(s, loc)
  BY LastWriteIsLast DEF IsFs
<1>5. LastWrite(s, loc) = 0 \/ LastWrite(s, loc) \in DirWrites(s)
  BY <1>4 DEF StoresTo, DirWrites
<1> HIDE DEF DirWrites, LastWrite
<1> QED BY <1>1, <1>3, <1>5 DEF Stored, ValueOf

LEMMA SteadyDir ==
  ASSUME NEW s, IsFs(s), NEW z, IsFs(z), NEW C, LogGrows(s, z, C), "dir" \notin C, DirStays(s, z), DirInv(s)
  PROVE  DirInv(z) /\ DirWrites(z) = DirWrites(s)
<1>1. DirLogged(z) /\ DirWrites(z) = DirWrites(s)
  BY SteadyLogged DEF DirInv
<1>2. Dir \in 1 .. Len(s.inodes)
  BY DEF IsFs, Dir
<1>3. s.inodes[Dir].lock \in Threads \cup {Nobody}
  BY <1>2, InodeFields
<1>4. s.inodes[Dir].lock # Nobody => s.known[s.inodes[Dir].lock] \subseteq z.known[s.inodes[Dir].lock]
  BY <1>3 DEF LogGrows
<1>5. getInodeTransStatus(z, Dir) = getInodeTransStatus(s, Dir)
  BY DirClass, SteadyStored DEF getInodeTransStatus
<1> HIDE DEF DirWrites, DirLogged, getInodeTransStatus
<1> QED BY <1>1, <1>4, <1>5 DEF DirInv, DirStays

\* A write that waits for those before it, except for those it replaces.
LEMMA WriteHeld ==
  ASSUME NEW s, IsFs(s), NEW t \in Threads, Held(s, t), NEW lab, IsLabel(lab), "map" \in DOMAIN lab,
         lab.loc = Loc(Dir, "trans", 0) \/ lab.map = Dir,
         \A a \in DirWrites(s) :
           a \in calcDskMemAccessPbView(s.disk, s.known[t], lab) \/ s.disk[a].loc = lab.loc,
         NEW z, z = DskWrite(s, t, lab)
  PROVE  Held(z, t) /\ OneMore(s, z)
<1>1. PICK pb : pb = calcDskMemAccessPbView(s.disk, s.known[t], lab)
  OBVIOUS
<1>2. PICK e : e = DskEvent(lab, s.known[t], pb)
  OBVIOUS
<1>3. e.pb = pb /\ e.loc = lab.loc
  BY <1>2, DskEventViews, DskEventLabel
<1>4. e.map = lab.map
  BY <1>2 DEF DskEvent
<1>5. z = Log(s, t, lab, pb)
  BY <1>1 DEF DskWrite
<1>6. PICK n : n = Len(s.disk) + 1
  OBVIOUS
<1>7. /\ IsFs(z) /\ Len(s.disk) \in Nat /\ z.disk[n] = e /\ \A k \in 1 .. Len(s.disk) : z.disk[k] = s.disk[k]
      /\ n \in z.known[t] /\ s.known[t] \subseteq z.known[t] /\ Len(z.disk) = n
  BY <1>2, <1>5, <1>6, LogEvent DEF DiskStep
<1> HIDE DEF Class
<1>8. LogGrows(s, z, {Class(lab.loc)})
  BY WriteAdds DEF Adds
<1>9. /\ DskWrites(s.disk) \subseteq 1 .. Len(s.disk) /\ DskWrites(z.disk) \subseteq 1 .. n
      /\ \A k \in 1 .. Len(s.disk) : k \in DskWrites(z.disk) <=> k \in DskWrites(s.disk)
  BY <1>7, <1>8, GrownDisk
<1>10. /\ DirWrites(z) \subseteq DirWrites(s) \cup {n} /\ DirWrites(s) \subseteq 1 .. Len(s.disk)
       /\ \A a \in DirWrites(s) : z.disk[a] = s.disk[a]
  <2>1. ASSUME NEW a \in DirWrites(z), a # n PROVE a \in DirWrites(s)
    <3>1. a \in 1 .. Len(s.disk)
      BY <1>6, <1>7, <1>9, <2>1 DEF DirWrites
    <3> QED BY <1>7, <1>9, <2>1, <3>1 DEF DirWrites
  <2>2. DirWrites(s) \subseteq 1 .. Len(s.disk)
    BY <1>9 DEF DirWrites
  <2> QED BY <1>7, <2>1, <2>2
<1>11. DirLogged(z)
  <2>1. ASSUME NEW a \in DirWrites(z) PROVE z.disk[a].loc = Loc(Dir, "trans", 0) \/ z.disk[a].map = Dir
    <3>1. CASE a = n
      BY <1>3, <1>4, <1>7, <3>1
    <3>2. CASE a \in DirWrites(s)
      BY <1>10, <3>2 DEF Held, DirLogged
    <3> QED BY <1>10, <2>1, <3>1, <3>2
  <2>2. ASSUME NEW a \in DirWrites(z), NEW b \in DirWrites(z), a < b
        PROVE  a \in z.disk[b].pb \/ z.disk[a].loc = z.disk[b].loc
    <3> HIDE DEF DirWrites
    <3>1. a \in DirWrites(s)
      BY <1>6, <1>7, <1>10, <2>2
    <3>2. CASE b = n
      BY <1>1, <1>3, <1>7, <1>10, <3>1, <3>2
    <3>3. CASE b \in DirWrites(s)
      <4>1. a \in s.disk[b].pb \/ s.disk[a].loc = s.disk[b].loc
        BY <2>2, <3>1, <3>3 DEF Held, DirLogged
      <4> QED BY <1>10, <3>1, <3>3, <4>1
    <3> QED BY <1>10, <3>2, <3>3
  <2> HIDE DEF DirWrites
  <2> QED BY <2>1, <2>2 DEF DirLogged
<1> HIDE DEF DirWrites, DirLogged
<1>12. DirWrites(z) \subseteq z.known[t]
  BY <1>7, <1>10 DEF Held
<1> QED BY <1>10, <1>11, <1>12 DEF Held, OneMore

\* The transaction of the directory.
LEMMA TransHeld ==
  ASSUME NEW s, IsFs(s), NEW t \in Threads, Held(s, t), NEW v, NEW z, z = setInodeTransStatus(s, t, Dir, v)
  PROVE  Held(z, t) /\ OneMore(s, z)
<1>1. PICK lab : lab = DskJnlWriteLabel(Loc(Dir, "trans", 0), v)
  OBVIOUS
<1>2. IsLabel(lab) /\ lab.loc = Loc(Dir, "trans", 0) /\ lab.kind = "jnl" /\ "map" \in DOMAIN lab
  BY <1>1 DEF IsLabel, DskJnlWriteLabel, DskWriteLabel, WriteKinds
<1>3. z = DskWrite(s, t, lab)
  BY <1>1 DEF setInodeTransStatus
<1>4. lab.loc.inode = Dir
  BY <1>2 DEF Loc
<1>5. ASSUME NEW a \in DirWrites(s)
      PROVE  a \in calcDskMemAccessPbView(s.disk, s.known[t], lab) \/ s.disk[a].loc = lab.loc
  <2>1. a \in s.known[t] /\ a \in DskWrites(s.disk) /\ (s.disk[a].loc = Loc(Dir, "trans", 0) \/ s.disk[a].map = Dir)
    BY DEF Held, DirLogged, DirWrites
  <2>2. CASE s.disk[a].map = Dir
    BY <1>2, <1>4, <2>1, <2>2 DEF calcDskMemAccessPbView, Joined
  <2> QED BY <1>2, <2>1, <2>2
<1> HIDE DEF DirWrites, Held
<1> QED BY <1>2, <1>3, <1>5, WriteHeld

\* An entry is written when what was written before has been written out.
LEMMA EntryHeld ==
  ASSUME NEW s, IsFs(s), NEW t \in Threads, Held(s, t), NEW n, NEW i, NEW z, z = updateDirNameInode(s, t, n, i)
  PROVE  Held(z, t) /\ OneMore(s, z)
<1>1. PICK x, lab, w :
        /\ x = executeFsyncFS(s, t, Dir) /\ w = DskWrite(x, t, lab)
        /\ lab = DskDirWriteLabel(Loc(Dir, "name", n), i, Dir)
        /\ z = w \/ z = executeFsyncFS(w, t, Dir)
  BY DEF updateDirNameInode
<1>2. IsLabel(lab) /\ lab.map = Dir /\ "map" \in DOMAIN lab
  BY <1>1 DEF IsLabel, DskDirWriteLabel, DskWriteLabel, WriteKinds
<1>3. PICK pb, f : pb = calcDskFencePbView(s.disk, s.known[t], DskFsyncLabel(Dir)) /\ f = DskEvent(DskFsyncLabel(Dir), s.known[t], pb)
  OBVIOUS
<1>4. x = Log(s, t, DskFsyncLabel(Dir), pb)
  BY <1>1, <1>3 DEF executeFsyncFS, DskFence
<1>5. PICK k : k = Len(s.disk) + 1
  OBVIOUS
<1>6. /\ IsFs(x) /\ Len(s.disk) \in Nat /\ x.disk[k] = f /\ Len(x.disk) = k /\ k \in x.known[t]
      /\ \A j \in 1 .. Len(s.disk) : x.disk[j] = s.disk[j]
  BY <1>3, <1>4, <1>5, LogEvent DEF DiskStep
<1>7. k \in DskFences(x.disk)
  <2>1. IsFence(DskFsyncLabel(Dir)) /\ DskFsyncLabel(Dir).kind = "fsync"
    BY DEF IsFence, DskFsyncLabel, WriteKinds
  <2>2. f.kind = "fsync"
    BY <1>3, <2>1, DskEventFence
  <2>3. k \in DOMAIN x.disk
    BY <1>5, <1>6 DEF IsFs, IsSeq
  <2> QED BY <1>6, <2>2, <2>3 DEF DskFences, DskWrites
<1>8. DirWrites(s) \subseteq f.pb
  <2>1. f.pb = calcFsyncPbView(s.disk, s.known[t], Dir)
    <3>1. DskFsyncLabel(Dir).kind = "fsync" /\ DskFsyncLabel(Dir).inode = Dir
      BY DEF DskFsyncLabel
    <3>2. f.pb = pb
      BY <1>3, DskEventViews
    <3> QED BY <1>3, <3>1, <3>2 DEF calcDskFencePbView
  <2>2. ASSUME NEW a \in DirWrites(s) PROVE a \in s.known[t] /\ s.disk[a].loc.inode = Dir
    BY DirClass DEF Held, DirWrites
  <2> HIDE DEF DirWrites
  <2> QED BY <2>1, <2>2 DEF calcFsyncPbView, isDskAccessInRange, Joined
<1>9. LogGrows(s, x, {})
  BY <1>1, FsyncAdds DEF Adds
<1>10. Held(x, t) /\ DirWrites(x) = DirWrites(s)
  BY <1>6, <1>9, SteadyHeld
<1>11. ASSUME NEW a \in DirWrites(x)
       PROVE  a \in calcDskMemAccessPbView(x.disk, x.known[t], lab) \/ x.disk[a].loc = lab.loc
  <2>1. a \in x.disk[k].pb
    BY <1>6, <1>8, <1>10
  <2> QED BY <1>6, <1>7, <2>1 DEF calcDskMemAccessPbView, Joined
<1> HIDE DEF DirWrites, Held
<1>12. Held(w, t) /\ OneMore(x, w)
  BY <1>1, <1>2, <1>6, <1>10, <1>11, WriteHeld
<1>13. IsFs(w)
  BY <1>1, <1>2, <1>6, DskWriteFacts DEF DiskStep
<1>14. Held(z, t) /\ DirWrites(z) = DirWrites(w)
  <2>1. CASE z = executeFsyncFS(w, t, Dir)
    <3>1. IsFs(z) /\ LogGrows(w, z, {})
      BY <1>13, <2>1, FsyncAdds DEF Adds
    <3> QED BY <1>12, <1>13, <3>1, SteadyHeld
  <2> QED BY <1>1, <1>12, <2>1
<1> QED BY <1>10, <1>12, <1>14 DEF OneMore

\* A new file is written to the disk before its entry.
LEMMA CreateHeld ==
  ASSUME NEW s, IsFs(s), NEW t \in Threads, Held(s, t), NEW n, NEW z, z = executeInodeCreateFS(s, t, n)
  PROVE  Held(z, t) /\ OneMore(s, z)
<1>1. PICK i, r, a, x, b :
        /\ i = Len(s.inodes) + 1
        /\ r = NewInode(s.known[t])
        /\ a = [s EXCEPT !.inodes = Append(@, r)]
        /\ x = setInodeTransStatus(a, t, i, 0) /\ b = updateInodeDisksizeFS(x, t, i, 0, 0, 0)
        /\ z = updateDirNameInode(b, t, n, i)
  BY DEF executeInodeCreateFS, NewInode
<1>2. Adds(s, a, {}) /\ IsFs(a)
  BY <1>1, NewInodeAdds
<1>3. i # Dir
  BY <1>1 DEF IsFs, Dir
<1>4. Adds(a, x, {IF i = Dir THEN "dir" ELSE "other"})
  BY <1>1, <1>2, SetTransAdds
<1>5. Adds(a, x, {"other"}) /\ IsFs(x)
  BY <1>3, <1>4 DEF Adds
<1>6. Adds(x, b, {"size"}) /\ IsFs(b)
  BY <1>1, <1>5, DisksizeAdds DEF Adds
<1> HIDE DEF DirWrites, Held
<1>7. Held(a, t) /\ DirWrites(a) = DirWrites(s)
  BY <1>2, SteadyHeld DEF Adds
<1>8. Held(x, t) /\ DirWrites(x) = DirWrites(a)
  BY <1>2, <1>5, <1>7, SteadyHeld DEF Adds
<1>9. Held(b, t) /\ DirWrites(b) = DirWrites(x)
  BY <1>5, <1>6, <1>8, SteadyHeld DEF Adds
<1>10. Held(z, t) /\ OneMore(b, z)
  BY <1>1, <1>6, <1>9, EntryHeld
<1> QED BY <1>7, <1>8, <1>9, <1>10 DEF OneMore

\* Who locks the directory learns of the writes to it, who unlocks it passes
\* them on.
LEMMA LockHeld ==
  ASSUME IInv, DirInv(fs), NEW t \in Threads, InodeFree(Dir), NEW n, NEW m, NEW l,
         l = LookupReads(LockInode(fs, t, Dir), t, n)
           \/ l = LookupReads(LookupReads(LockInode(fs, t, Dir), t, n), t, m)
  PROVE  Held(l, t) /\ DirWrites(l) = DirWrites(fs)
<1>1. IsFs(fs) /\ Dir \in 1 .. Len(fs.inodes)
  BY InvFs
<1>2. PICK x, y : x = LockInode(fs, t, Dir) /\ y = LookupReads(x, t, n)
  OBVIOUS
<1>3. IsFs(x) /\ x.disk = fs.disk
  BY <1>1, <1>2, LockInodeFacts DEF InodeStep
<1>4. PICK K : K = fs.inodes[Dir].lk
  OBVIOUS
<1>5. x.known = [fs.known EXCEPT ![t] = @ \cup K] /\ fs.known \in [Threads -> SUBSET Nat]
  BY <1>1, <1>2, <1>4 DEF LockInode, IsFs
<1>6. K \subseteq x.known[t]
  BY <1>5
<1>7. DirWrites(x) = DirWrites(fs) /\ (DirLogged(fs) => DirLogged(x))
  BY <1>3 DEF DirWrites, DirLogged
<1> HIDE DEF DirWrites, DirLogged
<1>8. Held(x, t)
  BY <1>4, <1>6, <1>7 DEF InodeFree, DirInv, Held
<1> HIDE DEF Held
<1>9. Adds(x, y, {})
  BY <1>2, <1>3, LookupAdds
<1>10. IsFs(y) /\ Held(y, t) /\ DirWrites(y) = DirWrites(x)
  BY <1>3, <1>8, <1>9, SteadyHeld DEF Adds
<1>11. CASE l = LookupReads(y, t, m)
  <2>1. Adds(y, l, {})
    BY <1>10, <1>11, LookupAdds
  <2> QED BY <1>7, <1>10, <2>1, SteadyHeld DEF Adds
<1> QED BY <1>2, <1>7, <1>10, <1>11

LEMMA UnlockHeld ==
  ASSUME NEW s, IsFs(s), NEW t \in Threads, Held(s, t), NEW z, z = UnlockInode(s, t, Dir)
  PROVE  DirInv(z) /\ DirWrites(z) = DirWrites(s) /\ IsFs(z)
<1>1. Dir \in 1 .. Len(s.inodes)
  BY DEF IsFs, Dir
<1>2. IsFs(z) /\ z.disk = s.disk /\ z.inodes[Dir].lock = Nobody
  BY <1>1, UnlockInodeFacts DEF InodeStep
<1>3. z.inodes[Dir].lk = s.known[t]
  BY <1>1 DEF UnlockInode, IsFs
<1>4. DirWrites(z) = DirWrites(s) /\ (DirLogged(s) => DirLogged(z))
  BY <1>2 DEF DirWrites, DirLogged
<1> HIDE DEF DirWrites, DirLogged
<1> QED BY <1>2, <1>3, <1>4 DEF DirInv, Held

LEMMA HeldIsLocked ==
  ASSUME NEW s, NEW t \in Threads, Held(s, t), s.inodes[Dir].lock = t, getInodeTransStatus(s, Dir) = 1
  PROVE  DirInv(s)
<1> HIDE DEF DirWrites, DirLogged, getInodeTransStatus
<1> QED BY ThreadsAssumption DEF DirInv, Held, Nobody

LEMMA LockedHeld ==
  ASSUME NEW s, NEW t \in Threads, DirInv(s), s.inodes[Dir].lock = t
  PROVE  Held(s, t) /\ getInodeTransStatus(s, Dir) = 1
<1> HIDE DEF DirWrites, DirLogged, getInodeTransStatus
<1> QED BY ThreadsAssumption DEF DirInv, Held, Nobody

\* Most calls do not write to the directory.
DirCall(t) == \/ OpenCreate(t) \/ Link(t) \/ Unlink(t) \/ TruncateLookup(t)
              \/ RenameBegin(t) \/ RenameLink(t) \/ RenameUnlink(t) \/ RenameEnd(t)
FileOnly(s, z) ==
  IsFs(z) /\ DirStays(s, z) /\ \E C \in SUBSET {"size", "other"} : LogGrows(s, z, C)

LEMMA AddsFileOnly ==
  ASSUME NEW s, NEW z, NEW C, Adds(s, z, C), C \subseteq {"size", "other"}
  PROVE  FileOnly(s, z)
BY DEF Adds, FileOnly

LEMMA GrowsFileOnly ==
  ASSUME NEW s, NEW z, \E i : FileGrows(s, z, i)
  PROVE  FileOnly(s, z)
BY DEF FileGrows, FileOnly

LEMMA OtherFileOnly ==
  ASSUME IInv, IInv', NEW t \in Threads, Step(t), ~DirCall(t)
  PROVE  FileOnly(fs, fs')
<1> DEFINE S == {"size", "other"}
<1>1. CASE BadDescriptor(t) \/ OpenBadFlags(t) \/ BadOffset(t)
  BY <1>1, BadCallsAdd, AddsFileOnly
<1>2. CASE OpenLookup(t)
  <2>1. Adds(fs, fs', {})
    BY <1>2, OpenLookupAdds
  <2> QED BY <2>1, AddsFileOnly
<1>3. CASE executeTruncateFS(t) \/ WriteChecks(t) \/ BlockEnd(t)
  BY <1>3, TruncateSizes, WriteChecksSizes, BlockEndSizes, GrowsFileOnly
<1>4. CASE StartWrite(t) \/ StartRead(t)
  <2>1. Adds(fs, fs', {})
    BY <1>4, StartWriteAdds, StartReadAdds
  <2> QED BY <2>1, AddsFileOnly
<1>5. CASE BlockBegin(t) \/ WriteByte(t) \/ EndWrite(t)
  <2>1. Adds(fs, fs', {"other"})
    BY <1>5, BlockBeginAdds, WriteByteAdds, EndWriteAdds
  <2> QED BY <2>1, AddsFileOnly
<1>6. CASE ReadByte(t) \/ EndRead(t) \/ Lseek(t)
  <2>1. Adds(fs, fs', {})
    BY <1>6, ReadsAdd, LseekAdds
  <2> QED BY <2>1, AddsFileOnly
<1>7. CASE Fsync(t) \/ Sync(t) \/ PersBarrier(t) \/ Close(t)
  <2>1. Adds(fs, fs', {})
    BY <1>7, FencesAdd, CloseAdds
  <2> QED BY <2>1, AddsFileOnly
<1> QED BY <1>1, <1>2, <1>3, <1>4, <1>5, <1>6, <1>7 DEF Step, DirCall

\* One call, or one step of a rename, writes to the directory at most once.
DirMoves(s, z) ==
  IsFs(z) /\ DirInv(z) /\ OneMore(s, z) /\ LogGrows(s, z, {"dir", "size", "other"})

LEMMA NoMore ==
  ASSUME NEW s, NEW z, DirWrites(z) = DirWrites(s)
  PROVE  OneMore(s, z)
<1> HIDE DEF DirWrites
<1> QED BY DEF OneMore

LEMMA FileOnlyMoves ==
  ASSUME NEW s, IsFs(s), NEW z, FileOnly(s, z), DirInv(s)
  PROVE  DirMoves(s, z)
<1>1. PICK C \in SUBSET {"size", "other"} : LogGrows(s, z, C)
  BY DEF FileOnly
<1>2. IsFs(z) /\ DirStays(s, z) /\ "dir" \notin C
  BY DEF FileOnly
<1>3. DirInv(z) /\ DirWrites(z) = DirWrites(s)
  BY <1>1, <1>2, SteadyDir
<1>4. LogGrows(s, z, {"dir", "size", "other"})
  BY <1>1, LogGrowsMore
<1> HIDE DEF DirWrites, DirInv
<1> QED BY <1>2, <1>3, <1>4, NoMore DEF DirMoves

LEMMA AddsMoves ==
  ASSUME NEW s, NEW z, Adds(s, z, {"dir"}), DirInv(z), OneMore(s, z)
  PROVE  DirMoves(s, z)
<1>1. LogGrows(s, z, {"dir", "size", "other"}) /\ IsFs(z)
  BY LogGrowsMore DEF Adds
<1> HIDE DEF DirInv, OneMore
<1> QED BY <1>1 DEF DirMoves

LEMMA TruncateLookupMoves ==
  ASSUME IInv, DirInv(fs), NEW t \in Threads, TruncateLookup(t)
  PROVE  DirMoves(fs, fs')
<1>1. PICK l : l = LookupReads(LockInode(fs, t, Dir), t, Call(t).name)
  OBVIOUS
<1>2. fs' = UnlockInode(l, t, Dir) /\ InodeFree(Dir)
  BY <1>1 DEF TruncateLookup
<1> HIDE DEF DirInv, DirWrites, Held
<1>3. Held(l, t) /\ DirWrites(l) = DirWrites(fs) /\ IsFs(l)
  BY <1>1, <1>2, LockHeld, DirLockedAdds
<1>4. DirInv(fs') /\ DirWrites(fs') = DirWrites(l)
  BY <1>2, <1>3, UnlockHeld
<1> QED BY <1>3, <1>4, NoMore, AddsMoves, TruncateLookupAdds

LEMMA EntryChangeMoves ==
  ASSUME IInv, DirInv(fs), NEW t \in Threads, Link(t) \/ Unlink(t)
  PROVE  DirMoves(fs, fs')
<1> HIDE DEF DirInv, DirWrites, Held
<1>1. PICK l, x, n, i :
        /\ Held(l, t) /\ DirWrites(l) = DirWrites(fs) /\ IsFs(l)
        /\ x = l \/ x = updateDirNameInode(l, t, n, i)
        /\ fs' = UnlockInode(x, t, Dir)
  <2>1. CASE Link(t)
    <3>1. PICK l, x, n, i :
            /\ l = LookupReads(LookupReads(LockInode(fs, t, Dir), t, Call(t).from), t, Call(t).to)
            /\ x = l \/ x = updateDirNameInode(l, t, n, i)
            /\ fs' = UnlockInode(x, t, Dir) /\ InodeFree(Dir)
      BY <2>1 DEF Link
    <3>2. Held(l, t) /\ DirWrites(l) = DirWrites(fs) /\ IsFs(l)
      BY <3>1, LockHeld, DirLockedAdds
    <3> QED BY <3>1, <3>2
  <2>2. CASE Unlink(t)
    <3>1. PICK l, x, n, i :
            /\ l = LookupReads(LockInode(fs, t, Dir), t, Call(t).name)
            /\ x = l \/ x = updateDirNameInode(l, t, n, i)
            /\ fs' = UnlockInode(x, t, Dir) /\ InodeFree(Dir)
      BY <2>2 DEF Unlink
    <3>2. Held(l, t) /\ DirWrites(l) = DirWrites(fs) /\ IsFs(l)
      BY <3>1, LockHeld, DirLockedAdds
    <3> QED BY <3>1, <3>2
  <2> QED BY <2>1, <2>2
<1>2. Held(x, t) /\ OneMore(l, x) /\ IsFs(x)
  BY <1>1, EntryHeld, NoMore, SetName DEF DiskStep
<1>3. DirInv(fs') /\ DirWrites(fs') = DirWrites(x)
  BY <1>1, <1>2, UnlockHeld
<1>4. OneMore(fs, fs')
  BY <1>1, <1>2, <1>3 DEF OneMore
<1> QED BY <1>3, <1>4, EntryChangeAdds, AddsMoves

LEMMA RenameBeginMoves ==
  ASSUME IInv, DirInv(fs), NEW t \in Threads, RenameBegin(t)
  PROVE  DirMoves(fs, fs')
<1>1. PICK n, m : n = Call(t).from /\ m = Call(t).to
  OBVIOUS
<1>2. PICK l : l = LookupReads(LookupReads(LockInode(fs, t, Dir), t, n), t, m)
  OBVIOUS
<1>3. (fs' = UnlockInode(l, t, Dir) \/ fs' = setInodeTransStatus(l, t, Dir, 1)) /\ InodeFree(Dir)
  BY <1>1, <1>2 DEF RenameBegin
<1> HIDE DEF DirInv, DirWrites, Held
<1>4. Held(l, t) /\ DirWrites(l) = DirWrites(fs) /\ IsFs(l)
  BY <1>2, <1>3, LockHeld, DirLockedAdds
<1>5. l.inodes[Dir].lock = t
  BY <1>2, DirFacts, DirLockedFacts
<1>6. DirInv(fs') /\ OneMore(l, fs')
  <2>1. CASE fs' = UnlockInode(l, t, Dir)
    BY <1>4, <2>1, UnlockHeld, NoMore
  <2>2. CASE fs' = setInodeTransStatus(l, t, Dir, 1)
    <3>1. fs'.inodes = l.inodes /\ getInodeTransStatus(fs', Dir) = 1
      BY <1>4, <2>2, SetTrans DEF Dir, DiskStep
    <3>2. Held(fs', t) /\ OneMore(l, fs')
      BY <1>4, <2>2, TransHeld
    <3> QED BY <1>5, <3>1, <3>2, HeldIsLocked
  <2> QED BY <1>3, <2>1, <2>2
<1>7. OneMore(fs, fs')
  BY <1>4, <1>6 DEF OneMore
<1> QED BY <1>6, <1>7, RenameAdds, AddsMoves

LEMMA RenameMoves ==
  ASSUME IInv, DirInv(fs), NEW t \in Threads, RenameLink(t) \/ RenameUnlink(t) \/ RenameEnd(t)
  PROVE  DirMoves(fs, fs')
<1>1. ctl[t].pc \in RenamePcs
  BY DEF RenameLink, RenameUnlink, RenameEnd, At, RenamePcs
<1>2. fs.inodes[Dir].lock = t /\ IsFs(fs) /\ Dir \in Nat
  BY <1>1, RenamingFacts
<1> HIDE DEF DirInv, DirWrites, Held, getInodeTransStatus
<1>3. Held(fs, t) /\ getInodeTransStatus(fs, Dir) = 1
  BY <1>2, LockedHeld
<1>4. CASE RenameLink(t) \/ RenameUnlink(t)
  <2>1. PICK n, i : fs' = updateDirNameInode(fs, t, n, i)
    BY <1>4 DEF RenameLink, RenameUnlink
  <2>2. fs'.inodes = fs.inodes /\ getInodeTransStatus(fs', Dir) = 1
    BY <1>2, <1>3, <2>1, SetName DEF DiskStep
  <2>3. Held(fs', t) /\ OneMore(fs, fs')
    BY <1>2, <1>3, <2>1, EntryHeld
  <2>4. DirInv(fs')
    BY <1>2, <2>2, <2>3, HeldIsLocked
  <2> QED BY <1>4, <2>3, <2>4, RenameAdds, AddsMoves
<1>5. CASE RenameEnd(t)
  <2>1. PICK x : x = setInodeTransStatus(fs, t, Dir, 0) /\ fs' = UnlockInode(x, t, Dir)
    BY <1>5 DEF RenameEnd
  <2>2. IsFs(x)
    BY <1>2, <2>1, SetTrans DEF DiskStep
  <2>3. Held(x, t) /\ OneMore(fs, x)
    BY <1>2, <1>3, <2>1, TransHeld
  <2>4. DirInv(fs') /\ DirWrites(fs') = DirWrites(x)
    BY <2>1, <2>2, <2>3, UnlockHeld
  <2>5. OneMore(fs, fs')
    BY <2>3, <2>4 DEF OneMore
  <2> QED BY <1>5, <2>4, <2>5, RenameAdds, AddsMoves
<1> QED BY <1>4, <1>5

LEMMA OpenCreateMoves ==
  ASSUME IInv, DirInv(fs), NEW t \in Threads, OpenCreate(t)
  PROVE  DirMoves(fs, fs')
<1>1. PICK n, l : n = Call(t).name /\ l = LookupReads(LockInode(fs, t, Dir), t, n)
  OBVIOUS
<1>2. InodeFree(Dir)
  BY DEF OpenCreate
<1>3. PICK x, s, i, flags :
        /\ x = l \/ x = executeInodeCreateFS(l, t, n)
        /\ s = UnlockInode(x, t, Dir) /\ i \in Nat /\ flags \in SUBSET Flags
        /\ FinishOpen(t, s, i, flags)
  BY <1>1, OpenCreateSplit
<1> HIDE DEF DirInv, DirWrites, Held
<1>4. Held(l, t) /\ DirWrites(l) = DirWrites(fs) /\ IsFs(l)
  BY <1>1, <1>2, LockHeld, DirLockedAdds
<1>5. Held(x, t) /\ OneMore(l, x) /\ IsFs(x)
  BY <1>3, <1>4, CreateHeld, NoMore, CreateFacts
<1>6. DirInv(s) /\ DirWrites(s) = DirWrites(x) /\ IsFs(s)
  BY <1>3, <1>5, UnlockHeld
<1>7. Adds(s, fs', {})
  BY <1>3, <1>6, FinishOpenAdds
<1>8. IsFs(fs') /\ LogGrows(s, fs', {}) /\ DirStays(s, fs')
  BY <1>7 DEF Adds
<1>9. DirInv(fs') /\ DirWrites(fs') = DirWrites(s)
  BY <1>6, <1>8, SteadyDir
<1>10. OneMore(fs, fs')
  BY <1>4, <1>5, <1>6, <1>9 DEF OneMore
<1>11. LogGrows(fs, fs', {"dir", "size", "other"})
  BY OpenCreateSizes DEF Adds
<1> QED BY <1>8, <1>9, <1>10, <1>11 DEF DirMoves

LEMMA StepDir ==
  ASSUME IInv, IInv', DirInv(fs), NEW t \in Threads, Step(t)
  PROVE  DirMoves(fs, fs')
<1>1. CASE ~DirCall(t)
  BY <1>1, InvFs, OtherFileOnly, FileOnlyMoves
<1>2. CASE DirCall(t)
  BY <1>2, OpenCreateMoves, EntryChangeMoves, TruncateLookupMoves, RenameBeginMoves, RenameMoves DEF DirCall
<1> QED BY <1>1, <1>2

\* What the directory was is remembered.
LEMMA PastGrows ==
  ASSUME IInv, IInv', NEW t \in Threads, Step(t)
  PROVE  spec.past \subseteq spec'.past /\ (spec'.names = spec.names \/ spec'.names \in spec'.past)
<1>1. spec = [names |-> spec.names, data |-> spec.data, past |-> spec.past]
  BY DEF IInv, TypeInv, IsSpec
<1>2. spec' = spec \/ (\E names : spec' = WithNames(spec, names))
        \/ (\E names, d : spec' = [WithNames(spec, names) EXCEPT !.data = Append(@, d)])
        \/ (\E i, d : spec' = [spec EXCEPT !.data[i] = d])
  BY DEF Step, BadDescriptor, Fail, OpenBadFlags, OpenLookup, OpenCreate, Link, Unlink, RenameBegin, RenameLink,
     RenameUnlink, RenameEnd, TruncateLookup, executeTruncateFS, BadOffset, StartWrite, WriteChecks, BlockBegin,
     WriteByte, BlockEnd, EndWrite, StartRead, ReadByte, EndRead, Lseek, Fsync, Sync, PersBarrier, Close
<1>3. ASSUME NEW names, NEW x, x = WithNames(spec, names)
      PROVE  x.names = names /\ x.past = spec.past \cup {names} /\ x = [names |-> x.names, data |-> x.data, past |-> x.past]
  BY <1>1, <1>3 DEF WithNames
<1>4. CASE spec' = spec
  BY <1>4
<1>5. CASE \E names : spec' = WithNames(spec, names)
  BY <1>3, <1>5
<1>6. CASE \E names, d : spec' = [WithNames(spec, names) EXCEPT !.data = Append(@, d)]
  <2>1. PICK names, d, x : x = WithNames(spec, names) /\ spec' = [x EXCEPT !.data = Append(@, d)]
    BY <1>6
  <2>2. x.names = names /\ x.past = spec.past \cup {names} /\ x = [names |-> x.names, data |-> x.data, past |-> x.past]
    BY <1>3, <2>1
  <2>3. spec'.names = names /\ spec'.past = x.past
    BY <2>1, <2>2
  <2> QED BY <2>2, <2>3
<1>7. CASE \E i, d : spec' = [spec EXCEPT !.data[i] = d]
  BY <1>1, <1>7
<1> QED BY <1>2, <1>4, <1>5, <1>6, <1>7

\* What a location holds if no write after m has reached the disk.
Shown(s, m, loc, v) ==
  \E w \in {0} \cup StoresTo(s, loc) :
    /\ w <= m /\ v = ValueOf(s, w)
    /\ \A x \in StoresTo(s, loc) : x <= m => x <= w

\* A transaction is open, or the directory is what it was between operations.
Snapshot(s, m, past) ==
  \/ Shown(s, m, Loc(Dir, "trans", 0), 1)
  \/ \E names \in past : \A n \in Names : Shown(s, m, Loc(Dir, "name", n), names[n])

HInv == /\ DirInv(fs) /\ spec.names \in spec.past
        /\ \A m \in {0} \cup DirWrites(fs) : Snapshot(fs, m, spec.past)

LEMMA ShownStays ==
  ASSUME NEW s, IsFs(s), NEW z, IsFs(z), NEW C, LogGrows(s, z, C),
         NEW m \in 0 .. Len(s.disk), NEW loc, NEW v, Shown(s, m, loc, v)
  PROVE  Shown(z, m, loc, v)
<1> HIDE DEF Class
<1>1. /\ Len(s.disk) \in Nat /\ DskWrites(s.disk) \subseteq 1 .. Len(s.disk)
      /\ DskWrites(z.disk) \subseteq 1 .. Len(z.disk) /\ Len(z.disk) \in Nat
      /\ \A k \in 1 .. Len(s.disk) : z.disk[k] = s.disk[k]
      /\ \A k \in 1 .. Len(s.disk) : k \in DskWrites(z.disk) <=> k \in DskWrites(s.disk)
  BY GrownDisk
<1>2. PICK w \in {0} \cup StoresTo(s, loc) :
        w <= m /\ v = ValueOf(s, w) /\ \A x \in StoresTo(s, loc) : x <= m => x <= w
  BY DEF Shown
<1>3. w \in {0} \cup StoresTo(z, loc)
  BY <1>1, <1>2 DEF StoresTo
<1>4. v = ValueOf(z, w)
  BY <1>1, <1>2 DEF StoresTo, ValueOf
<1>5. ASSUME NEW x \in StoresTo(z, loc), x <= m PROVE x <= w
  <2>1. x \in 1 .. Len(s.disk)
    BY <1>1, <1>5 DEF StoresTo
  <2>2. x \in StoresTo(s, loc)
    BY <1>1, <2>1 DEF StoresTo
  <2> QED BY <1>2, <1>5, <2>2
<1> HIDE DEF StoresTo
<1> QED BY <1>2, <1>3, <1>4, <1>5 DEF Shown

LEMMA ShownLast ==
  ASSUME NEW s, IsFs(s), NEW m \in Nat, \A a \in DirWrites(s) : a <= m, NEW loc, Class(loc) = "dir"
  PROVE  Shown(s, m, loc, Stored(s, loc))
<1>1. PICK w : w = LastWrite(s, loc)
  OBVIOUS
<1>2. w \in {0} \cup StoresTo(s, loc) /\ \A v \in StoresTo(s, loc) : v <= w
  BY <1>1, LastWriteIsLast DEF IsFs
<1>3. w <= m
  BY <1>2 DEF StoresTo, DirWrites
<1>4. Stored(s, loc) = ValueOf(s, w)
  BY <1>1 DEF Stored
<1> HIDE DEF StoresTo
<1> QED BY <1>2, <1>3, <1>4 DEF Shown

LEMMA ShownOnce ==
  ASSUME NEW s, IsFs(s), NEW m, NEW loc, NEW u, NEW v, Shown(s, m, loc, u), Shown(s, m, loc, v)
  PROVE  u = v
<1>1. StoresTo(s, loc) \subseteq Nat
  BY DEF StoresTo, DskWrites, IsFs, IsSeq
<1>2. PICK w \in {0} \cup StoresTo(s, loc) :
        w <= m /\ u = ValueOf(s, w) /\ \A x \in StoresTo(s, loc) : x <= m => x <= w
  BY DEF Shown
<1>3. PICK y \in {0} \cup StoresTo(s, loc) :
        y <= m /\ v = ValueOf(s, y) /\ \A x \in StoresTo(s, loc) : x <= m => x <= y
  BY DEF Shown
<1> HIDE DEF StoresTo
<1>4. w = y
  BY <1>1, <1>2, <1>3
<1> QED BY <1>2, <1>3, <1>4

LEMMA SnapshotStays ==
  ASSUME NEW s, IsFs(s), NEW z, IsFs(z), NEW C, LogGrows(s, z, C), NEW m \in 0 .. Len(s.disk),
         NEW P, Snapshot(s, m, P), NEW Q, P \subseteq Q
  PROVE  Snapshot(z, m, Q)
<1>1. \A loc, v : Shown(s, m, loc, v) => Shown(z, m, loc, v)
  BY ShownStays
<1> HIDE DEF Shown
<1> QED BY <1>1 DEF Snapshot

LEMMA StepHistory ==
  ASSUME IInv, IInv', HInv, NEW t \in Threads, Step(t)
  PROVE  HInv'
<1>1. IsFs(fs) /\ IsFs(fs') /\ DirInv(fs') /\ OneMore(fs, fs') /\ LogGrows(fs, fs', {"dir", "size", "other"})
  BY InvFs, StepDir DEF HInv, DirMoves
<1>2. spec.past \subseteq spec'.past /\ spec'.names \in spec'.past
  BY PastGrows DEF HInv
<1> HIDE DEF Class
<1>3. /\ Len(fs.disk) \in Nat /\ DirWrites(fs) \subseteq 1 .. Len(fs.disk)
      /\ DirWrites(fs') \subseteq 1 .. Len(fs'.disk) /\ Len(fs'.disk) \in Nat
      /\ \A a \in DirWrites(fs') : a <= Len(fs.disk) => a \in DirWrites(fs)
  <2>1. /\ Len(fs.disk) \in Nat /\ DskWrites(fs.disk) \subseteq 1 .. Len(fs.disk)
        /\ DskWrites(fs'.disk) \subseteq 1 .. Len(fs'.disk) /\ Len(fs'.disk) \in Nat
        /\ \A k \in 1 .. Len(fs.disk) : fs'.disk[k] = fs.disk[k]
        /\ \A k \in 1 .. Len(fs.disk) : k \in DskWrites(fs'.disk) <=> k \in DskWrites(fs.disk)
    BY <1>1, GrownDisk
  <2>2. ASSUME NEW a \in DirWrites(fs'), a <= Len(fs.disk) PROVE a \in DirWrites(fs)
    <3>1. a \in 1 .. Len(fs.disk)
      BY <2>1, <2>2 DEF DirWrites
    <3> QED BY <2>1, <3>1 DEF DirWrites
  <2>3. DirWrites(fs) \subseteq 1 .. Len(fs.disk) /\ DirWrites(fs') \subseteq 1 .. Len(fs'.disk)
    BY <2>1 DEF DirWrites
  <2> HIDE DEF DirWrites
  <2> QED BY <2>1, <2>2, <2>3
<1> HIDE DEF DirWrites, DirInv, Snapshot, Shown
<1>4. ASSUME NEW m \in {0} \cup DirWrites(fs') PROVE Snapshot(fs', m, spec'.past)
  <2>1. CASE m \in {0} \cup DirWrites(fs)
    <3>1. m \in 0 .. Len(fs.disk) /\ Snapshot(fs, m, spec.past)
      BY <1>3, <2>1 DEF HInv
    <3> QED BY <1>1, <1>2, <3>1, SnapshotStays
  <2>2. CASE m \notin {0} \cup DirWrites(fs)
    <3>1. PICK n : DirWrites(fs') \subseteq DirWrites(fs) \cup {n}
      BY <1>1 DEF OneMore
    <3>2. m = n /\ m \in Nat /\ ~(m <= Len(fs.disk))
      BY <1>3, <1>4, <2>2, <3>1
    <3>3. \A a \in DirWrites(fs') : a <= m
      BY <1>3, <3>1, <3>2
    <3>4. /\ Shown(fs', m, Loc(Dir, "trans", 0), getInodeTransStatus(fs', Dir))
          /\ \A k : Shown(fs', m, Loc(Dir, "name", k), Lookup(fs', k))
      BY <1>1, <3>2, <3>3, ShownLast, DirClass DEF getInodeTransStatus, Lookup
    <3>5. CASE fs'.inodes[Dir].lock = Nobody
      <4>1. \A k \in Names : Lookup(fs', k) = spec'.names[k]
        <5>1. DirOK'
          BY <3>5 DEF IInv
        <5>2. (\A k \in Names : Lookup(fs, k) = spec.names[k])'
          BY <5>1 DEF DirOK
        <5> QED BY <5>2
      <4> HIDE DEF Lookup
      <4> QED BY <1>2, <3>4, <4>1 DEF Snapshot
    <3>6. CASE fs'.inodes[Dir].lock # Nobody
      <4>1. getInodeTransStatus(fs', Dir) = 1
        BY <1>1, <3>6 DEF DirInv
      <4> HIDE DEF getInodeTransStatus
      <4> QED BY <3>4, <4>1 DEF Snapshot
    <3> QED BY <3>5, <3>6
  <2> QED BY <2>1, <2>2
<1>5. /\ DirInv(fs)' /\ (spec.names \in spec.past)'
      /\ (\A m \in {0} \cup DirWrites(fs) : Snapshot(fs, m, spec.past))'
  <2>1. DirInv(fs)'
    BY <1>1
  <2>2. (\A m \in {0} \cup DirWrites(fs) : Snapshot(fs, m, spec.past))'
    BY <1>4
  <2> QED BY <1>2, <2>1, <2>2
<1> QED BY <1>5 DEF HInv

LEMMA SameHistory ==
  ASSUME HInv, UNCHANGED <<mode, prog, ctl, fs, spec>>
  PROVE  HInv'
<1> HIDE DEF DirInv, DirWrites, Snapshot
<1> QED BY DEF HInv

LEMMA InitHistory ==
  ASSUME Init
  PROVE  HInv
<1>1. /\ fs.disk = <<>> /\ fs.inodes[Dir].lock = Nobody
      /\ spec.names = [n \in Names |-> NoInode] /\ spec.past = {[n \in Names |-> NoInode]}
  BY DEF Init, Dir
<1>2. DskWrites(fs.disk) = {}
  BY <1>1 DEF DskWrites
<1>3. DirWrites(fs) = {} /\ \A loc : StoresTo(fs, loc) = {}
  BY <1>2 DEF DirWrites, StoresTo
<1>4. fs.inodes[Dir].lock = Nobody
  BY <1>1 DEF Dir
<1>5. DirInv(fs)
  BY <1>3, <1>4 DEF DirInv, DirLogged
<1>6. \A loc : Shown(fs, 0, loc, 0)
  BY <1>3 DEF Shown, ValueOf
<1>7. Snapshot(fs, 0, spec.past)
  <2>1. PICK p : p = [n \in Names |-> NoInode]
    OBVIOUS
  <2>2. p \in spec.past /\ \A n \in Names : p[n] = 0
    BY <1>1, <2>1 DEF NoInode
  <2> HIDE DEF Shown
  <2> QED BY <1>6, <2>2 DEF Snapshot
<1> QED BY <1>1, <1>3, <1>5, <1>7 DEF HInv

\* What recovery reads of the directory is what had reached the disk with the
\* last of the writes that it reads.
LEMMA ReadsAreShown ==
  ASSUME RInv, IsFs(fs), DirInv(fs), rec.on, NEW m \in {0} \cup DirWrites(fs),
         m = 0 \/ (\E q \in rec.reads : q.rf = m),
         NEW loc, Class(loc) = "dir", NEW v, IsRead(loc, v), v <= m
  PROVE  Shown(fs, m, loc, ValueOf(fs, v))
<1>1. PICK r : r = DskReadLabel(loc, v)
  OBVIOUS
<1>2. r \in rec.reads /\ r.rf = v /\ r.loc = loc
  BY <1>1 DEF IsRead, DskReadLabel
<1>3. rec.pb = calcPb(fs.disk) /\ IsRf(r) /\ IsSeq(fs.disk)
  BY <1>2 DEF RInv, Recovering, IsFs
<1>4. v \in {0} \cup StoresTo(fs, loc)
  BY <1>2, <1>3 DEF IsRf, StoresTo
<1>5. DirWrites(fs) \subseteq Nat \ {0} /\ StoresTo(fs, loc) \subseteq DirWrites(fs) /\ v \in Nat
  <2>1. DskWrites(fs.disk) \subseteq Nat \ {0}
    BY <1>3 DEF DskWrites, IsSeq
  <2> QED BY <1>4, <2>1 DEF DirWrites, StoresTo
<1>6. ASSUME NEW x \in StoresTo(fs, loc), x <= m PROVE x <= v
  <2>1. x \in DskWrites(fs.disk) /\ fs.disk[x].loc = loc /\ x \in DirWrites(fs) /\ x \in Nat \ {0}
    BY <1>5 DEF StoresTo
  <2> HIDE DEF DirWrites, StoresTo
  <2>2. m # 0 /\ m \in DirWrites(fs)
    BY <1>6, <2>1
  <2>3. PICK q \in rec.reads : q.rf = m
    BY <2>2
  <2>4. x = m \/ x \in rec.pb[m]
    <3>1. CASE x < m
      <4>1. PbEdge(fs.disk, x, m)
        BY <2>1, <2>2, <3>1 DEF DirInv, DirLogged, PbEdge, CoBefore
      <4>2. m \in DskWrites(fs.disk)
        BY <2>2 DEF DirWrites
      <4> QED BY <1>3, <2>1, <3>1, <4>1, <4>2, PbClosed
    <3> QED BY <1>5, <1>6, <2>1, <2>2, <3>1
  <2>5. ~(v < x)
    BY <1>2, <2>1, <2>2, <2>3, <2>4, ReadIsCurrent
  <2> QED BY <1>5, <2>1, <2>5
<1> HIDE DEF StoresTo
<1> QED BY <1>4, <1>6 DEF Shown

\* The last write to the directory that recovery reads, if it reads one.
LEMMA LastDirRead ==
  ASSUME RInv, IsFs(fs), rec.on
  PROVE  \E m \in {0} \cup DirWrites(fs) :
           /\ m = 0 \/ (\E q \in rec.reads : q.rf = m)
           /\ \A loc, v : Class(loc) = "dir" /\ IsRead(loc, v) => v <= m
<1> DEFINE S == {0} \cup {a \in DirWrites(fs) : \E q \in rec.reads : q.rf = a}
<1>1. Len(fs.disk) \in Nat /\ DirWrites(fs) \subseteq 1 .. Len(fs.disk)
  BY DEF IsFs, IsSeq, DskWrites, DirWrites
<1>2. S \in SUBSET (0 .. Len(fs.disk)) /\ S # {}
  <2> HIDE DEF DirWrites
  <2> QED BY <1>1
<1>3. PICK m \in S : \A a \in S : m >= a
  <2> HIDE DEF S
  <2> QED BY <1>1, <1>2, GreatestNat
<1>4. ASSUME NEW loc, NEW v, Class(loc) = "dir", IsRead(loc, v) PROVE v \in S
  <2>1. PICK r : r = DskReadLabel(loc, v)
    OBVIOUS
  <2>2. r \in rec.reads /\ r.rf = v /\ r.loc = loc
    BY <1>4, <2>1 DEF IsRead, DskReadLabel
  <2>3. IsRf(r)
    BY <2>2 DEF RInv, Recovering
  <2> QED BY <1>4, <2>2, <2>3 DEF IsRf, DirWrites
<1>5. ASSUME NEW loc, NEW v, Class(loc) = "dir", IsRead(loc, v) PROVE v <= m
  <2>1. v \in S
    BY <1>4, <1>5
  <2> HIDE DEF S
  <2> QED BY <1>2, <1>3, <2>1
<1> QED BY <1>3, <1>5

\* Recovery finds all names as they were at one moment between the operations
\* on the directory: also if the crash falls into a rename, whose two changes
\* are in a transaction (setInodeTransStatus) that a lookup notices.
THEOREM DirectoryIsRecovered == Spec => []RecoveredDirectory
<1>1. Init => IInv /\ HInv /\ RInv
  BY InitHolds, InitHistory, InitRecovery
<1>2. IInv /\ HInv /\ RInv /\ [Next]_vars => (IInv /\ HInv /\ RInv)'
  <2> SUFFICES ASSUME IInv, HInv, RInv, [Next]_vars PROVE IInv' /\ HInv' /\ RInv'
    OBVIOUS
  <2>1. (\E t \in Threads : Step(t)) \/ UNCHANGED <<mode, prog, ctl, fs, spec>>
    BY NextIs
  <2>2. CASE \E t \in Threads : Step(t)
    BY <2>2, StepKeeps, StepHistory, NextRecovery
  <2>3. CASE UNCHANGED <<mode, prog, ctl, fs, spec>>
    BY <2>3, SameState, SameHistory, NextRecovery
  <2> QED BY <2>1, <2>2, <2>3
<1>3. IInv /\ HInv /\ RInv => RecoveredDirectory
  <2> SUFFICES ASSUME IInv, HInv, RInv, rec.on, ~rec.blocked, DOMAIN rec.names = Names
               PROVE  \E past \in spec.past : \A n \in Names : rec.names[n] = past[n]
    BY DEF RecoveredDirectory
  <2>1. CASE Names = {}
    BY <2>1 DEF HInv
  <2>2. CASE Names # {}
    <3> HIDE DEF Class, DirWrites, Shown, DirInv
    <3>1. IsFs(fs) /\ DirInv(fs)
      BY InvFs DEF HInv
    <3>2. PICK m \in {0} \cup DirWrites(fs) :
            /\ m = 0 \/ (\E q \in rec.reads : q.rf = m)
            /\ \A loc, v : Class(loc) = "dir" /\ IsRead(loc, v) => v <= m
      BY <3>1, LastDirRead
    <3>3. \A loc, v : Class(loc) = "dir" /\ IsRead(loc, v) => Shown(fs, m, loc, ValueOf(fs, v))
      BY <3>1, <3>2, ReadsAreShown
    <3>4. ~Shown(fs, m, Loc(Dir, "trans", 0), 1)
      <4>1. TransSeen
        BY <2>2 DEF RInv
      <4>2. PICK v : IsRead(Loc(Dir, "trans", 0), v) /\ ValueOf(fs, v) # 1
        BY <4>1 DEF TransSeen
      <4> QED BY <3>1, <3>3, <4>2, DirClass, ShownOnce
    <3>5. \A n \in Names : Shown(fs, m, Loc(Dir, "name", n), rec.names[n])
      BY <3>3, DirClass DEF RInv, NameSeen
    <3>6. PICK past \in spec.past : \A n \in Names : Shown(fs, m, Loc(Dir, "name", n), past[n])
      BY <3>2, <3>4 DEF HInv, Snapshot
    <3>7. \A n \in Names : rec.names[n] = past[n]
      BY <3>1, <3>5, <3>6, ShownOnce
    <3> QED BY <3>7
  <2> QED BY <2>1, <2>2
<1> QED BY <1>1, <1>2, <1>3, PTL DEF Spec
=============================================================================
