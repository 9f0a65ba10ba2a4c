------------------------------ MODULE FileSystem ----------------------------
(***************************************************************************)
(* The file system that the interpreter gives to the programs it runs      *)
(* (Execution.cpp, the call*FS functions), and the recovery routine that   *)
(* inspects the disk after a crash.                                        *)
(*                                                                         *)
(* Threads run the calls in prog.  A call is split where another thread    *)
(* can see the difference: at locks, and between the bytes and the size of *)
(* a block, which readers look at without a lock.  A thread that fails to  *)
(* get a lock is rolled back to the start of its call and replayed later,  *)
(* which amounts to waiting for the lock.                                  *)
(*                                                                         *)
(* fs.known[t] are the disk events that happen before what t does next: a  *)
(* lock hands on what its last holder knew, a store what its writer knew   *)
(* to those that read it.  A read without the lock may find any store that *)
(* coherence allows: the last one the reader knows, or one that it does    *)
(* not know.  Where the lock is held, all earlier stores are known and     *)
(* only the newest is left (LockedReadsExact), which those reads take.     *)
(* spec is what the files and the directory should contain.                *)
(***************************************************************************)
EXTENDS Persistency, FiniteSets

CONSTANTS Threads, Names,
          Programs,      \* what the threads may run: functions from Threads to calls
          Modes,         \* pairs of a journalling mode and delayed allocation
          MaxFileSize,
          LockFailed     \* what execute*FS returns if a lock is not available

\* The calls of a program, by their arguments.
Flags == {"r", "w", "creat", "trunc", "append", "sync", "invalid"}
CallTypes ==
  [op : {"open"}, name : Names, flags : SUBSET Flags]
    \cup [op : {"link", "rename"}, from : Names, to : Names]
    \cup [op : {"unlink"}, name : Names]
    \cup [op : {"truncate"}, name : Names, len : Int]
    \cup [op : {"write"}, fd : Int, buf : Seq(Int)]
    \cup [op : {"pwrite"}, fd : Int, buf : Seq(Int), offset : Int]
    \cup [op : {"read"}, fd : Int, n : Nat]
    \cup [op : {"pread"}, fd : Int, n : Nat, offset : Int]
    \cup [op : {"lseek"}, fd : Int, offset : Int, whence : STRING]
    \cup [op : {"fsync", "close"}, fd : Int]
    \cup [op : {"sync", "pbarrier"}]

ASSUME LockFailedAssumption  == LockFailed \in Nat
ASSUME MaxFileSizeAssumption == MaxFileSize \in Nat
ASSUME NamesAssumption       == Names \subseteq Nat
ASSUME ThreadsAssumption     == 0 \notin Threads      \* 0 is Nobody
ASSUME ModesAssumption       == Modes \subseteq {"writeback", "ordered", "journal"} \X BOOLEAN
ASSUME ProgramsAssumption    == Programs \subseteq [Threads -> Seq(CallTypes)]

VARIABLES mode, prog, ctl, fs, spec, rec
vars == <<mode, prog, ctl, fs, spec, rec>>

Sets == INSTANCE FiniteSetsExt

Dir       == 1      \* the inode of the directory
Nobody    == 0
NoInode   == 0
Journal   == mode[1]
DelAlloc  == mode[2]

Loc(i, f, p) == [inode |-> i, field |-> f, pos |-> p]

\* The writes to a location, the last one, 0 if there is none, and values.
StoresTo(s, loc)  == {i \in DskWrites(s.disk) : s.disk[i].loc = loc}
LastWrite(s, loc) == Sets!Max({0} \cup StoresTo(s, loc))
ValueOf(s, w) == IF w = 0 THEN 0 ELSE s.disk[w].val
Stored(s, loc) == ValueOf(s, LastWrite(s, loc))

Init ==
  /\ mode \in Modes
  /\ prog \in Programs
  /\ ctl = [t \in Threads |-> [pc |-> "idle", ret |-> 0]]
  /\ fs = [files  |-> <<>>,
           inodes |-> <<[isize |-> 0, lock |-> Nobody, lk |-> {}, sk |-> {},
                         sizes |-> {[size |-> 0, at |-> 0, sk |-> {}]}]>>,
           disk   |-> <<>>,
           known  |-> [t \in Threads |-> {}],
           error  |-> FALSE]
  /\ spec = [names |-> [n \in Names |-> NoInode], data |-> <<<<>>>>,
             past |-> {[n \in Names |-> NoInode]}]
  /\ rec = [on |-> FALSE, pb |-> <<>>, reads |-> {}, names |-> <<>>, got |-> <<>>, blocked |-> FALSE]

-----------------------------------------------------------------------------
(* Disk events, locks and sizes, as functions from states to states.       *)

\* A disk event is its label and its views.  A thread knows of its own.
DskEvent(lab, pre, pb) ==
  [x \in DOMAIN lab \cup {"pre", "pb"} |->
     CASE x = "pre" -> pre [] x = "pb" -> pb [] OTHER -> lab[x]]
Log(s, t, lab, pb) ==
  [s EXCEPT !.disk = Append(@, DskEvent(lab, s.known[t], pb)), !.known[t] = @ \cup {Len(s.disk) + 1}]

DskWrite(s, t, lab) == Log(s, t, lab, calcDskMemAccessPbView(s.disk, s.known[t], lab))
DskFence(s, t, lab) == Log(s, t, lab, calcDskFencePbView(s.disk, s.known[t], lab))

executeFsyncFS(s, t, i) == DskFence(s, t, DskFsyncLabel(i))

\* What a read of the disk may find: no later store is known to the reader.
CoherentStores(s, t, loc) ==
  {w \in {0} \cup StoresTo(s, loc) : ~\E v \in StoresTo(s, loc) \cap s.known[t] : w < v}

\* What a read finds happens before what follows.
ReadFrom(s, t, w) ==
  IF w = 0 THEN s ELSE [s EXCEPT !.known[t] = @ \cup {w} \cup s.disk[w].pre]
DskRead(s, t, loc) == ReadFrom(s, t, LastWrite(s, loc))

getInodeTransStatus(s, i) == Stored(s, Loc(i, "trans", 0))
setInodeTransStatus(s, t, i, v) == DskWrite(s, t, DskJnlWriteLabel(Loc(i, "trans", 0), v))

InodeFree(i)     == fs.inodes[i].lock = Nobody
LockInode(s, t, i) ==
  [s EXCEPT !.inodes[i].lock = t, !.known[t] = @ \cup s.inodes[i].lk]

\* Faulty variant: a lock is given back by a relaxed store.
UnlockInodeRelaxed(s, t, i) == [s EXCEPT !.inodes[i].lock = Nobody]

UnlockInode(s, t, i) ==
  [s EXCEPT !.inodes[i].lock = Nobody, !.inodes[i].lk = s.known[t]]

\* The size in memory: its stores, the newest (isize, sk) also by itself.  A
\* store follows its writer's last disk event, which no thread reads: those
\* know the one that know the other.
CoherentSizes(s, t, i) ==
  {st \in s.inodes[i].sizes :
     ~\E later \in s.inodes[i].sizes : st.at < later.at /\ later.at \in s.known[t]}
ReadSize(s, t, st) == [s EXCEPT !.known[t] = @ \cup st.sk]
readInodeSizeFS(s, t, i) == ReadSize(s, t, s.inodes[i])

\* Faulty variant: the store of the size is relaxed, it hands on nothing.
updateInodeSizeRelaxed(s, t, i, n) ==
  [s EXCEPT !.inodes[i].isize = n, !.inodes[i].sk = {},
            !.inodes[i].sizes = @ \cup {[size |-> n, at |-> Len(s.disk), sk |-> {}]}]

updateInodeSizeFS(s, t, i, n) ==
  [s EXCEPT !.inodes[i].isize = n, !.inodes[i].sk = s.known[t],
            !.inodes[i].sizes = @ \cup {[size |-> n, at |-> Len(s.disk), sk |-> s.known[t]]}]

\* The size on the disk.  In ordered mode it waits for the data in its range.
updateInodeDisksizeFS(s, t, i, n, from, to) ==
  LET ord == IF Journal = "ordered" THEN [inode |-> i, from |-> from, to |-> to] ELSE NoOrd
      w   == DskWrite(s, t, DskMdWriteLabel(Loc(i, "size", 0), n, i, ord))
  IN IF Journal = "ordered" /\ ~DelAlloc THEN executeFsyncFS(w, t, i) ELSE w

\* One byte at a time; from is below to, or nothing is written.
zeroDskRangeFS(s, t, i, from, to) ==
  LET n == IF from < to THEN to - from ELSE 0
      zeroed[k \in 0 .. n] ==
        IF k = 0 THEN s
        ELSE DskWrite(zeroed[k - 1], t, DskWriteLabel(Loc(i, "data", from + k - 1), 0, i))
  IN zeroed[n]

\* Faulty variant: the directory is not written out before it is changed.
updateDirNameInodeUnsynced(s, t, n, i) ==
  DskWrite(s, t, DskDirWriteLabel(Loc(Dir, "name", n), i, Dir))

updateDirNameInode(s, t, n, i) ==
  LET w == DskWrite(executeFsyncFS(s, t, Dir), t, DskDirWriteLabel(Loc(Dir, "name", n), i, Dir))
  IN IF Journal = "journal" THEN executeFsyncFS(w, t, Dir) ELSE w

-----------------------------------------------------------------------------
(* The end of a call: it returns a value to the program, or the execution  *)
(* is dropped (an open transaction was seen) or stops with an error.       *)

Call(t) == Head(prog[t])
Calls(t, op) == prog[t] # <<>> /\ ~fs.error /\ ~rec.on /\ Call(t).op \in op
Starts(t, op) == Calls(t, op) /\ ctl[t].pc = "idle"
At(t, pc) == ctl[t].pc = pc /\ ~fs.error

Return(t, v) ==
  /\ prog' = [prog EXCEPT ![t] = Tail(@)]
  /\ ctl'  = [ctl EXCEPT ![t] = [pc |-> "idle", ret |-> v]]
Block(t) ==
  ctl' = [ctl EXCEPT ![t] = [pc |-> "blocked", ret |-> 0]] /\ UNCHANGED prog
Fail(t, s) ==
  /\ fs' = [s EXCEPT !.error = TRUE]
  /\ UNCHANGED <<mode, prog, ctl, spec, rec>>
Continue(t, c) == ctl' = [ctl EXCEPT ![t] = c] /\ UNCHANGED prog

HasFile(fd) == fd \in DOMAIN fs.files
FreeFd(t)   == ctl[t].pc = "idle" /\ HasFile(Call(t).fd) /\ ~fs.files[Call(t).fd].freed

\* Calls with a descriptor: one that was never opened gives an error code,
\* the description of a closed one is freed memory.
BadDescriptor(t) ==
  /\ Starts(t, {"close", "read", "write", "pread", "pwrite", "lseek", "fsync"})
  /\ \/ /\ ~HasFile(Call(t).fd)
        /\ Return(t, -1) /\ UNCHANGED <<mode, fs, spec, rec>>
     \/ /\ HasFile(Call(t).fd) /\ fs.files[Call(t).fd].freed
        /\ Fail(t, fs)

-----------------------------------------------------------------------------
(* Directory operations.                                                   *)

Lookup(s, n) == Stored(s, Loc(Dir, "name", n))
LookupReads(s, t, n) == DskRead(DskRead(s, t, Loc(Dir, "trans", 0)), t, Loc(Dir, "name", n))

executeInodeCreateFS(s, t, n) ==
  LET i == Len(s.inodes) + 1
      a == [s EXCEPT !.inodes = Append(@, [isize |-> 0, lock |-> Nobody,
                                           lk |-> s.known[t], sk |-> s.known[t],
                                           sizes |-> {[size |-> 0, at |-> 0, sk |-> s.known[t]]}])]
      b == updateInodeDisksizeFS(setInodeTransStatus(a, t, i, 0), t, i, 0, 0, 0)
  IN updateDirNameInode(b, t, n, i)

\* The descriptor an open() gets: the first that is free, and none is given
\* back while the execution lasts.
visitDskOpen(s) == Len(s.files) + 1

executeOpenFS(s, t, i, flags) ==
  [s EXCEPT !.files = Append(@, [inode |-> i, flags |-> flags, offset |-> 0, count |-> 1,
                                 lock |-> Nobody, lk |-> s.known[t], made |-> s.known[t],
                                 freed |-> FALSE])]

NamedSpec(n, i) == [spec.names EXCEPT ![n] = i]
WithNames(sp, names) == [sp EXCEPT !.names = names, !.past = @ \cup {names}]

\* What follows the lookup in open(): a new description, then O_TRUNC.
FinishOpen(t, s, i, flags) ==
  LET o == executeOpenFS(s, t, i, flags)
  IN \/ /\ i = NoInode
        /\ fs' = s /\ Return(t, -1)
     \/ /\ i # NoInode /\ "trunc" \notin flags
        /\ fs' = o /\ Return(t, visitDskOpen(s))
     \/ /\ i # NoInode /\ "trunc" \in flags /\ "w" \in flags
        /\ fs' = o
        /\ Continue(t, [pc |-> "truncate", inode |-> i, len |-> 0, ret |-> visitDskOpen(s)])
     \/ /\ i # NoInode /\ "trunc" \in flags /\ "w" \notin flags
        /\ fs' = [o EXCEPT !.error = TRUE] /\ UNCHANGED <<prog, ctl>>

OpenBadFlags(t) ==
  /\ Starts(t, {"open"}) /\ "invalid" \in Call(t).flags
  /\ Return(t, -1) /\ UNCHANGED <<mode, fs, spec, rec>>

\* Without O_CREAT, the directory is read without its lock.
OpenLookup(t) ==
  /\ Starts(t, {"open"}) /\ Call(t).flags \cap {"invalid", "creat"} = {}
  /\ UNCHANGED <<mode, spec, rec>>
  /\ \E w \in CoherentStores(fs, t, Loc(Dir, "trans", 0)) :
       LET s == ReadFrom(fs, t, w)
       IN \/ ValueOf(fs, w) = 1 /\ Block(t) /\ UNCHANGED fs
          \/ /\ ValueOf(fs, w) # 1
             /\ \E v \in CoherentStores(s, t, Loc(Dir, "name", Call(t).name)) :
                  FinishOpen(t, ReadFrom(s, t, v), ValueOf(fs, v), Call(t).flags)

\* A file that was just created is not truncated.
OpenCreate(t) ==
  LET n == Call(t).name
      l == LookupReads(LockInode(fs, t, Dir), t, n)
      i == Lookup(fs, n)
  IN /\ Starts(t, {"open"}) /\ "invalid" \notin Call(t).flags /\ "creat" \in Call(t).flags
     /\ InodeFree(Dir) /\ UNCHANGED <<mode, rec>>
     /\ \/ /\ i # NoInode /\ UNCHANGED spec
           /\ FinishOpen(t, UnlockInode(l, t, Dir), i, Call(t).flags)
        \/ /\ i = NoInode
           /\ spec' = [WithNames(spec, NamedSpec(n, Len(fs.inodes) + 1)) EXCEPT
                         !.data = Append(@, <<>>)]
           /\ FinishOpen(t, UnlockInode(executeInodeCreateFS(l, t, n), t, Dir),
                         Len(fs.inodes) + 1, Call(t).flags \ {"trunc"})

Link(t) ==
  LET c == Call(t)
      l == LookupReads(LookupReads(LockInode(fs, t, Dir), t, c.from), t, c.to)
      i == Lookup(fs, c.from)
      ok == i # NoInode /\ Lookup(fs, c.to) = NoInode
  IN /\ Starts(t, {"link"}) /\ InodeFree(Dir)
     /\ fs' = UnlockInode(IF ok THEN updateDirNameInode(l, t, c.to, i) ELSE l, t, Dir)
     /\ spec' = IF ok THEN WithNames(spec, NamedSpec(c.to, spec.names[c.from])) ELSE spec
     /\ Return(t, IF ok THEN 0 ELSE -1) /\ UNCHANGED <<mode, rec>>

Unlink(t) ==
  LET n == Call(t).name
      l == LookupReads(LockInode(fs, t, Dir), t, n)
      ok == Lookup(fs, n) # NoInode
  IN /\ Starts(t, {"unlink"}) /\ InodeFree(Dir)
     /\ fs' = UnlockInode(IF ok THEN updateDirNameInode(l, t, n, NoInode) ELSE l, t, Dir)
     /\ spec' = IF ok THEN WithNames(spec, NamedSpec(n, NoInode)) ELSE spec
     /\ Return(t, IF ok THEN 0 ELSE -1) /\ UNCHANGED <<mode, rec>>

\* rename() works in a transaction that readers without the lock notice.
RenameBegin(t) ==
  LET c == Call(t)
      l == LookupReads(LookupReads(LockInode(fs, t, Dir), t, c.from), t, c.to)
      from == Lookup(fs, c.from)
      to   == Lookup(fs, c.to)
  IN /\ Starts(t, {"rename"}) /\ InodeFree(Dir) /\ UNCHANGED <<mode, spec, rec>>
     /\ \/ /\ from = NoInode \/ from = to
           /\ fs' = UnlockInode(l, t, Dir) /\ Return(t, IF from = NoInode THEN -1 ELSE 0)
        \/ /\ from # NoInode /\ from # to
           /\ fs' = setInodeTransStatus(l, t, Dir, 1)
           /\ Continue(t, [pc |-> "link", inode |-> from, ret |-> 0])

\* Faulty variant: the old name stays.
RenameUnlinkNothing(t) ==
  /\ At(t, "unlink") /\ UNCHANGED <<mode, fs, spec, rec>>
  /\ Continue(t, [ctl[t] EXCEPT !.pc = "endrename"])

RenameLink(t) ==
  /\ At(t, "link") /\ UNCHANGED <<mode, spec, rec>>
  /\ fs' = updateDirNameInode(fs, t, Call(t).to, ctl[t].inode)
  /\ Continue(t, [ctl[t] EXCEPT !.pc = "unlink"])

RenameUnlink(t) ==
  /\ At(t, "unlink") /\ UNCHANGED <<mode, spec, rec>>
  /\ fs' = updateDirNameInode(fs, t, Call(t).from, NoInode)
  /\ Continue(t, [ctl[t] EXCEPT !.pc = "endrename"])

RenameEnd(t) ==
  LET c == Call(t)
  IN /\ At(t, "endrename")
     /\ fs' = UnlockInode(setInodeTransStatus(fs, t, Dir, 0), t, Dir)
     /\ spec' = WithNames(spec, [NamedSpec(c.to, spec.names[c.from]) EXCEPT ![c.from] = NoInode])
     /\ Return(t, 0) /\ UNCHANGED <<mode, rec>>

-----------------------------------------------------------------------------
(* Truncation.                                                             *)

ZeroPadded(d, n) == [k \in 1 .. n |-> IF k <= Len(d) THEN d[k] ELSE 0]

TruncateLookup(t) ==
  LET l == LookupReads(LockInode(fs, t, Dir), t, Call(t).name)
      i == Lookup(fs, Call(t).name)
  IN /\ Starts(t, {"truncate"}) /\ InodeFree(Dir) /\ UNCHANGED <<mode, spec, rec>>
     /\ fs' = UnlockInode(l, t, Dir)
     /\ IF i = NoInode THEN Return(t, -1)
        ELSE Continue(t, [pc |-> "truncate", inode |-> i, len |-> Call(t).len, ret |-> 0])

\* The end of open(O_TRUNC) is a truncation to 0, which cannot fail.
executeTruncateFS(t) ==
  LET i == ctl[t].inode
      n == ctl[t].len
      l == readInodeSizeFS(LockInode(fs, t, i), t, i)
      old == fs.inodes[i].isize
      big == n > old /\ n >= MaxFileSize
      z == IF n > old THEN zeroDskRangeFS(l, t, i, old, n) ELSE l
      d == updateInodeDisksizeFS(z, t, i, n, IF n > old THEN old ELSE 0, IF n > old THEN n ELSE 0)
      u == updateInodeSizeFS(d, t, i, n)
      f == IF Journal \in {"ordered", "journal"} THEN executeFsyncFS(u, t, i) ELSE u
  IN /\ At(t, "truncate") /\ UNCHANGED <<mode, rec>>
     /\ \/ /\ n < 0
           /\ Return(t, -1) /\ UNCHANGED <<fs, spec>>
        \/ /\ n >= 0 /\ InodeFree(i) /\ big
           /\ fs' = UnlockInode(l, t, i) /\ Return(t, -1) /\ UNCHANGED spec
        \/ /\ n >= 0 /\ InodeFree(i) /\ ~big
           /\ fs' = UnlockInode(f, t, i) /\ Return(t, ctl[t].ret)
           /\ spec' = [spec EXCEPT !.data[i] = ZeroPadded(@, n)]

-----------------------------------------------------------------------------
(* read() and write() hold the lock of the description, pread() and        *)
(* pwrite() are given an offset.                                           *)

File(t) == fs.files[Call(t).fd]
Positioned(t) == Call(t).op \in {"pread", "pwrite"}

\* The fields of a description are ordinary memory: one that is used by
\* another thread was handed on with what had happened before it was made.
LockFile(s, t) ==
  IF Positioned(t) THEN [s EXCEPT !.known[t] = @ \cup File(t).made]
  ELSE [s EXCEPT !.files[Call(t).fd].lock = t, !.known[t] = @ \cup File(t).lk]
FileFree(t) == Positioned(t) \/ File(t).lock = Nobody
StartOffset(t) == IF Positioned(t) THEN Call(t).offset ELSE File(t).offset

BadOffset(t) ==
  /\ Starts(t, {"pread", "pwrite"}) /\ FreeFd(t) /\ Call(t).offset < 0
  /\ Return(t, -1) /\ UNCHANGED <<mode, fs, spec, rec>>

\* Faulty variant: a call that failed keeps the lock.
ReleasedIfDone(s, t, v) ==
  IF v < 0 THEN s
  ELSE [s EXCEPT !.files[Call(t).fd].offset = @ + v,
                 !.files[Call(t).fd].lock = Nobody, !.files[Call(t).fd].lk = s.known[t]]

\* A call that did not fail moves the offset; the description is unlocked.
Released(s, t, v) ==
  [s EXCEPT !.files[Call(t).fd].offset = IF v >= 0 THEN @ + v ELSE @,
            !.files[Call(t).fd].lock = Nobody, !.files[Call(t).fd].lk = s.known[t]]

\* The end of a read or write that gave v.  write() takes one value of v as
\* the sign that the inode could not be locked: it then leaves at once, and
\* the call ends without a value.
FinishAccess(t, s, v) ==
  CASE Positioned(t) -> fs' = s /\ Return(t, v)
    [] Call(t).op = "write" /\ v = LockFailed -> fs' = s /\ Return(t, 0)
    [] OTHER -> fs' = Released(s, t, v) /\ Return(t, v)

StartWrite(t) ==
  /\ Starts(t, {"write", "pwrite"}) /\ FreeFd(t) /\ FileFree(t)
  /\ Positioned(t) => Call(t).offset >= 0
  /\ UNCHANGED <<mode, spec, rec>>
  /\ IF "w" \notin File(t).flags THEN FinishAccess(t, LockFile(fs, t), -1)
     ELSE /\ fs' = LockFile(fs, t)
          /\ Continue(t, [pc |-> "write", off |-> StartOffset(t), ret |-> 0])

\* Where a write starts, and how much of it fits.
executeWriteChecksFS(t, i) ==
  LET off == IF "append" \in File(t).flags THEN fs.inodes[i].isize ELSE ctl[t].off
      n   == Len(Call(t).buf)
  IN [off |-> off, n |-> IF n <= 0 THEN n
                         ELSE IF off >= MaxFileSize THEN -1
                         ELSE IF n < MaxFileSize - off THEN n ELSE MaxFileSize - off]

\* The size on the disk grows with the block that was allocated in advance.
shouldUpdateInodeDisksizeFS(size, off, n) ==
  LET bi == size % BlockSize
      be == size + BlockSize - bi
  IN /\ \/ off <= size /\ size < off + n
        \/ off < be /\ be <= off + n
        \/ size <= off /\ off + n <= be
     /\ bi > 0

\* Faulty variant: what lies between the old end and the write is not zeroed.
PadUpToNothing(s, t, i, off) == s

PadUpTo(s, t, i, off) == zeroDskRangeFS(s, t, i, s.inodes[i].isize, off)

WriteChecks(t) ==
  LET i == File(t).inode
      w == executeWriteChecksFS(t, i)
      l == readInodeSizeFS(LockInode(fs, t, i), t, i)
      size == fs.inodes[i].isize
      be == size + BlockSize - (size % BlockSize)
      d == IF be < w.off + w.n THEN be ELSE w.off + w.n
      e == IF DelAlloc /\ shouldUpdateInodeDisksizeFS(size, w.off, w.n)
           THEN updateInodeDisksizeFS(zeroDskRangeFS(l, t, i, size, d), t, i, d, size, d)
           ELSE l
  IN /\ At(t, "write") /\ InodeFree(i) /\ UNCHANGED <<mode, spec, rec>>
     /\ IF w.n <= 0 THEN FinishAccess(t, UnlockInode(l, t, i), 0)
        ELSE /\ fs' = PadUpTo(e, t, i, w.off)
             /\ Continue(t, [pc |-> "block", off |-> w.off, at |-> w.off, end |-> w.off + w.n,
                             ord |-> 0, upto |-> w.off, ret |-> 0])

\* A round of the loop of executeBufferedWriteFS(): the part of a block that
\* is written, its bytes, then the size.
BlockBegin(t) ==
  LET i == File(t).inode
      c == ctl[t]
      rem   == BlockSize - (c.at % BlockSize)
      bytes == IF c.end - c.at < BlockSize THEN c.end - c.at ELSE BlockSize
  IN /\ At(t, "block") /\ UNCHANGED <<mode, spec, rec>>
     /\ fs' = IF Journal = "journal" THEN setInodeTransStatus(fs, t, i, 1) ELSE fs
     /\ Continue(t, [c EXCEPT !.pc = "bytes",
          !.upto = c.at + IF c.at % BlockSize # 0 /\ bytes > rem THEN rem ELSE bytes])

WriteByte(t) ==
  LET i == File(t).inode
      c == ctl[t]
  IN /\ At(t, "bytes") /\ c.at < c.upto /\ UNCHANGED <<mode, spec, rec>>
     /\ fs' = DskWrite(fs, t, DskWriteLabel(Loc(i, "data", c.at), Call(t).buf[c.at - c.off + 1], i))
     /\ Continue(t, [c EXCEPT !.at = @ + 1])

BlockEnd(t) ==
  LET i == File(t).inode
      c == ctl[t]
      grows == c.at > fs.inodes[i].isize
      u == IF grows THEN updateInodeSizeFS(updateInodeDisksizeFS(fs, t, i, c.at, c.ord, c.at), t, i, c.at)
           ELSE fs
      j == IF Journal = "journal" THEN executeFsyncFS(setInodeTransStatus(u, t, i, 0), t, i) ELSE u
  IN /\ At(t, "bytes") /\ c.at = c.upto /\ UNCHANGED <<mode, spec, rec>>
     /\ fs' = j
     /\ Continue(t, [c EXCEPT !.pc = IF c.at < c.end THEN "block" ELSE "written",
                              !.ord = IF grows THEN c.at ELSE @])

\* The inode is unlocked, and with O_SYNC written out.
EndWrite(t) ==
  LET i == File(t).inode
      c == ctl[t]
      u == UnlockInode(fs, t, i)
      new == ZeroPadded(spec.data[i], IF c.end > Len(spec.data[i]) THEN c.end ELSE Len(spec.data[i]))
      from == IF "append" \in File(t).flags THEN Len(spec.data[i]) ELSE c.off
  IN /\ At(t, "written") /\ UNCHANGED <<mode, rec>>
     /\ spec' = [spec EXCEPT !.data[i] =
                   [k \in DOMAIN new |-> IF k \in from + 1 .. from + c.end - c.off
                                         THEN Call(t).buf[k - from] ELSE new[k]]]
     /\ FinishAccess(t, IF "sync" \in File(t).flags THEN executeFsyncFS(u, t, i) ELSE u, c.end - c.off)

\* A read takes the size without the lock of the inode, then byte by byte.
\* Offsets are compared as unsigned numbers: a negative one is past the end.
StartRead(t) ==
  LET i == File(t).inode
      off == StartOffset(t)
      l == LockFile(fs, t)
  IN /\ Starts(t, {"read", "pread"}) /\ FreeFd(t) /\ FileFree(t)
     /\ Positioned(t) => Call(t).offset >= 0
     /\ UNCHANGED <<mode, spec, rec>>
     /\ \/ "r" \notin File(t).flags /\ FinishAccess(t, l, -1)
        \/ /\ "r" \in File(t).flags
           /\ \E st \in CoherentSizes(l, t, i) :
                LET left == st.size - off
                IN \/ (off < 0 \/ left <= 0) /\ FinishAccess(t, ReadSize(l, t, st), 0)
                   \/ /\ off >= 0 /\ left > 0 /\ fs' = ReadSize(l, t, st)
                      /\ Continue(t, [pc |-> "read", off |-> off, got |-> <<>>, ret |-> 0,
                                      n |-> IF left >= Call(t).n THEN Call(t).n ELSE left])

ReadByte(t) ==
  LET c == ctl[t]
      b == Loc(File(t).inode, "data", c.off + Len(c.got))
  IN /\ At(t, "read") /\ Len(c.got) < c.n /\ UNCHANGED <<mode, spec, rec>>
     /\ \E w \in CoherentStores(fs, t, b) :
          fs' = ReadFrom(fs, t, w) /\ Continue(t, [c EXCEPT !.got = Append(@, w)])

\* When data are journalled, a read that meets a transaction is dropped.
EndRead(t) ==
  LET i == File(t).inode
  IN /\ At(t, "read") /\ Len(ctl[t].got) = ctl[t].n /\ UNCHANGED <<mode, spec, rec>>
     /\ \/ Journal # "journal" /\ FinishAccess(t, fs, ctl[t].n)
        \/ /\ Journal = "journal"
           /\ \E w \in CoherentStores(fs, t, Loc(i, "trans", 0)) :
                \/ ValueOf(fs, w) = 1 /\ Block(t) /\ UNCHANGED fs
                \/ ValueOf(fs, w) # 1 /\ FinishAccess(t, ReadFrom(fs, t, w), ctl[t].n)

Lseek(t) ==
  /\ Starts(t, {"lseek"}) /\ FreeFd(t) /\ FileFree(t) /\ UNCHANGED <<mode, spec, rec>>
  /\ \E st \in CoherentSizes(LockFile(fs, t), t, File(t).inode) :
       LET c == Call(t)
           l == ReadSize(LockFile(fs, t), t, st)
           new == CASE c.whence = "set" -> c.offset
                    [] c.whence = "end" -> st.size + c.offset
                    [] c.whence = "cur" -> File(t).offset + c.offset
                    [] OTHER            -> -1
           moved == IF c.whence \in {"set", "end", "cur"} THEN [l EXCEPT !.files[c.fd].offset = new] ELSE l
       IN /\ fs' = [moved EXCEPT !.files[c.fd].lock = Nobody, !.files[c.fd].lk = l.known[t]]
          /\ Return(t, new)

Fsync(t) ==
  /\ Starts(t, {"fsync"}) /\ FreeFd(t) /\ UNCHANGED <<mode, spec, rec>>
  /\ fs' = executeFsyncFS(fs, t, File(t).inode) /\ Return(t, 0)

Sync(t) ==
  /\ Starts(t, {"sync"}) /\ UNCHANGED <<mode, spec, rec>>
  /\ fs' = DskFence(fs, t, DskSyncLabel) /\ Return(t, 0)

PersBarrier(t) ==
  /\ Starts(t, {"pbarrier"}) /\ UNCHANGED <<mode, spec, rec>>
  /\ fs' = DskFence(fs, t, DskPbarrierLabel) /\ Return(t, 0)

\* The description is freed with its last reference; the descriptor is not
\* reclaimed.
Close(t) ==
  /\ Starts(t, {"close"}) /\ FreeFd(t) /\ UNCHANGED <<mode, spec, rec>>
  /\ fs' = [fs EXCEPT !.files[Call(t).fd].count = @ - 1,
                      !.files[Call(t).fd].freed = (File(t).count = 1)]
  /\ Return(t, 0)

-----------------------------------------------------------------------------
(* Recovery runs when the program has finished.  It happens after the      *)
(* persistency barrier, if there is one.  It looks all names up, then      *)
(* reads a file from its start; every read of the disk may be satisfied by *)
(* any store that coherence and the persistency checker allow.             *)

handleRecoveryStart ==
  /\ ~rec.on /\ ~fs.error /\ \A t \in Threads : prog[t] = <<>>
  /\ rec' = [rec EXCEPT !.on = TRUE, !.pb = calcPb(fs.disk)] /\ UNCHANGED <<mode, prog, ctl, fs, spec>>

Barriers == {i \in DOMAIN fs.disk : fs.disk[i].kind = "pbarrier"}
SeenByRec == UNION {fs.disk[i].pre : i \in Barriers}

\* The options for a read that getRfsApproximation() leaves.
RecRfs(reads, loc) ==
  {w \in {0} \cup StoresTo(fs, loc) :
     /\ ~\E v \in StoresTo(fs, loc) \cap SeenByRec : w < v
     /\ ~\E r \in reads : r.loc = loc /\ w < r.rf}

\* Those that filterInvalidRecRfs() keeps.
ValidRecRfs(reads, loc) ==
  {w \in RecRfs(reads, loc) : isRecAcyclic(fs.disk, rec.pb, reads \cup {DskReadLabel(loc, w)})}

RecStep == rec.on /\ ~rec.blocked /\ UNCHANGED <<mode, prog, ctl, fs, spec>>

RecLookup(n) ==
  LET tr == Loc(Dir, "trans", 0)
      nm == Loc(Dir, "name", n)
  IN /\ RecStep /\ n \notin DOMAIN rec.names
     /\ \E w \in ValidRecRfs(rec.reads, tr) :
          LET reads == rec.reads \cup {DskReadLabel(tr, w)}
          IN \/ /\ ValueOf(fs, w) = 1
                /\ rec' = [rec EXCEPT !.reads = reads, !.blocked = TRUE]
             \/ /\ ValueOf(fs, w) # 1
                /\ \E v \in ValidRecRfs(reads, nm) :
                     rec' = [rec EXCEPT !.reads = reads \cup {DskReadLabel(nm, v)},
                                        !.names = [m \in DOMAIN rec.names \cup {n} |->
                                                     IF m = n THEN ValueOf(fs, v) ELSE @[m]]]

\* In recovery, the size is the one on the disk.
RecReadSize ==
  /\ RecStep /\ DOMAIN rec.names = Names /\ rec.got = <<>>
  /\ \E n \in Names : \E w \in ValidRecRfs(rec.reads, Loc(rec.names[n], "size", 0)) :
       /\ rec.names[n] # NoInode
       /\ rec' = [rec EXCEPT !.reads = @ \cup {DskReadLabel(Loc(rec.names[n], "size", 0), w)},
                             !.got = [inode |-> rec.names[n], size |-> ValueOf(fs, w), rfs |-> <<>>,
                                      done |-> FALSE]]

RecReadByte ==
  /\ RecStep /\ rec.got # <<>> /\ Len(rec.got.rfs) < rec.got.size
  /\ LET b == Loc(rec.got.inode, "data", Len(rec.got.rfs))
     IN \E w \in ValidRecRfs(rec.reads, b) :
          rec' = [rec EXCEPT !.reads = @ \cup {DskReadLabel(b, w)}, !.got.rfs = Append(@, w)]

RecReadDone ==
  /\ RecStep /\ rec.got # <<>> /\ ~rec.got.done /\ Len(rec.got.rfs) = rec.got.size
  /\ LET tr == Loc(rec.got.inode, "trans", 0)
     IN \/ /\ Journal # "journal" \/ rec.got.size = 0
           /\ rec' = [rec EXCEPT !.got.done = TRUE]
        \/ /\ Journal = "journal" /\ rec.got.size > 0
           /\ \E w \in ValidRecRfs(rec.reads, tr) :
                rec' = [rec EXCEPT !.reads = @ \cup {DskReadLabel(tr, w)},
                                   !.blocked = (ValueOf(fs, w) = 1),
                                   !.got.done = (ValueOf(fs, w) # 1)]

-----------------------------------------------------------------------------
Step(t) ==
  \/ BadDescriptor(t) \/ OpenBadFlags(t) \/ OpenLookup(t) \/ OpenCreate(t)
  \/ Link(t) \/ Unlink(t) \/ RenameBegin(t) \/ RenameLink(t) \/ RenameUnlink(t) \/ RenameEnd(t)
  \/ TruncateLookup(t) \/ executeTruncateFS(t)
  \/ BadOffset(t) \/ StartWrite(t) \/ WriteChecks(t) \/ BlockBegin(t) \/ WriteByte(t)
  \/ BlockEnd(t) \/ EndWrite(t) \/ StartRead(t) \/ ReadByte(t) \/ EndRead(t)
  \/ Lseek(t) \/ Fsync(t) \/ Sync(t) \/ PersBarrier(t) \/ Close(t)

Next ==
  \/ \E t \in Threads : Step(t)
  \/ handleRecoveryStart \/ (\E n \in Names : RecLookup(n))
  \/ RecReadSize \/ RecReadByte \/ RecReadDone

Spec == Init /\ [][Next]_vars

-----------------------------------------------------------------------------
\* While nobody holds the lock of an inode, its size and its bytes are what
\* the writes and truncations done so far should leave, in the order in
\* which they got the lock: appends do not overwrite each other, and what a
\* write beyond the end skips reads as zeros even where data had been cut off.
ContentsExact ==
  \A i \in DOMAIN fs.inodes : i # Dir /\ fs.inodes[i].lock = Nobody =>
    /\ fs.inodes[i].isize = Len(spec.data[i])
    /\ \A k \in DOMAIN spec.data[i] : Stored(fs, Loc(i, "data", k - 1)) = spec.data[i][k]

\* While nobody holds the lock of the directory, its entries are what links,
\* renames and creations should leave, and no transaction is open.
DirectoryExact ==
  fs.inodes[Dir].lock = Nobody =>
    /\ \A n \in Names : Lookup(fs, n) = spec.names[n]
    /\ getInodeTransStatus(fs, Dir) = 0

\* Files and directory are what the calls should leave, in the order in which
\* they got the locks.
FilesExact == ContentsExact /\ DirectoryExact

\* A thread that is not in a call holds no lock, whichever way its last call
\* ended: otherwise later calls block and their executions are dropped.
LocksReleased ==
  \A t \in Threads : ctl[t].pc = "idle" =>
    /\ \A i \in DOMAIN fs.inodes : fs.inodes[i].lock # t
    /\ \A f \in DOMAIN fs.files : fs.files[f].lock # t

Locs == {fs.disk[i].loc : i \in DskWrites(fs.disk)}

\* A read without the lock may find an old size and old bytes, but no byte
\* that was never written: the data and the zeros below a size are stored
\* before the size, and the store of the size hands them on.
ReadsInitialized ==
  \A t \in Threads : ctl[t].pc = "read" => \A k \in DOMAIN ctl[t].got : ctl[t].got[k] # 0

\* Who holds the lock of an inode finds its last size, bytes, entries and
\* transaction, nothing older: the locks hand on all that was stored before.
LockedReadsExact ==
  \A i \in DOMAIN fs.inodes : fs.inodes[i].lock # Nobody =>
    LET t == fs.inodes[i].lock
    IN /\ \A st \in CoherentSizes(fs, t, i) : st.size = fs.inodes[i].isize /\ st.sk = fs.inodes[i].sk
       /\ \A loc \in Locs : loc.inode = i => CoherentStores(fs, t, loc) = {LastWrite(fs, loc)}

\* In ordered mode, the size that recovery reads covers no byte whose data or
\* zeros did not reach the disk.
RecoveredInitialized ==
  Journal = "ordered" /\ rec.got # <<>> => \A k \in DOMAIN rec.got.rfs : rec.got.rfs[k] # 0

\* Recovery sees the directory as it was at some point between operations,
\* also if the crash fell into a rename.
RecoveredDirectory ==
  rec.on /\ ~rec.blocked /\ DOMAIN rec.names = Names =>
    \E past \in spec.past : \A n \in Names : rec.names[n] = past[n]

\* There is always a store that recovery may read (BUG_ON in the driver),
\* whatever it has read before.
RecoveryCanRead ==
  rec.on => \A loc \in Locs : ValidRecRfs(rec.reads, loc) # {}

\* The reads that the checker accepts are those that some set of persisted
\* writes explains: a set that contains what persists before its members,
\* and in which each read finds the last write to its location.
RecoveryExplained ==
  rec.on =>
    \A loc \in Locs : \A w \in RecRfs(rec.reads, loc) :
      LET reads == rec.reads \cup {DskReadLabel(loc, w)}
          read == {r.rf : r \in reads} \ {0}
          persisted == read \cup UNION {rec.pb[p] : p \in read}
      IN isRecAcyclic(fs.disk, rec.pb, reads)
           <=> \A r \in reads : ~\E p \in persisted : fs.disk[p].loc = r.loc /\ r.rf < p

\* Recovery reads what some state of the disk explains, and can always go on.
RecoveryExact == RecoveryCanRead /\ RecoveryExplained
=============================================================================
