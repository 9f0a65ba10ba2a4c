------------------------------- MODULE Labels -------------------------------
(***************************************************************************)
(* The labels of an execution graph (EventLabel.hpp): one constructor per  *)
(* class, inheritance written as the extension of the base class's record. *)
(*                                                                         *)
(* kind is the class; op is what the views need to know of it: a read (R), *)
(* a store (W), a thread's start (S), what closes a release sequence if it *)
(* is a release (F), a block (B), anything else (O).  The label of a       *)
(* thread's start has index 1 (0 in the code), so that the labels of a     *)
(* thread form a sequence.  Sizes of accesses, names and dependencies are  *)
(* left out.                                                               *)
(***************************************************************************)
EXTENDS MOCalculator, TLC

isAtLeastAcquire(o) == o \in {"acq", "ar", "sc"}
isAtLeastRelease(o) == o \in {"rel", "ar", "sc"}
isAtMostRelease(o)  == o \in {"na", "rlx", "rel"}

EventLabel(k, o) ==
  [kind |-> k, op |-> "O", ord |-> o, acq |-> isAtLeastAcquire(o),
   rel |-> isAtLeastRelease(o), stamp |-> 0, max |-> TRUE,
   hb |-> ZeroView, porf |-> ZeroView]

-----------------------------------------------------------------------------
(* Control *)

BlockLabel(type)     == [op |-> "B", type |-> type] @@ EventLabel("Block", "na")
OptionalLabel        == [expandable |-> TRUE, expanded |-> FALSE]
                          @@ EventLabel("Optional", "na")
LoopBeginLabel       == EventLabel("LoopBegin", "na")
SpinStartLabel       == EventLabel("SpinStart", "na")
FaiZNESpinEndLabel   == EventLabel("FaiZNESpinEnd", "na")
LockZNESpinEndLabel  == EventLabel("LockZNESpinEnd", "na")
FenceLabel(o)        == [EventLabel("Fence", o) EXCEPT !.op = "F"]

ThreadCreateLabel(c) == [op |-> "F", child |-> c] @@ EventLabel("ThreadCreate", "rel")
ThreadStartLabel(p)  == [op |-> "S", parent |-> p] @@ EventLabel("ThreadStart", "acq")
ThreadJoinLabel(c)   == [child |-> c, childLast |-> Init0]
                          @@ EventLabel("ThreadJoin", "acq")
ThreadFinishLabel    == [op |-> "F", parentJoin |-> Init0]
                          @@ EventLabel("ThreadFinish", "rel")

denotesThreadEnd(l) == l.kind \in {"ThreadFinish", "Block"}

-----------------------------------------------------------------------------
(* Accesses *)

MemAccessLabel(k, o, a) == [loc |-> a, rmw |-> "none"] @@ EventLabel(k, o)

ReadLabel(o, a) ==
  [op |-> "R", rf |-> Bottom, rev |-> TRUE] @@ MemAccessLabel("Read", o, a)
BWaitReadLabel(a) == [kind |-> "BWaitRead"] @@ ReadLabel("acq", a)

FaiReadLabel(o, a, f, v) ==
  [kind |-> "FaiRead", rmw |-> "fai", fop |-> f, operand |-> v] @@ ReadLabel(o, a)
BIncFaiReadLabel(a) ==
  [kind |-> "BIncFaiRead"] @@ FaiReadLabel("ar", a, "sub", 1)

CasReadLabel(o, a, exp, swap) ==
  [kind |-> "CasRead", rmw |-> "cas", expected |-> exp, operand |-> swap]
    @@ ReadLabel(o, a)
LockCasReadLabel(a)    == [kind |-> "LockCasRead"] @@ CasReadLabel("acq", a, 0, 1)
TrylockCasReadLabel(a) == [kind |-> "TrylockCasRead"] @@ CasReadLabel("acq", a, 0, 1)

WriteLabel(o, a, v) ==
  [op |-> "W", val |-> v, msg |-> ZeroView] @@ MemAccessLabel("Write", o, a)
UnlockWriteLabel(a)      == [kind |-> "UnlockWrite"] @@ WriteLabel("rel", a, 0)
BInitWriteLabel(a, v)    == [kind |-> "BInitWrite"] @@ WriteLabel("na", a, v)
BDestroyWriteLabel(a)    == [kind |-> "BDestroyWrite"] @@ WriteLabel("na", a, 0)
FaiWriteLabel(o, a, v)   == [kind |-> "FaiWrite", rmw |-> "fai"] @@ WriteLabel(o, a, v)
BIncFaiWriteLabel(a, v)  == [kind |-> "BIncFaiWrite"] @@ FaiWriteLabel("ar", a, v)
CasWriteLabel(o, a, v)   == [kind |-> "CasWrite", rmw |-> "cas"] @@ WriteLabel(o, a, v)
LockCasWriteLabel(a)     == [kind |-> "LockCasWrite"] @@ CasWriteLabel("acq", a, 1)
TrylockCasWriteLabel(a)  == [kind |-> "TrylockCasWrite"] @@ CasWriteLabel("acq", a, 1)

\* Class membership, where a class has subclasses.
isFaiRead(l)   == l.kind \in {"FaiRead", "BIncFaiRead"}
isFaiWrite(l)  == l.kind \in {"FaiWrite", "BIncFaiWrite"}
isLockWrite(l) == l.kind \in {"LockCasWrite", "TrylockCasWrite"}

-----------------------------------------------------------------------------
(* Memory management *)

MallocLabel(base, size) == [base |-> base, size |-> size] @@ EventLabel("Malloc", "na")
FreeLabel(a, size)      == [base |-> a, size |-> size] @@ EventLabel("Free", "na")
HpRetireLabel(a, size)  == [kind |-> "HpRetire"] @@ FreeLabel(a, size)
HpProtectLabel(hp, a)   == [hp |-> hp, prot |-> a] @@ EventLabel("HpProtect", "rel")

isFree(l)      == l.kind \in {"Free", "HpRetire"}
contains(l, a) == l.base <= a /\ a < l.base + l.size
=============================================================================
