------------------------------ MODULE MCLibrary ------------------------------
(* The library layer, instantiated for TLC on small clients of a library.   *)
EXTENDS LibraryLayer

Start(fn) == [op |-> "start", fn |-> fn]
End == [op |-> "end"]
Store(loc, val, rel, na) ==
  [op |-> "W", loc |-> loc, val |-> val, rel |-> rel, na |-> na, rmw |-> "none"]
Load(loc, acq) ==
  [op |-> "R", loc |-> loc, acq |-> acq, na |-> FALSE, rmw |-> "none"]
Deref == [op |-> "deref", acq |-> FALSE, na |-> TRUE, rmw |-> "none"]
CasLock(loc, acq) ==
  [op |-> "R", loc |-> loc, acq |-> acq, rel |-> FALSE, na |-> FALSE,
   rmw |-> "cas"]

\* A queue of slots (locations 11 to 13) that hold pointers to nodes
\* (locations 1 to 3).
Slot(i) == 10 + i
Enq(i, rel) == <<Start("FN_Enq"), Store(i, 5, FALSE, TRUE), Store(Slot(i), i, rel, FALSE), End>>
Deq(i, acq) == <<Start("FN_Deq"), Load(Slot(i), acq), Deref, End>>
\* The same dequeue, left without passing its end.
DeqOut(i, acq) == <<Start("FN_Deq"), Load(Slot(i), acq), Deref>>
\* Calls that hold a spin lock (location 20), relaxed if so wished.
LockedEnq(i, rel) ==
  <<Start("FN_Enq"), CasLock(20, TRUE), Store(i, 5, FALSE, TRUE),
    Store(Slot(i), i, FALSE, FALSE), Store(20, 0, rel, FALSE), End>>
LockedDeq(i) ==
  <<Start("FN_Deq"), CasLock(20, TRUE), Load(Slot(i), FALSE), Deref,
    Store(20, 0, TRUE, FALSE), End>>

\* An enqueuer and a dequeuer, in either order of threads, with any order of
\* slots, synchronising or not; and threads that do both.
QueueClients ==
  LET enqs(rel) == Enq(1, rel) \o Enq(2, TRUE)
      deqs(i, j, acq) == Deq(i, acq) \o Deq(j, TRUE)
  IN UNION {{<<LockedEnq(1, rel), LockedDeq(i)>>, <<LockedDeq(i), LockedEnq(1, rel)>>,
             <<Enq(1, rel) \o Enq(3, TRUE) \o Enq(2, TRUE), deqs(i, j, acq)>>,
             <<enqs(rel), deqs(i, j, acq)>>, <<deqs(i, j, acq), enqs(rel)>>,
             <<Deq(i, acq) \o Enq(1, rel), Deq(j, TRUE) \o Enq(2, TRUE)>>} :
              i \in {1, 2}, j \in {1, 2}, rel \in BOOLEAN, acq \in BOOLEAN}

Push(i, rel) == <<Start("FN_Push")>> \o Tail(Enq(i, rel))
Pop(i, acq) == <<Start("FN_Pop")>> \o Tail(Deq(i, acq))

\* The same cells used as a stack, by one thread or by two.
StackClients ==
  UNION {{<<Push(1, rel) \o Push(2, TRUE) \o Pop(i, acq) \o Pop(j, TRUE), <<>>>>,
          <<Push(1, rel) \o Push(2, TRUE), Pop(i, acq) \o Pop(j, TRUE)>>,
          <<Pop(i, acq) \o Pop(j, TRUE), Push(1, rel) \o Push(2, TRUE)>>,
          <<Push(1, TRUE) \o Pop(i, acq), Push(2, rel) \o Pop(j, TRUE)>>} :
           i \in {1, 2}, j \in {1, 2}, rel \in BOOLEAN, acq \in BOOLEAN}

\* Calls that race with one another, some of which are left abnormally.
RacingClients ==
  {<<Deq(1, acq) \o a, Enq(1, rel)>> :
     acq \in BOOLEAN, rel \in BOOLEAN,
     a \in {Enq(2, TRUE), DeqOut(1, TRUE) \o Enq(2, FALSE)}}

\* A lock that one thread initialises, or releases, and another takes.
LockClients ==
  {<<<<Start(fn), Store(11, 0, rel, FALSE), End>>,
     <<Start("FN_Lock"), CasLock(11, acq), End>>>> :
     fn \in {"FN_Init", "FN_Unlock"}, rel \in BOOLEAN, acq \in BOOLEAN}
Verify(ds, policy, progs) ==
  {[ds |-> ds, policy |-> policy, prog |-> p] : p \in progs}

AllClients ==
  UNION {Verify(ds, "ltr", QueueClients) : ds \in {"M_HW_Queue", "M_Weak_Queue", "M_Rel_Queue"}}
    \cup UNION {Verify(ds, "ltr", StackClients) : ds \in Stacks}
    \cup Verify("M_HW_Queue", "random", RacingClients)

QueuesByDefault == Verify("M_HW_Queue", "wf", QueueClients)
LocksByDefault  == Verify("M_Mutex", "wf", LockClients)
=============================================================================
