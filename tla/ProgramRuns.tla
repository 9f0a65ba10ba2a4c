---------------------------- MODULE ProgramRuns ----------------------------
(***************************************************************************)
(* What a run of Runtime promises.  The reference is the graph the run     *)
(* leaves behind, read as a set of events, without regard to the order in  *)
(* which they were added: happens-before is the closure of program order   *)
(* and synchronization.                                                    *)
(***************************************************************************)
EXTENDS Runtime

Po(a, b) == a[1] = b[1] /\ a[2] < b[2]

Closure(ev, step) ==
  LET Via(r, e) == r \cup ({p[1] : p \in {q \in r : q[2] = e}}
                            \X {p[2] : p \in {q \in r : q[1] = e}})
  IN Sets!FoldSet(LAMBDA e, r : Via(r, e), step, ev)

\* The events whose past an acquire read of store w learns of: releases for
\* its location that are w or precede it, also through a chain of RMWs.  As
\* in the code, the start of a thread and the creation of another count as
\* release fences.
Published(g, ws, chain, w) ==
  LET heads == {w} \cup {v \in ws : <<w, v>> \in chain}
      Releases(e, v) ==
        \/ Lab(g, e).op = "W" /\ Lab(g, e).rel /\ Lab(g, e).loc = Lab(g, v).loc
        \/ Lab(g, e).op = "F" /\ Lab(g, e).rel
        \/ Lab(g, e).op = "S"
  IN {e \in Events(g) : \E v \in heads : (e = v \/ Po(e, v)) /\ Releases(e, v)}

\* Synchronization, as pairs of events.
Sw(g) ==
  LET ws == Writes(g)
      rs == {r \in Reads(g) : Lab(g, r).rf \in ws}
      chain == Closure(ws, {p \in ws \X ws : isRMWStore(g, p[1]) /\ Lab(g, Prev(p[1])).rf = p[2]})
      Acquires(r) ==
        {e \in Events(g) : \/ e = r /\ Lab(g, r).acq
                           \/ Po(r, e) /\ Lab(g, e).kind = "Fence" /\ Lab(g, e).acq}
  IN UNION {Published(g, ws, chain, Lab(g, r).rf) \X Acquires(r) : r \in rs}
     \cup {<<Lab(g, e).parent, e>> : e \in {f \in Events(g) : Lab(g, f).op = "S" /\ Lab(g, f).parent # Init0}}
     \cup {p \in Events(g) \X Events(g) :
             /\ Lab(g, p[1]).kind = "ThreadFinish" /\ p[1][1] # p[2][1]
             /\ Lab(g, p[2]).kind = "ThreadJoin" /\ Lab(g, p[2]).child = p[1][1]}

\* The events that the view of e contains.
Sees(g, e) == {a \in Events(g) : Contains(Lab(g, e).hb, a)}

\* The views that the labels carry when the run ends say exactly what happens
\* before what: an event sees itself and what the events see that precede it
\* in its thread or synchronize with it.  (Both relations point back in time,
\* so this determines what it sees.)  RC11Driver computes the views event by
\* event, from fences, release sequences, thread creation and joins, and
\* patches them when a join, a lock or a barrier is completed later.
HappensBeforeExact ==
  Ended =>
    \A sees \in {[e \in Events(d.g) |-> Sees(d.g, e)]}, sw \in {Sw(d.g)} :
      \A b \in {e \in Events(d.g) : Lab(d.g, e).kind # "Block"} :
        sees[b] = {b} \cup UNION {sees[a] : a \in {a \in Events(d.g) : Po(a, b) \/ <<a, b>> \in sw}}

-----------------------------------------------------------------------------
(* Locks and barriers *)

\* Between two acquisitions of a mutex, by lock() or trylock(), executed,
\* rescheduled or completed in place by an unlock, coherence has a release of
\* the first by its thread.
MutualExclusion ==
  d.err = "none" =>
    \A a \in Static : \A i, j \in 1 .. Len(d.g.co[a]) :
      LET At(n) == Lab(d.g, d.g.co[a][n])
      IN i < j /\ isLockWrite(At(i)) /\ isLockWrite(At(j)) =>
           \E k \in i + 1 .. j - 1 : /\ At(k).kind = "UnlockWrite"
                                     /\ d.g.co[a][k][1] = d.g.co[a][i][1]

\* The reads that wait for a mutex.
WaitingLocks(g) ==
  {r \in Reads(g) : /\ Lab(g, r).kind = "LockCasRead"
                   /\ r[2] + 1 = Len(g.ev[r[1]]) /\ LastLabel(g, r[1]).kind = "Block"}

\* No mutex is lost: when a run ends that counts (it is not moot and has no
\* error), the mutex a thread waits for is still held by the thread it waits
\* for, or was handed on when that released it: the unlock completed
\* another waiting lock in place, or a rescheduled one took it.
NoLostLock ==
  status \in {"blocked", "complete"} =>
    \A r \in WaitingLocks(d.g) :
      LET s == d.g.co[Lab(d.g, r).loc]
          i == CHOOSE j \in DOMAIN s : s[j] = Lab(d.g, r).rf
      IN i = Len(s) \/ (i + 2 <= Len(s) /\ isLockWrite(Lab(d.g, s[i + 2])))

\* A thread is past a barrier exactly if the round it arrived in is full: all
\* arrivals of its round are in the graph.  Rounds count the arrivals at the
\* barrier in coherence order, by the barrier's initial value.
BarrierExact ==
  d.err = "none" =>
    \A r \in Reads(d.g) :
      Lab(d.g, r).kind = "BWaitRead" =>
        LET a        == Lab(d.g, r).loc
            n        == getBarrierInitValue(d.g, a)
            arrivals == SelectSeq(d.g.co[a], LAMBDA w : Lab(d.g, w).kind = "BIncFaiWrite")
            mine     == CHOOSE i \in DOMAIN arrivals : arrivals[i] = Prev(r)
            full     == Len(arrivals) >= ((mine + n - 1) \div n) * n
            waits    == r[2] + 1 = Len(d.g.ev[r[1]]) /\ isBlockedAs(d.g, r[1], "Barrier")
        IN full <=> ~waits

-----------------------------------------------------------------------------
(* Errors.  What happens before what is read off the views, which is right *)
(* by HappensBeforeExact.                                                  *)

Accesses(g) == Reads(g) \cup Writes(g)
OfKind(g, k) == {e \in Events(g) : Lab(g, e).kind = k}
Blocks(g, a) == {m \in OfKind(g, "Malloc") : contains(Lab(g, m), a)}

\* The access is to memory that is freed without the access happening before.
FreedUnder(g, e) ==
  {f \in OfKind(g, "Free") : contains(Lab(g, f), Lab(g, e).loc) /\ ~isHbBefore(g, e, f)}
\* A hazard pointer of its thread points into the block at the access: that
\* is what it was last set to.  (hazptr_clear() does not count, as in the code.)
Protected(g, m, e) ==
  LET ls == g.ev[e[1]]
      sets == {i \in 1 .. e[2] - 1 : ls[i].kind = "HpProtect"}
  IN \E i \in sets : /\ contains(Lab(g, m), ls[i].prot)
                     /\ ~\E j \in sets : j > i /\ ls[j].hp = ls[i].hp
RetiredUnder(g, e) ==
  {f \in OfKind(g, "HpRetire") : /\ contains(Lab(g, f), Lab(g, e).loc)
                                 /\ ~isHbBefore(g, e, f)
                                 /\ \A m \in Blocks(g, Lab(g, e).loc) : ~Protected(g, m, e)}
\* No allocation of it happens before the access.
Unallocated(g, e) ==
  IF isDynamic(Lab(g, e).loc) THEN ~\E m \in Blocks(g, Lab(g, e).loc) : isHbBefore(g, m, e)
  ELSE Lab(g, e).loc \notin Static
\* No store to the location happens before the read.
Uninitialized(g, e) ==
  /\ Lab(g, e).op = "R" /\ isDynamic(Lab(g, e).loc)
  /\ ~\E w \in Writes(g) : Lab(g, w).loc = Lab(g, e).loc /\ isHbBefore(g, w, e)
Frees(g) == {f \in Events(g) : isFree(Lab(g, f)) /\ isDynamic(Lab(g, f).base)}
FreedTwice(g) == \E e, f \in Frees(g) : e # f /\ Lab(g, e).base = Lab(g, f).base
FreedWild(g) ==
  \E f \in Frees(g) :
    ~\E m \in OfKind(g, "Malloc") : Lab(g, m).base = Lab(g, f).base /\ isHbBefore(g, m, f)

\* Every memory error that is reported is one, whatever order the events were
\* added in.  (An uninitialized or destroyed mutex or barrier is reported as
\* such an error too.)
MemoryErrorsSound ==
  Ended =>
    LET g == d.g
        Sync == \E r \in Reads(g) : Lab(g, r).kind \in {"LockCasRead", "BIncFaiRead"}
    IN CASE d.err = "AccessFreed" ->
              Sync \/ \E e \in Accesses(g) : FreedUnder(g, e) \cup RetiredUnder(g, e) # {}
         [] d.err = "AccessNonMalloc" -> \E e \in Accesses(g) : Unallocated(g, e)
         [] d.err = "UninitializedMem" -> Sync \/ \E e \in Accesses(g) : Uninitialized(g, e)
         [] d.err = "DoubleFree" -> FreedTwice(g)
         [] d.err = "FreeNonMalloc" -> FreedWild(g)
         [] OTHER -> TRUE

\* No memory error is missed: if the run ends without one, each access is to
\* allocated, initialized memory that is freed, if at all, after it.  The free
\* checks earlier accesses at the address it frees only, and a retire the last
\* one it finds: of the others those are meant that came after it.
MemoryErrorsComplete ==
  Ended /\ d.err = "none" =>
    LET g == d.g
        Meant(e, f) == Lab(g, e).stamp > Lab(g, f).stamp
                       \/ (Lab(g, f).kind = "Free" /\ Lab(g, e).loc = Lab(g, f).base)
    IN /\ ~FreedTwice(g) /\ ~FreedWild(g)
       /\ \A e \in Accesses(g) :
            /\ ~Unallocated(g, e) /\ ~Uninitialized(g, e)
            /\ ~\E f \in FreedUnder(g, e) \cup RetiredUnder(g, e) : Meant(e, f)

\* Memory errors are reported where there are some, and only there.
MemoryErrorsExact == MemoryErrorsSound /\ MemoryErrorsComplete

Races(g) ==
  {p \in Accesses(g) \X Writes(g) :
     /\ p[1] # p[2] /\ Lab(g, p[1]).loc = Lab(g, p[2]).loc
     /\ Lab(g, p[1]).ord = "na" \/ Lab(g, p[2]).ord = "na"
     /\ ~isHbBefore(g, p[1], p[2]) /\ ~isHbBefore(g, p[2], p[1])}

\* A data race is reported exactly if the graph has one.
DataRacesExact ==
  Ended =>
    /\ d.err = "RaceNotAtomic" => Races(d.g) # {}
    /\ d.err = "none" => Races(d.g) = {}

\* A thread blocked in a loop that adds and takes back again is blocked for a
\* reason when the run ends: all other accesses to the variable happen before
\* its own last one, also those that were added after it was blocked.
SpinBlocksJustified ==
  Ended /\ d.err = "none" => \A t \in Created(d.g) :
    isBlockedAs(d.g, t, "FaiZNESpinloop") =>
      LET g   == d.g
          fai == <<t, MaxOf({i \in 1 .. Len(g.ev[t]) : isFaiWrite(g.ev[t][i])})>>
      IN \A e \in Accesses(g) :
           /\ Lab(g, e).loc = Lab(g, fai).loc
           /\ ~isFaiRead(Lab(g, e)) /\ ~isFaiWrite(Lab(g, e)) => isHbBefore(g, e, fai)

\* The value a location has at the end of the run.
FinalVal(g, a) == IF g.co[a] = <<>> THEN 0 ELSE WriteVal(g, g.co[a][Len(g.co[a])])

\* A liveness violation is reported only if going on would not help: every
\* thread that spins has read, since its loop started over, what it would
\* read again, and no thread can move.
LivenessSound ==
  d.err = "Liveness" =>
    /\ \A t \in Threads : ~isSchedulable(d, t)
    /\ SpinBlocked(d.g) # {}
    /\ \A t \in SpinBlocked(d.g) :
         LET ls    == d.g.ev[t]
             n     == IF ls[Len(ls) - 1].kind = "SpinStart" THEN Len(ls) - 2 ELSE Len(ls) - 1
             start == MaxOf({i \in 1 .. n : ls[i].kind = "SpinStart"})
         IN \A i \in start .. n :
              ls[i].op = "R" => FinalVal(d.g, ls[i].loc) = ReadVal(d.g, <<t, i>>)

\* Every run ends: no label is added and taken back for ever.  A waiting read
\* is taken back and executed again at most once, and a blockage is lifted
\* at most twice for a lock, once for a barrier or a spin loop; every other
\* label stays.  The 2 are for a read that is about to be executed again.
\* (Runs that have not ended can go on: there is no deadlock.)
NoLivelock ==
  LET Num(k) == Cardinality(OfKind(d.g, k))
  IN d.g.stamp - 1 - Cardinality(Events(d.g))
       <= 2 + 3 * Num("LockCasRead") + Num("BWaitRead") + Num("FaiZNESpinEnd")
=============================================================================
