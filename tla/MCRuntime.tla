------------------------------ MODULE MCRuntime ------------------------------
(* Runs of small multi-threaded programs, by what they exercise. *)
EXTENDS ProgramRuns

I(op) == [op |-> op, a |-> 0, ptr |-> FALSE, ord |-> "na", v |-> 0, vr |-> FALSE,
          exp |-> 0, f |-> "add", to |-> 0, align |-> 1]

\* Globals.
x == 1    y == 2    m == 3    k == 4    p == 5    hp == 6

At(op, a)      == [I(op) EXCEPT !.a = a]
Ld(o, a)       == [At("load", a) EXCEPT !.ord = o]
St(o, a, v)    == [At("store", a) EXCEPT !.ord = o, !.v = v]
Publish(o, a)  == [At("store", a) EXCEPT !.ord = o, !.vr = TRUE]
LdPtr(off)     == [Ld("na", off) EXCEPT !.ptr = TRUE]
StPtr(off)     == [St("na", off, 7) EXCEPT !.ptr = TRUE]
OnPtr(op, v)   == [I(op) EXCEPT !.ptr = TRUE, !.v = v]
Rmw(f, o, a, v) == [At("rmw", a) EXCEPT !.f = f, !.ord = o, !.v = v]
Cas(o, a, e, v) == [At("cas", a) EXCEPT !.exp = e, !.ord = o, !.v = v]
Fence(o)       == [I("fence") EXCEPT !.ord = o]
With(op, v)    == [I(op) EXCEPT !.v = v]
Malloc(n, al)  == [With("malloc", n) EXCEPT !.align = al]
Br(v, to)      == [With("br", v) EXCEPT !.to = to]
Lock(a)   == At("lock", a)
Unlock(a) == At("unlock", a)

Create == I("create")
Join(t) == With("join", t)
Main(before, after) == before \o <<Create, Create>> \o after
Two(before, a, b, after) == <<Main(before, after), a, b>>

\* Critical sections: contention, nesting (with deadlock), trylock, misuse.
Locking ==
  LET cs(a, b) == {<<Lock(a), St("na", b, 1), Unlock(a)>>,
                   <<At("trylock", a), Br(1, 5), St("na", b, 2), Unlock(a)>>}
      nested   == {<<Lock(m), Lock(k), Unlock(k), Unlock(m)>>,
                   <<Lock(k), Lock(m), Unlock(m), Unlock(k)>>}
      misuse   == {<<Unlock(m)>>, <<St("na", x, 2)>>, <<At("mutex_destroy", m)>>,
                   <<Lock(m), Lock(m)>>, <<Lock(m)>>}
  IN {Two(<<At("mutex_init", m)>>, a, b, c) :
        a \in cs(m, x), b \in cs(m, x), c \in {<<>>, <<Lock(m), Unlock(m), Join(2)>>}}
     \cup {Two(<<>>, a, b, c) : a \in nested, b \in nested \cup cs(k, x), c \in {<<>>, <<Lock(m), Unlock(m)>>}}
     \cup {Two(<<>>, a, b, <<Lock(m), Unlock(m)>>) : a \in cs(m, x), b \in misuse}
     \cup {Two(<<>>, <<Lock(k), Unlock(k), Lock(m), Unlock(m)>>,
               <<Lock(m), Lock(k), Unlock(k), Unlock(m)>>, <<Lock(m), Unlock(m)>>)}

\* Rounds of a barrier, with accesses that only the barrier orders.
Barriers ==
  LET wait == At("barrier_wait", m)
      init(n) == [At("barrier_init", m) EXCEPT !.v = n]
  IN {Two(<<init(2)>>, <<St("na", x, 1), wait, Ld("na", y)>> \o a,
                       <<St("na", y, 1), wait, Ld("na", x)>> \o a,
          <<Join(2), Join(3), At("barrier_destroy", m)>>) : a \in {<<>>, <<wait>>, <<wait, wait>>}}
     \cup {Two(b, <<wait>>, c, <<wait>>) :
             b \in {<<>>, <<init(0)>>, <<init(3)>>, <<init(3), init(3)>>},
             c \in {<<wait, St("rlx", x, 1)>>, <<At("barrier_destroy", m)>>}}

\* Message passing with fences, RMWs, joins and the thread's start.
Synchronizing ==
  {Two(<<St("na", y, 1)>>, a, b, c) :
     a \in {<<St("na", x, 1), St("rel", k, 1)>>, <<St("na", x, 1), St("rlx", k, 1)>>,
            <<St("na", x, 1), Fence("rel"), St("rlx", k, 1)>>,
            <<St("na", x, 1), St("rel", k, 1), St("rlx", k, 2)>>},
     b \in {<<Ld("acq", k), I("assume"), Ld("na", x)>>,
            <<Ld("rlx", k), I("assume"), Fence("acq"), Ld("na", x)>>,
            <<Ld("rlx", k), Fence("acq"), Fence("acq"), I("assume"), St("na", x, 2)>>,
            <<Rmw("add", "ar", k, 1), I("assume"), Ld("na", x)>>},
     c \in {<<Join(2), Ld("na", x)>>, <<Rmw("add", "rlx", k, 1), Join(3), Join(2), Ld("na", x)>>,
            <<Cas("acq", k, 1, 3), Ld("na", y)>>}}

\* A block that one thread publishes and frees while another uses it.
Memory ==
  LET use(o) == {<<Ld(o, p), Br(0, 4), LdPtr(0)>>, <<Ld(o, p), Br(0, 4), StPtr(1)>>,
                 <<Ld(o, p), OnPtr("free", 0)>>, <<LdPtr(0)>>}
      give(o) == {<<Malloc(2, 2), StPtr(0), Publish(o, p)>> \o a :
                    a \in {<<>>, <<OnPtr("free", 0)>>, <<OnPtr("hp_retire", 0)>>}}
  IN {Two(<<>>, a, b, <<>>) : a \in give("rel"), b \in use("acq")}
     \cup {Two(<<>>, a, b, <<Join(2)>>) : a \in give("rlx"), b \in use("rlx")}
     \cup {Two(<<>>, b, a, <<Join(2), Join(3), Ld("na", p), OnPtr("free", 0)>>) :
             a \in give("rel"), b \in use("acq")}
     \cup {Two(<<>>, <<Malloc(n, al), StPtr(0)>>, <<I("exit")>>, <<>>) : n \in {0, 2, 3}, al \in {2, 3}}
     \cup {Two(<<>>, <<With("alloca", 1), StPtr(0), Publish("rel", p)>>, b, <<Join(4)>>) : b \in use("acq")}

\* Hazard pointers: protected, protected for something else, cleared.
Hazards ==
  {Two(<<Malloc(1, 1), StPtr(0), Publish("rel", p)>>,
       <<Ld("acq", p)>> \o a \o <<LdPtr(0), St("rlx", x, 1)>>,
       <<Ld("acq", p), OnPtr("hp_retire", 0)>> \o b, <<>>) :
     a \in {<<OnPtr("hp_protect", hp)>>, <<>>, <<OnPtr("hp_protect", hp), With("hp_protect", hp)>>,
            <<OnPtr("hp_protect", hp), With("hp_clear", hp)>>},
     b \in {<<>>, <<LdPtr(0)>>, <<OnPtr("free", 0)>>}}

\* Spin loops: waiting for a flag, with the block placed by the compiler pass
\* or found by the driver, and loops without net effect.
Spinning ==
  LET flag == <<I("loop_begin"), I("spin_start"), Ld("acq", x), I("spin_end")>>
      dsa(body) == <<I("loop_begin"), I("spin_start")>> \o body \o <<Br(0, 2)>>
      work == <<I("loop_begin"), I("spin_start"), St("rlx", y, 1), Ld("acq", x), Br(1, 9),
                I("spin_start"), Ld("acq", x), I("kill")>>
      xchg == <<I("loop_begin"), I("spin_start"), Rmw("xchg", "ar", x, 0), Br(0, 2)>>
      zne  == <<I("loop_begin"), I("spin_start"), Rmw("add", "rlx", x, 1), Br(0, 8),
                Rmw("sub", "rlx", x, 1), I("faizne_end"), I("kill")>>
      lzne == <<I("loop_begin"), I("spin_start"), At("trylock", x), Br(0, 7), I("lockzne_end"), I("kill")>>
      own  == <<Malloc(1, 1), I("loop_begin"), I("spin_start"), StPtr(0), Ld("acq", x), Br(1, 8), I("kill")>>
      opt  == <<I("opt_begin"), I("opt_begin"), Ld("rlx", x), I("assume"), I("assert")>>
  IN {Two(<<>>, a, b, c) :
        a \in {flag, dsa(<<Ld("acq", y), Ld("acq", x)>>), work, xchg, zne, lzne, own, opt},
        b \in {<<St("rel", x, 1)>>, zne, flag \o <<St("rel", x, 2)>>, <<>>},
        c \in {<<>>, <<St("rlx", x, 1), St("rlx", x, 0)>>}}

AllPrograms == Locking \cup Barriers \cup Synchronizing \cup Memory \cup Hazards \cup Spinning

AllLocs == 0 .. 14
Globals == 1 .. 6
=============================================================================
