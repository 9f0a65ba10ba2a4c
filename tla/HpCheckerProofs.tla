-------------------------- MODULE HpCheckerProofs ---------------------------
(***************************************************************************)
(* Proofs about the check of hazard pointer clients: whatever the calls    *)
(* and however many threads there are, what it accepts obeys the protocol. *)
(*                                                                         *)
(* The argument is about one thread and one address: each state of the     *)
(* automaton that checkHp() runs stands for something the calls so far     *)
(* have done, and this is an invariant of the automaton as long as it      *)
(* rejects no call (Meaning).                                              *)
(***************************************************************************)
EXTENDS HpChecker, InductionLemmas

-----------------------------------------------------------------------------
(* The recursive function that runs the automaton *)

\* f is a run of the automaton for address a over the first n calls.
IsRun(seq, a, n, f) ==
  f = [i \in 0 .. n |->
         IF i = 0 THEN 9
         ELSE IF seq[i].addr = a THEN Step(f[i - 1], seq[i].name) ELSE f[i - 1]]

\* The recursion of the automaton has a solution for every sequence of calls.
LEMMA RunExists ==
  ASSUME NEW seq, NEW a
  PROVE  \A n \in Nat : \E f : IsRun(seq, a, n, f)
<1> DEFINE S == {n \in Nat : \E f : IsRun(seq, a, n, f)}
<1>1. 0 \in S
  <2> DEFINE f == [i \in 0 .. 0 |-> 9]
  <2>1. IsRun(seq, a, 0, f)
    BY DEF IsRun
  <2> QED BY <2>1
<1>2. ASSUME NEW n \in S PROVE n + 1 \in S
  <2>1. PICK f : IsRun(seq, a, n, f)
    OBVIOUS
  <2> DEFINE next == IF seq[n + 1].addr = a THEN Step(f[n], seq[n + 1].name) ELSE f[n]
             g == [i \in 0 .. n + 1 |-> IF i = n + 1 THEN next ELSE f[i]]
  <2>2. n \in Nat
    OBVIOUS
  <2>3. \A i \in 0 .. n : g[i] = f[i]
    BY <2>2
  <2>4. g[n + 1] = next
    BY <2>2
  <2>5. ASSUME NEW i \in 0 .. n + 1
        PROVE  g[i] = IF i = 0 THEN 9
                      ELSE IF seq[i].addr = a THEN Step(g[i - 1], seq[i].name)
                      ELSE g[i - 1]
    <3>1. CASE i = n + 1
      <4>1. g[i - 1] = f[n]
        BY <2>2, <2>3, <3>1
      <4> HIDE DEF g
      <4> QED BY <2>2, <2>4, <3>1, <4>1
    <3>2. CASE i \in 1 .. n
      <4>1. g[i] = f[i] /\ g[i - 1] = f[i - 1]
        BY <2>2, <2>3, <3>2
      <4> HIDE DEF g, next
      <4> QED BY <2>1, <2>2, <3>2, <4>1 DEF IsRun
    <3>3. CASE i = 0
      <4> HIDE DEF g, next
      <4> QED BY <2>1, <2>2, <2>3, <3>3 DEF IsRun
    <3> QED BY <2>2, <3>1, <3>2, <3>3
  <2>6. g = [i \in 0 .. n + 1 |-> g[i]]
    OBVIOUS
  <2> HIDE DEF g, next
  <2>7. IsRun(seq, a, n + 1, g)
    BY <2>5, <2>6 DEF IsRun
  <2> QED BY <2>2, <2>7
<1> HIDE DEF S
<1>3. S \in SUBSET Nat
  BY DEF S
<1>4. S = Nat
  BY <1>1, <1>2, <1>3, SetInduction
<1> QED BY <1>4 DEF S

\* The function that the check computes is a run over all calls.
LEMMA StatesOfIsRun ==
  ASSUME NEW seq, Len(seq) \in Nat, NEW a
  PROVE  IsRun(seq, a, Len(seq), StatesOf(seq, a))
<1> DEFINE D(g) == IsRun(seq, a, Len(seq), g)
<1>1. \E f : D(f)
  BY RunExists
<1>2. StatesOf(seq, a) = CHOOSE g : D(g)
  BY Zenon DEF StatesOf, IsRun
<1>3. D(CHOOSE g : D(g))
  <2> HIDE DEF D
  <2> QED BY <1>1, Zenon
<1> QED BY <1>2, <1>3, Zenon

-----------------------------------------------------------------------------
(* The automaton *)

\* States in which a protection is held: it can be lifted only there.
Holds0 == {10, 15, 21, 22, 23}
Holds1 == {13, 14, 15, 18, 21}

\* States in which a protection was taken and there was no reclaim since.
Fresh0 == {10, 15, 21}
Fresh1 == {15, 18, 21}

\* States in which one was lifted too, without a reclaim since it was taken.
Lifted == {11, 13, 16, 19, 22, 24}

\* A step of the automaton: from s by a call of this name to r.
LEMMA StepsAllowed ==
  ASSUME NEW s, NEW name, Allowed(s, name)
  PROVE  <<s, name, Step(s, name)>> \in Steps
<1> DEFINE p == CHOOSE q \in Steps : q[1] = s /\ q[2] = name
<1>1. p \in Steps /\ p[1] = s /\ p[2] = name
  BY Zenon DEF Allowed
<1>2. Step(s, name) = p[3]
  BY Zenon DEF Step
<1> HIDE DEF p
<1>3. \A q \in Steps : q = <<q[1], q[2], q[3]>>
  BY DEF Steps, StepsFrom0, StepsFrom1
<1> QED BY <1>1, <1>2, <1>3, Zenon

\* Where each kind of call leads.
LEMMA StepsFacts ==
  ASSUME NEW s, NEW name, NEW r, <<s, name, r>> \in Steps
  PROVE  /\ name = "U0" => s \in Holds0
         /\ name = "U1" => s \in Holds1
         /\ name = "R" => s \in Lifted
         /\ r \in Holds0 => name = "P0" \/ (s \in Holds0 /\ name # "U0")
         /\ r \in Holds1 => name = "P1" \/ (s \in Holds1 /\ name # "U1")
         /\ r \in Fresh0 => name = "P0" \/ (s \in Fresh0 /\ name # "R")
         /\ r \in Fresh1 => name = "P1" \/ (s \in Fresh1 /\ name # "R")
         /\ r \in Lifted => \/ s \in Lifted /\ name # "R"
                            \/ s \in Fresh0 /\ name = "U0"
                            \/ s \in Fresh1 /\ name = "U1"
BY DEF Steps, StepsFrom0, StepsFrom1, Holds0, Holds1, Fresh0, Fresh1, Lifted

-----------------------------------------------------------------------------
(* What the states stand for *)

\* The first n calls, as far as they are about address a.
On(seq, a, n) == {j \in 1 .. n : seq[j].addr = a}

\* Protection p was taken in the first n calls, and there is no call c since.
TakenWithout(seq, a, n, p, c) ==
  \E j \in On(seq, a, n) :
    /\ seq[j].name = p
    /\ \A k \in On(seq, a, n) : k > j => seq[k].name # c

\* One was taken and then lifted, with no reclaim since it was taken.
TakenAndLifted(seq, a, n) ==
  \E j, k \in On(seq, a, n) :
    /\ j < k /\ Protect(seq[j].name) /\ Lifts(seq[k].name, seq[j].name)
    /\ \A m \in On(seq, a, n) : m >= j => seq[m].name # "R"

Meaning(seq, a, n, s) ==
  /\ s \in Holds0 => TakenWithout(seq, a, n, "P0", "U0")
  /\ s \in Holds1 => TakenWithout(seq, a, n, "P1", "U1")
  /\ s \in Fresh0 => TakenWithout(seq, a, n, "P0", "R")
  /\ s \in Fresh1 => TakenWithout(seq, a, n, "P1", "R")
  /\ s \in Lifted => TakenAndLifted(seq, a, n)

\* The calls on an address, with one call more.
LEMMA OnNext ==
  ASSUME NEW seq, NEW a, NEW n \in Nat
  PROVE  On(seq, a, n + 1) =
           IF seq[n + 1].addr = a THEN On(seq, a, n) \cup {n + 1} ELSE On(seq, a, n)
BY DEF On

\* Another call on the address keeps a protection taken, unless it is c ...
LEMMA StillTaken ==
  ASSUME NEW seq, NEW a, NEW n \in Nat, NEW p, NEW c,
         seq[n + 1].addr = a, seq[n + 1].name # c, TakenWithout(seq, a, n, p, c)
  PROVE  TakenWithout(seq, a, n + 1, p, c)
<1>1. PICK j \in On(seq, a, n) :
        seq[j].name = p /\ \A k \in On(seq, a, n) : k > j => seq[k].name # c
  BY DEF TakenWithout
<1>2. j \in On(seq, a, n + 1)
  BY OnNext
<1>3. \A k \in On(seq, a, n + 1) : k > j => seq[k].name # c
  BY <1>1, OnNext
<1> QED BY <1>1, <1>2, <1>3 DEF TakenWithout

\* ... and takes it if it is p.
LEMMA NowTaken ==
  ASSUME NEW seq, NEW a, NEW n \in Nat, NEW p, NEW c,
         seq[n + 1].addr = a, seq[n + 1].name = p
  PROVE  TakenWithout(seq, a, n + 1, p, c)
<1>1. n + 1 \in On(seq, a, n + 1)
  BY DEF On
<1>2. \A k \in On(seq, a, n + 1) : ~(k > n + 1)
  BY DEF On
<1> QED BY <1>1, <1>2 DEF TakenWithout

\* The same for a protection that was lifted ...
LEMMA StillLifted ==
  ASSUME NEW seq, NEW a, NEW n \in Nat,
         seq[n + 1].addr = a, seq[n + 1].name # "R", TakenAndLifted(seq, a, n)
  PROVE  TakenAndLifted(seq, a, n + 1)
<1>1. PICK j \in On(seq, a, n), k \in On(seq, a, n) :
        /\ j < k /\ Protect(seq[j].name) /\ Lifts(seq[k].name, seq[j].name)
        /\ \A m \in On(seq, a, n) : m >= j => seq[m].name # "R"
  BY DEF TakenAndLifted
<1>2. j \in On(seq, a, n + 1) /\ k \in On(seq, a, n + 1)
  BY OnNext
<1>3. \A m \in On(seq, a, n + 1) : m >= j => seq[m].name # "R"
  BY <1>1, OnNext
<1> QED BY <1>1, <1>2, <1>3 DEF TakenAndLifted

\* ... and for one that is being lifted.
LEMMA NowLifted ==
  ASSUME NEW seq, NEW a, NEW n \in Nat, NEW p,
         seq[n + 1].addr = a, Protect(p), Lifts(seq[n + 1].name, p),
         TakenWithout(seq, a, n, p, "R")
  PROVE  TakenAndLifted(seq, a, n + 1)
<1>1. PICK j \in On(seq, a, n) :
        seq[j].name = p /\ \A k \in On(seq, a, n) : k > j => seq[k].name # "R"
  BY DEF TakenWithout
<1>2. j \in On(seq, a, n + 1) /\ n + 1 \in On(seq, a, n + 1) /\ j < n + 1
  BY OnNext DEF On
<1>3. ASSUME NEW m \in On(seq, a, n + 1), m >= j PROVE seq[m].name # "R"
  <2>1. CASE m = n + 1
    BY <2>1 DEF Lifts
  <2>2. CASE m = j
    BY <1>1, <2>2 DEF Protect
  <2>3. CASE m \in On(seq, a, n) /\ m # j
    BY <1>1, <1>3, <2>3 DEF On
  <2> QED BY <2>1, <2>2, <2>3, OnNext
<1> QED BY <1>1, <1>2, <1>3 DEF TakenAndLifted

\* A call that the automaton allows keeps the meaning of its states.
LEMMA MeaningKept ==
  ASSUME NEW seq, NEW a, NEW n \in Nat, NEW s, seq[n + 1].addr = a,
         Allowed(s, seq[n + 1].name), Meaning(seq, a, n, s)
  PROVE  Meaning(seq, a, n + 1, Step(s, seq[n + 1].name))
<1> DEFINE name == seq[n + 1].name
           r == Step(s, name)
<1>1. <<s, name, r>> \in Steps
  BY StepsAllowed
<1> HIDE DEF name, r
<1>2. \A p, c : name = p => TakenWithout(seq, a, n + 1, p, c)
  BY NowTaken DEF name
<1>3. \A p, c : name # c /\ TakenWithout(seq, a, n, p, c) => TakenWithout(seq, a, n + 1, p, c)
  BY StillTaken DEF name
<1>4. /\ r \in Holds0 => name = "P0" \/ (s \in Holds0 /\ name # "U0")
      /\ r \in Holds1 => name = "P1" \/ (s \in Holds1 /\ name # "U1")
      /\ r \in Fresh0 => name = "P0" \/ (s \in Fresh0 /\ name # "R")
      /\ r \in Fresh1 => name = "P1" \/ (s \in Fresh1 /\ name # "R")
  BY <1>1, StepsFacts
<1>5. r \in Holds0 => TakenWithout(seq, a, n + 1, "P0", "U0")
  BY <1>2, <1>3, <1>4 DEF Meaning
<1>6. r \in Holds1 => TakenWithout(seq, a, n + 1, "P1", "U1")
  BY <1>2, <1>3, <1>4 DEF Meaning
<1>7. r \in Fresh0 => TakenWithout(seq, a, n + 1, "P0", "R")
  BY <1>2, <1>3, <1>4 DEF Meaning
<1>8. r \in Fresh1 => TakenWithout(seq, a, n + 1, "P1", "R")
  BY <1>2, <1>3, <1>4 DEF Meaning
<1>9. ASSUME r \in Lifted PROVE TakenAndLifted(seq, a, n + 1)
  <2>1. CASE s \in Lifted /\ name # "R"
    BY <2>1, StillLifted DEF Meaning, name
  <2>2. CASE s \in Fresh0 /\ name = "U0"
    BY <2>2, NowLifted DEF Meaning, name, Protect, Lifts
  <2>3. CASE s \in Fresh1 /\ name = "U1"
    BY <2>3, NowLifted DEF Meaning, name, Protect, Lifts
  <2> QED BY <1>1, <1>9, <2>1, <2>2, <2>3, StepsFacts
<1>10. Meaning(seq, a, n + 1, r)
  BY <1>5, <1>6, <1>7, <1>8, <1>9 DEF Meaning
<1> QED BY <1>10 DEF r, name

\* A call on another address keeps it as well.
LEMMA MeaningSame ==
  ASSUME NEW seq, NEW a, NEW n \in Nat, NEW s, seq[n + 1].addr # a, Meaning(seq, a, n, s)
  PROVE  Meaning(seq, a, n + 1, s)
<1>1. On(seq, a, n + 1) = On(seq, a, n)
  BY OnNext
<1>2. \A p, c : TakenWithout(seq, a, n, p, c) => TakenWithout(seq, a, n + 1, p, c)
  BY <1>1 DEF TakenWithout
<1>3. TakenAndLifted(seq, a, n) => TakenAndLifted(seq, a, n + 1)
  BY <1>1 DEF TakenAndLifted
<1> QED BY <1>2, <1>3 DEF Meaning

\* As long as no call on the address is rejected, the states mean what they
\* should.
LEMMA MeaningHolds ==
  ASSUME NEW seq, Len(seq) \in Nat, NEW a,
         \A i \in 1 .. Len(seq) : seq[i].addr = a =>
           Allowed(StatesOf(seq, a)[i - 1], seq[i].name)
  PROVE  \A n \in 0 .. Len(seq) : Meaning(seq, a, n, StatesOf(seq, a)[n])
<1> DEFINE f == StatesOf(seq, a)
           S == {n \in 0 .. Len(seq) : Meaning(seq, a, n, f[n])}
<1>1. IsRun(seq, a, Len(seq), f)
  BY StatesOfIsRun
<1>2. \A i \in 1 .. Len(seq) : seq[i].addr = a => Allowed(f[i - 1], seq[i].name)
  OBVIOUS
<1> HIDE DEF f
<1>3. f[0] = 9
  BY <1>1 DEF IsRun
<1>4. \A n \in 0 .. Len(seq) - 1 :
        f[n + 1] = IF seq[n + 1].addr = a THEN Step(f[n], seq[n + 1].name) ELSE f[n]
  BY <1>1 DEF IsRun
<1>5. 0 \in S
  BY <1>3 DEF Meaning, Holds0, Holds1, Fresh0, Fresh1, Lifted
<1>6. ASSUME NEW n \in 0 .. Len(seq) - 1, n \in S PROVE n + 1 \in S
  <2>1. Meaning(seq, a, n, f[n]) /\ n \in Nat /\ n + 1 \in 0 .. Len(seq)
    BY <1>6
  <2>2. CASE seq[n + 1].addr = a
    <3>1. Allowed(f[n], seq[n + 1].name)
      BY <1>2, <2>2
    <3>2. Meaning(seq, a, n + 1, Step(f[n], seq[n + 1].name))
      BY <2>1, <2>2, <3>1, MeaningKept
    <3> QED BY <1>4, <2>1, <2>2, <3>2
  <2>3. CASE seq[n + 1].addr # a
    <3>1. Meaning(seq, a, n + 1, f[n])
      BY <2>1, <2>3, MeaningSame
    <3> QED BY <1>4, <2>1, <2>3, <3>1
  <2> QED BY <2>2, <2>3
<1> HIDE DEF S
<1>7. \A n \in 0 .. Len(seq) : n \in S
  BY <1>5, <1>6, BoundedInduction
<1> QED BY <1>7 DEF S, f

-----------------------------------------------------------------------------
(* The specification *)

\* Calls have a name and, once it was read, an address; only a thread that is
\* inside a call has an unfinished one.
Call == [name : Names, addr : Addrs \cup {NoAddr}]
TypeInv ==
  /\ calls \in [Threads -> Seq(Call)]
  /\ phase \in [Threads -> {"outside", "started", "inside"}]
  /\ \A t \in Threads : phase[t] # "outside" => Len(calls[t]) > 0

\* What the check accepts, it accepts for the right reasons.
LEMMA AcceptedCalls ==
  ASSUME NEW seq, Len(seq) \in Nat, ~Rejected(seq),
         NEW i \in 1 .. Len(seq), seq[i].addr < FirstIgnored
  PROVE  /\ seq[i].name \in {"U0", "U1"} => LiftsHeld(seq, i)
         /\ seq[i].name = "R" => ReclaimsLifted(seq, i)
<1> DEFINE a == seq[i].addr
           s == StatesOf(seq, a)[i - 1]
<1>1. \A k \in 1 .. Len(seq) : seq[k].addr = a =>
        Allowed(StatesOf(seq, a)[k - 1], seq[k].name)
  BY DEF Rejected
<1>2. Meaning(seq, a, i - 1, s)
  BY <1>1, MeaningHolds
<1>3. <<s, seq[i].name, Step(s, seq[i].name)>> \in Steps
  BY <1>1, StepsAllowed
<1> HIDE DEF s
<1>4. On(seq, a, i - 1) = Earlier(seq, i)
  BY DEF On, Earlier
<1>5. CASE seq[i].name = "U0"
  <2>1. TakenWithout(seq, a, i - 1, "P0", "U0")
    BY <1>2, <1>3, <1>5, StepsFacts DEF Meaning
  <2> QED BY <1>4, <1>5, <2>1 DEF TakenWithout, LiftsHeld, Lifts
<1>6. CASE seq[i].name = "U1"
  <2>1. TakenWithout(seq, a, i - 1, "P1", "U1")
    BY <1>2, <1>3, <1>6, StepsFacts DEF Meaning
  <2> QED BY <1>4, <1>6, <2>1 DEF TakenWithout, LiftsHeld, Lifts
<1>7. CASE seq[i].name = "R"
  <2>1. TakenAndLifted(seq, a, i - 1)
    BY <1>2, <1>3, <1>7, StepsFacts DEF Meaning
  <2> QED BY <1>4, <1>7, <2>1 DEF TakenAndLifted, ReclaimsLifted
<1> QED BY <1>5, <1>6, <1>7

\* Calls have the names and addresses of the model.
LEMMA TypeCorrect == Spec => []TypeInv
<1>1. Init => TypeInv
  BY DEF Init, TypeInv
<1>2. TypeInv /\ [Next]_vars => TypeInv'
  <2> SUFFICES ASSUME TypeInv, [Next]_vars PROVE TypeInv'
    OBVIOUS
  <2> USE DEF TypeInv
  <2>1. ASSUME NEW t \in Threads, StartCall(t) PROVE TypeInv'
    <3>1. PICK n \in Names :
            calls' = [calls EXCEPT ![t] = Append(@, [name |-> n, addr |-> NoAddr])]
      BY <2>1 DEF StartCall
    <3> DEFINE new == [name |-> n, addr |-> NoAddr]
    <3>2. new \in Call
      BY DEF Call
    <3> HIDE DEF new
    <3>3. Append(calls[t], new) \in Seq(Call) /\ Len(Append(calls[t], new)) > 0
      BY <3>2
    <3>4. calls' = [calls EXCEPT ![t] = Append(@, new)]
      BY <3>1 DEF new
    <3> QED BY <2>1, <3>3, <3>4 DEF StartCall
  <2>2. ASSUME NEW t \in Threads, ReadAddr(t) PROVE TypeInv'
    <3>1. PICK a \in Addrs : calls' = [calls EXCEPT ![t][Len(calls[t])].addr = a]
      BY <2>2 DEF ReadAddr
    <3> DEFINE i == Len(calls[t])
               seq == [calls[t] EXCEPT ![i] = [@ EXCEPT !.addr = a]]
    <3>2. i \in 1 .. Len(calls[t]) /\ calls[t] \in Seq(Call)
      BY <2>2 DEF ReadAddr
    <3>3. calls[t][i] \in Call
      BY <3>2
    <3>4. [calls[t][i] EXCEPT !.addr = a] \in Call
      BY <3>3 DEF Call
    <3>5. seq \in Seq(Call) /\ Len(seq) = i
      BY <3>2, <3>4
    <3>6. calls' = [calls EXCEPT ![t] = seq]
      BY <3>1
    <3> HIDE DEF seq
    <3> QED BY <2>2, <3>2, <3>5, <3>6 DEF ReadAddr
  <2>3. ASSUME NEW t \in Threads, EndCall(t) PROVE TypeInv'
    BY <2>3 DEF EndCall
  <2>4. CASE UNCHANGED vars
    BY <2>4 DEF vars
  <2> QED BY <2>1, <2>2, <2>3, <2>4 DEF Next, Stopped
<1> QED BY <1>1, <1>2, PTL DEF Spec

\* A new call, and the address that is read for it, leave the calls alone
\* that a check has seen.
LEMMA CheckedStays ==
  ASSUME TypeInv, NEW t \in Threads, StartCall(t) \/ ReadAddr(t), NEW u \in Threads
  PROVE  /\ CheckedCalls(u)' = CheckedCalls(u)
         /\ \A i \in CheckedCalls(u) : calls'[u][i] = calls[u][i]
<1>1. CASE u # t
  BY <1>1 DEF StartCall, ReadAddr, TypeInv, CheckedCalls
<1>2. CASE u = t /\ StartCall(t)
  <2>1. PICK n \in Names :
          calls' = [calls EXCEPT ![t] = Append(@, [name |-> n, addr |-> NoAddr])]
    BY <1>2 DEF StartCall
  <2>2. calls'[t] = Append(calls[t], [name |-> n, addr |-> NoAddr])
    BY <2>1 DEF TypeInv
  <2>3. phase[t] = "outside" /\ phase'[t] = "started"
    BY <1>2 DEF StartCall, TypeInv
  <2>4. calls[t] \in Seq(Call)
    BY DEF TypeInv
  <2>5. /\ Len(calls'[t]) = Len(calls[t]) + 1 /\ Len(calls[t]) \in Nat
        /\ \A i \in 1 .. Len(calls[t]) : calls'[t][i] = calls[t][i]
    BY <2>2, <2>4
  <2> QED BY <1>2, <2>3, <2>5 DEF CheckedCalls
<1>3. CASE u = t /\ ReadAddr(t)
  <2>1. PICK a \in Addrs : calls' = [calls EXCEPT ![t][Len(calls[t])].addr = a]
    BY <1>3 DEF ReadAddr
  <2>2. phase[t] = "started" /\ phase'[t] = "inside"
    BY <1>3 DEF ReadAddr, TypeInv
  <2>3. calls[t] \in Seq(Call) /\ Len(calls[t]) > 0
    BY <2>2 DEF TypeInv
  <2>4. calls'[t] = [calls[t] EXCEPT ![Len(calls[t])] = [@ EXCEPT !.addr = a]]
    BY <2>1 DEF TypeInv
  <2>5. /\ Len(calls'[t]) = Len(calls[t]) /\ Len(calls[t]) \in Nat
        /\ \A i \in 1 .. Len(calls[t]) - 1 : calls'[t][i] = calls[t][i]
    BY <2>3, <2>4
  <2> QED BY <1>3, <2>2, <2>5 DEF CheckedCalls
<1> QED BY <1>1, <1>2, <1>3

\* Whatever the check accepts lifts and reclaims as it should: the two
\* properties together, which are inductive.
LEMMA StepObeys ==
  ASSUME TypeInv, TypeInv', LiftsWhatItHolds /\ ReclaimsOnce, [Next]_vars
  PROVE  (LiftsWhatItHolds /\ ReclaimsOnce)'
<1> SUFFICES ASSUME verdict' = "ok", NEW u \in Threads, NEW i \in CheckedCalls(u)',
                    calls'[u][i].addr < FirstIgnored
             PROVE  /\ calls'[u][i].name \in {"U0", "U1"} => LiftsHeld(calls'[u], i)
                    /\ calls'[u][i].name = "R" => ReclaimsLifted(calls'[u], i)
  BY DEF LiftsWhatItHolds, ReclaimsOnce
<1>1. Len(calls[u]) \in Nat /\ i \in Nat
  BY DEF TypeInv, CheckedCalls
<1>2. ASSUME NEW t \in Threads, StartCall(t) \/ ReadAddr(t), verdict = "ok"
      PROVE  /\ calls'[u][i].name \in {"U0", "U1"} => LiftsHeld(calls'[u], i)
             /\ calls'[u][i].name = "R" => ReclaimsLifted(calls'[u], i)
  <2>1. /\ i \in CheckedCalls(u)
        /\ \A j \in CheckedCalls(u) : calls'[u][j] = calls[u][j]
    BY <1>2, CheckedStays
  <2>2. \A j \in 1 .. i : j \in CheckedCalls(u)
    BY <1>1, <2>1 DEF CheckedCalls
  <2>3. Earlier(calls'[u], i) = Earlier(calls[u], i) /\ Earlier(calls[u], i) \subseteq 1 .. i
    BY <1>1, <2>1, <2>2 DEF Earlier
  <2>4. /\ calls[u][i].name \in {"U0", "U1"} => LiftsHeld(calls[u], i)
        /\ calls[u][i].name = "R" => ReclaimsLifted(calls[u], i)
    BY <1>2, <2>1 DEF LiftsWhatItHolds, ReclaimsOnce
  <2>5. \A j \in 1 .. i : calls'[u][j] = calls[u][j]
    BY <2>1, <2>2
  <2>6. LiftsHeld(calls[u], i) => LiftsHeld(calls'[u], i)
    BY <2>1, <2>3, <2>5 DEF LiftsHeld
  <2>7. ReclaimsLifted(calls[u], i) => ReclaimsLifted(calls'[u], i)
    BY <2>1, <2>3, <2>5 DEF ReclaimsLifted
  <2> QED BY <2>1, <2>4, <2>6, <2>7
<1>3. ASSUME NEW t \in Threads, EndCall(t)
      PROVE  /\ calls'[u][i].name \in {"U0", "U1"} => LiftsHeld(calls'[u], i)
             /\ calls'[u][i].name = "R" => ReclaimsLifted(calls'[u], i)
  <2>1. calls' = calls /\ ~Rejected(calls[u])
    BY <1>3 DEF EndCall, checkHp
  <2>2. i \in 1 .. Len(calls[u])
    BY <1>1, <2>1 DEF CheckedCalls
  <2> QED BY <1>1, <2>1, <2>2, AcceptedCalls
<1>4. CASE UNCHANGED vars
  BY <1>4 DEF vars, LiftsWhatItHolds, ReclaimsOnce, CheckedCalls
<1> QED BY <1>2, <1>3, <1>4 DEF Next, Stopped

\* Both properties together: each step follows from what the states of the
\* automaton mean for the calls accepted so far.
LEMMA ObeysProtocol == Spec => [](LiftsWhatItHolds /\ ReclaimsOnce)
<1>1. Init => LiftsWhatItHolds /\ ReclaimsOnce
  BY DEF Init, LiftsWhatItHolds, ReclaimsOnce, CheckedCalls
<1>2. TypeInv /\ TypeInv' /\ LiftsWhatItHolds /\ ReclaimsOnce /\ [Next]_vars
        => (LiftsWhatItHolds /\ ReclaimsOnce)'
  BY StepObeys
<1> QED BY <1>1, <1>2, TypeCorrect, PTL DEF Spec

\* The calls that checkHp() accepts lift only protections that are held, by
\* the same hazard pointer, for any number of threads, addresses and calls.
THEOREM LiftsAreOfHeldProtections == Spec => []LiftsWhatItHolds
BY ObeysProtocol, PTL

\* The calls that checkHp() accepts reclaim an address only after one of its
\* protections was taken and lifted since the last reclaim.
THEOREM ReclaimsAreSafe == Spec => []ReclaimsOnce
BY ObeysProtocol, PTL
=============================================================================
