------------------------------ MODULE HpChecker ------------------------------
(***************************************************************************)
(* The check of hazard pointer clients, checkHp() in GenMCDriver.cpp.      *)
(*                                                                         *)
(* A client protects an address with one of two hazard pointers, lifts the *)
(* protection, and reclaims.  Each such call is a FunStart label, a read   *)
(* whose value is the address, and a FunEnd label, where the check runs    *)
(* over all calls in the graph, thread by thread and address by address.   *)
(* Labels after the read do not matter and are left out; the calls are     *)
(* those findallFunctionCalls() finds, all that have started.              *)
(***************************************************************************)
EXTENDS Integers, Sequences

CONSTANTS Threads, Addrs, MaxCalls

ASSUME AddrsAssumption == Addrs \subseteq Nat
ASSUME MaxCallsAssumption == MaxCalls \in Nat

VARIABLES calls,        \* for each thread, its calls: name and address
          phase,        \* for each thread, how far its last call has come
          verdict       \* what the check has found

vars == <<calls, phase, verdict>>

Names == {"P0", "U0", "P1", "U1", "R"}  \* FN_Protect0, ..., FN_Reclaim
NoAddr == -1                            \* the read is not in the graph yet

\* Addresses from this value on are not checked.
FirstIgnored == 17

\* The automaton for one address, as steps <<state, call, next state>>: from
\* the start, with protection 0 taken first ...
StepsFrom0 ==
  {<<9, "P0", 10>>, <<9, "P1", 18>>,
   <<10, "P1", 15>>, <<10, "U0", 11>>,
   <<11, "P0", 9>>, <<11, "R", 12>>, <<11, "P1", 13>>,
   <<12, "P0", 9>>, <<12, "P1", 14>>,
   <<15, "U0", 13>>, <<15, "U1", 22>>,
   <<13, "U1", 16>>, <<13, "R", 14>>,
   <<14, "U1", 17>>,
   <<16, "P1", 11>>, <<16, "P0", 19>>, <<16, "R", 17>>,
   <<17, "P1", 12>>, <<17, "P0", 20>>}

\* ... and with protection 1 taken first.
StepsFrom1 ==
  {<<18, "U1", 19>>, <<18, "P0", 21>>,
   <<19, "P1", 9>>, <<19, "P0", 22>>, <<19, "R", 20>>,
   <<20, "P1", 9>>, <<20, "P0", 23>>,
   <<21, "U1", 22>>, <<21, "U0", 13>>,
   <<22, "U0", 24>>, <<22, "R", 23>>,
   <<23, "U0", 25>>,
   <<24, "P1", 11>>, <<24, "P0", 19>>, <<24, "R", 25>>}

\* Faulty variant: a second lifting of protection 0 is let through.
StepsTwice == StepsFrom0 \cup StepsFrom1 \cup {<<11, "U0", 11>>}

\* Faulty variant: after a reclaim another one is let through.
StepsReclaim == StepsFrom0 \cup StepsFrom1 \cup {<<12, "R", 12>>}

Steps == StepsFrom0 \cup StepsFrom1

\* An unexpected call is an error and leaves the state as it is.
Allowed(s, name) == \E p \in Steps : p[1] = s /\ p[2] = name
Step(s, name) ==
  IF Allowed(s, name)
  THEN (CHOOSE p \in Steps : p[1] = s /\ p[2] = name)[3] ELSE s

\* The states the automaton for address a goes through on a sequence of
\* calls, from its initial state.
StatesOf(seq, a) ==
  LET st[i \in 0 .. Len(seq)] ==
        IF i = 0 THEN 9
        ELSE IF seq[i].addr = a THEN Step(st[i - 1], seq[i].name) ELSE st[i - 1]
  IN st

\* Some call on a checked address is unexpected.
Rejected(seq) ==
  \E a \in {seq[i].addr : i \in 1 .. Len(seq)} :
    /\ a < FirstIgnored
    /\ \E i \in 1 .. Len(seq) :
         seq[i].addr = a /\ ~Allowed(StatesOf(seq, a)[i - 1], seq[i].name)

\* The result of checkHp().  It takes the label after each FunStart to be a
\* read; if there is none yet, what happens is undefined.
checkHp(cs) ==
  IF \E t \in Threads : \E i \in 1 .. Len(cs[t]) : cs[t][i].addr = NoAddr
  THEN "undefined"
  ELSE IF \E t \in Threads : Rejected(cs[t]) THEN "violation" ELSE "ok"

Init ==
  /\ calls = [t \in Threads |-> <<>>]
  /\ phase = [t \in Threads |-> "outside"]
  /\ verdict = "ok"

\* visitFunctionStart()
StartCall(t) ==
  /\ phase[t] = "outside" /\ Len(calls[t]) < MaxCalls
  /\ \E n \in Names :
       calls' = [calls EXCEPT ![t] = Append(@, [name |-> n, addr |-> NoAddr])]
  /\ phase' = [phase EXCEPT ![t] = "started"]
  /\ UNCHANGED verdict

\* visitLoad(): the address that the call is about is read.
ReadAddr(t) ==
  /\ phase[t] = "started"
  /\ \E a \in Addrs : calls' = [calls EXCEPT ![t][Len(calls[t])].addr = a]
  /\ phase' = [phase EXCEPT ![t] = "inside"]
  /\ UNCHANGED verdict

\* visitFunctionEnd() and the check it makes.
EndCall(t) ==
  /\ phase[t] = "inside"
  /\ phase' = [phase EXCEPT ![t] = "outside"]
  /\ verdict' = checkHp(calls)
  /\ UNCHANGED calls

\* All calls have been made, or an error was reported.
Stopped ==
  /\ \/ verdict # "ok"
     \/ \A t \in Threads : phase[t] = "outside" /\ Len(calls[t]) = MaxCalls
  /\ UNCHANGED vars

Next ==
  \/ /\ verdict = "ok"
     /\ \E t \in Threads : StartCall(t) \/ ReadAddr(t) \/ EndCall(t)
  \/ Stopped

Spec == Init /\ [][Next]_vars

-----------------------------------------------------------------------------
(* Properties *)

\* The calls of a thread that a check has seen: all but the unfinished one.
CheckedCalls(t) ==
  1 .. (IF phase[t] = "outside" THEN Len(calls[t]) ELSE Len(calls[t]) - 1)

\* The calls before the i-th that are about the same address.
Earlier(seq, i) == {j \in 1 .. i - 1 : seq[j].addr = seq[i].addr}

Protect(c) == c \in {"P0", "P1"}
Lifts(c, p) == (p = "P0" /\ c = "U0") \/ (p = "P1" /\ c = "U1")

\* The i-th call lifts a protection that was taken, by the same hazard
\* pointer, and not lifted since.
LiftsHeld(seq, i) ==
  \E j \in Earlier(seq, i) :
    /\ Lifts(seq[i].name, seq[j].name)
    /\ \A k \in Earlier(seq, i) : k > j => seq[k].name # seq[i].name

\* Before the i-th call a protection was taken and then lifted, with no
\* reclaim since it was taken.
ReclaimsLifted(seq, i) ==
  \E j, k \in Earlier(seq, i) :
    /\ j < k /\ Protect(seq[j].name) /\ Lifts(seq[k].name, seq[j].name)
    /\ \A m \in Earlier(seq, i) : m >= j => seq[m].name # "R"

\* In what the check accepts, a thread lifts a protection only if it has
\* taken it, by the same hazard pointer, and not lifted it since, through
\* whatever sequence of states the automaton has gone.
LiftsWhatItHolds ==
  verdict = "ok" =>
    \A t \in Threads : \A i \in CheckedCalls(t) :
      calls[t][i].addr < FirstIgnored /\ calls[t][i].name \in {"U0", "U1"}
        => LiftsHeld(calls[t], i)

\* In what the check accepts, a thread reclaims an address only after having
\* protected it and lifted a protection, both since it last reclaimed it.
ReclaimsOnce ==
  verdict = "ok" =>
    \A t \in Threads : \A i \in CheckedCalls(t) :
      calls[t][i].addr < FirstIgnored /\ calls[t][i].name = "R"
        => ReclaimsLifted(calls[t], i)

\* The check finds in the graph every label that it looks up ("Returns the
\* label in the position denoted by event e", ExecutionGraph.hpp).
LabelsExist == verdict # "undefined"
=============================================================================
