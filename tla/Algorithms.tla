----------------------------- MODULE Algorithms -----------------------------
(***************************************************************************)
(* The algorithms and data structures that can be exercised one by one:    *)
(* the containers, and functions of the program under the annotation       *)
(* passes (kind "body": impl is then the run, abs the watch).              *)
(***************************************************************************)
EXTENDS Containers

CONSTANTS
  Funs,       \* the functions of the program under test
  MemVals,    \* what its loads may read
  Width       \* of an SVal

ASSUME WidthAssumption == Width \in Nat \ {0}

B == INSTANCE Bodies WITH run <- impl, watch <- abs

BodyInit == kind = "body" /\ steps = 0 /\ PoolsInit /\ B!Init

BodyStep == kind = "body" /\ UNCHANGED <<kind, steps, pools, blocks>> /\ B!Next

\* Values that the filter of a load's annotation drops would block the thread
\* at an assume(): no execution that gets past the assume() is lost.
AnnotationsSound == kind = "body" => B!Sound

\* Where the path to the assume() has no loops, the annotation is exact: the
\* values it keeps do not block at that assume().
AnnotationsComplete == kind = "body" => B!Complete

\* The filter of a load's stores decides as the assume() later does.
AnnotationsExact == AnnotationsSound /\ AnnotationsComplete

\* A backedge that SpinAssumePass turns into an assume() is never taken after
\* an iteration that changed memory, whichever of its CASes succeeded.
SpinsEffectFree == kind = "body" => B!EffectFree

\* A loop whose header is skipped at the entry is one that every execution
\* goes on to the body of.
EntriesJump == kind = "body" => B!EntryJumps

AllInit == Init \/ BodyInit
AllNext == Next \/ BodyStep

AllSpec == AllInit /\ [][AllNext]_vars
BodySpec == BodyInit /\ [][BodyStep]_vars
=============================================================================
