--------------------------- MODULE ProcessProofs ---------------------------
(* The descriptors of process_run: which are open at each point of a call, *)
(* hence which every way out leaves open, and that none is closed twice,   *)
(* for every pipe capacity, descriptor limit, amount of output and number  *)
(* of calls.  Then what is allocated to set a child up, and what becomes   *)
(* of its output and status, however parent and child interleave.          *)
EXTENDS Process, FiniteSetTheorems, TLAPS

AfterPipes == Setup \ {"pipe_in", "pipe_out", "pipe_err"}
Joined     == {"wait", "drain", "returned"}

(* The descriptors open at each point of the call. *)
OpenByPlace ==
    /\ pc = "pipe_in" => open = {}
    /\ pc = "pipe_out" => open = In
    /\ pc = "pipe_err" => open = In \cup Out
    /\ pc \in AfterPipes \cup {"parent"} => open = In \cup Out \cup Err
    /\ pc = "join" => open = {"in1", "out0"} \cup Err
    /\ pc \in Joined => open = {"out0"} \cup Err \cup ({"in1"} \ wrapped)
    /\ pc = "over" => open = LeakedBy(outcome)

(* The FILE* of the process are there when fdopen made them and they have  *)
(* not been closed.                                                        *)
FilesByPlace ==
    /\ pc = "join" => (stdinFile <=> "in1" \in wrapped)
    /\ pc \in Joined => ~stdinFile
    /\ pc \in {"join"} \cup Joined => (stdoutFile <=> "out0" \in wrapped)

DescriptorInv ==
    /\ pc \in Setup \cup {"parent", "join", "over"} \cup Joined
    /\ OpenByPlace
    /\ FilesByPlace
    /\ ~stray

(* The flag of value 0 is never seen set by "== 0" nor missing by "== it".*)
LEMMA BothBranches == SeparateStderr /\ CombinedStderr
    BY DEF SeparateStderr, CombinedStderr, BitAnd, COMBINED_STDOUT_STDERR

LEMMA DescriptorInit == Init => DescriptorInv
    BY DEF Init, DescriptorInv, OpenByPlace, FilesByPlace, LeakedBy, Setup, AfterPipes, Joined

LEMMA DescriptorNext == DescriptorInv /\ [Next]_vars => DescriptorInv'
<1> SUFFICES ASSUME DescriptorInv, [Next]_vars PROVE DescriptorInv'
  OBVIOUS
<1> USE BothBranches DEF DescriptorInv, OpenByPlace, FilesByPlace, Setup, AfterPipes, Joined
<1>1. CASE Call
  BY <1>1 DEF Call
<1>2. CASE PipeIn
  BY <1>2 DEF PipeIn, OpenPipe, After
<1>3. CASE PipeOut
  BY <1>3 DEF PipeOut, OpenPipe, After
<1>4. CASE PipeErr
  BY <1>4 DEF PipeErr, OpenPipe, After
<1>5. CASE SetupStep
  BY <1>5 DEF SetupStep, After
<1>6. CASE SetupFails
  <2>1. ClosedWhenFailing(pc) \subseteq open
        /\ open \ ClosedWhenFailing(pc) = LeakedBy(pc)
    BY <1>6 DEF SetupFails, ClosedWhenFailing, LeakedBy, In, Out, Err
  <2>2. LeakedBy(pc) = LeakedBy(outcome)'
    BY <1>6 DEF SetupFails, LeakedBy
  <2> QED BY <1>6, <2>1, <2>2 DEF SetupFails, Close
<1>7. CASE Handover
  BY <1>7 DEF Handover, Close, In, Out, Err
<1>8. CASE JoinClosesStdin
  BY <1>8 DEF JoinClosesStdin, Close, Err
<1>9. CASE Reap
  BY <1>9 DEF Reap
<1>10. CASE WaitFails
  <2>1. open' = Err \cup {"out0"} \cup ({"in1"} \ wrapped')
    BY <1>10 DEF WaitFails
  <2>2. LeakedBy(outcome)' = Err \cup {"out0"} \cup ({"in1"} \ wrapped')
    BY <1>10 DEF WaitFails, LeakedBy
  <2> QED BY <1>10, <2>1, <2>2 DEF WaitFails
<1>11. CASE Drain
  BY <1>11 DEF Drain
<1>12. CASE EndDrain
  BY <1>12 DEF EndDrain, parentVars
<1>13. CASE Destroy
  <2>1. ~stdinFile /\ (stdoutFile <=> "out0" \in wrapped)
        /\ open = {"out0"} \cup Err \cup ({"in1"} \ wrapped)
    BY <1>13 DEF Destroy
  <2>2. CASE stdoutFile
    <3>0. (IF stdinFile THEN {"in1"} ELSE {}) \cup (IF stdoutFile THEN {"out0"} ELSE {})
            = {"out0"}
      BY <2>1, <2>2
    <3>1. open' = open \ {"out0"} /\ ~stray'
      BY <1>13, <2>1, <3>0 DEF Destroy, Close
    <3>2. open' = Err \cup ({"in1", "out0"} \ wrapped)
      BY <2>1, <2>2, <3>1 DEF Err
    <3> QED BY <1>13, <3>1, <3>2 DEF Destroy, LeakedBy
  <2>3. CASE ~stdoutFile
    <3>0. (IF stdinFile THEN {"in1"} ELSE {}) \cup (IF stdoutFile THEN {"out0"} ELSE {})
            = {}
      BY <2>1, <2>3
    <3>1. open' = open /\ ~stray'
      BY <1>13, <2>1, <3>0 DEF Destroy, Close
    <3>2. open' = Err \cup ({"in1", "out0"} \ wrapped)
      BY <2>1, <2>3, <3>1 DEF Err
    <3> QED BY <1>13, <3>1, <3>2 DEF Destroy, LeakedBy
  <2> QED BY <2>2, <2>3
<1>14. CASE Abandon
  <2>1. open' = Err \cup {"out0"} \cup ({"in1"} \ wrapped')
    BY <1>14 DEF Abandon
  <2>2. LeakedBy(outcome)' = Err \cup {"out0"} \cup ({"in1"} \ wrapped')
    BY <1>14 DEF Abandon, LeakedBy
  <2> QED BY <1>14, <2>1, <2>2 DEF Abandon
<1>15. CASE Child \/ ChildKilled \/ Quiet \/ UNCHANGED vars
  <2>1. UNCHANGED <<open, stray, stdinFile, stdoutFile, wrapped, outcome, pc>>
    BY <1>15 DEF Child, ChildReads, ChildWrites, ChildExits, ChildKilled, Quiet, vars,
                 parentVars
  <2> QED BY <2>1 DEF LeakedBy
<1> QED
  BY <1>1, <1>2, <1>3, <1>4, <1>5, <1>6, <1>7, <1>8, <1>9, <1>10, <1>11, <1>12, <1>13,
     <1>14, <1>15 DEF Next, Parent, Create, Run

(* After a call exactly the known descriptors are left open: the pipe made *)
(* for stderr although stderr is combined, what fdopen could not wrap, and *)
(* what a caller that got nothing, or did not destroy, could not close.    *)
THEOREM ProcessLeaks == Spec => []OnlyKnownLeaks
<1>1. DescriptorInv => OnlyKnownLeaks
  BY DEF DescriptorInv, OpenByPlace, OnlyKnownLeaks
<1> QED BY <1>1, DescriptorInit, DescriptorNext, PTL DEF Spec

(* Every descriptor closed was open: no double close on any failure path.  *)
THEOREM ProcessCloses == Spec => []NoStrayClose
<1>1. DescriptorInv => NoStrayClose
  BY DEF DescriptorInv, NoStrayClose
<1> QED BY <1>1, DescriptorInit, DescriptorNext, PTL DEF Spec
----------------------------------------------------------------------------
(* The file actions live while the child is set up, the argument vector    *)
(* only while it is started.                                               *)
SetupInv ==
    /\ actionsLive => pc \in Setup \cup {"parent"}
    /\ argvLive => pc = "spawn"

LEMMA SetupNext == SetupInv /\ [Next]_vars => SetupInv'
<1> SUFFICES ASSUME SetupInv, [Next]_vars PROVE SetupInv'
  OBVIOUS
<1> USE BothBranches DEF SetupInv, Setup
<1>1. CASE Call
  BY <1>1 DEF Call
<1>2. CASE PipeIn \/ PipeOut \/ PipeErr
  BY <1>2 DEF PipeIn, PipeOut, PipeErr, OpenPipe, After
<1>3. CASE SetupStep
  BY <1>3 DEF SetupStep, After
<1>4. CASE SetupFails
  BY <1>4 DEF SetupFails
<1>5. CASE Handover
  BY <1>5 DEF Handover
<1>6. CASE Run
  BY <1>6 DEF Run, JoinClosesStdin, Reap, WaitFails, Drain, EndDrain, parentVars
<1>7. CASE Destroy \/ Abandon
  BY <1>7 DEF Destroy, Abandon
<1>8. CASE Child \/ ChildKilled \/ Quiet \/ UNCHANGED vars
  BY <1>8 DEF Child, ChildReads, ChildWrites, ChildExits, ChildKilled, Quiet, vars, parentVars
<1> QED
  BY <1>1, <1>2, <1>3, <1>4, <1>5, <1>6, <1>7, <1>8 DEF Next, Parent, Create

(* Every way out of process_create, and every call that is over, has       *)
(* destroyed the file actions and freed the argument vector.               *)
THEOREM ProcessReleases == Spec => []SetupReleased
<1>1. Init => SetupInv
  BY DEF Init, SetupInv
<1>2. SetupInv => SetupReleased
  BY DEF SetupInv, SetupReleased, Setup
<1> QED BY <1>1, <1>2, SetupNext, PTL DEF Spec
----------------------------------------------------------------------------
(* Every chunk the child is to write is still to be written, in the pipe   *)
(* or copied; the pipe is emptied only once the child is gone, so a child  *)
(* that ended by itself had room in it for all its output.                 *)
Gone == {"drain", "returned"}
OutputInv ==
    /\ size \in Nat /\ todo \in Nat /\ pipe \in Nat /\ drained \in Nat
    /\ todo + pipe + drained = size
    /\ pipe <= Capacity
    /\ child = "none" \/ pc \notin Setup
    /\ child = "exited" => todo = 0
    /\ child = "reaped" => pc \in Gone \cup {"over"}
    /\ pc \notin Gone \cup {"over"} => drained = 0
    /\ pc \in Gone =>
           /\ child = "reaped"
           /\ (returnCode = status /\ todo = 0 /\ size <= Capacity) \/ returnCode = EXIT_FAILURE
    /\ pc = "returned" /\ stdoutFile => pipe = 0

LEMMA OutputInit == Init => OutputInv
  BY ProcessAssumption DEF Init, OutputInv, Setup, Gone

LEMMA OutputNext == DescriptorInv /\ OutputInv /\ [Next]_vars => OutputInv'
<1> SUFFICES ASSUME DescriptorInv, OutputInv, [Next]_vars PROVE OutputInv'
  OBVIOUS
<1> USE ProcessAssumption DEF OutputInv, Gone
<1>1. CASE Call
  <2>1. size' \in Nat /\ todo' \in Nat /\ todo' = size' /\ pipe' = 0 /\ drained' = 0
        /\ child' = "none" /\ pc' = "pipe_in"
    BY <1>1 DEF Call
  <2>2. todo' + pipe' + drained' = size'
    <3>0. \A n \in Nat : n + 0 + 0 = n
      OBVIOUS
    <3>1. todo' + 0 + 0 = todo'
      BY <2>1, <3>0
    <3> QED BY <2>1, <3>1, Zenon
  <2>3. pipe' <= Capacity
    BY <2>1
  <2> QED BY <2>1, <2>2, <2>3
<1>2. CASE PipeIn \/ PipeOut \/ PipeErr
  <2>1. UNCHANGED <<size, todo, pipe, drained, child, returnCode, status, stdoutFile>>
        /\ pc' \in Setup /\ pc \in Setup
    BY <1>2, BothBranches
       DEF PipeIn, PipeOut, PipeErr, OpenPipe, After, callVars, childVars, Setup
  <2> QED BY <2>1 DEF Setup
<1>3. CASE SetupStep
  <2>1. UNCHANGED <<size, todo, pipe, drained, returnCode, status, stdoutFile>>
        /\ pc' \in Setup \cup {"parent"} /\ pc \in Setup
        /\ child' = (IF pc = "spawn" THEN "running" ELSE child)
        /\ (pc = "spawn" => pc' = "parent")
    BY <1>3, BothBranches DEF SetupStep, After, callVars, childVars, Setup
  <2>2. child = "none" /\ child' \in {"none", "running"}
    BY <2>1
  <2>3. pc' \in Setup => child' = "none"
    BY <2>1, <2>2 DEF Setup
  <2> QED BY <2>1, <2>2, <2>3 DEF Setup
<1>4. CASE SetupFails
  BY <1>4 DEF SetupFails, callVars, childVars, Setup
<1>5. CASE Handover
  BY <1>5 DEF Handover, callVars, childVars, Setup
<1>6. CASE JoinClosesStdin
  BY <1>6 DEF JoinClosesStdin, callVars, childVars, Setup
<1>7. CASE Reap
  <2>1. /\ UNCHANGED <<size, todo, pipe, drained, status, stdoutFile>>
        /\ pc = "wait" /\ pc' = "drain" /\ child' = "reaped"
        /\ child \in {"exited", "killed"}
        /\ returnCode' = IF child = "exited" THEN status ELSE EXIT_FAILURE
    BY <1>7 DEF Reap, callVars, childVars
  <2>2. drained = 0 /\ (child = "exited" => todo = 0 /\ size <= Capacity)
    BY <2>1
  <2> QED BY <2>1, <2>2 DEF Setup
<1>8. CASE WaitFails
  BY <1>8 DEF WaitFails, callVars, childVars, Setup
<1>9. CASE Drain
  <2>1. /\ pipe' = pipe - 1 /\ pipe > 0 /\ drained' = drained + 1
        /\ UNCHANGED <<size, todo, child, returnCode, status, stdoutFile, pc>> /\ pc = "drain"
    BY <1>9 DEF Drain, callVars, childVars
  <2> QED BY <2>1 DEF Setup
<1>10. CASE EndDrain
  BY <1>10 DEF EndDrain, parentVars, callVars, childVars, Setup
<1>11. CASE Destroy \/ Abandon
  BY <1>11 DEF Destroy, Abandon, callVars, childVars, Setup
<1>12. CASE ChildWrites
  <2>1. /\ pipe' = pipe + 1 /\ pipe < Capacity /\ todo' = todo - 1 /\ todo > 0
        /\ child = "running"
        /\ UNCHANGED <<size, drained, child, returnCode, status, stdoutFile, pc>>
    BY <1>12 DEF ChildWrites, parentVars, callVars
  <2> QED BY <2>1 DEF Setup
<1>13. CASE ChildReads \/ ChildExits \/ ChildKilled
  <2>1. /\ UNCHANGED <<size, todo, pipe, drained, returnCode, status, stdoutFile, pc>>
        /\ child = "running"
        /\ child' \in {"running", "exited", "killed"}
        /\ child' = "exited" => todo = 0
    BY <1>13 DEF ChildReads, ChildExits, ChildKilled, parentVars, childVars, callVars
  <2> QED BY <2>1
<1>14. CASE Quiet \/ UNCHANGED vars
  BY <1>14 DEF Quiet, vars, parentVars, childVars, callVars
<1> QED
  BY <1>1, <1>2, <1>3, <1>4, <1>5, <1>6, <1>7, <1>8, <1>9, <1>10, <1>11, <1>12, <1>13, <1>14
     DEF Next, Parent, Create, Run, Child

(* A call that returned has copied all the child wrote, if it could read   *)
(* the pipe, and reports the status of a child that ended by itself; such  *)
(* a child had no more to say than the pipe holds.                         *)
THEOREM ProcessReturnsHonest == Spec => []ReturnsHonest
<1>1. OutputInv => ReturnsHonest
  <2> SUFFICES ASSUME OutputInv PROVE OutputForwarded /\ ReturnsOnlyIfOutputFits
    BY DEF ReturnsHonest
  <2> USE ProcessAssumption DEF OutputInv, Gone
  <2>1. OutputForwarded
    BY DEF OutputForwarded
  <2>2. ReturnsOnlyIfOutputFits
    BY DEF ReturnsOnlyIfOutputFits
  <2> QED BY <2>1, <2>2
<1> QED BY <1>1, DescriptorInit, DescriptorNext, OutputInit, OutputNext, PTL DEF Spec
----------------------------------------------------------------------------
LEMMA EndsFinite == In \cup Out \cup Err = {"in0", "in1", "out0", "out1", "err0", "err1"}
                    /\ IsFiniteSet(In \cup Out \cup Err)
<1>1. In \cup Out \cup Err = {"in0", "in1", "out0", "out1", "err0", "err1"}
  BY DEF In, Out, Err
<1>2. /\ IsFiniteSet({"in0"}) /\ IsFiniteSet({"in1"}) /\ IsFiniteSet({"out0"})
      /\ IsFiniteSet({"out1"}) /\ IsFiniteSet({"err0"}) /\ IsFiniteSet({"err1"})
  BY FS_Singleton
<1>3. IsFiniteSet({"in0"} \cup {"in1"}) /\ IsFiniteSet({"out0"} \cup {"out1"})
      /\ IsFiniteSet({"err0"} \cup {"err1"})
  BY <1>2, FS_Union
<1>4. IsFiniteSet(({"in0"} \cup {"in1"}) \cup ({"out0"} \cup {"out1"}))
  BY <1>3, FS_Union
<1>5. IsFiniteSet((({"in0"} \cup {"in1"}) \cup ({"out0"} \cup {"out1"}))
                  \cup ({"err0"} \cup {"err1"}))
  BY <1>3, <1>4, FS_Union
<1>6. (({"in0"} \cup {"in1"}) \cup ({"out0"} \cup {"out1"})) \cup ({"err0"} \cup {"err1"})
      = In \cup Out \cup Err
  BY DEF In, Out, Err
<1> QED BY <1>1, <1>5, <1>6

(* The flags, one by one: the provers do not like them in a set.           *)
Flags ==
    /\ stray \in BOOLEAN /\ actionsLive \in BOOLEAN /\ argvLive \in BOOLEAN
    /\ stdinFile \in BOOLEAN /\ stdoutFile \in BOOLEAN /\ readsStdin \in BOOLEAN
Rest ==
    /\ runs \in 0..MaxRuns /\ options \in Options
    /\ open \subseteq In \cup Out \cup Err /\ leaked \in Nat
    /\ child \in {"none", "running", "exited", "killed", "reaped"}
    /\ status \in {0, 2} /\ returnCode \in {0, 2, EXIT_FAILURE}
    /\ size \in Nat /\ todo \in 0..size /\ drained \in 0..size
    /\ pipe \in 0..Capacity
    /\ pc \in Setup \cup {"parent", "join", "wait", "drain", "returned", "over"}
    /\ wrapped \subseteq {"in1", "out0"}
    /\ outcome \in Setup \cup {"none", "lost", "destroyed", "abandoned"}

LEMMA TypeParts == (TypeOK <=> Flags /\ Rest) /\ (TypeOK' <=> Flags' /\ Rest')
<1>1. \A a, b, c, d, e, f :
          {a, b, c, d, e, f} \subseteq BOOLEAN
          <=> /\ a \in BOOLEAN /\ b \in BOOLEAN /\ c \in BOOLEAN
              /\ d \in BOOLEAN /\ e \in BOOLEAN /\ f \in BOOLEAN
  OBVIOUS
<1>2. ({stray, actionsLive, argvLive, stdinFile, stdoutFile, readsStdin} \subseteq BOOLEAN)
      <=> Flags
  BY <1>1, Zenon DEF Flags
<1>3. ({stray, actionsLive, argvLive, stdinFile, stdoutFile, readsStdin} \subseteq BOOLEAN)'
      <=> Flags'
  BY <1>1, Zenon DEF Flags
<1>4. TypeOK <=>
        Rest /\ {stray, actionsLive, argvLive, stdinFile, stdoutFile, readsStdin} \subseteq BOOLEAN
  BY Zenon DEF TypeOK, Rest
<1>5. TypeOK' <=>
        Rest' /\ ({stray, actionsLive, argvLive, stdinFile, stdoutFile, readsStdin}
                      \subseteq BOOLEAN)'
  BY Zenon DEF TypeOK, Rest
<1> QED BY <1>2, <1>3, <1>4, <1>5, Zenon

LEMMA FlagsNext == Flags /\ [Next]_vars => Flags'
<1> SUFFICES ASSUME Flags, [Next]_vars PROVE Flags'
  OBVIOUS
<1> USE DEF Flags
<1>0. CASE Call
  BY <1>0 DEF Call
<1>1. CASE Create
  <2>1. CASE PipeIn \/ PipeOut \/ PipeErr
    BY <2>1 DEF PipeIn, PipeOut, PipeErr, OpenPipe, childVars
  <2>2. CASE SetupStep
    <3>1. actionsLive' = (actionsLive \/ pc = "init") /\ argvLive' = (pc = "argv")
          /\ UNCHANGED <<stray, stdinFile, stdoutFile, readsStdin>>
      BY <2>2 DEF SetupStep, childVars
    <3> QED BY <3>1
  <2>3. CASE SetupFails
    BY <2>3 DEF SetupFails, Close, childVars
  <2>4. CASE Handover
    <3>1. /\ stray' = (stray \/ ~({"in0", "out1"} \subseteq open))
          /\ stdinFile' = ("in1" \in wrapped') /\ stdoutFile' = ("out0" \in wrapped')
          /\ actionsLive' = FALSE /\ UNCHANGED <<argvLive, readsStdin>>
      BY <2>4 DEF Handover, Close, childVars
    <3>2. stray' \in BOOLEAN
      BY <3>1, Zenon
    <3>3. stdinFile' \in BOOLEAN /\ stdoutFile' \in BOOLEAN
      BY <3>1, SMT
    <3> QED BY <3>1, <3>2, <3>3
  <2> QED BY <1>1, <2>1, <2>2, <2>3, <2>4 DEF Create
<1>2. CASE Run
  BY <1>2 DEF Run, JoinClosesStdin, Reap, WaitFails, Drain, EndDrain, Close, parentVars, childVars
<1>3. CASE Destroy \/ Abandon
  BY <1>3 DEF Destroy, Abandon, Close, childVars
<1>4. CASE Child \/ ChildKilled \/ Quiet \/ UNCHANGED vars
  BY <1>4 DEF Child, ChildReads, ChildWrites, ChildExits, ChildKilled, Quiet, vars, parentVars,
              childVars
<1> QED
  BY <1>0, <1>1, <1>2, <1>3, <1>4 DEF Next, Parent

LEMMA RestNext == OutputInv /\ Rest /\ [Next]_vars => Rest'
<1> SUFFICES ASSUME OutputInv, Rest, [Next]_vars PROVE Rest'
  OBVIOUS
<1> USE ProcessAssumption DEF Rest, Setup
<1>0. Cardinality(open) \in Nat
  BY EndsFinite, FS_Subset, FS_CardinalityType
<1>1. CASE Call
  BY <1>0, <1>1 DEF Call
<1>2. CASE PipeIn \/ PipeOut \/ PipeErr
  BY <1>2, BothBranches DEF PipeIn, PipeOut, PipeErr, OpenPipe, After, callVars, childVars
<1>3. CASE SetupStep
  BY <1>3, BothBranches DEF SetupStep, After, callVars, childVars
<1>4. CASE SetupFails
  BY <1>4 DEF SetupFails, Close, callVars, childVars
<1>5. CASE Handover
  BY <1>5 DEF Handover, Close, callVars, childVars
<1>6. CASE JoinClosesStdin
  BY <1>6 DEF JoinClosesStdin, Close, callVars, childVars
<1>7. CASE Reap \/ WaitFails
  BY <1>7 DEF Reap, WaitFails, EXIT_FAILURE, callVars, childVars
<1>8. CASE Drain
  BY <1>8 DEF Drain, OutputInv, callVars, childVars
<1>9. CASE EndDrain
  BY <1>9 DEF EndDrain, parentVars, callVars, childVars
<1>10. CASE Destroy \/ Abandon
  BY <1>10 DEF Destroy, Abandon, Close, callVars, childVars
<1>11. CASE Child \/ ChildKilled
  <2>1. /\ UNCHANGED <<parentVars, callVars, pc>>
        /\ child' \in {"running", "exited", "killed"}
        /\ \/ UNCHANGED <<todo, pipe>>
           \/ pipe < Capacity /\ pipe' = pipe + 1 /\ todo' = todo - 1 /\ todo > 0
    BY <1>11 DEF Child, ChildReads, ChildWrites, ChildExits, ChildKilled, childVars
  <2> QED BY <2>1 DEF parentVars, callVars
<1>12. CASE Quiet \/ UNCHANGED vars
  <2>1. UNCHANGED <<runs, options, open, leaked, child, status, returnCode, size, todo,
                    drained, pipe, pc, wrapped, outcome>>
    BY <1>12 DEF Quiet, vars, parentVars, childVars, callVars
  <2> QED BY <2>1
<1> QED
  BY <1>1, <1>2, <1>3, <1>4, <1>5, <1>6, <1>7, <1>8, <1>9, <1>10, <1>11, <1>12
     DEF Next, Parent, Create, Run

(* The variables keep their types, for every capacity, limit, amount of    *)
(* output and number of calls: the pipe never holds more than it can, and  *)
(* no more is read from it than was written.                               *)
THEOREM ProcessTypeOK == Spec => []TypeOK
<1>1. Init => Flags /\ Rest
  <2> SUFFICES ASSUME Init PROVE Flags /\ Rest
    OBVIOUS
  <2>1. Flags
    BY DEF Init, Flags
  <2>2. Rest
    BY ProcessAssumption DEF Init, Rest, Options, Setup
  <2> QED BY <2>1, <2>2
<1> QED
  BY <1>1, TypeParts, FlagsNext, RestNext, DescriptorInit, DescriptorNext, OutputInit,
     OutputNext, PTL DEF Spec
=============================================================================
