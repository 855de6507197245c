---------------------------- MODULE DriverProofs ----------------------------
(* What run() leaves behind, in memory and on the disk, how it reads the   *)
(* command line, and that it keeps the promise of Compilation: for every   *)
(* command line and however the source, the parser, the code generator, the*)
(* removal and the two tools turn out, the steps that TLC takes for command*)
(* lines of three arguments.                                               *)
EXTENDS Driver, SequenceTheorems, WellFoundedInduction, TLAPS

(* What run() holds follows from the place it is at; before a temporary    *)
(* directory is removed, no removal has been called.                       *)
HeldAt ==
    /\ at \in {"arguments", "parse", "generate", "assemble", "nasm", "ld",
               "nasm failed", "ld failed", "linked", "release", "waiting", "end"}
    /\ at = "arguments" => held = {}
    /\ at = "parse" => held = {"inputContents"}
    /\ at = "generate" => held = {"inputContents", "program"}
    /\ at = "assemble" => held = {"inputContents", "program", "tempPath"}
    /\ at = "nasm" => held = {"inputContents", "program", "tempPath", "objPath"}
    /\ at = "ld" => held = {"inputContents", "program", "objPath"}
    /\ at = "nasm failed" =>
           held \ {"nasmProcess"} = {"inputContents", "program", "tempPath", "objPath"}
    /\ at = "ld failed" => held \ {"ldProcess"} = {"inputContents", "program", "objPath"}
    /\ at \in {"linked", "release"} => held = {"inputContents", "program"}

NoCallYet ==
    at \in {"arguments", "parse", "generate", "assemble", "nasm", "ld"} => calls = {}

NoOutputYet ==
    at \in {"arguments", "parse", "generate", "assemble", "nasm", "nasm failed"} =>
        output = Nothing

HInv == HeldAt /\ NoCallYet /\ NoOutputYet /\ LeftHeld

(* It holds before the command line is read.                               *)
LEMMA InitHeld == Init => HInv
  BY DEF Init, HInv, HeldAt, NoCallYet, NoOutputYet, LeftHeld

(* Each step of run() keeps it.                                            *)
LEMMA StepHeld == HInv /\ [Next]_vars => HInv'
<1> SUFFICES ASSUME HInv, [Next]_vars PROVE HInv'
  OBVIOUS
<1> USE DEF HInv, HeldAt, NoCallYet, NoOutputYet, LeftHeld
<1>1. CASE ParseArguments
  BY <1>1 DEF ParseArguments, dirVars
<1>2. CASE Help
  BY <1>2 DEF Help, Parsed, End, Keep, dirVars
<1>3. CASE ArgumentError
  BY <1>3 DEF ArgumentError, Parsed, End, dirVars
<1>4. CASE ReadSource
  BY <1>4 DEF ReadSource, Parsed, End, Then, Keep, dirVars
<1>5. CASE ParseSource
  BY <1>5 DEF ParseSource, End, Then, Keep, dirVars
<1>6. CASE DumpAst
  BY <1>6 DEF DumpAst, Then, Keep, dirVars
<1>7. CASE WriteAssembly
  BY <1>7 DEF WriteAssembly, Crash, End, Then, Keep, dirVars
<1>8. CASE MakeTempDir
  BY <1>8 DEF MakeTempDir, Crash, End, Then
<1>9. CASE CompileToTemp
  BY <1>9 DEF CompileToTemp, Crash, End, Then
<1>10. CASE RunNasm
  BY <1>10 DEF RunNasm, Outcomes, Succeeded, Then
<1>11. CASE RunLd
  BY <1>11 DEF RunLd, Outcomes, Succeeded, Then, Keep, dirVars
<1>12. CASE DeleteTemp
  BY <1>12 DEF DeleteTemp, Removing
<1>13. CASE Leave
  BY <1>13 DEF Leave, Removing, Removal!Returned, Removal!Begun, End, Then, Keep, dirVars
<1>14. CASE Release
  BY <1>14 DEF Release, End, Keep, dirVars
<1>15. CASE UNCHANGED vars
  BY <1>15 DEF vars, dirVars
<1>16. CASE Hang
  BY <1>16 DEF Hang
<1> QED
  BY <1>1, <1>2, <1>3, <1>4, <1>5, <1>6, <1>7, <1>8, <1>9, <1>10, <1>11, <1>12, <1>13,
     <1>14, <1>15, <1>16 DEF Next, Front, Back

(* Whatever the command line says and whatever fails: run() of run.c has   *)
(* released all when it succeeds or fails early, and leaves exactly the    *)
(* known allocations when nasm or ld fails.                                *)
THEOREM DriverLeaves == Spec => []LeftHeld
<1>1. HInv => LeftHeld
  BY DEF HInv
<1> QED BY <1>1, InitHeld, StepHeld, PTL DEF Spec
----------------------------------------------------------------------------
(* The files in the temporary directory: del_dir finds them by their names.*)
Names   == {"a.s", "a.o"}
Put(name) == Append(TempDir, name)
Present == {name \in Names : Put(name) \in DOMAIN files}

(* The working directory holds the temporary one, or not, and nothing else;*)
(* the temporary one holds files made by the compiler and nasm.            *)
Scratch ==
    /\ files = [path \in DOMAIN files |-> files[path]]
    /\ DOMAIN files \subseteq {Cwd, TempDir} \cup {Put(name) : name \in Names}
    /\ Cwd \in DOMAIN files
    /\ \A path \in DOMAIN files : files[path] = IF path \in {Cwd, TempDir} THEN "dir" ELSE "file"

(* The one call of del_dir is run()'s: it has not read what is not there,  *)
(* and, as long as nothing failed, all that is there.                      *)
OneCall ==
    frames # <<>> =>
        /\ Removing /\ calls # {} /\ TempDir \in DOMAIN files
        /\ \E unread \in SUBSET (Names \cup {".", ".."}) :
               /\ frames = <<[dir |-> TempDir, owned |-> FALSE, unread |-> unread]>>
               /\ unread \cap Names \subseteq Present
               /\ failed = {} => Present \subseteq unread

(* The directory is there from mkdtemp until a removal without a failure   *)
(* has returned.                                                           *)
WhenThere ==
    /\ at \in {"arguments", "parse", "generate"} => files = Here
    /\ at \in {"assemble", "nasm", "ld"} => TempDir \in DOMAIN files
    /\ Removing /\ calls = {} => TempDir \in DOMAIN files
    /\ calls # {} /\ frames = <<>> /\ failed = {} => files = Here
    /\ calls = {} /\ at = "release" => files = Here
    /\ calls = {} /\ at = "end" => files = Here \/ exit = "crash"

RInv == Scratch /\ OneCall /\ WhenThere /\ ~misused /\ paths = {} /\ NoCallYet

(* The four paths differ, and lie where their names say.                   *)
LEMMA PathsApart ==
  /\ Cwd # TempDir /\ Cwd # <<>> /\ TempDir # <<>>
  /\ Removal!Parent(Cwd) # TempDir /\ Removal!Parent(TempDir) # TempDir
  /\ \A name \in Names :
         /\ Put(name) \notin {Cwd, TempDir, <<>>}
         /\ Removal!Parent(Put(name)) = TempDir
         /\ Put(name)[Len(Put(name))] = name
         /\ name \notin {".", ".."}
  /\ \A m, n \in Names : Put(m) = Put(n) => m = n
<1>1. Len(Cwd) = 1 /\ Len(TempDir) = 2
  BY DEF Cwd, TempDir
<1>2. TempDir \in Seq({"cwd", "dragonk-XXXXXX"}) /\ Cwd \in Seq({"cwd", "dragonk-XXXXXX"})
  BY DEF Cwd, TempDir
<1>3. ASSUME NEW name \in Names
      PROVE  Len(Put(name)) = 3 /\ Put(name)[3] = name /\ Removal!Parent(Put(name)) = TempDir
  <2> DEFINE S == {"cwd", "dragonk-XXXXXX"} \cup Names
             s == Put(name)
             t == SubSeq(s, 1, 2)
  <2>1. TempDir \in Seq(S) /\ name \in S
    BY <1>2, <1>3 DEF TempDir
  <2> HIDE DEF S
  <2>2. s \in Seq(S) /\ Len(s) = 3 /\ s[3] = name
        /\ \A k \in 1..2 : s[k] = TempDir[k]
    <3>1. ASSUME NEW T, NEW q \in Seq(T), NEW e \in T, Len(q) = 2
          PROVE  /\ Append(q, e) \in Seq(T) /\ Len(Append(q, e)) = 3
                 /\ Append(q, e)[3] = e /\ \A k \in 1..2 : Append(q, e)[k] = q[k]
      <4>1. /\ Append(q, e) \in Seq(T) /\ Len(Append(q, e)) = Len(q) + 1
            /\ Append(q, e)[Len(q) + 1] = e /\ \A k \in 1..Len(q) : Append(q, e)[k] = q[k]
        BY AppendProperties
      <4>2. Len(q) + 1 = 3
        BY <3>1
      <4> QED BY <3>1, <4>1, <4>2
    <3> QED BY <1>1, <2>1, <3>1 DEF Put
  <2> HIDE DEF s
  <2>3. t \in Seq(S) /\ Len(t) = 2 /\ \A k \in 1..2 : t[k] = s[k]
    <3>1. /\ 1 \in Int /\ 2 \in Int /\ \A k \in 1..2 : s[k] \in S
      <4>1. \A k \in 1..3 : s[k] \in S
        BY <2>2
      <4> QED BY <4>1
    <3> QED BY <2>2, <3>1, SubSeqProperties
  <2> HIDE DEF t
  <2>4. t = TempDir
    BY <1>1, <2>1, <2>2, <2>3, SeqEqual
  <2> QED BY <2>2, <2>4 DEF Removal!Parent, s, t
<1>4. Len(Removal!Parent(Cwd)) = 0 /\ Len(Removal!Parent(TempDir)) = 1
  BY <1>1, <1>2 DEF Removal!Parent
<1>5. Len(<<>>) = 0
  OBVIOUS
<1>6. \A name \in Names : name \notin {".", ".."}
  BY DEF Names
<1> QED BY <1>1, <1>3, <1>4, <1>5, <1>6

(* What del_dir finds in the temporary directory.                          *)
LEMMA Found ==
  ASSUME Scratch
  PROVE  /\ Removal!Children(TempDir) = {Put(name) : name \in Present}
         /\ {path[Len(path)] : path \in Removal!Children(TempDir)} = Present
<1>1. Removal!Children(TempDir) = {Put(name) : name \in Present}
  BY PathsApart DEF Scratch, Removal!Children, Present
<1> QED BY <1>1, PathsApart DEF Present

(* A file is there when codegen_program or nasm has put it.                *)
LEMMA WithKeepsScratch ==
  ASSUME Scratch, NEW names \in SUBSET Names, files' = With(names)
  PROVE  Scratch' /\ DOMAIN files \subseteq DOMAIN files'
BY PathsApart DEF Scratch, With, Put

(* Nor does the removal of anything but the working directory.             *)
LEMMA RemoveKeepsScratch ==
  ASSUME Scratch, NEW path, path # Cwd, Removal!Remove(path)
  PROVE  Scratch' /\ DOMAIN files' = DOMAIN files \ {path}
BY DEF Scratch, Removal!Remove

(* Nothing in the temporary directory, and it not there: the beginning.    *)
LEMMA HereAgain == Scratch /\ TempDir \notin DOMAIN files /\ Present = {} => files = Here
BY DEF Scratch, Present, Here
----------------------------------------------------------------------------
(* It holds before the command line is read.                               *)
LEMMA InitRemoved == Init => RInv
<1>1. Init => Scratch
  BY PathsApart DEF Init, Scratch, Here
<1> QED BY <1>1 DEF Init, RInv, OneCall, WhenThere, NoCallYet, Removing

(* A call, and each of its steps.                                          *)
LEMMA CallKept == ASSUME RInv, DeleteTemp, Removal!Call(FALSE) PROVE RInv'
<1>1. /\ Removing /\ at' = at /\ exit' = exit /\ files' = files /\ misused' = misused
      /\ calls = {} /\ paths' = {} /\ Removal!Enter(TempDir, FALSE, <<>>)
  BY DEF DeleteTemp, Removal!Call, Removal!Begun
<1>2. Scratch' /\ Scratch /\ Present' = Present /\ TempDir \in DOMAIN files /\ calls' # {}
  BY <1>1 DEF RInv, Scratch, Present, WhenThere, Removal!Enter
<1>3. CASE frames' = <<>> /\ failed' # {}
  BY <1>1, <1>2, <1>3 DEF RInv, OneCall, WhenThere, NoCallYet, Removing
<1>4. CASE \E names : frames' = <<[dir |-> TempDir, owned |-> FALSE,
                                   unread |-> Removal!Dots \cup Present]>>
  <2>1. Removal!Dots \cup Present \in SUBSET (Names \cup {".", ".."})
        /\ (Removal!Dots \cup Present) \cap Names \subseteq Present
    BY PathsApart DEF Removal!Dots, Present
  <2>2. OneCall'
    BY <1>1, <1>2, <1>4, <2>1 DEF OneCall, Removing
  <2>3. frames' # <<>>
    BY <1>4
  <2> QED BY <1>1, <1>2, <2>2, <2>3 DEF RInv, WhenThere, NoCallYet, Removing
<1>5. Append(<<>>, [dir |-> TempDir, owned |-> FALSE, unread |-> Removal!Dots \cup Present])
      = <<[dir |-> TempDir, owned |-> FALSE, unread |-> Removal!Dots \cup Present]>>
  OBVIOUS
<1> QED BY <1>1, <1>2, <1>3, <1>4, <1>5, Found DEF Removal!Enter

LEMMA StepKept == ASSUME RInv, DeleteTemp, Removal!Step PROVE RInv'
<1>1. Removing /\ at' = at /\ exit' = exit
  BY DEF DeleteTemp
<1>2. frames # <<>>
  BY DEF Removal!Step, Removal!SkipDots, Removal!EnterChild, Removal!UnlinkChild,
         Removal!Leave, Removal!Running
<1>3. PICK unread \in SUBSET (Names \cup {".", ".."}) :
          /\ frames = <<[dir |-> TempDir, owned |-> FALSE, unread |-> unread]>>
          /\ unread \cap Names \subseteq Present
          /\ failed = {} => Present \subseteq unread
  BY <1>2 DEF RInv, OneCall
<1>4. TempDir \in DOMAIN files /\ calls # {} /\ Scratch /\ ~misused /\ paths = {}
  BY <1>2 DEF RInv, OneCall
<1>5. /\ Removal!Inner = [dir |-> TempDir, owned |-> FALSE, unread |-> unread]
      /\ Removal!Inner.dir = TempDir /\ Removal!Inner.owned = FALSE
      /\ Removal!Inner.unread = unread
      /\ Removal!Readable /\ Removal!Freed = {} /\ Removal!Under = <<>>
  BY <1>3 DEF Removal!Inner, Removal!Readable, Removal!Freed, Removal!Under
<1>6. \A name : Removal!Read(name) =>
          frames' = <<[dir |-> TempDir, owned |-> FALSE, unread |-> unread \ {name}]>>
  <2> DEFINE call(left) == [dir |-> TempDir, owned |-> FALSE, unread |-> left]
  <2>1. ASSUME NEW old, NEW new PROVE [<<old>> EXCEPT ![1] = new] = <<new>>
    OBVIOUS
  <2>2. Len(frames) = 1 /\ frames[1] = call(unread) /\ frames = <<call(unread)>>
    BY <1>3
  <2>3. ASSUME NEW name, Removal!Read(name) PROVE frames' = <<call(unread \ {name})>>
    <3>1. frames' = [frames EXCEPT ![1] = [frames[1] EXCEPT !.unread = @ \ {name}]]
      BY <2>2, <2>3 DEF Removal!Read
    <3>2. ASSUME NEW D, NEW U, NEW v \in SUBSET U,
                 NEW r \in [dir : D, owned : BOOLEAN, unread : SUBSET U]
          PROVE  [r EXCEPT !.unread = v] = [dir |-> r.dir, owned |-> r.owned, unread |-> v]
      OBVIOUS
    <3> DEFINE U == Names \cup {".", ".."}
    <3>3. frames[1] \in [dir : {TempDir}, owned : BOOLEAN, unread : SUBSET U]
          /\ unread \ {name} \in SUBSET U /\ frames[1].dir = TempDir
          /\ frames[1].owned = FALSE /\ frames[1].unread = unread
      BY <2>2
    <3> HIDE DEF U
    <3>4. [frames[1] EXCEPT !.unread = unread \ {name}] = call(unread \ {name})
      <4>1. [frames[1] EXCEPT !.unread = unread \ {name}]
            = [dir |-> frames[1].dir, owned |-> frames[1].owned, unread |-> unread \ {name}]
        BY <3>2, <3>3
      <4> QED BY <3>3, <4>1
    <3>5. frames' = [frames EXCEPT ![1] = call(unread \ {name})]
      BY <3>1, <3>3, <3>4
    <3> HIDE DEF call
    <3> QED BY <2>1, <2>2, <3>5
  <2> QED BY <2>3
<1>7. ASSUME NEW name \in unread \ Removal!Dots
      PROVE  /\ name \in Present /\ name \in Names /\ Removal!Resolve(TempDir, name) = Put(name)
             /\ files[Put(name)] = "file" /\ Put(name) \in DOMAIN files
  <2>1. name \in Names /\ name \in Present
    BY <1>3, <1>7 DEF Removal!Dots
  <2> QED BY <1>4, <2>1, PathsApart DEF Present, Scratch, Removal!Resolve, Put
<1>8. ASSUME NEW left \in SUBSET unread, frames' # <<>>,
             frames' = <<[dir |-> TempDir, owned |-> FALSE, unread |-> left]>>,
             Scratch', TempDir \in DOMAIN files', misused' = misused, paths' = {},
             calls' = calls,
             left \cap Names \subseteq Present', failed' = {} => Present' \subseteq left
      PROVE  RInv'
  <2>1. OneCall'
    BY <1>1, <1>4, <1>8 DEF OneCall, Removing
  <2> QED BY <1>1, <1>4, <1>8, <2>1 DEF RInv, WhenThere, NoCallYet, Removing
<1>9. CASE Removal!SkipDots
  <2>1. PICK name \in unread \cap Removal!Dots : Removal!Read(name)
    BY <1>5, <1>9 DEF Removal!SkipDots
  <2>2. frames' = <<[dir |-> TempDir, owned |-> FALSE, unread |-> unread \ {name}]>>
    BY <1>6, <2>1
  <2>3. /\ files' = files /\ paths' = {} /\ misused' = misused /\ calls' = calls
        /\ failed' = failed
    BY <1>4, <1>9 DEF Removal!SkipDots
  <2>4. Scratch' /\ Present' = Present /\ TempDir \in DOMAIN files'
    BY <1>4, <2>3 DEF Scratch, Present
  <2>5. name \notin Names
    BY <2>1, PathsApart DEF Removal!Dots
  <2>6. (unread \ {name}) \cap Names \subseteq Present'
        /\ (failed' = {} => Present' \subseteq unread \ {name})
    BY <1>3, <2>3, <2>4, <2>5 DEF Present
  <2> QED BY <1>8, <2>2, <2>3, <2>4, <2>6
<1>10. ~Removal!EnterChild
  BY <1>5, <1>7 DEF Removal!EnterChild
<1>11. CASE Removal!UnlinkChild
  <2>1. PICK name \in unread \ Removal!Dots :
            /\ Removal!Read(name)
            /\ \/ Removal!Remove(Put(name)) /\ failed' = failed
               \/ Removal!Fails(Put(name))
    BY <1>5, <1>7, <1>11 DEF Removal!UnlinkChild
  <2>2. paths' = {} /\ misused' = misused /\ calls' = calls
    BY <1>4, <1>5, <1>11 DEF Removal!UnlinkChild
  <2>3. frames' = <<[dir |-> TempDir, owned |-> FALSE, unread |-> unread \ {name}]>>
    BY <1>6, <2>1
  <2>4. CASE Removal!Remove(Put(name)) /\ failed' = failed
    <3>1. Put(name) \notin {Cwd, TempDir} /\ name \in Names
      BY <1>7, PathsApart
    <3>2. Scratch' /\ DOMAIN files' = DOMAIN files \ {Put(name)}
      BY <1>4, <2>4, <3>1, RemoveKeepsScratch
    <3>3. Present' = Present \ {name}
      BY <3>1, <3>2, PathsApart DEF Present
    <3>4. TempDir \in DOMAIN files'
      BY <1>4, <3>1, <3>2
    <3> QED BY <1>3, <1>8, <2>2, <2>3, <2>4, <3>2, <3>3, <3>4
  <2>5. CASE Removal!Fails(Put(name))
    <3>1. files' = files /\ failed' # {}
      BY <2>5 DEF Removal!Fails
    <3>2. Scratch' /\ Present' = Present /\ TempDir \in DOMAIN files'
      BY <1>4, <3>1 DEF Scratch, Present
    <3> QED BY <1>3, <1>8, <2>2, <2>3, <3>1, <3>2
  <2> QED BY <2>1, <2>4, <2>5
<1>12. CASE Removal!Leave
  <2>1. /\ frames' = <<>> /\ paths' = {} /\ misused' = misused /\ calls' = calls
        /\ unread = {}
        /\ \/ Removal!Children(TempDir) = {} /\ Removal!Remove(TempDir) /\ failed' = failed
           \/ Removal!Fails(TempDir)
    BY <1>4, <1>5, <1>12 DEF Removal!Leave
  <2>2. CASE Removal!Children(TempDir) = {} /\ Removal!Remove(TempDir) /\ failed' = failed
    <3>1. Scratch' /\ DOMAIN files' = DOMAIN files \ {TempDir}
      BY <1>4, <2>2, PathsApart, RemoveKeepsScratch
    <3>2. Present = {}
      BY <1>4, <2>2, Found
    <3>3. Present' = {}
      BY <3>1, <3>2 DEF Present
    <3>4. files' = Here
      <4>1. Scratch' /\ (TempDir \notin DOMAIN files)' /\ (Present = {})'
        BY <3>1, <3>3
      <4> QED BY <4>1 DEF Scratch, Present, Here
    <3> QED BY <1>1, <1>4, <2>1, <3>1, <3>4 DEF RInv, OneCall, WhenThere, NoCallYet, Removing
  <2>3. CASE Removal!Fails(TempDir)
    <3>1. files' = files /\ failed' # {}
      BY <2>3 DEF Removal!Fails
    <3> QED BY <1>1, <1>4, <2>1, <3>1
            DEF RInv, Scratch, OneCall, WhenThere, NoCallYet, Removing
  <2> QED BY <2>1, <2>2, <2>3
<1> QED BY <1>9, <1>10, <1>11, <1>12 DEF Removal!Step

(* Each step of run() keeps it.                                            *)
LEMMA StepRemoved == RInv /\ [Next]_vars => RInv'
<1> SUFFICES ASSUME RInv, [Next]_vars PROVE RInv'
  OBVIOUS
<1> USE DEF Removing
<1>1. ASSUME UNCHANGED dirVars, WhenThere', NoCallYet', frames # <<>> => Removing'
      PROVE  RInv'
  BY <1>1 DEF RInv, Scratch, OneCall, dirVars, Present
<1>2. ASSUME NEW names \in SUBSET Names, files' = With(names),
             UNCHANGED <<frames, paths, misused, calls, failed>>,
             at \in {"assemble", "nasm"}, at' \in {"nasm", "ld", "nasm failed", "waiting"}
      PROVE  RInv'
  <2>1. Scratch' /\ DOMAIN files \subseteq DOMAIN files'
    BY <1>2, WithKeepsScratch DEF RInv
  <2>2. calls = {} /\ frames = <<>>
    BY <1>2 DEF RInv, NoCallYet, OneCall
  <2>3. WhenThere'
    BY <1>2, <2>1, <2>2 DEF RInv, WhenThere
  <2> QED BY <1>2, <2>1, <2>2, <2>3 DEF RInv, NoCallYet, OneCall
<1>3. CASE ParseArguments \/ Help \/ ArgumentError \/ ReadSource \/ ParseSource \/ DumpAst
           \/ WriteAssembly \/ RunLd \/ Release
  BY <1>1, <1>3 DEF RInv, WhenThere, NoCallYet, OneCall, ParseArguments, Help, ArgumentError,
     ReadSource, ParseSource, DumpAst, WriteAssembly, RunLd, Release, Parsed, End, Then,
     Keep, Crash, dirVars
<1>4. CASE MakeTempDir
  <2>1. calls = {} /\ frames = <<>> /\ files = Here
    BY <1>4 DEF MakeTempDir, RInv, NoCallYet, OneCall, WhenThere
  <2>2. CASE UNCHANGED files
    BY <1>1, <1>4, <2>1, <2>2 DEF MakeTempDir, Crash, End, Then, dirVars, RInv, WhenThere,
       NoCallYet
  <2>3. CASE files' = [path \in {Cwd, TempDir} |-> "dir"] /\ at' = "assemble"
    <3>1. Scratch' /\ TempDir \in DOMAIN files'
      BY <2>3, PathsApart DEF Scratch
    <3> QED BY <1>4, <2>1, <2>3, <3>1 DEF MakeTempDir, RInv, WhenThere, NoCallYet, OneCall
  <2> QED BY <1>4, <2>2, <2>3 DEF MakeTempDir, Crash, Then
<1>5. CASE CompileToTemp
  <2>1. CASE UNCHANGED files
    BY <1>1, <1>5, <2>1 DEF CompileToTemp, Crash, End, Then, dirVars, RInv, WhenThere,
       NoCallYet, OneCall
  <2>2. CASE files' = With({"a.s"}) /\ at' = "nasm"
    BY <1>2, <1>5, <2>2 DEF CompileToTemp, Names
  <2> QED BY <1>5, <2>1, <2>2 DEF CompileToTemp, Crash, Then
<1>6. CASE RunNasm
  <2>1. PICK written \in SUBSET {"a.o"} : files' = With(written)
    BY <1>6 DEF RunNasm
  <2> QED BY <1>2, <1>6, <2>1 DEF RunNasm, Names, Then
<1>7. CASE DeleteTemp
  BY <1>7, CallKept, StepKept DEF DeleteTemp
<1>8. CASE Leave
  BY <1>1, <1>8 DEF Leave, Removal!Returned, Removal!Begun, RInv, WhenThere, NoCallYet, OneCall,
     End, Then, Keep, dirVars
<1>9. CASE UNCHANGED vars
  BY <1>1, <1>9 DEF vars, dirVars, RInv, WhenThere, NoCallYet, OneCall
<1>10. CASE Hang
  <2>1. CASE files' = files
    BY <1>1, <1>10, <2>1 DEF Hang, dirVars, RInv, WhenThere, NoCallYet, OneCall
  <2>2. CASE at = "nasm" /\ \E written \in SUBSET {"a.o"} : files' = With(written)
    BY <1>2, <1>10, <2>2 DEF Hang, Names
  <2> QED BY <1>10, <2>1, <2>2 DEF Hang
<1> QED BY <1>3, <1>4, <1>5, <1>6, <1>7, <1>8, <1>9, <1>10 DEF Next, Front, Back

(* Whatever the command line says and whatever fails: when run() of run.c  *)
(* ends, short of a crash, its temporary directory is gone with the files  *)
(* of the compiler and of nasm, unless a system call of del_dir failed; and*)
(* del_dir neither loses a path nor uses one that was freed.               *)
THEOREM DriverCleansUp == Spec => []TempDirRemoved
<1>1. RInv => TempDirRemoved
  BY DEF RInv, OneCall, WhenThere, TempDirRemoved, Removing
<1> QED BY <1>1, InitRemoved, StepRemoved, PTL DEF Spec
----------------------------------------------------------------------------
(* The options of the driver. *)
KindOf(k) == AcceptedOptions[k].kind
Options == 1..5

LEMMA LeastNumber ==
  ASSUME NEW T \in SUBSET Nat, T # {}
  PROVE  \E n \in T : \A m \in T : n <= m
<1> DEFINE R == {ss \in Nat \X Nat : ss[1] < ss[2]}
<1>1. IsWellFoundedOn(R, Nat)
  BY NatLessThanWellFounded DEF OpToRel
<1> HIDE DEF R
<1>2. PICK n \in T : \A m \in T : ~(<<m, n>> \in R)
  BY <1>1, WFMin
<1>3. \A m \in T : ~(m < n)
  BY <1>2 DEF R
<1> QED BY <1>3

(* BUF_FIND's result is in the set and not above any other.                *)
LEMMA FirstIs ==
  ASSUME NEW places \in SUBSET Nat
  PROVE  /\ places # {} => Arguments!First(places) \in places
                           /\ \A q \in places : Arguments!First(places) <= q
         /\ \A m \in places : (\A q \in places : m <= q) => Arguments!First(places) = m
<1>1. ASSUME places # {}
      PROVE  Arguments!First(places) \in places
             /\ \A q \in places : Arguments!First(places) <= q
  <2>1. \E n \in places : \A m \in places : n <= m
    BY <1>1, LeastNumber
  <2> QED BY <2>1, Zenon DEF Arguments!First
<1>2. ASSUME NEW m \in places, \A q \in places : m <= q
      PROVE  Arguments!First(places) = m
  <2>1. Arguments!First(places) \in places /\ Arguments!First(places) <= m
    BY <1>1
  <2> DEFINE f == Arguments!First(places)
  <2>2. m <= f /\ f <= m /\ f \in Nat /\ m \in Nat
    BY <1>2, <2>1
  <2> HIDE DEF f
  <2>3. f = m
    BY <2>2
  <2> QED BY <2>3 DEF f
<1> QED BY <1>1, <1>2

LEMMA OptionFacts ==
  /\ Len(AcceptedOptions) = 5
  /\ KindOf(1) = "POS" /\ KindOf(2) = "FLAG" /\ KindOf(3) = "FLAG" /\ KindOf(4) = "FLAG"
  /\ KindOf(5) = "OPT"
  /\ \A name : Arguments!ByLongname(name) \in SUBSET Options
  /\ \A c : Arguments!ByShortname(c) \in SUBSET Options
  /\ \A found \in SUBSET Options : \A kind :
        Arguments!Are(found, kind) <=> found # {} /\ KindOf(Arguments!First(found)) = kind
  /\ \A found \in SUBSET Options : found # {} => Arguments!First(found) \in found
<1>1. Len(AcceptedOptions) = 5
  BY DEF AcceptedOptions
<1>2. /\ KindOf(1) = "POS" /\ KindOf(2) = "FLAG" /\ KindOf(3) = "FLAG" /\ KindOf(4) = "FLAG"
      /\ KindOf(5) = "OPT"
  BY DEF AcceptedOptions, KindOf, Option
<1>3. \A name : Arguments!ByLongname(name) \in SUBSET Options
  BY <1>1 DEF Arguments!ByLongname, Options
<1>4. \A c : Arguments!ByShortname(c) \in SUBSET Options
  BY <1>1 DEF Arguments!ByShortname, Options
<1>5. \A found \in SUBSET Options : \A kind :
        Arguments!Are(found, kind) <=> found # {} /\ KindOf(Arguments!First(found)) = kind
  BY DEF Arguments!Are, KindOf
<1>6. \A found \in SUBSET Options : found # {} => Arguments!First(found) \in found
  <2>1. Options \in SUBSET Nat
    BY DEF Options
  <2> QED BY <2>1, FirstIs
<1> QED BY <1>1, <1>2, <1>3, <1>4, <1>5, <1>6

(* A recursion that selects the numbers of a set in order.                 *)
IsOrder(v, set, n) ==
  v = [m \in 0..n |->
         IF m = 0 THEN <<>> ELSE IF m \in set THEN Append(v[m - 1], m) ELSE v[m - 1]]

LEMMA OrderExists ==
  ASSUME NEW set, NEW n \in Nat
  PROVE  \E v : IsOrder(v, set, n)
<1> DEFINE T == {m \in Nat : ~\E v : IsOrder(v, set, m)}
<1> SUFFICES ASSUME T # {} PROVE FALSE
  OBVIOUS
<1>1. PICK b \in T : \A m \in T : b <= m
  BY LeastNumber
<1>2. CASE b = 0
  <2> DEFINE v == [m \in 0..0 |-> <<>>]
  <2>1. \A m \in 0..0 : m = 0
    OBVIOUS
  <2>2. v = [m \in 0..0 |->
         IF m = 0 THEN <<>> ELSE IF m \in set THEN Append(v[m - 1], m) ELSE v[m - 1]]
    BY <2>1
  <2> HIDE DEF v
  <2> QED BY <1>2, <2>2 DEF IsOrder
<1>3. CASE b # 0
  <2>1. b \in Nat /\ b - 1 \in Nat /\ b - 1 \notin T
    BY <1>1, <1>3
  <2>2. PICK h : IsOrder(h, set, b - 1)
    BY <2>1
  <2> DEFINE top == IF b \in set THEN Append(h[b - 1], b) ELSE h[b - 1]
             v == [m \in 0..b |-> IF m = b THEN top ELSE h[m]]
             S(m) == IF m = 0 THEN <<>> ELSE IF m \in set THEN Append(v[m - 1], m) ELSE v[m - 1]
  <2>3. ASSUME NEW m \in 0..b PROVE v[m] = S(m)
    <3>1. CASE m = b
      <4>1. b - 1 \in 0..b /\ b - 1 # b
        BY <2>1
      <4>2. v[b - 1] = h[b - 1]
        BY <4>1
      <4> QED BY <1>3, <3>1, <4>2
    <3>2. CASE m # b
      <4>1. m \in 0..(b - 1)
        BY <2>1, <3>2
      <4>2. h[m] = IF m = 0 THEN <<>> ELSE IF m \in set THEN Append(h[m - 1], m) ELSE h[m - 1]
        BY <2>2, <4>1 DEF IsOrder
      <4>3. m # 0 => m - 1 \in 0..b /\ m - 1 # b
        BY <2>1, <4>1
      <4>4. m # 0 => v[m - 1] = h[m - 1]
        BY <4>3
      <4> QED BY <3>2, <4>2, <4>4
    <3> QED BY <3>1, <3>2
  <2>4. v = [m \in 0..b |-> S(m)]
    BY <2>3
  <2>5. \E w : w = [m \in 0..b |->
         IF m = 0 THEN <<>> ELSE IF m \in set THEN Append(w[m - 1], m) ELSE w[m - 1]]
    BY <2>4
  <2> QED BY <2>5 DEF IsOrder
<1> QED BY <1>2, <1>3

LEMMA OrderUnique ==
  ASSUME NEW set, NEW a \in Nat, NEW b \in Nat, NEW v, NEW w, NEW k \in Nat,
         IsOrder(v, set, a), IsOrder(w, set, b), k <= a, k <= b
  PROVE  v[k] = w[k]
<1> DEFINE T == {m \in Nat : m <= k /\ v[m] # w[m]}
<1> SUFFICES ASSUME T # {} PROVE FALSE
  OBVIOUS
<1>1. PICK m \in T : \A n \in T : m <= n
  BY LeastNumber
<1>2. m \in 0..a /\ m \in 0..b
  OBVIOUS
<1>3. /\ v[m] = IF m = 0 THEN <<>> ELSE IF m \in set THEN Append(v[m - 1], m) ELSE v[m - 1]
      /\ w[m] = IF m = 0 THEN <<>> ELSE IF m \in set THEN Append(w[m - 1], m) ELSE w[m - 1]
  BY <1>2 DEF IsOrder
<1>4. m # 0
  BY <1>3
<1>5. m - 1 \in Nat /\ m - 1 <= k /\ ~(m <= m - 1)
  BY <1>4
<1>6. v[m - 1] = w[m - 1]
  BY <1>1, <1>5
<1> QED BY <1>3, <1>6

(* One number more.                                                        *)
LEMMA OrderSteps ==
  ASSUME NEW set, NEW n \in Nat
  PROVE  /\ Arguments!InOrder(set, 0) = <<>>
         /\ n # 0 => Arguments!InOrder(set, n) =
              IF n \in set THEN Append(Arguments!InOrder(set, n - 1), n)
                           ELSE Arguments!InOrder(set, n - 1)
<1>1. ASSUME NEW k \in Nat PROVE \E v : IsOrder(v, set, k) /\ Arguments!InOrder(set, k) = v[k]
  <2> DEFINE v == CHOOSE u : IsOrder(u, set, k)
  <2>1. IsOrder(v, set, k)
    BY OrderExists, Zenon
  <2>2. Arguments!InOrder(set, k) = v[k]
    BY Zenon DEF Arguments!InOrder, IsOrder
  <2> QED BY <2>1, <2>2
<1>2. Arguments!InOrder(set, 0) = <<>>
  <2>1. PICK v : IsOrder(v, set, 0) /\ Arguments!InOrder(set, 0) = v[0]
    BY <1>1
  <2>2. 0 \in 0..0
    OBVIOUS
  <2> QED BY <2>1, <2>2 DEF IsOrder
<1>3. ASSUME n # 0
      PROVE  Arguments!InOrder(set, n) =
              IF n \in set THEN Append(Arguments!InOrder(set, n - 1), n)
                           ELSE Arguments!InOrder(set, n - 1)
  <2>1. n - 1 \in Nat /\ n - 1 <= n /\ n \in 0..n /\ n - 1 <= n - 1
    BY <1>3
  <2>2. PICK v : IsOrder(v, set, n) /\ Arguments!InOrder(set, n) = v[n]
    BY <1>1
  <2>3. PICK w : IsOrder(w, set, n - 1) /\ Arguments!InOrder(set, n - 1) = w[n - 1]
    BY <1>1, <2>1
  <2>4. v[n - 1] = w[n - 1]
    BY <2>1, <2>2, <2>3, OrderUnique
  <2>5. v[n] = IF n = 0 THEN <<>> ELSE IF n \in set THEN Append(v[n - 1], n) ELSE v[n - 1]
    BY <2>1, <2>2 DEF IsOrder
  <2> QED BY <1>3, <2>2, <2>3, <2>4, <2>5
<1> QED BY <1>2, <1>3

(* Numbers that are not in the set make no difference.                     *)
LEMMA OrderStays ==
  ASSUME NEW set, NEW a \in Nat, NEW b \in Nat, a <= b, \A m \in (a + 1)..b : m \notin set
  PROVE  Arguments!InOrder(set, b) = Arguments!InOrder(set, a)
<1> DEFINE T == {n \in Nat : a <= n /\ n <= b
                             /\ Arguments!InOrder(set, n) # Arguments!InOrder(set, a)}
<1> SUFFICES ASSUME T # {} PROVE FALSE
  OBVIOUS
<1>1. PICK n \in T : \A m \in T : n <= m
  BY LeastNumber
<1>2. n # a /\ n \in Nat /\ a <= n /\ n <= b
  OBVIOUS
<1>3. n - 1 \in Nat /\ a <= n - 1 /\ n - 1 <= b /\ ~(n <= n - 1) /\ n \in (a + 1)..b /\ n # 0
  BY <1>2
<1>4. Arguments!InOrder(set, n - 1) = Arguments!InOrder(set, a)
  BY <1>1, <1>3
<1>5. Arguments!InOrder(set, n) = Arguments!InOrder(set, n - 1)
  BY <1>3, OrderSteps
<1> QED BY <1>4, <1>5

(* It is a sequence of members of the set.                                 *)
LEMMA OrderTyped ==
  ASSUME NEW set, NEW S, NEW b \in Nat, set \cap 1..b \subseteq S
  PROVE  Arguments!InOrder(set, b) \in Seq(S)
<1> DEFINE T == {n \in Nat : n <= b /\ Arguments!InOrder(set, n) \notin Seq(S)}
<1> SUFFICES ASSUME T # {} PROVE FALSE
  OBVIOUS
<1>1. PICK n \in T : \A m \in T : n <= m
  BY LeastNumber
<1>2. n # 0
  <2>1. Arguments!InOrder(set, 0) = <<>> /\ <<>> \in Seq(S)
    BY OrderSteps
  <2> QED BY <2>1
<1>3. n - 1 \in Nat /\ n - 1 <= b /\ ~(n <= n - 1) /\ n \in 1..b
  BY <1>2
<1>4. Arguments!InOrder(set, n - 1) \in Seq(S)
  BY <1>1, <1>3
<1>5. Arguments!InOrder(set, n) =
              IF n \in set THEN Append(Arguments!InOrder(set, n - 1), n)
                           ELSE Arguments!InOrder(set, n - 1)
  BY <1>2, OrderSteps
<1>6. n \in set => Append(Arguments!InOrder(set, n - 1), n) \in Seq(S)
  <2>1. n \in set => n \in S
    BY <1>3
  <2> QED BY <1>4, <2>1
<1> QED BY <1>4, <1>5, <1>6

(* The driver has one positional.                                          *)
LEMMA OnePositional == Arguments!Positionals = <<1>> /\ Arguments!Place(1) = 1
<1> DEFINE P == {k \in Options : KindOf(k) = "POS"}
<1>1. Arguments!Positionals = Arguments!InOrder(P, 5)
  BY OptionFacts DEF Arguments!Positionals, Options, KindOf
<1>2. P = {1}
  <2>1. Options = {1, 2, 3, 4, 5}
    BY DEF Options
  <2> QED BY <2>1, OptionFacts
<1>3. Arguments!InOrder({1}, 5) = Arguments!InOrder({1}, 1)
  BY OrderStays
<1>4. Arguments!InOrder({1}, 1) = Append(<<>>, 1)
  <2>1. 1 \in Nat /\ 1 # 0 /\ 1 \in {1} /\ 1 - 1 = 0
    OBVIOUS
  <2>2. Arguments!InOrder({1}, 1) = Append(Arguments!InOrder({1}, 1 - 1), 1)
    BY <2>1, OrderSteps
  <2> QED BY <2>1, <2>2, OrderSteps
<1>5. Arguments!Positionals = <<1>>
  BY <1>1, <1>2, <1>3, <1>4
<1>6. Arguments!Place(1) = 1
  <2>1. 1..Len(<<1>>) = {1} /\ <<1>>[1] = 1
    OBVIOUS
  <2> QED BY <1>5, <2>1 DEF Arguments!Place
<1> QED BY <1>5, <1>6
----------------------------------------------------------------------------
(* What single arguments mean. *)

Text == Seq(STRING)

(* Where a cluster of short options stops.                                 *)
FlagAt(text, k) == Arguments!Are(Arguments!ByShortname(text[k]), "FLAG")
LEMMA StopIs ==
  ASSUME NEW text \in Text, text # <<>>
  PROVE  /\ Arguments!Stop(text) \in 2..(Len(text) + 1)
         /\ \A k \in 2..(Arguments!Stop(text) - 1) : FlagAt(text, k)
         /\ Arguments!Stop(text) <= Len(text) => ~FlagAt(text, Arguments!Stop(text))
         /\ \A k \in 2..(Len(text) + 1) :
               /\ \A j \in 2..(k - 1) : FlagAt(text, j)
               /\ k <= Len(text) => ~FlagAt(text, k)
               => Arguments!Stop(text) = k
<1> DEFINE stops == {k \in 2..(Len(text) + 1) : k > Len(text) \/ ~FlagAt(text, k)}
           stop == Arguments!First(stops)
<1>1. Arguments!Stop(text) = stop
  BY DEF Arguments!Stop, FlagAt
<1>2. Len(text) \in Nat /\ Len(text) >= 1
  BY DEF Text
<1>3. stops \in SUBSET Nat /\ Len(text) + 1 \in stops
  BY <1>2
<1> HIDE DEF stop
<1>4. stop \in stops /\ \A q \in stops : stop <= q
  BY <1>3, FirstIs DEF stop
<1>5. ASSUME NEW k \in 2..(stop - 1) PROVE FlagAt(text, k)
  <2>1. k \in 2..(Len(text) + 1) /\ ~(stop <= k)
    BY <1>2, <1>4
  <2> QED BY <1>4, <2>1
<1>6. ASSUME NEW k \in 2..(Len(text) + 1), \A j \in 2..(k - 1) : FlagAt(text, j),
             k <= Len(text) => ~FlagAt(text, k)
      PROVE  stop = k
  <2>1. k \in stops
    BY <1>2, <1>6
  <2>2. stop <= k
    BY <1>4, <2>1
  <2>3. ~(stop < k)
    <3>1. ASSUME stop < k PROVE FALSE
      <4>1. stop \in 2..(k - 1) /\ stop <= Len(text)
        BY <1>2, <1>4, <3>1
      <4> QED BY <1>4, <1>6, <4>1
    <3> QED BY <3>1
  <2> QED BY <1>2, <1>4, <2>2, <2>3
<1> QED BY <1>1, <1>2, <1>4, <1>5, <1>6

(* An argument is a value if the one before wants one and is no value.     *)
LEMMA ValuesStep ==
  ASSUME Len(argv) \in Nat, NEW p \in Arguments!Places
  PROVE  p \in Arguments!Values <=>
             /\ p - 1 \in Arguments!Places /\ Arguments!Wants(argv[p - 1])
             /\ p - 1 \notin Arguments!Values
<1> DEFINE W == {q \in Arguments!Places : Arguments!Wants(argv[q])}
           Odd(q, n) == n % 2 = 1 /\ (q - n)..(q - 1) \subseteq W /\ q - n - 1 \notin W
<1>1. Arguments!Places = 1..Len(argv) /\ p \in Nat /\ p >= 1 /\ p <= Len(argv)
      /\ W \in SUBSET (1..Len(argv))
  BY DEF Arguments!Places
<1>2. \A q : q \in Arguments!Values <=> q \in Arguments!Places /\ \E n \in 1..(q - 1) : Odd(q, n)
  BY DEF Arguments!Values
<1> HIDE DEF W
<1>3. ASSUME NEW n \in 1..(p - 1), Odd(p, n) PROVE p - 1 \in W /\ p - 1 \notin Arguments!Values
  <2>1. n \in Nat /\ n >= 1 /\ n <= p - 1 /\ p - 1 \in (p - n)..(p - 1)
    BY <1>1
  <2>2. p - 1 \in W
    BY <1>3, <2>1
  <2>3. ASSUME NEW m \in 1..((p - 1) - 1), Odd(p - 1, m) PROVE FALSE
    <3>1. m \in Nat /\ m >= 1 /\ m <= p - 2
      BY <1>1
    <3>2. ~(n > m + 1)
      <4>1. ASSUME n > m + 1 PROVE FALSE
        <5>1. (p - 1) - m - 1 \in (p - n)..(p - 1)
          BY <1>1, <2>1, <3>1, <4>1
        <5> QED BY <1>3, <2>3, <5>1
      <4> QED BY <4>1
    <3>3. ~(n < m + 1)
      <4>1. ASSUME n < m + 1 PROVE FALSE
        <5>1. p - n - 1 \in ((p - 1) - m)..((p - 1) - 1)
          BY <1>1, <2>1, <3>1, <4>1
        <5> QED BY <1>3, <2>3, <5>1
      <4> QED BY <4>1
    <3>4. n = m + 1
      BY <2>1, <3>1, <3>2, <3>3
    <3>5. n % 2 = 1 /\ m % 2 = 1
      BY <1>3, <2>3
    <3> QED BY <2>1, <3>1, <3>4, <3>5
  <2> QED BY <1>2, <2>2, <2>3
<1>4. ASSUME p - 1 \in W, p - 1 \notin Arguments!Values
      PROVE  \E n \in 1..(p - 1) : Odd(p, n)
  <2> DEFINE T == {q \in Nat : 1 <= q /\ q <= p - 1 /\ q..(p - 1) \subseteq W}
  <2>1. p - 1 \in 1..Len(argv)
    BY <1>1, <1>4
  <2>2. p - 1 \in T
    <3>1. \A r \in (p - 1)..(p - 1) : r = p - 1
      BY <2>1
    <3> QED BY <1>4, <2>1, <3>1
  <2>3. PICK q \in T : \A r \in T : q <= r
    BY <2>2, LeastNumber
  <2>4. q \in Nat /\ 1 <= q /\ q <= p - 1 /\ q..(p - 1) \subseteq W
    OBVIOUS
  <2>5. q - 1 \notin W
    <3>1. ASSUME q - 1 \in W PROVE FALSE
      <4>1. q - 1 \in 1..Len(argv)
        BY <1>1, <3>1
      <4>2. q - 1 \in Nat /\ 1 <= q - 1 /\ q - 1 <= p - 1 /\ ~(q <= q - 1)
          <5>1. q \in Nat /\ p \in Nat /\ q <= p - 1
            BY <1>1, <2>4
          <5>2. q - 1 >= 1
            BY <1>1, <2>4, <4>1
          <5> HIDE DEF T
          <5> QED BY <5>1, <5>2
      <4>3. ASSUME NEW r \in (q - 1)..(p - 1) PROVE r \in W
        <5>1. r = q - 1 \/ r \in q..(p - 1)
          BY <1>1, <2>4
        <5> QED BY <2>4, <3>1, <5>1
      <4>4. q - 1 \in T
        BY <4>2, <4>3
      <4> QED BY <2>3, <4>2, <4>4
    <3> QED BY <3>1
  <2>6. ASSUME (p - q) % 2 # 1 PROVE FALSE
    <3> DEFINE m == p - 1 - q
    <3>1. p - q \in Nat /\ p - q >= 1
      BY <1>1, <2>4
    <3>2. m \in Nat /\ m % 2 = 1
      BY <1>1, <2>4, <2>6, <3>1
    <3>3. m >= 1
      BY <3>2
    <3>4. m \in 1..((p - 1) - 1) /\ (p - 1) - m = q /\ (p - 1) - m - 1 = q - 1
      BY <1>1, <2>4, <3>2, <3>3
    <3>5. (q)..((p - 1) - 1) \subseteq W
      BY <1>1, <2>4
    <3>6. Odd(p - 1, m)
      BY <2>5, <3>2, <3>4, <3>5
    <3> HIDE DEF m, Odd
    <3> QED BY <1>1, <1>2, <1>4, <2>1, <3>4, <3>6
  <2>7. p - q \in 1..(p - 1) /\ p - (p - q) = q /\ p - (p - q) - 1 = q - 1
    BY <1>1, <2>4
  <2>8. Odd(p, p - q)
    BY <2>4, <2>5, <2>6, <2>7
  <2> HIDE DEF Odd
  <2> QED BY <2>7, <2>8
<1> QED BY <1>2, <1>3, <1>4 DEF W
----------------------------------------------------------------------------
(* The variables of the argument parser keep their types. *)

LEMMA TypedArguments ==
  Arguments!TypeOK <=>
    /\ argv \in Seq(Text)
    /\ ofs \in 1..(Len(argv) + 1)
    /\ i \in Nat /\ (i # 0 => ofs <= Len(argv) /\ i \in 2..(Len(argv[ofs]) + 1))
    /\ flagValue \in [Options -> BOOLEAN]
    /\ value \in [Options -> Text]
    /\ numConsumed \in 0..1
    /\ extra \in Seq(Text)
    /\ error \in {"none"} \cup Arguments!Complaints
    /\ live \subseteq {"indices", "refBuf", "message", "extra"}
    /\ state \in {"parsing", "done"}
<1>1. Len(AcceptedOptions) = 5 /\ Len(Arguments!Positionals) = 1
  BY OptionFacts, OnePositional
<1> QED BY <1>1 DEF Arguments!TypeOK, Text, Options

LEMMA TextFacts ==
  ASSUME argv \in Seq(Text)
  PROVE  /\ Len(argv) \in Nat
         /\ \A p \in 1..Len(argv) : argv[p] \in Text /\ Len(argv[p]) \in Nat
         /\ \A text \in Text : \A k \in Nat \ {0} : Arguments!From(text, k) \in Text
<1>1. ASSUME NEW text \in Text, NEW k \in Nat \ {0} PROVE Arguments!From(text, k) \in Text
  <2>1. text \in Seq(STRING) /\ Len(text) \in Nat /\ \A m \in k..Len(text) : text[m] \in STRING
    BY DEF Text
  <2>2. SubSeq(text, k, Len(text)) \in Seq(STRING)
    BY <2>1, SubSeqProperties
  <2> QED BY <2>2 DEF Arguments!From, Text
<1>2. ASSUME NEW p \in 1..Len(argv) PROVE argv[p] \in Text
  OBVIOUS
<1>3. \A text \in Text : Len(text) \in Nat
  BY DEF Text
<1> QED BY <1>1, <1>2, <1>3

LEMMA ComplaintTyped == \A found : Arguments!Complaint(found) \in Arguments!Complaints
BY DEF Arguments!Complaint, Arguments!Complaints

LEMMA StepTyped == ASSUME Arguments!TypeOK, Arguments!Parse PROVE Arguments!TypeOK'
<1> USE DEF Arguments!AtArgument, Arguments!AtLong, Arguments!AtShort, Arguments!GoOn,
            Arguments!Arg, Arguments!setVars
<1>1. /\ argv \in Seq(Text)
      /\ ofs \in 1..(Len(argv) + 1)
      /\ i \in Nat /\ (i # 0 => ofs <= Len(argv) /\ i \in 2..(Len(argv[ofs]) + 1))
      /\ flagValue \in [Options -> BOOLEAN]
      /\ value \in [Options -> Text]
      /\ numConsumed \in 0..1
      /\ extra \in Seq(Text)
      /\ error \in {"none"} \cup Arguments!Complaints
      /\ live \subseteq {"indices", "refBuf", "message", "extra"}
      /\ state \in {"parsing", "done"}
  BY TypedArguments
<1>2. Arguments!TypeOK' <=>
    /\ argv' \in Seq(Text)
    /\ ofs' \in 1..(Len(argv') + 1)
    /\ i' \in Nat /\ (i' # 0 => ofs' <= Len(argv') /\ i' \in 2..(Len(argv'[ofs']) + 1))
    /\ flagValue' \in [Options -> BOOLEAN]
    /\ value' \in [Options -> Text]
    /\ numConsumed' \in 0..1
    /\ extra' \in Seq(Text)
    /\ error' \in {"none"} \cup Arguments!Complaints
    /\ live' \subseteq {"indices", "refBuf", "message", "extra"}
    /\ state' \in {"parsing", "done"}
  <2>1. Len(AcceptedOptions) = 5 /\ Len(Arguments!Positionals) = 1
    BY OptionFacts, OnePositional
  <2> QED BY <2>1 DEF Arguments!TypeOK, Text, Options
<1>3. /\ Len(argv) \in Nat
      /\ \A p \in 1..Len(argv) : argv[p] \in Text /\ Len(argv[p]) \in Nat
      /\ \A text \in Text : \A k \in Nat \ {0} : Arguments!From(text, k) \in Text
  BY <1>1, TextFacts
<1>4. ASSUME NEW found \in SUBSET Options, NEW text \in Text, Arguments!Set(found, text)
      PROVE  value' \in [Options -> Text] /\ UNCHANGED <<flagValue, numConsumed, extra>>
  BY <1>1, <1>4 DEF Arguments!Set
<1>5. ASSUME NEW found \in SUBSET Options, Arguments!SetFlag(found)
      PROVE  flagValue' \in [Options -> BOOLEAN] /\ UNCHANGED <<value, numConsumed, extra>>
  BY <1>1, <1>5 DEF Arguments!SetFlag
<1>6. Arguments!Long \in SUBSET Options /\ Arguments!Short \in SUBSET Options
  BY OptionFacts DEF Arguments!Long, Arguments!Short
<1>7. CASE Arguments!LongFlag
  BY <1>1, <1>2, <1>5, <1>6, <1>7 DEF Arguments!LongFlag
<1>8. CASE Arguments!LongJoined
  <2>1. Arguments!Arg \in Text /\ Len(Arguments!Arg) \in Nat
    BY <1>1, <1>3, <1>8 DEF Arguments!LongJoined
  <2>2. Arguments!Equals(Arguments!Arg) # {}
    BY <1>8 DEF Arguments!LongJoined
  <2>3. Arguments!Equals(Arguments!Arg) \in SUBSET (Nat \ {0})
    BY <2>1 DEF Arguments!Equals
  <2>4. Arguments!First(Arguments!Equals(Arguments!Arg)) \in Nat \ {0}
    BY <2>2, <2>3, FirstIs
  <2>5. Arguments!From(Arguments!Arg, Arguments!First(Arguments!Equals(Arguments!Arg)) + 1) \in Text
    BY <1>3, <2>1, <2>4
  <2> QED BY <1>1, <1>2, <1>4, <1>6, <1>8, <2>5 DEF Arguments!LongJoined
<1>9. CASE Arguments!LongNext
  <2>1. argv[ofs + 1] \in Text /\ ofs + 2 \in 1..(Len(argv) + 1)
    BY <1>1, <1>3, <1>9 DEF Arguments!LongNext
  <2> QED BY <1>1, <1>2, <1>4, <1>6, <1>9, <2>1 DEF Arguments!LongNext
<1>10. CASE Arguments!LongFails \/ Arguments!ShortFails
  BY <1>1, <1>2, <1>10, ComplaintTyped DEF Arguments!LongFails, Arguments!ShortFails, Arguments!Fail
<1>11. CASE Arguments!StartShort
  <2>1. Arguments!Arg \in Text /\ Len(Arguments!Arg) \in Nat /\ Arguments!Arg # <<>>
    BY <1>1, <1>3, <1>11 DEF Arguments!StartShort, Arguments!IsShort
  <2>2. Len(Arguments!Arg) >= 1
    BY <2>1 DEF Text
  <2>3. 2 \in 2..(Len(Arguments!Arg) + 1)
    BY <2>1, <2>2
  <2> QED BY <1>1, <1>2, <1>11, <2>3 DEF Arguments!StartShort
<1>12. CASE Arguments!ShortFlag
  <2>1. i + 1 \in 2..(Len(argv[ofs]) + 1) /\ ofs <= Len(argv)
    BY <1>1, <1>3, <1>12 DEF Arguments!ShortFlag
  <2> QED BY <1>1, <1>2, <1>5, <1>6, <1>12, <2>1 DEF Arguments!ShortFlag
<1>13. CASE Arguments!ShortJoined
  <2>1. Arguments!From(Arguments!Arg, i + 1) \in Text
    BY <1>1, <1>3, <1>13 DEF Arguments!ShortJoined
  <2>2. ofs + 1 \in 1..(Len(argv) + 1)
    BY <1>1, <1>3, <1>13 DEF Arguments!ShortJoined
  <2> QED BY <1>1, <1>2, <1>4, <1>6, <1>13, <2>1, <2>2 DEF Arguments!ShortJoined
<1>14. CASE Arguments!ShortNext
  <2>1. argv[ofs + 1] \in Text /\ ofs + 2 \in 1..(Len(argv) + 1)
    BY <1>1, <1>3, <1>14 DEF Arguments!ShortNext
  <2> QED BY <1>1, <1>2, <1>4, <1>6, <1>14, <2>1 DEF Arguments!ShortNext
<1>15. CASE Arguments!EndShort
  <2>1. ofs + 1 \in 1..(Len(argv) + 1)
    BY <1>1, <1>3, <1>15 DEF Arguments!EndShort
  <2> QED BY <1>1, <1>2, <1>15, <2>1 DEF Arguments!EndShort
<1>16. CASE Arguments!Positional
  <2>1. Arguments!Arg \in Text /\ ofs + 1 \in 1..(Len(argv) + 1) /\ i = 0
    BY <1>1, <1>3, <1>16 DEF Arguments!Positional
  <2>2. Append(extra, Arguments!Arg) \in Seq(Text)
    BY <1>1, <2>1
  <2>3. CASE numConsumed < Len(Arguments!Positionals)
    <3>1. numConsumed + 1 \in 0..1
      BY <1>1, <2>3, OnePositional
    <3>2. [value EXCEPT ![Arguments!Positionals[numConsumed + 1]] = Arguments!Arg] \in [Options -> Text]
      BY <1>1, <2>1
    <3> QED BY <1>1, <1>2, <1>16, <2>1, <2>3, <3>1, <3>2 DEF Arguments!Positional
  <2>4. CASE ~(numConsumed < Len(Arguments!Positionals))
    BY <1>1, <1>2, <1>16, <2>1, <2>2, <2>4 DEF Arguments!Positional
  <2> QED BY <2>3, <2>4
<1>17. CASE Arguments!Finish
  <2>1. error' \in {"none"} \cup Arguments!Complaints
    BY <1>1, <1>17 DEF Arguments!Finish, Arguments!Complaints
  <2> QED BY <1>1, <1>2, <1>17, <2>1 DEF Arguments!Finish
<1> QED BY <1>7, <1>8, <1>9, <1>10, <1>11, <1>12, <1>13, <1>14, <1>15, <1>16, <1>17
        DEF Arguments!Parse, Arguments!ReadLong, Arguments!ReadShort
----------------------------------------------------------------------------
(* Where the reading of a command line is: the arguments before `ofs` that *)
(* are no values have been read, none of them failed, and the variables    *)
(* hold what they say; of the cluster at `ofs`, the letters before `i`.    *)

Own(n) == (1..n) \ Arguments!Values

ReadSoFar ==
    /\ error = "none"
    /\ ofs \notin Arguments!Values
    /\ \A p \in 1..(ofs - 1) : p \notin Arguments!Failing
    /\ i # 0 => Arguments!IsShort(argv[ofs]) /\ \A j \in 2..(i - 1) : FlagAt(argv[ofs], j)

Letter(j, k) == Arguments!First(Arguments!ByShortname(argv[ofs][j])) = k
FlagsRead ==
    \A k \in Options :
        flagValue[k] <=> \/ \E p \in Own(ofs - 1) : Arguments!TurnsOn(argv[p], k)
                         \/ i # 0 /\ \E j \in 2..(i - 1) : Letter(j, k)

Given(n) ==
    \/ value[5] = <<>> /\ \A p \in Own(n) : ~Arguments!Gives(p, 5)
    \/ \E p \in Own(n) :
           /\ Arguments!Gives(p, 5) /\ value[5] = Arguments!ValueAt(p)
           /\ \A q \in Own(n) : Arguments!Gives(q, 5) => q <= p
ValuesRead == Given(ofs - 1) /\ \A k \in {2, 3, 4} : value[k] = <<>>

PlainTo(n) == Arguments!InOrder(Arguments!Unnamed, n)
PlainRead ==
    LET plain == PlainTo(ofs - 1) IN
    /\ numConsumed = IF plain = <<>> THEN 0 ELSE 1
    /\ value[1] = IF plain = <<>> THEN <<>> ELSE argv[plain[1]]
    /\ extra = [n \in 1..(Len(plain) - numConsumed) |-> argv[plain[numConsumed + n]]]

LiveRead == live = {"indices"} \cup IF extra = <<>> THEN {} ELSE {"extra"}

ReadInv == state = "parsing" => ReadSoFar /\ FlagsRead /\ ValuesRead /\ PlainRead /\ LiveRead
----------------------------------------------------------------------------
(* What the command line says does not change while it is read.            *)
LEMMA SameReading ==
  ASSUME argv' = argv
  PROVE  /\ Arguments!Places' = Arguments!Places
         /\ Arguments!Values' = Arguments!Values
         /\ Arguments!Failing' = Arguments!Failing
         /\ Arguments!Seen' = Arguments!Seen
         /\ Arguments!Accepted' = Arguments!Accepted
         /\ Arguments!Unnamed' = Arguments!Unnamed
         /\ Arguments!Plain' = Arguments!Plain
         /\ Arguments!ExpectedError' = Arguments!ExpectedError
         /\ \A k : Arguments!ExpectedValue(k)' = Arguments!ExpectedValue(k)
         /\ \A p, k : Arguments!Gives(p, k)' <=> Arguments!Gives(p, k)
         /\ \A p : Arguments!ValueAt(p)' = Arguments!ValueAt(p)
<1>1. Arguments!Places' = Arguments!Places
  BY DEF Arguments!Places
<1>2. Arguments!Values' = Arguments!Values
  BY <1>1 DEF Arguments!Values
<1>3. Arguments!Failing' = Arguments!Failing
  BY <1>1, <1>2 DEF Arguments!Failing
<1>4. Arguments!Seen' = Arguments!Seen
  BY <1>1, <1>2, <1>3 DEF Arguments!Seen
<1>5. Arguments!Accepted' = Arguments!Accepted
  BY <1>3, <1>4 DEF Arguments!Accepted
<1>6. Arguments!Unnamed' = Arguments!Unnamed
  BY <1>5 DEF Arguments!Unnamed
<1>7. Arguments!Plain' = Arguments!Plain
  BY <1>6 DEF Arguments!Plain
<1>8. Arguments!ExpectedError' = Arguments!ExpectedError
  BY <1>3, <1>7 DEF Arguments!ExpectedError
<1>9. \A p, k : Arguments!Gives(p, k)' <=> Arguments!Gives(p, k)
  BY DEF Arguments!Gives
<1>10. \A p : Arguments!ValueAt(p)' = Arguments!ValueAt(p)
  BY DEF Arguments!ValueAt
<1>11. \A k : Arguments!ExpectedValue(k)' = Arguments!ExpectedValue(k)
  BY <1>5, <1>7, <1>9, <1>10 DEF Arguments!ExpectedValue
<1> QED BY <1>1, <1>2, <1>3, <1>4, <1>5, <1>6, <1>7, <1>8, <1>9, <1>10, <1>11

(* An argument that does not fail and wants nothing is read alone.         *)
LEMMA ReadOne ==
  ASSUME Arguments!TypeOK, ReadSoFar, ofs <= Len(argv),
         ~Arguments!Wrong(argv[ofs]), ~Arguments!Wants(argv[ofs])
  PROVE  /\ Own(ofs) = Own(ofs - 1) \cup {ofs}
         /\ ofs + 1 \notin Arguments!Values
         /\ \A p \in 1..ofs : p \notin Arguments!Failing
<1>1. Len(argv) \in Nat /\ ofs \in 1..Len(argv) /\ Arguments!Places = 1..Len(argv)
  BY TypedArguments, TextFacts DEF Arguments!Places
<1>2. Arguments!Values \subseteq 1..Len(argv)
  BY <1>1 DEF Arguments!Values
<1>3. ofs + 1 \notin Arguments!Values
  <2>1. CASE ofs + 1 \in Arguments!Places
    <3>1. (ofs + 1) - 1 = ofs
      BY <1>1
    <3> QED BY <1>1, <2>1, <3>1, ValuesStep
  <2>2. CASE ofs + 1 \notin Arguments!Places
    BY <1>1, <1>2, <2>2
  <2> QED BY <2>1, <2>2
<1>4. ofs \notin Arguments!Failing
  BY DEF Arguments!Failing
<1>5. \A p \in 1..ofs : p = ofs \/ p \in 1..(ofs - 1)
  BY <1>1
<1>6. ofs \in 1..ofs /\ \A p \in 1..(ofs - 1) : p \in 1..ofs
  BY <1>1
<1>7. Own(ofs) = Own(ofs - 1) \cup {ofs}
  BY <1>5, <1>6 DEF Own, ReadSoFar
<1> QED BY <1>3, <1>4, <1>5, <1>7 DEF ReadSoFar

(* One that wants the next argument is read with it.                       *)
LEMMA ReadTwo ==
  ASSUME Arguments!TypeOK, ReadSoFar, ofs < Len(argv),
         ~Arguments!Wrong(argv[ofs]), Arguments!Wants(argv[ofs])
  PROVE  /\ Own(ofs + 1) = Own(ofs - 1) \cup {ofs}
         /\ ofs + 1 \in Arguments!Values
         /\ ofs + 2 \notin Arguments!Values
         /\ \A p \in 1..(ofs + 1) : p \notin Arguments!Failing
<1>1. Len(argv) \in Nat /\ ofs \in 1..Len(argv) /\ Arguments!Places = 1..Len(argv)
      /\ ofs + 1 \in 1..Len(argv) /\ ofs # Len(argv)
  BY TypedArguments, TextFacts DEF Arguments!Places
<1>2. Arguments!Values \subseteq 1..Len(argv)
  BY <1>1 DEF Arguments!Values
<1>3. ofs + 1 \in Arguments!Values
  <2>1. (ofs + 1) - 1 = ofs
    BY <1>1
  <2> QED BY <1>1, <2>1, ValuesStep DEF ReadSoFar
<1>4. ofs + 2 \notin Arguments!Values
  <2>1. CASE ofs + 2 \in Arguments!Places
    <3>1. (ofs + 2) - 1 = ofs + 1
      BY <1>1
    <3> QED BY <1>1, <1>3, <2>1, <3>1, ValuesStep
  <2>2. CASE ofs + 2 \notin Arguments!Places
    BY <1>1, <1>2, <2>2
  <2> QED BY <2>1, <2>2
<1>5. ofs \notin Arguments!Failing /\ ofs + 1 \notin Arguments!Failing
  BY <1>1, <1>3 DEF Arguments!Failing
<1>6. \A p \in 1..(ofs + 1) : p = ofs \/ p = ofs + 1 \/ p \in 1..(ofs - 1)
  BY <1>1
<1>7. ofs \in 1..(ofs + 1) /\ \A p \in 1..(ofs - 1) : p \in 1..(ofs + 1)
  BY <1>1
<1>8. Own(ofs + 1) = Own(ofs - 1) \cup {ofs}
  BY <1>3, <1>6, <1>7 DEF Own, ReadSoFar
<1> QED BY <1>3, <1>4, <1>5, <1>6, <1>8 DEF ReadSoFar

LEMMA OnlyOutput ==
  ASSUME NEW found \in SUBSET Options
  PROVE  /\ Arguments!Are(found, "OPT") => Arguments!First(found) = 5
         /\ Arguments!Are(found, "FLAG") => ~Arguments!Are(found, "OPT") /\ ~Arguments!Are(found, "POS")
         /\ Arguments!Are(found, "OPT") => ~Arguments!Are(found, "FLAG") /\ ~Arguments!Are(found, "POS")
         /\ Arguments!Are(found, "POS") => ~Arguments!Are(found, "FLAG") /\ ~Arguments!Are(found, "OPT")
         /\ \/ found = {} \/ Arguments!Are(found, "FLAG") \/ Arguments!Are(found, "OPT")
            \/ Arguments!Are(found, "POS")
<1>1. found # {} => Arguments!First(found) \in Options
  BY OptionFacts
<1>2. \A k \in Options : k = 1 \/ k = 2 \/ k = 3 \/ k = 4 \/ k = 5
  BY DEF Options
<1> QED BY <1>1, <1>2, OptionFacts

(* An argument with options has been read: the parser goes on behind it,   *)
(* or behind its value.                                                    *)
LEMMA OptionsRead ==
  ASSUME Arguments!TypeOK, ReadInv, state = "parsing", state' = state, argv' = argv, i' = 0,
         UNCHANGED <<error, live, extra, numConsumed>>,
         ofs <= Len(argv), Arguments!IsDashed(argv[ofs]), ~Arguments!Wrong(argv[ofs]),
         \/ ofs' = ofs + 1 /\ ~Arguments!Wants(argv[ofs])
         \/ ofs' = ofs + 2 /\ Arguments!Wants(argv[ofs]) /\ ofs < Len(argv),
         \A k \in Options :
            flagValue'[k] <=> \/ \E p \in Own(ofs - 1) : Arguments!TurnsOn(argv[p], k)
                              \/ Arguments!TurnsOn(argv[ofs], k),
         \/ value' = value /\ ~Arguments!Gives(ofs, 5)
         \/ value' = [value EXCEPT ![5] = Arguments!ValueAt(ofs)] /\ Arguments!Gives(ofs, 5)
  PROVE  ReadInv'
<1>1. ReadSoFar /\ FlagsRead /\ ValuesRead /\ PlainRead /\ LiveRead
  BY DEF ReadInv
<1>2. Len(argv) \in Nat /\ ofs \in 1..Len(argv) /\ value \in [Options -> Text]
  BY TypedArguments, TextFacts
<1>3. /\ Own(ofs' - 1) = Own(ofs - 1) \cup {ofs}
      /\ ofs' \notin Arguments!Values
      /\ \A p \in 1..(ofs' - 1) : p \notin Arguments!Failing
  <2>1. CASE ofs' = ofs + 1 /\ ~Arguments!Wants(argv[ofs])
    <3>1. ofs' - 1 = ofs
      BY <1>2, <2>1
    <3> QED BY <1>1, <2>1, <3>1, ReadOne
  <2>2. CASE ofs' = ofs + 2 /\ Arguments!Wants(argv[ofs]) /\ ofs < Len(argv)
    <3>1. ofs' - 1 = ofs + 1
      BY <1>2, <2>2
    <3> QED BY <1>1, <2>2, <3>1, ReadTwo
  <2> QED BY <2>1, <2>2
<1>4. PlainTo(ofs' - 1) = PlainTo(ofs - 1)
  <2>1. ofs' - 1 \in Nat /\ ofs - 1 \in Nat /\ ofs - 1 <= ofs' - 1
        /\ \A m \in ((ofs - 1) + 1)..(ofs' - 1) : m = ofs \/ (m = ofs + 1 /\ ofs' = ofs + 2)
    BY <1>2
  <2>2. ofs \notin Arguments!Unnamed
    BY DEF Arguments!Unnamed
  <2>3. ofs' = ofs + 2 => ofs + 1 \notin Arguments!Unnamed
    <3>1. ofs' = ofs + 2 => ofs + 1 \in Arguments!Values
      <4>1. ~(ofs' = ofs + 2 /\ ofs' = ofs + 1)
        BY <1>2
      <4> QED BY <1>1, <4>1, ReadTwo
    <3> QED BY <3>1 DEF Arguments!Unnamed, Arguments!Accepted, Arguments!Seen
  <2>4. \A m \in ((ofs - 1) + 1)..(ofs' - 1) : m \notin Arguments!Unnamed
    BY <2>1, <2>2, <2>3
  <2> QED BY <2>1, <2>4, OrderStays DEF PlainTo
<1>5. ReadSoFar'
  BY <1>1, <1>3, SameReading DEF ReadSoFar
<1>6. \A n : Own(n)' = Own(n)
  BY SameReading DEF Own
<1>7. Own(ofs - 1)' = Own(ofs - 1) \cup {ofs}
  BY <1>3, SameReading DEF Own
<1>8. FlagsRead'
  BY <1>7 DEF FlagsRead
<1>9. ValuesRead'
  <2>1. value'[2] = value[2] /\ value'[3] = value[3] /\ value'[4] = value[4]
    BY <1>2 DEF Options
  <2>2. \A p \in Own(ofs - 1) : p <= ofs /\ p # ofs
    BY <1>2 DEF Own
  <2>3. CASE value' = value /\ ~Arguments!Gives(ofs, 5)
    <3>1. Given(ofs - 1)'
      BY <1>1, <1>7, <2>3, SameReading DEF Given, ValuesRead
    <3> QED BY <1>1, <2>1, <3>1 DEF ValuesRead
  <2>4. CASE value' = [value EXCEPT ![5] = Arguments!ValueAt(ofs)] /\ Arguments!Gives(ofs, 5)
    <3>1. value'[5] = Arguments!ValueAt(ofs)
      BY <1>2, <2>4 DEF Options
    <3>2. ofs <= ofs
      BY <1>2
    <3>3. Given(ofs - 1)'
      BY <1>7, <2>2, <2>4, <3>1, <3>2, SameReading DEF Given
    <3> QED BY <1>1, <2>1, <3>3 DEF ValuesRead
  <2> QED BY <2>3, <2>4
<1>10. PlainRead' /\ LiveRead'
  <2>1. PlainTo(ofs - 1)' = PlainTo(ofs - 1)
    BY <1>4, SameReading DEF PlainTo
  <2>2. value'[1] = value[1]
    BY <1>2 DEF Options
  <2> QED BY <1>1, <2>1, <2>2 DEF PlainRead, LiveRead
<1> QED BY <1>5, <1>8, <1>9, <1>10 DEF ReadInv

(* When the arguments accepted are those that have been read, the variables*)
(* hold what the whole command line says.                                  *)
LEMMA Reads ==
  ASSUME Arguments!TypeOK, state = "parsing", ReadInv, argv' = argv,
         UNCHANGED <<flagValue, value, numConsumed, extra>>,
         error' = Arguments!ExpectedError, Arguments!Accepted = Own(ofs - 1),
         \A k \in Options :
            flagValue[k] <=> \E p \in Arguments!Seen : Arguments!TurnsOn(argv[p], k)
  PROVE  Arguments!ReadsCommandLine'
<1>1. ReadSoFar /\ FlagsRead /\ ValuesRead /\ PlainRead /\ LiveRead
  BY DEF ReadInv
<1>2. Len(argv) \in Nat /\ ofs \in 1..(Len(argv) + 1)
  BY TypedArguments, TextFacts
<1>3. Arguments!Plain = PlainTo(ofs - 1)
  <2>1. \A m \in ((ofs - 1) + 1)..Len(argv) : m \notin Arguments!Unnamed
    BY <1>2 DEF Arguments!Unnamed, Own
  <2>2. ofs - 1 \in Nat /\ ofs - 1 <= Len(argv)
    BY <1>2
  <2> QED BY <1>2, <2>1, <2>2, OrderStays DEF Arguments!Plain, PlainTo
<1>4. Arguments!Plain \in Seq(Nat)
  <2>1. Arguments!Unnamed \cap 1..Len(argv) \subseteq Nat
    BY <1>2
  <2> QED BY <1>2, <2>1, OrderTyped DEF Arguments!Plain
<1>5. Arguments!Plain = <<>> <=> ~(1 <= Len(Arguments!Plain))
  <2>1. ASSUME NEW s \in Seq(Nat) PROVE s = <<>> <=> ~(1 <= Len(s))
    OBVIOUS
  <2> QED BY <1>4, <2>1
<1>6. value[1] = Arguments!ExpectedValue(1)
  <2>1. AcceptedOptions[1].kind = "POS"
    BY OptionFacts DEF KindOf
  <2>2. CASE Arguments!Plain = <<>>
    <3>1. value[1] = <<>>
      BY <1>1, <1>3, <2>2 DEF PlainRead
    <3> QED BY <1>5, <2>1, <2>2, <3>1, OnePositional DEF Arguments!ExpectedValue
  <2>3. CASE Arguments!Plain # <<>>
    <3>1. value[1] = argv[Arguments!Plain[1]]
      BY <1>1, <1>3, <2>3 DEF PlainRead
    <3> QED BY <1>5, <2>1, <2>3, <3>1, OnePositional DEF Arguments!ExpectedValue
  <2> QED BY <2>2, <2>3
<1>7. \A k \in {2, 3, 4} : value[k] = Arguments!ExpectedValue(k)
  <2>1. \A k \in {2, 3, 4} : AcceptedOptions[k].kind = "FLAG"
    BY OptionFacts DEF KindOf
  <2>2. \A k \in {2, 3, 4} : Arguments!ExpectedValue(k) = <<>>
    BY <2>1 DEF Arguments!ExpectedValue
  <2> QED BY <1>1, <2>2 DEF ValuesRead
<1>8. value[5] = Arguments!ExpectedValue(5)
  <2> DEFINE givers == {p \in Arguments!Accepted : Arguments!Gives(p, 5)}
             last == {p \in givers : \A q \in givers : q <= p}
  <2>1. AcceptedOptions[5].kind = "OPT"
    BY OptionFacts DEF KindOf
  <2>2. Arguments!ExpectedValue(5) =
          IF givers # {} THEN Arguments!TheOnly({Arguments!ValueAt(p) : p \in last}) ELSE <<>>
    BY <2>1 DEF Arguments!ExpectedValue
  <2>3. CASE givers = {}
    BY <1>1, <2>2, <2>3 DEF ValuesRead, Given
  <2>4. CASE givers # {}
    <3>1. PICK p \in givers : value[5] = Arguments!ValueAt(p) /\ \A q \in givers : q <= p
      BY <1>1, <2>4 DEF ValuesRead, Given
    <3>2. \A q \in givers : q \in Nat
      BY <1>2 DEF Own
    <3>3. last = {p}
      BY <3>1, <3>2
    <3>4. {Arguments!ValueAt(q) : q \in last} = {Arguments!ValueAt(p)}
      BY <3>3
    <3>5. \A y : Arguments!TheOnly({y}) = y
      BY DEF Arguments!TheOnly
    <3> QED BY <2>2, <2>4, <3>1, <3>4, <3>5
  <2> QED BY <2>3, <2>4
<1>9. \A k \in Options : value[k] = Arguments!ExpectedValue(k)
  <2>1. \A k \in Options : k = 1 \/ k \in {2, 3, 4} \/ k = 5
    BY DEF Options
  <2> QED BY <1>6, <1>7, <1>8, <2>1
<1>10. extra = [n \in 1..(Len(Arguments!Plain) - numConsumed)
                   |-> argv[Arguments!Plain[numConsumed + n]]]
  BY <1>1, <1>3 DEF PlainRead
<1>11. 1..Len(AcceptedOptions) = Options
  BY OptionFacts DEF Options
<1> DEFINE Says == /\ error' = Arguments!ExpectedError'
                   /\ \A k \in 1..Len(AcceptedOptions) :
                        /\ flagValue'[k] <=> \E p \in Arguments!Seen' : Arguments!TurnsOn(argv'[p], k)
                        /\ value'[k] = Arguments!ExpectedValue(k)'
                   /\ extra' = [n \in 1..(Len(Arguments!Plain') - numConsumed')
                                  |-> argv'[Arguments!Plain'[numConsumed' + n]]]
<1>12. Says
  BY <1>9, <1>10, <1>11, SameReading
<1> QED BY <1>12 DEF Arguments!ReadsCommandLine

(* One that fails ends the reading.                                        *)
LEMMA FailureRead ==
  ASSUME Arguments!TypeOK, ReadInv, state = "parsing", ofs <= Len(argv),
         \/ Arguments!Wrong(argv[ofs])
         \/ Arguments!Wants(argv[ofs]) /\ ofs = Len(argv),
         Arguments!Fail(Arguments!Complaint(Arguments!Named(argv[ofs]))),
         \A k \in Options :
            flagValue[k] <=> \/ \E p \in Own(ofs - 1) : Arguments!TurnsOn(argv[p], k)
                             \/ Arguments!TurnsOn(argv[ofs], k)
  PROVE  Arguments!ReadsCommandLine' /\ Arguments!LeftAllocated'
<1>1. ReadSoFar /\ FlagsRead /\ ValuesRead /\ PlainRead /\ LiveRead
  BY DEF ReadInv
<1>2. Len(argv) \in Nat /\ ofs \in 1..Len(argv) /\ Arguments!Places = 1..Len(argv)
  BY TypedArguments, TextFacts DEF Arguments!Places
<1>3. ofs \in Arguments!Failing /\ \A q \in Arguments!Failing : ofs <= q
  <2>1. ofs \in Arguments!Failing
    BY <1>1, <1>2 DEF Arguments!Failing, ReadSoFar
  <2>2. ASSUME NEW q \in Arguments!Failing PROVE ofs <= q
    <3>1. q \in 1..Len(argv) /\ q \notin 1..(ofs - 1)
      BY <1>1, <1>2 DEF Arguments!Failing, ReadSoFar
    <3> QED BY <1>2, <3>1
  <2> QED BY <2>1, <2>2
<1>4. Arguments!Failing \subseteq 1..Len(argv)
  BY <1>2 DEF Arguments!Failing
<1>5. Arguments!First(Arguments!Failing) = ofs
  <2>1. Arguments!Failing \in SUBSET Nat
    BY <1>2, <1>4
  <2> QED BY <1>3, <2>1, FirstIs
<1>6. error' = Arguments!ExpectedError
  BY <1>3, <1>5 DEF Arguments!Fail, Arguments!ExpectedError
<1>7. Arguments!Seen = Own(ofs - 1) \cup {ofs}
  <2>1. Arguments!Seen = {p \in (1..Len(argv)) \ Arguments!Values : ofs >= p}
    BY <1>2, <1>3, <1>4 DEF Arguments!Seen
  <2>2. \A p \in 1..Len(argv) : ofs >= p <=> p \in 1..(ofs - 1) \/ p = ofs
    BY <1>2
  <2>3. \A p \in 1..(ofs - 1) : p \in 1..Len(argv)
    BY <1>2
  <2> QED BY <1>1, <1>2, <2>1, <2>2, <2>3 DEF Own, ReadSoFar
<1>8. Arguments!Accepted = Own(ofs - 1)
  <2>1. \A p \in Own(ofs - 1) : p \notin Arguments!Failing
    BY <1>1 DEF Own, ReadSoFar
  <2> QED BY <1>3, <1>7, <2>1 DEF Arguments!Accepted
<1>9. Arguments!ReadsCommandLine'
  BY <1>6, <1>7, <1>8, Reads DEF Arguments!Fail, Arguments!setVars
<1>10. Arguments!LeftAllocated'
  <2>1. /\ error' = Arguments!Complaint(Arguments!Named(argv[ofs]))
        /\ live' = live \cup {"message"} /\ extra' = extra
    BY DEF Arguments!Fail, Arguments!setVars
  <2>2. error' \in Arguments!Complaints \ {"missing positional arguments"} /\ error' # "none"
    BY <2>1 DEF Arguments!Complaint, Arguments!Complaints
  <2>3. Arguments!Positionals # <<>>
    BY OnePositional
  <2> QED BY <1>1, <2>1, <2>2, <2>3 DEF Arguments!LeftAllocated, LiveRead
<1> QED BY <1>9, <1>10

(* So does the end of the command line.                                    *)
LEMMA EndRead ==
  ASSUME Arguments!TypeOK, ReadInv, Arguments!Finish
  PROVE  Arguments!ReadsCommandLine' /\ Arguments!LeftAllocated'
<1>1. ReadSoFar /\ FlagsRead /\ ValuesRead /\ PlainRead /\ LiveRead
  BY DEF ReadInv, Arguments!Finish
<1>2. Len(argv) \in Nat /\ ofs = Len(argv) + 1 /\ ofs - 1 = Len(argv) /\ i = 0
      /\ Arguments!Places = 1..Len(argv) /\ state = "parsing"
  <2>1. Len(argv) \in Nat /\ ofs \in 1..(Len(argv) + 1) /\ ofs > Len(argv)
        /\ (i # 0 => ofs <= Len(argv)) /\ state = "parsing"
    BY TypedArguments, TextFacts DEF Arguments!Finish
  <2> QED BY <2>1 DEF Arguments!Places
<1>3. Arguments!Failing = {}
  BY <1>1, <1>2 DEF Arguments!Failing, ReadSoFar
<1>4. Arguments!Seen = Own(ofs - 1) /\ Arguments!Accepted = Own(ofs - 1)
  BY <1>2, <1>3 DEF Arguments!Seen, Arguments!Accepted, Own
<1>5. Arguments!Plain = PlainTo(ofs - 1) /\ Len(Arguments!Positionals) = 1
  BY <1>2, OnePositional DEF Arguments!Plain, PlainTo
<1>6. Arguments!Plain \in Seq(Nat)
  <2>1. Arguments!Unnamed \cap 1..Len(argv) \subseteq Nat
    BY <1>2
  <2> QED BY <1>2, <2>1, OrderTyped DEF Arguments!Plain
<1>7. Arguments!Plain = <<>> <=> Len(Arguments!Plain) < 1
  <2>1. ASSUME NEW S, NEW s \in Seq(S) PROVE s = <<>> <=> Len(s) < 1
    OBVIOUS
  <2> QED BY <1>6, <2>1
<1>8. numConsumed < Len(Arguments!Positionals) <=> Len(Arguments!Plain) < Len(Arguments!Positionals)
  BY <1>1, <1>5, <1>7 DEF PlainRead
<1>9. error' = Arguments!ExpectedError
  BY <1>1, <1>3, <1>8 DEF Arguments!Finish, Arguments!ExpectedError, ReadSoFar
<1>10. Arguments!ReadsCommandLine'
  BY <1>1, <1>2, <1>4, <1>9, Reads DEF Arguments!Finish, Arguments!setVars, FlagsRead
<1>11. Arguments!LeftAllocated'
  BY <1>1 DEF Arguments!Finish, Arguments!setVars, Arguments!LeftAllocated, LiveRead, ReadSoFar,
     Arguments!Complaints
<1> QED BY <1>10, <1>11

(* A positional argument is the first, or one more.                        *)
LEMMA PositionalRead ==
  ASSUME Arguments!TypeOK, ReadInv, Arguments!Positional
  PROVE  ReadInv'
<1>1. ReadSoFar /\ FlagsRead /\ ValuesRead /\ PlainRead /\ LiveRead /\ i = 0 /\ i' = 0
      /\ state = "parsing" /\ argv' = argv /\ ofs' = ofs + 1 /\ flagValue' = flagValue
      /\ error' = error
  BY DEF ReadInv, Arguments!Positional, Arguments!AtArgument
<1>2. Len(argv) \in Nat /\ ofs \in 1..Len(argv) /\ Arguments!Places = 1..Len(argv)
      /\ value \in [Options -> Text] /\ extra \in Seq(Text) /\ argv[ofs] \in Text
  BY TypedArguments, TextFacts DEF Arguments!Positional, Arguments!AtArgument, Arguments!Places
<1>3. ~Arguments!IsDashed(argv[ofs]) /\ Arguments!Arg = argv[ofs]
  BY DEF Arguments!Positional, Arguments!IsDashed, Arguments!Arg
<1>4. ~Arguments!Wrong(argv[ofs]) /\ ~Arguments!Wants(argv[ofs])
  BY <1>3 DEF Arguments!Wrong, Arguments!Wants
<1>5. /\ Own(ofs) = Own(ofs - 1) \cup {ofs}
      /\ ofs + 1 \notin Arguments!Values
      /\ \A p \in 1..ofs : p \notin Arguments!Failing
  BY <1>1, <1>2, <1>4, ReadOne
<1>6. ofs' - 1 = ofs
  BY <1>1, <1>2
<1>7. Own(ofs - 1)' = Own(ofs - 1) \cup {ofs}
  BY <1>1, <1>5, <1>6, SameReading DEF Own
<1>8. ReadSoFar'
  BY <1>1, <1>5, <1>6, SameReading DEF ReadSoFar
<1>9. \A k : ~Arguments!TurnsOn(argv[ofs], k) /\ ~Arguments!Gives(ofs, k)
  BY <1>3 DEF Arguments!TurnsOn, Arguments!Gives, Arguments!IsDashed
<1>10. FlagsRead'
  BY <1>1, <1>7, <1>9 DEF FlagsRead
<1>11. value' = value \/ value' = [value EXCEPT ![1] = argv[ofs]]
  <2>1. Arguments!Positionals[1] = 1 /\ Len(Arguments!Positionals) = 1
    BY OnePositional
  <2>2. numConsumed \in 0..1
    BY TypedArguments
  <2>3. numConsumed < 1 => numConsumed + 1 = 1
    BY <2>2
  <2> QED BY <1>3, <2>1, <2>3 DEF Arguments!Positional
<1>12. \A k \in {2, 3, 4, 5} : value'[k] = value[k]
  BY <1>2, <1>11 DEF Options
<1>13. ValuesRead'
  <2>1. Given(ofs - 1)'
    BY <1>1, <1>7, <1>9, <1>12, SameReading DEF Given, ValuesRead
  <2> QED BY <1>1, <1>12, <2>1 DEF ValuesRead
<1>14. ofs \in Arguments!Unnamed
  <2>1. ofs \in Arguments!Seen
    <3>1. ASSUME NEW q \in Arguments!Failing PROVE q >= ofs
      <4>1. q \in 1..Len(argv) /\ q \notin 1..ofs
        BY <1>2, <1>5 DEF Arguments!Failing
      <4> QED BY <1>2, <4>1
    <3> QED BY <1>1, <1>2, <3>1 DEF Arguments!Seen, ReadSoFar
  <2>2. ofs \notin Arguments!Failing
    BY <1>2, <1>5
  <2> QED BY <1>3, <2>1, <2>2 DEF Arguments!Unnamed, Arguments!Accepted
<1> DEFINE plain == PlainTo(ofs - 1)
<1>15. PlainTo(ofs - 1)' = Append(plain, ofs)
  <2>1. ofs # 0 /\ ofs \in Nat
    BY <1>2
  <2>2. PlainTo(ofs) = Append(plain, ofs)
    BY <1>14, <2>1, OrderSteps DEF PlainTo
  <2> QED BY <1>1, <1>6, <2>2, SameReading DEF PlainTo
<1>16. plain \in Seq(Nat)
  <2>1. ofs - 1 \in Nat /\ Arguments!Unnamed \cap 1..(ofs - 1) \subseteq Nat
    BY <1>2
  <2> QED BY <2>1, OrderTyped DEF PlainTo
<1> HIDE DEF plain
<1> DEFINE more == Append(plain, ofs)
<1>17. /\ Len(plain) \in Nat /\ Len(more) = Len(plain) + 1 /\ more # <<>>
       /\ \A k \in 1..Len(plain) : more[k] = plain[k]
       /\ more[Len(plain) + 1] = ofs /\ (plain = <<>> <=> Len(plain) = 0)
  <2>1. ASSUME NEW s \in Seq(Nat), NEW e \in Nat
        PROVE  /\ Len(s) \in Nat /\ Len(Append(s, e)) = Len(s) + 1 /\ Append(s, e) # <<>>
               /\ \A k \in 1..Len(s) : Append(s, e)[k] = s[k]
               /\ Append(s, e)[Len(s) + 1] = e /\ (s = <<>> <=> Len(s) = 0)
    OBVIOUS
  <2> QED BY <1>2, <1>16, <2>1
<1> HIDE DEF more
<1>18. /\ numConsumed = IF plain = <<>> THEN 0 ELSE 1
       /\ value[1] = IF plain = <<>> THEN <<>> ELSE argv[plain[1]]
       /\ extra = [n \in 1..(Len(plain) - numConsumed) |-> argv[plain[numConsumed + n]]]
  BY <1>1 DEF PlainRead, plain
<1>19. /\ numConsumed' = 1
       /\ value'[1] = argv[more[1]]
       /\ extra' = [n \in 1..(Len(more) - 1) |-> argv[more[1 + n]]]
       /\ live' = {"indices"} \cup IF extra' = <<>> THEN {} ELSE {"extra"}
  <2>1. Arguments!Positionals[1] = 1 /\ Len(Arguments!Positionals) = 1
    BY OnePositional
  <2>2. CASE plain = <<>>
    <3>1. numConsumed = 0 /\ extra = [n \in 1..(0 - 0) |-> argv[plain[0 + n]]]
      BY <1>17, <1>18, <2>2
    <3>2. numConsumed' = 1 /\ value' = [value EXCEPT ![1] = argv[ofs]] /\ extra' = extra
          /\ live' = live
      <4>1. 0 + 1 = 1 /\ 0 < 1
        OBVIOUS
      <4> QED BY <1>3, <2>1, <3>1, <4>1 DEF Arguments!Positional
    <3>3. value'[1] = argv[ofs] /\ more[1] = ofs /\ Len(more) = 1
      BY <1>2, <1>17, <2>2, <3>2 DEF Options
    <3>4. 1..(0 - 0) = {} /\ 1..(1 - 1) = {}
      OBVIOUS
    <3>5. extra' = [n \in 1..(Len(more) - 1) |-> argv[more[1 + n]]]
      BY <3>1, <3>2, <3>3, <3>4
    <3> QED BY <1>1, <3>2, <3>3, <3>5 DEF LiveRead
  <2>3. CASE plain # <<>>
    <3>1. numConsumed = 1 /\ Len(plain) >= 1
      BY <1>17, <1>18, <2>3
    <3>2. numConsumed' = 1 /\ value' = value /\ extra' = Append(extra, argv[ofs])
          /\ live' = live \cup {"extra"}
      BY <1>3, <2>1, <3>1 DEF Arguments!Positional
    <3>3. value'[1] = argv[more[1]]
      <4>1. 1 \in 1..Len(plain)
        BY <1>17, <3>1
      <4> QED BY <1>17, <1>18, <2>3, <3>2, <4>1
    <3>4. extra' = [n \in 1..(Len(more) - 1) |-> argv[more[1 + n]]]
      <4> DEFINE old == [n \in 1..(Len(plain) - 1) |-> argv[plain[1 + n]]]
                 new == [n \in 1..(Len(more) - 1) |-> argv[more[1 + n]]]
      <4>1. extra = old /\ extra \in Seq(Text) /\ Len(plain) - 1 \in Nat
        BY <1>2, <1>17, <1>18, <3>1
      <4>2. Len(extra) = Len(plain) - 1
        <5>1. ASSUME NEW s \in Seq(Text), NEW m \in Nat, DOMAIN s = 1..m PROVE Len(s) = m
          BY <5>1
        <5>2. DOMAIN extra = 1..(Len(plain) - 1)
          BY <4>1
        <5> QED BY <4>1, <5>1, <5>2
      <4>3. /\ Append(extra, argv[ofs]) \in Seq(Text)
            /\ DOMAIN Append(extra, argv[ofs]) = 1..(Len(extra) + 1)
            /\ \A n \in 1..Len(extra) : Append(extra, argv[ofs])[n] = extra[n]
            /\ Append(extra, argv[ofs])[Len(extra) + 1] = argv[ofs]
        <5>1. ASSUME NEW s \in Seq(Text), NEW e \in Text
              PROVE  /\ Append(s, e) \in Seq(Text) /\ DOMAIN Append(s, e) = 1..(Len(s) + 1)
                     /\ \A n \in 1..Len(s) : Append(s, e)[n] = s[n]
                     /\ Append(s, e)[Len(s) + 1] = e
          BY AppendProperties
        <5> QED BY <1>2, <4>1, <5>1
      <4>4. Len(more) - 1 = Len(plain) /\ Len(extra) + 1 = Len(plain)
        BY <1>17, <4>2
      <4>5. ASSUME NEW n \in 1..Len(plain) PROVE Append(extra, argv[ofs])[n] = argv[more[1 + n]]
        <5>1. CASE n = Len(plain)
          <6>1. 1 + n = Len(plain) + 1
            BY <1>17, <5>1
          <6> QED BY <1>17, <4>3, <4>4, <5>1, <6>1
        <5>2. CASE n # Len(plain)
          <6>1. n \in 1..Len(extra) /\ n \in 1..(Len(plain) - 1) /\ 1 + n \in 1..Len(plain)
            BY <1>17, <4>2, <5>2
          <6>2. extra[n] = argv[plain[1 + n]]
            BY <4>1, <6>1
          <6> QED BY <1>17, <4>3, <6>1, <6>2
        <5> QED BY <5>1, <5>2
      <4>6. Append(extra, argv[ofs]) = [n \in 1..Len(plain) |-> Append(extra, argv[ofs])[n]]
        <5>1. ASSUME NEW S, NEW s \in Seq(S) PROVE s = [n \in DOMAIN s |-> s[n]]
          OBVIOUS
        <5> QED BY <4>3, <4>4, <5>1
      <4> QED BY <3>2, <4>4, <4>5, <4>6
    <3>5. extra' # <<>>
      <4>1. ASSUME NEW S, NEW s \in Seq(S), NEW e \in S PROVE Append(s, e) # <<>>
        <5>1. Len(Append(s, e)) = Len(s) + 1 /\ Len(s) \in Nat /\ Len(<<>>) = 0
          BY <4>1, AppendProperties
        <5> QED BY <5>1
      <4> QED BY <1>2, <3>2, <4>1
    <3> QED BY <1>1, <3>2, <3>3, <3>4, <3>5 DEF LiveRead
  <2> QED BY <2>2, <2>3
<1>20. PlainRead' /\ LiveRead'
  BY <1>1, <1>15, <1>17, <1>19 DEF PlainRead, LiveRead, more
<1> QED BY <1>8, <1>10, <1>13, <1>20 DEF ReadInv

(* What is known at an argument of each kind.                              *)
LEMMA AtArgumentFacts ==
  ASSUME Arguments!TypeOK, ReadInv, state = "parsing", ofs <= Len(argv)
  PROVE  /\ ofs \in 1..Len(argv) /\ argv[ofs] \in Text /\ Len(argv[ofs]) \in Nat
         /\ Arguments!Arg = argv[ofs] /\ Len(argv) \in Nat
         /\ Arguments!Long \in SUBSET Options /\ Arguments!Short \in SUBSET Options
         /\ flagValue \in [Options -> BOOLEAN] /\ value \in [Options -> Text]
         /\ ReadSoFar /\ FlagsRead /\ ValuesRead /\ PlainRead /\ LiveRead
<1>1. ofs \in 1..Len(argv) /\ argv[ofs] \in Text /\ Len(argv[ofs]) \in Nat /\ Len(argv) \in Nat
  BY TypedArguments, TextFacts
<1>2. Arguments!Long \in SUBSET Options /\ Arguments!Short \in SUBSET Options
  BY OptionFacts DEF Arguments!Long, Arguments!Short
<1> QED BY <1>1, <1>2, TypedArguments DEF ReadInv, Arguments!Arg

LEMMA AtLongFacts ==
  ASSUME Arguments!TypeOK, ReadInv, Arguments!AtLong
  PROVE  /\ Arguments!IsDashed(argv[ofs]) /\ Arguments!Named(argv[ofs]) = Arguments!Long
         /\ state = "parsing" /\ i = 0 /\ ofs <= Len(argv)
         /\ Arguments!Bare(argv[ofs]) <=> Arguments!Equals(argv[ofs]) = {}
         /\ \A k : Arguments!TurnsOn(argv[ofs], k) <=>
                Arguments!Are(Arguments!Long, "FLAG") /\ Arguments!First(Arguments!Long) = k
         /\ \A k \in Options : flagValue[k] <=> \E p \in Own(ofs - 1) : Arguments!TurnsOn(argv[p], k)
<1>1. /\ state = "parsing" /\ i = 0 /\ ofs <= Len(argv) /\ Arguments!IsLong(argv[ofs])
      /\ ~Arguments!IsShort(argv[ofs])
  BY DEF Arguments!AtLong, Arguments!AtArgument, Arguments!Arg, Arguments!IsShort
<1>2. Arguments!Named(argv[ofs]) = Arguments!Long
  BY <1>1 DEF Arguments!Named, Arguments!Long, Arguments!Arg
<1>3. FlagsRead
  BY <1>1 DEF ReadInv
<1> QED BY <1>1, <1>2, <1>3 DEF Arguments!IsDashed, Arguments!Bare, Arguments!TurnsOn, FlagsRead

LEMMA InClusterFacts ==
  ASSUME Arguments!TypeOK, ReadInv, state = "parsing", i # 0
  PROVE  /\ ofs <= Len(argv) /\ i \in 2..(Len(argv[ofs]) + 1)
         /\ Arguments!IsShort(argv[ofs]) /\ ~Arguments!IsLong(argv[ofs]) /\ argv[ofs] # <<>>
         /\ argv[ofs] \in Text /\ Arguments!IsDashed(argv[ofs])
         /\ Arguments!Stop(argv[ofs]) = i =>
               /\ \A k : Arguments!TurnsOn(argv[ofs], k) <=> \E j \in 2..(i - 1) : Letter(j, k)
               /\ \A k \in Options :
                    flagValue[k] <=> \/ \E p \in Own(ofs - 1) : Arguments!TurnsOn(argv[p], k)
                                     \/ Arguments!TurnsOn(argv[ofs], k)
         /\ (i <= Len(argv[ofs]) => ~FlagAt(argv[ofs], i)) => Arguments!Stop(argv[ofs]) = i
<1>1. ofs <= Len(argv) /\ i \in 2..(Len(argv[ofs]) + 1)
  BY TypedArguments
<1>2. /\ Arguments!IsShort(argv[ofs]) /\ ~Arguments!IsLong(argv[ofs]) /\ argv[ofs] # <<>>
      /\ Arguments!IsDashed(argv[ofs]) /\ \A j \in 2..(i - 1) : FlagAt(argv[ofs], j)
  BY DEF ReadInv, ReadSoFar, Arguments!IsShort, Arguments!IsDashed
<1>3. argv[ofs] \in Text /\ FlagsRead
  BY <1>1, AtArgumentFacts
<1>4. (i <= Len(argv[ofs]) => ~FlagAt(argv[ofs], i)) => Arguments!Stop(argv[ofs]) = i
  BY <1>1, <1>2, <1>3, StopIs
<1>5. ASSUME Arguments!Stop(argv[ofs]) = i
      PROVE  \A k : Arguments!TurnsOn(argv[ofs], k) <=> \E j \in 2..(i - 1) : Letter(j, k)
  BY <1>2, <1>5 DEF Arguments!TurnsOn, Letter
<1> QED BY <1>1, <1>2, <1>3, <1>4, <1>5 DEF FlagsRead

LEMMA AtShortFacts ==
  ASSUME Arguments!TypeOK, ReadInv, Arguments!AtShort, ~Arguments!Are(Arguments!Short, "FLAG")
  PROVE  /\ Arguments!Stop(argv[ofs]) = i /\ Arguments!Named(argv[ofs]) = Arguments!Short
         /\ Arguments!Bare(argv[ofs]) <=> i = Len(argv[ofs])
<1>1. state = "parsing" /\ i # 0 /\ i <= Len(argv[ofs]) /\ Arguments!Arg = argv[ofs]
  BY DEF Arguments!AtShort, Arguments!Arg
<1>2. ~FlagAt(argv[ofs], i)
  BY <1>1 DEF FlagAt, Arguments!Short
<1>3. Arguments!Stop(argv[ofs]) = i /\ Arguments!IsShort(argv[ofs]) /\ ~Arguments!IsLong(argv[ofs])
  BY <1>1, <1>2, InClusterFacts
<1> QED BY <1>1, <1>3 DEF Arguments!Named, Arguments!Bare, Arguments!Short
----------------------------------------------------------------------------
(* Each step of the argument parser reads what it should.                  *)
LEMMA StepReads ==
  ASSUME Arguments!TypeOK, ReadInv, Arguments!Parse
  PROVE  ReadInv' /\ (state' = "done" => Arguments!ReadsCommandLine' /\ Arguments!LeftAllocated')
<1> USE DEF Arguments!GoOn, Arguments!setVars
<1>0. state = "parsing" /\ (ReadInv' /\ state' = "parsing" => (state' # "done"))
  BY DEF Arguments!Parse, Arguments!ReadLong, Arguments!ReadShort, Arguments!LongFlag,
     Arguments!LongJoined, Arguments!LongNext, Arguments!LongFails, Arguments!StartShort,
     Arguments!ShortFlag, Arguments!ShortJoined, Arguments!ShortNext, Arguments!ShortFails,
     Arguments!EndShort, Arguments!Positional, Arguments!Finish, Arguments!AtLong,
     Arguments!AtShort, Arguments!AtArgument
<1>1. CASE Arguments!LongFlag
  <2>1. /\ Arguments!AtLong /\ Arguments!Are(Arguments!Long, "FLAG")
        /\ flagValue' = [flagValue EXCEPT ![Arguments!First(Arguments!Long)] = TRUE]
        /\ UNCHANGED <<value, numConsumed, extra, argv, error, live, state>>
        /\ ofs' = ofs + 1 /\ i' = 0
    BY <1>1 DEF Arguments!LongFlag, Arguments!SetFlag
  <2>2. ofs <= Len(argv) /\ Arguments!Long \in SUBSET Options /\ flagValue \in [Options -> BOOLEAN]
    BY <1>0, <2>1, AtLongFacts, AtArgumentFacts
  <2>3. ~Arguments!Are(Arguments!Long, "OPT") /\ ~Arguments!Are(Arguments!Long, "POS")
        /\ Arguments!Long # {} /\ Arguments!First(Arguments!Long) \in Options
    BY <2>1, <2>2, OnlyOutput, OptionFacts
  <2>4. ~Arguments!Wrong(argv[ofs]) /\ ~Arguments!Wants(argv[ofs]) /\ ~Arguments!Gives(ofs, 5)
    BY <2>1, <2>3, AtLongFacts DEF Arguments!Wrong, Arguments!Wants, Arguments!Gives
  <2>5. \A k \in Options :
            flagValue'[k] <=> \/ \E p \in Own(ofs - 1) : Arguments!TurnsOn(argv[p], k)
                              \/ Arguments!TurnsOn(argv[ofs], k)
    <3>1. ASSUME NEW k \in Options
          PROVE  flagValue'[k] = IF k = Arguments!First(Arguments!Long) THEN TRUE ELSE flagValue[k]
      BY <2>1, <2>2, Zenon
    <3> QED BY <2>1, <3>1, AtLongFacts
  <2> QED BY <1>0, <2>1, <2>2, <2>4, <2>5, AtLongFacts, OptionsRead
<1>2. CASE Arguments!LongJoined \/ Arguments!LongNext
  <2>1. /\ Arguments!AtLong /\ Arguments!Are(Arguments!Long, "OPT")
        /\ UNCHANGED <<flagValue, numConsumed, extra, argv, error, live, state>> /\ i' = 0
    BY <1>2 DEF Arguments!LongJoined, Arguments!LongNext, Arguments!Set
  <2>2. ofs <= Len(argv) /\ Arguments!Long \in SUBSET Options /\ Arguments!Arg = argv[ofs]
        /\ Len(argv[ofs]) \in Nat
    BY <1>0, <2>1, AtLongFacts, AtArgumentFacts
  <2>3. ~Arguments!Are(Arguments!Long, "FLAG") /\ ~Arguments!Are(Arguments!Long, "POS")
        /\ Arguments!Long # {} /\ Arguments!First(Arguments!Long) = 5
    <3>1. ~Arguments!Are(Arguments!Long, "FLAG") /\ ~Arguments!Are(Arguments!Long, "POS")
          /\ Arguments!First(Arguments!Long) = 5
      BY <2>1, <2>2, OnlyOutput
    <3> QED BY <2>1, <3>1 DEF Arguments!Are
  <2>4. ~Arguments!Wrong(argv[ofs]) /\ Arguments!Gives(ofs, 5)
        /\ (Arguments!Wants(argv[ofs]) <=> Arguments!Equals(argv[ofs]) = {})
    BY <2>1, <2>3, AtLongFacts DEF Arguments!Wrong, Arguments!Wants, Arguments!Gives
  <2>5. \A k \in Options :
            flagValue'[k] <=> \/ \E p \in Own(ofs - 1) : Arguments!TurnsOn(argv[p], k)
                              \/ Arguments!TurnsOn(argv[ofs], k)
    BY <2>1, <2>3, AtLongFacts
  <2>6. CASE Arguments!LongJoined
    <3>1. Arguments!Equals(argv[ofs]) # {} /\ ofs' = ofs + 1
          /\ value' = [value EXCEPT ![5] = Arguments!From(argv[ofs], Arguments!First(Arguments!Equals(argv[ofs])) + 1)]
      BY <2>2, <2>3, <2>6 DEF Arguments!LongJoined, Arguments!Set
    <3>2. Arguments!Equals(argv[ofs]) \in SUBSET Nat
      BY <2>2 DEF Arguments!Equals
    <3>3. Arguments!First(Arguments!Equals(argv[ofs])) + 1 = 1 + Arguments!First(Arguments!Equals(argv[ofs]))
      BY <3>1, <3>2, FirstIs
    <3>4. value' = [value EXCEPT ![5] = Arguments!ValueAt(ofs)]
      BY <2>1, <2>4, <3>1, <3>3 DEF Arguments!ValueAt, Arguments!AtLong, Arguments!Arg
    <3> QED BY <1>0, <2>1, <2>2, <2>4, <2>5, <3>1, <3>4, AtLongFacts, OptionsRead
  <2>7. CASE Arguments!LongNext
    <3>1. Arguments!Equals(argv[ofs]) = {} /\ ofs' = ofs + 2 /\ ofs < Len(argv)
          /\ value' = [value EXCEPT ![5] = argv[ofs + 1]]
      BY <2>2, <2>3, <2>7 DEF Arguments!LongNext, Arguments!Set
    <3>2. value' = [value EXCEPT ![5] = Arguments!ValueAt(ofs)]
      BY <2>4, <3>1 DEF Arguments!ValueAt
    <3> QED BY <1>0, <2>1, <2>2, <2>4, <2>5, <3>1, <3>2, AtLongFacts, OptionsRead
  <2> QED BY <1>2, <2>6, <2>7
<1>3. CASE Arguments!LongFails
  <2>1. /\ Arguments!AtLong /\ Arguments!Fail(Arguments!Complaint(Arguments!Long))
        /\ ~Arguments!Are(Arguments!Long, "FLAG")
    <3>1. Arguments!Long \in SUBSET Options
      BY OptionFacts DEF Arguments!Long
    <3>2. Arguments!Long = {} => ~Arguments!Are(Arguments!Long, "FLAG")
      BY DEF Arguments!Are
    <3> QED BY <1>3, <3>1, <3>2, OnlyOutput DEF Arguments!LongFails
  <2>2. ofs <= Len(argv) /\ Arguments!Arg = argv[ofs]
    BY <1>0, <2>1, AtLongFacts, AtArgumentFacts
  <2>3. \/ Arguments!Wrong(argv[ofs])
        \/ Arguments!Wants(argv[ofs]) /\ ofs = Len(argv)
    <3>1. ~Arguments!IsShort(argv[ofs])
      BY <2>1 DEF Arguments!AtLong, Arguments!IsShort, Arguments!Arg
    <3> QED BY <1>3, <2>1, <2>2, <3>1, AtLongFacts
            DEF Arguments!LongFails, Arguments!Wrong, Arguments!Wants
  <2>4. \A k \in Options :
            flagValue[k] <=> \/ \E p \in Own(ofs - 1) : Arguments!TurnsOn(argv[p], k)
                             \/ Arguments!TurnsOn(argv[ofs], k)
    BY <2>1, AtLongFacts
  <2>5. Arguments!ReadsCommandLine' /\ Arguments!LeftAllocated'
    BY <1>0, <2>1, <2>2, <2>3, <2>4, AtLongFacts, FailureRead
  <2> QED BY <2>1, <2>5 DEF ReadInv, Arguments!Fail
<1>4. CASE Arguments!StartShort
  <2>1. /\ i = 0 /\ i' = 2 /\ Arguments!IsShort(argv[ofs]) /\ ofs <= Len(argv)
        /\ UNCHANGED <<argv, ofs, flagValue, value, numConsumed, extra, error, live, state>>
    BY <1>4 DEF Arguments!StartShort, Arguments!AtArgument, Arguments!Arg
  <2>2. ReadSoFar /\ FlagsRead /\ ValuesRead /\ PlainRead /\ LiveRead
    BY <1>0 DEF ReadInv
  <2>3. 2..(2 - 1) = {}
    OBVIOUS
  <2>4. ReadSoFar' /\ FlagsRead'
    BY <2>1, <2>2, <2>3, SameReading DEF ReadSoFar, FlagsRead, Own
  <2>5. ValuesRead' /\ PlainRead' /\ LiveRead'
    BY <2>1, <2>2, SameReading DEF ValuesRead, Given, Own, PlainRead, PlainTo, LiveRead
  <2> QED BY <1>0, <2>1, <2>4, <2>5 DEF ReadInv
<1>5. CASE Arguments!ShortFlag
  <2>1. /\ Arguments!AtShort /\ Arguments!Are(Arguments!Short, "FLAG") /\ i' = i + 1
        /\ flagValue' = [flagValue EXCEPT ![Arguments!First(Arguments!Short)] = TRUE]
        /\ UNCHANGED <<argv, ofs, value, numConsumed, extra, error, live, state>>
    BY <1>5 DEF Arguments!ShortFlag, Arguments!SetFlag
  <2>2. i # 0 /\ i \in Nat /\ ofs <= Len(argv) /\ i \in 2..(Len(argv[ofs]) + 1)
        /\ Arguments!IsShort(argv[ofs])
    BY <1>0, <2>1, InClusterFacts, TypedArguments DEF Arguments!AtShort
  <2>3. ReadSoFar /\ FlagsRead /\ ValuesRead /\ PlainRead /\ LiveRead
    BY <1>0 DEF ReadInv
  <2>4. Arguments!Short = Arguments!ByShortname(argv[ofs][i]) /\ Arguments!Short \in SUBSET Options
        /\ flagValue \in [Options -> BOOLEAN]
    BY <1>0, <2>2, AtArgumentFacts DEF Arguments!Short, Arguments!Arg
  <2>5. FlagAt(argv[ofs], i) /\ \A k : Letter(i, k) <=> Arguments!First(Arguments!Short) = k
    BY <2>1, <2>4 DEF FlagAt, Letter
  <2>6. i' # 0 /\ i' - 1 = i /\ i \in 2..i /\ \A j \in 2..i : j = i \/ j \in 2..(i - 1)
    BY <2>1, <2>2
  <2>7. ReadSoFar'
    BY <2>1, <2>2, <2>3, <2>5, <2>6, SameReading DEF ReadSoFar
  <2>8. FlagsRead'
    <3>1. ASSUME NEW k \in Options
          PROVE  flagValue'[k] = IF k = Arguments!First(Arguments!Short) THEN TRUE ELSE flagValue[k]
      BY <2>1, <2>4, Zenon
    <3>2. \A j, k : Letter(j, k)' <=> Letter(j, k)
      BY <2>1 DEF Letter
    <3>3. \A j \in 2..(i - 1) : j \in 2..i
      BY <2>2
    <3>4. \A k : (\E j \in 2..(i' - 1) : Letter(j, k)) <=>
                 (\E j \in 2..(i - 1) : Letter(j, k)) \/ Arguments!First(Arguments!Short) = k
      BY <2>5, <2>6, <3>3
    <3>5. Own(ofs - 1)' = Own(ofs - 1)
      BY <2>1, SameReading DEF Own
    <3>6. ASSUME NEW k \in Options
          PROVE  flagValue'[k] <=> \/ \E p \in Own(ofs - 1) : Arguments!TurnsOn(argv[p], k)
                                   \/ \E j \in 2..(i' - 1) : Letter(j, k)
      BY <2>2, <2>3, <3>1, <3>4 DEF FlagsRead
    <3> QED BY <2>1, <2>6, <3>2, <3>5, <3>6 DEF FlagsRead
  <2>9. ValuesRead' /\ PlainRead' /\ LiveRead'
    BY <2>1, <2>3, SameReading DEF ValuesRead, Given, Own, PlainRead, PlainTo, LiveRead
  <2> QED BY <1>0, <2>1, <2>7, <2>8, <2>9 DEF ReadInv
<1>6. CASE Arguments!ShortJoined \/ Arguments!ShortNext
  <2>1. /\ Arguments!AtShort /\ Arguments!Are(Arguments!Short, "OPT") /\ i # 0
        /\ UNCHANGED <<flagValue, numConsumed, extra, argv, error, live, state>> /\ i' = 0
    BY <1>6 DEF Arguments!ShortJoined, Arguments!ShortNext, Arguments!Set, Arguments!AtShort
  <2>2. ofs <= Len(argv) /\ Arguments!Short \in SUBSET Options /\ Arguments!Arg = argv[ofs]
        /\ Len(argv[ofs]) \in Nat /\ i \in 2..(Len(argv[ofs]) + 1)
        /\ Arguments!IsDashed(argv[ofs]) /\ Arguments!IsShort(argv[ofs]) /\ ~Arguments!IsLong(argv[ofs])
    BY <1>0, <2>1, InClusterFacts, AtArgumentFacts
  <2>3. ~Arguments!Are(Arguments!Short, "FLAG") /\ ~Arguments!Are(Arguments!Short, "POS")
        /\ Arguments!Short # {} /\ Arguments!First(Arguments!Short) = 5
    <3>1. ~Arguments!Are(Arguments!Short, "FLAG") /\ ~Arguments!Are(Arguments!Short, "POS")
          /\ Arguments!First(Arguments!Short) = 5
      BY <2>1, <2>2, OnlyOutput
    <3> QED BY <2>1, <3>1 DEF Arguments!Are
  <2>4. Arguments!Stop(argv[ofs]) = i /\ Arguments!Named(argv[ofs]) = Arguments!Short
        /\ (Arguments!Bare(argv[ofs]) <=> i = Len(argv[ofs]))
    BY <2>1, <2>3, AtShortFacts
  <2>5. ~Arguments!Wrong(argv[ofs]) /\ Arguments!Gives(ofs, 5)
        /\ (Arguments!Wants(argv[ofs]) <=> i = Len(argv[ofs]))
    BY <2>1, <2>2, <2>3, <2>4 DEF Arguments!Wrong, Arguments!Wants, Arguments!Gives
  <2>6. \A k \in Options :
            flagValue'[k] <=> \/ \E p \in Own(ofs - 1) : Arguments!TurnsOn(argv[p], k)
                              \/ Arguments!TurnsOn(argv[ofs], k)
    BY <1>0, <2>1, <2>4, InClusterFacts
  <2>7. CASE Arguments!ShortJoined
    <3>1. i < Len(argv[ofs]) /\ ofs' = ofs + 1
          /\ value' = [value EXCEPT ![5] = Arguments!From(argv[ofs], i + 1)]
      BY <2>2, <2>3, <2>7 DEF Arguments!ShortJoined, Arguments!Set
    <3>2. i + 1 = 1 + i /\ i # Len(argv[ofs])
      BY <2>2, <3>1
    <3>3. value' = [value EXCEPT ![5] = Arguments!ValueAt(ofs)]
      BY <2>2, <2>4, <2>5, <3>1, <3>2 DEF Arguments!ValueAt
    <3> QED BY <1>0, <2>1, <2>2, <2>5, <2>6, <3>1, <3>2, <3>3, OptionsRead
  <2>8. CASE Arguments!ShortNext
    <3>1. i = Len(argv[ofs]) /\ ofs' = ofs + 2 /\ ofs < Len(argv)
          /\ value' = [value EXCEPT ![5] = argv[ofs + 1]]
      BY <2>2, <2>3, <2>8 DEF Arguments!ShortNext, Arguments!Set
    <3>2. value' = [value EXCEPT ![5] = Arguments!ValueAt(ofs)]
      BY <2>5, <3>1 DEF Arguments!ValueAt
    <3> QED BY <1>0, <2>1, <2>2, <2>5, <2>6, <3>1, <3>2, OptionsRead
  <2> QED BY <1>6, <2>7, <2>8
<1>7. CASE Arguments!ShortFails
  <2>1. /\ Arguments!AtShort /\ Arguments!Fail(Arguments!Complaint(Arguments!Short)) /\ i # 0
        /\ ~Arguments!Are(Arguments!Short, "FLAG")
    <3>1. Arguments!Short \in SUBSET Options
      BY OptionFacts DEF Arguments!Short
    <3>2. Arguments!Short = {} => ~Arguments!Are(Arguments!Short, "FLAG")
      BY DEF Arguments!Are
    <3> QED BY <1>7, <3>1, <3>2, OnlyOutput DEF Arguments!ShortFails, Arguments!AtShort
  <2>2. ofs <= Len(argv) /\ Arguments!Arg = argv[ofs] /\ Arguments!IsDashed(argv[ofs])
        /\ i <= Len(argv[ofs])
    BY <1>0, <2>1, InClusterFacts, AtArgumentFacts DEF Arguments!AtShort
  <2>3. Arguments!Stop(argv[ofs]) = i /\ Arguments!Named(argv[ofs]) = Arguments!Short
        /\ (Arguments!Bare(argv[ofs]) <=> i = Len(argv[ofs]))
    BY <2>1, AtShortFacts
  <2>4. \/ Arguments!Wrong(argv[ofs])
        \/ Arguments!Wants(argv[ofs]) /\ ofs = Len(argv)
    BY <1>7, <2>2, <2>3 DEF Arguments!ShortFails, Arguments!Wrong, Arguments!Wants
  <2>5. \A k \in Options :
            flagValue[k] <=> \/ \E p \in Own(ofs - 1) : Arguments!TurnsOn(argv[p], k)
                             \/ Arguments!TurnsOn(argv[ofs], k)
    BY <1>0, <2>1, <2>3, InClusterFacts
  <2>6. Arguments!ReadsCommandLine' /\ Arguments!LeftAllocated'
    BY <1>0, <2>1, <2>2, <2>3, <2>4, <2>5, FailureRead
  <2> QED BY <2>1, <2>6 DEF ReadInv, Arguments!Fail
<1>8. CASE Arguments!EndShort
  <2>1. /\ i # 0 /\ i > Len(argv[ofs]) /\ ofs' = ofs + 1 /\ i' = 0
        /\ UNCHANGED <<flagValue, value, numConsumed, extra, argv, error, live, state>>
    BY <1>8 DEF Arguments!EndShort, Arguments!Arg
  <2>2. /\ ofs <= Len(argv) /\ Len(argv[ofs]) \in Nat /\ i \in 2..(Len(argv[ofs]) + 1)
        /\ Arguments!IsDashed(argv[ofs]) /\ Arguments!IsShort(argv[ofs])
        /\ ~Arguments!IsLong(argv[ofs])
    BY <1>0, <2>1, InClusterFacts, AtArgumentFacts
  <2>3. Arguments!Stop(argv[ofs]) = i /\ ~(i <= Len(argv[ofs]))
    BY <1>0, <2>1, <2>2, InClusterFacts
  <2>4. Arguments!Named(argv[ofs]) = {}
    BY <2>2, <2>3 DEF Arguments!Named
  <2>5. ~Arguments!Wrong(argv[ofs]) /\ ~Arguments!Wants(argv[ofs]) /\ ~Arguments!Gives(ofs, 5)
    BY <2>2, <2>3, <2>4 DEF Arguments!Wrong, Arguments!Wants, Arguments!Gives, Arguments!Are
  <2>6. \A k \in Options :
            flagValue'[k] <=> \/ \E p \in Own(ofs - 1) : Arguments!TurnsOn(argv[p], k)
                              \/ Arguments!TurnsOn(argv[ofs], k)
    BY <1>0, <2>1, <2>3, InClusterFacts
  <2> QED BY <1>0, <2>1, <2>2, <2>5, <2>6, OptionsRead
<1>9. CASE Arguments!Positional
  BY <1>0, <1>9, PositionalRead DEF Arguments!Positional
<1>10. CASE Arguments!Finish
  BY <1>10, EndRead DEF ReadInv, Arguments!Finish
<1> QED BY <1>1, <1>2, <1>3, <1>4, <1>5, <1>6, <1>7, <1>8, <1>9, <1>10
        DEF Arguments!Parse, Arguments!ReadLong, Arguments!ReadShort
----------------------------------------------------------------------------
(* run() parses the command line once and keeps what it says. *)

ReadDone == state = "done" =>
    Arguments!ReadsCommandLine /\ (at = "arguments" => Arguments!LeftAllocated)

(* The variables of run() itself, and what del_dir has noted.              *)
OwnTyped ==
    /\ at \in {"arguments", "parse", "generate", "assemble", "nasm", "ld",
               "nasm failed", "ld failed", "linked", "release", "waiting", "end"}
    /\ held \subseteq {"inputContents", "program", "tempPath", "objPath",
                       "nasmProcess", "ldProcess"}
    /\ output.holds \in {"nothing", "part", "assembly", "executable"}
    /\ exit \in {"none", "success", "failure", "crash", "hang"}
    /\ at # "arguments" => state = "done"
Noted ==
    /\ failed \subseteq {TempDir} \cup {Put(name) : name \in Names}
    /\ \A c \in calls : c.owned \in BOOLEAN /\ c.ok \in BOOLEAN
    /\ misused \in BOOLEAN

CInv == Arguments!TypeOK /\ ReadInv /\ ReadDone /\ OwnTyped /\ Noted /\ floods \subseteq Tools

LEMMA InitReads ==
  ASSUME Init
  PROVE  CInv
<1>1. argv \in Seq(Text)
  BY DriverAssumption DEF Init, Arguments!Init, Arguments!ArgsAssumption, Text
<1>2. Len(AcceptedOptions) = 5 /\ Arguments!Positionals = <<1>>
  BY OptionFacts, OnePositional
<1>3. /\ ofs = 1 /\ i = 0 /\ flagValue = [k \in Options |-> FALSE]
      /\ value = [k \in Options |-> <<>>] /\ numConsumed = 0 /\ extra = <<>>
      /\ error = "none" /\ live = {"indices"} /\ state = "parsing"
  BY <1>2 DEF Init, Arguments!Init, Options
<1>4. Arguments!TypeOK
  <2>1. <<>> \in Text /\ <<>> \in Seq(Text) /\ Len(argv) \in Nat
    BY <1>1 DEF Text
  <2>2. 1 \in 1..(Len(argv) + 1)
    BY <2>1
  <2> QED BY <1>1, <1>3, <2>1, <2>2, TypedArguments
<1>5. 1..(1 - 1) = {} /\ 1 - 1 = 0
  OBVIOUS
<1>6. 1 \notin Arguments!Values
  <2>1. Len(argv) \in Nat
    BY <1>1
  <2>2. 1 \in Arguments!Places => 1 \notin Arguments!Values
    <3>1. 1 - 1 \notin Arguments!Places
      BY DEF Arguments!Places
    <3> QED BY <2>1, <3>1, ValuesStep
  <2> QED BY <2>2 DEF Arguments!Values
<1>7. PlainTo(ofs - 1) = <<>>
  BY <1>3, <1>5, OrderSteps DEF PlainTo
<1>8. ReadInv
  <2>1. ReadSoFar /\ FlagsRead
    BY <1>3, <1>5, <1>6 DEF ReadSoFar, FlagsRead, Own
  <2>2. ValuesRead
    <3>1. \A k \in {2, 3, 4, 5} : value[k] = <<>>
      BY <1>3 DEF Options
    <3> QED BY <1>3, <1>5, <3>1 DEF ValuesRead, Given, Own
  <2>3. PlainRead
    <3>1. value[1] = <<>> /\ Len(<<>>) - 0 = 0
      BY <1>3 DEF Options
    <3>2. 1..0 = {}
      OBVIOUS
    <3>3. extra = [n \in 1..0 |-> argv[<<>>[0 + n]]]
      BY <1>3, <3>2
    <3> QED BY <1>3, <1>7, <3>1, <3>3 DEF PlainRead
  <2>4. LiveRead
    BY <1>3 DEF LiveRead
  <2> QED BY <2>1, <2>2, <2>3, <2>4 DEF ReadInv
<1>9. ReadDone /\ OwnTyped /\ Noted
  BY <1>3 DEF ReadDone, OwnTyped, Noted, Init, Nothing
<1>10. floods \subseteq Tools
  BY DEF Init
<1> QED BY <1>4, <1>8, <1>9, <1>10 DEF CInv

(* What has been read stays.                                               *)
LEMMA ReadingKept ==
  ASSUME CInv, UNCHANGED <<argv, ofs, i, flagValue, value, numConsumed, extra, error, state>>,
         live' = live \/ (state = "done" /\ at' # "arguments" /\ live' \subseteq live),
         at' = "arguments" => at = "arguments"
  PROVE  Arguments!TypeOK' /\ ReadInv' /\ ReadDone'
<1>1. Arguments!TypeOK'
  BY DEF CInv, Arguments!TypeOK
<1>2. ReadInv'
  <2>1. CASE state = "parsing"
    <3>1. ReadSoFar /\ FlagsRead /\ ValuesRead /\ PlainRead /\ LiveRead /\ live' = live
      BY <2>1 DEF CInv, ReadInv
    <3>2. ReadSoFar' /\ FlagsRead' /\ ValuesRead'
      BY <3>1, SameReading DEF ReadSoFar, FlagsRead, Own, Letter, ValuesRead, Given
    <3>3. PlainRead' /\ LiveRead'
      BY <3>1, SameReading DEF PlainRead, PlainTo, LiveRead
    <3> QED BY <3>2, <3>3 DEF ReadInv
  <2> QED BY <2>1 DEF ReadInv
<1>3. ReadDone'
  <2>1. ASSUME state = "done" PROVE Arguments!ReadsCommandLine'
    <3>1. Arguments!ReadsCommandLine
      BY <2>1 DEF CInv, ReadDone
    <3>2. /\ error = Arguments!ExpectedError
          /\ \A k \in 1..Len(AcceptedOptions) :
               /\ flagValue[k] <=> \E p \in Arguments!Seen : Arguments!TurnsOn(argv[p], k)
               /\ value[k] = Arguments!ExpectedValue(k)
          /\ extra = [n \in 1..(Len(Arguments!Plain) - numConsumed)
                         |-> argv[Arguments!Plain[numConsumed + n]]]
      BY <2>1, <3>1 DEF Arguments!ReadsCommandLine, Arguments!Parsed
    <3>3. /\ error' = Arguments!ExpectedError'
          /\ \A k \in 1..Len(AcceptedOptions) :
               /\ flagValue'[k] <=> \E p \in Arguments!Seen' : Arguments!TurnsOn(argv'[p], k)
               /\ value'[k] = Arguments!ExpectedValue(k)'
          /\ extra' = [n \in 1..(Len(Arguments!Plain') - numConsumed')
                         |-> argv'[Arguments!Plain'[numConsumed' + n]]]
      BY <3>2, SameReading
    <3> QED BY <3>3 DEF Arguments!ReadsCommandLine
  <2>2. ASSUME state = "done", at' = "arguments" PROVE Arguments!LeftAllocated'
    <3>1. Arguments!LeftAllocated /\ live' = live
      BY <2>2 DEF CInv, ReadDone
    <3> QED BY <2>2, <3>1 DEF Arguments!LeftAllocated, Arguments!Parsed
  <2> QED BY <2>1, <2>2 DEF ReadDone
<1> QED BY <1>1, <1>2, <1>3

(* What del_dir notes.                                                     *)
LEMMA StepNotes == ASSUME RInv, Noted, DeleteTemp PROVE Noted'
<1>1. CASE Removal!Call(FALSE)
  <2> DEFINE Called(ok) == [dir |-> TempDir, owned |-> FALSE, ok |-> ok,
                            entries |-> Removal!Children(TempDir)]
  <2>1. /\ failed' = failed \/ failed' = failed \cup {TempDir}
        /\ misused' = misused
        /\ calls' = calls \cup {Called(TRUE)} \/ calls' = calls \cup {Called(FALSE)}
    BY <1>1 DEF Removal!Call, Removal!Enter
  <2>2. \A ok \in BOOLEAN : Called(ok).owned \in BOOLEAN /\ Called(ok).ok \in BOOLEAN
    OBVIOUS
  <2> HIDE DEF Called
  <2> QED BY <2>1, <2>2 DEF Noted
<1>2. CASE Removal!Step
  <2>1. frames # <<>>
    BY <1>2 DEF Removal!Step, Removal!SkipDots, Removal!EnterChild, Removal!UnlinkChild,
           Removal!Leave, Removal!Running
  <2>2. PICK unread \in SUBSET (Names \cup {".", ".."}) :
            frames = <<[dir |-> TempDir, owned |-> FALSE, unread |-> unread]>>
            /\ unread \cap Names \subseteq Present
    BY <2>1 DEF RInv, OneCall
  <2>3. Removal!Inner.dir = TempDir /\ Removal!Inner.unread = unread /\ Scratch
    BY <2>2 DEF Removal!Inner, RInv
  <2>4. ASSUME NEW name \in unread \ Removal!Dots
        PROVE  Removal!Resolve(TempDir, name) = Put(name) /\ name \in Names
               /\ files[Put(name)] = "file"
    <3>1. name \in Names /\ name \in Present
      BY <2>2, <2>4 DEF Removal!Dots
    <3> QED BY <2>3, <3>1, PathsApart DEF Present, Scratch, Removal!Resolve, Put
  <2>5. calls' = calls /\ misused' \in BOOLEAN /\ (failed' = failed \/ failed' = failed \cup {TempDir}
                           \/ \E name \in Names : failed' = failed \cup {Put(name)})
    <3>1. CASE Removal!SkipDots
      BY <3>1 DEF Removal!SkipDots, Noted
    <3>2. ~Removal!EnterChild
      BY <2>3, <2>4 DEF Removal!EnterChild
    <3>3. CASE Removal!UnlinkChild
      <4>1. PICK name \in unread \ Removal!Dots :
                failed' = failed \/ failed' = failed \cup {Removal!Resolve(TempDir, name)}
        BY <2>3, <3>3 DEF Removal!UnlinkChild, Removal!Fails, Removal!Misuse
      <4>2. calls' = calls /\ misused' \in BOOLEAN
        BY <3>3 DEF Removal!UnlinkChild, Removal!Misuse, Noted
      <4> QED BY <2>4, <4>1, <4>2
    <3>4. CASE Removal!Leave
      <4>1. failed' = failed \/ failed' = failed \cup {Removal!Inner.dir}
        BY <3>4 DEF Removal!Leave, Removal!Fails, Removal!Misuse
      <4>2. calls' = calls /\ misused' \in BOOLEAN
        BY <3>4 DEF Removal!Leave, Removal!Misuse, Noted
      <4> QED BY <2>3, <4>1, <4>2
    <3> QED BY <1>2, <3>1, <3>2, <3>3, <3>4 DEF Removal!Step
  <2> QED BY <2>5 DEF Noted
<1> QED BY <1>1, <1>2 DEF DeleteTemp

LEMMA HoldsWhat == \A default, what : Holds(default, what).holds = what
BY DEF Holds

LEMMA StepReadsOn == ASSUME CInv, RInv, [Next]_vars PROVE CInv'
<1>0. floods' \subseteq Tools
  BY DEF Next, vars, CInv
<1>1. CASE ParseArguments
  <2>1. Arguments!TypeOK' /\ ReadInv'
        /\ (state' = "done" => Arguments!ReadsCommandLine' /\ Arguments!LeftAllocated')
    BY <1>1, StepTyped, StepReads DEF ParseArguments, CInv
  <2> QED BY <1>0, <1>1, <2>1 DEF ParseArguments, CInv, ReadDone, OwnTyped, Noted, dirVars
<1>2. ASSUME UNCHANGED <<argv, ofs, i, flagValue, value, numConsumed, extra, error, state>>,
             live' = live \/ (state = "done" /\ at' # "arguments" /\ live' \subseteq live),
             at' = "arguments" => at = "arguments", OwnTyped', Noted'
      PROVE  CInv'
  BY <1>0, <1>2, ReadingKept DEF CInv
<1>3. CASE Help \/ ArgumentError
  BY <1>2, <1>3 DEF Help, ArgumentError, Parsed, Arguments!Parsed, End, Keep, argsVars, dirVars,
     CInv, OwnTyped, Noted
<1>4. CASE ReadSource \/ ParseSource
  BY <1>2, <1>4 DEF ReadSource, ParseSource, Parsed, Arguments!Parsed, End, Then, Keep, argsVars,
     dirVars, CInv, OwnTyped, Noted
<1>5. CASE DumpAst \/ WriteAssembly \/ MakeTempDir \/ CompileToTemp
  <2>1. output' = output \/ output' = Holds(<<"a.s">>, "assembly")
    BY <1>5 DEF DumpAst, WriteAssembly, MakeTempDir, CompileToTemp
  <2>2. output'.holds \in {"nothing", "part", "assembly", "executable"}
    <3>1. output.holds \in {"nothing", "part", "assembly", "executable"}
      BY DEF CInv, OwnTyped
    <3>2. ASSUME NEW default, NEW what \in {"part", "assembly", "executable"},
                 output' = Holds(default, what)
          PROVE  output'.holds \in {"nothing", "part", "assembly", "executable"}
      BY <3>2 DEF Holds
    <3> QED BY <2>1, <3>1, <3>2
  <2> QED BY <1>2, <1>5, <2>2 DEF DumpAst, WriteAssembly, MakeTempDir, CompileToTemp, Crash, End,
          Then, Keep, argsVars, dirVars, CInv, OwnTyped, Noted
<1>6. CASE RunNasm
  BY <1>2, <1>6 DEF RunNasm, Then, argsVars, CInv, OwnTyped, Noted
<1>7. CASE RunLd
  <2>1. output' = output \/ \E what \in {"part", "executable"} : output' = Holds(<<"a.out">>, what)
    BY <1>7 DEF RunLd
  <2>2. output'.holds \in {"nothing", "part", "assembly", "executable"}
    <3>1. output.holds \in {"nothing", "part", "assembly", "executable"}
      BY DEF CInv, OwnTyped
    <3>2. ASSUME NEW default, NEW what \in {"part", "assembly", "executable"},
                 output' = Holds(default, what)
          PROVE  output'.holds \in {"nothing", "part", "assembly", "executable"}
      BY <3>2 DEF Holds
    <3> QED BY <2>1, <3>1, <3>2
  <2> QED BY <1>2, <1>7, <2>2 DEF RunLd, Then, Keep, argsVars, dirVars, CInv, OwnTyped, Noted
<1>8. CASE DeleteTemp
  BY <1>2, <1>8, StepNotes DEF DeleteTemp, argsVars, CInv, OwnTyped
<1>9. CASE Leave
  BY <1>2, <1>9 DEF Leave, Removing, End, Then, Keep, argsVars, dirVars, CInv, OwnTyped, Noted
<1>10. CASE Release
  BY <1>2, <1>10 DEF Release, End, Keep, argsVars, dirVars, CInv, OwnTyped, Noted
<1>11. CASE UNCHANGED vars
  BY <1>2, <1>11 DEF vars, argsVars, dirVars, CInv, OwnTyped, Noted
<1>12. CASE Hang
  <2>1. output'.holds \in {"nothing", "part", "assembly", "executable"}
    <3>1. output.holds \in {"nothing", "part", "assembly", "executable"}
      BY DEF CInv, OwnTyped
    <3>2. output' = output \/ \E what \in {"part", "executable"} : output' = Holds(<<"a.out">>, what)
      BY <1>12 DEF Hang
    <3> QED BY <3>1, <3>2 DEF Holds
  <2> QED BY <1>2, <1>12, <2>1 DEF Hang, argsVars, CInv, OwnTyped, Noted
<1> QED BY <1>1, <1>3, <1>4, <1>5, <1>6, <1>7, <1>8, <1>9, <1>10, <1>11, <1>12
        DEF Next, Front, Back

(* What the calls of del_dir have noted has its types.                     *)
LEMMA RemovalTyped == ASSUME RInv, Noted PROVE Removal!TypeOK
<1>1. /\ Cwd \in Seq(STRING) /\ TempDir \in Seq(STRING)
      /\ \A name \in Names : Put(name) \in Seq(STRING)
  <2>1. Cwd \in Seq(STRING) /\ TempDir \in Seq(STRING)
    <3>1. [path \in {Cwd, TempDir} |-> "dir"] \in {[path \in {Cwd, TempDir} |-> "dir"]}
          /\ DOMAIN [path \in {Cwd, TempDir} |-> "dir"] = {Cwd, TempDir}
      OBVIOUS
    <3> QED BY <3>1, DriverAssumption DEF Removal!TreesAssumption
  <2>2. \A name \in Names : name \in STRING
    BY DriverAssumption DEF Names
  <2>3. ASSUME NEW S, NEW s \in Seq(S), NEW e \in S PROVE Append(s, e) \in Seq(S)
    OBVIOUS
  <2> QED BY <2>1, <2>2, <2>3 DEF Put
<1>2. /\ DOMAIN files \subseteq Seq(STRING)
      /\ \A p \in DOMAIN files : files[p] \in Removal!FileKinds
  BY <1>1 DEF RInv, Scratch, Removal!FileKinds, Removal!DirKinds
<1>3. ASSUME NEW n \in 1..Len(frames)
      PROVE  /\ frames[n].owned \in BOOLEAN /\ frames[n].unread \subseteq STRING \cup Removal!Dots
             /\ frames[n].dir \in DOMAIN files /\ files[frames[n].dir] \in Removal!DirKinds
             /\ IF n = 1 THEN frames[n].dir = TempDir
                ELSE Removal!Parent(frames[n].dir) = frames[n - 1].dir
  <2>1. frames # <<>>
    BY <1>3
  <2>2. PICK unread \in SUBSET (Names \cup {".", ".."}) :
            frames = <<[dir |-> TempDir, owned |-> FALSE, unread |-> unread]>>
    BY <2>1 DEF RInv, OneCall
  <2>3. n = 1 /\ frames[1].dir = TempDir /\ frames[1].owned = FALSE /\ frames[1].unread = unread
    BY <1>3, <2>2
  <2>4. unread \subseteq STRING \cup Removal!Dots
    BY DriverAssumption DEF Names, Removal!Dots
  <2>5. TempDir \in DOMAIN files /\ files[TempDir] = "dir"
    BY <2>1 DEF RInv, OneCall, Scratch
  <2> QED BY <2>3, <2>4, <2>5 DEF Removal!DirKinds
<1>4. failed \subseteq Seq(STRING) /\ paths \subseteq Seq(STRING) /\ misused \in BOOLEAN
  BY <1>1 DEF RInv, Noted
<1> QED BY <1>2, <1>3, <1>4 DEF Removal!TypeOK, Noted

(* For every command line: argparser_parse, with the options of run(),     *)
(* stores what the command line says, options joined and not, values that  *)
(* look like options, and what came before a mistake; it leaves allocated  *)
(* what is known.                                                          *)
THEOREM DriverReadsArguments == Spec => []CommandLineRead
<1>1. ASSUME CInv, RInv PROVE CommandLineRead
  <2>1. TypeOK
    BY <1>1, RemovalTyped DEF TypeOK, CInv, OwnTyped
  <2>2. Arguments!ReadsCommandLine /\ (at = "arguments" => Arguments!LeftAllocated)
    <3>1. CASE state = "done"
      BY <1>1, <3>1 DEF CInv, ReadDone
    <3>2. CASE state # "done"
      BY <3>2 DEF Arguments!ReadsCommandLine, Arguments!LeftAllocated, Arguments!Parsed
    <3> QED BY <3>1, <3>2
  <2> QED BY <2>1, <2>2 DEF CommandLineRead
<1>2. Init => CInv
  BY InitReads
<1>3. CInv /\ RInv /\ [Next]_vars => CInv'
  BY StepReadsOn
<1> QED BY <1>1, <1>2, <1>3, InitRemoved, StepRemoved, PTL DEF Spec
----------------------------------------------------------------------------
(* Each step of run() is a step of Compilation, or none of its business. *)

(* What has been asked for decides where run() goes, and the output follows*)
(* from the place it is at.                                                *)
Compiling == {"assemble", "nasm", "nasm failed", "ld", "ld failed", "linked"}
OnItsWay ==
    /\ request = Request
    /\ at \notin {"waiting", "end"} => exit = "none"
    /\ at \notin {"arguments", "waiting", "end"} => ~flagValue[helpArg] /\ error = "none"
    /\ at \in Compiling => ~flagValue[dumpAstArg] /\ ~flagValue[assemblyArg]
    /\ at \notin {"ld failed", "linked", "release", "waiting", "end"} => output = Nothing
    /\ at = "nasm failed" => output = Nothing
    /\ at = "linked" => output = Promise!Result
    /\ at = "release" => output = IF Promise!Writing THEN Promise!Result ELSE Nothing
    /\ at = "ld" => "nasm" \notin floods
    /\ at = "linked" \/ (at = "release" /\ request.what = "executable") => floods = {}

(* The request, off the variables of the parser when it is done.           *)
LEMMA RequestRead ==
  ASSUME CInv, OnItsWay, state = "done"
  PROVE  /\ request.what =
              IF flagValue[helpArg] THEN "help"
              ELSE IF error # "none" THEN "mistake"
              ELSE IF flagValue[dumpAstArg] THEN "dump"
              ELSE IF flagValue[assemblyArg] THEN "assembly" ELSE "executable"
         /\ request.what = "assembly" => request.path = OutPath(<<"a.s">>)
         /\ request.what = "executable" => request.path = OutPath(<<"a.out">>)
<1>1. /\ error = Arguments!ExpectedError
      /\ \A k \in Options :
           /\ flagValue[k] <=> \E p \in Arguments!Seen : Arguments!TurnsOn(argv[p], k)
           /\ value[k] = Arguments!ExpectedValue(k)
  <2>1. 1..Len(AcceptedOptions) = Options
    BY OptionFacts DEF Options
  <2> QED BY <2>1 DEF CInv, ReadDone, Arguments!ReadsCommandLine, Arguments!Parsed
<1>2. helpArg \in Options /\ dumpAstArg \in Options /\ assemblyArg \in Options
      /\ outputArg \in Options
  BY DEF helpArg, dumpAstArg, assemblyArg, outputArg, Options
<1> DEFINE On(k) == \E p \in Arguments!Seen : Arguments!TurnsOn(argv[p], k)
           given == Arguments!ExpectedValue(outputArg)
           what == IF On(helpArg) THEN "help"
                   ELSE IF Arguments!ExpectedError # "none" THEN "mistake"
                   ELSE IF On(dumpAstArg) THEN "dump"
                   ELSE IF On(assemblyArg) THEN "assembly" ELSE "executable"
           path == IF given # <<>> THEN given
                   ELSE IF what = "assembly" THEN <<"a.s">> ELSE <<"a.out">>
<1>3. Request = [what |-> what, path |-> path]
  BY DEF Request
<1>4. what = IF flagValue[helpArg] THEN "help"
             ELSE IF error # "none" THEN "mistake"
             ELSE IF flagValue[dumpAstArg] THEN "dump"
             ELSE IF flagValue[assemblyArg] THEN "assembly" ELSE "executable"
  BY <1>1, <1>2
<1>5. given = value[outputArg]
  BY <1>1, <1>2
<1>6. (what = "assembly" => path = OutPath(<<"a.s">>))
      /\ (what = "executable" => path = OutPath(<<"a.out">>))
  BY <1>5 DEF OutPath
<1> HIDE DEF what, path
<1>7. request.what = what /\ request.path = path
  BY <1>3 DEF OnItsWay
<1> QED BY <1>4, <1>6, <1>7

LEMMA InitOnItsWay == Init => OnItsWay /\ Promise!Init
<1>1. ASSUME Init PROVE TempDir \notin DOMAIN files
  BY <1>1, PathsApart DEF Init, Here
<1>2. Init => OnItsWay
  BY DEF Init, OnItsWay, Compiling
<1>3. Init => Promise!Init
  <2>1. ASSUME Init PROVE (TempDir \in DOMAIN files) = FALSE
    BY <1>1, <2>1
  <2>2. ASSUME Init PROVE output = Promise!Nothing /\ exit = "none"
    BY <2>2 DEF Init, Promise!Nothing, Nothing
  <2> QED BY <2>1, <2>2 DEF Promise!Init
<1> QED BY <1>2, <1>3

(* Nothing that the request was read off changes.                          *)
LEMMA SameRequest == ASSUME argv' = argv PROVE Request' = Request
<1>1. \A k : Arguments!ExpectedValue(k)' = Arguments!ExpectedValue(k)
  BY SameReading
<1>2. Arguments!Seen' = Arguments!Seen /\ Arguments!ExpectedError' = Arguments!ExpectedError
  BY SameReading
<1> QED BY <1>1, <1>2 DEF Request

LEMMA ArgvKept == ASSUME [Next]_vars PROVE argv' = argv /\ request' = request /\ floods' = floods
<1>1. ParseArguments => argv' = argv
  BY DEF ParseArguments, Arguments!Parse, Arguments!ReadLong, Arguments!ReadShort,
     Arguments!LongFlag, Arguments!LongJoined, Arguments!LongNext, Arguments!LongFails,
     Arguments!StartShort, Arguments!ShortFlag, Arguments!ShortJoined, Arguments!ShortNext,
     Arguments!ShortFails, Arguments!EndShort, Arguments!Positional, Arguments!Finish,
     Arguments!GoOn, Arguments!Fail
<1>2. Help \/ ArgumentError \/ ReadSource \/ ParseSource => argv' = argv
  BY DEF Help, ArgumentError, ReadSource, ParseSource, Keep, argsVars
<1>3. Back => argv' = argv
  BY DEF Back, DumpAst, WriteAssembly, MakeTempDir, CompileToTemp, RunNasm, RunLd, Hang,
     DeleteTemp, Leave, Release, Keep, argsVars
<1> QED BY <1>1, <1>2, <1>3 DEF Next, Front, vars, argsVars

(* The removal never makes the directory.                                  *)
LEMMA RemovalMakesNothing ==
  ASSUME DeleteTemp
  PROVE  DOMAIN files' \subseteq DOMAIN files
<1>1. ASSUME NEW path, Removal!Remove(path) PROVE DOMAIN files' \subseteq DOMAIN files
  BY <1>1 DEF Removal!Remove
<1>2. files' = files \/ \E path : Removal!Remove(path)
  <2>1. Removal!Call(FALSE) => files' = files
    BY DEF Removal!Call
  <2>2. Removal!SkipDots => files' = files
    BY DEF Removal!SkipDots
  <2>3. Removal!EnterChild => files' = files
    BY DEF Removal!EnterChild, Removal!Misuse
  <2>4. Removal!UnlinkChild => files' = files \/ \E path : Removal!Remove(path)
    BY DEF Removal!UnlinkChild, Removal!Misuse, Removal!Fails
  <2>5. Removal!Leave => files' = files \/ \E path : Removal!Remove(path)
    BY DEF Removal!Leave, Removal!Misuse, Removal!Fails
  <2> QED BY <2>1, <2>2, <2>3, <2>4, <2>5 DEF DeleteTemp, Removal!Step
<1> QED BY <1>1, <1>2

LEMMA StepPromised ==
  ASSUME CInv, RInv, OnItsWay, [Next]_vars
  PROVE  OnItsWay' /\ [Promise!Next]_(Promise!vars)
<1>1. argv' = argv /\ request' = request /\ request' = Request' /\ floods' = floods
  BY ArgvKept, SameRequest DEF OnItsWay
<1>2. Promise!Result' = Promise!Result /\ (Promise!Writing' <=> Promise!Writing)
  BY <1>1 DEF Promise!Result, Promise!Writing
<1>3. Nothing = Promise!Nothing
  BY DEF Nothing, Promise!Nothing
<1>4. ASSUME output' = output, exit' = exit, (TempDir \in DOMAIN files)' <=> TempDir \in DOMAIN files
      PROVE  UNCHANGED Promise!vars
  BY <1>1, <1>4 DEF Promise!vars
<1>5. at # "arguments" => state = "done"
  BY DEF CInv, OwnTyped
<1> DEFINE Scratches == TempDir \in DOMAIN files
<1>6. ASSUME exit = "none", exit' = "success", UNCHANGED <<output, files>>,
             request.what # "mistake", request.what = "executable" => floods = {},
             output = IF Promise!Writing THEN Promise!Result ELSE Nothing
      PROVE  Promise!Next
  BY <1>1, <1>3, <1>6 DEF Promise!Next, Promise!Succeed, Promise!Asks
<1>7. ASSUME exit = "none", exit' = "failure", UNCHANGED <<output, files>>,
             request.what # "help", output = Nothing \/ request.what = "executable"
      PROVE  Promise!Next
  BY <1>1, <1>3, <1>7 DEF Promise!Next, Promise!Fail, Promise!Asks
<1>8. ASSUME exit = "none", exit' = "crash", UNCHANGED <<output, files>>,
             request.what \in {"assembly", "executable"}, output = Nothing
      PROVE  Promise!Next
  BY <1>1, <1>3, <1>8 DEF Promise!Next, Promise!Crash, Promise!Writing
<1>9. CASE ParseArguments
  <2>1. UNCHANGED <<at, output, exit, files>> /\ at = "arguments"
    BY <1>9 DEF ParseArguments, dirVars
  <2>2. OnItsWay'
    BY <1>1, <2>1 DEF OnItsWay, Compiling
  <2> QED BY <1>4, <2>1, <2>2
<1>10. CASE Help \/ ArgumentError \/ ReadSource
  <2>1. at = "arguments" /\ state = "done" /\ output = Nothing /\ exit = "none"
        /\ UNCHANGED <<output, files>>
    BY <1>10 DEF Help, ArgumentError, ReadSource, Parsed, Arguments!Parsed, Keep, dirVars, OnItsWay
  <2>2. CASE Help
    <3>1. request.what = "help" /\ at' = "end" /\ exit' = "success"
      BY <2>1, <2>2, RequestRead DEF Help, End
    <3>2. OnItsWay'
      BY <1>1, <3>1 DEF OnItsWay, Compiling
    <3> QED BY <1>6, <2>1, <3>1, <3>2 DEF Promise!Writing
  <2>3. CASE ArgumentError
    <3>1. request.what # "help" /\ at' = "end" /\ exit' = "failure"
      BY <2>1, <2>3, RequestRead DEF ArgumentError, End
    <3>2. OnItsWay'
      BY <1>1, <3>1 DEF OnItsWay, Compiling
    <3> QED BY <1>7, <2>1, <3>1, <3>2
  <2>4. CASE ReadSource
    <3>1. /\ request.what # "help" /\ ~flagValue[helpArg] /\ error = "none"
          /\ UNCHANGED <<flagValue, error>>
          /\ \/ at' = "parse" /\ exit' = exit
             \/ at' = "end" /\ exit' = "failure"
      BY <2>1, <2>4, RequestRead DEF ReadSource, End, Then, Keep, argsVars
    <3>2. OnItsWay'
      BY <1>1, <2>1, <3>1 DEF OnItsWay, Compiling
    <3> QED BY <1>4, <1>7, <2>1, <3>1, <3>2
  <2> QED BY <1>10, <2>2, <2>3, <2>4
<1>11. CASE ParseSource
  <2>1. /\ at = "parse" /\ output = Nothing /\ exit = "none" /\ state = "done"
        /\ ~flagValue[helpArg] /\ error = "none"
        /\ UNCHANGED <<output, files, flagValue, error>>
        /\ \/ at' = "generate" /\ exit' = exit
           \/ at' = "end" /\ exit' = "failure"
    BY <1>5, <1>11 DEF ParseSource, End, Then, Keep, argsVars, dirVars, OnItsWay
  <2>2. request.what # "help"
    BY <2>1, RequestRead
  <2>3. OnItsWay'
    BY <1>1, <2>1 DEF OnItsWay, Compiling
  <2> QED BY <1>4, <1>7, <2>1, <2>2, <2>3
<1>12. CASE DumpAst \/ WriteAssembly \/ MakeTempDir
  <2>1. at = "generate" /\ output = Nothing /\ exit = "none" /\ state = "done"
        /\ ~flagValue[helpArg] /\ error = "none" /\ UNCHANGED <<flagValue, error>>
    BY <1>5, <1>12 DEF DumpAst, WriteAssembly, MakeTempDir, Keep, argsVars, OnItsWay
  <2>2. CASE DumpAst
    <3>1. request.what = "dump" /\ at' = "release" /\ UNCHANGED <<exit, output, files>>
      BY <2>1, <2>2, RequestRead DEF DumpAst, Then, Keep, dirVars
    <3>2. OnItsWay'
      BY <1>1, <1>2, <2>1, <3>1 DEF OnItsWay, Compiling, Promise!Writing
    <3> QED BY <1>4, <3>1, <3>2
  <2>3. CASE WriteAssembly
    <3>1. request.what = "assembly" /\ request.path = OutPath(<<"a.s">>) /\ files' = files
      BY <2>1, <2>3, RequestRead DEF WriteAssembly, Keep, dirVars
    <3>2. CASE output' = Holds(<<"a.s">>, "assembly") /\ at' = "release" /\ exit' = exit
      <4>1. output' = Promise!Result
        BY <3>1, <3>2 DEF Holds, Promise!Result
      <4>2. OnItsWay'
        BY <1>1, <1>2, <2>1, <3>1, <3>2, <4>1 DEF OnItsWay, Compiling, Promise!Writing
      <4>3. Promise!Write
        BY <1>1, <1>3, <2>1, <3>1, <3>2, <4>1 DEF Promise!Write, Promise!Written, Promise!Writing,
           Promise!Asks
      <4> QED BY <4>2, <4>3 DEF Promise!Next
    <3>3. CASE Crash /\ UNCHANGED output
      <4>1. OnItsWay'
        BY <1>1, <3>3 DEF OnItsWay, Compiling, Crash, End
      <4> QED BY <1>8, <2>1, <3>1, <3>3, <4>1 DEF Crash, End
    <3> QED BY <2>3, <3>2, <3>3 DEF WriteAssembly, Then
  <2>4. CASE MakeTempDir
    <3>1. request.what = "executable" /\ ~flagValue[dumpAstArg] /\ ~flagValue[assemblyArg]
          /\ output' = output
      BY <2>1, <2>4, RequestRead DEF MakeTempDir
    <3>2. CASE files' = [path \in {Cwd, TempDir} |-> "dir"] /\ at' = "assemble" /\ exit' = exit
      <4>1. OnItsWay'
        BY <1>1, <2>1, <3>1, <3>2 DEF OnItsWay, Compiling
      <4>2. TempDir \in DOMAIN files'
        BY <3>2
      <4>3. Promise!MakeScratch
        BY <1>1, <1>3, <2>1, <3>1, <3>2, <4>2 DEF Promise!MakeScratch, Promise!Asks
      <4> QED BY <4>1, <4>3 DEF Promise!Next
    <3>3. CASE Crash /\ UNCHANGED files
      <4>1. OnItsWay'
        BY <1>1, <3>3 DEF OnItsWay, Compiling, Crash, End
      <4> QED BY <1>8, <2>1, <3>1, <3>3, <4>1 DEF Crash, End
    <3> QED BY <2>4, <3>2, <3>3 DEF MakeTempDir, Then
  <2> QED BY <1>12, <2>2, <2>3, <2>4
<1>13. ASSUME at \in Compiling
       PROVE  /\ exit = "none" /\ state = "done" /\ ~flagValue[helpArg] /\ error = "none"
              /\ ~flagValue[dumpAstArg] /\ ~flagValue[assemblyArg]
              /\ request.what = "executable" /\ request.path = OutPath(<<"a.out">>)
              /\ Promise!Writing
  <2>1. /\ exit = "none" /\ state = "done" /\ ~flagValue[helpArg] /\ error = "none"
        /\ ~flagValue[dumpAstArg] /\ ~flagValue[assemblyArg]
    BY <1>5, <1>13 DEF OnItsWay, Compiling
  <2> QED BY <2>1, RequestRead DEF Promise!Writing
<1>14. CASE CompileToTemp \/ RunNasm
  <2>1. at \in Compiling /\ UNCHANGED <<flagValue, error, output>> /\ output = Nothing
        /\ TempDir \in DOMAIN files /\ Scratch
    BY <1>14 DEF CompileToTemp, RunNasm, Compiling, argsVars, OnItsWay, RInv, WhenThere
  <2>2. CASE Crash /\ UNCHANGED files
    <3>1. OnItsWay'
      BY <1>1, <2>2 DEF OnItsWay, Compiling, Crash, End
    <3> QED BY <1>8, <1>13, <2>1, <2>2, <3>1 DEF Crash, End
  <2>3. ASSUME NEW names \in SUBSET Names, files' = With(names), exit' = exit,
               at' \in {"nasm", "ld", "nasm failed"}, at' = "ld" => "nasm" \notin floods
        PROVE  OnItsWay' /\ [Promise!Next]_(Promise!vars)
    <3>1. DOMAIN files \subseteq DOMAIN files'
      BY <2>1, <2>3, WithKeepsScratch
    <3>2. OnItsWay'
      BY <1>1, <1>13, <2>1, <2>3 DEF OnItsWay, Compiling
    <3> QED BY <1>4, <2>1, <2>3, <3>1, <3>2
  <2>4. CASE CompileToTemp
    BY <2>2, <2>3, <2>4 DEF CompileToTemp, Names, Then
  <2>5. CASE RunNasm
    <3>1. PICK written \in SUBSET {"a.o"} : files' = With(written)
      BY <2>5 DEF RunNasm
    <3>2. exit' = exit /\ at' \in {"ld", "nasm failed"} /\ (at' = "ld" => "nasm" \notin floods)
      BY <2>5 DEF RunNasm, Outcomes, Succeeded, Then
    <3> QED BY <2>3, <3>1, <3>2 DEF Names
  <2> QED BY <1>14, <2>4, <2>5
<1>15. CASE RunLd
  <2>1. at \in Compiling /\ at = "ld" /\ UNCHANGED <<flagValue, error, files, exit>>
        /\ output = Nothing /\ TempDir \in DOMAIN files
    BY <1>15 DEF RunLd, Compiling, Keep, argsVars, dirVars, Then, OnItsWay, RInv, WhenThere
  <2>2. PICK what \in {"nothing", "part", "executable"} :
            /\ output' = IF what = "nothing" THEN output ELSE Holds(<<"a.out">>, what)
            /\ \/ at' = "linked" /\ what = "executable" /\ "ld" \notin floods
               \/ at' = "ld failed"
    BY <1>15 DEF RunLd, Outcomes, Succeeded, Then
  <2>3. what # "nothing" => output' = [path |-> request.path, holds |-> what]
    BY <1>13, <2>1, <2>2 DEF Holds
  <2>4. what = "executable" => output' = Promise!Result
    BY <1>13, <2>1, <2>3 DEF Promise!Result
  <2>5. OnItsWay'
    <3>1. at' = "linked" => floods' = {}
      BY <1>1, <2>1, <2>2 DEF OnItsWay, CInv, Tools
    <3> QED BY <1>1, <1>2, <1>13, <2>1, <2>2, <2>4, <3>1 DEF OnItsWay, Compiling
  <2>6. what = "nothing" => UNCHANGED Promise!vars
    BY <1>4, <2>1, <2>2
  <2>7. what # "nothing" => Promise!Write
    BY <1>1, <1>3, <1>13, <2>1, <2>3, <2>4 DEF Promise!Write, Promise!Written, Promise!Asks
  <2> QED BY <2>5, <2>6, <2>7 DEF Promise!Next
<1>16. CASE DeleteTemp
  <2>1. at \in Compiling /\ UNCHANGED <<flagValue, error, output, at, exit>>
    BY <1>16 DEF DeleteTemp, Removing, Compiling, argsVars
  <2>2. OnItsWay'
    BY <1>1, <1>2, <2>1 DEF OnItsWay
  <2>3. DOMAIN files' \subseteq DOMAIN files
    BY <1>16, RemovalMakesNothing
  <2>4. CASE TempDir \in DOMAIN files /\ TempDir \notin DOMAIN files'
    <3>1. Promise!CleanUp
      BY <1>1, <1>13, <2>1, <2>4 DEF Promise!CleanUp
    <3> QED BY <2>2, <3>1 DEF Promise!Next
  <2>5. CASE ~(TempDir \in DOMAIN files /\ TempDir \notin DOMAIN files')
    BY <1>4, <2>1, <2>2, <2>3, <2>5
  <2> QED BY <2>4, <2>5
<1>17. CASE Leave
  <2>1. at \in Compiling /\ UNCHANGED <<flagValue, error, output, files>>
        /\ (at = "nasm failed" => output = Nothing)
        /\ (at = "linked" => output = Promise!Result)
    BY <1>17 DEF Leave, Removing, Compiling, Keep, argsVars, dirVars, OnItsWay
  <2>2. CASE at' = "end" /\ exit' = "failure"
    <3>1. OnItsWay'
      BY <1>1, <2>2 DEF OnItsWay, Compiling
    <3> QED BY <1>7, <1>13, <2>1, <2>2, <3>1
  <2>3. CASE at = "linked" /\ at' = "release" /\ exit' = exit
    <3>1. OnItsWay'
      BY <1>1, <1>2, <1>13, <2>1, <2>3 DEF OnItsWay, Compiling
    <3> QED BY <1>4, <2>1, <2>3, <3>1
  <2> QED BY <1>17, <2>2, <2>3 DEF Leave, Removing, End, Then
<1>18. CASE Release
  <2>1. /\ at = "release" /\ at' = "end" /\ exit = "none" /\ exit' = "success"
        /\ UNCHANGED <<output, files>> /\ state = "done" /\ ~flagValue[helpArg] /\ error = "none"
        /\ output = IF Promise!Writing THEN Promise!Result ELSE Nothing
    BY <1>5, <1>18 DEF Release, End, Keep, dirVars, OnItsWay
  <2>2. request.what # "mistake" /\ (request.what = "executable" => floods = {})
    BY <2>1, RequestRead DEF OnItsWay
  <2>3. OnItsWay'
    BY <1>1, <2>1 DEF OnItsWay, Compiling
  <2> QED BY <1>6, <2>1, <2>2, <2>3
<1>19. CASE UNCHANGED vars
  <2>1. UNCHANGED <<request, at, exit, flagValue, error, output, files>>
    BY <1>19 DEF vars, argsVars, dirVars
  <2>2. OnItsWay'
    BY <1>1, <1>2, <2>1 DEF OnItsWay
  <2> QED BY <1>4, <2>1, <2>2
<1>20. CASE Hang
  <2>1. /\ at \in Compiling /\ at \in floods /\ output = Nothing /\ TempDir \in DOMAIN files
        /\ at' = "waiting" /\ exit' = "hang" /\ UNCHANGED <<flagValue, error>>
    BY <1>20 DEF Hang, Compiling, argsVars, OnItsWay, RInv, WhenThere
  <2>2. OnItsWay'
    BY <1>1, <2>1 DEF OnItsWay, Compiling
  <2>3. TempDir \in DOMAIN files'
    <3>1. CASE files' = files
      BY <2>1, <3>1
    <3>2. CASE \E written \in SUBSET {"a.o"} : files' = With(written)
      BY <2>1, <3>2, WithKeepsScratch DEF Names, RInv
    <3> QED BY <1>20, <3>1, <3>2 DEF Hang
  <2>4. \/ output' = Nothing
        \/ \E what \in {"part", "executable"} : output' = [path |-> request.path, holds |-> what]
    <3>1. output' = output \/ \E what \in {"part", "executable"} : output' = Holds(<<"a.out">>, what)
      BY <1>20 DEF Hang
    <3> QED BY <1>13, <2>1, <3>1 DEF Holds
  <2>5. Promise!Hang
    <3>1. exit = "none" /\ Promise!Asks("executable") /\ ~(floods = {})
      BY <1>13, <2>1 DEF Promise!Asks
    <3>2. output' \in {Promise!Nothing} \cup Promise!Written
      BY <1>3, <2>4, <3>1 DEF Promise!Written, Promise!Result, Promise!Asks
    <3> QED BY <1>1, <1>3, <2>1, <2>3, <3>1, <3>2 DEF Promise!Hang
  <2> QED BY <2>2, <2>5 DEF Promise!Next
<1> QED BY <1>9, <1>10, <1>11, <1>12, <1>14, <1>15, <1>16, <1>17, <1>18, <1>19, <1>20
        DEF Next, Front, Back

(* For every command line and whatever fails: run() begins as Compilation  *)
(* says and each of its steps is one of Compilation's or changes nothing it*)
(* knows of: it makes a scratch directory only for an executable, writes   *)
(* only the file asked for, once, succeeds only with what was asked for and*)
(* leaves no assembly when it fails; and it hangs only where what nasm or  *)
(* ld prints does not fit the pipe, while its scratch directory is there.  *)
(* This is KeepsPromise but for the end, which takes fairness.             *)
THEOREM DriverPromises == Spec => Promise!Init /\ [][Promise!Next]_(Promise!vars)
<1>1. Init => CInv /\ RInv /\ OnItsWay /\ Promise!Init
  BY InitReads, InitRemoved, InitOnItsWay
<1>2. CInv /\ RInv /\ OnItsWay /\ [Next]_vars
      => CInv' /\ RInv' /\ OnItsWay' /\ [Promise!Next]_(Promise!vars)
  BY StepReadsOn, StepRemoved, StepPromised
<1> QED BY <1>1, <1>2, PTL DEF Spec
=============================================================================
