---------------------------- MODULE TestsProofs ----------------------------
(* What the test program says of the compiler: get_tests finds each case,  *)
(* whatever the order of readdir, for every tree of files; a verdict is    *)
(* about the two programs of its own case, whatever fails and whatever the *)
(* limit on descriptors; and the pipes of the shipped cases suffice.       *)
EXTENDS Tests, SequenceTheorems, TLAPS

(* Before a suite starts, its variables are as they were.                  *)
Unstarted == Few!Init

(* The programs that lie in the working directory, and those whose exit    *)
(* codes are known, by what is done next.                                  *)
OldRejected == dragonOut # Few!NoFile => dragonOut < pos /\ ~cases[dragonOut].isValid
OwnOrRejected == dragonOut # Few!NoFile => dragonOut = pos \/ ~cases[dragonOut].isValid

Programs ==
    /\ at = "pipes" => OldRejected /\ gccOut = Few!NoFile
    /\ at = "compile" => OldRejected /\ gccOut = Few!NoFile /\ open >= 2
    /\ at = "res1" => OwnOrRejected /\ gccOut = Few!NoFile
    /\ at \in {"res0", "dragon.out"} => dragonOut = pos /\ gccOut = Few!NoFile
    /\ at \in {"gcc", "gcc.out"} => dragonOut = Few!NoFile /\ dragonCode.of = pos
    /\ at = "gcc" => gccOut = Few!NoFile
    /\ at = "gcc.out" => gccOut \in {Few!NoFile, pos}
    /\ at = "compare" => /\ dragonCode.of = pos /\ gccCode.of = pos
                         /\ dragonOut = Few!NoFile /\ gccOut = Few!NoFile

Counted == passed \in Nat /\ failed \in Nat /\ skipped \in Nat
OnCase  == at # "pipes" => pos <= Len(cases)

Placed ==
    /\ pos \in 1..(Len(cases) + 1)
    /\ at \in {"pipes", "compile", "res0", "res1", "dragon.out", "gcc", "gcc.out", "compare",
               "blocked"}
    /\ open \in 0..limit /\ dragonOut \in 0..pos /\ gccOut \in 0..pos
KnownCodes ==
    /\ dragonCode \in [of : 0..pos, code : Few!Codes]
    /\ gccCode \in [of : 0..pos, code : Few!Codes]
Sum == passed + failed + skipped = pos - 1

SuiteInv ==
    /\ limit \in Nat /\ limit >= Few!StandardStreams
    /\ Len(cases) \in Nat
    /\ Placed /\ KnownCodes /\ Sum /\ Counted /\ OnCase /\ Programs
----------------------------------------------------------------------------
(* A step in which nothing fails is one in which anything may.             *)
LEMMA FewerFaults == All!Test => Few!Test
  BY DEF All!Test, All!Run, All!Pipes, All!Reject, All!NasmFails, All!LdFails, All!Compile,
         All!JudgeFailure, All!JudgeSuccess, All!RunDragonOut, All!RunGcc, All!RunGccOut,
         All!Block, All!Compare, All!Verdict, All!Go, All!Room, All!Runs, All!CannotRun, All!Case,
         All!NoFile, All!Codes, All!Peak, All!Destroyed, All!Abandoned, All!NotStarted,
         All!files, All!codes, All!counters,
         Few!Test, Few!Run, Few!Pipes, Few!Reject, Few!NasmFails, Few!LdFails, Few!Compile,
         Few!JudgeFailure, Few!JudgeSuccess, Few!RunDragonOut, Few!RunGcc, Few!RunGccOut,
         Few!Block, Few!Compare, Few!Verdict, Few!Go, Few!Room, Few!Runs, Few!CannotRun, Few!Case,
         Few!NoFile, Few!Codes, Few!Peak, Few!Destroyed, Few!Abandoned, Few!NotStarted,
         Few!files, Few!codes, Few!counters

(* A verdict, of whatever kind, goes on to the next case.                  *)
LEMMA VerdictCounts ==
  ASSUME SuiteInv, pos <= Len(cases), UNCHANGED <<cases, limit>>,
         NEW counter \in {"passed", "failed", "skipped"}, Few!Verdict(counter)
  PROVE  /\ Counted' /\ Sum' /\ OnCase'
         /\ pos' = pos + 1 /\ pos' \in 1..(Len(cases') + 1) /\ at' = "pipes"
<1>1. pos \in 1..(Len(cases) + 1) /\ passed + failed + skipped = pos - 1 /\ Len(cases) \in Nat
  BY DEF SuiteInv, Placed, Sum
<1>2. passed \in Nat /\ failed \in Nat /\ skipped \in Nat
  BY DEF SuiteInv, Counted
<1>3. pos' = pos + 1 /\ at' = "pipes" /\ pos' \in 1..(Len(cases) + 1)
  BY <1>1 DEF Few!Verdict
<1>4. Counted' /\ Sum'
  <2>1. CASE counter = "passed"
    BY <1>1, <1>2, <1>3, <2>1 DEF Few!Verdict, Counted, Sum
  <2>2. CASE counter = "failed"
    BY <1>1, <1>2, <1>3, <2>2 DEF Few!Verdict, Counted, Sum
  <2>3. CASE counter = "skipped"
    BY <1>1, <1>2, <1>3, <2>3 DEF Few!Verdict, Counted, Sum
  <2> QED BY <2>1, <2>2, <2>3
<1> QED BY <1>3, <1>4 DEF OnCase

(* An exit code that is known stays known at the next case.                *)
LEMMA CodesKept ==
  ASSUME NEW S, NEW p \in Nat, NEW r \in [of : 0..p, code : S]
  PROVE  r \in [of : 0..(p + 1), code : S]
<1>1. r.of \in 0..p /\ r.code \in S /\ r = [of |-> r.of, code |-> r.code]
  OBVIOUS
<1>2. r.of \in 0..(p + 1)
  BY <1>1
<1> QED BY <1>1, <1>2

(* What a verdict needs to keep the invariant: where the next case starts, *)
(* no program of gcc's lies, and one of dragonk's only if it was rejected. *)
LEMMA VerdictKeeps ==
  ASSUME SuiteInv, pos <= Len(cases), UNCHANGED <<cases, limit>>,
         NEW counter \in {"passed", "failed", "skipped"}, Few!Verdict(counter),
         open' \in 0..limit, gccOut' = Few!NoFile, dragonOut' \in 0..pos,
         dragonOut' # Few!NoFile => ~cases[dragonOut'].isValid,
         dragonCode' \in [of : 0..pos, code : Few!Codes],
         gccCode' \in [of : 0..pos, code : Few!Codes]
  PROVE  SuiteInv'
<1>1. /\ Counted' /\ Sum' /\ OnCase'
      /\ pos' = pos + 1 /\ pos' \in 1..(Len(cases') + 1) /\ at' = "pipes"
  BY VerdictCounts
<1>2. pos \in Nat /\ limit \in Nat /\ limit >= Few!StandardStreams /\ Len(cases) \in Nat
  <2>1. limit \in Nat /\ limit >= Few!StandardStreams /\ Len(cases) \in Nat
        /\ pos \in 1..(Len(cases) + 1)
    BY DEF SuiteInv, Placed
  <2> QED BY <2>1
<1>3. Placed'
  BY <1>1, <1>2 DEF Placed, Few!NoFile
<1>4. KnownCodes'
  BY <1>1, <1>2, CodesKept DEF KnownCodes
<1>5. Programs'
  BY <1>1, <1>2 DEF Programs, OldRejected, Few!NoFile
<1> QED BY <1>1, <1>2, <1>3, <1>4, <1>5 DEF SuiteInv, Few!StandardStreams

(* A call of process_run leaves no more open than may be.                  *)
LEMMA RunsRoom ==
  ASSUME SuiteInv, Few!Runs \/ Few!CannotRun
  PROVE  open' \in 0..limit
<1>1. open \in 0..limit /\ limit \in Nat
  BY DEF SuiteInv, Placed
<1>2. CASE Few!Runs
  BY <1>1, <1>2 DEF Few!Runs, Few!Room, Few!Peak, Few!Destroyed
<1>3. CASE Few!CannotRun
  <2>1. PICK leak \in {0, 2, 3} : open + leak <= limit /\ open' = open + leak
    BY <1>3 DEF Few!CannotRun, Few!Room, Few!NotStarted
  <2> QED BY <1>1, <2>1
<1> QED BY <1>2, <1>3

LEMMA OwnPlace == ASSUME NEW k \in Nat, NEW n \in 1..(k + 1) PROVE n \in 0..n
  OBVIOUS

(* run() leaves dragon.out as it was, or makes the one of this case.       *)
LEMMA GoOn ==
  ASSUME SuiteInv, UNCHANGED <<cases, limit>>, at = "compile",
         limit \in Nat, open' \in 0..limit,
         UNCHANGED <<pos, passed, failed, skipped, gccOut, dragonCode, gccCode>>,
         dragonOut' \in {dragonOut, pos}, at' = "res1" \/ (at' = "res0" /\ dragonOut' = pos)
  PROVE  SuiteInv'
<1>1. pos \in 1..(Len(cases) + 1) /\ dragonOut \in 0..pos /\ gccOut \in 0..pos
      /\ Len(cases) \in Nat /\ pos <= Len(cases)
  BY DEF SuiteInv, Placed, OnCase
<1>2. Placed' /\ OnCase'
  <2>1. dragonOut' \in 0..pos
    <3>1. dragonOut' = dragonOut \/ dragonOut' = pos
      OBVIOUS
    <3>2. pos \in 0..pos
      BY <1>1, OwnPlace
    <3> QED BY <1>1, <3>1, <3>2
  <2>2. cases' = cases /\ limit' = limit /\ pos' = pos /\ gccOut' = gccOut /\ at' \in {"res0", "res1"}
    OBVIOUS
  <2> QED BY <1>1, <2>1, <2>2 DEF Placed, OnCase
<1>3. KnownCodes' /\ Sum' /\ Counted'
  BY DEF SuiteInv, KnownCodes, Sum, Counted
<1>4. (dragonOut # Few!NoFile => ~cases[dragonOut].isValid) /\ gccOut = Few!NoFile
  BY DEF SuiteInv, Programs, OldRejected
<1>5. Programs'
  BY <1>4 DEF Programs, OwnOrRejected
<1> QED BY <1>2, <1>3, <1>5 DEF SuiteInv, Few!StandardStreams

LEMMA SuiteStarts ==
  ASSUME Few!Init, limit \in Nat, limit >= Few!StandardStreams, Len(cases) \in Nat
  PROVE  SuiteInv
<1>1. Placed /\ Sum /\ Counted /\ OnCase /\ Programs
  BY DEF Few!Init, Few!StandardStreams, Few!NoFile, Placed, Sum, Counted, OnCase, Programs,
         OldRejected
<1>2. KnownCodes
  BY DEF Few!Init, Few!NoCode, Few!Codes, KnownCodes
<1> QED BY <1>1, <1>2 DEF SuiteInv

(* Each step of the suite keeps it.                                        *)
LEMMA SuiteStep == ASSUME SuiteInv, Few!Test PROVE SuiteInv'
<1>1. /\ cases' = cases /\ limit' = limit /\ Len(cases) \in Nat
      /\ limit \in Nat /\ limit >= Few!StandardStreams
      /\ Placed /\ KnownCodes /\ Sum /\ Counted /\ OnCase /\ Programs
  BY DEF SuiteInv, Few!Test
<1>2. ASSUME UNCHANGED <<pos, passed, failed, skipped>>,
             Placed', KnownCodes', OnCase', Programs'
      PROVE  SuiteInv'
  BY <1>1, <1>2 DEF SuiteInv, Sum, Counted
<1>3. ASSUME UNCHANGED <<pos, dragonCode, gccCode>> PROVE KnownCodes'
  BY <1>1, <1>3 DEF KnownCodes
<1>4. /\ dragonCode \in [of : 0..pos, code : Few!Codes]
      /\ gccCode \in [of : 0..pos, code : Few!Codes]
      /\ pos \in 1..(Len(cases) + 1) /\ open \in 0..limit /\ dragonOut \in 0..pos /\ gccOut \in 0..pos
      /\ at = "compile" => open >= 2
  BY <1>1 DEF KnownCodes, Placed, Programs
<1>5. ASSUME at = "compile"
      PROVE  /\ open - 2 \in 0..limit
             /\ \A leak \in {0, 2, 3} :
                    /\ open + leak <= limit => open - 2 + leak \in 0..limit
                    /\ open + (2 + leak) <= limit => open - 2 + 2 + leak \in 0..limit
             /\ open + (2 + 6) <= limit => open - 2 + 2 * 2 \in 0..limit
  BY <1>1, <1>4, <1>5
<1> USE DEF Placed, OnCase, Programs, OldRejected, OwnOrRejected,
            Few!NoFile, Few!files, Few!codes, Few!counters, Few!Go, Few!Room,
            Few!Peak, Few!Destroyed, Few!Case
<1>6. CASE Few!Pipes
  <2>1. CASE Few!Room(4)
    BY <1>1, <1>2, <1>3, <1>6, <2>1 DEF Few!Pipes
  <2>2. CASE ~Few!Room(4)
    <3>1. Few!Verdict("failed") /\ at = "pipes" /\ pos <= Len(cases)
      BY <1>6, <2>2 DEF Few!Pipes
    <3>2. open' \in 0..limit /\ UNCHANGED <<dragonOut, gccOut, dragonCode, gccCode>>
      BY <1>1, <1>6, <2>2 DEF Few!Pipes
    <3> QED BY <1>1, <1>4, <3>1, <3>2, VerdictKeeps
  <2> QED BY <2>1, <2>2
<1>7. CASE Few!Reject
  <2>1. /\ at = "compile" /\ at' = "res1" /\ open' = open - 2
        /\ UNCHANGED <<pos, passed, failed, skipped, dragonOut, gccOut, dragonCode, gccCode>>
    BY <1>7 DEF Few!Reject
  <2>2. open' \in 0..limit
    BY <1>5, <2>1
  <2> QED BY <1>1, <2>1, <2>2, GoOn
<1>8. CASE Few!NasmFails
  <2>1. /\ at = "compile" /\ at' = "res1"
        /\ UNCHANGED <<pos, passed, failed, skipped, dragonOut, gccOut, dragonCode, gccCode>>
    BY <1>8 DEF Few!NasmFails
  <2>2. PICK leak \in {0, 2, 3} : open + leak <= limit /\ open' = open - 2 + leak
    BY <1>8 DEF Few!NasmFails, Few!NotStarted, Few!Abandoned
  <2>3. open' \in 0..limit
    BY <1>5, <2>1, <2>2
  <2> QED BY <1>1, <2>1, <2>3, GoOn
<1>9. CASE Few!LdFails
  <2>1. /\ at = "compile" /\ at' = "res1" /\ dragonOut' \in {dragonOut, pos}
        /\ UNCHANGED <<pos, passed, failed, skipped, gccOut, dragonCode, gccCode>>
    BY <1>9 DEF Few!LdFails
  <2>2. PICK leak \in {0, 2, 3} : open + (2 + leak) <= limit /\ open' = open - 2 + 2 + leak
    BY <1>9 DEF Few!LdFails, Few!NotStarted, Few!Abandoned
  <2>3. open' \in 0..limit
    BY <1>5, <2>1, <2>2
  <2> QED BY <1>1, <2>1, <2>3, GoOn
<1>10. CASE Few!Compile
  <2>1. /\ at = "compile" /\ at' = "res0" /\ dragonOut' = pos
        /\ UNCHANGED <<pos, passed, failed, skipped, gccOut, dragonCode, gccCode>>
    BY <1>10 DEF Few!Compile
  <2>2. open' = open - 2 + 2 * 2 /\ open + (2 + 6) <= limit
    BY <1>10 DEF Few!Compile
  <2>3. open' \in 0..limit
    BY <1>5, <2>1, <2>2
  <2> QED BY <1>1, <2>1, <2>3, GoOn
<1>11. CASE Few!JudgeFailure
  <2>1. PICK counter \in {"passed", "failed", "skipped"} : Few!Verdict(counter)
    BY <1>11 DEF Few!JudgeFailure
  <2>2. /\ at = "res1" /\ pos <= Len(cases) /\ UNCHANGED <<open, gccOut, dragonCode, gccCode>>
        /\ dragonOut' = IF cases[pos].isValid THEN 0 ELSE dragonOut
    BY <1>1, <1>11 DEF Few!JudgeFailure
  <2> QED BY <1>1, <1>4, <2>1, <2>2, VerdictKeeps
<1>12. CASE Few!JudgeSuccess
  <2>1. CASE Few!Case.isValid
    BY <1>1, <1>2, <1>3, <1>12, <2>1 DEF Few!JudgeSuccess
  <2>2. CASE ~Few!Case.isValid
    BY <1>1, <1>4, <1>12, <2>2, VerdictKeeps DEF Few!JudgeSuccess
  <2> QED BY <2>1, <2>2
<1>13. CASE Few!RunDragonOut
  <2>1. open' \in 0..limit /\ pos <= Len(cases) /\ dragonOut' = 0 /\ gccOut' = gccOut
        /\ gccCode' = gccCode /\ at = "dragon.out"
    BY <1>1, <1>13, RunsRoom DEF Few!RunDragonOut
  <2>2. ASSUME Few!Go("gcc"), NEW code \in Few!Codes, dragonCode' = [of |-> dragonOut, code |-> code]
        PROVE  SuiteInv'
    <3>1. KnownCodes' /\ dragonCode'.of = pos
      BY <1>1, <1>4, <2>1, <2>2 DEF KnownCodes
    <3> QED BY <1>1, <1>2, <2>1, <2>2, <3>1
  <2>3. CASE Few!Verdict("failed") /\ UNCHANGED dragonCode
    BY <1>1, <1>4, <2>1, <2>3, VerdictKeeps
  <2> QED BY <1>13, <2>2, <2>3 DEF Few!RunDragonOut
<1>14. CASE Few!RunGcc
  <2>1. open' \in 0..limit /\ pos <= Len(cases) /\ at = "gcc" /\ UNCHANGED <<dragonCode, gccCode>>
    BY <1>1, <1>14, RunsRoom DEF Few!RunGcc
  <2>2. CASE Few!Go("gcc.out") /\ gccOut' \in {gccOut, pos} /\ dragonOut' = dragonOut
    BY <1>1, <1>2, <1>3, <2>1, <2>2
  <2>3. CASE Few!Verdict("failed") /\ gccOut' = 0 /\ dragonOut' = 0
    BY <1>1, <1>4, <2>1, <2>3, VerdictKeeps
  <2> QED BY <1>14, <2>2, <2>3 DEF Few!RunGcc
<1>15. CASE Few!RunGccOut
  <2>1. open' \in 0..limit /\ pos <= Len(cases) /\ at = "gcc.out" /\ gccOut' = 0
        /\ UNCHANGED <<dragonOut, dragonCode>>
    BY <1>1, <1>15, RunsRoom DEF Few!RunGccOut
  <2>2. ASSUME Few!Go("compare"), gccOut # 0,
               NEW code \in Few!Codes, gccCode' = [of |-> gccOut, code |-> code]
        PROVE  SuiteInv'
    <3>1. KnownCodes' /\ gccCode'.of = pos
      BY <1>1, <1>4, <2>1, <2>2 DEF KnownCodes
    <3> QED BY <1>1, <1>2, <2>1, <2>2, <3>1
  <2>3. CASE Few!Verdict("failed") /\ UNCHANGED gccCode
    BY <1>1, <1>4, <2>1, <2>3, VerdictKeeps
  <2> QED BY <1>15, <2>2, <2>3 DEF Few!RunGccOut
<1>16. CASE Few!Compare
  <2>1. PICK counter \in {"passed", "failed", "skipped"} : Few!Verdict(counter)
    BY <1>16 DEF Few!Compare
  <2>2. /\ at = "compare" /\ pos <= Len(cases)
        /\ UNCHANGED <<open, dragonOut, gccOut, dragonCode, gccCode>>
    BY <1>1, <1>16 DEF Few!Compare
  <2> QED BY <1>1, <1>4, <2>1, <2>2, VerdictKeeps
<1>17. CASE Few!Block
  <2>1. /\ at \in {"compile", "gcc", "gcc.out"} /\ at' = "blocked"
        /\ UNCHANGED <<pos, passed, failed, skipped, dragonOut, gccOut, dragonCode, gccCode>>
    BY <1>17 DEF Few!Block
  <2>2. PICK before \in {0, 2} : open + (before + 6) <= limit /\ open' = open + before + 3
    BY <1>17 DEF Few!Block, Few!Abandoned
  <2>3. open' \in 0..limit
    <3>1. \A n \in Nat : n <= limit => n \in 0..limit
      BY <1>1
    <3>2. open + before + 3 \in Nat /\ open + before + 3 <= open + (before + 6)
      BY <1>4, <2>2
    <3>3. open + (before + 6) \in Nat
      BY <1>4, <2>2
    <3> QED BY <1>1, <2>2, <3>1, <3>2, <3>3
  <2>4. Placed' /\ OnCase' /\ KnownCodes'
    BY <1>1, <1>3, <2>1, <2>3
  <2>5. Programs'
    BY <1>1, <2>1
  <2> QED BY <1>2, <2>1, <2>4, <2>5
<1> QED
  BY <1>6, <1>7, <1>8, <1>9, <1>10, <1>11, <1>12, <1>13, <1>14, <1>15, <1>16, <1>17
     DEF Few!Test, Few!Run

(* It says that the verdicts are sound.                                    *)
LEMMA SuiteSound == SuiteInv => Few!VerdictsSound
  BY DEF SuiteInv, Placed, KnownCodes, Sum, Programs, OldRejected, Few!VerdictsSound, Few!TypeOK,
         Few!ComparesOwnPrograms, Few!DirectoryClean, Few!NoFile
----------------------------------------------------------------------------
(* The descriptors the cases of the repository hold: at most twelve for    *)
(* each case that is over, and fewer while it is tested.                   *)
Places == {"pipes", "compile", "res0", "res1", "dragon.out", "gcc", "gcc.out", "compare"}
Spent ==
    [step \in Places |->
        CASE step = "pipes" -> 0 [] step = "compile" -> 4 [] step = "res1" -> 2
          [] step \in {"res0", "dragon.out"} -> 6 [] step = "gcc" -> 8
          [] step = "gcc.out" -> 10 [] step = "compare" -> 12]
PipesInv ==
    /\ limit = Usual /\ cases = FourStages
    /\ at \in Places
    /\ open <= Few!StandardStreams + 12 * (pos - 1) + Spent[at]

LEMMA SpentIs ==
  /\ Spent["pipes"] = 0 /\ Spent["compile"] = 4 /\ Spent["res1"] = 2
  /\ Spent["res0"] = 6 /\ Spent["dragon.out"] = 6 /\ Spent["gcc"] = 8
  /\ Spent["gcc.out"] = 10 /\ Spent["compare"] = 12
  BY DEF Spent, Places

LEMMA ShippedCases == Len(FourStages) = 72
<1> DEFINE T == {A(TRUE), A(FALSE)}
<1>1. ASSUME NEW v \in Nat, NEW i \in Nat
      PROVE  Stage(v, i) \in Seq(T) /\ Len(Stage(v, i)) = v + i
  <2> DEFINE valid == [n \in 1..v |-> A(TRUE)]
             invalid == [n \in 1..i |-> A(FALSE)]
  <2>1. valid \in Seq(T) /\ Len(valid) = v
    OBVIOUS
  <2>2. invalid \in Seq(T) /\ Len(invalid) = i
    OBVIOUS
  <2>3. ASSUME NEW S, NEW a \in Seq(S), NEW b \in Seq(S)
        PROVE  a \o b \in Seq(S) /\ Len(a \o b) = Len(a) + Len(b)
    OBVIOUS
  <2>4. Stage(v, i) = valid \o invalid
    BY DEF Stage
  <2> HIDE DEF valid, invalid, T
  <2> QED BY <2>1, <2>2, <2>3, <2>4
<1> HIDE DEF T
<1>2. ASSUME NEW S, NEW a \in Seq(S), NEW b \in Seq(S), NEW c \in Seq(S), NEW d \in Seq(S)
      PROVE  Len(a \o b \o c \o d) = Len(a) + Len(b) + Len(c) + Len(d)
  OBVIOUS
<1>3. /\ Stage(6, 6) \in Seq(T) /\ Stage(7, 4) \in Seq(T)
      /\ Stage(12, 4) \in Seq(T) /\ Stage(29, 4) \in Seq(T)
  BY <1>1
<1>4. /\ Len(Stage(6, 6)) = 6 + 6 /\ Len(Stage(7, 4)) = 7 + 4
      /\ Len(Stage(12, 4)) = 12 + 4 /\ Len(Stage(29, 4)) = 29 + 4
  BY <1>1
<1>5. ASSUME NEW a \in Seq(T), NEW b \in Seq(T), NEW c \in Seq(T), NEW d \in Seq(T),
             Len(a) = 6 + 6, Len(b) = 7 + 4, Len(c) = 12 + 4, Len(d) = 29 + 4
      PROVE  Len(a \o b \o c \o d) = 72
  <2>1. Len(a \o b \o c \o d) = Len(a) + Len(b) + Len(c) + Len(d)
    BY <1>2
  <2> QED BY <1>5, <2>1
<1>6. Len(Stage(6, 6) \o Stage(7, 4) \o Stage(12, 4) \o Stage(29, 4)) = 72
  BY <1>3, <1>4, <1>5
<1> QED BY <1>6 DEF FourStages

(* Whatever is run next has the descriptors it needs.                      *)
LEMMA RoomLeft ==
  ASSUME SuiteInv, PipesInv
  PROVE  /\ Len(cases) = 72 /\ limit = 1024 /\ pos \in 1..73 /\ open \in Nat /\ Spent[at] \in 0..12
         /\ pos <= Len(cases) => open + 8 <= limit
<1>1. Len(cases) = 72 /\ limit = 1024
  BY ShippedCases DEF PipesInv, Usual
<1>2. pos \in 1..(Len(cases) + 1) /\ open \in 0..limit
      /\ at \in {"pipes", "compile", "res0", "res1", "dragon.out", "gcc", "gcc.out", "compare"}
  BY DEF SuiteInv, Placed, PipesInv, Places
<1>3. Spent[at] \in 0..12
  BY <1>2, SpentIs
<1>4. open <= 3 + 12 * (pos - 1) + Spent[at]
  BY DEF PipesInv, Few!StandardStreams
<1> QED BY <1>1, <1>2, <1>3, <1>4

LEMMA PipesGo ==
  ASSUME SuiteInv, PipesInv, UNCHANGED <<cases, limit>>,
         NEW step \in Places,
         at' = step, NEW n \in Int, open' = open + n,
         \/ pos' = pos /\ n <= Spent[step] - Spent[at]
         \/ pos' = pos + 1 /\ n <= 12 + Spent[step] - Spent[at]
  PROVE  PipesInv'
<1>1. pos \in 1..73 /\ open \in Nat /\ Spent[at] \in 0..12
  BY RoomLeft
<1>2. Spent[step] \in 0..12 /\ Spent[at'] = Spent[step]
  BY SpentIs DEF Places
<1>3. open <= 3 + 12 * (pos - 1) + Spent[at]
  BY DEF PipesInv, Few!StandardStreams
<1>4. open' <= 3 + 12 * (pos' - 1) + Spent[step]
  BY <1>1, <1>2, <1>3
<1> QED BY <1>2, <1>4 DEF PipesInv, Few!StandardStreams

(* Each step of the suite where nothing fails keeps it.                    *)
LEMMA PipesStep == ASSUME SuiteInv, PipesInv, All!Test PROVE PipesInv'
<1>1. /\ Len(cases) = 72 /\ limit = 1024 /\ pos \in 1..73 /\ open \in Nat
      /\ pos <= Len(cases) => open + 8 <= limit
  BY RoomLeft
<1>2. UNCHANGED <<cases, limit>>
  BY DEF All!Test
<1>3. at # "pipes" => open + 8 <= limit
  BY <1>1 DEF SuiteInv, OnCase
<1>4. at # "pipes" => open + 6 <= limit /\ open + (2 + 6) <= limit
  BY <1>1, <1>3
<1>5. open + 0 = open
  BY <1>1
<1> USE DEF All!Room, All!Runs, All!CannotRun, All!Peak, All!Destroyed, All!Go, All!Verdict,
            All!codes, All!files, All!counters
<1>6. CASE All!Pipes
  <2>1. at = "pipes" /\ open + 4 <= limit
    BY <1>1, <1>6 DEF All!Pipes
  <2>2. open' = open + 4 /\ pos' = pos /\ at' = "compile"
    BY <1>6, <2>1 DEF All!Pipes
  <2> QED BY <1>2, <2>1, <2>2, PipesGo, SpentIs DEF Places
<1>7. CASE All!Reject
  <2>1. at = "compile" /\ open' = open + (-2) /\ pos' = pos /\ at' = "res1"
    BY <1>1, <1>7 DEF All!Reject
  <2> QED BY <1>2, <2>1, PipesGo, SpentIs DEF Places
<1>8. CASE All!NasmFails
  BY <1>4, <1>8 DEF All!NasmFails
<1>9. CASE All!LdFails
  BY <1>4, <1>9 DEF All!LdFails
<1>10. CASE All!Compile
  <2>1. at = "compile" /\ open' = open - 2 + 2 * 2 /\ pos' = pos /\ at' = "res0"
    BY <1>10 DEF All!Compile
  <2>2. open - 2 + 2 * 2 = open + 2
    BY <1>1
  <2> QED BY <1>2, <2>1, <2>2, PipesGo, SpentIs DEF Places
<1>11. CASE All!JudgeFailure
  <2>1. at = "res1" /\ open' = open + 0 /\ pos' = pos + 1 /\ at' = "pipes"
    BY <1>5, <1>11 DEF All!JudgeFailure
  <2> QED BY <1>2, <2>1, PipesGo, SpentIs DEF Places
<1>12. CASE All!JudgeSuccess
  <2>1. /\ at = "res0" /\ open' = open + 0
        /\ \/ pos' = pos /\ at' = "dragon.out"
           \/ pos' = pos + 1 /\ at' = "pipes"
    BY <1>5, <1>12 DEF All!JudgeSuccess
  <2> QED BY <1>2, <2>1, PipesGo, SpentIs DEF Places
<1>13. CASE All!RunDragonOut
  <2>1. at = "dragon.out" /\ open' = open + 2 /\ pos' = pos /\ at' = "gcc"
    BY <1>4, <1>13 DEF All!RunDragonOut
  <2> QED BY <1>2, <2>1, PipesGo, SpentIs DEF Places
<1>14. CASE All!RunGcc
  <2>1. at = "gcc" /\ open' = open + 2 /\ pos' = pos /\ at' = "gcc.out"
    BY <1>4, <1>14 DEF All!RunGcc
  <2> QED BY <1>2, <2>1, PipesGo, SpentIs DEF Places
<1>15. CASE All!RunGccOut
  <2>1. at = "gcc.out" /\ open' = open + 2 /\ pos' = pos /\ at' = "compare"
    BY <1>4, <1>15 DEF All!RunGccOut
  <2> QED BY <1>2, <2>1, PipesGo, SpentIs DEF Places
<1>16. CASE All!Compare
  <2>1. at = "compare" /\ open' = open + 0 /\ pos' = pos + 1 /\ at' = "pipes"
    BY <1>5, <1>16 DEF All!Compare
  <2> QED BY <1>2, <2>1, PipesGo, SpentIs DEF Places
<1>17. ~All!Block
  BY DEF All!Block
<1> QED
  BY <1>6, <1>7, <1>8, <1>9, <1>10, <1>11, <1>12, <1>13, <1>14, <1>15, <1>16, <1>17
     DEF All!Test, All!Run
----------------------------------------------------------------------------
(* Paths: what lies within what. *)

Path == Seq(STRING)

LEMMA Prefix ==
  ASSUME NEW p \in Path, NEW k \in 0..Len(p)
  PROVE  /\ SubSeq(p, 1, k) \in Path /\ Len(SubSeq(p, 1, k)) = k
         /\ \A i \in 1..k : SubSeq(p, 1, k)[i] = p[i]
<1>1. Len(p) \in Nat /\ \A i \in 1..Len(p) : p[i] \in STRING
  BY DEF Path
<1>2. \A i \in 1..k : i \in 1..Len(p)
  BY <1>1
<1>3. /\ SubSeq(p, 1, k) \in Seq(STRING)
      /\ Len(SubSeq(p, 1, k)) = IF 1 <= k THEN k - 1 + 1 ELSE 0
      /\ \A i \in 1..(k - 1 + 1) : SubSeq(p, 1, k)[i] = p[1 + i - 1]
  BY <1>1, <1>2, SubSeqProperties
<1>4. k - 1 + 1 = k /\ (1 <= k \/ k = 0) /\ \A i \in 1..k : 1 + i - 1 = i
  BY <1>1
<1> DEFINE s == SubSeq(p, 1, k)
<1>5. /\ s \in Path /\ Len(s) = IF 1 <= k THEN k ELSE 0
      /\ \A i \in 1..k : s[i] = p[1 + i - 1]
  BY <1>3, <1>4 DEF Path
<1> HIDE DEF s
<1>6. s \in Path /\ Len(s) = k /\ \A i \in 1..k : s[i] = p[i]
  BY <1>4, <1>5
<1> QED BY <1>6 DEF s

LEMMA SamePath ==
  ASSUME NEW p \in Path, NEW q \in Path, Len(p) = Len(q), \A k \in 1..Len(p) : p[k] = q[k]
  PROVE  p = q
BY SeqEqual DEF Path

LEMMA WithinPlaces ==
  ASSUME NEW p \in Path, NEW d \in Path
  PROVE  Within(p, d) <=> Len(d) =< Len(p) /\ \A k \in 1..Len(d) : p[k] = d[k]
<1>1. Len(p) \in Nat /\ Len(d) \in Nat
  BY DEF Path
<1>2. CASE ~(Len(d) =< Len(p))
  BY <1>1, <1>2 DEF Within
<1>3. CASE Len(d) =< Len(p)
  <2> DEFINE s == SubSeq(p, 1, Len(d))
  <2>1. s \in Path /\ Len(s) = Len(d) /\ \A k \in 1..Len(d) : s[k] = p[k]
    <3>1. Len(d) \in 0..Len(p)
      BY <1>1, <1>3
    <3> QED BY <3>1, Prefix
  <2>2. Within(p, d) <=> s = d
    BY <1>1, <1>3 DEF Within
  <2> HIDE DEF s
  <2>3. s = d <=> \A k \in 1..Len(d) : p[k] = d[k]
    <3>1. ASSUME \A k \in 1..Len(d) : p[k] = d[k] PROVE s = d
      BY <2>1, <3>1, SamePath
    <3>2. ASSUME s = d PROVE \A k \in 1..Len(d) : p[k] = d[k]
      BY <2>1, <3>2
    <3> QED BY <3>1, <3>2
  <2> QED BY <1>3, <2>2, <2>3
<1> QED BY <1>2, <1>3

LEMMA WithinOrder ==
  ASSUME NEW p \in Path, NEW d \in Path
  PROVE  /\ Len(p) \in Nat /\ Within(p, p)
         /\ Within(p, d) => Len(p) >= Len(d)
         /\ Within(p, d) /\ Len(p) = Len(d) => p = d
         /\ \A q \in Path : Within(q, p) /\ Within(p, d) => Within(q, d)
         /\ \A q \in Path : Within(q, p) /\ Within(q, d) /\ Len(d) =< Len(p) => Within(p, d)
<1>1. Len(p) \in Nat /\ Len(d) \in Nat
  BY DEF Path
<1>2. Within(p, p) /\ (Within(p, d) => Len(p) >= Len(d))
  BY <1>1, WithinPlaces
<1>3. Within(p, d) /\ Len(p) = Len(d) => p = d
  BY <1>1, WithinPlaces, SamePath
<1>4. ASSUME NEW q \in Path, Within(q, p), Within(p, d) PROVE Within(q, d)
  <2>1. Len(q) \in Nat /\ Len(p) =< Len(q) /\ \A k \in 1..Len(p) : q[k] = p[k]
    BY <1>4, WithinPlaces DEF Path
  <2>2. Len(d) =< Len(p) /\ \A k \in 1..Len(d) : p[k] = d[k]
    BY <1>4, WithinPlaces
  <2>3. Len(d) =< Len(q) /\ \A k \in 1..Len(d) : q[k] = d[k]
    BY <1>1, <2>1, <2>2
  <2> QED BY <2>3, WithinPlaces
<1>5. ASSUME NEW q \in Path, Within(q, p), Within(q, d), Len(d) =< Len(p) PROVE Within(p, d)
  <2>1. \A k \in 1..Len(p) : q[k] = p[k]
    BY <1>5, WithinPlaces
  <2>2. \A k \in 1..Len(d) : q[k] = d[k]
    BY <1>5, WithinPlaces
  <2>3. \A k \in 1..Len(d) : p[k] = d[k]
    BY <1>1, <1>5, <2>1, <2>2
  <2> QED BY <1>5, <2>3, WithinPlaces
<1> QED BY <1>1, <1>2, <1>3, <1>4, <1>5

(* The entries of a directory lie in it, one name deeper.                  *)
LEMMA ParentIs ==
  ASSUME NEW p \in Path, NEW d \in Path
  PROVE  Len(p) > 0 /\ Parent(p) = d <=> Len(p) = Len(d) + 1 /\ Within(p, d)
<1>1. Len(p) \in Nat /\ Len(d) \in Nat
  BY DEF Path
<1>2. ASSUME Len(p) > 0, Parent(p) = d PROVE Len(p) = Len(d) + 1 /\ Within(p, d)
  <2>1. Len(p) - 1 \in 0..Len(p)
    BY <1>1, <1>2
  <2>2. Len(d) = Len(p) - 1 /\ SubSeq(p, 1, Len(p) - 1) = d
    BY <1>2, <2>1, Prefix DEF Parent
  <2> QED BY <1>1, <2>2 DEF Within
<1>3. ASSUME Len(p) = Len(d) + 1, Within(p, d) PROVE Len(p) > 0 /\ Parent(p) = d
  <2>1. Len(p) - 1 = Len(d) /\ Len(p) > 0
    BY <1>1, <1>3
  <2> QED BY <1>3, <2>1 DEF Within, Parent
<1> QED BY <1>2, <1>3

(* Trees: all directories on the way to what exists exist.                 *)
Rooted(tree) ==
    \A p \in DOMAIN tree :
        /\ p \in Path /\ p # <<>> /\ tree[p] \in {"dir", "file", "other"}
        /\ \A k \in 1..(Len(p) - 1) :
               SubSeq(p, 1, k) \in DOMAIN tree /\ tree[SubSeq(p, 1, k)] = "dir"

LEMMA WayDown ==
  ASSUME Rooted(files), NEW p \in DOMAIN files, NEW d \in Path, Within(p, d), p # d
  PROVE  /\ d # <<>> => d \in DOMAIN files /\ IsDir(d)
         /\ \E c \in DOMAIN files : Within(p, c) /\ Within(c, d) /\ Len(c) = Len(d) + 1
<1>1. p \in Path /\ p # <<>> /\ Len(p) \in Nat /\ Len(d) \in Nat /\ Len(d) < Len(p)
  <2>1. p \in Path /\ p # <<>>
    BY DEF Rooted
  <2> QED BY <2>1, WithinOrder
<1>2. ASSUME d # <<>> PROVE d \in DOMAIN files /\ IsDir(d)
  <2>1. Len(d) \in 1..(Len(p) - 1)
    <3>1. Len(d) # 0
      BY <1>2, EmptySeq DEF Path
    <3> QED BY <1>1, <3>1
  <2>2. SubSeq(p, 1, Len(d)) = d
    BY DEF Within
  <2>3. /\ SubSeq(p, 1, Len(d)) \in DOMAIN files
        /\ files[SubSeq(p, 1, Len(d))] = "dir"
    BY <2>1 DEF Rooted
  <2> QED BY <2>2, <2>3 DEF IsDir
<1>3. \E c \in DOMAIN files : Within(p, c) /\ Within(c, d) /\ Len(c) = Len(d) + 1
  <2>1. CASE Len(p) = Len(d) + 1
    BY <1>1, <2>1, WithinOrder
  <2>2. CASE Len(p) # Len(d) + 1
    <3> DEFINE c == SubSeq(p, 1, Len(d) + 1)
    <3>1. Len(d) + 1 \in 1..(Len(p) - 1) /\ Len(d) + 1 \in 0..Len(p)
      BY <1>1, <2>2
    <3>2. c \in DOMAIN files
      BY <3>1 DEF Rooted
    <3>3. c \in Path /\ Len(c) = Len(d) + 1 /\ \A k \in 1..(Len(d) + 1) : c[k] = p[k]
      BY <1>1, <3>1, Prefix
    <3> HIDE DEF c
    <3>4. Within(p, c)
      BY <1>1, <3>1, <3>3, WithinPlaces
    <3>5. Within(c, d)
      BY <1>1, <3>1, <3>3, <3>4, WithinOrder
    <3> QED BY <3>2, <3>3, <3>4, <3>5
  <2> QED BY <2>1, <2>2
<1> QED BY <1>2, <1>3
----------------------------------------------------------------------------
(* The directories that are open, level by level, and what readdir has not *)
(* returned of each: tests/cases itself is level 0.                        *)

DirsOf(F)    == [n \in 0..Len(F) |-> IF n = 0 THEN <<>> ELSE F[n].dir]
LeftOf(F, U) == [n \in 0..Len(F) |-> IF n = 0 THEN U ELSE F[n].unread]

Nested(N, d, u) ==
    /\ N \in Nat
    /\ \A n \in 0..N :
           /\ d[n] \in Path /\ Len(d[n]) = n
           /\ n > 0 => d[n] \in DOMAIN files /\ IsDir(d[n])
           /\ \A q \in u[n] : q \in DOMAIN files /\ Len(q) = n + 1 /\ Within(q, d[n])
    /\ \A m, n \in 0..N : m < n =>
           Within(d[n], d[m]) /\ \A q \in u[m] : ~Within(d[n], q)
    /\ N > 0 => Selected(d[1])

(* What lies in, or is, something readdir has not returned yet.            *)
Waits(N, u, p) == \E n \in 0..N : \E q \in u[n] : Within(p, q)

(* A directory that could not be opened has nothing to do with those.      *)
Apart(N, u, p) == \A n \in 0..N : \A q \in u[n] : ~Within(p, q) /\ ~Within(q, p)

(* What waits at one level does not lie in what waits at another.          *)
LEMMA WaitApart ==
  ASSUME Rooted(files), NEW N, NEW d, NEW u, Nested(N, d, u), NEW q \in u[N],
         NEW m \in 0..N, NEW r \in u[m], Within(q, r) \/ Within(r, q)
  PROVE  m = N /\ r = q
<1>1. /\ N \in Nat /\ N \in 0..N /\ q \in Path /\ Len(q) = N + 1 /\ Within(q, d[N])
      /\ r \in Path /\ Len(r) = m + 1 /\ d[N] \in Path /\ Len(d[N]) = N
  BY DEF Nested, Rooted
<1>2. CASE m = N
  BY <1>1, <1>2, WithinOrder
<1>3. CASE m < N
  <2>1. Within(q, r)
    BY <1>1, <1>3, WithinOrder
  <2>2. Within(d[N], r)
    BY <1>1, <1>3, <2>1, WithinOrder
  <2> QED BY <1>1, <1>3, <2>2 DEF Nested
<1> QED BY <1>1, <1>2, <1>3

(* readdir returns an entry.                                               *)
LEMMA EntryTaken ==
  ASSUME Rooted(files), NEW N, NEW d, NEW u, Nested(N, d, u), NEW q \in u[N],
         NEW v, \A n \in 0..N : v[n] = IF n = N THEN u[n] \ {q} ELSE u[n]
  PROVE  /\ Nested(N, d, v)
         /\ \A p \in DOMAIN files : Waits(N, v, p) <=> Waits(N, u, p) /\ ~Within(p, q)
         /\ \A p \in DOMAIN files : Within(p, q) => Waits(N, u, p)
         /\ \A p \in Path : Apart(N, u, p) => Apart(N, v, p)
         /\ Apart(N, v, q)
<1>1. /\ N \in Nat /\ N \in 0..N /\ q \in Path /\ q \in DOMAIN files
      /\ \A n \in 0..N : v[n] \subseteq u[n] /\ u[n] \subseteq Path
      /\ \A n \in 0..N : \A r \in v[n] : ~(n = N /\ r = q)
      /\ \A n \in 0..N : \A r \in u[n] : (n = N /\ r = q) \/ r \in v[n]
  <2>1. N \in Nat /\ N \in 0..N
    BY DEF Nested
  <2>2. DOMAIN files \subseteq Path
    BY DEF Rooted
  <2>3. \A n \in 0..N : u[n] \subseteq DOMAIN files
    BY DEF Nested
  <2>4. \A n \in 0..N : v[n] \subseteq u[n]
    OBVIOUS
  <2>5. \A n \in 0..N : \A r \in v[n] : ~(n = N /\ r = q)
    OBVIOUS
  <2>6. \A n \in 0..N : \A r \in u[n] : (n = N /\ r = q) \/ r \in v[n]
    OBVIOUS
  <2> QED BY <2>1, <2>2, <2>3, <2>4, <2>5, <2>6
<1>2. Nested(N, d, v)
  BY <1>1 DEF Nested
<1>3. \A p \in DOMAIN files : Within(p, q) => Waits(N, u, p)
  BY <1>1 DEF Waits
<1>4. ASSUME NEW p \in DOMAIN files, Waits(N, v, p) PROVE Waits(N, u, p) /\ ~Within(p, q)
  <2>1. PICK n \in 0..N : \E r \in v[n] : Within(p, r)
    BY <1>4 DEF Waits
  <2>2. PICK r \in v[n] : Within(p, r)
    BY <2>1
  <2>3. r \in u[n] /\ r \in Path /\ p \in Path
    BY <1>1 DEF Rooted
  <2>4. ASSUME Within(p, q) PROVE FALSE
    <3>1. Within(q, r) \/ Within(r, q)
      <4>1. Len(q) \in Nat /\ Len(r) \in Nat
        BY <1>1, <2>3 DEF Path
      <4> QED BY <1>1, <2>2, <2>3, <2>4, <4>1, WithinOrder
    <3> QED BY <1>1, <2>3, <3>1, WaitApart
  <2> QED BY <2>2, <2>3, <2>4 DEF Waits
<1>5. ASSUME NEW p \in DOMAIN files, Waits(N, u, p), ~Within(p, q) PROVE Waits(N, v, p)
  BY <1>1, <1>5 DEF Waits
<1>6. \A p \in Path : Apart(N, u, p) => Apart(N, v, p)
  BY <1>1 DEF Apart
<1>7. Apart(N, v, q)
  <2> SUFFICES ASSUME NEW n \in 0..N, NEW r \in v[n], Within(q, r) \/ Within(r, q) PROVE FALSE
    BY DEF Apart
  <2>1. r \in u[n]
    BY <1>1
  <2> QED BY <1>1, <2>1, WaitApart
<1> QED BY <1>2, <1>3, <1>4, <1>5, <1>6, <1>7

(* ... and, when it is a directory, it is opened.                          *)
LEMMA EntryEntered ==
  ASSUME Rooted(files), NEW N, NEW d, NEW u, Nested(N, d, u), NEW q \in u[N], IsDir(q),
         N = 0 => Selected(q),
         NEW e, NEW v,
         \A n \in 0..N : e[n] = d[n] /\ v[n] = IF n = N THEN u[n] \ {q} ELSE u[n],
         e[N + 1] = q, v[N + 1] = Children(q)
  PROVE  /\ Nested(N + 1, e, v)
         /\ \A p \in DOMAIN files : Waits(N + 1, v, p) <=> Waits(N, u, p) /\ p # q
         /\ \A p \in Path : Apart(N, u, p) => Apart(N + 1, v, p)
<1>1. /\ N \in Nat /\ N \in 0..N /\ q \in Path /\ q \in DOMAIN files /\ Len(q) = N + 1
      /\ \A n \in 0..N : v[n] \subseteq u[n] /\ u[n] \subseteq DOMAIN files
      /\ \A n \in 0..N : \A r \in v[n] : ~(n = N /\ r = q)
      /\ \A n \in 0..N : \A r \in u[n] : (n = N /\ r = q) \/ r \in v[n]
      /\ DOMAIN files \subseteq Path
      /\ \A n \in 0..(N + 1) : n = N + 1 \/ n \in 0..N
      /\ N + 1 \in 0..(N + 1) /\ \A n \in 0..N : n \in 0..(N + 1)
  <2>1. N \in Nat /\ N \in 0..N
    BY DEF Nested
  <2>2. DOMAIN files \subseteq Path
    BY DEF Rooted
  <2>3. Len(q) = N + 1 /\ \A n \in 0..N : u[n] \subseteq DOMAIN files
    BY <2>1 DEF Nested
  <2>4. \A n \in 0..N : v[n] \subseteq u[n]
    OBVIOUS
  <2>5. \A n \in 0..N : \A r \in v[n] : ~(n = N /\ r = q)
    OBVIOUS
  <2>6. \A n \in 0..N : \A r \in u[n] : (n = N /\ r = q) \/ r \in v[n]
    OBVIOUS
  <2>7. /\ \A n \in 0..(N + 1) : n = N + 1 \/ n \in 0..N
        /\ N + 1 \in 0..(N + 1) /\ \A n \in 0..N : n \in 0..(N + 1)
    BY <2>1
  <2> QED BY <2>1, <2>2, <2>3, <2>4, <2>5, <2>6, <2>7
<1>2. \A c \in Children(q) : c \in DOMAIN files /\ Len(c) = N + 2 /\ Within(c, q) /\ c # q
  <2> TAKE c \in Children(q)
  <2>1. c \in DOMAIN files /\ c \in Path /\ Len(c) > 0 /\ Parent(c) = q
    BY <1>1 DEF Children
  <2>2. Len(c) = Len(q) + 1 /\ Within(c, q)
    BY <1>1, <2>1, ParentIs
  <2> QED BY <1>1, <2>1, <2>2
<1>3. Nested(N + 1, e, v)
  <2>1. ASSUME NEW n \in 0..(N + 1)
        PROVE  /\ e[n] \in Path /\ Len(e[n]) = n
               /\ n > 0 => e[n] \in DOMAIN files /\ IsDir(e[n])
               /\ \A r \in v[n] : r \in DOMAIN files /\ Len(r) = n + 1 /\ Within(r, e[n])
    <3>1. CASE n \in 0..N
      BY <1>1, <3>1 DEF Nested
    <3>2. CASE n = N + 1
      BY <1>1, <1>2, <3>2
    <3> QED BY <1>1, <3>1, <3>2
  <2>2. ASSUME NEW m \in 0..(N + 1), NEW n \in 0..(N + 1), m < n
        PROVE  Within(e[n], e[m]) /\ \A r \in v[m] : ~Within(e[n], r)
    <3>1. m \in 0..N
      BY <1>1, <2>2
    <3>2. CASE n \in 0..N
      BY <1>1, <2>2, <3>1, <3>2 DEF Nested
    <3>3. CASE n = N + 1
      <4>1. e[n] = q /\ e[m] = d[m] /\ d[m] \in Path /\ d[N] \in Path /\ Within(q, d[N])
        BY <1>1, <3>1, <3>3 DEF Nested
      <4>2. Within(q, d[m])
        <5>1. CASE m = N
          BY <4>1, <5>1
        <5>2. CASE m # N
          <6>1. Within(d[N], d[m])
            BY <1>1, <3>1, <5>2 DEF Nested
          <6> QED BY <1>1, <4>1, <6>1, WithinOrder
        <5> QED BY <5>1, <5>2
      <4>3. ASSUME NEW r \in v[m], Within(q, r) PROVE FALSE
        <5>1. r \in u[m]
          BY <1>1, <3>1
        <5> QED BY <1>1, <3>1, <4>3, <5>1, WaitApart
      <4> QED BY <4>1, <4>2, <4>3
    <3> QED BY <1>1, <3>2, <3>3
  <2>3. Selected(e[1])
    <3>1. CASE N = 0
      BY <1>1, <3>1
    <3>2. CASE N > 0
      <4>1. 1 \in 0..N
        BY <1>1, <3>2
      <4> QED BY <3>2, <4>1 DEF Nested
    <3> QED BY <1>1, <3>1, <3>2
  <2> QED BY <1>1, <2>1, <2>2, <2>3 DEF Nested
<1>4. ASSUME NEW p \in DOMAIN files, Waits(N + 1, v, p) PROVE Waits(N, u, p) /\ p # q
  <2>1. PICK n \in 0..(N + 1) : \E r \in v[n] : Within(p, r)
    BY <1>4 DEF Waits
  <2>2. PICK r \in v[n] : Within(p, r)
    BY <2>1
  <2>3. CASE n \in 0..N
    <3>1. r \in u[n]
      BY <1>1, <2>3
    <3>2. p # q
      BY <1>1, <2>2, <2>3, <3>1, WaitApart
    <3> QED BY <2>2, <2>3, <3>1, <3>2 DEF Waits
  <2>4. CASE n = N + 1
    <3>1. r \in Path /\ p \in Path /\ Len(r) = N + 2 /\ Within(r, q)
      BY <1>1, <1>2, <2>4
    <3>2. Within(p, q) /\ Len(p) >= N + 2
      BY <1>1, <2>2, <3>1, WithinOrder
    <3>3. p # q
      BY <1>1, <3>2
    <3> QED BY <1>1, <3>2, <3>3 DEF Waits
  <2> QED BY <1>1, <2>3, <2>4
<1>5. ASSUME NEW p \in DOMAIN files, Waits(N, u, p), p # q PROVE Waits(N + 1, v, p)
  <2>1. CASE Within(p, q)
    <3>1. PICK c \in DOMAIN files : Within(p, c) /\ Within(c, q) /\ Len(c) = Len(q) + 1
      BY <1>1, <1>5, <2>1, WayDown
    <3>2. c \in Children(q)
      BY <1>1, <3>1, ParentIs DEF Children
    <3> QED BY <1>1, <3>1, <3>2 DEF Waits
  <2>2. CASE ~Within(p, q)
    <3>1. PICK n \in 0..N : \E r \in u[n] : Within(p, r)
      BY <1>5 DEF Waits
    <3>2. PICK r \in u[n] : Within(p, r)
      BY <3>1
    <3>3. r \in v[n]
      BY <1>1, <2>2, <3>2
    <3> QED BY <1>1, <3>2, <3>3 DEF Waits
  <2> QED BY <2>1, <2>2
<1>6. ASSUME NEW p \in Path, Apart(N, u, p) PROVE Apart(N + 1, v, p)
  <2> SUFFICES ASSUME NEW n \in 0..(N + 1), NEW r \in v[n]
               PROVE  ~Within(p, r) /\ ~Within(r, p)
    BY DEF Apart
  <2>1. CASE n \in 0..N
    BY <1>1, <1>6, <2>1 DEF Apart
  <2>2. CASE n = N + 1
    <3>1. r \in Path /\ Len(r) = N + 2 /\ Within(r, q) /\ ~Within(p, q) /\ ~Within(q, p)
      BY <1>1, <1>2, <1>6, <2>2 DEF Apart
    <3>2. ~Within(p, r)
      BY <1>1, <3>1, WithinOrder
    <3>3. Len(p) \in Nat
      BY DEF Path
    <3>4. ASSUME Within(r, p) PROVE FALSE
      BY <1>1, <3>1, <3>3, <3>4, WithinOrder
    <3> QED BY <3>2, <3>4
  <2> QED BY <1>1, <2>1, <2>2
<1> QED BY <1>3, <1>4, <1>5, <1>6

(* A directory of which nothing waits is left.                             *)
LEMMA DirLeft ==
  ASSUME NEW N \in Nat, NEW M, M = N + 1, NEW d, NEW u, Nested(M, d, u), u[M] = {},
         NEW e, NEW v, \A n \in 0..N : e[n] = d[n] /\ v[n] = u[n]
  PROVE  /\ Nested(N, e, v)
         /\ \A p : Waits(N, v, p) <=> Waits(M, u, p)
         /\ \A p : Apart(M, u, p) => Apart(N, v, p)
<1>1. /\ \A n \in 0..(N + 1) : n = N + 1 \/ n \in 0..N
      /\ \A n \in 0..N : n \in 0..(N + 1)
      /\ N > 0 => 1 \in 0..N
  OBVIOUS
<1>2. Nested(N, e, v)
  BY <1>1 DEF Nested
<1>3. \A p : Waits(N, v, p) <=> Waits(M, u, p)
  BY <1>1 DEF Waits
<1>4. \A p : Apart(M, u, p) => Apart(N, v, p)
  BY <1>1 DEF Apart
<1> QED BY <1>2, <1>3, <1>4

----------------------------------------------------------------------------
(* The levels of a stack of calls of walk_stage_dir.                       *)

Call(T) == [dir : T, unread : SUBSET T]

Levels(F, U, d, u) ==
    /\ d[0] = <<>> /\ u[0] = U
    /\ \A n \in 1..Len(F) : d[n] = F[n].dir /\ u[n] = F[n].unread

LEMMA LevelsAre ==
  ASSUME NEW F, Len(F) \in Nat, NEW U
  PROVE  Levels(F, U, DirsOf(F), LeftOf(F, U))
<1>1. 0 \in 0..Len(F) /\ \A n \in 1..Len(F) : n \in 0..Len(F) /\ n # 0
  OBVIOUS
<1>2. DirsOf(F)[0] = <<>> /\ LeftOf(F, U)[0] = U
  BY <1>1 DEF DirsOf, LeftOf
<1>3. \A n \in 1..Len(F) : DirsOf(F)[n] = F[n].dir /\ LeftOf(F, U)[n] = F[n].unread
  BY <1>1 DEF DirsOf, LeftOf
<1> QED BY <1>2, <1>3 DEF Levels

LEMMA LeftCalls ==
  ASSUME NEW C, NEW F \in Seq(C), F # <<>>, NEW G, G = SubSeq(F, 1, Len(F) - 1)
  PROVE  /\ G \in Seq(C) /\ Len(G) \in Nat /\ Len(F) = Len(G) + 1
         /\ \A n \in 1..Len(G) : G[n] = F[n]
<1>1. Len(F) \in Nat /\ Len(F) > 0 /\ \A n \in 1..Len(F) : F[n] \in C
  BY EmptySeq
<1>2. \A i \in 1..(Len(F) - 1) : F[i] \in C
  BY <1>1
<1>3. /\ G \in Seq(C)
      /\ Len(G) = IF 1 <= Len(F) - 1 THEN Len(F) - 1 - 1 + 1 ELSE 0
      /\ \A i \in 1..(Len(F) - 1 - 1 + 1) : G[i] = F[1 + i - 1]
  BY <1>1, <1>2, SubSeqProperties
<1>4. Len(G) = Len(F) - 1 /\ \A n \in 1..(Len(F) - 1) : G[n] = F[n]
  <2>1. Len(F) - 1 - 1 + 1 = Len(F) - 1 /\ \A n \in 1..(Len(F) - 1) : 1 + n - 1 = n
    BY <1>1
  <2> QED BY <1>1, <1>3, <2>1
<1> QED BY <1>1, <1>3, <1>4
----------------------------------------------------------------------------
(* The walk.  What is done is what can be reached and waits no longer.     *)

CaseOf(T) == [path : T, isValid : BOOLEAN, skipOnFailure : BOOLEAN]
Level     == Len(frames)
Open      == DirsOf(frames)
Todo      == LeftOf(frames, unread)
Done(p)   == Reached(p) /\ ~Waits(Level, Todo, p)

WTyped ==
    /\ Rooted(files)
    /\ frames \in Seq(Call(DOMAIN files)) /\ unread \subseteq DOMAIN files
    /\ unopened \subseteq DOMAIN files /\ live \subseteq DOMAIN files
    /\ isValidDir \in BOOLEAN /\ cases \in Seq(CaseOf(DOMAIN files))
WWay ==
    /\ Nested(Level, Open, Todo)
    /\ \A p \in unopened : Apart(Level, Todo, p)

(* q is taken from what readdir has not returned of the innermost directory*)
Taken(q, F, U) ==
    /\ q \in Todo[Level] /\ q \in DOMAIN files
    /\ F \in Seq(Call(DOMAIN files)) /\ Len(F) = Level
    /\ \A n \in 1..Level : F[n].dir = frames[n].dir
    /\ \A n \in 0..Level :
           /\ DirsOf(F)[n] = Open[n]
           /\ LeftOf(F, U)[n] = IF n = Level THEN Todo[n] \ {q} ELSE Todo[n]

LEMMA TakenTop ==
  ASSUME WTyped, frames = <<>>, NEW q \in unread
  PROVE  Taken(q, frames, unread \ {q})
<1>1. Len(frames) = 0 /\ q \in DOMAIN files /\ frames \in Seq(Call(DOMAIN files))
  BY DEF WTyped
<1>2. \A n \in 0..Len(frames) : n = 0
  BY <1>1
<1>3. /\ LeftOf(frames, unread)[0] = unread
      /\ LeftOf(frames, unread \ {q})[0] = unread \ {q}
  BY <1>1, LevelsAre DEF Levels
<1>4. \A n \in 1..Len(frames) : FALSE
  BY <1>1
<1> QED BY <1>1, <1>2, <1>3, <1>4 DEF Taken, Level, Open, Todo

LEMMA TakenIn ==
  ASSUME WTyped, frames # <<>>, NEW q \in Inner.unread, NEW G, G = Rest(q)
  PROVE  Taken(q, G, unread)
<1>1. frames \in Seq(Call(DOMAIN files))
  BY DEF WTyped
<1>2. Len(frames) \in Nat /\ Len(frames) \in 1..Len(frames) /\ Inner \in Call(DOMAIN files)
  BY <1>1, EmptySeq DEF Inner
<1>3. q \in DOMAIN files
  BY <1>2 DEF Call
<1>4. LeftOf(frames, unread)[Len(frames)] = Inner.unread
  BY <1>1, <1>2, LevelsAre DEF Levels, Inner
<1>5. /\ G \in Seq(Call(DOMAIN files)) /\ Len(G) = Len(frames)
      /\ \A n \in 1..Len(frames) :
             /\ G[n].dir = frames[n].dir
             /\ G[n].unread = IF n = Len(frames) THEN frames[n].unread \ {q}
                                    ELSE frames[n].unread
  <2> DEFINE T == DOMAIN files  C == Call(T)  F == frames
             c == [F[Len(F)] EXCEPT !.unread = @ \ {q}]
  <2>1. F \in Seq(C) /\ F # <<>> /\ G = [F EXCEPT ![Len(F)] = c]
    BY <1>1 DEF Rest
  <2>2. c \in C /\ c.dir = F[Len(F)].dir /\ c.unread = F[Len(F)].unread \ {q}
    BY <1>2 DEF Inner, Call
  <2> HIDE DEF T, C, F, c
  <2>3. /\ [F EXCEPT ![Len(F)] = c] \in Seq(C) /\ Len([F EXCEPT ![Len(F)] = c]) = Len(F)
        /\ \A n \in 1..Len(F) :
               [F EXCEPT ![Len(F)] = c][n] = IF n = Len(F) THEN c ELSE F[n]
    <3>1. Len(F) \in 1..Len(F)
      BY <1>2 DEF F
    <3> QED BY ONLY <2>1, <2>2, <3>1, ExceptSeq
  <2>4. /\ G \in Seq(C) /\ Len(G) = Len(F)
        /\ \A n \in 1..Len(F) : G[n] = IF n = Len(F) THEN c ELSE F[n]
    BY ONLY <2>1, <2>3
  <2>5. \A n \in 1..Len(F) : /\ G[n].dir = F[n].dir
                             /\ G[n].unread = IF n = Len(F) THEN F[n].unread \ {q}
                                              ELSE F[n].unread
    BY ONLY <2>2, <2>4
  <2> QED BY ONLY <2>4, <2>5 DEF T, C, F
<1>6. \A n \in 0..Len(frames) :
          /\ DirsOf(G)[n] = DirsOf(frames)[n]
          /\ LeftOf(G, unread)[n] =
                 IF n = Len(frames) THEN LeftOf(frames, unread)[n] \ {q}
                 ELSE LeftOf(frames, unread)[n]
  <2> DEFINE F == frames  U == unread  N == Len(frames)
             d == DirsOf(F)  u == LeftOf(F, U)  e == DirsOf(G)  v == LeftOf(G, U)
  <2>1. Levels(F, U, d, u)
    BY <1>2, LevelsAre
  <2>2. Levels(G, U, e, v)
    <3>1. Len(G) \in Nat
      BY <1>2, <1>5
    <3> QED BY <3>1, LevelsAre
  <2>3. /\ Len(F) = N /\ Len(G) = N /\ N \in Nat /\ N # 0
        /\ \A n \in 0..N : n = 0 \/ n \in 1..N
        /\ \A n \in 1..N : /\ G[n].dir = F[n].dir
                           /\ G[n].unread = IF n = N THEN F[n].unread \ {q} ELSE F[n].unread
    <3>1. Len(F) = N /\ N \in Nat /\ N # 0 /\ \A n \in 0..N : n = 0 \/ n \in 1..N
      BY ONLY <1>2
    <3> QED BY ONLY <1>5, <3>1
  <2> HIDE DEF F, U, N, d, u, e, v
  <2>4. \A n \in 0..N : e[n] = d[n] /\ v[n] = IF n = N THEN u[n] \ {q} ELSE u[n]
    BY ONLY <2>1, <2>2, <2>3 DEF Levels
  <2> QED BY ONLY <2>4 DEF F, U, N, d, u, e, v
<1> QED BY <1>3, <1>4, <1>5, <1>6 DEF Taken, Level, Open, Todo

(* The next state of the walk, seen from this one.                         *)
LEMMA NextWay ==
  ASSUME UNCHANGED files, Nested(Len(frames'), DirsOf(frames'), LeftOf(frames', unread')),
         \A p \in unopened' : Apart(Len(frames'), LeftOf(frames', unread'), p)
  PROVE  WWay'
<1> DEFINE N == Len(frames')  d == DirsOf(frames')  u == LeftOf(frames', unread')
<1>1. WWay' <=> /\ Nested(Level, Open, Todo)'
                /\ \A p \in unopened' : Apart(N, u, p)
  BY DEF WWay, Level, Open, Todo, Apart, Within
<1>2. Nested(N, d, u)
  OBVIOUS
<1>3. Nested(Level, Open, Todo)'
  <2>1. Level' = N /\ Open' = d /\ Todo' = u
    BY DEF Level, Open, Todo
  <2> HIDE DEF N, d, u
  <2> QED BY <1>2, <2>1 DEF Nested, IsDir, Selected
<1> QED BY <1>1, <1>3

LEMMA NextDone ==
  ASSUME UNCHANGED files, NEW p
  PROVE  Done(p)' <=> /\ p[1] \in Implemented /\ Len(p) > 1
                      /\ \A dir \in unopened' : ~Within(p, dir)
                      /\ ~Waits(Len(frames'), LeftOf(frames', unread'), p)
BY DEF Done, Reached, Implemented, Within, Waits, Level, Todo

LEMMA Passed ==
  ASSUME WTyped, WWay, UNCHANGED files, NEW q, Taken(q, frames', unread'),
         unopened' = unopened \/ unopened' = unopened \cup {q}
  PROVE  /\ WWay'
         /\ \A p \in DOMAIN files :
                Waits(Len(frames'), LeftOf(frames', unread'), p) <=>
                    Waits(Level, Todo, p) /\ ~Within(p, q)
         /\ \A p \in DOMAIN files : Within(p, q) => Waits(Level, Todo, p)
<1> DEFINE N == Level  e == DirsOf(frames')  v == LeftOf(frames', unread')
<1>1. /\ Nested(N, Open, Todo) /\ q \in Todo[N] /\ Len(frames') = N
      /\ \A n \in 0..N : e[n] = Open[n]
      /\ \A n \in 0..N : v[n] = IF n = N THEN Todo[n] \ {q} ELSE Todo[n]
      /\ \A p \in unopened : Apart(N, Todo, p) /\ p \in Path
      /\ Rooted(files)
  BY DEF WWay, WTyped, Taken, Rooted
<1> HIDE DEF N, e, v
<1>2. /\ Nested(N, Open, v)
      /\ \A p \in DOMAIN files : Waits(N, v, p) <=> Waits(N, Todo, p) /\ ~Within(p, q)
      /\ \A p \in DOMAIN files : Within(p, q) => Waits(N, Todo, p)
      /\ \A p \in Path : Apart(N, Todo, p) => Apart(N, v, p)
      /\ Apart(N, v, q)
  <2> DEFINE d == Open  u == Todo
  <2>1. Rooted(files) /\ Nested(N, d, u) /\ q \in u[N]
        /\ \A n \in 0..N : v[n] = IF n = N THEN u[n] \ {q} ELSE u[n]
    BY <1>1
  <2> HIDE DEF d, u
  <2>2. /\ Nested(N, d, v)
        /\ \A p \in DOMAIN files : Waits(N, v, p) <=> Waits(N, u, p) /\ ~Within(p, q)
        /\ \A p \in DOMAIN files : Within(p, q) => Waits(N, u, p)
        /\ \A p \in Path : Apart(N, u, p) => Apart(N, v, p)
        /\ Apart(N, v, q)
    BY ONLY <2>1, EntryTaken
  <2> QED BY <2>2 DEF d, u
<1>3. Nested(N, e, v)
  BY <1>1, <1>2 DEF Nested
<1>4. \A p \in unopened' : Apart(N, v, p)
  BY <1>1, <1>2
<1>5. WWay'
  BY <1>1, <1>3, <1>4, NextWay DEF e, v
<1> QED BY <1>1, <1>2, <1>5 DEF N, v

LEMMA Entered ==
  ASSUME WTyped, WWay, UNCHANGED <<files, unopened>>, NEW q, NEW F, Taken(q, F, unread'),
         IsDir(q), frames = <<>> => Selected(q),
         frames' = Append(F, [dir |-> q, unread |-> Children(q)])
  PROVE  /\ WWay'
         /\ frames' \in Seq(Call(DOMAIN files)) /\ Len(frames') = Level + 1
         /\ \A n \in 1..Level : frames'[n].dir = frames[n].dir
         /\ frames'[Level + 1].dir = q
         /\ \A p \in DOMAIN files :
                Waits(Len(frames'), LeftOf(frames', unread'), p) <=>
                    Waits(Level, Todo, p) /\ p # q
<1> DEFINE N == Level  e == DirsOf(frames')  v == LeftOf(frames', unread')
           c == [dir |-> q, unread |-> Children(q)]  C == Call(DOMAIN files)
<1>1. /\ Nested(N, Open, Todo) /\ q \in Todo[N] /\ q \in DOMAIN files /\ Rooted(files)
      /\ F \in Seq(C) /\ Len(F) = N /\ Len(F) \in Nat
      /\ \A p \in unopened : Apart(N, Todo, p) /\ p \in Path
      /\ N = 0 => Selected(q)
  <2>1. frames \in Seq(C) /\ (N = 0 => frames = <<>>)
    BY EmptySeq DEF WTyped, Level
  <2> QED BY <2>1 DEF WWay, WTyped, Taken, Rooted
<1>2. \A n \in 0..N : DirsOf(F)[n] = Open[n]
  BY DEF Taken
<1>3. \A n \in 0..N : LeftOf(F, unread')[n] = IF n = N THEN Todo[n] \ {q} ELSE Todo[n]
  BY DEF Taken
<1>4. \A n \in 1..N : F[n].dir = frames[n].dir
  BY DEF Taken
<1>5. c \in C /\ c.dir = q /\ c.unread = Children(q)
  BY <1>1 DEF Call, Children
<1>6. frames' = Append(F, c)
  OBVIOUS
<1> HIDE DEF c
<1>7. /\ frames' \in Seq(C) /\ Len(frames') = N + 1
      /\ \A n \in 1..N : frames'[n] = F[n]
      /\ frames'[N + 1] = c
      /\ \A n \in 0..N : e[n] = DirsOf(F)[n] /\ v[n] = LeftOf(F, unread')[n]
      /\ e[N + 1] = c.dir /\ v[N + 1] = c.unread
  <2> DEFINE G == frames'  U == unread'  d == DirsOf(F)  u == LeftOf(F, U)
  <2>1. /\ G \in Seq(C) /\ Len(G) = N + 1 /\ Len(G) \in Nat
        /\ \A n \in 1..N : G[n] = F[n]
        /\ G[N + 1] = c
    <3>1. F \in Seq(C) /\ Len(F) = N /\ Len(F) \in Nat /\ c \in C /\ G = Append(F, c)
      BY <1>1, <1>5, <1>6
    <3> HIDE DEF G, N, C
    <3> QED BY <3>1, AppendProperties
  <2>2. Levels(F, U, d, u)
    BY <1>1, LevelsAre
  <2>3. Levels(G, U, e, v)
    BY <2>1, LevelsAre
  <2>4. /\ Len(F) = N /\ N \in Nat /\ \A n \in 0..N : n = 0 \/ n \in 1..N
        /\ \A n \in 1..N : n \in 1..Len(G)
        /\ N + 1 \in 1..Len(G)
    BY <1>1, <2>1
  <2> HIDE DEF G, U, N, C, d, u, e, v
  <2>5. /\ \A n \in 0..N : e[n] = d[n] /\ v[n] = u[n]
        /\ e[N + 1] = c.dir /\ v[N + 1] = c.unread
    BY <2>1, <2>2, <2>3, <2>4 DEF Levels
  <2> QED BY <2>1, <2>5 DEF G, U, d, u
<1> HIDE DEF N, e, v
<1>8. /\ Nested(N + 1, e, v)
      /\ \A p \in DOMAIN files : Waits(N + 1, v, p) <=> Waits(N, Todo, p) /\ p # q
      /\ \A p \in Path : Apart(N, Todo, p) => Apart(N + 1, v, p)
  <2> DEFINE d == Open  u == Todo
  <2>1. \A n \in 0..N : e[n] = d[n] /\ v[n] = IF n = N THEN u[n] \ {q} ELSE u[n]
    BY <1>2, <1>3, <1>7
  <2>2. Rooted(files) /\ Nested(N, d, u) /\ q \in u[N] /\ IsDir(q) /\ (N = 0 => Selected(q))
    BY <1>1
  <2>3. e[N + 1] = q /\ v[N + 1] = Children(q)
    BY <1>5, <1>7
  <2> HIDE DEF d, u
  <2>4. /\ Nested(N + 1, e, v)
        /\ \A p \in DOMAIN files : Waits(N + 1, v, p) <=> Waits(N, u, p) /\ p # q
        /\ \A p \in Path : Apart(N, u, p) => Apart(N + 1, v, p)
    BY ONLY <2>1, <2>2, <2>3, EntryEntered
  <2> QED BY <2>4 DEF u
<1>9. WWay'
  <2>1. \A p \in unopened' : Apart(N + 1, v, p)
    BY <1>1, <1>8
  <2> QED BY <1>7, <1>8, <2>1, NextWay DEF e, v
<1> QED BY <1>4, <1>5, <1>7, <1>8, <1>9 DEF N, v

LEMMA LeftDir ==
  ASSUME WTyped, WWay, UNCHANGED <<files, unopened, unread>>, frames # <<>>, Inner.unread = {},
         frames' = Under
  PROVE  /\ WWay'
         /\ frames' \in Seq(Call(DOMAIN files)) /\ Len(frames') \in Nat
         /\ Len(frames) = Len(frames') + 1
         /\ \A n \in 1..Len(frames') : frames'[n] = frames[n]
         /\ \A p : Waits(Len(frames'), LeftOf(frames', unread'), p) <=> Waits(Level, Todo, p)
<1> DEFINE N == Len(frames')  e == DirsOf(frames')  v == LeftOf(frames', unread')
           C == Call(DOMAIN files)
<1>1. /\ frames' \in Seq(C) /\ N \in Nat /\ Len(frames) = N + 1
      /\ \A n \in 1..N : frames'[n] = frames[n]
      /\ \A n \in 0..N : e[n] = Open[n] /\ v[n] = Todo[n]
  <2> DEFINE G == frames'  F == frames  U == unread
             d == Open  u == Todo
  <2>1. G \in Seq(C) /\ Len(G) \in Nat /\ Len(F) = Len(G) + 1 /\ \A n \in 1..Len(G) : G[n] = F[n]
    <3>1. F \in Seq(C) /\ F # <<>> /\ G = SubSeq(F, 1, Len(F) - 1)
      BY DEF Under, WTyped
    <3> HIDE DEF G, F, C
    <3> QED BY ONLY <3>1, LeftCalls
  <2>2. Levels(F, U, d, u)
    BY <2>1, LevelsAre DEF Open, Todo
  <2>3. Levels(G, U, e, v)
    BY <2>1, LevelsAre
  <2>4. /\ N = Len(G) /\ \A n \in 0..N : n = 0 \/ n \in 1..N
        /\ \A n \in 1..N : n \in 1..Len(F)
    BY <2>1
  <2> HIDE DEF G, F, U, N, C, d, u, e, v
  <2>5. \A n \in 0..N : e[n] = d[n] /\ v[n] = u[n]
    BY <2>1, <2>2, <2>3, <2>4 DEF Levels
  <2> QED BY <2>1, <2>4, <2>5 DEF G, F, d, u
<1>2. /\ Level = N + 1 /\ Nested(Level, Open, Todo)
      /\ \A p \in unopened' : Apart(Level, Todo, p)
  BY <1>1 DEF WWay, Level
<1>3. Todo[N + 1] = {}
  <2>1. Len(frames) \in Nat /\ Len(frames) \in 1..Len(frames)
    BY <1>1
  <2>2. Todo[Len(frames)] = Inner.unread
    BY <2>1, LevelsAre DEF Levels, Todo, Inner
  <2> QED BY <1>1, <2>2
<1> HIDE DEF N, e, v
<1>4. /\ Nested(N, e, v)
      /\ \A p : Waits(N, v, p) <=> Waits(N + 1, Todo, p)
      /\ \A p : Apart(N + 1, Todo, p) => Apart(N, v, p)
  <2> DEFINE d == Open  u == Todo
  <2> DEFINE M == N + 1
  <2>1. /\ Nested(M, d, u) /\ u[M] = {} /\ N \in Nat /\ M = N + 1
        /\ \A n \in 0..N : e[n] = d[n] /\ v[n] = u[n]
    BY <1>1, <1>2, <1>3
  <2> HIDE DEF d, u, M
  <2>2. /\ Nested(N, e, v)
        /\ \A p : Waits(N, v, p) <=> Waits(M, u, p)
        /\ \A p : Apart(M, u, p) => Apart(N, v, p)
    BY ONLY <2>1, DirLeft
  <2> QED BY <2>2 DEF u, M
<1>5. WWay'
  <2>1. \A p \in unopened' : Apart(N, v, p)
    BY <1>2, <1>4
  <2> QED BY <1>4, <2>1, NextWay DEF N, e, v
<1> QED BY <1>1, <1>2, <1>4, <1>5 DEF N, v

(* The entries of the innermost directory, and of the top.                 *)
LEMMA EntryIs ==
  ASSUME WTyped, WWay, NEW q \in Todo[Level]
  PROVE  /\ Level \in Nat /\ q \in DOMAIN files /\ q \in Path /\ q # <<>>
         /\ Len(q) = Level + 1 /\ Within(q, Open[Level]) /\ Open[Level] \in Path
         /\ Len(Open[Level]) = Level
<1>1. Level \in Nat
  BY DEF WWay, Nested
<1>2. Level \in 0..Level
  BY <1>1
<1>3. /\ q \in DOMAIN files /\ Len(q) = Level + 1 /\ Within(q, Open[Level])
      /\ Open[Level] \in Path /\ Len(Open[Level]) = Level
  BY <1>2 DEF WWay, Nested
<1>4. q \in Path /\ q # <<>>
  BY <1>3 DEF WTyped, Rooted
<1> QED BY <1>1, <1>3, <1>4

LEMMA InStage ==
  ASSUME WTyped, WWay, NEW q \in Todo[Level], frames # <<>>
  PROVE  /\ Level \in Nat /\ Level >= 1 /\ Open[1] \in Path /\ Len(Open[1]) = 1
         /\ Open[1] \in DOMAIN files /\ Selected(Open[1])
         /\ Within(q, Open[1]) /\ Within(Open[Level], Open[1])
         /\ \A k \in 1..Level : q[k] = Open[Level][k]
<1>1. Level \in Nat /\ Level >= 1
  BY EmptySeq DEF WTyped, Level
<1>2. /\ q \in Path /\ Within(q, Open[Level]) /\ Open[Level] \in Path /\ Len(Open[Level]) = Level
  BY EntryIs
<1>3. 1 \in 0..Level /\ Level \in 0..Level /\ Level > 0
  BY <1>1
<1>4. /\ Open[1] \in Path /\ Len(Open[1]) = 1 /\ Open[1] \in DOMAIN files /\ Selected(Open[1])
  <2>1. Nested(Level, Open, Todo)
    BY DEF WWay
  <2>2. Open[1] \in Path /\ Len(Open[1]) = 1 /\ Open[1] \in DOMAIN files
    <3> DEFINE one == 1
    <3>1. one \in 0..Level /\ one > 0 /\ one = 1
      BY <1>3
    <3> HIDE DEF one
    <3>2. Open[one] \in Path /\ Len(Open[one]) = one /\ Open[one] \in DOMAIN files
      BY <2>1, <3>1 DEF Nested
    <3> QED BY <3>1, <3>2
  <2>3. Selected(Open[1])
    BY <1>3, <2>1 DEF Nested
  <2> QED BY <2>2, <2>3
<1>5. Within(Open[Level], Open[1])
  <2>1. CASE Level = 1
    BY <1>4, <2>1, WithinOrder
  <2>2. CASE Level # 1
    <3>1. 1 < Level
      BY <1>1, <2>2
    <3> QED BY <1>3, <3>1 DEF WWay, Nested
  <2> QED BY <2>1, <2>2
<1>6. Within(q, Open[1])
  BY <1>2, <1>4, <1>5, WithinOrder
<1>7. \A k \in 1..Level : q[k] = Open[Level][k]
  BY <1>2, WithinPlaces
<1> QED BY <1>1, <1>4, <1>5, <1>6, <1>7

LEMMA StageIs ==
  ASSUME NEW d \in Path, Len(d) = 1
  PROVE  /\ NameOf(d) = d[1]
         /\ Selected(d) => d[1] \in Implemented /\ d[1] # "valid"
         /\ IsDir(d) /\ d[1] \in Implemented => Selected(d)
         /\ \A p \in Path : Within(p, d) => p[1] = d[1]
<1>1. NameOf(d) = d[1]
  BY DEF NameOf
<1>2. maxStage \in Nat /\ (\A name \in DOMAIN StageOf : StageOf[name] \in Int)
      /\ "valid" \notin DOMAIN StageOf
  BY TreesAssumption
<1>3. Selected(d) => d[1] \in Implemented /\ d[1] # "valid"
  BY <1>1, <1>2 DEF Selected, Implemented
<1>4. IsDir(d) /\ d[1] \in Implemented => Selected(d)
  BY <1>1, <1>2 DEF Selected, Implemented
<1>5. \A p \in Path : Within(p, d) => p[1] = d[1]
  <2> TAKE p \in Path
  <2>1. 1 \in 1..Len(d)
    OBVIOUS
  <2> QED BY <2>1, WithinPlaces
<1> QED BY <1>1, <1>3, <1>4, <1>5

(* What a turn of a loop gets done.                                        *)
LEMMA SkipDone ==
  ASSUME WTyped, WWay, UNCHANGED <<files, unopened, frames>>, frames = <<>>,
         NEW q \in unread, ~Selected(q), unread' = unread \ {q}
  PROVE  /\ WWay'
         /\ \A p \in DOMAIN files : Done(p)' <=> Done(p)
<1>1. Taken(q, frames', unread')
  BY TakenTop
<1>2. /\ WWay'
      /\ \A p \in DOMAIN files :
             Waits(Len(frames'), LeftOf(frames', unread'), p) <=>
                 Waits(Level, Todo, p) /\ ~Within(p, q)
      /\ \A p \in DOMAIN files : Within(p, q) => Waits(Level, Todo, p)
  BY <1>1, Passed
<1>3. q \in DOMAIN files /\ q \in Path /\ q # <<>> /\ Len(q) = 1 /\ Rooted(files)
  <2>1. q \in Todo[Level] /\ Level = 0
    BY <1>1 DEF Taken, Level
  <2> QED BY <2>1, EntryIs DEF WTyped
<1>4. ASSUME NEW p \in DOMAIN files, Within(p, q), p[1] \in Implemented, Len(p) > 1 PROVE FALSE
  <2>1. p \in Path /\ p # q
    <3>1. p \in Path
      BY <1>3 DEF Rooted
    <3>2. Len(p) \in Nat
      BY <3>1 DEF Path
    <3>3. Len(p) > 1 /\ Len(q) = 1
      BY <1>3, <1>4
    <3>4. p # q
      <4> SUFFICES ASSUME p = q PROVE FALSE
        OBVIOUS
      <4>1. Len(p) = Len(q)
        OBVIOUS
      <4> QED BY ONLY <3>3, <4>1
    <3> QED BY <3>1, <3>4
  <2>2. IsDir(q)
    BY <1>3, <1>4, <2>1, WayDown
  <2>3. q[1] \in Implemented
    BY <1>3, <1>4, <2>1, StageIs
  <2> QED BY <1>3, <2>2, <2>3, StageIs
<1>5. ASSUME NEW p \in DOMAIN files PROVE Done(p)' <=> Done(p)
  <2>1. Done(p)' <=> /\ p[1] \in Implemented /\ Len(p) > 1
                     /\ \A dir \in unopened : ~Within(p, dir)
                     /\ ~Waits(Len(frames'), LeftOf(frames', unread'), p)
    BY NextDone
  <2> QED BY <1>2, <1>4, <2>1 DEF Done, Reached
<1> QED BY <1>2, <1>5

LEMMA FailDone ==
  ASSUME WTyped, WWay, UNCHANGED files, NEW q, Taken(q, frames', unread'),
         unopened' = unopened \cup {q}
  PROVE  /\ WWay'
         /\ \A p \in DOMAIN files : Done(p)' <=> Done(p)
<1>1. /\ WWay'
      /\ \A p \in DOMAIN files :
             Waits(Len(frames'), LeftOf(frames', unread'), p) <=>
                 Waits(Level, Todo, p) /\ ~Within(p, q)
      /\ \A p \in DOMAIN files : Within(p, q) => Waits(Level, Todo, p)
  BY Passed
<1>2. ASSUME NEW p \in DOMAIN files PROVE Done(p)' <=> Done(p)
  <2>1. Done(p)' <=> /\ p[1] \in Implemented /\ Len(p) > 1
                     /\ \A dir \in unopened' : ~Within(p, dir)
                     /\ ~Waits(Len(frames'), LeftOf(frames', unread'), p)
    BY NextDone
  <2> QED BY <1>1, <2>1 DEF Done, Reached
<1> QED BY <1>1, <1>2

LEMMA OpenDone ==
  ASSUME WTyped, WWay, UNCHANGED <<files, unopened>>, NEW q, NEW F, Taken(q, F, unread'),
         IsDir(q), frames = <<>> => Selected(q),
         frames' = Append(F, [dir |-> q, unread |-> Children(q)])
  PROVE  \A p \in DOMAIN files : p # q => (Done(p)' <=> Done(p))
<1>1. \A p \in DOMAIN files :
          Waits(Len(frames'), LeftOf(frames', unread'), p) <=> Waits(Level, Todo, p) /\ p # q
  BY Entered
<1> TAKE p \in DOMAIN files
<1>2. Done(p)' <=> /\ p[1] \in Implemented /\ Len(p) > 1
                   /\ \A dir \in unopened : ~Within(p, dir)
                   /\ ~Waits(Len(frames'), LeftOf(frames', unread'), p)
  BY NextDone
<1> QED BY <1>1, <1>2 DEF Done, Reached

LEMMA PassDone ==
  ASSUME WTyped, WWay, UNCHANGED <<files, unopened>>, frames # <<>>,
         NEW q, Taken(q, frames', unread'), ~IsDir(q)
  PROVE  /\ WWay' /\ ~Done(q)
         /\ \A p \in DOMAIN files : Done(p)' <=> Done(p) \/ p = q
<1>1. /\ WWay'
      /\ \A p \in DOMAIN files :
             Waits(Len(frames'), LeftOf(frames', unread'), p) <=>
                 Waits(Level, Todo, p) /\ ~Within(p, q)
      /\ \A p \in DOMAIN files : Within(p, q) => Waits(Level, Todo, p)
  BY Passed
<1>2. q \in Todo[Level] /\ q \in DOMAIN files
  BY DEF Taken
<1>3. /\ q \in Path /\ q # <<>> /\ Len(q) = Level + 1 /\ Level \in Nat /\ Level >= 1
      /\ Rooted(files)
  BY <1>2, EntryIs, InStage DEF WTyped
<1>4. \A p \in DOMAIN files : Within(p, q) <=> p = q
  <2> TAKE p \in DOMAIN files
  <2>1. Within(p, q) => p = q
    BY <1>2, <1>3, WayDown
  <2> QED BY <1>3, <2>1, WithinOrder
<1>5. ~Done(q)
  BY <1>1, <1>2, <1>4 DEF Done
<1>6. Reached(q)
  <2>1. q[1] \in Implemented
    BY <1>2, <1>3, InStage, StageIs
  <2>2. \A dir \in unopened : ~Within(q, dir)
    <3>1. Level \in 0..Level
      BY <1>3
    <3> QED BY <1>2, <3>1 DEF WWay, Apart
  <2>3. Len(q) > 1
    BY <1>3
  <2> QED BY <2>1, <2>2, <2>3 DEF Reached
<1>7. ASSUME NEW p \in DOMAIN files PROVE Done(p)' <=> Done(p) \/ p = q
  <2>1. Done(p)' <=> /\ p[1] \in Implemented /\ Len(p) > 1
                     /\ \A dir \in unopened : ~Within(p, dir)
                     /\ ~Waits(Len(frames'), LeftOf(frames', unread'), p)
    BY NextDone
  <2>2. Done(p)' <=> Reached(p) /\ ~(Waits(Level, Todo, p) /\ p # q)
    BY <1>1, <1>4, <2>1 DEF Reached
  <2>3. CASE p = q
    BY <1>6, <2>2, <2>3
  <2>4. CASE p # q
    BY <2>2, <2>4 DEF Done
  <2> QED BY <2>3, <2>4
<1> QED BY <1>1, <1>5, <1>7

LEMMA LeaveDone ==
  ASSUME WTyped, WWay, UNCHANGED <<files, unopened, unread>>, frames # <<>>, Inner.unread = {},
         frames' = Under
  PROVE  \A p \in DOMAIN files : Done(p)' <=> Done(p)
<1>1. \A p : Waits(Len(frames'), LeftOf(frames', unread'), p) <=> Waits(Level, Todo, p)
  BY LeftDir
<1> TAKE p \in DOMAIN files
<1>2. Done(p)' <=> /\ p[1] \in Implemented /\ Len(p) > 1
                   /\ \A dir \in unopened : ~Within(p, dir)
                   /\ ~Waits(Len(frames'), LeftOf(frames', unread'), p)
  BY NextDone
<1> QED BY <1>1, <1>2 DEF Done, Reached

----------------------------------------------------------------------------
(* The invariant of the walk.                                              *)

Found(p) == \E n \in 1..Len(cases) : cases[n].path = p
OnWay(p) == \E n \in 1..Level : frames[n].dir = p

(* The cases are the ".c" files that are done.                             *)
WFound ==
    \A p \in DOMAIN files :
        Found(p) <=> files[p] = "file" /\ NameOf(p) \in CNames /\ Done(p)
WOnce == \A m, n \in 1..Len(cases) : cases[m].path = cases[n].path => m = n

(* Allocated are the paths of what is done, and of the calls that run.     *)
WLive == \A p \in DOMAIN files : p \in live <=> (~IsDir(p) /\ Done(p)) \/ OnWay(p)

(* isValidDir is TRUE in a directory "valid", and only in a stage with one.*)
HasValid(d) ==
    \E dir \in DOMAIN files : IsDir(dir) /\ NameOf(dir) = "valid" /\ Within(dir, d)
WMarked ==
    frames # <<>> =>
        /\ \A k \in 1..Level : Open[Level][k] = "valid" => isValidDir
        /\ isValidDir => HasValid(Open[1])

WInv ==
    /\ WTyped /\ WWay /\ WFound /\ WOnce /\ WLive /\ WMarked /\ ValidCasesExpected

(* A step that adds no case.                                               *)
LEMMA SameCases ==
  ASSUME WInv, UNCHANGED <<files, cases>>,
         \A p \in DOMAIN files : ~IsDir(p) => (Done(p)' <=> Done(p))
  PROVE  WFound' /\ WOnce' /\ ValidCasesExpected'
<1>1. WFound'
  <2>1. ASSUME NEW p \in DOMAIN files
        PROVE  Found(p) <=> files[p] = "file" /\ NameOf(p) \in CNames /\ Done(p)'
    <3>1. Found(p) <=> files[p] = "file" /\ NameOf(p) \in CNames /\ Done(p)
      BY DEF WInv, WFound
    <3>2. files[p] = "file" => ~IsDir(p)
      BY DEF IsDir
    <3> QED BY <3>1, <3>2
  <2> QED BY <2>1 DEF WFound, Found, NameOf
<1>2. WOnce'
  BY DEF WInv, WOnce
<1>3. ValidCasesExpected'
  BY DEF WInv, ValidCasesExpected, In, IsDir, NameOf, Within
<1> QED BY <1>1, <1>2, <1>3

(* The paths of files that are done stay the same, and those of the calls. *)
LEMMA SameLive ==
  ASSUME WInv, UNCHANGED <<files, live>>,
         \A p \in DOMAIN files : ~IsDir(p) => (Done(p)' <=> Done(p)),
         Len(frames') = Level, \A n \in 1..Level : frames'[n].dir = frames[n].dir
  PROVE  WLive'
<1>1. ASSUME NEW p \in DOMAIN files
      PROVE  p \in live <=> (~IsDir(p) /\ Done(p)') \/ \E n \in 1..Level : frames'[n].dir = p
  BY DEF WInv, WLive, OnWay
<1>2. Level' = Level
  BY DEF Level
<1> QED BY <1>1, <1>2 DEF WLive, OnWay, IsDir

LEMMA SameMarks ==
  ASSUME WInv, UNCHANGED files, frames # <<>>, isValidDir' \in BOOLEAN,
         isValidDir => isValidDir', isValidDir' => isValidDir \/ HasValid(Open[1]),
         frames' \in Seq(Call(DOMAIN files)), Len(frames') = Level,
         \A n \in 1..Level : frames'[n].dir = frames[n].dir
  PROVE  WMarked'
<1>1. frames \in Seq(Call(DOMAIN files)) /\ Level \in Nat /\ Level >= 1 /\ Level' = Level
  BY EmptySeq DEF WInv, WTyped, Level
<1>2. \A n \in 1..Level : Open'[n] = Open[n]
  <2> DEFINE d == Open  e == Open'  u == Todo  v == Todo'  F == frames  G == frames'
             U == unread  V == unread'
  <2>1. Levels(F, U, d, u) /\ Levels(G, V, e, v)
    BY <1>1, LevelsAre DEF Level, Open, Todo
  <2>2. Len(F) = Level /\ Len(G) = Level /\ \A n \in 1..Level : G[n].dir = F[n].dir
    BY DEF Level
  <2> HIDE DEF d, e, u, v, F, G, U, V
  <2>3. \A n \in 1..Level : e[n] = d[n]
    BY <2>1, <2>2 DEF Levels
  <2> QED BY <2>3 DEF d, e
<1>3. Open'[1] = Open[1] /\ Open'[Level] = Open[Level]
  BY <1>1, <1>2
<1>4. /\ \A k \in 1..Level : Open[Level][k] = "valid" => isValidDir
      /\ isValidDir => HasValid(Open[1])
  BY DEF WInv, WMarked
<1>5. HasValid(Open[1])' <=> HasValid(Open[1])
  BY <1>3 DEF HasValid, IsDir, NameOf, Within
<1>6. /\ \A k \in 1..Level : Open'[Level][k] = "valid" => isValidDir'
      /\ isValidDir' => HasValid(Open[1])'
  BY <1>3, <1>4, <1>5
<1> QED BY <1>1, <1>6 DEF WMarked

LEMMA WalkSkip ==
  ASSUME WInv, SkipEntry
  PROVE  WInv'
<1>1. PICK q \in unread : ~Selected(q) /\ unread' = unread \ {q}
  BY DEF SkipEntry
<1>2. /\ frames = <<>>
      /\ UNCHANGED <<files, frames, isValidDir, cases, live, unopened>>
  BY DEF SkipEntry, InTop
<1>3. WWay' /\ \A p \in DOMAIN files : Done(p)' <=> Done(p)
  BY <1>1, <1>2, SkipDone DEF WInv
<1>4. WTyped'
  BY <1>1, <1>2 DEF WInv, WTyped, Rooted
<1>5. WFound' /\ WOnce' /\ ValidCasesExpected'
  BY <1>2, <1>3, SameCases
<1>6. WLive'
  <2>1. Len(frames') = Level /\ \A n \in 1..Level : frames'[n].dir = frames[n].dir
    BY <1>2 DEF Level
  <2> QED BY <1>2, <1>3, <2>1, SameLive
<1>7. WMarked'
  BY <1>2 DEF WMarked
<1> QED BY <1>3, <1>4, <1>5, <1>6, <1>7 DEF WInv

(* A call for q that opens it, and one that does not.                      *)
LEMMA WalkOpen ==
  ASSUME WInv, UNCHANGED <<files, unopened, cases>>, NEW q, NEW F, Taken(q, F, unread'),
         IsDir(q), frames = <<>> => Selected(q),
         frames' = Append(F, [dir |-> q, unread |-> Children(q)]),
         live' = live \cup {q}, unread' \subseteq DOMAIN files,
         isValidDir' = (frames # <<>> /\ (isValidDir \/ NameOf(q) = "valid"))
  PROVE  WInv'
<1>1. /\ WTyped /\ WWay
      /\ WWay'
      /\ frames' \in Seq(Call(DOMAIN files)) /\ Len(frames') = Level + 1
      /\ \A n \in 1..Level : frames'[n].dir = frames[n].dir
      /\ frames'[Level + 1].dir = q
  BY Entered DEF WInv
<1>2. \A p \in DOMAIN files : p # q => (Done(p)' <=> Done(p))
  BY <1>1, OpenDone
<1>3. q \in Todo[Level] /\ q \in DOMAIN files /\ Level \in Nat
  BY <1>1, EntryIs DEF Taken
<1>4. WTyped'
  <2>1. isValidDir' \in BOOLEAN
    OBVIOUS
  <2> QED BY <1>1, <1>3, <2>1 DEF WTyped, Rooted
<1>5. WFound' /\ WOnce' /\ ValidCasesExpected'
  <2>1. \A p \in DOMAIN files : ~IsDir(p) => (Done(p)' <=> Done(p))
    BY <1>2
  <2> QED BY <2>1, SameCases
<1>6. WLive'
  <2>1. Level' = Level + 1
    BY <1>1 DEF Level
  <2>2. ASSUME NEW p \in DOMAIN files PROVE OnWay(p)' <=> OnWay(p) \/ p = q
    <3>1. 1..(Level + 1) = (1..Level) \cup {Level + 1}
      BY <1>3
    <3>2. OnWay(p)' <=> \E n \in 1..(Level + 1) : frames'[n].dir = p
      BY <2>1 DEF OnWay
    <3> QED BY <1>1, <3>1, <3>2 DEF OnWay
  <2>3. ASSUME NEW p \in DOMAIN files
        PROVE  p \in live' <=> (~IsDir(p) /\ Done(p)') \/ OnWay(p)'
    <3>1. p \in live <=> (~IsDir(p) /\ Done(p)) \/ OnWay(p)
      BY DEF WInv, WLive
    <3>2. CASE p = q
      BY <2>2, <3>2
    <3>3. CASE p # q
      BY <1>2, <2>2, <3>1, <3>3
    <3> QED BY <3>2, <3>3
  <2> QED BY <2>3 DEF WLive, IsDir
<1>7. WMarked'
  <2>1. Level' = Level + 1 /\ Level' \in Nat /\ 1 \in 1..Level' /\ Level' \in 1..Level'
    BY <1>1, <1>3 DEF Level
  <2>2. \A n \in 1..Level' : Open'[n] = frames'[n].dir
    <3> DEFINE G == frames'  V == unread'  e == Open'
    <3>1. Levels(G, V, e, Todo')
      BY <1>1, <1>3, LevelsAre DEF Open, Todo
    <3>2. Len(G) = Level'
      BY DEF Level
    <3> HIDE DEF G, V, e
    <3>3. \A n \in 1..Level' : e[n] = G[n].dir
      BY <3>1, <3>2 DEF Levels
    <3> QED BY <3>3 DEF G, e
  <2>3. Open'[Level'] = q
    BY <1>1, <2>1, <2>2
  <2>4. q \in Path /\ Len(q) = Level + 1 /\ NameOf(q) = q[Level + 1]
    BY <1>1, <1>3, EntryIs DEF NameOf
  <2>5. CASE frames = <<>>
    <3>1. Level = 0
      BY <2>5 DEF Level
    <3>2. q[1] # "valid"
      BY <2>4, <2>5, <3>1, StageIs
    <3>3. \A k \in 1..Level' : k = 1
      BY <2>1, <3>1
    <3>4. isValidDir' = FALSE
      BY <2>5
    <3> QED BY <2>3, <3>2, <3>3, <3>4 DEF WMarked
  <2>6. CASE frames # <<>>
    <3>1. /\ Level >= 1 /\ Within(q, Open[1]) /\ \A k \in 1..Level : q[k] = Open[Level][k]
      BY <1>1, <1>3, <2>6, InStage
    <3>2. /\ \A k \in 1..Level : Open[Level][k] = "valid" => isValidDir
          /\ isValidDir => HasValid(Open[1])
      BY <2>6 DEF WInv, WMarked
    <3>3. isValidDir' <=> isValidDir \/ NameOf(q) = "valid"
      BY <2>6
    <3>4. ASSUME NEW k \in 1..(Level + 1), q[k] = "valid" PROVE isValidDir'
      <4>1. CASE k = Level + 1
        BY <2>4, <3>3, <3>4, <4>1
      <4>2. CASE k \in 1..Level
        BY <3>1, <3>2, <3>3, <3>4, <4>2
      <4> QED BY <1>3, <4>1, <4>2
    <3>5. Open'[1] = Open[1]
      <4>1. 1 \in 1..Level
        BY <1>3, <3>1
      <4>2. frames'[1].dir = frames[1].dir
        BY <1>1, <4>1
      <4>3. Open[1] = frames[1].dir
        <5>1. Levels(frames, unread, Open, Todo)
          BY <1>3, LevelsAre DEF Open, Todo, Level
        <5> QED BY <4>1, <5>1 DEF Levels, Level
      <4> QED BY <2>1, <2>2, <4>2, <4>3
    <3>6. HasValid(Open[1])' <=> HasValid(Open[1])
      BY <3>5 DEF HasValid, IsDir, NameOf, Within
    <3>7. isValidDir' => HasValid(Open[1])
      BY <1>3, <3>1, <3>2, <3>3 DEF HasValid
    <3> QED BY <2>1, <2>3, <3>4, <3>6, <3>7 DEF WMarked
  <2> QED BY <2>5, <2>6
<1> QED BY <1>1, <1>4, <1>5, <1>6, <1>7 DEF WInv

LEMMA WalkFail ==
  ASSUME WInv, UNCHANGED <<files, live, cases>>, NEW q, Taken(q, frames', unread'),
         IsDir(q), unopened' = unopened \cup {q}, unread' \subseteq DOMAIN files,
         isValidDir' = (frames # <<>> /\ (isValidDir \/ NameOf(q) = "valid"))
  PROVE  WInv'
<1>1. WWay' /\ \A p \in DOMAIN files : Done(p)' <=> Done(p)
  BY FailDone DEF WInv
<1>2. /\ q \in Todo[Level] /\ q \in DOMAIN files
      /\ frames' \in Seq(Call(DOMAIN files)) /\ Len(frames') = Level
      /\ \A n \in 1..Level : frames'[n].dir = frames[n].dir
  BY DEF Taken
<1>3. WTyped'
  <2>1. isValidDir' \in BOOLEAN
    OBVIOUS
  <2> QED BY <1>2, <2>1 DEF WInv, WTyped, Rooted
<1>4. WFound' /\ WOnce' /\ ValidCasesExpected'
  BY <1>1, SameCases
<1>5. WLive'
  BY <1>1, <1>2, SameLive
<1>6. WMarked'
  <2>1. CASE frames = <<>>
    <3>1. frames' = <<>>
      BY <1>2, <2>1, EmptySeq DEF Level
    <3> QED BY <3>1 DEF WMarked
  <2>2. CASE frames # <<>>
    <3>1. Within(q, Open[1])
      BY <1>2, <2>2, InStage DEF WInv
    <3>2. isValidDir' \in BOOLEAN /\ (isValidDir' <=> isValidDir \/ NameOf(q) = "valid")
      BY <2>2
    <3>3. isValidDir' => isValidDir \/ HasValid(Open[1])
      BY <1>2, <3>1, <3>2 DEF HasValid
    <3> QED BY <1>2, <2>2, <3>2, <3>3, SameMarks
  <2> QED BY <2>1, <2>2
<1> QED BY <1>1, <1>3, <1>4, <1>5, <1>6 DEF WInv

LEMMA WalkStage ==
  ASSUME WInv, EnterStage
  PROVE  WInv'
<1>1. PICK q \in unread : Selected(q) /\ unread' = unread \ {q} /\ Enter(q, <<>>)
  BY DEF EnterStage
<1>2. frames = <<>> /\ isValidDir' = FALSE /\ UNCHANGED <<files, cases>>
  BY DEF EnterStage, InTop
<1>3. Taken(q, frames, unread')
  BY <1>1, <1>2, TakenTop DEF WInv
<1>4. unread' \subseteq DOMAIN files /\ IsDir(q)
  BY <1>1 DEF WInv, WTyped, Selected
<1>5. isValidDir' = (frames # <<>> /\ (isValidDir \/ NameOf(q) = "valid"))
  BY <1>2
<1>6. CASE /\ frames' = Append(<<>>, [dir |-> q, unread |-> Children(q)])
           /\ live' = live \cup {q} /\ UNCHANGED unopened
  BY <1>1, <1>2, <1>3, <1>4, <1>5, <1>6, WalkOpen
<1>7. CASE frames' = <<>> /\ unopened' = unopened \cup {q} /\ UNCHANGED live
  <2>1. Taken(q, frames', unread')
    BY <1>2, <1>3, <1>7
  <2> QED BY <1>2, <1>4, <1>5, <1>7, <2>1, WalkFail
<1> QED BY <1>1, <1>6, <1>7 DEF Enter

LEMMA WalkDir ==
  ASSUME WInv, EnterDir
  PROVE  WInv'
<1>1. PICK q \in Inner.unread : /\ IsDir(q)
                                /\ isValidDir' = (isValidDir \/ NameOf(q) = "valid")
                                /\ Enter(q, Rest(q))
  BY DEF EnterDir
<1>2. frames # <<>> /\ UNCHANGED <<files, unread, cases>>
  BY DEF EnterDir, Walking
<1>3. PICK F : F = Rest(q)
  OBVIOUS
<1>4. Taken(q, F, unread')
  <2>1. Taken(q, F, unread)
    BY <1>1, <1>2, <1>3, TakenIn DEF WInv
  <2> QED BY <1>2, <2>1
<1>5. unread' \subseteq DOMAIN files
  BY <1>2 DEF WInv, WTyped
<1>6. isValidDir' = (frames # <<>> /\ (isValidDir \/ NameOf(q) = "valid"))
  BY <1>1, <1>2
<1>7. \/ /\ frames' = Append(F, [dir |-> q, unread |-> Children(q)])
         /\ live' = live \cup {q} /\ UNCHANGED unopened
      \/ frames' = F /\ unopened' = unopened \cup {q} /\ UNCHANGED live
  BY <1>1, <1>3 DEF Enter
<1>8. CASE /\ frames' = Append(F, [dir |-> q, unread |-> Children(q)])
           /\ live' = live \cup {q} /\ UNCHANGED unopened
  BY <1>1, <1>2, <1>4, <1>5, <1>6, <1>8, WalkOpen
<1>9. CASE frames' = F /\ unopened' = unopened \cup {q} /\ UNCHANGED live
  <2>1. Taken(q, frames', unread')
    BY <1>4, <1>9
  <2> QED BY <1>1, <1>2, <1>5, <1>6, <1>9, <2>1, WalkFail
<1> QED BY <1>7, <1>8, <1>9

(* An entry that is no directory is done, and its path allocated.          *)
LEMMA WalkPass ==
  ASSUME WInv, UNCHANGED <<files, unread, isValidDir, unopened>>, frames # <<>>,
         NEW q, Taken(q, frames', unread'), ~IsDir(q), live' = live \cup {q}
  PROVE  /\ WWay' /\ WLive' /\ WMarked'
         /\ frames' \in Seq(Call(DOMAIN files)) /\ live' \subseteq DOMAIN files
         /\ q \in DOMAIN files /\ ~Done(q)
         /\ \A p \in DOMAIN files : Done(p)' <=> Done(p) \/ p = q
<1>1. WWay' /\ ~Done(q) /\ \A p \in DOMAIN files : Done(p)' <=> Done(p) \/ p = q
  BY PassDone DEF WInv
<1>2. /\ q \in Todo[Level] /\ q \in DOMAIN files
      /\ frames' \in Seq(Call(DOMAIN files)) /\ Len(frames') = Level
      /\ \A n \in 1..Level : frames'[n].dir = frames[n].dir
  BY DEF Taken
<1>3. WLive'
  <2>1. ASSUME NEW p \in DOMAIN files PROVE OnWay(p)' <=> OnWay(p)
    <3>1. Level' = Level
      BY <1>2 DEF Level
    <3> QED BY <1>2, <3>1 DEF OnWay
  <2>2. ASSUME NEW p \in DOMAIN files
        PROVE  p \in live' <=> (~IsDir(p) /\ Done(p)') \/ OnWay(p)'
    <3>1. p \in live <=> (~IsDir(p) /\ Done(p)) \/ OnWay(p)
      BY DEF WInv, WLive
    <3>2. CASE p = q
      <4>1. Done(q)'
        BY <1>1, <1>2
      <4> QED BY <3>2, <4>1
    <3>3. CASE p # q
      BY <1>1, <2>1, <3>1, <3>3
    <3> QED BY <3>2, <3>3
  <2> QED BY <2>2 DEF WLive, IsDir
<1>4. WMarked'
  <2>1. isValidDir' \in BOOLEAN
    BY DEF WInv, WTyped
  <2> QED BY <1>2, <2>1, SameMarks
<1>5. live' \subseteq DOMAIN files
  BY <1>2 DEF WInv, WTyped
<1> QED BY <1>1, <1>2, <1>3, <1>4, <1>5

LEMMA WalkPassBy ==
  ASSUME WInv, PassBy
  PROVE  WInv'
<1>1. PICK q \in Inner.unread :
          /\ ~IsDir(q) /\ ~(files[q] = "file" /\ NameOf(q) \in CNames)
          /\ live' = live \cup {q} /\ frames' = Rest(q)
  BY DEF PassBy
<1>2. frames # <<>> /\ UNCHANGED <<files, unread, isValidDir, cases, unopened>>
  BY DEF PassBy, Walking
<1>3. Taken(q, frames', unread')
  <2>1. Taken(q, frames', unread)
    BY <1>1, <1>2, TakenIn DEF WInv
  <2> QED BY <1>2, <2>1
<1>4. /\ WWay' /\ WLive' /\ WMarked'
      /\ frames' \in Seq(Call(DOMAIN files)) /\ live' \subseteq DOMAIN files
      /\ \A p \in DOMAIN files : Done(p)' <=> Done(p) \/ p = q
  BY <1>1, <1>2, <1>3, WalkPass
<1>5. WTyped'
  BY <1>2, <1>4 DEF WInv, WTyped, Rooted
<1>6. WFound'
  <2>1. ASSUME NEW p \in DOMAIN files
        PROVE  Found(p) <=> files[p] = "file" /\ NameOf(p) \in CNames /\ Done(p)'
    <3>1. Found(p) <=> files[p] = "file" /\ NameOf(p) \in CNames /\ Done(p)
      BY DEF WInv, WFound
    <3> QED BY <1>1, <1>4, <3>1
  <2> QED BY <1>2, <2>1 DEF WFound, Found, NameOf
<1>7. WOnce' /\ ValidCasesExpected'
  BY <1>2 DEF WInv, WOnce, ValidCasesExpected, In, IsDir, NameOf, Within
<1> QED BY <1>4, <1>5, <1>6, <1>7 DEF WInv

LEMMA WalkCase ==
  ASSUME WInv, AddCase
  PROVE  WInv'
<1>1. PICK q \in Inner.unread :
          /\ files[q] = "file" /\ NameOf(q) \in CNames
          /\ cases' = Append(cases, [path |-> q, isValid |-> isValidDir,
                                     skipOnFailure |-> NameOf(q) \in SkipNames])
          /\ live' = live \cup {q} /\ frames' = Rest(q)
  BY DEF AddCase
<1>2. frames # <<>> /\ UNCHANGED <<files, unread, isValidDir, unopened>> /\ ~IsDir(q)
  BY <1>1 DEF AddCase, Walking, IsDir
<1>3. Taken(q, frames', unread')
  <2>1. Taken(q, frames', unread)
    BY <1>1, <1>2, TakenIn DEF WInv
  <2> QED BY <1>2, <2>1
<1>4. /\ WWay' /\ WLive' /\ WMarked'
      /\ frames' \in Seq(Call(DOMAIN files)) /\ live' \subseteq DOMAIN files
      /\ q \in DOMAIN files /\ ~Done(q)
      /\ \A p \in DOMAIN files : Done(p)' <=> Done(p) \/ p = q
  BY <1>1, <1>2, <1>3, WalkPass
<1> DEFINE c == [path |-> q, isValid |-> isValidDir, skipOnFailure |-> NameOf(q) \in SkipNames]
           N == Len(cases)
<1>5. c \in CaseOf(DOMAIN files) /\ c.path = q /\ c.isValid = isValidDir
  BY <1>4 DEF CaseOf, WInv, WTyped
<1>6. cases' = Append(cases, c)
  BY <1>1
<1> HIDE DEF c
<1>7. /\ cases' \in Seq(CaseOf(DOMAIN files)) /\ Len(cases') = N + 1 /\ N \in Nat
      /\ \A n \in 1..N : cases'[n] = cases[n]
      /\ cases'[N + 1] = c
  <2> DEFINE C == CaseOf(DOMAIN files)
  <2>1. cases \in Seq(C) /\ c \in C
    BY <1>5 DEF WInv, WTyped
  <2> DEFINE s == cases
  <2> HIDE DEF C, s
  <2>2. s \in Seq(C)
    BY <2>1 DEF s
  <2>3. /\ Append(s, c) \in Seq(C) /\ Len(Append(s, c)) = Len(s) + 1 /\ Len(s) \in Nat
        /\ \A n \in 1..Len(s) : Append(s, c)[n] = s[n]
        /\ Append(s, c)[Len(s) + 1] = c
    BY ONLY <2>1, <2>2, AppendProperties
  <2> QED BY ONLY <1>6, <2>3 DEF s, C
<1> HIDE DEF N
<1>8. \A n \in 1..(N + 1) : n \in 1..N \/ n = N + 1
  BY <1>7
<1>9. /\ \A n \in 1..N : n \in 1..(N + 1)
      /\ N + 1 \in 1..(N + 1)
  BY <1>7
<1>10. WTyped'
  BY <1>2, <1>4, <1>7 DEF WInv, WTyped, Rooted
<1>11. \A p \in DOMAIN files : Found(p)' <=> Found(p) \/ p = q
  <2> TAKE p \in DOMAIN files
  <2>1. Found(p)' <=> \E n \in 1..(N + 1) : cases'[n].path = p
    BY <1>7 DEF Found
  <2>2. Found(p) <=> \E n \in 1..N : cases[n].path = p
    BY DEF Found, N
  <2> QED BY <1>5, <1>7, <1>8, <1>9, <2>1, <2>2
<1>12. WFound'
  <2>1. ASSUME NEW p \in DOMAIN files
        PROVE  Found(p)' <=> files[p] = "file" /\ NameOf(p) \in CNames /\ Done(p)'
    <3>1. Found(p) <=> files[p] = "file" /\ NameOf(p) \in CNames /\ Done(p)
      BY DEF WInv, WFound
    <3>2. CASE p = q
      <4>1. Done(p)' /\ Found(p)'
        BY <1>4, <1>11, <3>2
      <4> QED BY <1>1, <3>2, <4>1
    <3>3. CASE p # q
      BY <1>4, <1>11, <3>1, <3>3
    <3> QED BY <3>2, <3>3
  <2> QED BY <1>2, <2>1 DEF WFound, NameOf
<1>13. WOnce'
  <2>1. ~Found(q)
    BY <1>4 DEF WInv, WFound
  <2>2. \A n \in 1..N : cases[n].path # q
    BY <2>1 DEF Found, N
  <2>3. \A m, n \in 1..N : cases[m].path = cases[n].path => m = n
    BY DEF WInv, WOnce, N
  <2>4. \A m, n \in 1..(N + 1) : cases'[m].path = cases'[n].path => m = n
    BY <1>5, <1>7, <1>8, <2>2, <2>3
  <2> QED BY <1>7, <2>4 DEF WOnce
<1>14. ValidCasesExpected'
  <2> DEFINE Right(k) == /\ In(k.path, "valid") => k.isValid
                         /\ k.isValid => HasValid(SubSeq(k.path, 1, 1))
  <2>1. \A n \in 1..N : Right(cases[n])
    BY DEF WInv, ValidCasesExpected, HasValid, N
  <2>2. /\ Level \in Nat /\ Level >= 1 /\ Within(q, Open[1]) /\ Len(Open[1]) = 1
        /\ Len(q) = Level + 1 /\ \A k \in 1..Level : q[k] = Open[Level][k]
    <3>1. WTyped /\ WWay /\ q \in Todo[Level]
      BY <1>3 DEF WInv, Taken
    <3> QED BY <1>2, <3>1, EntryIs, InStage
  <2>3. In(q, "valid") => isValidDir
    <3>1. Len(q) - 1 = Level
      BY <2>2
    <3>2. \A k \in 1..Level : Open[Level][k] = "valid" => isValidDir
      BY <1>2 DEF WInv, WMarked
    <3> QED BY <2>2, <3>1, <3>2 DEF In
  <2>4. isValidDir => HasValid(SubSeq(q, 1, 1))
    <3>1. SubSeq(q, 1, 1) = Open[1]
      BY <2>2 DEF Within
    <3>2. isValidDir => HasValid(Open[1])
      BY <1>2 DEF WInv, WMarked
    <3> QED BY <3>1, <3>2
  <2>5. \A n \in 1..(N + 1) : Right(cases'[n])
    <3> TAKE n \in 1..(N + 1)
    <3>1. CASE n \in 1..N
      BY <1>7, <2>1, <3>1
    <3>2. CASE n = N + 1
      BY <1>5, <1>7, <2>3, <2>4, <3>2
    <3> QED BY <1>8, <3>1, <3>2
  <2> QED BY <1>2, <1>7, <2>5 DEF ValidCasesExpected, HasValid, In, IsDir, NameOf, Within
<1> QED BY <1>4, <1>10, <1>12, <1>13, <1>14 DEF WInv

LEMMA WalkLeave ==
  ASSUME WInv, LeaveDir
  PROVE  WInv'
<1>1. /\ frames # <<>> /\ Inner.unread = {} /\ frames' = Under /\ live' = live \ {Inner.dir}
      /\ UNCHANGED <<files, unread, isValidDir, cases, unopened>>
      /\ WTyped /\ WWay
  BY DEF LeaveDir, Walking, WInv
<1>2. /\ WWay'
      /\ frames' \in Seq(Call(DOMAIN files)) /\ Len(frames') \in Nat
      /\ Level = Len(frames') + 1
      /\ \A n \in 1..Len(frames') : frames'[n] = frames[n]
  BY <1>1, LeftDir DEF Level
<1>3. \A p \in DOMAIN files : Done(p)' <=> Done(p)
  BY <1>1, LeaveDone
<1>4. WTyped'
  BY <1>1, <1>2 DEF WTyped, Rooted
<1>5. WFound' /\ WOnce' /\ ValidCasesExpected'
  BY <1>1, <1>3, SameCases
<1> DEFINE M == Len(frames')
<1>6. \A n \in 1..Level : Open[n] = frames[n].dir
  <2> DEFINE d == Open  u == Todo
  <2>1. Levels(frames, unread, d, u)
    BY <1>2, LevelsAre DEF Open, Todo, Level
  <2> HIDE DEF d, u
  <2>2. \A n \in 1..Level : d[n] = frames[n].dir
    BY <2>1 DEF Levels, Level
  <2> QED BY <2>2 DEF d
<1>7. \A n \in 1..M : Open'[n] = frames'[n].dir
  <2> DEFINE d == Open'  u == Todo'  G == frames'
  <2>1. Levels(G, unread', d, u)
    BY <1>2, LevelsAre DEF Open, Todo
  <2> HIDE DEF d, u, G
  <2>2. \A n \in 1..Len(G) : d[n] = G[n].dir
    BY <2>1 DEF Levels
  <2> QED BY <2>2 DEF d, G
<1>8. /\ Inner = frames[Level] /\ Level' = M
      /\ \A n \in 1..Level : n \in 1..M \/ n = Level
      /\ \A n \in 1..M : n \in 1..Level /\ n # Level
      /\ Level \in 1..Level
  BY <1>2 DEF Inner, Level
<1>9. \A n \in 1..Level : Open[n] \in Path /\ Len(Open[n]) = n /\ IsDir(Open[n])
  <2> TAKE n \in 1..Level
  <2>1. n \in 0..Level /\ n > 0
    BY <1>2
  <2> QED BY <1>1, <2>1 DEF WWay, Nested
<1>10. WLive'
  <2>1. ASSUME NEW p \in DOMAIN files
        PROVE  p \in live' <=> (~IsDir(p) /\ Done(p)') \/ OnWay(p)'
    <3>1. p \in live <=> (~IsDir(p) /\ Done(p)) \/ OnWay(p)
      BY DEF WInv, WLive
    <3>2. OnWay(p)' <=> OnWay(p) /\ p # Inner.dir
      <4>1. OnWay(p)' <=> \E n \in 1..M : frames[n].dir = p
        BY <1>2, <1>8 DEF OnWay
      <4>2. \A n \in 1..M : frames[n].dir # Inner.dir
        <5> TAKE n \in 1..M
        <5>1. Len(Open[n]) = n /\ Len(Open[Level]) = Level /\ n # Level
          BY <1>8, <1>9
        <5>2. Open[n] # Open[Level]
          <6> SUFFICES ASSUME Open[n] = Open[Level] PROVE FALSE
            OBVIOUS
          <6>1. Len(Open[n]) = Len(Open[Level])
            OBVIOUS
          <6> QED BY ONLY <5>1, <6>1
        <5> QED BY <1>6, <1>8, <5>2
      <4> QED BY <1>8, <4>1, <4>2 DEF OnWay
    <3>3. p = Inner.dir => IsDir(p)
      BY <1>6, <1>8, <1>9
    <3> QED BY <1>1, <1>3, <3>1, <3>2, <3>3
  <2> QED BY <1>1, <2>1 DEF WLive, IsDir
<1>11. WMarked'
  <2> SUFFICES ASSUME frames' # <<>>
               PROVE  /\ \A k \in 1..M : Open'[M][k] = "valid" => isValidDir
                      /\ isValidDir => HasValid(Open[1])'
    BY <1>1, <1>8 DEF WMarked
  <2>1. M >= 1
    BY <1>2, EmptySeq
  <2>2. M \in 1..M /\ 1 \in 1..M
    BY <1>2, <2>1
  <2>3. Open'[M] = Open[M] /\ Open'[1] = Open[1]
    BY <1>2, <1>6, <1>7, <1>8, <2>2
  <2>4. /\ \A k \in 1..Level : Open[Level][k] = "valid" => isValidDir
        /\ isValidDir => HasValid(Open[1])
    BY <1>1 DEF WInv, WMarked
  <2>5. \A k \in 1..M : Open[Level][k] = Open[M][k]
    <3>1. Within(Open[Level], Open[M])
      <4>1. M \in 0..Level /\ Level \in 0..Level /\ M < Level
        BY <1>2
      <4> QED BY <1>1, <4>1 DEF WWay, Nested
    <3>2. Open[M] \in Path /\ Len(Open[M]) = M /\ Open[Level] \in Path
      BY <1>8, <1>9, <2>2
    <3> QED BY <3>1, <3>2, WithinPlaces
  <2>6. HasValid(Open[1])' <=> HasValid(Open[1])
    BY <1>1, <2>3 DEF HasValid, IsDir, NameOf, Within
  <2> QED BY <1>8, <2>3, <2>4, <2>5, <2>6
<1> QED BY <1>2, <1>4, <1>5, <1>10, <1>11 DEF WInv

(* tests/cases is opened: all of it waits.                                 *)
Fresh ==
    /\ unread = {} /\ frames = <<>> /\ isValidDir = FALSE
    /\ cases = <<>> /\ live = {} /\ unopened = {}

LEMMA WalkBegins ==
  ASSUME Rooted(files), Fresh, OpenTop
  PROVE  WInv'
<1>1. /\ frames' = <<>> /\ unread' = Children(<<>>) /\ isValidDir' = FALSE
      /\ cases' = <<>> /\ live' = {} /\ unopened' = {} /\ files' = files
  BY DEF OpenTop, Fresh
<1>2. <<>> \in Path /\ Len(<<>>) = 0 /\ DOMAIN files \subseteq Path
  BY DEF Path, Rooted
<1>3. \A q \in Children(<<>>) : q \in DOMAIN files /\ q \in Path /\ Len(q) = 1 /\ Within(q, <<>>)
  <2> TAKE q \in Children(<<>>)
  <2>1. q \in DOMAIN files /\ q \in Path /\ Len(q) > 0 /\ Parent(q) = <<>>
    BY <1>2 DEF Children
  <2>2. Len(q) = Len(<<>>) + 1 /\ Within(q, <<>>)
    BY <1>2, <2>1, ParentIs
  <2> QED BY <1>2, <2>1, <2>2
<1> DEFINE d == DirsOf(<<>>)  u == LeftOf(<<>>, Children(<<>>))
<1>4. d[0] = <<>> /\ u[0] = Children(<<>>)
  BY <1>2, LevelsAre DEF Levels
<1> HIDE DEF d, u
<1>5. 0 \in Nat /\ 0 \in 0..0 /\ \A n \in 0..0 : n = 0
  OBVIOUS
<1>6. Nested(0, d, u)
  <2>1. \A n \in 0..0 :
            /\ d[n] \in Path /\ Len(d[n]) = n
            /\ n > 0 => d[n] \in DOMAIN files /\ IsDir(d[n])
            /\ \A q \in u[n] : q \in DOMAIN files /\ Len(q) = n + 1 /\ Within(q, d[n])
    <3> TAKE n \in 0..0
    <3>1. n = 0 /\ 0 + 1 = 1
      BY <1>5
    <3> QED BY <1>2, <1>3, <1>4, <3>1
  <2>2. \A m, n \in 0..0 : ~(m < n)
    BY <1>5
  <2> QED BY <1>5, <2>1, <2>2 DEF Nested
<1>7. WWay'
  <2>1. Nested(Len(frames'), DirsOf(frames'), LeftOf(frames', unread'))
    BY <1>1, <1>2, <1>6 DEF d, u
  <2> QED BY <1>1, <2>1, NextWay
<1>8. \A p \in DOMAIN files : Waits(0, u, p)
  <2> TAKE p \in DOMAIN files
  <2>1. p \in Path /\ p # <<>> /\ Len(p) \in Nat
    BY DEF Rooted, Path
  <2>2. Within(p, <<>>)
    BY <1>2, <2>1, WithinPlaces
  <2>3. PICK c \in DOMAIN files : Within(p, c) /\ Within(c, <<>>) /\ Len(c) = Len(<<>>) + 1
    BY <1>2, <2>1, <2>2, WayDown
  <2>4. c \in Children(<<>>)
    BY <1>2, <2>3, ParentIs DEF Children
  <2> QED BY <1>4, <1>5, <2>3, <2>4 DEF Waits
<1>9. \A p \in DOMAIN files : ~Done(p)'
  <2> TAKE p \in DOMAIN files
  <2>1. Waits(Len(frames'), LeftOf(frames', unread'), p)
    BY <1>1, <1>2, <1>8 DEF u
  <2> QED BY <1>1, <2>1, NextDone
<1>10. WTyped'
  <2> DEFINE C == Call(DOMAIN files)  K == CaseOf(DOMAIN files)
  <2>1. frames' \in Seq(C) /\ cases' \in Seq(K)
    <3> HIDE DEF C, K
    <3> QED BY <1>1
  <2>2. unread' \subseteq DOMAIN files /\ isValidDir' \in BOOLEAN
    BY <1>1, <1>3
  <2>3. Rooted(files)'
    BY <1>1 DEF Rooted
  <2> QED BY <1>1, <2>1, <2>2, <2>3 DEF WTyped
<1>11. WFound' /\ WLive'
  <2>1. \A p \in DOMAIN files : ~Found(p)' /\ ~OnWay(p)'
    BY <1>1, <1>2 DEF Found, OnWay, Level
  <2> QED BY <1>1, <1>9, <2>1 DEF WFound, WLive
<1>12. WOnce' /\ ValidCasesExpected' /\ WMarked'
  BY <1>1, <1>2 DEF WOnce, ValidCasesExpected, WMarked
<1> QED BY <1>7, <1>10, <1>11, <1>12 DEF WInv

(* What get_tests returns.                                                 *)
LEMMA WalkListed ==
  ASSUME WInv, state \in {"start", "walking", "exit", "returned"},
         Returned => frames = <<>> /\ unread = {}
  PROVE  ListComplete
<1>1. WTyped /\ WWay /\ frames \in Seq(Call(DOMAIN files)) /\ Level \in Nat
  BY DEF WInv, WTyped, Level
<1>2. \A n \in 1..Level : frames[n] \in Call(DOMAIN files)
  BY <1>1 DEF Level
<1>3. \A n \in 1..Level : Open[n] = frames[n].dir /\ Todo[n] = frames[n].unread
  <2> DEFINE d == Open  u == Todo
  <2>1. Levels(frames, unread, d, u)
    BY <1>1, LevelsAre DEF Open, Todo, Level
  <2> HIDE DEF d, u
  <2>2. \A n \in 1..Level : d[n] = frames[n].dir /\ u[n] = frames[n].unread
    BY <2>1 DEF Levels, Level
  <2> QED BY <2>2 DEF d, u
<1>4. Open[0] = <<>> /\ Todo[0] = unread
  BY <1>1, LevelsAre DEF Levels, Open, Todo, Level
<1>5. ASSUME NEW n \in 1..Level
      PROVE  /\ IsDir(frames[n].dir) /\ frames[n].unread \subseteq Children(frames[n].dir)
             /\ Parent(frames[n].dir) = IF n = 1 THEN <<>> ELSE frames[n - 1].dir
  <2>1. n \in 0..Level /\ n > 0 /\ n - 1 \in 0..Level /\ n - 1 < n
    BY <1>1
  <2>2. /\ Open[n] \in Path /\ Len(Open[n]) = n /\ IsDir(Open[n])
        /\ \A q \in Todo[n] : q \in DOMAIN files /\ Len(q) = n + 1 /\ Within(q, Open[n])
    BY <1>1, <2>1 DEF WWay, Nested
  <2>3. Open[n - 1] \in Path /\ Len(Open[n - 1]) = n - 1 /\ Within(Open[n], Open[n - 1])
    BY <1>1, <2>1 DEF WWay, Nested
  <2>4. ASSUME NEW q \in Todo[n] PROVE q \in Children(Open[n])
    <3>1. q \in DOMAIN files /\ q \in Path /\ Len(q) = Len(Open[n]) + 1 /\ Within(q, Open[n])
      BY <1>1, <2>2 DEF WTyped, Rooted
    <3>2. Len(q) > 0 /\ Parent(q) = Open[n]
      BY <2>2, <3>1, ParentIs
    <3> QED BY <3>1, <3>2 DEF Children
  <2>5. Parent(Open[n]) = Open[n - 1]
    <3>1. Len(Open[n]) = Len(Open[n - 1]) + 1
      BY <2>1, <2>2, <2>3
    <3> QED BY <2>2, <2>3, <3>1, ParentIs
  <2>6. Open[n - 1] = IF n = 1 THEN <<>> ELSE frames[n - 1].dir
    <3>1. CASE n = 1
      BY <1>4, <3>1
    <3>2. CASE n # 1
      <4>1. n - 1 \in 1..Level
        BY <1>1, <3>2
      <4> QED BY <1>3, <3>2, <4>1
    <3> QED BY <3>1, <3>2
  <2> QED BY <1>3, <2>2, <2>4, <2>5, <2>6
<1>6. TypeOK
  <2>1. \A n \in 1..Len(cases) :
            cases[n] \in [path : DOMAIN files, isValid : BOOLEAN, skipOnFailure : BOOLEAN]
    <3> DEFINE K == CaseOf(DOMAIN files)  s == cases
    <3>1. s \in Seq(K)
      BY <1>1 DEF WTyped
    <3> HIDE DEF K, s
    <3>2. \A n \in 1..Len(s) : s[n] \in K
      BY ONLY <3>1
    <3> QED BY ONLY <3>2 DEF K, s, CaseOf
  <2> QED BY <1>1, <1>5, <2>1 DEF TypeOK, WTyped, Level
<1>7. ASSUME Returned PROVE \A p \in DOMAIN files : (Done(p) <=> Reached(p)) /\ ~OnWay(p)
  <2>1. frames = <<>> /\ unread = {}
    BY <1>7
  <2>2. Level = 0
    BY <2>1 DEF Level
  <2>3. \A p : ~Waits(Level, Todo, p)
    <3>1. \A n \in 0..Level : n = 0
      BY <2>2
    <3> QED BY <1>4, <2>1, <3>1 DEF Waits
  <2> QED BY <2>2, <2>3 DEF Done, OnWay
<1>8. CasesComplete
  <2> SUFFICES ASSUME Returned
               PROVE  /\ {cases[n].path : n \in 1..Len(cases)} =
                             {path \in DOMAIN files : files[path] = "file"
                                                      /\ NameOf(path) \in CNames /\ Reached(path)}
                      /\ \A m, n \in 1..Len(cases) : cases[m].path = cases[n].path => m = n
    BY DEF CasesComplete
  <2>1. \A p \in DOMAIN files :
            Found(p) <=> files[p] = "file" /\ NameOf(p) \in CNames /\ Reached(p)
    BY <1>7 DEF WInv, WFound
  <2>2. \A n \in 1..Len(cases) : cases[n].path \in DOMAIN files
    BY <1>6 DEF TypeOK
  <2> QED BY <2>1, <2>2 DEF WInv, WOnce, Found
<1>9. PathsAccounted
  <2> SUFFICES ASSUME Returned PROVE live = {p \in DOMAIN files : ~IsDir(p) /\ Reached(p)}
    BY DEF PathsAccounted
  <2>1. live \subseteq DOMAIN files
    BY <1>1 DEF WTyped
  <2>2. \A p \in DOMAIN files : p \in live <=> ~IsDir(p) /\ Reached(p)
    BY <1>7 DEF WInv, WLive
  <2> QED BY <2>1, <2>2
<1> QED BY <1>6, <1>8, <1>9 DEF ListComplete, WInv

----------------------------------------------------------------------------
(* The test program.                                                       *)

ListInv ==
    /\ Rooted(files) /\ state \in {"start", "walking", "exit", "returned"}
    /\ state \in {"start", "exit"} => Fresh
    /\ state \in {"walking", "returned"} => WInv
    /\ Returned => frames = <<>> /\ unread = {}

TestsInv ==
    /\ ~Tested => ListInv /\ Few!Init
    /\ Tested  => SuiteInv
    /\ Shipped => PipesInv

LEMMA TreesRooted == files \in Trees => Rooted(files)
<1> SUFFICES ASSUME files \in Trees PROVE Rooted(files)
  OBVIOUS
<1> QED BY TreesAssumption DEF Rooted, Path

(* Nothing changes.                                                        *)
LEMMA SameWalk ==
  ASSUME WInv, UNCHANGED <<files, unread, frames, isValidDir, cases, live, unopened>>
  PROVE  WInv'
<1>1. WTyped' /\ WOnce'
  BY DEF WInv, WTyped, Rooted, WOnce
<1>2. WWay'
  BY NextWay DEF WInv, WWay, Level, Open, Todo
<1>3. \A p : Done(p)' <=> Done(p)
  BY DEF Done, Reached, Implemented, Within, Waits, Level, Todo
<1>4. WFound'
  BY <1>3 DEF WInv, WFound, Found, NameOf
<1>5. WLive'
  BY <1>3 DEF WInv, WLive, OnWay, IsDir, Level
<1>6. WMarked'
  BY DEF WInv, WMarked, HasValid, IsDir, NameOf, Within, Level, Open
<1>7. ValidCasesExpected'
  BY DEF WInv, ValidCasesExpected, In, IsDir, NameOf, Within
<1> QED BY <1>1, <1>2, <1>4, <1>5, <1>6, <1>7 DEF WInv

LEMMA SameList ==
  ASSUME ListInv, UNCHANGED vars
  PROVE  ListInv'
<1>1. UNCHANGED <<files, unread, frames, isValidDir, cases, live, unopened, state>>
  BY DEF vars
<1>2. state \in {"walking", "returned"} => WInv'
  BY <1>1, SameWalk DEF ListInv
<1>3. Rooted(files)' /\ (state \in {"start", "exit"} => Fresh')
  BY <1>1 DEF ListInv, Rooted, Fresh
<1> QED BY <1>1, <1>2, <1>3 DEF ListInv, Returned

LEMMA SameSuite ==
  ASSUME UNCHANGED suiteVars, UNCHANGED cases
  PROVE  (Few!Init => Few!Init') /\ (SuiteInv => SuiteInv')
<1>1. Few!Init => Few!Init'
  BY DEF suiteVars, Few!Init, Few!NoFile, Few!NoCode, Few!StandardStreams
<1>2. SuiteInv => SuiteInv'
  BY DEF suiteVars, SuiteInv, Placed, KnownCodes, Sum, Counted, OnCase, Programs, OldRejected,
         OwnOrRejected, Few!NoFile, Few!Codes, Few!StandardStreams
<1> QED BY <1>1, <1>2

(* The first state of a suite that starts.                                 *)
LEMMA SuiteStartsNext ==
  ASSUME Few!Init', limit' \in Nat, limit' >= Few!StandardStreams, Len(cases') \in Nat
  PROVE  SuiteInv'
<1>1. Placed' /\ Sum' /\ Counted' /\ OnCase' /\ Programs'
  BY DEF Few!Init, Few!StandardStreams, Few!NoFile, Placed, Sum, Counted, OnCase, Programs,
         OldRejected
<1>2. KnownCodes'
  BY DEF Few!Init, Few!NoCode, Few!Codes, KnownCodes
<1> QED BY <1>1, <1>2 DEF SuiteInv, Few!StandardStreams

(* The walk goes on.                                                       *)
LEMMA ListStep == ASSUME ListInv, Step PROVE ListInv' /\ ~Tested'
<1>1. files' = files /\ Rooted(files)'
  <2>1. files' = files
    BY DEF Step, OpenTop, OpenTopFails, SkipEntry, EnterStage, EnterDir, AddCase, PassBy,
           LeaveDir, Return
  <2> QED BY <2>1 DEF ListInv, Rooted
<1>2. ASSUME state = "walking", state' = "walking", WInv' PROVE ListInv' /\ ~Tested'
  BY <1>1, <1>2 DEF ListInv, Returned, Tested, Listed, Shipped
<1>3. state = "walking" => WInv
  BY DEF ListInv
<1>4. CASE OpenTop
  <2>1. state' = "walking" /\ Fresh /\ Rooted(files)
    BY <1>4 DEF OpenTop, ListInv
  <2>2. WInv'
    BY <1>4, <2>1, WalkBegins
  <2> QED BY <1>1, <2>1, <2>2 DEF ListInv, Returned, Tested, Listed, Shipped
<1>5. CASE OpenTopFails
  <2>1. state' = "exit" /\ Fresh'
    BY <1>5 DEF OpenTopFails, ListInv, Fresh
  <2> QED BY <1>1, <2>1 DEF ListInv, Returned, Tested, Listed, Shipped
<1>6. CASE SkipEntry
  <2>1. state = "walking" /\ state' = "walking"
    BY <1>6 DEF SkipEntry, InTop
  <2> QED BY <1>2, <1>3, <1>6, <2>1, WalkSkip
<1>7. CASE EnterStage
  <2>1. state = "walking" /\ state' = "walking"
    BY <1>7 DEF EnterStage, InTop
  <2> QED BY <1>2, <1>3, <1>7, <2>1, WalkStage
<1>8. CASE EnterDir
  <2>1. state = "walking" /\ state' = "walking"
    BY <1>8 DEF EnterDir, Walking
  <2> QED BY <1>2, <1>3, <1>8, <2>1, WalkDir
<1>9. CASE AddCase
  <2>1. state = "walking" /\ state' = "walking"
    BY <1>9 DEF AddCase, Walking
  <2> QED BY <1>2, <1>3, <1>9, <2>1, WalkCase
<1>10. CASE PassBy
  <2>1. state = "walking" /\ state' = "walking"
    BY <1>10 DEF PassBy, Walking
  <2> QED BY <1>2, <1>3, <1>10, <2>1, WalkPassBy
<1>11. CASE LeaveDir
  <2>1. state = "walking" /\ state' = "walking"
    BY <1>11 DEF LeaveDir, Walking
  <2> QED BY <1>2, <1>3, <1>11, <2>1, WalkLeave
<1>12. CASE Return
  <2>1. /\ state = "walking" /\ state' = "returned" /\ frames = <<>> /\ unread = {}
        /\ UNCHANGED <<files, unread, frames, isValidDir, cases, live, unopened>>
    BY <1>12 DEF Return, InTop
  <2>2. WInv'
    BY <1>3, <2>1, SameWalk
  <2> QED BY <1>1, <2>1, <2>2 DEF ListInv, Returned, Tested, Listed, Shipped
<1> QED
  BY <1>4, <1>5, <1>6, <1>7, <1>8, <1>9, <1>10, <1>11, <1>12 DEF Step

LEMMA ListHolds == ListInv => ListComplete
<1> SUFFICES ASSUME ListInv PROVE ListComplete
  OBVIOUS
<1>1. CASE state \in {"walking", "returned"}
  BY <1>1, WalkListed DEF ListInv
<1>2. CASE state \in {"start", "exit"}
  <2>1. /\ unread = {} /\ frames = <<>> /\ isValidDir = FALSE
        /\ cases = <<>> /\ live = {} /\ unopened = {} /\ ~Returned
    BY <1>2 DEF ListInv, Fresh, Returned
  <2>2. \A n \in 1..Len(<<>>) : FALSE
    OBVIOUS
  <2>3. TypeOK
    BY <1>2, <2>1, <2>2 DEF TypeOK
  <2>4. ValidCasesExpected
    BY <2>1, <2>2 DEF ValidCasesExpected
  <2> QED BY <2>1, <2>3, <2>4 DEF ListComplete, CasesComplete, PathsAccounted
<1> QED BY <1>1, <1>2 DEF ListInv

LEMMA TestsBegin == TestsInit => TestsInv
<1> SUFFICES ASSUME TestsInit PROVE TestsInv
  OBVIOUS
<1>1. CASE Init
  <2>1. ListInv
    BY <1>1, TreesRooted DEF Init, ListInv, Fresh, Returned
  <2>2. ~Tested
    BY <1>1 DEF Init, Tested, Listed, Shipped
  <2> QED BY <2>1, <2>2 DEF TestsInit, TestsInv, Tested, Shipped
<1>2. CASE cases = FourStages /\ limit = Usual /\ state = "shipped"
  <2>1. SuiteInv
    <3>1. limit \in Nat /\ limit >= Few!StandardStreams /\ Len(cases) \in Nat
      BY <1>2, ShippedCases DEF Usual, Few!StandardStreams
    <3> QED BY <3>1, SuiteStarts DEF TestsInit
  <2>2. PipesInv
    <3>1. pos = 1 /\ at = "pipes" /\ open = 3
      BY DEF TestsInit, Few!Init, Few!StandardStreams
    <3> QED BY <1>2, <3>1, SpentIs DEF PipesInv, Few!StandardStreams, Places
  <2> QED BY <1>2, <2>1, <2>2 DEF TestsInv, Tested, Shipped
<1> QED BY <1>1, <1>2 DEF TestsInit

LEMMA TestsStep == TestsInv /\ [TestsNext]_allVars => TestsInv'
<1> SUFFICES ASSUME TestsInv, [TestsNext]_allVars PROVE TestsInv'
  OBVIOUS
<1>1. CASE List
  <2>1. state \notin {"listed", "shipped"}
    BY <1>1 DEF List, Step, OpenTop, OpenTopFails, SkipEntry, EnterStage, EnterDir, AddCase,
                PassBy, LeaveDir, Return, InTop, Walking
  <2>2. ListInv /\ Few!Init
    BY <2>1 DEF TestsInv, Tested, Listed, Shipped
  <2>3. ListInv' /\ ~Tested'
    BY <1>1, <2>2, ListStep DEF List
  <2>4. Few!Init'
    BY <1>1, <2>2 DEF List, suiteVars, Few!Init, Few!NoFile, Few!NoCode, Few!StandardStreams
  <2> QED BY <2>3, <2>4 DEF TestsInv, Tested
<1>2. CASE StartSuite
  <2>1. ~Tested /\ Few!Init
    BY <1>2 DEF StartSuite, Returned, Tested, Listed, Shipped, TestsInv
  <2>2. Len(cases) \in Nat
    BY <1>2, <2>1 DEF StartSuite, Returned, TestsInv, ListInv, WInv, WTyped
  <2>3. Len(cases') \in Nat
    <3> DEFINE f == [n \in 1..Len(cases) |-> [isValid |-> cases[n].isValid,
                                              skipOnFailure |-> cases[n].skipOnFailure]]
    <3>1. cases' = f
      BY <1>2 DEF StartSuite
    <3>2. Len(f) = Len(cases)
      BY <2>2
    <3> QED BY <2>2, <3>1, <3>2
  <2>4. limit' \in Nat /\ limit' >= Few!StandardStreams
    BY <1>2, SuitesAssumption DEF StartSuite
  <2>5. Few!Init'
    BY <1>2, <2>1 DEF StartSuite, Few!Init, Few!NoFile, Few!NoCode, Few!StandardStreams
  <2>6. SuiteInv'
    BY <2>3, <2>4, <2>5, SuiteStartsNext
  <2> QED BY <1>2, <2>6 DEF StartSuite, TestsInv, Tested, Listed, Shipped
<1>3. CASE Suite
  <2>1. state' = state /\ Tested
    BY <1>3 DEF Suite, vars, Tested
  <2>2. SuiteInv /\ SuiteInv'
    BY <1>3, <2>1, FewerFaults, SuiteStep DEF Suite, TestsInv
  <2>3. Shipped => PipesInv'
    <3>1. Shipped => All!Test /\ PipesInv
      BY <1>3 DEF Suite, Shipped, Listed, TestsInv
    <3> QED BY <2>2, <3>1, PipesStep
  <2> QED BY <2>1, <2>2, <2>3 DEF TestsInv, Tested, Listed, Shipped
<1>4. CASE UNCHANGED allVars
  <2>1. UNCHANGED vars /\ UNCHANGED suiteVars /\ UNCHANGED cases
    BY <1>4 DEF allVars, vars
  <2>2. ListInv => ListInv'
    BY <2>1, SameList
  <2>3. (Few!Init => Few!Init') /\ (SuiteInv => SuiteInv')
    BY <2>1, SameSuite
  <2>4. PipesInv => PipesInv'
    BY <2>1 DEF vars, suiteVars, PipesInv
  <2> QED BY <2>1, <2>2, <2>3, <2>4 DEF vars, TestsInv, Tested, Listed, Shipped
<1> QED BY <1>1, <1>2, <1>3, <1>4 DEF TestsNext

LEMMA TestsInvariant == TestsSpec => []TestsInv
<1>1. TestsInit => TestsInv
  BY TestsBegin
<1>2. TestsInv /\ [TestsNext]_allVars => TestsInv'
  BY TestsStep
<1> QED BY <1>1, <1>2, PTL DEF TestsSpec

(* Whatever the tree, the order of readdir and the directories that cannot *)
(* be opened, get_tests of list.c returns each case once, marked as        *)
(* expected to compile where it lies in a directory "valid", and keeps the *)
(* paths of the entries that are no directories.                           *)
THEOREM TestsComplete == TestsSpec => []GetTestsComplete
<1>1. TestsInv => GetTestsComplete
  BY ListHolds DEF TestsInv, GetTestsComplete
<1> QED BY <1>1, TestsInvariant, PTL

(* Whatever fails, a verdict of execute.c compares the exit codes of the   *)
(* two programs of its own case, whatever the cases before it left in the  *)
(* working directory, and is counted once.                                 *)
THEOREM TestsVerdicts == TestsSpec => []VerdictsSound
<1>1. TestsInv => VerdictsSound
  BY SuiteSound DEF TestsInv, VerdictsSound
<1> QED BY <1>1, TestsInvariant, PTL

(* The descriptors that execute.c leaks never use up the usual limit with  *)
(* the cases of the repository.                                            *)
THEOREM TestsPipes == TestsSpec => []PipesSuffice
<1>1. TestsInv => PipesSuffice
  <2> SUFFICES ASSUME TestsInv, Shipped PROVE All!PipesSuffice
    BY DEF PipesSuffice
  <2>1. SuiteInv /\ PipesInv
    BY DEF TestsInv, Tested
  <2>2. pos \in 1..73 /\ Len(cases) = 72 /\ (pos <= Len(cases) => open + 8 <= limit)
        /\ open \in Nat /\ limit = 1024
    BY <2>1, RoomLeft
  <2>3. open + 2 + 6 = open + 8 /\ (open + 6 <= limit \/ ~(open + 8 <= limit))
    BY <2>2
  <2> QED BY <2>2, <2>3 DEF All!PipesSuffice, All!Room, All!Peak
<1> QED BY <1>1, TestsInvariant, PTL
=============================================================================
