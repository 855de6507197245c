----------------------------- MODULE ArgParser -----------------------------
(***************************************************************************)
(* argparser_parse of src/src/core/arg.c.  A character is a string, a text *)
(* a sequence of characters; a name of several letters that only ever      *)
(* stands behind "--" may be one character.  One argument is one action,   *)
(* one letter of a cluster of short options is one action.  A definition   *)
(* that stands right before another and is named for what it gets wrong is *)
(* a seeded defect.                                                        *)
(***************************************************************************)
EXTENDS Integers, Sequences

CONSTANTS
    Args,          (* ArgParser.args; shortname "" is the character 0       *)
    CommandLines   (* the command lines considered, without argv[0]         *)

Kinds == {"POS", "OPT", "FLAG"}
(* What the parameters are; a user of this module gives them as values.    *)
ArgsAssumption ==
    /\ Args \in Seq([kind : Kinds, shortname : STRING, longname : Seq(STRING)])
    /\ CommandLines \subseteq Seq(Seq(STRING))

VARIABLES
    argv,          (* the command line; it ends where argc says             *)
    ofs,           (* ArgInfo.ofs: the argument that is read                *)
    i,             (* the place in its cluster of short options, 0 if none  *)
    flagValue, value,   (* of each of Args                                  *)
    numConsumed,   (* the positionals that have their value                 *)
    extra,         (* ArgParser.extra                                       *)
    error,         (* the result: "none", or what the message says          *)
    live,          (* what argparser_parse allocated and nobody freed       *)
    state          (* "parsing" or "done"                                   *)

setVars  == <<flagValue, value, numConsumed, extra>>
argsVars == <<argv, ofs, i, setVars, error, live, state>>
----------------------------------------------------------------------------
(* The table and the texts. *)

(* The numbers in `set`, up to n, in order.                                *)
InOrder(set, n) ==
    LET upTo[m \in 0..n] ==
            IF m = 0 THEN <<>>
            ELSE IF m \in set THEN Append(upTo[m - 1], m) ELSE upTo[m - 1]
    IN  upTo[n]

(* count_positionals *)
Positionals == InOrder({k \in 1..Len(Args) : Args[k].kind = "POS"}, Len(Args))

ByLongname(name) == {k \in 1..Len(Args) : Args[k].longname = name}
ByShortname(c)   == {k \in 1..Len(Args) : Args[k].shortname = c}
(* BUF_FIND stops at the first of them.                                    *)
First(places) == CHOOSE k \in places : \A j \in places : k <= j

IsLong(text)  == Len(text) > 1 /\ text[1] = "-" /\ text[2] = "-"
IsShort(text) == text # <<>> /\ text[1] = "-" /\ ~IsLong(text)

Equals(text)   == {k \in 3..Len(text) : text[k] = "="}
LongName(text) ==
    SubSeq(text, 3, IF Equals(text) = {} THEN Len(text) ELSE First(Equals(text)) - 1)
From(text, k) == SubSeq(text, k, Len(text))

Arg   == argv[ofs]
Long  == ByLongname(LongName(Arg))
Short == ByShortname(Arg[i])
Are(found, kind) == found # {} /\ Args[First(found)].kind = kind
----------------------------------------------------------------------------
AtArgument == state = "parsing" /\ i = 0 /\ ofs <= Len(argv)
AtLong     == AtArgument /\ IsLong(Arg)
AtShort    == state = "parsing" /\ i # 0 /\ i <= Len(Arg)

SetFlag(found)  == /\ flagValue' = [flagValue EXCEPT ![First(found)] = TRUE]
                   /\ UNCHANGED <<value, numConsumed, extra>>
Set(found, text) == /\ value' = [value EXCEPT ![First(found)] = text]
                    /\ UNCHANGED <<flagValue, numConsumed, extra>>
GoOn(n) == ofs' = ofs + n /\ i' = 0 /\ UNCHANGED <<argv, error, live, state>>

(* The caller gets a message; the buffer of indices stays (line 201).      *)
Fail(message) ==
    /\ error' = message
    /\ live' = live \cup {"message"}
    /\ state' = "done"
    /\ UNCHANGED <<argv, ofs, i, setVars>>
Complaint(found) ==
    CASE found = {} -> "unknown option"
      [] Are(found, "POS") -> "is positional"
      [] OTHER -> "requires a value"

(* parse_single_longopt.  A value joined to a flag is ignored.             *)
LongFlag == AtLong /\ Are(Long, "FLAG") /\ SetFlag(Long) /\ GoOn(1)

LongJoined ==
    /\ AtLong /\ Are(Long, "OPT") /\ Equals(Arg) # {}
    /\ Set(Long, From(Arg, First(Equals(Arg)) + 1))
    /\ GoOn(1)

LongNextReadAgain ==
    /\ AtLong /\ Are(Long, "OPT") /\ Equals(Arg) = {} /\ ofs < Len(argv)
    /\ Set(Long, argv[ofs + 1])
    /\ GoOn(1)
LongNext ==
    /\ AtLong /\ Are(Long, "OPT") /\ Equals(Arg) = {} /\ ofs < Len(argv)
    /\ Set(Long, argv[ofs + 1])
    /\ GoOn(2)

LongFails ==
    /\ AtLong
    /\ \/ Long = {} \/ Are(Long, "POS")
       \/ Are(Long, "OPT") /\ Equals(Arg) = {} /\ ofs = Len(argv)
    /\ Fail(Complaint(Long))

(* parse_shortopts *)
StartShort ==
    /\ AtArgument /\ IsShort(Arg)
    /\ i' = 2
    /\ UNCHANGED <<argv, ofs, setVars, error, live, state>>

ShortFlag ==
    /\ AtShort /\ Are(Short, "FLAG")
    /\ SetFlag(Short)
    /\ i' = i + 1
    /\ UNCHANGED <<argv, ofs, error, live, state>>

ShortJoined ==
    /\ AtShort /\ Are(Short, "OPT") /\ i < Len(Arg)
    /\ Set(Short, From(Arg, i + 1))
    /\ GoOn(1)

ShortNext ==
    /\ AtShort /\ Are(Short, "OPT") /\ i = Len(Arg) /\ ofs < Len(argv)
    /\ Set(Short, argv[ofs + 1])
    /\ GoOn(2)

ShortFails ==
    /\ AtShort
    /\ \/ Short = {} \/ Are(Short, "POS")
       \/ Are(Short, "OPT") /\ i = Len(Arg) /\ ofs = Len(argv)
    /\ Fail(Complaint(Short))

EndShort ==
    /\ state = "parsing" /\ i # 0 /\ i > Len(Arg)
    /\ GoOn(1)
    /\ UNCHANGED setVars

(* parse_positional; the buffer of extra arguments is nobody's to free.    *)
Positional ==
    /\ AtArgument /\ ~IsLong(Arg) /\ ~IsShort(Arg)
    /\ IF numConsumed < Len(Positionals)
       THEN /\ numConsumed' = numConsumed + 1
            /\ value' = [value EXCEPT ![Positionals[numConsumed + 1]] = Arg]
            /\ UNCHANGED <<flagValue, extra, live>>
       ELSE /\ extra' = Append(extra, Arg)
            /\ live' = live \cup {"extra"}
            /\ UNCHANGED <<flagValue, value, numConsumed>>
    /\ ofs' = ofs + 1
    /\ UNCHANGED <<argv, i, error, state>>

(* The end of argparser_parse.  generate_missing_positional_message leaves *)
(* its buffer of references behind.                                        *)
Finish ==
    /\ state = "parsing" /\ ofs > Len(argv)
    /\ IF numConsumed < Len(Positionals)
       THEN /\ error' = "missing positional arguments"
            /\ live' = (live \ {"indices"}) \cup {"refBuf", "message"}
       ELSE UNCHANGED error /\ live' = live \ {"indices"}
    /\ state' = "done"
    /\ UNCHANGED <<argv, ofs, i, setVars>>
----------------------------------------------------------------------------
Init ==
    /\ argv \in CommandLines
    /\ ofs = 1 /\ i = 0
    /\ flagValue = [k \in 1..Len(Args) |-> FALSE]
    /\ value = [k \in 1..Len(Args) |-> <<>>]
    /\ numConsumed = 0 /\ extra = <<>>
    /\ error = "none"
    /\ live = IF Positionals = <<>> THEN {} ELSE {"indices"}
    /\ state = "parsing"

ReadLong  == LongFlag \/ LongJoined \/ LongNext \/ LongFails
ReadShort == StartShort \/ ShortFlag \/ ShortJoined \/ ShortNext \/ ShortFails \/ EndShort
Parse     == ReadLong \/ ReadShort \/ Positional \/ Finish
Parsed    == state = "done"

Next == Parse \/ (Parsed /\ UNCHANGED argsVars)

Spec == Init /\ [][Next]_argsVars
----------------------------------------------------------------------------
(* Properties. *)

Complaints == {"unknown option", "is positional", "requires a value",
               "missing positional arguments"}

(* The variables have their types; no argument behind the last is read.    *)
TypeOK ==
    /\ argv \in Seq(Seq(STRING))
    /\ ofs \in 1..(Len(argv) + 1)
    /\ i \in Nat /\ (i # 0 => ofs <= Len(argv) /\ i \in 2..(Len(argv[ofs]) + 1))
    /\ flagValue \in [1..Len(Args) -> BOOLEAN]
    /\ value \in [1..Len(Args) -> Seq(STRING)]
    /\ numConsumed \in 0..Len(Positionals)
    /\ extra \in Seq(Seq(STRING))
    /\ error \in {"none"} \cup Complaints
    /\ live \subseteq {"indices", "refBuf", "message", "extra"}
    /\ state \in {"parsing", "done"}

(* What a command line means, read off the whole of it.  A text wants the  *)
(* next argument if it ends in an option without a value.  An argument is  *)
(* a value if it ends an odd run of arguments that want the next one.      *)
Stop(text) ==
    First({k \in 2..(Len(text) + 1) :
              k > Len(text) \/ ~Are(ByShortname(text[k]), "FLAG")})
Named(text) ==
    IF IsLong(text) THEN ByLongname(LongName(text))
    ELSE IF IsShort(text) /\ Stop(text) <= Len(text) THEN ByShortname(text[Stop(text)])
    ELSE {}
Bare(text) == IF IsLong(text) THEN Equals(text) = {} ELSE Stop(text) = Len(text)
IsDashed(text) == IsLong(text) \/ IsShort(text)
Wants(text) == IsDashed(text) /\ Are(Named(text), "OPT") /\ Bare(text)
Wrong(text) ==
    /\ IsDashed(text)
    /\ IsShort(text) => Stop(text) <= Len(text)
    /\ Named(text) = {} \/ Are(Named(text), "POS")

Places == 1..Len(argv)
Values ==
    LET wanting == {q \in Places : Wants(argv[q])} IN
    {p \in Places :
        \E n \in 1..(p - 1) :
            n % 2 = 1 /\ (p - n)..(p - 1) \subseteq wanting /\ p - n - 1 \notin wanting}
Failing ==
    {p \in Places \ Values : Wrong(argv[p]) \/ (Wants(argv[p]) /\ p = Len(argv))}
Seen ==
    LET failing == Failing IN {p \in Places \ Values : \A q \in failing : q >= p}
Accepted == Seen \ Failing

TurnsOn(text, k) ==
    \/ IsLong(text) /\ Are(Named(text), "FLAG") /\ First(Named(text)) = k
    \/ IsShort(text) /\ \E j \in 2..(Stop(text) - 1) : First(ByShortname(text[j])) = k
Gives(p, k) == IsDashed(argv[p]) /\ Are(Named(argv[p]), "OPT") /\ First(Named(argv[p])) = k
ValueAt(p) ==
    IF Wants(argv[p]) THEN argv[p + 1]
    ELSE From(argv[p], 1 + IF IsLong(argv[p]) THEN First(Equals(argv[p])) ELSE Stop(argv[p]))
Unnamed == {p \in Accepted : ~IsDashed(argv[p])}
Plain   == InOrder(Unnamed, Len(argv))
Place(k) == CHOOSE n \in 1..Len(Positionals) : Positionals[n] = k

TheOnly(set) == CHOOSE x \in set : TRUE
ExpectedValue(k) ==
    LET givers == {p \in Accepted : Gives(p, k)}
        last   == {p \in givers : \A q \in givers : q <= p}
    IN
    CASE Args[k].kind = "POS" /\ Place(k) <= Len(Plain) -> argv[Plain[Place(k)]]
      [] Args[k].kind = "OPT" /\ givers # {} -> TheOnly({ValueAt(p) : p \in last})
      [] OTHER -> <<>>
ExpectedError ==
    LET failing == Failing IN
    IF failing # {} THEN Complaint(Named(argv[First(failing)]))
    ELSE IF Len(Plain) < Len(Positionals) THEN "missing positional arguments"
    ELSE "none"

(* argparser_parse sets what the command line says: options may be joined  *)
(* to each other and to their values, a value may look like an option, the *)
(* last value counts; an argument that fails ends it with what was set     *)
(* before, the flags of its own cluster included.                          *)
ReadsCommandLine ==
    LET plain == Plain IN
    Parsed =>
        /\ error = ExpectedError
        /\ \A k \in 1..Len(Args) :
               /\ flagValue[k] <=> \E p \in Seen : TurnsOn(argv[p], k)
               /\ value[k] = ExpectedValue(k)
        /\ extra = [n \in 1..(Len(plain) - numConsumed) |-> argv[plain[numConsumed + n]]]

(* What is left allocated: the message for the caller to free; and, freed  *)
(* by nobody, the extra arguments, the indices when an argument fails, and *)
(* the references the message of missing positionals is made of.           *)
LeftAllocated ==
    LET When(condition, what) == IF condition THEN {what} ELSE {} IN
    Parsed =>
        live = When(error # "none", "message")
               \cup When(extra # <<>>, "extra")
               \cup When(error = "missing positional arguments", "refBuf")
               \cup When(/\ error \in Complaints \ {"missing positional arguments"}
                         /\ Positionals # <<>>, "indices")
=============================================================================
