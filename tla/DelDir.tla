------------------------------- MODULE DelDir -------------------------------
(***************************************************************************)
(* del_dir of src/src/core/dir.c: the removal of a directory with all that *)
(* is in it, and who owns the strings that hold the paths.  A path is the  *)
(* sequence of the names from the starting directory; `frames` is the C    *)
(* call stack.  path_join (str.h:92) is a str_join, which frees each part  *)
(* that owns its text (str.c:159).  A definition that stands right before  *)
(* another and is named for what it gets wrong is a seeded defect.         *)
(***************************************************************************)
EXTENDS Integers, Sequences

CONSTANTS
    Trees,    (* the file trees considered: paths to their kinds            *)
    Top       (* the directory to remove                                    *)

(* A directory of kind "untyped" is one for which readdir says DT_UNKNOWN, *)
(* as some file systems do.                                                *)
DirKinds == {"dir", "untyped"}
FileKinds == DirKinds \cup {"file"}
Parent(path) == SubSeq(path, 1, Len(path) - 1)
Dots == {".", ".."}

(* No entry is called "." or "..", and it lies in directories that exist.  *)
TreesAssumption ==
    /\ Top \in Seq(STRING) /\ Top # <<>>
    /\ \A tree \in Trees :
           /\ Top \in DOMAIN tree
           /\ \A path \in DOMAIN tree :
                  /\ path \in Seq(STRING) /\ path # <<>> /\ path[Len(path)] \notin Dots
                  /\ tree[path] \in FileKinds
                  /\ \A k \in 1..(Len(path) - 1) :
                         /\ SubSeq(path, 1, k) \in DOMAIN tree
                         /\ tree[SubSeq(path, 1, k)] \in DirKinds

VARIABLES
    files,     (* what exists: a path to its kind                           *)
    frames,    (* the calls of del_dir that run, innermost last             *)
    live,      (* the paths whose text is allocated                         *)
    misused,   (* has memory been used or freed that was free?              *)
    calls,     (* history: the calls, with what they found                  *)
    failed     (* history: the entries a system call failed on              *)

vars == <<files, frames, live, misused, calls, failed>>
----------------------------------------------------------------------------
Children(dir) == {path \in DOMAIN files : path # <<>> /\ Parent(path) = dir}

(* What a name read from a directory stands for.                           *)
Resolve(dir, name) ==
    CASE name = "." -> dir
      [] name = ".." -> Parent(dir)
      [] OTHER -> Append(dir, name)

Inner   == frames[Len(frames)]
Under   == SubSeq(frames, 1, Len(frames) - 1)
Running == ~misused /\ frames # <<>>
Begun   == calls # {}

Remove(path) == files' = [p \in DOMAIN files \ {path} |-> files[p]]
Fails(path)  == failed' = failed \cup {path} /\ UNCHANGED files

(* The text of the innermost path may be read: nobody freed it.            *)
Readable == Inner.owned => Inner.dir \in live

(* str_free(path), and path_join(path, name), which reads the path, makes  *)
(* a new text and frees the path if the str it is given owns it.           *)
FreedKept == {}
Freed == IF Inner.owned THEN {Inner.dir} ELSE {}
----------------------------------------------------------------------------
(* A call, its str owning the text of the path or not.  opendir may fail:  *)
(* the call returns at once and frees nothing.  readdir returns the        *)
(* entries in any order.                                                   *)
Enter(dir, owned, stack) ==
    LET Called(ok) == [dir |-> dir, owned |-> owned, ok |-> ok, entries |-> Children(dir)] IN
    \/ /\ files[dir] \in DirKinds
       /\ frames' = Append(stack,
              [dir |-> dir, owned |-> owned,
               unread |-> Dots \cup {path[Len(path)] : path \in Children(dir)}])
       /\ calls' = calls \cup {Called(TRUE)}
       /\ UNCHANGED failed
    \/ /\ frames' = stack
       /\ calls' = calls \cup {Called(FALSE)}
       /\ failed' = failed \cup {dir}

(* The outermost call: a caller keeps its path or gives it away.           *)
Call(owned) ==
    /\ ~Begun
    /\ Enter(Top, owned, <<>>)
    /\ live' = IF owned THEN {Top} ELSE {}
    /\ UNCHANGED <<files, misused>>

(* One turn of the loop.                                                   *)
Read(name) == frames' = [frames EXCEPT ![Len(frames)].unread = @ \ {name}]
Misuse     == misused' = TRUE /\ UNCHANGED <<files, live, calls, failed>>

SkipDots ==
    /\ Running
    /\ \E name \in Inner.unread \cap Dots : Read(name)
    /\ UNCHANGED <<files, live, misused, calls, failed>>

(* A directory: its path is a new text, which the call of del_dir is given.*)
EnterChildSkipsDotOnly ==
    /\ Running
    /\ \E name \in Inner.unread \ {"."} :
           LET child == Resolve(Inner.dir, name)
               rest  == [frames EXCEPT ![Len(frames)].unread = @ \ {name}]
           IN  /\ child \in DOMAIN files /\ files[child] = "dir"
               /\ IF Readable
                  THEN /\ live' = (live \ Freed) \cup {child}
                       /\ Enter(child, TRUE, rest)
                       /\ UNCHANGED <<files, misused>>
                  ELSE Read(name) /\ Misuse
EnterChild ==
    /\ Running
    /\ \E name \in Inner.unread \ Dots :
           LET child == Resolve(Inner.dir, name)
               rest  == [frames EXCEPT ![Len(frames)].unread = @ \ {name}]
           IN  /\ files[child] = "dir"
               /\ IF Readable
                  THEN /\ live' = (live \ Freed) \cup {child}
                       /\ Enter(child, TRUE, rest)
                       /\ UNCHANGED <<files, misused>>
                  ELSE Read(name) /\ Misuse

(* Anything else: its path is a new text, freed after unlink, which fails  *)
(* on a directory and may fail on a file; nobody looks.                    *)
UnlinkChild ==
    /\ Running
    /\ \E name \in Inner.unread \ Dots :
           LET child == Resolve(Inner.dir, name) IN
           /\ files[child] # "dir"
           /\ Read(name)
           /\ IF Readable
              THEN /\ (files[child] = "file" /\ Remove(child) /\ UNCHANGED failed)
                      \/ Fails(child)
                   /\ live' = live \ Freed
                   /\ UNCHANGED <<misused, calls>>
              ELSE Misuse

(* The end of the directory: rmdir, which fails if something is left in    *)
(* it, and str_free.                                                       *)
Leave ==
    /\ Running /\ Inner.unread = {}
    /\ frames' = Under
    /\ IF Readable
       THEN /\ (Children(Inner.dir) = {} /\ Remove(Inner.dir) /\ UNCHANGED failed)
               \/ Fails(Inner.dir)
            /\ live' = live \ Freed
            /\ UNCHANGED <<misused, calls>>
       ELSE Misuse
----------------------------------------------------------------------------
Init ==
    /\ files \in Trees
    /\ frames = <<>> /\ live = {} /\ misused = FALSE
    /\ calls = {} /\ failed = {}

Step     == SkipDots \/ EnterChild \/ UnlinkChild \/ Leave
Returned == Begun /\ frames = <<>> /\ ~misused
Over     == Returned \/ misused

Next == (\E owned \in BOOLEAN : Call(owned)) \/ Step \/ (Over /\ UNCHANGED vars)

Spec == Init /\ [][Next]_vars
----------------------------------------------------------------------------
(* Properties. *)

Within(path, dir) == Len(path) >= Len(dir) /\ SubSeq(path, 1, Len(dir)) = dir

(* The variables have their types; each call is for a directory in that of *)
(* the call below it, and none of them is gone.                            *)
TypeOK ==
    /\ DOMAIN files \subseteq Seq(STRING) /\ \A p \in DOMAIN files : files[p] \in FileKinds
    /\ \A n \in 1..Len(frames) :
           /\ frames[n].owned \in BOOLEAN /\ frames[n].unread \subseteq STRING \cup Dots
           /\ frames[n].dir \in DOMAIN files /\ files[frames[n].dir] \in DirKinds
           /\ IF n = 1 THEN frames[n].dir = Top
              ELSE Parent(frames[n].dir) = frames[n - 1].dir
    /\ live \subseteq Seq(STRING) /\ failed \subseteq Seq(STRING)
    /\ misused \in BOOLEAN
    /\ \A c \in calls : c.owned \in BOOLEAN /\ c.ok \in BOOLEAN

(* Whatever is removed lies in the directory to remove, and nothing lies   *)
(* in it any more: "." and ".." are never followed, and no other part of   *)
(* the working directory is touched.                                       *)
RemovesOnlyInside ==
    [][\A p \in DOMAIN files \ DOMAIN files' :
           Within(p, Top) /\ Children(p) = {}]_vars

(* What stays behind when del_dir returns is what a system call failed on, *)
(* or lies in a directory that could not be opened or was taken for a file.*)
OnlyFailuresStay ==
    Returned =>
        \A p \in DOMAIN files : Within(p, Top) =>
            \/ p \in failed
            \/ \E dir \in failed : Within(p, dir) /\ \A c \in calls : c.ok => c.dir # dir

(* del_dir goes on using a path it has given away: the path of a call that *)
(* owns it is freed by the first path_join, then read and freed again.     *)
(* That happens exactly when such a directory is not empty, so never to a  *)
(* caller that keeps its path and has no directories inside.               *)
BadFrees == {c \in calls : c.owned /\ c.ok /\ c.entries # {}}
MisuseIffOwnedNotEmpty ==
    /\ misused => BadFrees # {}
    /\ Returned => BadFrees = {}

(* Otherwise each path is freed, except that of a directory that could not *)
(* be opened.                                                              *)
PathsFreed ==
    Returned => live = {c.dir : c \in {d \in calls : d.owned /\ ~d.ok}}

(* What a call of del_dir leaves: the files a system call failed on, and   *)
(* the paths of the directories it could not open; unless it was given a   *)
(* path of its own and found something, when it used what it had freed.    *)
RemovalOutcome == TypeOK /\ OnlyFailuresStay /\ MisuseIffOwnedNotEmpty /\ PathsFreed
=============================================================================
