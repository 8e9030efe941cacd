------------------------------- MODULE Platform -------------------------------
(***************************************************************************)
(* The functions of flow/Platform.cpp on files.                            *)
(*                                                                         *)
(* atomicReplace and deleteFile: callers replace the contents of one file  *)
(* by way of temporary files, each step may fail, and the machine may      *)
(* crash at any time.  A file is an inode; names and contents that were    *)
(* not synced may or may not survive a crash.  Behaviours: Replacing.      *)
(*                                                                         *)
(* The functions on paths: a behaviour of Growing is about one path.       *)
(***************************************************************************)
EXTENDS Integers, Sequences, SequencesExt, FiniteSets

CONSTANTS Callers,   \* each replaces the file once, by contents of its own
          Exists     \* whether the file exists at first

\* What the constants have to be.
AtomicReplaceAssumption == Exists \in BOOLEAN /\ Callers # {}

VARIABLES
    pc,         \* of each caller, the step of atomicReplace it is at
    info,       \* whether its stat found the file, and the file's mode
    thrown,     \* what it threw: "none", "io_error", "platform_error" or "errno"
    names,      \* the directory: from names to inodes
    survivors,  \* directories a crash may leave: all since the last crash
    content,    \* of each inode, as the system sees it: "empty", "torn" or whole
    durable,    \* of each inode, what is on the disk for certain
    mode        \* of each inode: "file" (the file's own) or "default"

replaceVars == <<pc, info, thrown, names, survivors, content, durable, mode>>
disk == <<names, survivors, content, durable, mode>>

\* A caller's temporary file is named after it, and so is its inode.
Path == "path"
None == "none"
Inodes == {Path} \cup Callers
Whole(i) == <<"contents", i>>
Torn == <<"torn", None>>
Empty == <<"empty", None>>

ReplaceInit ==
    /\ pc = [p \in Callers |-> "open"] /\ info = [p \in Callers |-> None] /\ thrown = [p \in Callers |-> None]
    /\ names = [n \in Inodes |-> IF n = Path /\ Exists THEN Path ELSE None] /\ survivors = {names}
    /\ content = [i \in Inodes |-> IF i = Path THEN Whole(Path) ELSE Empty] /\ durable = content
    /\ mode = [i \in Inodes |-> IF i = Path THEN "file" ELSE "default"]

Step(p, from, to) == pc[p] = from /\ pc' = [pc EXCEPT ![p] = to]
Named(n, i) == /\ names' = [names EXCEPT ![n] = i] /\ survivors' = survivors \cup {names'}

-----------------------------------------------------------------------------
\* throw io_error(): the catch closes the file and rethrows; the temporary
\* file stays.
Throw(p, e) ==
    /\ pc[p] # "done" /\ pc' = [pc EXCEPT ![p] = "done"] /\ thrown' = [thrown EXCEPT ![p] = e]
    /\ UNCHANGED info
Fails(p) ==
    /\ pc[p] \in {"open", "stat", "write", "flush", "fsync", "close", "rename", "end"} /\ Throw(p, "io_error")
    /\ UNCHANGED disk

Open(p) ==
    /\ Step(p, "open", "stat") /\ Named(p, p)
    /\ UNCHANGED <<info, thrown, content, durable, mode>>

Stat(p) ==
    /\ Step(p, "stat", "chmod")
    /\ info' = [info EXCEPT ![p] = IF names[Path] = None THEN None ELSE mode[names[Path]]]
    /\ UNCHANGED thrown /\ UNCHANGED disk

\* chown and chmod, if the file exists
NewMode(p) == IF info[p] = None THEN mode[p] ELSE info[p]

Chmod(p) ==
    /\ Step(p, "chmod", "write") /\ mode' = [mode EXCEPT ![p] = NewMode(p)]
    /\ UNCHANGED <<info, thrown, names, survivors, content, durable>>

\* chown or chmod fails: deleteFile, which may fail itself and throws errno,
\* an int, or meets an injected fault, platform_error, before or after unlink;
\* if it deletes the file and returns, io_error follows.
ChmodFails(p) ==
    /\ pc[p] = "chmod" /\ info[p] # None
    /\ \/ /\ Throw(p, "io_error") \/ Throw(p, "platform_error")
          /\ Named(p, None) /\ UNCHANGED <<content, durable, mode>>
       \/ (Throw(p, "errno") \/ Throw(p, "platform_error")) /\ UNCHANGED disk

Write(p) ==
    /\ Step(p, "write", "flush") /\ content' = [content EXCEPT ![p] = Torn]
    /\ UNCHANGED <<info, thrown, names, survivors, durable, mode>>

Flush(p) ==
    /\ Step(p, "flush", "fsync") /\ content' = [content EXCEPT ![p] = Whole(p)]
    /\ UNCHANGED <<info, thrown, names, survivors, durable, mode>>

\* Fault: the contents are left to the system.
FsyncNothing(p) == durable

FsyncTo(p) == [durable EXCEPT ![p] = content[p]]

Fsync(p) ==
    /\ Step(p, "fsync", "close") /\ durable' = FsyncTo(p)
    /\ UNCHANGED <<info, thrown, names, survivors, content, mode>>

Close(p) == Step(p, "close", "rename") /\ UNCHANGED <<info, thrown>> /\ UNCHANGED disk

\* One change of the directory
Rename(p) ==
    /\ Step(p, "rename", "end")
    /\ names' = [names EXCEPT ![Path] = p, ![p] = None] /\ survivors' = survivors \cup {names'}
    /\ UNCHANGED <<info, thrown, content, durable, mode>>

Return(p) == Step(p, "end", "done") /\ UNCHANGED <<info, thrown>> /\ UNCHANGED disk

\* The machine stops: of what was not synced any part may be lost.
Crash ==
    /\ \E p \in Callers : pc[p] # "done"
    /\ pc' = [p \in Callers |-> "done"] /\ UNCHANGED <<info, thrown, mode>>
    /\ names' \in survivors /\ survivors' = {names'}
    /\ content' \in {c \in [Inodes -> {Empty, Torn} \cup {Whole(i) : i \in Inodes}] :
                       \A i \in Inodes : c[i] = durable[i] \/ (durable[i] # content[i] /\ c[i] \in {Torn, content[i]})}
    /\ durable' = content'

ReplaceNext ==
    \/ Crash
    \/ \E p \in Callers : Fails(p) \/ Open(p) \/ Stat(p) \/ Chmod(p) \/ ChmodFails(p) \/ Write(p) \/ Flush(p)
                          \/ Fsync(p) \/ Close(p) \/ Rename(p) \/ Return(p)

Replacing == ReplaceInit /\ [][ReplaceNext]_replaceVars

-----------------------------------------------------------------------------
(***************************************************************************)
(* Whatever step fails and whenever the machine stops, the file has the    *)
(* whole of its old contents or of those of one call.                      *)
(***************************************************************************)
NeverTorn ==
    /\ names[Path] # None => content[names[Path]] = Whole(names[Path])
    /\ Exists => names[Path] # None

(***************************************************************************)
(* A file that existed keeps its owner and mode, whoever replaces it.      *)
(***************************************************************************)
ModeKept == Exists => mode[names[Path]] = "file"

(***************************************************************************)
(* What is thrown is an Error.                                             *)
(***************************************************************************)
ThrowsErrors == \A p \in Callers : thrown[p] # "errno"

(***************************************************************************)
(* Both.                                                                   *)
(***************************************************************************)
ReplaceAtomic == NeverTorn /\ ModeKept

-----------------------------------------------------------------------------
(***************************************************************************)
(* The path functions of flow/Platform.cpp: joinPath, cleanPath, popPath,  *)
(* abspath (with resolveLinks, which the code requires), parentDirectory   *)
(* and basename, with the vectors of the test /flow/Platform/directoryOps. *)
(* A path is a sequence of separators and names, no two names next to each *)
(* other; realpath is modelled on a small tree with symbolic links.        *)
(*                                                                         *)
(* A behaviour grows one path, or is one of the test.                      *)
(***************************************************************************)
CONSTANTS Names,      \* names that paths are made of, with "." and ".."
          Starts,     \* paths that behaviours start with
          MaxGrowth,  \* tokens that are added to them
          Cwd,        \* the working directory, as names from the root
          Dirs,       \* directories, likewise
          Files,      \* files, likewise
          Links       \* symbolic links: from a place to the path it holds

\* What the constants have to be.
PathsAssumption == <<>> \in Dirs /\ Cwd \in Dirs /\ "/" \notin Names

VARIABLES path, growth
pathVars == <<path, growth>>

Sep == "/"
Parts(p) == SelectSeq(p, LAMBDA t : t # Sep)
Absolute(p) == p # <<>> /\ p[1] = Sep
IsPath(p) == \A i \in 2..Len(p) : p[i] = Sep \/ p[i - 1] = Sep

-----------------------------------------------------------------------------
(***************************************************************************)
(* The functions on strings.                                               *)
(***************************************************************************)
\* Leading and trailing separators taken off
RECURSIVE FromName(_), ToName(_)
FromName(p) == IF p # <<>> /\ p[1] = Sep THEN FromName(Tail(p)) ELSE p
ToName(p) == IF p # <<>> /\ Last(p) = Sep THEN ToName(Front(p)) ELSE p

joinPath(d, f) == ToName(d) \o <<Sep>> \o FromName(f)

\* One part of cleanPath's loop
CleanStep(absolute, parts, part) ==
    IF part = "." THEN parts
    ELSE IF part = ".." /\ parts # <<>> /\ Last(parts) # ".." THEN Front(parts)
    ELSE IF part = ".." /\ absolute THEN parts
    ELSE Append(parts, part)

finalParts(p) == FoldLeft(LAMBDA parts, part : CleanStep(Absolute(p), parts, part), <<>>, Parts(p))

\* Names with separators between them, after a first one if absolute
Spelled(absolute, parts) ==
    (IF absolute THEN <<Sep>> ELSE <<>>)
      \o [i \in 1..(IF parts = <<>> THEN 0 ELSE 2 * Len(parts) - 1) |-> IF i % 2 = 1 THEN parts[(i + 1) \div 2] ELSE Sep]

cleanPath(p) ==
    IF Spelled(Absolute(p), finalParts(p)) = <<>> THEN <<".">> ELSE Spelled(Absolute(p), finalParts(p))

\* What popPath keeps of a path with names: what comes before the last one,
\* with one separator.
PopLast(p) ==
    IF Front(ToName(p)) = <<>> THEN <<>> ELSE ToName(Front(ToName(p))) \o <<Sep>>

popPath(p) ==
    IF Parts(p) = <<>> THEN (IF Absolute(p) THEN <<Sep>> ELSE <<>>) ELSE PopLast(p)

-----------------------------------------------------------------------------
(***************************************************************************)
(* realpath: every link is expanded where it is met.  A place is the names *)
(* on the way from the root; a walk that fails ends in an error.           *)
(***************************************************************************)
ENOENT == <<"ENOENT">>
ENOTDIR == <<"ENOTDIR">>
Failed(r) == r \in {ENOENT, ENOTDIR}
Up(place) == IF place = <<>> THEN <<>> ELSE Front(place)

\* The parts of a path to walk, a last separator asking for a directory.
Steps(p) == Parts(p) \o IF p # <<>> /\ Last(p) = Sep THEN <<".">> ELSE <<>>

RECURSIVE Walk(_, _)
Walk(place, steps) ==
    IF steps = <<>> THEN place
    ELSE IF place \notin Dirs THEN ENOTDIR
    ELSE IF Head(steps) = "." THEN Walk(place, Tail(steps))
    ELSE IF Head(steps) = ".." THEN Walk(Up(place), Tail(steps))
    ELSE IF Append(place, Head(steps)) \in DOMAIN Links
         THEN Walk(IF Absolute(Links[Append(place, Head(steps))]) THEN <<>> ELSE place,
                   Steps(Links[Append(place, Head(steps))]) \o Tail(steps))
    ELSE IF Append(place, Head(steps)) \in Dirs \cup Files
         THEN Walk(Append(place, Head(steps)), Tail(steps))
    ELSE ENOENT

realpath(p) == Walk(IF Absolute(p) THEN <<>> ELSE Cwd, Steps(p))

-----------------------------------------------------------------------------
(***************************************************************************)
(* abspath and what is made of it.  An exception is Error.                 *)
(***************************************************************************)
Error == <<"error">>
IsTilde(t) == t \in {"~"}

\* The prefix that is tried when the whole path is missing, and the rest
Prefix(p) ==
    IF popPath(p) = <<>> /\ (p = <<>> \/ ~IsTilde(p[1])) THEN <<".">> ELSE popPath(p)
Suffix(p) == SubSeq(p, Len(popPath(p)) + 1, Len(p))

JoinClean(prefix, suffix) == cleanPath(joinPath(prefix, suffix))

RECURSIVE abspath(_, _)
abspath(p, mustExist) ==
    IF p = <<>> THEN Error
    ELSE IF ~Failed(realpath(p)) THEN Spelled(TRUE, realpath(p))
    ELSE IF realpath(p) = ENOENT /\ ~mustExist /\ Prefix(p) # <<>>
         THEN (IF abspath(Prefix(p), FALSE) = Error THEN Error ELSE JoinClean(abspath(Prefix(p), FALSE), Suffix(p)))
    ELSE Error

parentDirectory(p, mustExist) ==
    IF abspath(p, mustExist) = Error THEN Error ELSE popPath(abspath(p, mustExist))

basename(p) == IF Parts(abspath(p, FALSE)) = <<>> THEN <<>> ELSE <<Last(Parts(abspath(p, FALSE)))>>

-----------------------------------------------------------------------------
(***************************************************************************)
(* The vectors of the test, for paths whose links are resolved.  H is the  *)
(* working directory, B the directory with the links.                      *)
(***************************************************************************)
H == Spelled(TRUE, Cwd)
B == <<"simfdb", "/", "backups", "/">>
HB == joinPath(H, B)
PopTests == {
    <<<<"a">>, <<>>>>, <<<<"a", "/", "/", "/">>, <<>>>>, <<<<"a", "/", "/", "/", "..">>, <<"a", "/">>>>,
    <<<<"a", "/", "/", "..", "/", "/">>, <<"a", "/">>>>, <<<<"/">>, <<"/">>>>, <<<<"/", "a">>, <<"/">>>>,
    <<<<"/", "a", "/", "b">>, <<"/", "a", "/">>>>, <<<<"/", "a", "/", "b", "/">>, <<"/", "a", "/">>>>,
    <<<<"/", "a", "/", "b", "/", "/", "..", "/">>, <<"/", "a", "/", "b", "/">>>>}
CleanTests == {
    <<<<"/">>, <<"/">>>>, <<<<"/", "/", ".", "/", "/">>, <<"/">>>>,
    <<<<"/", "a", "/", "b", "/", "..", "/", ".", "/", "..", "/", "c", "/", ".", "/", "d", "/", "..", "/", "/">>, <<"/", "c">>>>,
    <<<<"a", "/", "b", "/", "..", "/", ".", "/", "..", "/", "c", "/", "/", ".", "/", "d", "/", "..">>, <<"c">>>>,
    <<<<"..">>, <<"..">>>>, <<<<"..", "/", "..", "/", ".", "/">>, <<"..", "/", "..">>>>,
    <<<<"..", "/", "a", "/", "b", "/", "..", "/", "/">>, <<"..", "/", "a">>>>,
    <<<<"a", "/", "b", "/", "..", "/", "..", "/", "c", "/", "..">>, <<".">>>>, <<<<"/", "..">>, <<"/">>>>,
    <<<<"/", "..", "/", "foo", "/", "bar", "/", "/">>, <<"/", "foo", "/", "bar">>>>,
    <<<<"/", "a", "/", "b", "/", "..", "/", "..", "/", ".", "/", "..", "/">>, <<"/">>>>, <<<<".">>, <<".">>>>}

\* path, mustExist, abspath, parentDirectory
LinkTests == {
    <<B \o <<"four", "/", "..", "/", "two">>, TRUE, HB \o <<"one", "/", "two">>, HB \o <<"one", "/">>>>,
    <<B \o <<"five", "/", "..", "/", "two">>, TRUE, HB \o <<"one", "/", "two">>, HB \o <<"one", "/">>>>,
    <<B \o <<"five", "/", "..", "/", "two">>, FALSE, HB \o <<"one", "/", "two">>, HB \o <<"one", "/">>>>,
    <<B \o <<"five", "/", "..", "/", "three">>, TRUE, Error, Error>>,
    <<B \o <<"five", "/", "..", "/", "three">>, FALSE, HB \o <<"one", "/", "three">>, HB \o <<"one", "/">>>>,
    <<B \o <<"five", "/", "..", "/", "three", "/", "..", "/", "four">>, FALSE, HB \o <<"one", "/", "four">>, HB \o <<"one", "/">>>>}

\* The same without links; the test skips those with resolveLinks FALSE.
PlainTests == {
    <<<<".">>, FALSE, H, <<"/">>>>, <<<<"/">>, FALSE, <<"/">>, <<"/">>>>, <<<<>>, FALSE, Error, Error>>, <<<<"/", "a">>, FALSE, <<"/", "a">>, <<"/">>>>,
    <<<<"foo", "/", ".", "/", "..", "/", "foo2", "/", ".", "/", "bar", "/", "/">>, FALSE,
      joinPath(H, <<"foo2", "/", "bar">>), joinPath(H, <<"foo2", "/">>)>>,
    <<<<"foo", "/", ".", "/", "..", "/", "foo2", "/", ".", "/", "bar", "/", "/">>, TRUE, Error, Error>>}

-----------------------------------------------------------------------------
\* The paths of the test, and those that grow from Starts
TestPaths == {v[1] : v \in PopTests \cup CleanTests \cup LinkTests \cup PlainTests}
PathInit ==
    \/ path \in Starts /\ growth = 0
    \/ path \in TestPaths /\ growth = MaxGrowth
PathNext ==
    /\ growth < MaxGrowth /\ growth' = growth + 1
    /\ \E t \in Names \cup {Sep} : path' = Append(path, t) /\ IsPath(path')
Growing == PathInit /\ [][PathNext]_pathVars

-----------------------------------------------------------------------------
(***************************************************************************)
(* Every vector of the test holds of the model.                            *)
(***************************************************************************)
TestsPass ==
    /\ \A v \in PopTests : path = v[1] => popPath(path) = v[2]
    /\ \A v \in CleanTests : path = v[1] => cleanPath(path) = v[2]
    /\ \A v \in LinkTests \cup PlainTests : path = v[1] => abspath(path, v[2]) = v[3] /\ parentDirectory(path, v[2]) = v[4]

(***************************************************************************)
(* cleanPath leads where the path does in a tree without links, from every *)
(* directory, and nothing in its result can be taken away.                 *)
(***************************************************************************)
Stroll(place, p) ==
    FoldLeft(LAMBDA at, part : IF part = "." THEN at ELSE IF part = ".." THEN Up(at) ELSE Append(at, part),
             IF Absolute(p) THEN <<>> ELSE place, Parts(p))
CleanLeadsThere ==
    /\ \A place \in {<<>>, <<1>>, <<1, 2>>, <<1, 2, 3>>} : Stroll(place, cleanPath(path)) = Stroll(place, path)
    /\ cleanPath(path) = <<".">> \/ \A i \in 1..Len(Parts(cleanPath(path))) :
         /\ Parts(cleanPath(path))[i] # "."
         /\ Parts(cleanPath(path))[i] = ".." =>
              ~Absolute(path) /\ \A j \in 1..i : Parts(cleanPath(path))[j] = ".."

(***************************************************************************)
(* What a path means when links are expanded before ".." is resolved and a *)
(* name that is missing is no link.  First says whether the walk has to    *)
(* stay a plain one once it has met a missing name.                        *)
(***************************************************************************)
RECURSIVE Meaning(_, _, _, _)
Meaning(first, missed, place, steps) ==
    IF steps = <<>> THEN place
    ELSE IF place \in Files /\ ~missed THEN Error
    ELSE IF Head(steps) = "." THEN Meaning(first, missed, place, Tail(steps))
    ELSE IF Head(steps) = ".." THEN Meaning(first, missed, Up(place), Tail(steps))
    ELSE IF Append(place, Head(steps)) \in DOMAIN Links /\ ~(first /\ missed)
         THEN Meaning(first, missed, IF Absolute(Links[Append(place, Head(steps))]) THEN <<>> ELSE place,
                      Steps(Links[Append(place, Head(steps))]) \o Tail(steps))
    ELSE Meaning(first, missed \/ Append(place, Head(steps)) \notin Dirs \cup Files, Append(place, Head(steps)), Tail(steps))

Means(first, p) == Meaning(first, FALSE, IF Absolute(p) THEN <<>> ELSE Cwd, Steps(p))
HasTilde == \E i \in DOMAIN path : IsTilde(path[i])

(***************************************************************************)
(* abspath gives the place a path means: links are expanded before ".."    *)
(* up to the first name that is missing, and from there on the rest is     *)
(* taken as it is spelled; a path that has to exist gives its own place or *)
(* an error.  The directory of the place and its name make the place.      *)
(***************************************************************************)
AbspathRight ==
    path # <<>> /\ ~HasTilde =>
      /\ abspath(path, FALSE) =
           IF Means(TRUE, path) = Error THEN Error ELSE Spelled(TRUE, Means(TRUE, path))
      /\ abspath(path, TRUE) # Error => abspath(abspath(path, TRUE), TRUE) = abspath(path, TRUE)
      /\ abspath(path, TRUE) \in {Error, abspath(path, FALSE)}
      /\ abspath(path, FALSE) # Error => parentDirectory(path, FALSE) \o basename(path) = abspath(path, FALSE)

(***************************************************************************)
(* Links are expanded before ".." is resolved, all of them.                *)
(***************************************************************************)
LinksExpanded ==
    path # <<>> /\ ~HasTilde /\ abspath(path, FALSE) # Error =>
      abspath(path, FALSE) = Spelled(TRUE, Means(FALSE, path))

(***************************************************************************)
(* What the path functions are for.                                        *)
(***************************************************************************)
PathsRight == TestsPass /\ CleanLeadsThere /\ AbspathRight
=============================================================================
