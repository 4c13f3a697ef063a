------------------------------- MODULE Files --------------------------------
(***************************************************************************)
(* file.c, posix/file.c and windows/file.c: deleting, moving and walking   *)
(* directories, the directory iterator and reading a file into a buffer.   *)
(* Every behaviour is one call on a small file system; another process may *)
(* remove one directory while the call runs.                               *)
(*                                                                         *)
(* A file system maps paths to kinds.  A path is a sequence of names below *)
(* the root <<>>; every link leads to the directory Outside.               *)
(***************************************************************************)
EXTENDS Naturals, TLC, Sequences, SequencesExt, FiniteSets, Functions

CONSTANTS EntryPaths,     \* paths at which there may be something below Dir
          FileLen         \* bound on the length of a file that is read

VARIABLE fileCall         \* the call made and its result

FilesInit == fileCall = [fn |-> "none"]

Dir == <<"d">>            \* the directory the calls are about
Outside == <<"o">>        \* a directory next to it
Nowhere == <<"nowhere">>

Parent(p) == SubSeq(p, 1, Len(p) - 1)
Below(fs, p) == {q \in DOMAIN fs : IsStrictPrefix(p, q)}
ChildrenOf(fs, p) == {q \in DOMAIN fs : Len(q) = Len(p) + 1 /\ IsPrefix(p, q)}
Pruned(fs, p) == Restrict(fs, {q \in DOMAIN fs : ~IsPrefix(p, q)})

\* What a running call has changed and seen: the file system, the entries its visitor was
\* given, its return value and aws_last_error().
World(fs, input) == [fs |-> fs, seen |-> <<>>, ret |-> "ok", error |-> "none", in |-> input]
Ok(w) == [w EXCEPT !.ret = "ok"]
Raise(w, error) == [w EXCEPT !.ret = "err", !.error = error]

----------------------------------------------------------------------------
(* The system calls.  in.windows: which system; in.sealed: directories     *)
(* whose entries may not be removed; in.hidden: directories that may not   *)
(* be opened; in.vanish: a directory that another process removes, before  *)
(* lstat or before opendir, as in.when says.                               *)

Vanishes(w, p, when) ==
    IF p = w.in.vanish /\ w.in.when = when THEN [w EXCEPT !.fs = Pruned(@, p)] ELSE w

\* On Windows a link to a directory is opened like the directory it leads to.
Target(w, p) == IF p \in DOMAIN w.fs /\ w.fs[p] = "link" THEN Outside ELSE p
Actual(w, p) ==
    LET links == {q \in DOMAIN w.fs : w.fs[q] = "link" /\ IsStrictPrefix(q, p)}
    IN  IF links = {} THEN p
        ELSE LET q == CHOOSE q \in links : TRUE IN Outside \o SubSeq(p, Len(q) + 1, Len(p))

Removing(w, p, kinds) ==
    CASE Parent(p) \in w.in.sealed -> "EACCES"
      [] p \notin DOMAIN w.fs -> "ENOENT"
      [] w.fs[p] \notin kinds -> "EPERM"
      [] w.fs[p] = "dir" /\ ChildrenOf(w.fs, p) # {} -> "ENOTEMPTY"
      [] OTHER -> "none"

unlink(w, p) == Removing(w, p, {"file", "link", "other"})
rmdir(w, p) == Removing(w, p, {"dir"} \cup IF w.in.windows THEN {"link"} ELSE {})

\* The paths under which a directory's entries are found, in the order of readdir.
Listing(w, p) ==
    LET at == Target(w, p)
        names == SetToSeq({Last(q) : q \in ChildrenOf(w.fs, at)})
    IN  [i \in DOMAIN names |-> Append(p, IF w.in.backwards THEN Reverse(names)[i] ELSE names[i])]

----------------------------------------------------------------------------

s_parse_and_raise_error(w, errno) ==
    CASE errno = "none" -> Ok(w)
      [] errno \in {"ENOENT", "ENOTDIR"} -> Raise(w, "FILE_INVALID_PATH")
      [] errno = "EACCES" -> Raise(w, "NO_PERMISSION")
      [] errno = "ENOTEMPTY" -> Raise(w, "DIRECTORY_NOT_EMPTY")
      [] OTHER -> Raise(w, "UNKNOWN")

aws_directory_exists(w, p) ==
    p \in DOMAIN w.fs /\ (w.fs[p] = "dir" \/ (w.in.windows /\ w.fs[p] = "link"))

\* mkdir reports what is there already, a file too, as EEXIST.
mkdir(w, p) ==
    CASE Parent(p) \notin DOMAIN w.fs -> "ENOENT"
      [] Parent(p) \in DOMAIN w.fs /\ p \in DOMAIN w.fs -> "EEXIST"
      [] Parent(p) \in w.in.sealed -> "EACCES"
      [] OTHER -> "none"

aws_directory_create(w, p) ==
    LET errno == mkdir(w, p) IN
    CASE errno = "none" -> Ok([w EXCEPT !.fs = @ @@ (p :> "dir")])
      [] errno = "EEXIST" -> Ok(w)
      [] OTHER -> s_parse_and_raise_error(w, errno)

windows_directory_create(w, p) ==
    LET error == mkdir(w, p) IN
    CASE error = "none" -> Ok([w EXCEPT !.fs = @ @@ (p :> "dir")])
      [] error = "EEXIST" -> Ok(w)
      [] error = "ENOENT" -> Raise(w, "FILE_INVALID_PATH")
      [] error = "EACCES" -> Raise(w, "NO_PERMISSION")

aws_file_delete(w, p) ==
    LET errno == unlink(w, p) IN
    CASE errno = "none" -> Ok([w EXCEPT !.fs = Pruned(@, p)])
      [] errno = "ENOENT" -> Ok(w)
      [] OTHER -> s_parse_and_raise_error(w, errno)

windows_file_delete(w, p) ==
    LET error == unlink(w, p) IN
    CASE error = "none" -> Ok([w EXCEPT !.fs = Pruned(@, p)])
      [] error = "ENOENT" -> Ok(w)
      [] error = "EACCES" -> Raise(w, "NO_PERMISSION")
      [] OTHER -> Raise(w, "UNKNOWN")

RemovesDirectory(w, p) ==
    IF rmdir(w, p) = "none" THEN Ok([w EXCEPT !.fs = Pruned(@, p)])
    ELSE s_parse_and_raise_error(w, rmdir(w, p))

windows_RemoveDirectory(w, p) ==
    LET error == rmdir(w, p) IN
    CASE error = "none" -> Ok([w EXCEPT !.fs = Pruned(@, p)])
      [] error = "ENOTEMPTY" -> Raise(w, "DIRECTORY_NOT_EMPTY")
      [] error = "EACCES" -> Raise(w, "NO_PERMISSION")
      [] OTHER -> Raise(w, "UNKNOWN")

\* The part of aws_directory_delete that follows the traversal, for either system.
DeletesEmptied(w, p) ==
    CASE w.ret = "err" /\ w.error = "FILE_INVALID_PATH" -> Ok([w EXCEPT !.error = "none"])
      [] w.ret = "err" /\ w.error # "FILE_INVALID_PATH" -> w
      [] w.ret = "ok" /\ w.in.windows -> windows_RemoveDirectory(w, p)
      [] OTHER -> RemovesDirectory(w, p)

\* The visitor of a recursive deletion; the directories it is given have been visited.
s_delete_file_or_directory(w, entry) ==
    CASE entry.type = "file" /\ ~w.in.windows -> aws_file_delete(w, entry.path)
      [] entry.type = "file" /\ w.in.windows -> windows_file_delete(w, Actual(w, entry.path))
      [] entry.type = "dir" ->
             LET p == Actual(w, entry.path) IN
             IF ~aws_directory_exists(w, p) THEN Ok(w) ELSE DeletesEmptied(Ok(w), p)
      [] OTHER -> Ok(w)

\* The visitor of the directory iterator, and one that ends the walk at its entry in.stop.
Collects(w, entry) == IF Len(w.seen) = w.in.stop THEN [w EXCEPT !.ret = "err"] ELSE Ok(w)

OnEntry(w, entry) ==
    LET s == [w EXCEPT !.seen = Append(@, entry.path)]
    IN  IF w.in.deletes THEN s_delete_file_or_directory(s, entry) ELSE Collects(s, entry)

\* Mutant: the visitor is called again for the directories above the entry that ended the walk.
Visits_after_interruption(below, entry) ==
    LET visited == OnEntry(Ok(below), entry) IN
    IF visited.ret = "err" THEN Raise(visited, "OPERATION_INTERUPTED")
    ELSE [visited EXCEPT !.ret = below.ret]

\* What the end of one round of the loop does with the result of the rounds below.
Visits(below, entry) ==
    IF below.ret = "err" /\ below.error = "OPERATION_INTERUPTED" THEN below
    ELSE LET visited == OnEntry(Ok(below), entry) IN
         IF visited.ret = "err" THEN Raise(visited, "OPERATION_INTERUPTED")
         ELSE [visited EXCEPT !.ret = below.ret]

RECURSIVE aws_directory_traverse(_, _, _), windows_directory_traverse(_, _, _)

\* lstat tells directories, links and files apart; an entry that is gone is passed over.
TraverseEntry(w0, p, recursive) ==
    LET w == Vanishes(w0, p, "lstat") IN
    CASE w.ret = "err" -> w0
      [] w.ret = "ok" /\ p \notin DOMAIN w.fs -> w
      [] OTHER -> Visits(IF recursive /\ w.fs[p] = "dir" THEN aws_directory_traverse(w, p, recursive) ELSE w,
                         [path |-> p, type |-> w.fs[p]])

aws_directory_traverse(w0, p, recursive) ==
    LET w == Vanishes(w0, p, "opendir") IN
    CASE p \notin DOMAIN w.fs -> s_parse_and_raise_error(w, "ENOENT")
      [] p \in DOMAIN w.fs /\ w.fs[Target(w, p)] # "dir" -> s_parse_and_raise_error(w, "ENOTDIR")
      [] p \in w.in.hidden -> s_parse_and_raise_error(w, "EACCES")
      [] OTHER -> FoldLeft(LAMBDA acc, q : TraverseEntry(acc, q, recursive), Ok(w), Listing(w, p))

\* The attributes come with the name: a link to a directory is a directory, all else a file.
windows_TraverseEntry(w, p, recursive) ==
    LET kind == w.fs[Actual(w, p)]
        type == IF kind \in {"dir", "link"} THEN "dir" ELSE "file"
    IN  IF w.ret = "err" THEN w
        ELSE Visits(IF recursive /\ type = "dir" THEN windows_directory_traverse(w, p, recursive) ELSE w,
                    [path |-> p, type |-> type])

windows_directory_traverse(w, p, recursive) ==
    IF p = <<>> \/ ~aws_directory_exists(w, Actual(w, p)) THEN Raise(w, "FILE_INVALID_PATH")
    ELSE FoldLeft(LAMBDA acc, q : windows_TraverseEntry(acc, q, recursive), Ok(w), Listing(w, p))

aws_directory_delete(w, p, recursive) ==
    CASE ~aws_directory_exists(w, p) -> Ok(w)
      [] aws_directory_exists(w, p) /\ ~recursive -> DeletesEmptied(w, p)
      [] OTHER -> DeletesEmptied(IF w.in.windows THEN windows_directory_traverse(w, p, TRUE)
                                 ELSE aws_directory_traverse(w, p, TRUE), p)

\* rename takes everything below along; it replaces a file by a file, and an empty
\* directory by a directory.
Renamed(fs, from, to) ==
    LET rest == Pruned(Pruned(fs, from), to)
        moved == {to \o SubSeq(q, Len(from) + 1, Len(q)) : q \in {q \in DOMAIN fs : IsPrefix(from, q)}}
    IN  rest @@ [q \in moved |-> fs[from \o SubSeq(q, Len(to) + 1, Len(q))]]

rename(w, from, to) ==
    LET there == to \in DOMAIN w.fs
        dir == from \in DOMAIN w.fs /\ w.fs[from] = "dir"
    IN  CASE from \notin DOMAIN w.fs \/ Parent(to) \notin DOMAIN w.fs -> "ENOENT"
          [] {Parent(from), Parent(to)} \cap w.in.sealed # {} -> "EACCES"
          [] dir /\ IsStrictPrefix(from, to) -> "EINVAL"
          [] dir /\ there /\ w.fs[to] # "dir" -> "ENOTDIR"
          [] there /\ w.fs[to] = "dir" /\ ~dir -> "EISDIR"
          [] there /\ from # to /\ ChildrenOf(w.fs, to) # {} -> "ENOTEMPTY"
          [] OTHER -> "none"

aws_directory_or_file_move(w, from, to) ==
    LET errno == rename(w, from, to) IN
    IF errno = "none" THEN Ok([w EXCEPT !.fs = IF from = to THEN @ ELSE Renamed(@, from, to)])
    ELSE s_parse_and_raise_error(w, errno)

\* MoveFileW replaces nothing.
windows_directory_or_file_move(w, from, to) ==
    LET errno == rename(w, from, to) IN
    CASE errno = "ENOENT" -> Raise(w, "FILE_INVALID_PATH")
      [] errno = "EACCES" -> Raise(w, "NO_PERMISSION")
      [] errno \notin {"ENOENT", "EACCES", "none"} \/ to \in DOMAIN w.fs -> Raise(w, "UNKNOWN")
      [] OTHER -> Ok([w EXCEPT !.fs = Renamed(@, from, to)])

----------------------------------------------------------------------------
(* The directory iterator                                                  *)

Unset == 999        \* current_node of a new iterator, which nothing has written

\* An iterator that found no entry keeps an unset current_node.
aws_directory_entry_iterator_new(w, p) ==
    LET t == aws_directory_traverse(w, p, FALSE)
    IN  [ok |-> t.ret = "ok", list |-> t.seen, current |-> IF t.seen = <<>> THEN Unset ELSE 1]

aws_directory_entry_iterator_next(it) ==
    IF it.current = Len(it.list) THEN [it EXCEPT !.ok = FALSE] ELSE [it EXCEPT !.current = @ + 1]

aws_directory_entry_iterator_previous(it) ==
    IF it.current = 1 THEN [it EXCEPT !.ok = FALSE] ELSE [it EXCEPT !.current = @ - 1]

aws_directory_entry_iterator_get_value(it) == it.list[it.current]

----------------------------------------------------------------------------
(* Reading a file that another process writes: the length at ftell, the    *)
(* length at fread, and the call that fails.  The failure of ftell is not  *)
(* noticed: -1 + 1 bytes are allocated, which is no buffer, of length      *)
(* SIZE_MAX, and the terminator is written through it.                     *)

Failing == {"fopen", "fseek_end", "ftell", "fseek_set", "none"}
Junk == 999               \* a byte that nothing has written

\* bytes: what the buffer holds when the call returns; the file's bytes are 1, 2 ...
aws_byte_buf_init_from_file(before, after, failing) ==
    LET read == IF after < before THEN after ELSE before
        filled == [i \in 1 .. before + 1 |-> CASE i <= read -> i
                                               [] i = before + 1 -> 0
                                               [] OTHER -> Junk]
    IN  CASE failing = "ftell" -> [end |-> "undefined"]
          [] failing \notin {"ftell", "none"} \/ (failing = "none" /\ read < before) ->
                 [end |-> "err", bytes |-> <<>>, len |-> 0]
          [] failing = "none" /\ read = before -> [end |-> "ok", bytes |-> filled, len |-> before]

----------------------------------------------------------------------------

Names(call) == fileCall.fn = "none" /\ fileCall' = call

Kinds == {"file", "dir", "link", "other"}

\* The file systems: Dir, Outside with one file, and something at some of EntryPaths.
Systems ==
    LET always == (<<>> :> "dir") @@ (Dir :> "dir") @@ (Outside :> "dir") @@ (Append(Outside, "f") :> "file")
        below == {t \in UNION {[S -> Kinds] : S \in SUBSET EntryPaths} :
                     \A p \in DOMAIN t : Parent(p) = Dir \/ (Parent(p) \in DOMAIN t /\ t[Parent(p)] = "dir")}
    IN  {always @@ t : t \in below}

Dirs(fs) == {p \in DOMAIN fs : IsPrefix(Dir, p) /\ fs[p] = "dir"}

\* A call meets at most one obstacle.
Calm == [windows |-> FALSE, backwards |-> FALSE, deletes |-> FALSE, stop |-> 0, sealed |-> {},
         hidden |-> {}, vanish |-> Nowhere, when |-> "none"]
Inputs(fs) ==
    UNION {{[Calm EXCEPT !.windows = sys], [Calm EXCEPT !.windows = sys, !.backwards = TRUE]} :
               sys \in BOOLEAN}
      \cup {[Calm EXCEPT !.sealed = {p}, !.windows = sys] : p \in Dirs(fs) \cup {<<>>}, sys \in BOOLEAN}
      \cup {[Calm EXCEPT !.hidden = {p}] : p \in Dirs(fs)}
      \cup {[Calm EXCEPT !.vanish = p, !.when = when] : p \in Dirs(fs), when \in {"lstat", "opendir"}}

CallsDelete ==
    /\ fileCall.fn = "none"
    /\ \E fs \in Systems, recursive \in BOOLEAN : \E in \in Inputs(fs) :
        LET w == World(fs, [in EXCEPT !.deletes = TRUE])
        IN  Names([fn |-> "delete", before |-> fs, recursive |-> recursive,
                   after |-> aws_directory_delete(w, Dir, recursive)])

CallsTraverse ==
    /\ fileCall.fn = "none"
    /\ \E fs \in Systems, recursive \in BOOLEAN, stop \in 0 .. 2 : \E in \in Inputs(fs) :
        LET w == World(fs, [in EXCEPT !.stop = stop])
        IN  Names([fn |-> "traverse", before |-> fs, recursive |-> recursive,
                   after |-> IF in.windows THEN windows_directory_traverse(w, Dir, recursive)
                             ELSE aws_directory_traverse(w, Dir, recursive)])

\* A new iterator moved to its last entry and back.  The guard leaves out the directory
\* without entries, whose iterator has no position that its functions may read.
CallsIterate ==
    /\ fileCall.fn = "none"
    /\ \E fs \in Systems, backwards \in BOOLEAN :
        LET it == aws_directory_entry_iterator_new(World(fs, [Calm EXCEPT !.backwards = backwards]), Dir)
            Got(s) == [s EXCEPT !.got = Append(@, aws_directory_entry_iterator_get_value(s.it))]
            Moved(s, moved) == IF moved.ok THEN Got([s EXCEPT !.it = moved]) ELSE s
            rounds == [i \in 1 .. Len(it.list) + 1 |-> i]
            forth == FoldLeft(LAMBDA s, i : Moved(s, aws_directory_entry_iterator_next(s.it)),
                              Got([it |-> it, got |-> <<>>]), rounds)
            back == FoldLeft(LAMBDA s, i : Moved(s, aws_directory_entry_iterator_previous(s.it)),
                             Got([it |-> forth.it, got |-> <<>>]), rounds)
        IN  /\ it.list # <<>>
            /\ Names([fn |-> "iterate", before |-> fs, forth |-> forth.got, back |-> back.got])

CallsMove ==
    /\ fileCall.fn = "none"
    /\ \E fs \in Systems, sealed \in {{}, {Dir}, {<<>>}}, windows \in BOOLEAN :
        \E from \in EntryPaths \cup {Dir}, to \in EntryPaths \cup {Outside, <<"n">>} :
            LET w == World(fs, [Calm EXCEPT !.sealed = sealed, !.windows = windows])
                made == IF windows THEN windows_directory_create(w, to) ELSE aws_directory_create(w, to)
            IN  Names([fn |-> "move", before |-> fs, from |-> from, to |-> to,
                       made |-> made,
                       after |-> IF windows THEN windows_directory_or_file_move(w, from, to)
                                 ELSE aws_directory_or_file_move(w, from, to)])

CallsRead ==
    /\ fileCall.fn = "none"
    /\ \E before, after \in 0 .. FileLen, failing \in Failing :
        Names([fn |-> "read", before |-> before, after |-> after, failing |-> failing,
               result |-> aws_byte_buf_init_from_file(before, after, failing)])

FilesNext == CallsDelete \/ CallsTraverse \/ CallsIterate \/ CallsMove \/ CallsRead

----------------------------------------------------------------------------

Plain(fs) == \A p \in Below(fs, Dir) : fs[p] \in {"file", "dir"}
Elsewhere(fs) == Restrict(fs, {p \in DOMAIN fs : ~IsPrefix(Dir, p)})

\* Nothing outside the directory is touched, through links neither; a call that reports
\* success has removed the directory, and one that finds only files and directories it may
\* remove does.  Two cases are left out because the code does otherwise: Windows follows
\* links, and a subdirectory that another process removes ends the walk with success.
DeleteExact(c) ==
    LET in == c.after.in
        calm == in.vanish = Nowhere
        gone == Dir \notin DOMAIN c.after.fs
    IN  /\ ~in.windows \/ Plain(c.before) => Elsewhere(c.after.fs) = Elsewhere(c.before)
        /\ c.after.ret = "ok" /\ calm => gone
        /\ c.after.ret = "err" => ~gone /\ c.after.error # "none"
        /\ calm /\ in.sealed = {} /\ in.hidden = {} /\ Plain(c.before) =>
               gone = (c.recursive \/ Below(c.before, Dir) = {})
        /\ ~c.recursive /\ ~gone => c.after.fs = c.before

\* Entries are visited once each, those below a directory right before it, and none after
\* the visitor has ended the walk; a walk that succeeds has visited all that is there.
TraverseExact(c) ==
    LET in == c.after.in
        seen == c.after.seen
        all == IF c.recursive THEN Below(c.before, Dir) ELSE ChildrenOf(c.before, Dir)
        left == {p \in all : ~IsPrefix(in.vanish, p)}
    IN  ~in.windows \/ Plain(c.before) =>
            /\ IsInjective(seen) /\ Range(seen) \subseteq all
            /\ \A j \in DOMAIN seen :
                   LET below == {i \in DOMAIN seen : IsStrictPrefix(seen[j], seen[i])}
                   IN  below = (j - Cardinality(below)) .. (j - 1)
            /\ c.after.ret = "ok" => left \subseteq Range(seen)
            /\ in.stop > 0 => Len(seen) <= in.stop
            /\ in.stop > 0 /\ Len(seen) = in.stop =>
                   c.after.ret = "err" /\ c.after.error = "OPERATION_INTERUPTED"
            /\ in.stop = 0 /\ in.vanish = Nowhere /\ in.hidden = {} => c.after.ret = "ok"

IterateExact(c) ==
    /\ IsInjective(c.forth) /\ Range(c.forth) = ChildrenOf(c.before, Dir)
    /\ c.back = Reverse(c.forth)

\* A move takes all that was there along and loses nothing else, or changes nothing.
MoveExact(c) ==
    LET taken == {p \in DOMAIN c.before : IsPrefix(c.from, p)}
        At(p) == c.to \o SubSeq(p, Len(c.from) + 1, Len(p))
    IN  /\ c.after.ret = "err" => c.after.fs = c.before
        /\ c.after.ret = "ok" =>
               /\ \A p \in taken : At(p) \in DOMAIN c.after.fs /\ c.after.fs[At(p)] = c.before[p]
               /\ \A p \in DOMAIN c.before \ taken :
                      p \in DOMAIN c.after.fs /\ (p # c.to => c.after.fs[p] = c.before[p])
        /\ c.made.ret = "ok" => c.to \in DOMAIN c.made.fs /\ Restrict(c.made.fs, DOMAIN c.before) = c.before

\* The bytes of a buffer that is handed out come from the file, also when the file shrinks
\* between ftell and fread; a call that fails hands out none.  Of a call in which ftell fails
\* nothing can be said.
ReadExact(c) ==
    /\ c.failing # "ftell" => c.result.end \in {"ok", "err"}
    /\ c.result.end = "ok" =>
           c.result.bytes = Append([i \in 1 .. c.before |-> i], 0) /\ c.result.len = c.before
    /\ c.result.end = "err" => c.result.bytes = <<>>

\* What each of the calls above promises.
FilesExact ==
    CASE fileCall.fn = "delete" -> DeleteExact(fileCall)
      [] fileCall.fn = "traverse" -> TraverseExact(fileCall)
      [] fileCall.fn = "iterate" -> IterateExact(fileCall)
      [] fileCall.fn = "move" -> MoveExact(fileCall)
      [] fileCall.fn = "read" -> ReadExact(fileCall)
      [] OTHER -> TRUE
=============================================================================
