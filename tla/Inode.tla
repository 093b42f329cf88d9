--------------------------------- MODULE Inode ---------------------------------
(***************************************************************************)
(* Inodes, directories and path names of xv6 with symbolic links (fs.c and *)
(* sysfile.c of 07_xv6_File_System/PartA).  Several processes are inside   *)
(* file-system calls at once; a step is what one of them does from taking  *)
(* a sleep lock to releasing it or to asking for the next one.  The inode  *)
(* cache is written through, so a cache entry keeps only ref, valid and    *)
(* its lock apart from the inode on disk, and goes by its inode's number.  *)
(* A path is a sequence of names from the current directory, the target of *)
(* a link one from the link's directory, or from the root when it starts   *)
(* with "/".  The entries "." and ".." and the file contents are left out.      *)
(***************************************************************************)
EXTENDS Integers, Sequences, FiniteSets, FiniteSetsExt

CONSTANTS
    Procs, NoProc,
    Names,
    NINODES,        \* inodes on the disk
    NINODE,         \* entries of icache
    OldDirs,        \* names one of which may be a directory at the start
    MaxDepth,       \* nested calls of namex() the kernel stack has room for
    Calls,          \* the calls processes make: [op, path, arg]
    MaxCalls        \* how many calls a behaviour has, closes not counted

ASSUME InodeAssumption ==
    /\ NoProc \notin Procs /\ "/" \notin Names
    /\ OldDirs \subseteq Names /\ (OldDirs # {} => NINODES > 1)
    /\ NINODES \in Nat \ {0} /\ NINODE \in Nat /\ MaxDepth \in Nat /\ MaxCalls \in Nat

Inums == 1 .. NINODES
Root == 1
FreeInode == [type |-> "free", nlink |-> 0, ents |-> [n \in Names |-> 0], target |-> <<>>]

VARIABLES
    dinode,     \* inode number -> inode
    ref, valid, lock,   \* the cache entry of an inode number
    is_sym,     \* the global flag of namex()
    pc,         \* process -> where it is
    st,         \* process -> the variables of its call
    file,       \* process -> the inode of its open file, 0 for none
    cwd,        \* process -> its current directory
    calls,      \* calls made so far
    panic,      \* why the kernel stopped, "" while it runs
    excused     \* history: inodes two iput()s of which overlapped, or that got a
                \* name in a directory already removed

vars == <<dinode, ref, valid, lock, is_sym, pc, st, file, cwd, calls, panic, excused>>
user == <<file, cwd, calls>>

NoCall == [op |-> "none", path |-> <<>>, arg |-> <<>>]
Idle == [call |-> NoCall, path |-> <<>>, ip |-> 0, nx |-> 0, parent |-> FALSE,
         stack |-> <<>>, k |-> "", puts |-> <<>>, then |-> "", old |-> 0]

Goto(p, l) == pc' = [pc EXCEPT ![p] = l]
At(p, l) == pc[p] = l /\ panic = ""
Name(p) == Head(st[p].path)
Stop(why) ==
    panic' = why /\ UNCHANGED <<dinode, ref, valid, lock, is_sym, pc, st, user, excused>>

\* iget() and idup() of i, v being valid[] before: a new entry is not valid, and
\* without a free entry the kernel stops.
Get(i, v) ==
    /\ ref' = [ref EXCEPT ![i] = @ + 1]
    /\ valid' = [v EXCEPT ![i] = @ /\ ref[i] > 0]
    /\ panic' = IF ref[i] = 0 /\ Cardinality({j \in Inums : ref[j] > 0}) >= NINODE
                THEN "iget: no inodes" ELSE ""

\* p gets the lock of i at label l; ilock() reads the inode.
Locks(p, l, i) == At(p, l) /\ i # 0 /\ lock[i] = NoProc /\ dinode[i].type # "free"
Loaded(i) == [valid EXCEPT ![i] = TRUE]

\* A mutant: an inode stays locked.
LockKept(i) == lock

\* iunlock(i).
iunlock(i) == [lock EXCEPT ![i] = NoProc]

\* The inode p asks ilock() for.
Wanted(p) ==
    CASE pc[p] \in {"next", "create2", "unlink2"} -> st[p].nx
      [] pc[p] = "linkbad" -> st[p].old
      [] OTHER -> st[p].ip

\* Where a process asks for it.
Asking == {"namex", "next", "open", "chdir", "create", "exists", "create2",
           "link", "link3", "linkbad", "unlink", "unlink2"}

\* ilock() of no inode or of a free one.  Only namex() does not look at ip first.
BadLock(p) ==
    /\ panic = ""
    /\ IF Wanted(p) = 0
       THEN pc[p] = "namex" /\ st[p].path # <<>>
       ELSE pc[p] \in Asking /\ lock[Wanted(p)] = NoProc /\ dinode[Wanted(p)].type = "free"
    /\ Stop(IF Wanted(p) = 0 THEN "ilock" ELSE "ilock: no type")

\* p goes on with variables s, first putting the inodes is, then at label l.
PutThen(p, s, is, l) ==
    /\ st' = [st EXCEPT ![p] = [s EXCEPT !.puts = is, !.then = l]]
    /\ Goto(p, IF is = <<>> THEN l ELSE "iput")

\* The call returns when the inodes are put.
Done(p, is) == PutThen(p, Idle, is, "idle")

(***************************************************************************)
(* iput(): look, under the inode's lock, whether this is the last          *)
(* reference to an unlinked inode; free it; give the reference up.         *)
(***************************************************************************)
Putting(p) == Head(st[p].puts)

\* A mutant: the number of references is not looked at.
LastRefIgnored(i) == valid[i] /\ dinode[i].nlink = 0

\* A mutant: the test expects the reference to be given up already.
RefGivenUp(i) == valid[i] /\ dinode[i].nlink = 0 /\ ref[i] = 0

\* No links and no other references.
MustFree(i) == valid[i] /\ dinode[i].nlink = 0 /\ ref[i] = 1

\* Another process has made its test in iput(i) and still has its reference.
Overlaps(p, i) == \E q \in Procs \ {p} : pc[q] = "iputref" /\ Putting(q) = i

iput(p) ==
    LET i == Putting(p) IN
    /\ At(p, "iput") /\ lock[i] = NoProc
    /\ \/ MustFree(i) /\ Goto(p, "itrunc") /\ lock' = [lock EXCEPT ![i] = p]
       \/ ~MustFree(i) /\ Goto(p, "iputref") /\ UNCHANGED lock
    /\ excused' = IF Overlaps(p, i) THEN excused \cup {i} ELSE excused
    /\ UNCHANGED <<dinode, ref, valid, is_sym, st, user, panic>>

itrunc(p) ==
    LET i == Putting(p) IN
    /\ At(p, "itrunc")
    /\ dinode' = [dinode EXCEPT ![i] = FreeInode]
    /\ valid' = [valid EXCEPT ![i] = FALSE]
    /\ lock' = iunlock(i)
    /\ excused' = excused \ {i}
    /\ Goto(p, "iputref")
    /\ UNCHANGED <<ref, is_sym, st, user, panic>>

iputref(p) ==
    /\ At(p, "iputref")
    /\ ref' = [ref EXCEPT ![Putting(p)] = @ - 1]
    /\ PutThen(p, st[p], Tail(st[p].puts), st[p].then)
    /\ UNCHANGED <<dinode, valid, lock, is_sym, user, panic, excused>>

(***************************************************************************)
(* namex(): one path element at a time.  A symbolic link is resolved by a  *)
(* nested call from the directory that holds it; stack has the callers.    *)
(***************************************************************************)
\* Where a path given in directory i starts, and what of it is left there.
From(i, path) == IF path # <<>> /\ Head(path) = "/" THEN Root ELSE i
Rest(path) == IF path # <<>> /\ Head(path) = "/" THEN Tail(path) ELSE path

\* namex(i, path, parent) starts, to return to label k.
Walk(p, s, i, path, parent, k) ==
    /\ Get(From(i, path), valid) /\ is_sym' = FALSE
    /\ st' = [st EXCEPT ![p] = [s EXCEPT !.ip = From(i, path), !.path = Rest(path),
                                         !.parent = parent, !.k = k]]
    /\ Goto(p, "namex")

\* One turn of the loop: ilock(ip), look the name up, iunlock(ip).
namex(p) ==
    LET s == st[p]
        dp == dinode[s.ip]
        stop == s.parent /\ Len(s.path) = 1
    IN  /\ s.path # <<>> /\ Locks(p, "namex", s.ip)
        /\ \/ /\ dp.type = "dir" /\ stop
              /\ Goto(p, "return")
              /\ valid' = Loaded(s.ip) /\ UNCHANGED <<ref, st, panic>>
           \/ /\ dp.type = "dir" => ~stop /\ dp.ents[Name(p)] = 0
              /\ PutThen(p, [s EXCEPT !.ip = 0], <<s.ip>>, "return")
              /\ valid' = Loaded(s.ip) /\ UNCHANGED <<ref, panic>>
           \/ /\ dp.type = "dir" /\ ~stop /\ dp.ents[Name(p)] # 0
              /\ Get(dp.ents[Name(p)], Loaded(s.ip))
              /\ st' = [st EXCEPT ![p].nx = dp.ents[Name(p)], ![p].path = Tail(@)]
              /\ Goto(p, "next")
        /\ UNCHANGED <<dinode, lock, is_sym, user, excused>>

\* The element found: a link's target is read, anything else is stepped to.
NamexNext(p) ==
    LET s == st[p]
        caller == [ip |-> s.ip, path |-> s.path, parent |-> s.parent]
    IN  /\ Locks(p, "next", s.nx)
        /\ valid' = Loaded(s.nx)
        /\ IF dinode[s.nx].type = "sym"
           THEN PutThen(p, [s EXCEPT !.stack = <<caller>> \o @,
                                     !.path = dinode[s.nx].target, !.nx = 0], <<s.nx>>, "follow")
           ELSE PutThen(p, [s EXCEPT !.ip = s.nx, !.nx = 0], <<s.ip>>, "namex")
        /\ UNCHANGED <<dinode, ref, lock, is_sym, user, panic, excused>>

\* The nested call; too many of them overrun the kernel stack.
Follow(p) ==
    /\ At(p, "follow")
    /\ \/ /\ Len(st[p].stack) <= MaxDepth
          /\ Walk(p, st[p], st[p].ip, st[p].path, FALSE, st[p].k)
          /\ UNCHANGED <<dinode, lock, user, excused>>
       \/ Len(st[p].stack) > MaxDepth /\ Stop("stack overflow")

\* The end of the path.  A path without a last element has no parent.
NamexEnd(p) ==
    LET s == st[p] IN
    /\ At(p, "namex") /\ s.path = <<>>
    /\ IF s.parent THEN PutThen(p, [s EXCEPT !.ip = 0], <<s.ip>>, "return")
                   ELSE Goto(p, "return") /\ UNCHANGED st
    /\ UNCHANGED <<dinode, ref, valid, lock, is_sym, user, panic, excused>>

\* namex() returns ip to the call, or to the namex() that met the link, which
\* goes on with whatever it got.
Return(p) ==
    LET s == st[p]
        up == Head(s.stack)
    IN  /\ At(p, "return")
        /\ \/ /\ s.stack = <<>>
              /\ Goto(p, s.k) /\ UNCHANGED <<st, is_sym>>
           \/ /\ s.stack # <<>>
              /\ is_sym' = TRUE
              /\ PutThen(p, [s EXCEPT !.stack = Tail(@), !.path = up.path, !.parent = up.parent],
                         <<up.ip>>, "namex")
        /\ UNCHANGED <<dinode, ref, valid, lock, user, panic, excused>>

(***************************************************************************)
(* The calls.  Each is one transaction of the log.                         *)
(***************************************************************************)
Handler ==
    [open |-> "open", openw |-> "open", create |-> "create", mkdir |-> "create",
     mknod |-> "create", symlink |-> "create", link |-> "link", unlink |-> "unlink",
     chdir |-> "chdir"]

\* A process enters call c; it has at most one file open.
Start(p, c) ==
    /\ At(p, "idle") /\ calls < MaxCalls
    /\ c.op \in {"open", "openw", "create"} => file[p] = 0
    /\ calls' = calls + 1
    /\ Walk(p, [Idle EXCEPT !.call = c], cwd[p], c.path,
            Handler[c.op] \in {"create", "unlink"}, Handler[c.op])
    /\ UNCHANGED <<dinode, lock, file, cwd, excused>>

\* The lookup found nothing.
Fails(p) ==
    /\ \E l \in {"open", "create", "link", "unlink", "chdir"} : At(p, l)
    /\ st[p].ip = 0
    /\ Done(p, <<>>)
    /\ UNCHANGED <<dinode, ref, valid, lock, is_sym, user, panic, excused>>

\* sys_open() with inode i in hand; the file table or the descriptors may be full.
OpenFile(p, i) ==
    \/ file' = [file EXCEPT ![p] = i] /\ Done(p, <<>>)
    \/ UNCHANGED file /\ Done(p, <<i>>)

\* sys_open() without O_CREATE.
sys_open(p) ==
    LET s == st[p] IN
    /\ Locks(p, "open", s.ip)
    /\ valid' = Loaded(s.ip)
    /\ IF dinode[s.ip].type = "dir" /\ (is_sym \/ s.call.op = "openw")
       THEN Done(p, <<s.ip>>) /\ UNCHANGED file ELSE OpenFile(p, s.ip)
    /\ UNCHANGED <<dinode, ref, lock, is_sym, cwd, calls, panic, excused>>

sys_close(p) ==
    /\ At(p, "idle") /\ file[p] # 0
    /\ file' = [file EXCEPT ![p] = 0] /\ Done(p, <<file[p]>>)
    /\ UNCHANGED <<dinode, ref, valid, lock, is_sym, cwd, calls, panic, excused>>

\* sys_chdir(): the current directory is put, which may free it, before the process
\* has the new one in its place.
sys_chdir(p) ==
    LET s == st[p] IN
    /\ Locks(p, "chdir", s.ip)
    /\ valid' = Loaded(s.ip)
    /\ IF dinode[s.ip].type = "dir"
       THEN PutThen(p, s, <<cwd[p]>>, "chdir2") ELSE Done(p, <<s.ip>>)
    /\ UNCHANGED <<dinode, ref, lock, is_sym, user, panic, excused>>

ChdirEnd(p) ==
    /\ At(p, "chdir2")
    /\ cwd' = [cwd EXCEPT ![p] = st[p].ip] /\ Done(p, <<>>)
    /\ UNCHANGED <<dinode, ref, valid, lock, is_sym, file, calls, panic, excused>>

FreeInums == {i \in Inums : dinode[i].type = "free"}

TypeOf(op) == CASE op = "create" -> "file" [] op = "mkdir" -> "dir"
                    [] op = "mknod" -> "dev" [] op = "symlink" -> "sym"

\* create(): with the parent locked the name is looked up; ialloc() takes the first
\* free inode.
create(p) ==
    LET s == st[p]
        e == dinode[s.ip].ents[Name(p)]
        new == Min(FreeInums)
    IN  /\ Locks(p, "create", s.ip)
        /\ \/ /\ e # 0
              /\ Get(e, Loaded(s.ip))
              /\ PutThen(p, [s EXCEPT !.ip = e], <<s.ip>>, "exists")
              /\ UNCHANGED <<dinode, lock, is_sym, user, excused>>
           \/ /\ e = 0 /\ FreeInums # {}
              /\ dinode' = [dinode EXCEPT ![new].type = TypeOf(s.call.op)]
              /\ Get(new, Loaded(s.ip))
              /\ lock' = [lock EXCEPT ![s.ip] = p]
              /\ st' = [st EXCEPT ![p].nx = new] /\ Goto(p, "create2")
              /\ UNCHANGED <<is_sym, user, excused>>
           \/ e = 0 /\ FreeInums = {} /\ Stop("ialloc: no inodes")

\* The name was there: only a file can be created again.
CreateExists(p) ==
    LET s == st[p] IN
    /\ Locks(p, "exists", s.ip)
    /\ valid' = Loaded(s.ip)
    /\ IF s.call.op = "create" /\ dinode[s.ip].type = "file"
       THEN OpenFile(p, s.ip) ELSE Done(p, <<s.ip>>) /\ UNCHANGED file
    /\ UNCHANGED <<dinode, ref, lock, is_sym, cwd, calls, panic, excused>>

\* The directory entries that name i, as pairs of directory and name.
NamesOf(i) == {e \in Inums \X Names : dinode[e[1]].ents[e[2]] = i}

\* Neither create() nor dirlink() asks whether directory d was removed.
Named(i, d) == IF d # Root /\ NamesOf(d) = {} THEN excused \cup {i} ELSE excused

\* The new inode, locked, gets its link count and its name; the parent is let go.
CreateLink(p) ==
    LET s == st[p] IN
    /\ Locks(p, "create2", s.nx)
    /\ valid' = Loaded(s.nx)
    /\ dinode' = [dinode EXCEPT ![s.nx].nlink = 1,
                                ![s.ip].ents[Name(p)] = s.nx,
                                ![s.ip].nlink = IF s.call.op = "mkdir" THEN @ + 1 ELSE @]
    /\ lock' = [lock EXCEPT ![s.ip] = NoProc, ![s.nx] = p]
    /\ PutThen(p, s, <<s.ip>>, "create3")
    /\ excused' = Named(s.nx, s.ip)
    /\ UNCHANGED <<ref, is_sym, user, panic>>

\* sys_open(), sys_mkdir(), sys_mknod() or sys_symlink() ends with the new inode.
CreateEnd(p) ==
    LET s == st[p] IN
    /\ At(p, "create3")
    /\ lock' = iunlock(s.nx)
    /\ \/ s.call.op = "create" /\ OpenFile(p, s.nx) /\ UNCHANGED dinode
       \/ s.call.op \in {"mkdir", "mknod"} /\ Done(p, <<s.nx>>) /\ UNCHANGED <<file, dinode>>
       \/ /\ s.call.op = "symlink" /\ Done(p, <<s.nx>>) /\ UNCHANGED file
          /\ dinode' = [dinode EXCEPT ![s.nx].target = s.call.arg]
    /\ UNCHANGED <<ref, valid, is_sym, cwd, calls, panic, excused>>

\* One more link to i.
Linked(i) == [dinode EXCEPT ![i].nlink = @ + 1]

\* sys_link(): count the link, then look for the new name's directory.
sys_link(p) ==
    LET s == st[p] IN
    /\ Locks(p, "link", s.ip)
    /\ valid' = Loaded(s.ip)
    /\ IF dinode[s.ip].type = "dir"
       THEN Done(p, <<s.ip>>) /\ UNCHANGED dinode
       ELSE /\ dinode' = Linked(s.ip)
            /\ st' = [st EXCEPT ![p].old = s.ip] /\ Goto(p, "link2")
    /\ UNCHANGED <<ref, lock, is_sym, user, panic, excused>>

LinkWalk(p) ==
    /\ At(p, "link2")
    /\ Walk(p, st[p], cwd[p], st[p].call.arg, TRUE, "link3")
    /\ UNCHANGED <<dinode, lock, user, excused>>

\* dirlink() in the new name's directory; a name that is there is looked up and put
\* with the directory locked.
LinkName(p) ==
    LET s == st[p]
        e == dinode[s.ip].ents[Name(p)]
    IN  \/ /\ At(p, "link3") /\ s.ip = 0 /\ Goto(p, "linkbad")
           /\ UNCHANGED <<dinode, ref, valid, lock, is_sym, st, user, panic, excused>>
        \/ /\ Locks(p, "link3", s.ip) /\ e = 0
           /\ dinode' = [dinode EXCEPT ![s.ip].ents[Name(p)] = s.old]
           /\ valid' = Loaded(s.ip)
           /\ Done(p, <<s.ip, s.old>>)
           /\ excused' = Named(s.old, s.ip)
           /\ UNCHANGED <<ref, lock, is_sym, user, panic>>
        \/ /\ Locks(p, "link3", s.ip) /\ e # 0
           /\ Get(e, Loaded(s.ip))
           /\ lock' = [lock EXCEPT ![s.ip] = p]
           /\ PutThen(p, s, <<e>>, "link4")
           /\ UNCHANGED <<dinode, is_sym, user, excused>>

\* The new name is taken.
LinkTaken(p) ==
    /\ At(p, "link4")
    /\ lock' = iunlock(st[p].ip)
    /\ PutThen(p, st[p], <<st[p].ip>>, "linkbad")
    /\ UNCHANGED <<dinode, ref, valid, is_sym, user, panic, excused>>

\* The label bad: take the count back.
LinkBad(p) ==
    LET i == st[p].old IN
    /\ Locks(p, "linkbad", i)
    /\ dinode' = [dinode EXCEPT ![i].nlink = @ - 1] /\ valid' = Loaded(i)
    /\ Done(p, <<i>>)
    /\ UNCHANGED <<ref, lock, is_sym, user, panic, excused>>

\* sys_unlink(): look the name up with its directory locked.
sys_unlink(p) ==
    LET s == st[p]
        e == dinode[s.ip].ents[Name(p)]
    IN  /\ Locks(p, "unlink", s.ip)
        /\ \/ /\ e = 0
              /\ valid' = Loaded(s.ip) /\ Done(p, <<s.ip>>)
              /\ UNCHANGED <<ref, lock, panic>>
           \/ /\ e # 0
              /\ Get(e, Loaded(s.ip))
              /\ lock' = [lock EXCEPT ![s.ip] = p]
              /\ st' = [st EXCEPT ![p].nx = e] /\ Goto(p, "unlink2")
        /\ UNCHANGED <<dinode, is_sym, user, excused>>

isdirempty(i) == \A n \in Names : dinode[i].ents[n] = 0

\* With both locked the entry is cleared and the directory let go.
UnlinkName(p) ==
    LET s == st[p]
        dir == dinode[s.nx].type = "dir"
    IN  /\ Locks(p, "unlink2", s.nx)
        /\ valid' = Loaded(s.nx)
        /\ panic' = IF dinode[s.nx].nlink < 1 THEN "unlink: nlink < 1" ELSE ""
        /\ \/ /\ dir /\ ~isdirempty(s.nx)
              /\ PutThen(p, s, <<s.nx>>, "unlinkbad")
              /\ UNCHANGED <<dinode, lock>>
           \/ /\ dir => isdirempty(s.nx)
              /\ dinode' = [dinode EXCEPT ![s.ip].ents[Name(p)] = 0,
                                          ![s.ip].nlink = IF dir THEN @ - 1 ELSE @]
              /\ lock' = [lock EXCEPT ![s.ip] = NoProc, ![s.nx] = p]
              /\ PutThen(p, s, <<s.ip>>, "unlink3")
        /\ UNCHANGED <<ref, is_sym, user, excused>>

UnlinkBad(p) ==
    /\ At(p, "unlinkbad")
    /\ lock' = iunlock(st[p].ip)
    /\ Done(p, <<st[p].ip>>)
    /\ UNCHANGED <<dinode, ref, valid, is_sym, user, panic, excused>>

\* The inode, still locked, loses its link.
UnlinkEnd(p) ==
    LET i == st[p].nx IN
    /\ At(p, "unlink3")
    /\ dinode' = [dinode EXCEPT ![i].nlink = @ - 1]
    /\ lock' = iunlock(i)
    /\ Done(p, <<i>>)
    /\ UNCHANGED <<ref, valid, is_sym, user, panic, excused>>

-------------------------------------------------------------------------------
\* The root alone, as mkfs makes it but for the files in it; and the root with an empty
\* directory, made before the system came up.
EmptyDisk == [i \in Inums |-> IF i = Root THEN [FreeInode EXCEPT !.type = "dir", !.nlink = 1]
                                          ELSE FreeInode]
DiskWith(n) == [EmptyDisk EXCEPT ![Root].ents[n] = Root + 1, ![Root].nlink = 2,
                                 ![Root + 1].type = "dir", ![Root + 1].nlink = 1]

\* Every process starts in the root.
Init ==
    /\ dinode \in {EmptyDisk} \cup {DiskWith(n) : n \in OldDirs}
    /\ ref = [i \in Inums |-> IF i = Root THEN Cardinality(Procs) ELSE 0]
    /\ valid = [i \in Inums |-> FALSE] /\ lock = [i \in Inums |-> NoProc]
    /\ is_sym = FALSE /\ panic = "" /\ calls = 0 /\ excused = {}
    /\ pc = [p \in Procs |-> "idle"] /\ st = [p \in Procs |-> Idle]
    /\ file = [p \in Procs |-> 0] /\ cwd = [p \in Procs |-> Root]

Step(p) ==
    \/ iput(p) \/ itrunc(p) \/ iputref(p)
    \/ namex(p) \/ NamexNext(p) \/ Follow(p) \/ NamexEnd(p) \/ Return(p)
    \/ Fails(p) \/ sys_open(p) \/ sys_chdir(p) \/ ChdirEnd(p)
    \/ create(p) \/ CreateExists(p) \/ CreateLink(p) \/ CreateEnd(p)
    \/ sys_link(p) \/ LinkWalk(p) \/ LinkName(p) \/ LinkTaken(p) \/ LinkBad(p)
    \/ sys_unlink(p) \/ UnlinkName(p) \/ UnlinkBad(p) \/ UnlinkEnd(p)
    \/ BadLock(p)

\* All calls are made and answered, or the kernel has stopped.
Over ==
    /\ \/ panic # ""
       \/ calls = MaxCalls /\ \A p \in Procs : pc[p] = "idle" /\ file[p] = 0
    /\ UNCHANGED vars

Next ==
    \/ \E p \in Procs : Step(p) \/ sys_close(p) \/ \E c \in Calls : Start(p, c)
    \/ Over

Spec == Init /\ [][Next]_vars

\* A process inside a call goes on; whether it makes another one is its own affair.
FairSpec == Spec /\ \A p \in Procs : WF_vars(Step(p))

-------------------------------------------------------------------------------
Subdirs(i) == {n \in Names : dinode[i].ents[n] # 0 /\ dinode[dinode[i].ents[n]].type = "dir"}

\* The directory of p that counts: from the iput() of the old one until the assignment
\* at the end of sys_chdir() it is the one p has looked up, and cwd[p] may be freed and
\* even be another inode by then.
Home(p) == IF st[p].then = "chdir2" THEN st[p].ip ELSE cwd[p]

\* Whatever several processes create, link and remove at once, no directory entry,
\* open file or current directory (but for the one sys_chdir() is giving up) is left with
\* an inode that was freed; every inode has at least
\* the links its names and its subdirectories need, so that removing one of them
\* never frees it under the others; and the kernel does not stop at a free inode
\* ("ilock: no type") or an unlinked name ("unlink: nlink < 1").  What can stop it is
\* want of inodes or of cache entries, and a path through a symbolic link that points
\* to nothing or to itself.
NoDangling ==
    /\ \A i \in Inums : dinode[i].type # "free" =>
        dinode[i].nlink >= Cardinality(NamesOf(i)) + Cardinality(Subdirs(i))
    /\ \A i \in Inums : NamesOf(i) # {} => dinode[i].type # "free"
    /\ \A p \in Procs : /\ file[p] # 0 => dinode[file[p]].type # "free"
                       /\ dinode[Home(p)].type = "dir"
    /\ panic \in {"", "ilock", "stack overflow", "ialloc: no inodes", "iget: no inodes"}

(***************************************************************************)
(* What the checker of PartB (fscheck.c) finds on this disk: its inode and *)
(* directory passes.  Its "." entry makes every directory name itself.     *)
(***************************************************************************)
inode_use == {i \in Inums : dinode[i].type # "free"}
BadInodes == {i \in inode_use : dinode[i].type \notin {"dir", "file", "dev"}}
dir_inode == UNION {{d} \cup ({dinode[d].ents[n] : n \in Names} \ {0}) :
                       d \in {i \in Inums : dinode[i].type = "dir"}}
FreeButReferred == dir_inode \ inode_use
UsedButNotFound == inode_use \ dir_inode

\* With every process out of the kernel the counts agree: the references of an inode
\* are its open files and current directories, and one without links and references
\* is free on disk, as the comment on iput() (fs.c:328-329) promises, unless the
\* last two iput()s overlapped: then each saw the other's reference and neither
\* freed it.  With the files closed fscheck finds the disk in order but for such
\* inodes, those named in a directory that was removed meanwhile, and symbolic
\* links, which it does not know.
Settled ==
    (panic = "" /\ \A p \in Procs : pc[p] = "idle") =>
        /\ \A i \in Inums :
            /\ ref[i] = Cardinality({p \in Procs : file[p] = i})
                        + Cardinality({p \in Procs : cwd[p] = i})
            /\ dinode[i].nlink = 0 /\ ref[i] = 0 => dinode[i].type = "free" \/ i \in excused
        /\ FreeButReferred = {}
        /\ UsedButNotFound \subseteq excused \cup {file[p] : p \in Procs}
        /\ \A i \in BadInodes : dinode[i].type = "sym"

\* p waits for a lock that q has.
WaitsFor(p, q) ==
    LET i == IF pc[p] = "iput" THEN Putting(p) ELSE Wanted(p)
    IN  pc[p] \in Asking \cup {"iput"} /\ i # 0 /\ lock[i] = q

\* Two processes wait for one another; at least one of them is in the iput() of a
\* directory and has locked an entry of it, the wrong way round.
Stuck ==
    \E p, q \in Procs : p # q /\ WaitsFor(p, q) /\ WaitsFor(q, p) /\ pc[p] = "iput"

\* The test linkunlink ("another concurrent link/unlink/create test, to look for
\* deadlocks", usertests.c:855-856) expects that two processes that create, link and
\* unlink the same name never wait for one another.
NeverStuck == \A p, q \in Procs : p # q => ~(WaitsFor(p, q) /\ WaitsFor(q, p))

\* Every call returns unless the kernel stops or the call meets another in the one
\* way that is Stuck: all other pairs of locks are taken from directory to entry, and
\* every error path gives up what it has locked.
CallsReturn == \A p \in Procs : pc[p] # "idle" ~> (pc[p] = "idle" \/ panic # "" \/ Stuck)
===============================================================================
