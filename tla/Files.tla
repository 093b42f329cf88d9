--------------------------------- MODULE Files ---------------------------------
(***************************************************************************)
(* Open files and pipes of xv6 (file.c, pipe.c, sysfile.c, and the parts   *)
(* of fork, exit, kill, sleep and wakeup in proc.c that concern them).     *)
(* A step is what runs under one spin lock.  A process that sleeps on a    *)
(* pipe holds the pipe's lock from its test to the sleep itself, but not   *)
(* ptable.lock, so that kill() can come in between.  The counters nread    *)
(* and nwrite are unsigned and wrap around at 2^w (CounterMod).            *)
(***************************************************************************)
EXTENDS Integers, Sequences, SequencesExt, FiniteSets, FiniteSetsExt

CONSTANTS
    Procs, Root,    \* process slots, and the one that never exits
    NOFILE,         \* descriptors of a process
    NFILE,          \* entries of ftable
    Pages,          \* pages kalloc() may give to pipes
    PIPESIZE, CounterMod,
    Byte,
    Buffers,        \* what programs write
    Sizes,          \* how much they ask to read
    MaxOpens,       \* how many opens, pipes, dups and forks a behaviour has
    Unlocked        \* nobody holds the pipe's lock

NoPage == "none"

ASSUME FilesAssumption ==
    /\ IsFiniteSet(Procs) /\ Root \in Procs /\ NOFILE \in Nat \ {0} /\ NFILE \in Nat \ {0}
    /\ PIPESIZE \in Nat \ {0} /\ CounterMod \in Nat
    /\ CounterMod > PIPESIZE /\ CounterMod % PIPESIZE = 0
    /\ MaxOpens \in Nat /\ Buffers \subseteq Seq(Byte) /\ Sizes \subseteq Nat
    /\ Unlocked \notin Procs /\ NoPage \notin Pages /\ Byte # {}

FDs == 1 .. NOFILE
FileIds == 1 .. NFILE
FreeFile == [ref |-> 0, type |-> "none", writable |-> FALSE, pipe |-> NoPage]
FreePipe == [nread |-> 0, nwrite |-> 0, readopen |-> FALSE, writeopen |-> FALSE,
             data |-> [i \in 0 .. PIPESIZE - 1 |-> CHOOSE b \in Byte : TRUE]]

VARIABLES
    ofile,      \* process -> descriptor -> file, 0 for none
    ftable,     \* file -> [ref, type, writable, pipe]
    pipe,       \* page -> struct pipe, FreePipe when kalloc() has the page
    lock,       \* page -> holder of the pipe's lock between two steps
    pc,         \* process -> where it is
    op,         \* process -> [files: references of its own, pipe, writable, buf, n]
    opens,      \* opens, pipes, dups and forks so far
    exiting,    \* processes in exit()
    killed,     \* processes with p->killed set
    unsignalled \* history: pages with bytes put in by a writer that then left
                \* without a wakeup

vars == <<ofile, ftable, pipe, lock, pc, op, opens, exiting, killed, unsignalled>>
pipeVars == <<pipe, lock, unsignalled>>

NoOp == [files |-> <<>>, pipe |-> NoPage, writable |-> FALSE, buf |-> <<>>, n |-> 0]

\* One more open, pipe, dup or fork within the bound.
Opens == opens < MaxOpens /\ opens' = opens + 1

\* p makes a system call.
InUser(p) == pc[p] = "user" /\ p \notin killed
Goto(p, l) == pc' = [pc EXCEPT ![p] = l]

(***************************************************************************)
(* The file table.                                                         *)
(***************************************************************************)
\* filealloc(): the first entry without references, or 0.
filealloc == Min({f \in FileIds : ftable[f].ref = 0} \cup {NFILE + 1})
Found(f) == f \in FileIds
Take(f) == ftable' = [ftable EXCEPT ![f].ref = 1]

\* fdalloc(): the first free descriptor of p.
FreeFds(p) == {fd \in FDs : ofile[p][fd] = 0}

\* The call ends with these files still to be closed.
CloseAll(p, files) ==
    /\ Goto(p, "close")
    /\ op' = [op EXCEPT ![p] = [NoOp EXCEPT !.files = files]]

\* A mutant: dup and fork forget filedup().
DupUncounted(f, n) == ftable[f]

\* filedup(), n times.
Dup(f, n) == [ftable[f] EXCEPT !.ref = @ + n]

sys_dup(p) ==
    \E fd \in FDs :
        /\ InUser(p) /\ ofile[p][fd] # 0 /\ FreeFds(p) # {}
        /\ ofile' = [ofile EXCEPT ![p][Min(FreeFds(p))] = ofile[p][fd]]
        /\ ftable' = [ftable EXCEPT ![ofile[p][fd]] = Dup(ofile[p][fd], 1)]
        /\ Opens
        /\ UNCHANGED <<pipeVars, pc, op, exiting, killed>>

\* fork() duplicates every descriptor of p for the child c.
fork(p, c) ==
    /\ InUser(p) /\ pc[c] = "unused"
    /\ ofile' = [ofile EXCEPT ![c] = ofile[p]]
    /\ ftable' = [f \in FileIds |-> Dup(f, Cardinality({fd \in FDs : ofile[p][fd] = f}))]
    /\ Goto(c, "user")
    /\ Opens
    /\ UNCHANGED <<pipeVars, op, exiting, killed>>

\* sys_open() of an existing inode, as far as the file table goes: with no
\* descriptor left the file goes back.
sys_open(p) ==
    LET f == filealloc IN
    /\ InUser(p) /\ Found(f) /\ Opens
    /\ \/ /\ FreeFds(p) # {}
          /\ ftable' = [ftable EXCEPT ![f] = [ref |-> 1, type |-> "inode", writable |-> FALSE,
                                              pipe |-> NoPage]]
          /\ ofile' = [ofile EXCEPT ![p][Min(FreeFds(p))] = f]
          /\ UNCHANGED <<pc, op>>
       \/ /\ FreeFds(p) = {} /\ Take(f) /\ CloseAll(p, <<f>>)
          /\ UNCHANGED ofile
    /\ UNCHANGED <<pipeVars, exiting, killed>>

(***************************************************************************)
(* sys_pipe() and pipealloc(): two files, a page and two descriptors, each *)
(* of which may be missing.                                                *)
(***************************************************************************)
PipeFirstFile(p) ==
    /\ InUser(p) /\ Found(filealloc) /\ Take(filealloc)
    /\ Goto(p, "pipealloc") /\ op' = [op EXCEPT ![p].files = <<filealloc>>]
    /\ Opens
    /\ UNCHANGED <<pipeVars, ofile, exiting, killed>>

PipeSecondFile(p) ==
    /\ pc[p] = "pipealloc" /\ Len(op[p].files) = 1
    /\ \/ /\ Found(filealloc) /\ Take(filealloc)
          /\ op' = [op EXCEPT ![p].files = Append(@, filealloc)]
          /\ UNCHANGED pc
       \/ /\ ~Found(filealloc) /\ CloseAll(p, op[p].files)
          /\ UNCHANGED ftable
    /\ UNCHANGED <<pipeVars, ofile, opens, exiting, killed>>

\* kalloc() fails when it has no page to give.
PipePage(p) ==
    /\ pc[p] = "pipealloc" /\ Len(op[p].files) = 2
    /\ \/ /\ \A pg \in Pages : pipe[pg] # FreePipe
          /\ CloseAll(p, op[p].files)
          /\ UNCHANGED <<pipeVars, ofile, ftable>>
       \/ \E pg \in Pages :
          LET rf == op[p].files[1]
              wf == op[p].files[2]
              fd0 == Min(FreeFds(p))
          IN  /\ pipe[pg] = FreePipe
              /\ pipe' = [pipe EXCEPT ![pg].readopen = TRUE, ![pg].writeopen = TRUE]
              /\ ftable' = [ftable EXCEPT
                    ![rf] = [ref |-> 1, type |-> "pipe", writable |-> FALSE, pipe |-> pg],
                    ![wf] = [ref |-> 1, type |-> "pipe", writable |-> TRUE, pipe |-> pg]]
              /\ IF Cardinality(FreeFds(p)) < 2
                 THEN CloseAll(p, <<rf, wf>>) /\ UNCHANGED ofile
                 ELSE /\ ofile' = [ofile EXCEPT ![p][fd0] = rf,
                                       ![p][Min(FreeFds(p) \ {fd0})] = wf]
                      /\ Goto(p, "user") /\ op' = [op EXCEPT ![p] = NoOp]
              /\ UNCHANGED <<lock, unsignalled>>
    /\ UNCHANGED <<opens, exiting, killed>>

(***************************************************************************)
(* Closing.                                                                *)
(***************************************************************************)
sys_close(p) ==
    \E fd \in FDs :
        /\ InUser(p) /\ ofile[p][fd] # 0
        /\ ofile' = [ofile EXCEPT ![p][fd] = 0]
        /\ CloseAll(p, <<ofile[p][fd]>>)
        /\ UNCHANGED <<pipeVars, ftable, opens, exiting, killed>>

\* A killed process gets to exit() when it is back in user space.
exit(p) ==
    /\ pc[p] = "user" /\ p # Root
    /\ exiting' = exiting \cup {p}
    /\ CloseAll(p, <<>>)
    /\ UNCHANGED <<pipeVars, ofile, ftable, opens, killed>>

\* exit() closes descriptor after descriptor; nobody else looks at them.
ExitNext(p) ==
    /\ pc[p] = "close" /\ op[p].files = <<>> /\ p \in exiting
    /\ \E fd \in FDs :
        /\ ofile[p][fd] # 0 /\ \A d \in 1 .. fd - 1 : ofile[p][d] = 0
        /\ ofile' = [ofile EXCEPT ![p][fd] = 0]
        /\ op' = [op EXCEPT ![p].files = <<ofile[p][fd]>>]
    /\ UNCHANGED <<pipeVars, ftable, pc, opens, exiting, killed>>

\* fileclose() under ftable.lock: only the last reference closes, on a copy.
fileclose(p) ==
    LET f == Head(op[p].files)
        ff == ftable[f]
        next == [op[p] EXCEPT !.files = Tail(@)]
    IN  /\ pc[p] = "close" /\ op[p].files # <<>>
        /\ \/ /\ ff.ref > 1
              /\ ftable' = [ftable EXCEPT ![f].ref = @ - 1]
              /\ op' = [op EXCEPT ![p] = next]
              /\ UNCHANGED pc
           \/ /\ ff.ref = 1
              /\ ftable' = [ftable EXCEPT ![f] = FreeFile]
              /\ IF ff.type = "pipe"
                 THEN /\ Goto(p, "pipeclose")
                      /\ op' = [op EXCEPT ![p] = [next EXCEPT !.pipe = ff.pipe,
                                                              !.writable = ff.writable]]
                 ELSE op' = [op EXCEPT ![p] = next] /\ UNCHANGED pc
        /\ UNCHANGED <<pipeVars, ofile, opens, exiting, killed>>

CloseDone(p) ==
    /\ pc[p] = "close" /\ op[p].files = <<>>
    /\ p \in exiting => \A fd \in FDs : ofile[p][fd] = 0
    /\ Goto(p, IF p \in exiting THEN "unused" ELSE "user")
    /\ op' = [op EXCEPT ![p] = NoOp]
    /\ exiting' = exiting \ {p}
    /\ killed' = IF p \in exiting THEN killed \ {p} ELSE killed
    /\ UNCHANGED <<pipeVars, ofile, ftable, opens>>

(***************************************************************************)
(* Pipes.  The processes asleep on &nread are at "rsleep", those asleep on *)
(* &nwrite at "wsleep".                                                    *)
(***************************************************************************)
\* A mutant: a counter that does not wrap around.
AdvanceUnbounded(c, k) == c + k

\* An unsigned counter, k further.
Advance(c, k) == (c + k) % CounterMod

Count(pp) == (pp.nwrite - pp.nread) % CounterMod
Contents(pp) == [i \in 1 .. Count(pp) |-> pp.data[(pp.nread + i - 1) % PIPESIZE]]
Wakes(chan, pg) == {q \in Procs : pc[q] = chan /\ op[q].pipe = pg}

\* A mutant: the closing writer wakes the other writers.
WokenByWriterEnd(writable, pg) == Wakes("wsleep", pg)

\* The sleepers pipeclose() wakes: those who wait for the end that closes.
WokenByClose(writable, pg) == Wakes(IF writable THEN "rsleep" ELSE "wsleep", pg)

\* wakeup(): the sleepers ws test their condition again.
Awake(ws) ==
    [q \in Procs |-> IF q \notin ws THEN pc[q]
                     ELSE IF pc[q] = "rsleep" THEN "read" ELSE "write"]

\* The pipe with one end closed; the page goes back with the second.
Closed(pp, writable) ==
    LET c == IF writable THEN [pp EXCEPT !.writeopen = FALSE]
                         ELSE [pp EXCEPT !.readopen = FALSE]
    IN  IF c.readopen \/ c.writeopen THEN c ELSE FreePipe

pipeclose(p) ==
    LET pg == op[p].pipe IN
    /\ pc[p] = "pipeclose" /\ lock[pg] = Unlocked
    /\ pipe' = [pipe EXCEPT ![pg] = Closed(@, op[p].writable)]
    /\ pc' = [Awake(WokenByClose(op[p].writable, pg)) EXCEPT ![p] = "close"]
    /\ op' = [op EXCEPT ![p].pipe = NoPage, ![p].writable = FALSE]
    /\ unsignalled' = unsignalled \ {pg}
    /\ UNCHANGED <<ofile, ftable, lock, opens, exiting, killed>>

\* sys_read() and sys_write() of an open pipe end of the right kind.
sys_rw(p, writable, buf, n) ==
    \E fd \in {d \in FDs : ofile[p][d] # 0} :
        LET f == ftable[ofile[p][fd]] IN
        /\ InUser(p) /\ f.type = "pipe" /\ f.writable = writable
        /\ Goto(p, IF writable THEN "write" ELSE "read")
        /\ op' = [op EXCEPT ![p] = [NoOp EXCEPT !.pipe = f.pipe, !.buf = buf, !.n = n]]
        /\ UNCHANGED <<pipeVars, ofile, ftable, opens, exiting, killed>>

sys_read(p) == \E n \in Sizes : sys_rw(p, FALSE, <<>>, n)
sys_write(p) == \E buf \in Buffers : sys_rw(p, TRUE, buf, 0)

Return(p, ws) ==
    /\ pc' = [Awake(ws) EXCEPT ![p] = "user"]
    /\ op' = [op EXCEPT ![p] = NoOp]

\* The test of piperead()'s and pipewrite()'s loop is made; the lock is kept.
Doze(p, pg, l, ws) ==
    /\ lock' = [lock EXCEPT ![pg] = p]
    /\ pc' = [Awake(ws) EXCEPT ![p] = l]

\* sleep() releases the pipe's lock once it has ptable.lock.
sleep(p) ==
    /\ pc[p] \in {"rdoze", "wdoze"}
    /\ lock' = [lock EXCEPT ![op[p].pipe] = Unlocked]
    /\ Goto(p, IF pc[p] = "rdoze" THEN "rsleep" ELSE "wsleep")
    /\ UNCHANGED <<ofile, ftable, pipe, op, opens, exiting, killed, unsignalled>>

\* A mutant: piperead() leaves an empty pipe only when it was killed.
MustWaitToReadForever(pp) == Count(pp) = 0

MustWaitToRead(pp) == Count(pp) = 0 /\ pp.writeopen

piperead(p) ==
    LET pg == op[p].pipe
        pp == pipe[pg]
        k == Min({op[p].n, Count(pp)})
    IN  /\ pc[p] = "read" /\ lock[pg] = Unlocked
        /\ \/ /\ MustWaitToRead(pp) /\ p \in killed
              /\ Return(p, {}) /\ UNCHANGED pipeVars
           \/ /\ MustWaitToRead(pp) /\ p \notin killed
              /\ Doze(p, pg, "rdoze", {})
              /\ UNCHANGED <<pipe, op, unsignalled>>
           \/ /\ ~MustWaitToRead(pp)
              /\ pipe' = [pipe EXCEPT ![pg].nread = Advance(@, k)]
              /\ Return(p, Wakes("wsleep", pg))
              /\ UNCHANGED <<lock, unsignalled>>
        /\ UNCHANGED <<ofile, ftable, opens, exiting, killed>>

\* A mutant: the size test does not allow for the counters' wrap around.
SpaceNoWrap(pp) == PIPESIZE - (pp.nwrite - pp.nread)

Space(pp) == PIPESIZE - Count(pp)

\* buf's first k bytes are in the pipe.
Put(pp, buf, k) ==
    [pp EXCEPT !.nwrite = Advance(@, k),
               !.data = [i \in DOMAIN @ |->
                  IF \E j \in 1 .. k : (pp.nwrite + j - 1) % PIPESIZE = i
                  THEN buf[CHOOSE j \in 1 .. k : (pp.nwrite + j - 1) % PIPESIZE = i]
                  ELSE @[i]]]

\* pipewrite() from getting the lock to its return or its sleep.  A writer that
\* gives up in a full pipe wakes nobody, not even for the bytes it has put in.
pipewrite(p) ==
    LET pg == op[p].pipe
        buf == op[p].buf
        k == Min({Len(buf), Space(pipe[pg])})
        readers == Wakes("rsleep", pg)
    IN  /\ pc[p] = "write" /\ lock[pg] = Unlocked
        /\ pipe' = [pipe EXCEPT ![pg] = Put(@, buf, k)]
        /\ \/ /\ k = Len(buf)
              /\ Return(p, readers)
              /\ unsignalled' = unsignalled \ {pg} /\ UNCHANGED lock
           \/ /\ k < Len(buf) /\ (~pipe[pg].readopen \/ p \in killed)
              /\ Return(p, {})
              /\ unsignalled' = IF k > 0 THEN unsignalled \cup {pg} ELSE unsignalled
              /\ UNCHANGED lock
           \/ /\ k < Len(buf) /\ pipe[pg].readopen /\ p \notin killed
              /\ Doze(p, pg, "wdoze", readers)
              /\ op' = [op EXCEPT ![p].buf = SubSeq(buf, k + 1, Len(buf))]
              /\ unsignalled' = unsignalled \ {pg}
        /\ UNCHANGED <<ofile, ftable, opens, exiting, killed>>

\* kill() marks q and takes it out of any sleep.
kill(q) ==
    /\ q # Root /\ pc[q] # "unused" /\ q \notin killed
    /\ killed' = killed \cup {q}
    /\ pc' = Awake({q} \cap {r \in Procs : pc[r] \in {"rsleep", "wsleep"}})
    /\ UNCHANGED <<pipeVars, ofile, ftable, op, opens, exiting>>

-------------------------------------------------------------------------------
Init ==
    /\ ofile = [p \in Procs |-> [fd \in FDs |-> 0]]
    /\ ftable = [f \in FileIds |-> FreeFile]
    /\ pipe = [pg \in Pages |-> FreePipe] /\ lock = [pg \in Pages |-> Unlocked]
    /\ pc = [p \in Procs |-> IF p = Root THEN "user" ELSE "unused"]
    /\ op = [p \in Procs |-> NoOp]
    /\ opens = 0 /\ exiting = {} /\ killed = {}
    /\ unsignalled = {}

\* The steps of a call once it is made.
InCall(p) ==
    \/ PipeSecondFile(p) \/ PipePage(p) \/ ExitNext(p) \/ fileclose(p) \/ CloseDone(p)
    \/ pipeclose(p) \/ piperead(p) \/ pipewrite(p) \/ sleep(p)

Calls(p) ==
    \/ sys_dup(p) \/ sys_open(p) \/ PipeFirstFile(p) \/ sys_close(p) \/ exit(p)
    \/ sys_read(p) \/ sys_write(p) \/ kill(p)
    \/ \E c \in Procs : fork(p, c)

Next == \E p \in Procs : Calls(p) \/ InCall(p)

Spec == Init /\ [][Next]_vars

\* The kernel goes on with a call that can go on; programs may stop calling.
FairSpec == Spec /\ \A p \in Procs : WF_vars(InCall(p))

-------------------------------------------------------------------------------
\* The type of every variable of the file table and the pipes.
TypeOK ==
    /\ ofile \in [Procs -> [FDs -> 0 .. NFILE]]
    /\ ftable \in [FileIds -> [ref : Nat, type : {"none", "pipe", "inode"},
                               writable : BOOLEAN, pipe : Pages \cup {NoPage}]]
    /\ pipe \in [Pages -> [nread : 0 .. CounterMod - 1, nwrite : 0 .. CounterMod - 1,
                           readopen : BOOLEAN, writeopen : BOOLEAN,
                           data : [0 .. PIPESIZE - 1 -> Byte]]]
    /\ lock \in [Pages -> Procs \cup {Unlocked}]
    /\ pc \in [Procs -> {"user", "unused", "pipealloc", "close", "pipeclose", "read",
                         "write", "rdoze", "wdoze", "rsleep", "wsleep"}]
    /\ op \in [Procs -> [files : Seq(FileIds), pipe : Pages \cup {NoPage},
                         writable : BOOLEAN, buf : Seq(Byte), n : Sizes \cup {0}]]
    /\ opens \in 0 .. MaxOpens /\ exiting \subseteq Procs /\ killed \subseteq Procs
    /\ unsignalled \subseteq Pages

\* References to f: descriptors, and files a call has in hand.
Refs(f) ==
    Cardinality({d \in Procs \X FDs : ofile[d[1]][d[2]] = f})
      + Cardinality({h \in Procs \X (1 .. 2) :
                        h[2] \in DOMAIN op[h[1]].files /\ op[h[1]].files[h[2]] = f})

\* Who has an end of the pipe in pg: a file, or a close half-way.
HasEnd(pg, w) ==
    \/ \E f \in FileIds : /\ ftable[f].type = "pipe" /\ ftable[f].ref > 0
                          /\ ftable[f].pipe = pg /\ ftable[f].writable = w
    \/ \E p \in Procs : pc[p] = "pipeclose" /\ op[p].pipe = pg /\ op[p].writable = w

\* ref counts exactly the references to a file, through dup, fork, exit and the
\* failures of sys_pipe(), and an end of a pipe is open exactly as long as a file
\* or a close in progress has it: no page is leaked, and none is given back while
\* it is in use.
Accounted ==
    /\ \A f \in FileIds : ftable[f].ref = Refs(f)
    /\ \A pg \in Pages : /\ pipe[pg].readopen = HasEnd(pg, FALSE)
                         /\ pipe[pg].writeopen = HasEnd(pg, TRUE)

\* Nobody sleeps on a pipe that has what he waits for: a sleeping reader's pipe is
\* empty with a writer left, a sleeping writer's is full with a reader left.  The
\* one exception is bytes left by a writer that gave up without a wakeup.
SleepersMustWait ==
    \A p \in Procs :
        LET pg == op[p].pipe IN
        /\ pc[p] = "rsleep" => MustWaitToRead(pipe[pg]) \/ pg \in unsignalled
        /\ pc[p] = "wsleep" => Count(pipe[pg]) = PIPESIZE /\ pipe[pg].readopen

OpenEnds(pp) ==
    (IF pp.readopen THEN {"r"} ELSE {}) \cup (IF pp.writeopen THEN {"w"} ELSE {})

Abstract == INSTANCE ByteStream WITH Streams <- Pages, Capacity <- PIPESIZE,
    q <- [pg \in Pages |-> Contents(pipe[pg])],
    ends <- [pg \in Pages |-> OpenEnds(pipe[pg])]

\* Every pipe is a byte stream: order, completeness and the meaning of its two
\* ends hold across wrapped counters, split writes and any closes.
IsByteStream == Abstract!Spec

\* p reads from a pipe without a writer, or writes to one without a reader.
OtherEndGone(p) ==
    \/ pc[p] \in {"read", "rdoze", "rsleep"} /\ ~pipe[op[p].pipe].writeopen
    \/ pc[p] \in {"write", "wdoze", "wsleep"} /\ ~pipe[op[p].pipe].readopen

\* A read of a pipe whose last writer is gone, and a write to one whose last
\* reader is gone, come to an end: pipeclose() wakes whoever sleeps there.
CloseReleases == \A p \in Procs : OtherEndGone(p) ~> (pc[p] = "user")
===============================================================================
