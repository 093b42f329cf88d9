--------------------------------- MODULE Shell ---------------------------------
(***************************************************************************)
(* The shell of 03_Shell/mysh.c: a single process that reads lines, runs   *)
(* each as a foreground or background child and keeps a table of its       *)
(* background jobs.  The children run, end and become zombies at any time; *)
(* the kernel may give a reaped child's pid to a later child, and fork()   *)
(* may fail.  A line is what parse_command() makes of it; an empty line or *)
(* one with a misplaced '>' is only refused and left out.                  *)
(***************************************************************************)
EXTENDS Integers, FiniteSets

CONSTANTS
    Pids,           \* pids the kernel hands out
    MAX_SIM_JOBS,   \* slots of job_arr
    MAX_JID,        \* entries of bg_flag
    MaxCommands,    \* bound: the commands a behaviour runs
    MaxForkFail,    \* bound: how often fork() may fail
    Lines           \* the input lines

ForkFailed == 0     \* the model's -1, as a pid
NULL == [jobid |-> -1, jobpid |-> ForkFailed]
NoChild == [st |-> "none", job |-> -1]
NoNumber == -1

\* The words a line has, whether the last one is "&" and whether there is a '>', the
\* first word, and the number that the second one is.
Line == [num_parse : Nat \ {0}, bg_flag : {0, 1}, rd_flag : {0, 1},
         word : {"exit", "jobs", "wait", "other"}, number : Nat \cup {NoNumber}]

ASSUME ShellAssumption ==
    /\ Pids \subseteq Nat \ {ForkFailed} /\ IsFiniteSet(Pids) /\ Lines \subseteq Line
    /\ MAX_SIM_JOBS \in Nat \ {0} /\ MAX_JID \in Nat \ {0}
    /\ MaxCommands \in Nat /\ MaxForkFail \in Nat

VARIABLES
    jobid_next,     \* the next job id, one per command run
    bg_flag,        \* the job ids whose flag is set
    job_arr,        \* slot -> [jobid, jobpid] or NULL
    pc,             \* where the shell is
    cmd,            \* the command in hand: [child_pid, slot, then, jobid]
    proc,           \* kernel: pid -> its child [st, job], the job id being history
    fails,          \* how often fork() has failed
    ended,          \* history: jobs whose child has ended, or never started
    refused         \* history: background jobs the full table did not take

vars == <<jobid_next, bg_flag, job_arr, pc, cmd, proc, fails, ended, refused>>

Slots == 1 .. MAX_SIM_JOBS
Idle == [child_pid |-> ForkFailed, slot |-> 1, then |-> "none", jobid |-> -1]

(***************************************************************************)
(* Parsing a line.                                                         *)
(***************************************************************************)
\* parse_command() counts neither "&" nor the file as an argument.
argc(c) == c.num_parse - c.bg_flag - c.rd_flag

check_built_in(c) ==
    CASE argc(c) = 1 /\ c.word \in {"exit", "jobs"} -> c.word
      [] argc(c) = 2 /\ c.word = "wait" -> "wait"
      [] OTHER -> "none"

\* The shell reads and parses a line that is a command of this kind.
Reads(kind, c) == pc = "prompt" /\ check_built_in(c) = kind

(***************************************************************************)
(* waitpid(): the children a pid names, and reaping one of them.           *)
(***************************************************************************)
Children(pid) == {p \in Pids : (pid = ForkFailed \/ p = pid) /\ proc[p] # NoChild}
Zombies(pid) == {p \in Children(pid) : proc[p].st = "zombie"}
Reap(p) == proc' = [proc EXCEPT ![p] = NoChild]

(***************************************************************************)
(* func_jobs() and the first loop of job_arr_add() ask after every entry   *)
(* with WNOHANG, one system call at a time, and drop the entries whose     *)
(* child is reaped now or was reaped before.                               *)
(***************************************************************************)
\* A mutant: the answer 0, a child that still runs, also ends the entry.
OverIfStillRunning(pid) == Children(pid) = {} \/ pid \in Children(pid)

\* waitpid() returned -1 or the entry's own pid.
Over(pid) == Children(pid) = {} \/ pid \in Zombies(pid)

SweepSlot ==
    /\ pc = "sweep" /\ cmd.slot \in Slots
    /\ cmd' = [cmd EXCEPT !.slot = @ + 1]
    /\ LET job == job_arr[cmd.slot] IN
       \/ job = NULL /\ UNCHANGED <<job_arr, proc>>
       \/ /\ job # NULL
          /\ job_arr' = IF Over(job.jobpid) THEN [job_arr EXCEPT ![cmd.slot] = NULL]
                                             ELSE job_arr
          /\ \/ Zombies(job.jobpid) = {} /\ UNCHANGED proc
             \/ \E p \in Zombies(job.jobpid) : Reap(p)
    /\ UNCHANGED <<jobid_next, bg_flag, pc, fails, ended, refused>>

\* func_jobs() has printed the entries that are left.
JobsDone ==
    /\ pc = "sweep" /\ cmd.slot \notin Slots /\ cmd.then = "jobs"
    /\ pc' = "prompt" /\ cmd' = Idle
    /\ UNCHANGED <<jobid_next, bg_flag, job_arr, proc, fails, ended, refused>>

NewEntry == [jobid |-> jobid_next, jobpid |-> cmd.child_pid]

\* The first free slot takes the job; with none the job is only complained about.
Record ==
    /\ pc = "sweep" /\ cmd.slot \notin Slots /\ cmd.then = "add"
    /\ \/ \E i \in Slots :
            /\ job_arr[i] = NULL /\ \A k \in 1 .. i - 1 : job_arr[k] # NULL
            /\ job_arr' = [job_arr EXCEPT ![i] = NewEntry]
            /\ UNCHANGED refused
       \/ /\ \A i \in Slots : job_arr[i] # NULL
          /\ refused' = refused \cup {jobid_next}
          /\ UNCHANGED job_arr
    /\ jobid_next' = jobid_next + 1
    /\ pc' = "prompt" /\ cmd' = Idle
    /\ UNCHANGED <<bg_flag, proc, fails, ended>>

func_jobs ==
    /\ \E c \in Lines : Reads("jobs", c)
    /\ pc' = "sweep" /\ cmd' = [Idle EXCEPT !.then = "jobs"]
    /\ UNCHANGED <<jobid_next, bg_flag, job_arr, proc, fails, ended, refused>>

(***************************************************************************)
(* wait: for a job id with its flag set, wait for the child of its entry,  *)
(* if the table still has one, and say that the job has terminated.  A     *)
(* word that is no number, or no background job's id, is only refused; the *)
(* flag of an id that bg_flag has no room for may be any byte behind it.   *)
(***************************************************************************)
func_wait ==
    \E c \in Lines :
        /\ Reads("wait", c) /\ c.number # NoNumber
        /\ c.number < jobid_next /\ (c.number \in bg_flag \/ c.number >= MAX_JID)
        /\ pc' = "waitpid" /\ cmd' = [Idle EXCEPT !.jobid = c.number]
        /\ UNCHANGED <<jobid_next, bg_flag, job_arr, proc, fails, ended, refused>>

\* A mutant: waitpid() with WNOHANG.
TerminatedAtOnce ==
    /\ pc = "waitpid" /\ pc' = "prompt" /\ cmd' = Idle
    /\ UNCHANGED <<jobid_next, bg_flag, job_arr, proc, fails, ended, refused>>

\* waitpid() without WNOHANG; the entry stays in the table.
Terminated ==
    /\ pc = "waitpid"
    /\ \/ /\ \A i \in Slots : job_arr[i].jobid # cmd.jobid
          /\ UNCHANGED proc
       \/ \E i \in Slots :
            /\ job_arr[i].jobid = cmd.jobid
            /\ \/ Children(job_arr[i].jobpid) = {} /\ UNCHANGED proc
               \/ \E p \in Zombies(job_arr[i].jobpid) : Reap(p)
    /\ pc' = "prompt" /\ cmd' = Idle
    /\ UNCHANGED <<jobid_next, bg_flag, job_arr, fails, ended, refused>>

(***************************************************************************)
(* Running a command.                                                      *)
(***************************************************************************)
\* fork() gives a pid no child has, or fails.
Fork(pid) ==
    \/ /\ pid \in Pids /\ proc[pid] = NoChild
       /\ proc' = [proc EXCEPT ![pid] = [st |-> "run", job |-> jobid_next]]
       /\ UNCHANGED <<fails, ended>>
    \/ /\ pid = ForkFailed /\ fails < MaxForkFail
       /\ fails' = fails + 1
       /\ ended' = ended \cup {jobid_next}
       /\ UNCHANGED proc

\* job_arr_add() for command c: with -1 arguments (a line such as "> &") it gets no room
\* for them and crashes; past the end of bg_flag it writes into other variables, and
\* nothing is said of the shell from then on; otherwise it sets the flag.
job_arr_add(c) ==
    \/ argc(c) < 0 /\ pc' = "abort" /\ UNCHANGED bg_flag
    \/ argc(c) >= 0 /\ jobid_next >= MAX_JID /\ pc' = "overrun" /\ UNCHANGED bg_flag
    \/ /\ argc(c) >= 0 /\ jobid_next < MAX_JID
       /\ pc' = "sweep" /\ bg_flag' = bg_flag \cup {jobid_next}

func_general_cmd ==
    \E c \in Lines, pid \in Pids \cup {ForkFailed} :
        /\ Reads("none", c) /\ jobid_next < MaxCommands
        /\ Fork(pid)
        /\ \/ c.bg_flag = 0 /\ pc' = "fgwait" /\ UNCHANGED bg_flag
           \/ c.bg_flag = 1 /\ job_arr_add(c)
        /\ cmd' = [Idle EXCEPT !.child_pid = pid, !.then = IF c.bg_flag = 1 THEN "add" ELSE "none"]
        /\ UNCHANGED <<jobid_next, job_arr, refused>>

\* A mutant: the loop goes on until no child is left.
ReapsEveryChild(tpid) == tpid = ForkFailed

\* do tpid = wait(&child_status) while (tpid != child_pid): any child is reaped.
LeavesLoop(tpid) == tpid = cmd.child_pid

FgWait ==
    /\ pc = "fgwait"
    /\ \E tpid \in Zombies(ForkFailed) \cup {ForkFailed} :
        /\ tpid = ForkFailed => Children(ForkFailed) = {}
        /\ IF tpid = ForkFailed THEN UNCHANGED proc ELSE Reap(tpid)
        /\ IF LeavesLoop(tpid)
           THEN /\ pc' = "prompt" /\ cmd' = Idle /\ jobid_next' = jobid_next + 1
           ELSE UNCHANGED <<pc, cmd, jobid_next>>
    /\ UNCHANGED <<bg_flag, job_arr, fails, ended, refused>>

\* The child runs its program, or execvp() fails; either way it may end at any time.
ChildEnds ==
    \E p \in Pids :
        /\ proc[p].st = "run"
        /\ proc' = [proc EXCEPT ![p].st = "zombie"]
        /\ ended' = ended \cup {proc[p].job}
        /\ UNCHANGED <<jobid_next, bg_flag, job_arr, pc, cmd, fails, refused>>

(***************************************************************************)
(* The end of the input and the exit command.  In batch mode exit_cleanup()*)
(* closes the batch file and frees the line once for every recorded job:   *)
(* with two the behaviour is undefined, and the shell may be aborted.      *)
(***************************************************************************)
exit_cleanup(outcome) ==
    /\ job_arr' = [i \in Slots |-> NULL]
    /\ \/ outcome = "exited"
       \/ outcome = "abort" /\ Cardinality({i \in Slots : job_arr[i] # NULL}) > 1

func_exit ==
    /\ pc = "prompt"       \* the exit command, or no line left
    /\ \E outcome \in {"exited", "abort"} : exit_cleanup(outcome) /\ pc' = outcome
    /\ UNCHANGED <<jobid_next, bg_flag, cmd, proc, fails, ended, refused>>

Gone == pc \in {"exited", "abort", "overrun"} /\ UNCHANGED vars

-------------------------------------------------------------------------------
Init ==
    /\ jobid_next = 0 /\ bg_flag = {} /\ job_arr = [i \in Slots |-> NULL]
    /\ pc = "prompt" /\ cmd = Idle
    /\ proc = [p \in Pids |-> NoChild] /\ fails = 0
    /\ ended = {} /\ refused = {}

ShellStep ==
    \/ SweepSlot \/ JobsDone \/ Record \/ func_jobs \/ func_wait \/ Terminated
    \/ func_general_cmd \/ FgWait \/ func_exit

Next == ShellStep \/ ChildEnds \/ Gone

Spec == Init /\ [][Next]_vars

\* The shell, a process of its own, is scheduled; its children may run for ever.
FairSpec == Spec /\ WF_vars(SweepSlot \/ JobsDone \/ Record \/ Terminated \/ FgWait)

-------------------------------------------------------------------------------
\* func_wait() says "JID n terminated" only of a job that has terminated: whatever
\* the foreground wait() reaped before, whichever pid came back and whatever byte it
\* read behind bg_flag, unless the job was one the full table refused.
WaitTruthful ==
    [][pc = "waitpid" /\ pc' = "prompt" => cmd.jobid \in ended \cup refused]_vars

\* Background jobs that still run, the one just being recorded left out.
RunningJobs ==
    {j \in bg_flag \ (ended \cup refused) : ~(pc = "sweep" /\ cmd.then = "add" /\ j = jobid_next)}

\* Until the shell ends or writes past bg_flag, every background job that still runs
\* has exactly one entry in job_arr, with the pid of its child, so that jobs lists it
\* and wait finds it: no sweep drops a live job, and no slot is used twice.
NothingLost ==
    pc \notin {"exited", "abort", "overrun"} =>
        \A j \in RunningJobs :
            /\ \E i \in Slots : /\ job_arr[i].jobid = j
                               /\ job_arr[i].jobpid \in Pids
                               /\ proc[job_arr[i].jobpid].job = j
            /\ Cardinality({i \in Slots : job_arr[i].jobid = j}) = 1

\* A foreground command whose child has ended comes back to the prompt, even when
\* its wait() loop first reaps background children or children that never end run
\* beside it.
ForegroundReturns ==
    \A p \in Pids :
        (pc = "fgwait" /\ cmd.child_pid = p /\ proc[p].st = "zombie") ~> (pc = "prompt")
===============================================================================
