------------------------------ MODULE ShellProofs ------------------------------
(***************************************************************************)
(* The shell's job table for every set of lines, every number of pids and  *)
(* every size of job_arr and bg_flag: NothingLost and WaitTruthful.  What a *)
(* line parses to plays no part: the argument is about the table, the       *)
(* children and the pids that come back.                                    *)
(***************************************************************************)
EXTENDS Shell, FiniteSetTheorems, TLAPS

TypeOK ==
  /\ jobid_next \in Nat
  /\ bg_flag \subseteq Nat
  /\ job_arr \in [Slots -> [jobid : Nat \cup {-1}, jobpid : Pids \cup {ForkFailed}]]
  /\ pc \in {"prompt", "sweep", "waitpid", "fgwait", "exited", "abort", "overrun"}
  /\ cmd \in [child_pid : Pids \cup {ForkFailed}, slot : Nat,
              then : {"none", "jobs", "add"}, jobid : Nat \cup {-1}]
  /\ proc \in [Pids -> [st : {"none", "run", "zombie"}, job : Nat \cup {-1}]]

(* An entry is empty or has a job id that was given out, and has it alone. *)
EntriesInv ==
  /\ \A i \in Slots : job_arr[i].jobid = -1 => job_arr[i] = NULL
  /\ \A i \in Slots : job_arr[i].jobid < jobid_next
  /\ \A i, k \in Slots : job_arr[i].jobid = job_arr[k].jobid /\ i # k => job_arr[i].jobid = -1

Runs(pid, j) == pid \in Pids /\ proc[pid] = [st |-> "run", job |-> j]

Adding == pc = "sweep" /\ cmd.then = "add"

(* A job without a flag that got its id has ended: it ran in the foreground. *)
Flagged(j) == j \in bg_flag \/ j \in ended

(* The child of the job that is being recorded runs until the job has ended; the *)
(* job that wait asks after and every earlier job is flagged or has ended; and   *)
(* the foreground loop waits for the child of the command in hand.               *)
CmdInv ==
  /\ Adding /\ jobid_next \notin ended => Runs(cmd.child_pid, jobid_next)
  /\ Adding => jobid_next \in bg_flag
  /\ pc = "waitpid" => Flagged(cmd.jobid)
  /\ pc = "fgwait" /\ jobid_next \notin ended => Runs(cmd.child_pid, jobid_next)

EarlierInv == \A j \in Nat : j < jobid_next => Flagged(j)

(* A job that still runs has an entry, whose pid is that of its running child. *)
JobsInv ==
  pc \notin {"exited", "abort", "overrun"} =>
    \A j \in RunningJobs : \E i \in Slots :
        job_arr[i].jobid = j /\ Runs(job_arr[i].jobpid, j)

IInv == TypeOK /\ EntriesInv /\ CmdInv /\ EarlierInv /\ JobsInv
-------------------------------------------------------------------------------
LEMMA InitHolds == Init => IInv
BY ShellAssumption DEF Init, IInv, TypeOK, EntriesInv, CmdInv, EarlierInv, JobsInv, RunningJobs, Adding,
  Idle, NULL, NoChild, ForkFailed, Slots

(* waitpid() answers a running child neither with an error nor by reaping it. *)
LEMMA RunningIsNotOver ==
  ASSUME IInv, NEW pid, NEW j, Runs(pid, j)
  PROVE  Children(pid) # {} /\ pid \notin Zombies(pid) /\ ~Over(pid)
BY ShellAssumption DEF Runs, Children, Zombies, Over, NoChild, ForkFailed

(* Reaping a zombie leaves every running child alone. *)
LEMMA ReapKeepsRunning ==
  ASSUME IInv, NEW pid, NEW z \in Zombies(pid), Reap(z)
  PROVE  /\ proc' \in [Pids -> [st : {"none", "run", "zombie"}, job : Nat \cup {-1}]]
         /\ \A p \in Pids : proc[p].st = "run" => proc'[p] = proc[p]
BY DEF IInv, TypeOK, Zombies, Children, Reap, NoChild

(* A job id more is given out, and that one is flagged or has ended. *)
LEMMA EarlierStep ==
  ASSUME IInv, \A j : Flagged(j) => Flagged(j)',
         jobid_next' = jobid_next \/ (jobid_next' = jobid_next + 1 /\ Flagged(jobid_next))
  PROVE  EarlierInv'
<1> SUFFICES ASSUME NEW j \in Nat, j < jobid_next' PROVE Flagged(j)'
  BY DEF EarlierInv
<1>1. CASE j < jobid_next
  BY <1>1 DEF IInv, EarlierInv
<1>2. CASE ~(j < jobid_next)
  <2>1. jobid_next' # jobid_next
    BY <1>2
  <2>2. jobid_next' = jobid_next + 1 /\ Flagged(jobid_next)
    BY <2>1
  <2>3. jobid_next \in Nat
    BY DEF IInv, TypeOK
  <2>4. j = jobid_next
    BY <1>2, <2>2, <2>3
  <2> QED BY <2>2, <2>4
<1> QED BY <1>1, <1>2

LEMMA SweepSlotStep == IInv /\ SweepSlot => IInv'
<1> SUFFICES ASSUME IInv, SweepSlot PROVE IInv'
  OBVIOUS
<1> USE DEF IInv
<1>1. PICK s \in Slots : s = cmd.slot
  BY DEF SweepSlot
<1>2. /\ proc' \in [Pids -> [st : {"none", "run", "zombie"}, job : Nat \cup {-1}]]
      /\ \A p \in Pids : proc[p].st = "run" => proc'[p] = proc[p]
  <2>1. CASE UNCHANGED proc
    BY <2>1 DEF TypeOK
  <2>2. CASE \E z \in Zombies(job_arr[s].jobpid) : Reap(z)
    BY <2>2, ReapKeepsRunning
  <2> QED BY <1>1, <2>1, <2>2 DEF SweepSlot
<1>3. /\ \A i \in Slots : job_arr'[i] = job_arr[i] \/ job_arr'[i] = NULL
      /\ \A i \in Slots, j \in Nat :
            job_arr[i].jobid = j /\ Runs(job_arr[i].jobpid, j) => job_arr'[i] = job_arr[i]
      /\ job_arr' \in [Slots -> [jobid : Nat \cup {-1}, jobpid : Pids \cup {ForkFailed}]]
  <2>1. CASE UNCHANGED job_arr
    BY <2>1 DEF TypeOK
  <2>2. CASE Over(job_arr[s].jobpid) /\ job_arr' = [job_arr EXCEPT ![s] = NULL]
    BY <2>2, RunningIsNotOver DEF TypeOK, NULL
  <2> QED BY <1>1, <2>1, <2>2 DEF SweepSlot
<1>4. cmd' = [cmd EXCEPT !.slot = @ + 1] /\ UNCHANGED <<jobid_next, bg_flag, pc, fails, ended, refused>>
  BY DEF SweepSlot
<1>5. TypeOK'
  <2>1. cmd' \in [child_pid : Pids \cup {ForkFailed}, slot : Nat,
                  then : {"none", "jobs", "add"}, jobid : Nat \cup {-1}]
    <3>1. cmd.slot + 1 \in Nat
      BY DEF TypeOK
    <3>2. PICK n \in Nat : n = cmd.slot + 1
      BY <3>1
    <3>3. cmd' = [cmd EXCEPT !.slot = n]
      BY <1>4, <3>2
    <3> QED BY <3>3 DEF TypeOK
  <2> QED BY <1>2, <1>3, <1>4, <2>1 DEF TypeOK
<1>6. EntriesInv'
  <2>1. NULL.jobid = -1 /\ jobid_next \in Nat /\ jobid_next' = jobid_next
    BY <1>4 DEF NULL, TypeOK
  <2>2. \A i \in Slots : job_arr'[i].jobid = -1 => job_arr'[i] = NULL
    BY <1>3 DEF EntriesInv
  <2>3. \A i \in Slots : job_arr'[i].jobid < jobid_next
    BY <1>3, <2>1 DEF EntriesInv
  <2>4. \A i, k \in Slots : job_arr'[i].jobid = job_arr'[k].jobid /\ i # k => job_arr'[i].jobid = -1
    BY <1>3, <2>1 DEF EntriesInv
  <2> QED BY <2>1, <2>2, <2>3, <2>4 DEF EntriesInv
<1>7. CmdInv'
  <2>1. cmd'.then = cmd.then /\ cmd'.child_pid = cmd.child_pid /\ cmd'.jobid = cmd.jobid
    BY <1>4 DEF TypeOK
  <2> QED BY <1>2, <1>4, <2>1 DEF CmdInv, Adding, Runs, Flagged, SweepSlot
<1>9. EarlierInv'
  BY <1>4 DEF EarlierInv, Flagged
<1>8. JobsInv'
  <2>1. RunningJobs' = RunningJobs
    BY <1>4 DEF RunningJobs, TypeOK
  <2>2. \A i \in Slots, j \in Nat : job_arr[i].jobid = j /\ Runs(job_arr[i].jobpid, j) =>
           job_arr'[i].jobid = j /\ Runs(job_arr[i].jobpid, j)'
    BY <1>2, <1>3 DEF Runs
  <2>3. RunningJobs \subseteq Nat /\ pc' = pc
    BY <1>4 DEF RunningJobs, TypeOK
  <2> QED BY <2>1, <2>2, <2>3 DEF JobsInv
<1> QED BY <1>5, <1>6, <1>7, <1>8, <1>9

LEMMA JobsDoneStep == IInv /\ JobsDone => IInv'
BY DEF JobsDone, IInv, TypeOK, EntriesInv, CmdInv, EarlierInv, Flagged, JobsInv, RunningJobs, Adding, Runs, Idle

LEMMA FuncJobsStep == IInv /\ func_jobs => IInv'
<1> SUFFICES ASSUME IInv, func_jobs PROVE IInv'
  OBVIOUS
<1>1. /\ pc = "prompt" /\ pc' = "sweep" /\ cmd' = [Idle EXCEPT !.then = "jobs"]
      /\ UNCHANGED <<jobid_next, bg_flag, job_arr, proc, fails, ended, refused>>
  BY DEF func_jobs, Reads
<1> QED BY <1>1 DEF IInv, TypeOK, EntriesInv, CmdInv, EarlierInv, Flagged, JobsInv, RunningJobs, Adding, Runs, Idle

LEMMA FuncWaitStep == IInv /\ func_wait => IInv'
<1> SUFFICES ASSUME IInv, func_wait PROVE IInv'
  OBVIOUS
<1>1. PICK c \in Lines :
        /\ pc = "prompt" /\ c.number # NoNumber /\ c.number < jobid_next
        /\ pc' = "waitpid" /\ cmd' = [Idle EXCEPT !.jobid = c.number]
        /\ UNCHANGED <<jobid_next, bg_flag, job_arr, proc, fails, ended, refused>>
  BY DEF func_wait, Reads
<1>2. c.number \in Nat
  BY <1>1, ShellAssumption DEF Line
<1>3. PICK n \in Nat : n = c.number
  BY <1>2
<1>4. cmd' = [child_pid |-> ForkFailed, slot |-> 1, then |-> "none", jobid |-> n]
  BY <1>1, <1>3 DEF Idle
<1>5. Flagged(n) /\ Flagged(n)'
  BY <1>1, <1>3 DEF IInv, EarlierInv, Flagged
<1>6. TypeOK'
  <2>1. cmd' \in [child_pid : Pids \cup {ForkFailed}, slot : Nat,
                  then : {"none", "jobs", "add"}, jobid : Nat \cup {-1}]
    BY <1>4
  <2> QED BY <1>1, <2>1 DEF IInv, TypeOK
<1>7. CmdInv'
  BY <1>1, <1>4, <1>5 DEF CmdInv, Adding
<1> QED BY <1>1, <1>6, <1>7
        DEF IInv, EntriesInv, EarlierInv, Flagged, JobsInv, RunningJobs, Adding, Runs

LEMMA RecordStep == IInv /\ Record => IInv'
<1> SUFFICES ASSUME IInv, Record PROVE IInv'
  OBVIOUS
<1> USE DEF IInv
<1>0. /\ Adding /\ jobid_next' = jobid_next + 1 /\ pc' = "prompt" /\ cmd' = Idle
      /\ UNCHANGED <<bg_flag, proc, fails, ended>>
  BY DEF Record, Adding
<1>1. CmdInv' /\ EarlierInv'
  <2>1. CmdInv'
    BY <1>0 DEF CmdInv, Adding
  <2>2. Flagged(jobid_next)
    BY <1>0 DEF CmdInv, Flagged
  <2>3. EarlierInv'
    <3>1. \A j : Flagged(j) => Flagged(j)'
      BY <1>0 DEF Flagged
    <3> QED BY <1>0, <2>2, <3>1, EarlierStep
  <2> QED BY <2>1, <2>3
<1>2. CASE \E i \in Slots : /\ job_arr[i] = NULL
                            /\ job_arr' = [job_arr EXCEPT ![i] = NewEntry]
                            /\ UNCHANGED refused
  <2>1. PICK i \in Slots : /\ job_arr[i] = NULL
                           /\ job_arr' = [job_arr EXCEPT ![i] = NewEntry]
                           /\ UNCHANGED refused
    BY <1>2
  <2>2. NewEntry \in [jobid : Nat \cup {-1}, jobpid : Pids \cup {ForkFailed}]
    BY DEF NewEntry, TypeOK
  <2>3. \A k \in Slots : job_arr'[k] = IF k = i THEN NewEntry ELSE job_arr[k]
    BY <2>1 DEF TypeOK
  <2>4. TypeOK'
    BY <1>0, <2>1, <2>2 DEF TypeOK, Idle, ForkFailed
  <2>5. EntriesInv'
    <3>1. jobid_next \in Nat /\ jobid_next' = jobid_next + 1
      BY <1>0 DEF TypeOK
    <3>2. NewEntry.jobid = jobid_next
      BY DEF NewEntry
    <3>3. \A k \in Slots : job_arr[k].jobid \in Nat \cup {-1} /\ job_arr[k].jobid < jobid_next
      BY DEF TypeOK, EntriesInv
    <3>4. \A k \in Slots : job_arr'[k].jobid = IF k = i THEN jobid_next ELSE job_arr[k].jobid
      BY <2>3, <3>2
    <3>5. \A k \in Slots : job_arr'[k].jobid = -1 => job_arr'[k] = NULL
      BY <2>3, <3>1, <3>2 DEF EntriesInv
    <3>6. \A k \in Slots : job_arr'[k].jobid < jobid_next'
      BY <3>1, <3>3, <3>4
    <3>7. \A k, m \in Slots : job_arr'[k].jobid = job_arr'[m].jobid /\ k # m => job_arr'[k].jobid = -1
      BY <3>1, <3>3, <3>4 DEF EntriesInv
    <3> QED BY <3>5, <3>6, <3>7 DEF EntriesInv
  <2>6. JobsInv'
    <3> SUFFICES ASSUME NEW j \in RunningJobs'
                 PROVE  \E k \in Slots : job_arr'[k].jobid = j /\ Runs(job_arr[k].jobpid, j)'
      BY DEF JobsInv
    <3>1. CASE j = jobid_next
      <4>1. Runs(cmd.child_pid, jobid_next)
        BY <3>1, <1>0 DEF RunningJobs, CmdInv
      <4>2. job_arr'[i] = NewEntry
        BY <2>3
      <4> QED BY <3>1, <4>1, <4>2, <1>0 DEF NewEntry, Runs
    <3>2. CASE j # jobid_next
      <4>1. j \in RunningJobs
        BY <3>2, <1>0, <2>1 DEF RunningJobs
      <4>2. PICK k \in Slots : job_arr[k].jobid = j /\ Runs(job_arr[k].jobpid, j)
        BY <4>1, <1>0 DEF JobsInv, Adding
      <4>3. k # i
        BY <4>1, <4>2, <2>1 DEF NULL, RunningJobs, TypeOK
      <4> QED BY <4>2, <4>3, <2>3, <1>0 DEF Runs
    <3> QED BY <3>1, <3>2
  <2> QED BY <2>4, <2>5, <2>6, <1>1
<1>3. CASE refused' = refused \cup {jobid_next} /\ UNCHANGED job_arr
  <2>4. TypeOK'
    BY <1>0, <1>3 DEF TypeOK, Idle, ForkFailed
  <2>5. EntriesInv'
    BY <1>0, <1>3 DEF EntriesInv, TypeOK
  <2>6. JobsInv'
    <3>1. RunningJobs' \subseteq RunningJobs
      BY <1>0, <1>3 DEF RunningJobs
    <3> QED BY <3>1, <1>0, <1>3 DEF JobsInv, Runs, Adding
  <2> QED BY <2>4, <2>5, <2>6, <1>1
<1> QED BY <1>2, <1>3 DEF Record

(* The three steps that end a command at the prompt: what reaping does there. *)
LEMMA PromptAfterReap ==
  ASSUME IInv, pc \in {"waitpid", "fgwait"}, pc' \in {"prompt", "fgwait"},
         pc' = "prompt" => cmd' = Idle, pc' # "prompt" => cmd' = cmd,
         pc' = "fgwait" => pc = "fgwait" /\ jobid_next' = jobid_next,
         jobid_next' = jobid_next \/ (jobid_next' = jobid_next + 1 /\ Flagged(jobid_next)),
         UNCHANGED <<bg_flag, job_arr, fails, ended, refused>>,
         \/ UNCHANGED proc
         \/ \E pid : \E z \in Zombies(pid) : Reap(z)
  PROVE  IInv'
<1> USE DEF IInv
<1>1. /\ proc' \in [Pids -> [st : {"none", "run", "zombie"}, job : Nat \cup {-1}]]
      /\ \A p \in Pids : proc[p].st = "run" => proc'[p] = proc[p]
  <2>1. CASE UNCHANGED proc
    BY <2>1 DEF TypeOK
  <2>2. CASE \E pid : \E z \in Zombies(pid) : Reap(z)
    BY <2>2, ReapKeepsRunning
  <2> QED BY <2>1, <2>2
<1>2. TypeOK'
  BY <1>1 DEF TypeOK, Idle, ForkFailed
<1>3. EntriesInv'
  BY DEF EntriesInv, TypeOK
<1>4. CmdInv'
  BY <1>1 DEF CmdInv, Adding, Runs
<1>6. EarlierInv'
  <2>1. \A j : Flagged(j) => Flagged(j)'
    BY DEF Flagged
  <2> QED BY <2>1, EarlierStep
<1>5. JobsInv'
  <2>1. RunningJobs' = RunningJobs
    BY DEF RunningJobs
  <2>2. \A i \in Slots, j \in Nat : Runs(job_arr[i].jobpid, j) => Runs(job_arr[i].jobpid, j)'
    BY <1>1 DEF Runs
  <2> QED BY <2>1, <2>2 DEF JobsInv, RunningJobs, TypeOK
<1> QED BY <1>2, <1>3, <1>4, <1>5, <1>6

LEMMA TerminatedStep == IInv /\ Terminated => IInv'
<1> SUFFICES ASSUME IInv, Terminated PROVE IInv'
  OBVIOUS
<1>1. UNCHANGED proc \/ \E pid : \E z \in Zombies(pid) : Reap(z)
  BY DEF Terminated
<1>2. /\ pc = "waitpid" /\ pc' = "prompt" /\ cmd' = Idle
      /\ UNCHANGED <<jobid_next, bg_flag, job_arr, fails, ended, refused>>
  BY DEF Terminated
<1>3. pc \in {"waitpid", "fgwait"} /\ pc' \in {"prompt", "fgwait"} /\ ~(pc' = "fgwait")
  BY <1>2
<1> QED BY <1>1, <1>2, <1>3, PromptAfterReap

LEMMA FgWaitStep == IInv /\ FgWait => IInv'
<1> SUFFICES ASSUME IInv, FgWait PROVE IInv'
  OBVIOUS
<1>1. UNCHANGED proc \/ \E pid : \E z \in Zombies(pid) : Reap(z)
  BY DEF FgWait
<1>2. /\ pc = "fgwait" /\ pc' \in {"prompt", "fgwait"}
      /\ pc' = "prompt" => cmd' = Idle
      /\ pc' # "prompt" => cmd' = cmd
      /\ pc' = "fgwait" => jobid_next' = jobid_next
      /\ UNCHANGED <<bg_flag, job_arr, fails, ended, refused>>
  BY DEF FgWait
<1>3. jobid_next' = jobid_next \/ (jobid_next' = jobid_next + 1 /\ Flagged(jobid_next))
  <2>1. CASE UNCHANGED jobid_next
    BY <2>1
  <2>2. CASE \E tpid \in Zombies(ForkFailed) \cup {ForkFailed} :
               tpid = cmd.child_pid /\ jobid_next' = jobid_next + 1
    <3>1. proc[cmd.child_pid].st = "zombie" \/ cmd.child_pid \notin Pids
      BY <2>2, ShellAssumption DEF Zombies
    <3>2. ~Runs(cmd.child_pid, jobid_next)
      BY <3>1 DEF Runs
    <3> QED BY <2>2, <3>2 DEF FgWait, CmdInv, Flagged, IInv
  <2> QED BY <2>1, <2>2 DEF FgWait, LeavesLoop
<1> QED BY <1>1, <1>2, <1>3, PromptAfterReap

LEMMA FuncGeneralCmdStep == IInv /\ func_general_cmd => IInv'
<1> SUFFICES ASSUME IInv, func_general_cmd PROVE IInv'
  OBVIOUS
<1> USE DEF IInv
<1>1. PICK c \in Lines, pid \in Pids \cup {ForkFailed} :
        /\ pc = "prompt" /\ Fork(pid)
        /\ \/ c.bg_flag = 0 /\ pc' = "fgwait" /\ UNCHANGED bg_flag
           \/ c.bg_flag = 1 /\ job_arr_add(c)
        /\ cmd' = [Idle EXCEPT !.child_pid = pid, !.then = IF c.bg_flag = 1 THEN "add" ELSE "none"]
        /\ UNCHANGED <<jobid_next, job_arr, refused>>
  BY DEF func_general_cmd, Reads
<1>2. PICK th \in {"none", "add"} :
        cmd' = [child_pid |-> pid, slot |-> 1, then |-> th, jobid |-> -1]
  BY <1>1 DEF Idle
<1>0. /\ pc' \in {"fgwait", "sweep", "abort", "overrun"}
      /\ pc' = "sweep" => bg_flag' = bg_flag \cup {jobid_next}
      /\ pc' # "sweep" => bg_flag' = bg_flag
      /\ pc' = "sweep" => th = "add"
  <2>1. cmd'.then = IF c.bg_flag = 1 THEN "add" ELSE "none"
    BY <1>1 DEF Idle
  <2>2. cmd'.then = th
    BY <1>2
  <2> QED BY <1>1, <2>1, <2>2 DEF job_arr_add
<1>3. /\ proc' \in [Pids -> [st : {"none", "run", "zombie"}, job : Nat \cup {-1}]]
      /\ \A p \in Pids : proc[p].st = "run" => proc'[p] = proc[p]
      /\ pid \in Pids => Runs(pid, jobid_next)'
      /\ pid = ForkFailed => jobid_next \in ended'
      /\ ended \subseteq ended'
  <2>1. CASE /\ pid \in Pids /\ proc[pid] = NoChild
             /\ proc' = [proc EXCEPT ![pid] = [st |-> "run", job |-> jobid_next]]
             /\ UNCHANGED <<fails, ended>>
    BY <2>1, <1>1, ShellAssumption DEF TypeOK, NoChild, Runs, ForkFailed
  <2>2. CASE /\ pid = ForkFailed
             /\ ended' = ended \cup {jobid_next}
             /\ UNCHANGED proc
    BY <2>2, ShellAssumption DEF TypeOK, ForkFailed
  <2> QED BY <1>1, <2>1, <2>2 DEF Fork
<1>4. TypeOK'
  <2>1. cmd' \in [child_pid : Pids \cup {ForkFailed}, slot : Nat,
                  then : {"none", "jobs", "add"}, jobid : Nat \cup {-1}]
    BY <1>2
  <2>2. bg_flag' \subseteq Nat
    BY <1>0 DEF TypeOK
  <2> QED BY <1>0, <1>1, <1>3, <2>1, <2>2 DEF TypeOK
<1>5. EntriesInv'
  BY <1>1 DEF EntriesInv
<1>6. CmdInv'
  <2>1. cmd'.child_pid = pid /\ jobid_next' = jobid_next
    BY <1>1, <1>2
  <2>2. jobid_next' \notin ended' => Runs(cmd.child_pid, jobid_next)'
    BY <2>1, <1>3, <1>1 DEF Runs
  <2>3. Adding' => jobid_next' \in bg_flag'
    BY <2>1, <1>0 DEF Adding
  <2> QED BY <1>0, <2>2, <2>3 DEF CmdInv
<1>7. EarlierInv'
  BY <1>0, <1>1, <1>3 DEF EarlierInv, Flagged
<1>8. JobsInv'
  <2> SUFFICES ASSUME pc' \in {"fgwait", "sweep"} PROVE JobsInv'
    BY <1>0 DEF JobsInv
  <2>1. RunningJobs' \subseteq RunningJobs
    BY <1>0, <1>1, <1>2, <1>3 DEF RunningJobs
  <2>2. \A i \in Slots, j \in Nat : Runs(job_arr[i].jobpid, j) => Runs(job_arr[i].jobpid, j)'
    BY <1>1, <1>3 DEF Runs
  <2>3. RunningJobs \subseteq Nat /\ pc = "prompt" /\ job_arr' = job_arr
    BY <1>1 DEF RunningJobs, TypeOK
  <2> QED BY <2>1, <2>2, <2>3 DEF JobsInv
<1> QED BY <1>4, <1>5, <1>6, <1>7, <1>8

LEMMA ChildEndsStep == IInv /\ ChildEnds => IInv'
<1> SUFFICES ASSUME IInv, ChildEnds PROVE IInv'
  OBVIOUS
<1> USE DEF IInv
<1>1. PICK p \in Pids :
        /\ proc[p].st = "run"
        /\ proc' = [proc EXCEPT ![p].st = "zombie"]
        /\ ended' = ended \cup {proc[p].job}
        /\ UNCHANGED <<jobid_next, bg_flag, job_arr, pc, cmd, fails, refused>>
  BY DEF ChildEnds
<1>2. TypeOK'
  BY <1>1 DEF TypeOK
<1>3. EntriesInv'
  BY <1>1 DEF EntriesInv
<1>4. \A r \in Pids : \A j : Runs(r, j) /\ j \notin ended' => Runs(r, j)'
  BY <1>1 DEF Runs, TypeOK
<1>5. CmdInv'
  <2>1. Runs(cmd.child_pid, jobid_next) /\ jobid_next \notin ended' => Runs(cmd.child_pid, jobid_next)'
    BY <1>1, <1>4 DEF Runs
  <2> QED BY <1>1, <2>1 DEF CmdInv, Adding, Flagged
<1>7. EarlierInv'
  BY <1>1 DEF EarlierInv, Flagged
<1>6. JobsInv'
  <2>1. RunningJobs' \subseteq RunningJobs /\ \A j \in RunningJobs' : j \notin ended'
    BY <1>1 DEF RunningJobs
  <2> SUFFICES ASSUME pc \notin {"exited", "abort", "overrun"}, NEW j \in RunningJobs'
               PROVE  \E i \in Slots : job_arr'[i].jobid = j /\ Runs(job_arr[i].jobpid, j)'
    BY <1>1 DEF JobsInv
  <2>2. PICK i \in Slots : job_arr[i].jobid = j /\ Runs(job_arr[i].jobpid, j)
    BY <2>1 DEF JobsInv
  <2>3. PICK r \in Pids : r = job_arr[i].jobpid
    BY <2>2 DEF Runs
  <2>4. Runs(r, j)'
    BY <1>4, <2>1, <2>2, <2>3
  <2>5. job_arr' = job_arr
    BY <1>1
  <2> QED BY <2>2, <2>3, <2>4, <2>5
<1> QED BY <1>2, <1>3, <1>5, <1>6, <1>7

LEMMA FuncExitStep == IInv /\ func_exit => IInv'
<1> SUFFICES ASSUME IInv, func_exit PROVE IInv'
  OBVIOUS
<1>1. /\ pc' \in {"exited", "abort"} /\ job_arr' = [i \in Slots |-> NULL]
      /\ UNCHANGED <<jobid_next, bg_flag, cmd, proc, fails, ended, refused>>
  BY DEF func_exit, exit_cleanup
<1> QED BY <1>1 DEF IInv, TypeOK, EntriesInv, CmdInv, EarlierInv, Flagged, JobsInv, Adding, NULL

LEMMA NextStep == IInv /\ [Next]_vars => IInv'
<1> SUFFICES ASSUME IInv, [Next]_vars PROVE IInv'
  OBVIOUS
<1>1. CASE UNCHANGED vars
  BY <1>1 DEF IInv, TypeOK, EntriesInv, CmdInv, EarlierInv, Flagged, JobsInv, RunningJobs, Adding, Runs, vars
<1>2. CASE ShellStep
  BY <1>2, SweepSlotStep, JobsDoneStep, RecordStep, FuncJobsStep, FuncWaitStep, TerminatedStep,
     FuncGeneralCmdStep, FgWaitStep, FuncExitStep DEF ShellStep
<1> QED BY <1>1, <1>2, ChildEndsStep DEF Next, Gone
-------------------------------------------------------------------------------
(* The table, the children and the command in hand stay consistent: an entry is *)
(* never shared, and every background job that still runs has an entry with the *)
(* pid of its running child, however often the kernel hands out a pid again; and *)
(* every job id given out belongs to a background job or to one that has ended.  *)
THEOREM ShellInvariant == Spec => []IInv
BY InitHolds, NextStep, PTL DEF Spec

(* Until the shell ends, or writes past the end of bg_flag at job MAX_JID, no    *)
(* background job that still runs loses its one entry in job_arr: neither the sweeps of func_jobs() and job_arr_add() nor the       *)
(* foreground wait() that reaps whatever it finds drops or doubles it.           *)
THEOREM NoJobLost == Spec => []NothingLost
<1>1. IInv => NothingLost
  <2> SUFFICES ASSUME IInv, pc \notin {"exited", "abort", "overrun"}, NEW j \in RunningJobs
               PROVE  /\ \E i \in Slots : /\ job_arr[i].jobid = j
                                          /\ job_arr[i].jobpid \in Pids
                                          /\ proc[job_arr[i].jobpid].job = j
                      /\ Cardinality({i \in Slots : job_arr[i].jobid = j}) = 1
    BY DEF NothingLost
  <2>1. PICK i \in Slots : job_arr[i].jobid = j /\ Runs(job_arr[i].jobpid, j)
    BY DEF IInv, JobsInv
  <2>2. j # -1
    BY DEF RunningJobs, IInv, TypeOK
  <2>3. {k \in Slots : job_arr[k].jobid = j} = {i}
    BY <2>1, <2>2 DEF IInv, EntriesInv
  <2>4. Cardinality({k \in Slots : job_arr[k].jobid = j}) = 1
    BY <2>3, FS_Singleton
  <2> QED BY <2>1, <2>4 DEF Runs
<1> QED BY <1>1, ShellInvariant, PTL

(* func_wait() reports a job as terminated only when it has terminated, or when *)
(* the full table had refused it: its waitpid() cannot be answered by the child *)
(* of another job that got the same pid, and a job past the end of bg_flag ran   *)
(* in the foreground and has ended, whatever byte is read for its flag.          *)
THEOREM WaitTellsTheTruth == Spec => WaitTruthful
<1>1. IInv /\ [Next]_vars => [pc = "waitpid" /\ pc' = "prompt" => cmd.jobid \in ended \cup refused]_vars
  <2> SUFFICES ASSUME IInv, Next, pc = "waitpid", pc' = "prompt", cmd.jobid \notin ended \cup refused
               PROVE  FALSE
    BY DEF vars
  <2>1. Terminated
    BY DEF Next, ShellStep, SweepSlot, JobsDone, Record, func_jobs, func_wait, func_general_cmd,
       FgWait, func_exit, ChildEnds, Gone, Reads, vars
  <2>2. cmd.jobid \in RunningJobs
    BY DEF RunningJobs, IInv, CmdInv, Flagged
  <2>3. PICK i \in Slots : job_arr[i].jobid = cmd.jobid /\ Runs(job_arr[i].jobpid, cmd.jobid)
    BY <2>2 DEF IInv, JobsInv
  <2>4. \A k \in Slots : job_arr[k].jobid = cmd.jobid => k = i
    BY <2>2, <2>3 DEF IInv, EntriesInv, RunningJobs, TypeOK
  <2>5. Children(job_arr[i].jobpid) # {} /\ Zombies(job_arr[i].jobpid) = {}
    BY <2>3, ShellAssumption DEF Runs, Children, Zombies, NoChild, ForkFailed
  <2> QED BY <2>1, <2>3, <2>4, <2>5 DEF Terminated
<1> QED BY <1>1, ShellInvariant, PTL DEF Spec, WaitTruthful
===============================================================================
