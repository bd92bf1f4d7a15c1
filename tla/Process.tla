------------------------------ MODULE Process ------------------------------
(***************************************************************************)
(* features/process/process.c over pm and sm.  Starting a program lends it *)
(* the session of hid:dbg and a system memory boost; taking them back is   *)
(* triggered by g_last_pid, the one launch the server remembers.           *)
(*                                                                         *)
(* pm is external: a process has a pid, never reused, and a program.  A    *)
(* terminated process is dying: it keeps its sessions and its program id   *)
(* resolves until it is reaped.  Processes up to BootPids were started by  *)
(* boot2 and found hid:dbg taken; the later ones may open it.              *)
(***************************************************************************)
EXTENDS Input

CONSTANTS
    Programs,    \* program ids
    NoProgram,
    BootPids,    \* bound: pids of processes that run since boot
    MaxPid       \* bound: pids in all

ASSUME ProcessAssumption ==
    /\ BootPids \in Nat
    /\ MaxPid \in Nat
    /\ BootPids <= MaxPid
    /\ NoProgram \notin Programs
    /\ Reliable \in BOOLEAN
    /\ Server # Nobody
    /\ Server \notin 1..MaxPid
    /\ Nobody \notin 1..MaxPid

VARIABLES
    program,             \* external: pid -> the program that runs, or NoProgram
    dying,               \* external: terminated, not reaped
    last_issued,         \* external: the last pid pm gave
    g_last_pid,
    g_last_program_id,
    g_boosted

pmVars == <<program, dying, last_issued>>
loanVars == <<hiddbg, g_last_pid, g_last_program_id, g_boosted>>

Pids == 1..MaxPid
Running == {i \in Pids : program[i] # NoProgram}
Launched == {i \in Running : i > BootPids}

ProcessInit ==
    /\ program \in [Pids -> Programs \cup {NoProgram}]
    /\ \A i \in Running : i <= BootPids
    /\ \A i, j \in Running : program[i] = program[j] => i = j
    /\ dying = {}
    /\ last_issued = BootPids
    /\ g_last_pid = 0
    /\ g_last_program_id = NoProgram
    /\ g_boosted = FALSE

-----------------------------------------------------------------------------
(* pm and the programs. *)

\* A program opens hid:dbg, once it starts or later.
OpenHiddbg(i) ==
    /\ i \in Launched \ dying
    /\ hiddbg = Nobody
    /\ hiddbg' = i
    /\ UNCHANGED <<pmVars, g_last_pid, g_last_program_id, g_boosted>>

\* A process ends, by itself or because it was terminated.
Exit(i) ==
    /\ i \in Running
    /\ program' = [program EXCEPT ![i] = NoProgram]
    /\ dying' = dying \ {i}
    /\ hiddbg' = IF hiddbg = i THEN Nobody ELSE hiddbg
    /\ UNCHANGED <<last_issued, g_last_pid, g_last_program_id, g_boosted>>

-----------------------------------------------------------------------------
(* process.c. *)

\* Only a closed session is reopened, and once: a failure is logged.
reopen_hiddbg ==
    hiddbg' \in IF hiddbg = Nobody
                THEN {IF ok THEN Server ELSE Nobody : ok \in Answers}
                ELSE {hiddbg}

\* set_boost(0) when boosted.
release_boost ==
    \E ok \in Answers : g_boosted' = (g_boosted /\ ~ok)

\* Faulty: the boost is kept.
FaultyTakeBackBoost ==
    /\ g_last_pid' = 0
    /\ reopen_hiddbg
    /\ UNCHANGED <<g_last_program_id, g_boosted>>

take_back ==
    /\ g_last_pid' = 0
    /\ release_boost
    /\ reopen_hiddbg
    /\ UNCHANGED g_last_program_id

\* The pid found, 0 when the program does not run or pm:info does not answer.
find_pid(p, pid) ==
    \/ pid \in Running /\ program[pid] = p
    \/ pid = 0 /\ \A i \in Running : program[i] # p
    \/ pid = 0 /\ FALSE \in Answers

\* Faulty: a program the server did not launch is taken not to run.
FaultyStatus(p, pid) ==
    \/ /\ g_last_pid # 0 /\ g_last_program_id = p
       /\ \/ /\ program[g_last_pid] = p
             /\ pid = g_last_pid
             /\ UNCHANGED loanVars
          \/ /\ program[g_last_pid] # p
             /\ pid = 0
             /\ take_back
    \/ /\ g_last_pid = 0 \/ g_last_program_id # p
       /\ pid = 0
       /\ UNCHANGED loanVars

\* The pid process_status reports, 0 for a program that does not run.
process_status(p, pid) ==
    \/ /\ g_last_pid # 0 /\ g_last_program_id = p
       /\ \/ /\ FALSE \in Answers              \* open_pminfo fails
             /\ pid = 0
             /\ UNCHANGED loanVars
          \/ /\ program[g_last_pid] = p
             /\ pid = g_last_pid
             /\ UNCHANGED loanVars
          \/ /\ program[g_last_pid] # p \/ FALSE \in Answers
             /\ pid = 0
             /\ take_back
    \/ /\ g_last_pid = 0 \/ g_last_program_id # p
       /\ find_pid(p, pid)
       /\ UNCHANGED loanVars

\* Faulty: the loan is taken back without a look at the program.
FaultyReclaimAlways ==
    \/ g_last_pid = 0 /\ UNCHANGED loanVars
    \/ g_last_pid # 0 /\ take_back

\* Faulty: the hook is not registered.
FaultyReclaimNever == UNCHANGED loanVars

process_reclaim ==
    \/ /\ g_last_pid = 0
       /\ UNCHANGED loanVars
    \/ /\ g_last_pid # 0
       /\ \E pid \in 0..MaxPid : process_status(g_last_program_id, pid)

\* Faulty: hid:dbg is handed over with the controller attached.
FaultyLend ==
    /\ \E ok \in Answers : g_boosted' = (g_boosted \/ ok)
    /\ hiddbg' = IF hiddbg = Server THEN Nobody ELSE hiddbg
    /\ UNCHANGED <<inputVars, g_last_pid, g_last_program_id>>

\* process_start up to the launch: the boost, input_suspend, hiddbgExit.
lend ==
    /\ \E ok \in Answers : g_boosted' = (g_boosted \/ ok)
    /\ input_suspend
    /\ hiddbg' = IF hiddbg = Server THEN Nobody ELSE hiddbg
    /\ UNCHANGED <<g_last_pid, g_last_program_id>>

\* pmshellLaunchProgram and what process_start does with its result.
launch(p) ==
    \/ /\ last_issued < MaxPid
       /\ last_issued' = last_issued + 1
       /\ program' = [program EXCEPT ![last_issued + 1] = p]
       /\ g_last_pid' = last_issued + 1
       /\ g_last_program_id' = p
       /\ UNCHANGED <<dying, hiddbg, g_boosted>>
    \/ /\ release_boost
       /\ reopen_hiddbg
       /\ UNCHANGED <<pmVars, g_last_pid, g_last_program_id>>

\* pmshellTerminateProgram.  The process may be gone since it was looked up.
terminate(p, ok) ==
    \/ /\ ok
       /\ \E i \in Running : program[i] = p /\ dying' = dying \cup {i}
       /\ UNCHANGED <<program, last_issued>>
    \/ /\ ~ok
       /\ FALSE \in Answers \/ \A i \in Running : program[i] # p
       /\ UNCHANGED pmVars
=============================================================================
