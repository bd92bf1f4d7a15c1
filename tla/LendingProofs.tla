--------------------------- MODULE LendingProofs ---------------------------
(***************************************************************************)
(* Theorems about Lending, for any programs, controls and numbers of       *)
(* processes.                                                              *)
(***************************************************************************)
EXTENDS Lending, TLAPS

-----------------------------------------------------------------------------
(* Types. *)

\* A handler step that goes on or returns keeps the request's types.
LEMMA FlowType ==
    ASSUME TypeOK, pc # "idle", NEW l \in Labels, Goto(l) \/ Done
    PROVE  RequestTypes'
BY DEF TypeOK, RequestTypes, Goto, Done, reqVars, Labels

LEMMA AnswersType == Answers \subseteq BOOLEAN /\ HidAnswers \subseteq BOOLEAN
BY DEF Answers, HidAnswers

LEMMA TakeBackType ==
    ASSUME TypeOK, take_back
    PROVE  LoanTypes' /\ g_boosted' \in BOOLEAN
<1>1. hiddbg' \in {Server, Nobody} \cup Pids
  BY DEF take_back, reopen_hiddbg, TypeOK, LoanTypes
<1>2. g_boosted' \in BOOLEAN
  BY AnswersType, Zenon DEF take_back, release_boost, TypeOK, Flags
<1>3. g_last_pid' \in 0..MaxPid
  BY ProcessAssumption DEF take_back
<1>4. QED
  BY <1>1, <1>2, <1>3 DEF take_back, LoanTypes, TypeOK

LEMMA StatusType ==
    ASSUME TypeOK, NEW p, NEW pid, process_status(p, pid)
    PROVE  LoanTypes' /\ g_boosted' \in BOOLEAN
<1>1. CASE take_back
  BY <1>1, TakeBackType
<1>2. CASE UNCHANGED loanVars
  BY <1>2 DEF loanVars, LoanTypes, TypeOK, Flags
<1>3. QED
  BY <1>1, <1>2 DEF process_status

\* What an action leaves alone keeps its type.
LEMMA UnchangedTypes ==
    ASSUME TypeOK
    PROVE  /\ UNCHANGED padVars => PadTypes' /\ g_workbuf_attached' \in BOOLEAN
                                             /\ g_attached' \in BOOLEAN
           /\ UNCHANGED inputVars => PadTypes' /\ g_workbuf_attached' \in BOOLEAN
                                               /\ g_attached' \in BOOLEAN
                                               /\ g_touch_active' \in BOOLEAN
           /\ UNCHANGED loanVars => LoanTypes' /\ g_boosted' \in BOOLEAN
           /\ UNCHANGED pmVars => PmTypes'
           /\ UNCHANGED <<pc, reqVars>> => RequestTypes'
BY DEF TypeOK, Flags, RequestTypes, PadTypes, LoanTypes, PmTypes, padVars, inputVars,
       loanVars, pmVars, reqVars

LEMMA RequestType == TypeOK /\ Request => TypeOK'
<1> SUFFICES ASSUME TypeOK, Request PROVE TypeOK'
  OBVIOUS
<1>1. op' \in AllOps /\ pc' = "reclaim"
  BY OpsAssumption DEF Request
<1>2. op' # "none"
  BY <1>1 DEF AllOps, PadOps, ProcessOps
<1>3. target' \in Programs \cup {NoProgram}
  BY DEF Request
<1>4. mask' \subseteq Controls
  BY DEF Request
<1>5. RequestTypes'
  BY <1>1, <1>2, <1>3, <1>4 DEF RequestTypes, Labels
<1>6. UNCHANGED inputVars /\ UNCHANGED loanVars /\ UNCHANGED pmVars
  BY DEF Request
<1>7. QED
  BY <1>5, <1>6, UnchangedTypes DEF TypeOK, Flags

LEMMA SuspendType ==
    ASSUME TypeOK, input_suspend
    PROVE  /\ PadTypes'
           /\ g_workbuf_attached' \in BOOLEAN
           /\ g_attached' \in BOOLEAN
           /\ g_touch_active' \in BOOLEAN
BY DEF input_suspend, touch_release, PadTypes

LEMMA SleepType == TypeOK /\ Sleep => TypeOK'
<1> SUFFICES ASSUME TypeOK, Sleep PROVE TypeOK'
  OBVIOUS
<1>1. input_suspend /\ UNCHANGED <<pc, reqVars>> /\ UNCHANGED loanVars /\ UNCHANGED pmVars
  BY DEF Sleep
<1>2. QED
  BY <1>1, SuspendType, UnchangedTypes DEF TypeOK, Flags

\* The labels a handler goes to.
LEMMA LabelFacts ==
    /\ {"attach", "wait", "start", "stop", "terminate", "take_back", "lend", "launch",
        "press", "lift", "touch_release"} \subseteq Labels
    /\ AllOps \subseteq Labels
BY DEF Labels, AllOps, PadOps, ProcessOps

\* The steps that are a look at the status and a decision.
LEMMA DecisionType ==
    ASSUME TypeOK, pc # "idle", NEW p, NEW pid, process_status(p, pid),
           NEW l \in Labels, Goto(l) \/ Done, UNCHANGED <<inputVars, pmVars>>
    PROVE  TypeOK'
BY FlowType, StatusType, UnchangedTypes DEF TypeOK, Flags

LEMMA ProcessType ==
    ASSUME TypeOK, Status \/ Wait \/ Restart \/ Stop \/ Start
    PROVE  TypeOK'
<1>1. PICK pid \in 0..MaxPid : process_status(target, pid)
  BY DEF Status, Wait, Restart, Stop, Start
<1>2. pc # "idle" /\ UNCHANGED <<inputVars, pmVars>>
  BY DEF Status, Wait, Restart, Stop, Start
<1>3. \E l \in Labels : Goto(l) \/ Done
  BY LabelFacts DEF Status, Wait, Restart, Stop, Start
<1>4. QED
  BY <1>1, <1>2, <1>3, DecisionType

LEMMA ReclaimType == TypeOK /\ Reclaim => TypeOK'
<1> SUFFICES ASSUME TypeOK, Reclaim PROVE TypeOK'
  OBVIOUS
<1>1. \E l \in Labels : Goto(l) \/ Done
  BY LabelFacts DEF Reclaim, TypeOK, RequestTypes
<1>2. LoanTypes' /\ g_boosted' \in BOOLEAN
  <2>1. CASE UNCHANGED loanVars
    BY <2>1, UnchangedTypes
  <2>2. CASE \E pid \in 0..MaxPid : process_status(g_last_program_id, pid)
    BY <2>2, StatusType
  <2>3. QED
    BY <2>1, <2>2 DEF Reclaim, process_reclaim
<1>3. pc # "idle" /\ UNCHANGED <<inputVars, pmVars>>
  BY DEF Reclaim
<1>4. QED
  BY <1>1, <1>2, <1>3, FlowType, UnchangedTypes DEF TypeOK, Flags

LEMMA PadType ==
    ASSUME TypeOK, Attach \/ Press \/ Lift \/ Detach \/ Clear \/ Touch \/ TouchRelease
    PROVE  TypeOK'
<1>1. pc # "idle" /\ UNCHANGED loanVars /\ UNCHANGED pmVars
  BY DEF Attach, Press, Lift, Detach, Clear, Touch, TouchRelease
<1>2. \E l \in Labels : Goto(l) \/ Done
  BY LabelFacts DEF Attach, Press, Lift, Detach, Clear, Touch, TouchRelease
<1>3. PadTypes'
  BY DEF Attach, Press, Lift, Detach, Clear, Touch, TouchRelease, input_attach, press, lift,
         input_detach, input_clear, apply_state, padVars, PadTypes, TypeOK, RequestTypes
<1>4. g_workbuf_attached' \in BOOLEAN /\ g_attached' \in BOOLEAN
  BY Zenon
     DEF Attach, Press, Lift, Detach, Clear, Touch, TouchRelease, input_attach, press, lift,
         input_detach, input_clear, padVars, TypeOK, Flags
<1>5. g_touch_active' \in BOOLEAN
  BY AnswersType, Zenon
     DEF Attach, Press, Lift, Detach, Clear, Touch, TouchRelease, input_clear,
         touch_push, touch_release, TypeOK, Flags
<1>6. QED
  BY <1>1, <1>2, <1>3, <1>4, <1>5, FlowType, UnchangedTypes DEF TypeOK, Flags

LEMMA TerminateType == TypeOK /\ Terminate => TypeOK'
<1> SUFFICES ASSUME TypeOK, Terminate PROVE TypeOK'
  OBVIOUS
<1>1. \E l \in Labels : Goto(l) \/ Done
  BY LabelFacts DEF Terminate
<1>2. PmTypes'
  BY DEF Terminate, terminate, pmVars, PmTypes, TypeOK, Running
<1>3. pc # "idle" /\ UNCHANGED inputVars /\ UNCHANGED loanVars
  BY DEF Terminate
<1>4. QED
  BY <1>1, <1>2, <1>3, FlowType, UnchangedTypes DEF TypeOK, Flags

LEMMA TakeBackStepType == TypeOK /\ TakeBack => TypeOK'
<1> SUFFICES ASSUME TypeOK, TakeBack PROVE TypeOK'
  OBVIOUS
<1>1. \E l \in Labels : Goto(l) \/ Done
  BY LabelFacts DEF TakeBack
<1>2. pc # "idle" /\ take_back /\ UNCHANGED inputVars /\ UNCHANGED pmVars
  BY DEF TakeBack
<1>3. QED
  BY <1>1, <1>2, FlowType, TakeBackType, UnchangedTypes DEF TypeOK, Flags

LEMMA LendType == TypeOK /\ Lend => TypeOK'
<1> SUFFICES ASSUME TypeOK, Lend PROVE TypeOK'
  OBVIOUS
<1>1. \E l \in Labels : Goto(l) \/ Done
  BY LabelFacts DEF Lend
<1>2. LoanTypes'
  BY DEF Lend, lend, LoanTypes, TypeOK
<1>3. g_boosted' \in BOOLEAN
  BY AnswersType, Zenon DEF Lend, lend, TypeOK, Flags
<1>4. pc # "idle" /\ input_suspend /\ UNCHANGED pmVars
  BY DEF Lend, lend
<1>5. QED
  BY <1>1, <1>2, <1>3, <1>4, FlowType, SuspendType, UnchangedTypes DEF TypeOK, Flags

LEMMA LaunchType == TypeOK /\ Launch => TypeOK'
<1> SUFFICES ASSUME TypeOK, Launch PROVE TypeOK'
  OBVIOUS
<1>1. pc # "idle" /\ Done /\ launch(target) /\ UNCHANGED inputVars
  BY DEF Launch
<1>2. RequestTypes'
  BY <1>1, LabelFacts, FlowType
<1>3. LoanTypes'
  BY <1>1, ProcessAssumption
     DEF launch, reopen_hiddbg, LoanTypes, PmTypes, TypeOK, RequestTypes
<1>4. PmTypes'
  <2>1. CASE UNCHANGED pmVars
    BY <2>1, UnchangedTypes
  <2>2. CASE /\ last_issued < MaxPid
             /\ last_issued' = last_issued + 1
             /\ program' = [program EXCEPT ![last_issued + 1] = target]
             /\ dying' = dying
    <3>1. last_issued + 1 \in 0..MaxPid
      BY <2>2, ProcessAssumption DEF PmTypes, TypeOK
    <3>2. program' \in [Pids -> Programs \cup {NoProgram}]
      BY <2>2 DEF PmTypes, TypeOK, RequestTypes
    <3>3. QED
      BY <2>2, <3>1, <3>2 DEF PmTypes, TypeOK
  <2>3. QED
    BY <1>1, <2>1, <2>2 DEF launch
<1>5. g_boosted' \in BOOLEAN
  BY <1>1, AnswersType, Zenon DEF launch, release_boost, TypeOK, Flags
<1>6. QED
  BY <1>1, <1>2, <1>3, <1>4, <1>5, UnchangedTypes DEF TypeOK, Flags

LEMMA ProgramType == TypeOK /\ ProgramStep => TypeOK'
<1> SUFFICES ASSUME TypeOK, ProgramStep PROVE TypeOK'
  OBVIOUS
<1>1. UNCHANGED <<pc, reqVars>> /\ UNCHANGED inputVars
  BY DEF ProgramStep
<1>2. LoanTypes' /\ PmTypes' /\ g_boosted' = g_boosted
  BY DEF ProgramStep, OpenHiddbg, Exit, Running, Launched, pmVars, LoanTypes, PmTypes, TypeOK
<1>3. QED
  BY <1>1, <1>2, UnchangedTypes DEF TypeOK, Flags

LEMMA TypePreserved == TypeOK /\ [Next]_vars => TypeOK'
<1> SUFFICES ASSUME TypeOK, [Next]_vars PROVE TypeOK'
  OBVIOUS
<1>1. CASE UNCHANGED vars
  BY <1>1, UnchangedTypes DEF vars, TypeOK, Flags
<1>2. QED
  BY <1>1, RequestType, SleepType, ProcessType, ReclaimType, PadType, TerminateType,
     TakeBackStepType, LendType, LaunchType, ProgramType DEF Next, Handler

LEMMA InitType == Init => TypeOK
<1> SUFFICES ASSUME Init PROVE TypeOK
  OBVIOUS
<1>1. RequestTypes
  BY DEF Init, RequestTypes, Labels
<1>2. PadTypes /\ LoanTypes
  BY ProcessAssumption DEF Init, InputInit, ProcessInit, PadTypes, LoanTypes
<1>3. PmTypes
  BY ProcessAssumption DEF Init, ProcessInit, PmTypes
<1>4. Flags
  BY DEF Init, InputInit, ProcessInit, Flags
<1>5. QED
  BY <1>1, <1>2, <1>3, <1>4 DEF TypeOK

\* Type correctness of the requests about input and processes.
THEOREM TypeCorrect == Spec => []TypeOK
BY InitType, TypePreserved, PTL DEF Spec
-----------------------------------------------------------------------------
(* What is held of hid's. *)

\* A look at the status may give the server the session, never take it away.
LEMMA StatusKeepsSession ==
    ASSUME hiddbg = Server, NEW p, NEW pid, process_status(p, pid)
    PROVE  hiddbg' = Server
BY ProcessAssumption DEF process_status, take_back, reopen_hiddbg, loanVars

LEMMA HeldPreserved ==
    ASSUME TypeOK, HeldOnlyWithSession, [Next]_vars
    PROVE  HeldOnlyWithSession'
<1>1. CASE UNCHANGED inputVars /\ (hiddbg = Server => hiddbg' = Server)
  BY <1>1 DEF HeldOnlyWithSession, inputVars, padVars
<1>2. CASE input_suspend
  BY <1>2 DEF HeldOnlyWithSession, input_suspend, touch_release
<1>3. CASE UNCHANGED vars \/ Request
  BY <1>1, <1>3 DEF vars, Request, loanVars
<1>4. CASE Sleep \/ Lend
  BY <1>2, <1>4 DEF Sleep, Lend, lend
<1>5. CASE Status \/ Wait \/ Restart \/ Stop \/ Start
  <2>1. PICK pid \in 0..MaxPid : process_status(target, pid)
    BY <1>5 DEF Status, Wait, Restart, Stop, Start
  <2>2. UNCHANGED inputVars
    BY <1>5 DEF Status, Wait, Restart, Stop, Start
  <2>3. QED
    BY <1>1, <2>1, <2>2, StatusKeepsSession
<1>6. CASE Reclaim
  <2>1. hiddbg = Server => hiddbg' = Server
    BY <1>6, StatusKeepsSession DEF Reclaim, process_reclaim, loanVars
  <2>2. QED
    BY <1>1, <1>6, <2>1 DEF Reclaim
<1>7. CASE TakeBack \/ Launch
  BY <1>1, <1>7, ProcessAssumption
     DEF TakeBack, Launch, take_back, launch, reopen_hiddbg
<1>8. CASE Terminate
  BY <1>1, <1>8 DEF Terminate, loanVars
<1>9. CASE ProgramStep
  <2>1. hiddbg = Server => hiddbg' = Server
    BY <1>9, ProcessAssumption DEF ProgramStep, OpenHiddbg, Exit, Running, Launched, Pids
  <2>2. QED
    BY <1>1, <1>9, <2>1 DEF ProgramStep
<1>10. CASE Attach \/ Press \/ Lift \/ Detach \/ Clear \/ Touch \/ TouchRelease
  <2>1. hiddbg' = hiddbg
    BY <1>10 DEF Attach, Press, Lift, Detach, Clear, Touch, TouchRelease, loanVars
  <2>2. g_touch_active' => g_touch_active \/ hiddbg = Server
    BY <1>10 DEF Attach, Press, Lift, Detach, Clear, Touch, TouchRelease, input_clear,
                 touch_push, touch_release, HidAnswers
  <2>3. g_workbuf_attached' \/ g_attached'
          => g_workbuf_attached \/ g_attached \/ hiddbg = Server
    BY <1>10 DEF Attach, Press, Lift, Detach, Clear, Touch, TouchRelease, input_attach,
                 press, lift, input_detach, input_clear, padVars, HidAnswers
  <2>4. QED
    BY <2>1, <2>2, <2>3 DEF HeldOnlyWithSession
<1>11. QED
  BY <1>3, <1>4, <1>5, <1>6, <1>7, <1>8, <1>9, <1>10 DEF Next, Handler

\* HeldOnlyWithSession, whatever calls fail: what process_start lends is free
\* of the server's work buffer, controller and touches (input_suspend before
\* hiddbgExit in process_start).
THEOREM NothingHeldOnLoan == Spec => []HeldOnlyWithSession
<1>1. Init => HeldOnlyWithSession
  BY DEF Init, InputInit, HeldOnlyWithSession
<1>2. TypeOK /\ HeldOnlyWithSession /\ [Next]_vars => HeldOnlyWithSession'
  BY HeldPreserved
<1>3. QED
  BY <1>1, <1>2, TypeCorrect, PTL DEF Spec

-----------------------------------------------------------------------------
(* Processes and launches. *)

\* Processes come with a launch and go with an exit.
LEMMA ProcessesKept ==
    ASSUME [Next]_vars, ~Launch, ~ProgramStep
    PROVE  program' = program /\ last_issued' = last_issued
BY DEF Next, Handler, vars, Request, Sleep, Reclaim, Attach, Press, Lift, Detach, Clear,
       Touch, TouchRelease, Status, Wait, Restart, Stop, Terminate, TakeBack, Start, Lend,
       pmVars, terminate

\* An exit removes one process, and neither it nor an opened session concerns
\* what the server remembers.
LEMMA ProgramFacts ==
    ASSUME TypeOK, ProgramStep
    PROVE  /\ Running' \subseteq Running
           /\ \A i \in Running' : program'[i] = program[i]
           /\ UNCHANGED <<last_issued, g_last_pid, g_last_program_id, g_boosted, pc, op, target>>
BY ProcessAssumption
   DEF ProgramStep, OpenHiddbg, Exit, Running, pmVars, reqVars, TypeOK, PmTypes

\* The server remembers a launch until it launches again or takes back.
LEMMA StatusFacts ==
    ASSUME NEW p, NEW pid, process_status(p, pid)
    PROVE  /\ g_last_program_id' = g_last_program_id
           /\ \/ g_last_pid' = g_last_pid /\ g_boosted' = g_boosted /\ hiddbg' = hiddbg
              \/ take_back /\ g_last_pid' = 0
BY DEF process_status, take_back, loanVars

LEMMA LastKept ==
    ASSUME [Next]_vars, ~Launch, ~ProgramStep
    PROVE  /\ g_last_program_id' = g_last_program_id
           /\ g_last_pid' \in {g_last_pid, 0}
<1>1. CASE Status \/ Wait \/ Restart \/ Stop \/ Start
  BY <1>1, StatusFacts DEF Status, Wait, Restart, Stop, Start
<1>2. CASE Reclaim
  BY <1>2, StatusFacts DEF Reclaim, process_reclaim, loanVars
<1>3. CASE TakeBack \/ Lend
  BY <1>3 DEF TakeBack, Lend, take_back, lend
<1>4. CASE UNCHANGED loanVars
  BY <1>4 DEF loanVars
<1>5. QED
  BY <1>1, <1>2, <1>3, <1>4
     DEF Next, Handler, vars, Request, Sleep, Attach, Press, Lift, Detach, Clear, Touch,
         TouchRelease, Terminate

\* A launch that succeeds adds the process last_issued + 1; one that fails
\* adds none.
LEMMA LaunchFacts ==
    ASSUME TypeOK, PidsInv, Launch
    PROVE  \/ /\ program' = program
              /\ UNCHANGED <<last_issued, g_last_pid, g_last_program_id>>
           \/ /\ last_issued + 1 \in Pids
              /\ last_issued + 1 \notin Running
              /\ last_issued' = last_issued + 1
              /\ Running' \subseteq Running \cup {last_issued + 1}
              /\ \A i \in Running : program'[i] = program[i]
              /\ program'[last_issued + 1] = target
              /\ g_last_pid' = last_issued + 1
              /\ g_last_program_id' = target
<1>1. CASE UNCHANGED pmVars /\ UNCHANGED <<g_last_pid, g_last_program_id>>
  BY <1>1 DEF pmVars
<1>2. CASE /\ last_issued < MaxPid
           /\ last_issued' = last_issued + 1
           /\ program' = [program EXCEPT ![last_issued + 1] = target]
           /\ g_last_pid' = last_issued + 1
           /\ g_last_program_id' = target
  <2>1. last_issued \in Nat /\ last_issued + 1 \in Pids
    BY <1>2, ProcessAssumption DEF TypeOK, PmTypes, Pids
  <2>2. last_issued + 1 \notin Running
    BY <2>1 DEF PidsInv, Running
  <2>3. \A i \in Pids : program'[i] = IF i = last_issued + 1 THEN target ELSE program[i]
    BY <1>2, <2>1 DEF TypeOK, PmTypes
  <2>4. QED
    BY <1>2, <2>1, <2>2, <2>3 DEF Running
<1>3. QED
  BY <1>1, <1>2 DEF Launch, launch

LEMMA PidsPreserved ==
    ASSUME TypeOK, PidsInv, [Next]_vars
    PROVE  PidsInv'
<1>0. /\ last_issued \in Nat
      /\ \A i \in Running : i \in Nat
      /\ g_last_pid \in Nat
  BY ProcessAssumption DEF TypeOK, PmTypes, LoanTypes, Running, Pids
<1>1. CASE Launch
  BY <1>0, <1>1, LaunchFacts DEF PidsInv, Running
<1>2. CASE ProgramStep
  BY <1>2, ProgramFacts DEF PidsInv
<1>3. CASE ~Launch /\ ~ProgramStep
  BY <1>0, <1>3, ProcessesKept, LastKept DEF PidsInv, Running
<1>4. QED
  BY <1>1, <1>2, <1>3

-----------------------------------------------------------------------------
(* When services fail only for a cause in the model. *)

\* A program reported not to run does not run.
LEMMA StatusTrusted ==
    ASSUME Reliable, TypeOK, LastIsTheOnly, NEW p, process_status(p, 0)
    PROVE  \A i \in Running : program[i] # p
BY ProcessAssumption
   DEF process_status, find_pid, LastIsTheOnly, Answers, Running, Pids, TypeOK, LoanTypes

LEMMA LastOnlyPreserved ==
    ASSUME TypeOK, PidsInv, LastIsTheOnly, LendsToNew, [Next]_vars
    PROVE  LastIsTheOnly'
<1>1. CASE Launch
  <2>1. \A i \in Running : program[i] # target
    BY <1>1 DEF LendsToNew, Launch
  <2>2. QED
    BY <1>1, <2>1, LaunchFacts DEF LastIsTheOnly, Running
<1>2. CASE ProgramStep
  BY <1>2, ProgramFacts DEF LastIsTheOnly
<1>3. CASE ~Launch /\ ~ProgramStep
  BY <1>3, ProcessesKept, LastKept DEF LastIsTheOnly, Running
<1>4. QED
  BY <1>1, <1>2, <1>3

\* The launch is reached through Start and Lend only.
LEMMA LendReached ==
    ASSUME TypeOK, [Next]_vars, ~Start, ~Lend, ~ProgramStep, ~UNCHANGED vars
    PROVE  pc' \notin {"lend", "launch"}
<1>1. CASE Reclaim
  <2>1. op \notin {"lend", "launch"}
    BY DEF TypeOK, RequestTypes, AllOps, PadOps, ProcessOps
  <2>2. QED
    BY <1>1, <2>1 DEF Reclaim, Goto
<1>2. CASE ~Reclaim
  BY <1>2 DEF Next, Handler, Request, Sleep, Attach, Press, Lift, Detach, Clear, Touch,
              TouchRelease, Status, Wait, Restart, Stop, Terminate, TakeBack, Launch,
              Goto, Done
<1>3. QED
  BY <1>1, <1>2

LEMMA LendsPreserved ==
    ASSUME Reliable, TypeOK, LastIsTheOnly, LendsToNew, [Next]_vars
    PROVE  LendsToNew'
<1>1. CASE Start
  <2>1. program' = program
    BY <1>1 DEF Start, pmVars
  <2>2. PICK pid \in 0..MaxPid : /\ process_status(target, pid)
                                /\ IF pid # 0 THEN Done ELSE Goto("lend")
    BY <1>1 DEF Start
  <2>3. CASE pid = 0
    BY <2>1, <2>2, <2>3, StatusTrusted DEF LendsToNew, Goto, reqVars, Running
  <2>4. CASE pid # 0
    BY <2>2, <2>4 DEF LendsToNew, Done
  <2>5. QED
    BY <2>3, <2>4
<1>2. CASE Lend
  BY <1>2 DEF Lend, Goto, reqVars, pmVars, LendsToNew, Running
<1>3. CASE ProgramStep
  BY <1>3, ProgramFacts DEF LendsToNew
<1>4. CASE UNCHANGED vars
  BY <1>4 DEF vars, pmVars, reqVars, LendsToNew, Running
<1>5. CASE ~Start /\ ~Lend /\ ~ProgramStep /\ ~UNCHANGED vars
  BY <1>5, LendReached DEF LendsToNew
<1>6. QED
  BY <1>1, <1>2, <1>3, <1>4, <1>5

LEMMA InstancePreserved ==
    ASSUME TypeOK, PidsInv, OneInstance, LendsToNew, [Next]_vars
    PROVE  OneInstance'
<1>1. CASE Launch
  <2>1. \A i \in Running : program[i] # target
    BY <1>1 DEF LendsToNew, Launch
  <2>2. QED
    BY <1>1, <2>1, LaunchFacts DEF OneInstance, Running
<1>2. CASE ProgramStep
  BY <1>2, ProgramFacts DEF OneInstance
<1>3. CASE ~Launch /\ ~ProgramStep
  BY <1>3, ProcessesKept DEF OneInstance, Running
<1>4. QED
  BY <1>1, <1>2, <1>3

\* set_boost(0) succeeds.
LEMMA BoostReleased ==
    ASSUME Reliable, release_boost
    PROVE  ~g_boosted'
BY DEF release_boost, Answers

LEMMA BoostPreserved ==
    ASSUME Reliable, TypeOK, PidsInv, BoostInv, [Next]_vars
    PROVE  BoostInv'
<1>1. CASE take_back
  BY <1>1, BoostReleased DEF take_back, BoostInv
<1>2. CASE g_last_pid' = g_last_pid /\ g_boosted' = g_boosted /\ (pc # "launch" \/ pc' = pc)
  BY <1>2 DEF BoostInv
<1>3. CASE Status \/ Wait \/ Restart \/ Stop \/ Start
  BY <1>1, <1>2, <1>3, StatusFacts DEF Status, Wait, Restart, Stop, Start
<1>4. CASE Reclaim
  BY <1>1, <1>2, <1>4, StatusFacts DEF Reclaim, process_reclaim, loanVars
<1>5. CASE TakeBack
  BY <1>1, <1>5 DEF TakeBack
<1>6. CASE Lend
  BY <1>6 DEF Lend, Goto, BoostInv
<1>7. CASE Launch
  <2>1. CASE release_boost
    BY <2>1, BoostReleased DEF BoostInv
  <2>2. CASE g_last_pid' = last_issued + 1
    BY <2>2 DEF BoostInv, TypeOK, PmTypes
  <2>3. QED
    BY <1>7, <2>1, <2>2 DEF Launch, launch
<1>8. CASE ProgramStep
  BY <1>2, <1>8, ProgramFacts
<1>9. CASE \/ Request \/ Sleep \/ Attach \/ Press \/ Lift \/ Detach \/ Clear \/ Touch
           \/ TouchRelease \/ Terminate \/ UNCHANGED vars
  BY <1>2, <1>9
     DEF Request, Sleep, Attach, Press, Lift, Detach, Clear, Touch, TouchRelease, Terminate,
         vars, loanVars
<1>10. QED
  BY <1>3, <1>4, <1>5, <1>6, <1>7, <1>8, <1>9 DEF Next, Handler

LEMMA InitIInv == Init => IInv
<1> SUFFICES ASSUME Init PROVE IInv
  OBVIOUS
<1>1. HeldOnlyWithSession
  BY DEF Init, InputInit, HeldOnlyWithSession
<1>2. PidsInv
  BY ProcessAssumption DEF Init, ProcessInit, PidsInv
<1>3. OneInstance /\ LastIsTheOnly /\ LendsToNew
  BY DEF Init, ProcessInit, OneInstance, LastIsTheOnly, LendsToNew
<1>4. BoostInv
  BY DEF Init, ProcessInit, BoostInv
<1>5. QED
  BY <1>1, <1>2, <1>3, <1>4 DEF IInv

\* The inductive invariant of Lending.
THEOREM Invariance == Spec => []IInv
<1>1. TypeOK /\ IInv /\ [Next]_vars => IInv'
  BY HeldPreserved, PidsPreserved, InstancePreserved, LastOnlyPreserved, LendsPreserved,
     BoostPreserved DEF IInv
<1>2. QED
  BY <1>1, InitIInv, TypeCorrect, PTL DEF Spec

\* OneInstance, as long as pm:info answers: process_start never launches a
\* second process of a program.
THEOREM NeverTwice ==
    ASSUME Reliable
    PROVE  Spec => []OneInstance
<1>1. IInv => OneInstance
  BY DEF IInv
<1>2. QED
  BY <1>1, Invariance, PTL

\* BoostOnlyOnLoan, as long as pm answers: the boost is given back with the
\* loan (set_boost in process_start and take_back).
THEOREM BoostReturned ==
    ASSUME Reliable
    PROVE  Spec => []BoostOnlyOnLoan
<1>1. IInv => BoostOnlyOnLoan
  BY DEF IInv, BoostInv, BoostOnlyOnLoan
<1>2. QED
  BY <1>1, Invariance, PTL

-----------------------------------------------------------------------------
(* One program. *)

\* With a single program, a look at the status takes the session only when no
\* process runs.
LEMMA SingleStatus ==
    ASSUME Reliable, NEW q, Programs = {q}, TypeOK, IInv, SingleInv,
           NEW p, NEW pid, process_status(p, pid), hiddbg' # hiddbg
    PROVE  Running = {}
<1>1. pid = 0 /\ p = g_last_program_id /\ g_last_pid # 0
  BY DEF process_status, loanVars
<1>2. p = q
  BY <1>1 DEF SingleInv
<1>3. \A i \in Running : program[i] # p
  BY <1>1, StatusTrusted DEF IInv
<1>4. QED
  BY <1>2, <1>3 DEF Running, TypeOK, PmTypes

\* The request being served, for every step of a handler.
LEMMA SingleRequest ==
    ASSUME TypeOK, SingleInv, [Next]_vars
    PROVE  /\ op' \in ProcessOps => target' \in Programs
           /\ pc' \in ProcessOps \cup {"terminate", "take_back", "lend", "launch"}
                => op' \in ProcessOps
<1>1. CASE Request
  BY <1>1 DEF Request, ProcessOps
<1>2. CASE Reclaim
  <2>1. UNCHANGED reqVars /\ pc' = IF op \in PadOps THEN "attach" ELSE op
    BY <1>2 DEF Reclaim, Goto
  <2>2. op \in AllOps \cup {"none"}
    BY DEF TypeOK, RequestTypes
  <2>3. QED
    BY <2>1, <2>2 DEF SingleInv, reqVars, AllOps, PadOps, ProcessOps
<1>3. CASE Done
  BY <1>3 DEF Done, ProcessOps
<1>4. CASE UNCHANGED <<pc, reqVars>>
  BY <1>4 DEF reqVars, SingleInv
<1>5. CASE /\ pc \in ProcessOps \cup {"terminate", "take_back", "lend", "launch"}
           /\ UNCHANGED reqVars
  BY <1>5 DEF reqVars, SingleInv
<1>6. CASE pc' \in {"press", "lift", "touch_release"} /\ UNCHANGED reqVars
  BY <1>6 DEF reqVars, SingleInv, ProcessOps
<1>7. CASE Status \/ Wait \/ Restart \/ Stop \/ Terminate \/ TakeBack \/ Start \/ Lend \/ Launch
  BY <1>3, <1>5, <1>7
     DEF Status, Wait, Restart, Stop, Terminate, TakeBack, Start, Lend, Launch, Goto, ProcessOps
<1>8. CASE Attach \/ Press \/ Lift \/ Detach \/ Clear \/ Touch \/ TouchRelease
  BY <1>3, <1>6, <1>8 DEF Attach, Press, Lift, Detach, Clear, Touch, TouchRelease, Goto
<1>9. CASE Sleep \/ ProgramStep \/ UNCHANGED vars
  BY <1>4, <1>9 DEF Sleep, ProgramStep, vars
<1>10. QED
  BY <1>1, <1>2, <1>7, <1>8, <1>9 DEF Next, Handler

LEMMA SingleLast ==
    ASSUME TypeOK, PidsInv, SingleInv, [Next]_vars
    PROVE  g_last_pid' # 0 => g_last_program_id' \in Programs
<1>1. CASE Launch
  <2>1. target \in Programs
    BY <1>1 DEF SingleInv, Launch
  <2>2. QED
    BY <1>1, <2>1, LaunchFacts DEF SingleInv
<1>2. CASE ProgramStep
  BY <1>2, ProgramFacts DEF SingleInv
<1>3. CASE ~Launch /\ ~ProgramStep
  BY <1>3, LastKept DEF SingleInv
<1>4. QED
  BY <1>1, <1>2, <1>3

\* The server gets the session only when every process is dying or gone.
LEMMA SingleTaken ==
    ASSUME Reliable, NEW q, Programs = {q}, TypeOK, IInv, SingleInv, [Next]_vars,
           hiddbg' = Server, hiddbg # Server
    PROVE  ~ProgramStep /\ program' = program /\ Running \subseteq dying
<1>1. CASE Status \/ Wait \/ Restart \/ Stop \/ Start
  <2>1. Running = {}
    BY <1>1, SingleStatus DEF Status, Wait, Restart, Stop, Start
  <2>2. pc \notin {"launch"} /\ program' = program
    BY <1>1 DEF Status, Wait, Restart, Stop, Start, pmVars
  <2>3. ~ProgramStep
    BY <2>1, ProcessAssumption DEF ProgramStep, OpenHiddbg, Exit, Launched
  <2>4. QED
    BY <2>1, <2>2, <2>3
<1>2. CASE Reclaim
  <2>1. Running = {}
    BY <1>2, SingleStatus DEF Reclaim, process_reclaim, loanVars
  <2>2. program' = program
    BY <1>2 DEF Reclaim, pmVars
  <2>3. ~ProgramStep
    BY <2>1 DEF ProgramStep, OpenHiddbg, Exit, Launched
  <2>4. QED
    BY <2>1, <2>2, <2>3
<1>3. ~ProgramStep
  BY ProcessAssumption DEF ProgramStep, OpenHiddbg, Exit, Running, Launched, Pids
<1>4. CASE TakeBack
  BY <1>3, <1>4 DEF TakeBack, SingleInv, pmVars
<1>5. CASE Launch
  <2>1. target = q
    BY <1>5 DEF SingleInv, Launch
  <2>2. \A i \in Running : program[i] # q
    BY <1>5, <2>1 DEF IInv, LendsToNew, Launch
  <2>3. Running = {}
    BY <2>2 DEF Running, TypeOK, PmTypes
  <2>4. program' = program
    BY <1>5 DEF Launch, launch, pmVars
  <2>5. QED
    BY <1>3, <2>3, <2>4
<1>6. CASE Lend
  BY <1>6, ProcessAssumption DEF Lend, lend
<1>7. CASE \/ Request \/ Sleep \/ Attach \/ Press \/ Lift \/ Detach \/ Clear \/ Touch
           \/ TouchRelease \/ Terminate \/ UNCHANGED vars
  BY <1>7
     DEF Request, Sleep, Attach, Press, Lift, Detach, Clear, Touch, TouchRelease, Terminate,
         vars, loanVars
<1>8. QED
  BY <1>1, <1>2, <1>3, <1>4, <1>5, <1>6, <1>7 DEF Next, Handler

\* A terminated process is the only one.
LEMMA SingleTerminate ==
    ASSUME Reliable, NEW q, Programs = {q}, TypeOK, IInv, Terminate, pc' = "take_back"
    PROVE  Running' \subseteq dying'
<1>1. PICK i \in Running : dying' = dying \cup {i} /\ program' = program
  BY DEF Terminate, terminate, Done
<1>2. \A j \in Running : j = i
  BY DEF IInv, OneInstance, Running, TypeOK, PmTypes
<1>3. QED
  BY <1>1, <1>2 DEF Running

\* take_back follows a termination, a launch follows Lend.
LEMMA TakeBackReached ==
    ASSUME TypeOK, [Next]_vars, ~Terminate, ~Lend, ~ProgramStep, ~UNCHANGED vars
    PROVE  pc' \notin {"take_back", "launch"}
<1>1. CASE Reclaim
  <2>1. op \notin {"take_back", "launch"}
    BY DEF TypeOK, RequestTypes, AllOps, PadOps, ProcessOps
  <2>2. QED
    BY <1>1, <2>1 DEF Reclaim, Goto
<1>2. CASE ~Reclaim
  BY <1>2 DEF Next, Handler, Request, Sleep, Attach, Press, Lift, Detach, Clear, Touch,
              TouchRelease, Status, Wait, Restart, Stop, TakeBack, Start, Launch, Goto, Done
<1>3. QED
  BY <1>1, <1>2

LEMMA DyingKept ==
    ASSUME [Next]_vars, ~ProgramStep
    PROVE  dying \subseteq dying'
BY DEF Next, Handler, vars, Request, Sleep, Reclaim, Attach, Press, Lift, Detach, Clear,
       Touch, TouchRelease, Status, Wait, Restart, Stop, Terminate, TakeBack, Start, Lend,
       Launch, launch, pmVars, terminate

\* A process that was dying is dying or gone.
LEMMA ProgramDying ==
    ASSUME TypeOK, ProgramStep, NEW S, S \cap Running \subseteq dying
    PROVE  S \cap Running' \subseteq dying'
BY ProcessAssumption DEF ProgramStep, OpenHiddbg, Exit, Running, pmVars, TypeOK, PmTypes

LEMMA SingleRespected ==
    ASSUME Reliable, NEW q, Programs = {q}, TypeOK, IInv, SingleInv, [Next]_vars
    PROVE  LoanRespected'
<1> SUFFICES ASSUME hiddbg' = Server PROVE Launched' \subseteq dying'
  BY DEF LoanRespected
<1>1. CASE hiddbg # Server
  <2>1. ~ProgramStep /\ program' = program /\ Running \subseteq dying
    BY <1>1, SingleTaken
  <2>2. QED
    BY <2>1, DyingKept DEF Launched, Running
<1>2. CASE hiddbg = Server
  <2>1. Launched \subseteq dying
    BY <1>2 DEF SingleInv, LoanRespected
  <2>2. ~Launch
    BY <1>2 DEF SingleInv, Launch
  <2>3. CASE ProgramStep
    <3> DEFINE S == {i \in Pids : i > BootPids}
    <3>1. S \cap Running \subseteq dying
      BY <2>1 DEF Launched
    <3>2. S \cap Running' \subseteq dying'
      BY <2>3, <3>1, ProgramDying
    <3>3. QED
      BY <3>2 DEF Launched, Running
  <2>4. CASE ~ProgramStep
    BY <2>1, <2>2, <2>4, ProcessesKept, DyingKept DEF Launched, Running
  <2>5. QED
    BY <2>3, <2>4
<1>3. QED
  BY <1>1, <1>2

LEMMA SinglePreserved ==
    ASSUME Reliable, NEW q, Programs = {q}, TypeOK, IInv, SingleInv, [Next]_vars
    PROVE  SingleInv'
<1>1. LoanRespected'
  BY SingleRespected
<1>2. g_last_pid' # 0 => g_last_program_id' \in Programs
  BY SingleLast DEF IInv
<1>3. pc' = "take_back" => Running' \subseteq dying'
  <2>1. CASE Terminate
    BY <2>1, SingleTerminate
  <2>2. CASE ProgramStep
    <3>1. pc' = "take_back" => Pids \cap Running \subseteq dying
      BY <2>2, ProgramFacts DEF SingleInv
    <3>2. QED
      BY <2>2, <3>1, ProgramDying DEF Running
  <2>3. CASE UNCHANGED vars
    BY <2>3 DEF vars, pmVars, SingleInv, Running
  <2>4. CASE Lend
    BY <2>4 DEF Lend, Goto
  <2>5. QED
    BY <2>1, <2>2, <2>3, <2>4, TakeBackReached
<1>4. pc' = "launch" => hiddbg' # Server
  <2>1. CASE Terminate
    BY <2>1 DEF Terminate, Goto, Done
  <2>2. CASE ProgramStep
    BY <2>2, ProcessAssumption
       DEF ProgramStep, OpenHiddbg, Exit, SingleInv, Running, Launched, Pids
  <2>3. CASE UNCHANGED vars
    BY <2>3 DEF vars, loanVars, SingleInv
  <2>4. CASE Lend
    BY <2>4, ProcessAssumption DEF Lend, lend
  <2>5. QED
    BY <2>1, <2>2, <2>3, <2>4, TakeBackReached
<1>5. QED
  BY <1>1, <1>2, <1>3, <1>4, SingleRequest DEF SingleInv

\* LoanRespected, when clients manage a single program and services answer:
\* the server takes hid:dbg back only once that program exited or was
\* terminated (take_back and the failed launch of process_start).
THEOREM SingleLoanRespected ==
    ASSUME Reliable, NEW q, Programs = {q}
    PROVE  Spec => []LoanRespected
<1>1. Init => SingleInv
  <2> SUFFICES ASSUME Init PROVE SingleInv
    OBVIOUS
  <2>1. Launched = {}
    BY ProcessAssumption DEF Init, ProcessInit, Launched, Running, Pids
  <2>2. QED
    BY <2>1 DEF Init, InputInit, ProcessInit, SingleInv, LoanRespected, ProcessOps
<1>2. TypeOK /\ IInv /\ SingleInv /\ [Next]_vars => SingleInv'
  BY SinglePreserved
<1>3. SingleInv => LoanRespected
  BY DEF SingleInv
<1>4. QED
  BY <1>1, <1>2, <1>3, TypeCorrect, Invariance, PTL DEF Spec
=============================================================================
