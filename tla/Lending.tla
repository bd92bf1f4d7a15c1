------------------------------ MODULE Lending ------------------------------
(***************************************************************************)
(* The requests of the input and process features, one at a time, with the *)
(* programs and pm running beside them.  Every request begins with the     *)
(* hook process_reclaim; pc is the place in its handler, one action per    *)
(* call another party can observe or disturb.  Sleep is the sleep hook,    *)
(* which runs between requests.                                            *)
(***************************************************************************)
EXTENDS Process

CONSTANT Ops     \* the requests clients make

PadOps == {"attach", "tap", "hold", "release"}
ProcessOps == {"status", "wait", "start", "stop", "restart"}
AllOps == PadOps \cup ProcessOps \cup {"detach", "clear", "touch"}

ASSUME OpsAssumption == Ops \subseteq AllOps

VARIABLES
    pc,
    op,          \* the request being served
    target,      \* its program
    mask         \* its controls

reqVars == <<op, target, mask>>
vars == <<pc, reqVars, inputVars, loanVars, pmVars>>

Labels == AllOps \cup {"idle", "reclaim", "terminate", "take_back", "lend", "launch",
                       "press", "lift", "touch_release"}

\* Types, the truth values apart from the rest.
Flags ==
    /\ g_workbuf_attached \in BOOLEAN
    /\ g_attached \in BOOLEAN
    /\ g_touch_active \in BOOLEAN
    /\ g_boosted \in BOOLEAN

RequestTypes ==
    /\ pc \in Labels
    /\ op \in AllOps \cup {"none"}
    /\ target \in Programs \cup {NoProgram}
    /\ mask \subseteq Controls
    /\ pc # "idle" => op # "none"

PadTypes ==
    /\ g_buttons \subseteq Controls
    /\ down \subseteq Controls

LoanTypes ==
    /\ hiddbg \in {Server, Nobody} \cup Pids
    /\ g_last_pid \in 0..MaxPid
    /\ g_last_program_id \in Programs \cup {NoProgram}

PmTypes ==
    /\ program \in [Pids -> Programs \cup {NoProgram}]
    /\ dying \subseteq Pids
    /\ last_issued \in 0..MaxPid

TypeOK == Flags /\ RequestTypes /\ PadTypes /\ LoanTypes /\ PmTypes

Init ==
    /\ InputInit
    /\ ProcessInit
    /\ pc = "idle"
    /\ op = "none"
    /\ target = NoProgram
    /\ mask = {}

\* The handler goes on at l.
Goto(l) == pc' = l /\ UNCHANGED reqVars

\* The handler returns.
Done ==
    /\ pc' = "idle"
    /\ op' = "none"
    /\ target' = NoProgram
    /\ mask' = {}

-----------------------------------------------------------------------------
Request ==
    /\ pc = "idle"
    /\ pc' = "reclaim"
    /\ op' \in Ops
    /\ target' \in IF op' \in ProcessOps THEN Programs ELSE {NoProgram}
    /\ mask' \in IF op' \in PadOps \ {"attach"} THEN (SUBSET Controls) \ {{}} ELSE {{}}
    /\ UNCHANGED <<inputVars, loanVars, pmVars>>

Reclaim ==
    /\ pc = "reclaim"
    /\ process_reclaim
    /\ Goto(IF op \in PadOps THEN "attach" ELSE op)
    /\ UNCHANGED <<inputVars, pmVars>>

Sleep ==
    /\ pc = "idle"
    /\ input_suspend
    /\ UNCHANGED <<pc, reqVars, loanVars, pmVars>>

\* input_attach, the first step of every request about the controller.
Attach ==
    /\ pc = "attach"
    /\ \E ok \in BOOLEAN :
         /\ input_attach(ok)
         /\ \/ /\ ~ok \/ op = "attach"
               /\ Done
            \/ /\ ok /\ op \in {"tap", "hold"}
               /\ Goto("press")
            \/ /\ ok /\ op = "release"
               /\ Goto("lift")
    /\ UNCHANGED <<g_touch_active, loanVars, pmVars>>

\* A tap whose push fails returns at once.
Press ==
    /\ pc = "press"
    /\ \E ok \in BOOLEAN :
         /\ press(mask, ok)
         /\ IF ok /\ op = "tap" THEN Goto("lift") ELSE Done
    /\ UNCHANGED <<g_touch_active, loanVars, pmVars>>

Lift ==
    /\ pc = "lift"
    /\ \E ok \in BOOLEAN : lift(mask, ok)
    /\ Done
    /\ UNCHANGED <<g_touch_active, loanVars, pmVars>>

Detach ==
    /\ pc = "detach"
    /\ input_detach
    /\ Done
    /\ UNCHANGED <<g_touch_active, loanVars, pmVars>>

Clear ==
    /\ pc = "clear"
    /\ input_clear
    /\ Done
    /\ UNCHANGED <<loanVars, pmVars>>

Touch ==
    /\ pc = "touch"
    /\ touch_push
    /\ Goto("touch_release")
    /\ UNCHANGED <<padVars, loanVars, pmVars>>

TouchRelease ==
    /\ pc = "touch_release"
    /\ touch_release
    /\ Done
    /\ UNCHANGED <<padVars, loanVars, pmVars>>

-----------------------------------------------------------------------------
Status ==
    /\ pc = "status"
    /\ \E pid \in 0..MaxPid : process_status(target, pid)
    /\ Done
    /\ UNCHANGED <<inputVars, pmVars>>

\* One poll of process_wait, the end of the wait for a client or of a
\* restart's wait for the program to be gone; it may time out.
Wait ==
    /\ pc = "wait"
    /\ \E pid \in 0..MaxPid :
         /\ process_status(target, pid)
         /\ \/ pid = 0 /\ op = "restart" /\ Goto("start")
            \/ pid # 0 /\ op = "restart" /\ (Goto("wait") \/ Done)
            \/ op = "wait" /\ (Goto("wait") \/ Done)
    /\ UNCHANGED <<inputVars, pmVars>>

Restart ==
    /\ pc = "restart"
    /\ \E pid \in 0..MaxPid :
         /\ process_status(target, pid)
         /\ Goto(IF pid # 0 THEN "stop" ELSE "start")
    /\ UNCHANGED <<inputVars, pmVars>>

Stop ==
    /\ pc = "stop"
    /\ \E pid \in 0..MaxPid :
         /\ process_status(target, pid)
         /\ IF pid # 0 THEN Goto("terminate") ELSE Done
    /\ UNCHANGED <<inputVars, pmVars>>

Terminate ==
    /\ pc = "terminate"
    /\ \E ok \in BOOLEAN :
         /\ terminate(target, ok)
         /\ IF ok THEN Goto("take_back") ELSE Done
    /\ UNCHANGED <<inputVars, loanVars>>

\* Whatever program was stopped.
TakeBack ==
    /\ pc = "take_back"
    /\ take_back
    /\ IF op = "restart" THEN Goto("wait") ELSE Done
    /\ UNCHANGED <<inputVars, pmVars>>

Start ==
    /\ pc = "start"
    /\ \E pid \in 0..MaxPid :
         /\ process_status(target, pid)
         /\ IF pid # 0 THEN Done ELSE Goto("lend")
    /\ UNCHANGED <<inputVars, pmVars>>

Lend ==
    /\ pc = "lend"
    /\ lend
    /\ Goto("launch")
    /\ UNCHANGED pmVars

Launch ==
    /\ pc = "launch"
    /\ launch(target)
    /\ Done
    /\ UNCHANGED inputVars

-----------------------------------------------------------------------------
Handler ==
    \/ Reclaim \/ Attach \/ Press \/ Lift \/ Detach \/ Clear \/ Touch \/ TouchRelease
    \/ Status \/ Wait \/ Restart \/ Stop \/ Terminate \/ TakeBack \/ Start \/ Lend \/ Launch

ProgramStep ==
    /\ \E i \in Pids : OpenHiddbg(i) \/ Exit(i)
    /\ UNCHANGED <<pc, reqVars, inputVars>>

Next == Request \/ Sleep \/ Handler \/ ProgramStep

Spec == Init /\ [][Next]_vars

\* The thread runs, process_wait has a deadline, clients keep asking, and the
\* kernel finishes the teardown of a terminated process.
Fairness ==
    /\ WF_vars(Handler)
    /\ WF_vars(Wait /\ pc' # "wait")
    /\ WF_vars(Request)
    /\ WF_vars((\E i \in dying : Exit(i)) /\ UNCHANGED <<pc, reqVars, inputVars>>)

FairSpec == Spec /\ Fairness

-----------------------------------------------------------------------------
\* Nothing of hid's is held without the session it was obtained through: the
\* work buffer, the virtual controller and the touch panel are given up before
\* hid:dbg is handed to a started program (process_start, input_suspend).
HeldOnlyWithSession ==
    g_workbuf_attached \/ g_attached \/ g_touch_active => hiddbg = Server

\* No program runs twice: process_start refuses one that already runs,
\* whoever started it.
OneInstance ==
    \A i, j \in Running : program[i] = program[j] => i = j

\* Between requests the memory boost is held only for a remembered launch, so
\* that some later request gives it back (process_start, take_back).
BoostOnlyOnLoan ==
    pc = "idle" /\ g_boosted => g_last_pid # 0

\* The inductive invariant.  The pid that process_status trusts is the only
\* process of its program, nothing runs the program that is about to be
\* launched, and a boost outlives a request only with a remembered launch.
PidsInv ==
    /\ \A i \in Running : i <= last_issued
    /\ g_last_pid <= last_issued

LastIsTheOnly ==
    g_last_pid # 0 => \A i \in Running : program[i] = g_last_program_id => i = g_last_pid

LendsToNew ==
    pc \in {"lend", "launch"} => \A i \in Running : program[i] # target

BoostInv ==
    g_boosted /\ pc # "launch" => g_last_pid # 0

IInv ==
    /\ HeldOnlyWithSession
    /\ PidsInv
    /\ Reliable => OneInstance /\ LastIsTheOnly /\ LendsToNew /\ BoostInv

\* A started program keeps what it was lent until it exits or is stopped.
LoanRespected ==
    \A i \in Launched \ dying : hiddbg # Server

\* What makes LoanRespected inductive when there is a single program: the
\* session is taken back only after that program ended or was terminated.
SingleInv ==
    /\ LoanRespected
    /\ g_last_pid # 0 => g_last_program_id \in Programs
    /\ op \in ProcessOps => target \in Programs
    /\ pc \in ProcessOps \cup {"terminate", "take_back", "lend", "launch"} => op \in ProcessOps
    /\ pc = "take_back" => Running \subseteq dying
    /\ pc = "launch" => hiddbg # Server

\* A program that ends by itself is noticed: the loan it had is returned, or
\* another started program has it by then (process_reclaim before requests).
LoanReturns ==
    (g_last_pid # 0 /\ g_last_pid \notin Running)
        ~> (hiddbg = Server \/ ~(Launched \subseteq dying))

\* README: the server takes hid:dbg back by itself once no started program
\* runs, also when that program was stopped.
InputReturns ==
    (Launched \subseteq dying) ~> (hiddbg = Server \/ ~(Launched \subseteq dying))

\* input.h: a tap applies its mask and releases it.  So a control goes down
\* only while a request that asks for it is served.
PressesOnlyAsked ==
    [][\A c \in down' \ down : pc = "press" /\ c \in mask]_vars
=============================================================================
