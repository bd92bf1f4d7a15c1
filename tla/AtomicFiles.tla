---------------------------- MODULE AtomicFiles ----------------------------
(***************************************************************************)
(* What the file features promise a client of the card: one operation at a *)
(* time; a path changes from one whole version to another, with at most a  *)
(* gap in between while its upload is moved into place; a launch gives the *)
(* path back as it was.  A file is left torn or missing only by a launch   *)
(* that lost power or the card, a gap stays only when the card fails there *)
(* or power goes, files go with their directory only when the card does    *)
(* not show them, and success is answered only for what is on the card.    *)
(***************************************************************************)
CONSTANTS Paths, Versions, Absent, Torn

VARIABLES
    content,   \* path -> version, Absent or Torn
    op,        \* the operation under way, or None
    replied,   \* the last answer said the operation succeeded
    fault      \* power or the card has failed during the operation

vars == <<content, op, replied, fault>>

None == [kind |-> "none"]

Init ==
    /\ content \in [Paths -> Versions \cup {Absent}]
    /\ op = None
    /\ replied = FALSE
    /\ fault = FALSE

Begin ==
    /\ op = None
    /\ \E p \in Paths :
          \/ \E v \in Versions : op' = [kind |-> "put", path |-> p, goal |-> v, gap |-> FALSE]
          \/ op' = [kind |-> "launch", path |-> p]
    /\ replied' = FALSE
    /\ fault' = FALSE
    /\ UNCHANGED content

Fail ==
    /\ fault' = TRUE
    /\ UNCHANGED <<content, op, replied>>

Vacate ==
    /\ op.kind = "put"
    /\ content' = [content EXCEPT ![op.path] = Absent]
    /\ op' = [op EXCEPT !.gap = TRUE]
    /\ UNCHANGED <<replied, fault>>

Commit ==
    /\ op.kind = "put" /\ op.gap
    /\ content' = [content EXCEPT ![op.path] = op.goal]
    /\ op' = None
    /\ replied' = TRUE
    /\ UNCHANGED fault

(* A put gives up, its path as it was; a launch ends either way.           *)
Finish ==
    /\ \/ op.kind = "put" /\ ~op.gap /\ ~replied'
       \/ op.kind = "launch" /\ replied' \in BOOLEAN
    /\ op' = None
    /\ UNCHANGED <<content, fault>>

(* The card would not show what is in a directory, and it is removed.      *)
Wipe ==
    /\ op = None /\ fault
    /\ \E lost \in SUBSET Paths :
          content' = [p \in Paths |-> IF p \in lost THEN Absent ELSE content[p]]
    /\ replied'
    /\ UNCHANGED <<op, fault>>

(* Power or the card failed: a put may stay in its gap, and a launch may   *)
(* leave the path empty or torn.                                           *)
Interrupt ==
    /\ op # None
    /\ op' = None
    /\ fault'
    /\ \/ content' = content
       \/ /\ op.kind = "launch"
          /\ \E left \in {Absent, Torn} : content' = [content EXCEPT ![op.path] = left]
    /\ replied' \in (IF op.kind = "put" THEN {FALSE} ELSE BOOLEAN)

Delete(p) ==
    /\ op = None
    /\ content' = [content EXCEPT ![p] = Absent]
    /\ replied'
    /\ fault' \in BOOLEAN
    /\ UNCHANGED op

Move(p, q) ==
    /\ op = None
    /\ content[q] = Absent
    /\ content' = [content EXCEPT ![q] = content[p], ![p] = Absent]
    /\ replied'
    /\ fault' \in BOOLEAN
    /\ UNCHANGED op

(* A request that changes no file, a refusal, a loss of power while idle.  *)
Reply ==
    /\ op = None
    /\ replied' \in BOOLEAN
    /\ fault' \in BOOLEAN
    /\ UNCHANGED <<content, op>>

Next ==
    \/ Begin \/ Fail \/ Vacate \/ Commit \/ Finish \/ Interrupt \/ Reply \/ Wipe
    \/ \E p \in Paths : Delete(p)
    \/ \E p, q \in Paths : Move(p, q)

Spec == Init /\ [][Next]_vars
=============================================================================
