------------------------------- MODULE Input -------------------------------
(***************************************************************************)
(* features/input/input.c: the virtual controller and the touch panel,     *)
(* driven through hid:dbg.  That service has a single session: hiddbg is   *)
(* its owner.  A call fails whenever the server does not own it, and may   *)
(* fail otherwise unless Reliable.                                         *)
(*                                                                         *)
(* A control is a button or a deflected stick: input_stick changes its     *)
(* part of g_state and pushes all of it, exactly as the button functions   *)
(* do, and recentres it when it is given a duration.                       *)
(*                                                                         *)
(* The operators below change this module's variables only; Lending says   *)
(* which handler performs them.                                            *)
(***************************************************************************)
EXTENDS Naturals, FiniteSets

CONSTANTS
    Controls,    \* buttons and stick deflections
    Server,      \* this process, as an owner of hid:dbg
    Nobody,      \* hid:dbg has no session
    Reliable     \* calls of other services fail only for a cause in the model

VARIABLES
    hiddbg,               \* external: who has the session of hid:dbg
    g_workbuf_attached,
    g_attached,
    g_touch_active,
    g_buttons,            \* g_state
    down                  \* external: what hid reports for the virtual controller

padVars == <<g_workbuf_attached, g_attached, g_buttons, down>>
inputVars == <<padVars, g_touch_active>>

\* What a call of a service answers, and one of hid:dbg in particular.
Answers == IF Reliable THEN {TRUE} ELSE BOOLEAN
HidAnswers == IF hiddbg = Server THEN Answers ELSE {FALSE}

InputInit ==
    /\ hiddbg = Server
    /\ g_workbuf_attached = FALSE
    /\ g_attached = FALSE
    /\ g_touch_active = FALSE
    /\ g_buttons = {}
    /\ down = {}

\* input_attach with ensure_workbuf, returning ok.  A new device is neutral,
\* whether or not the push of its first state fails.
input_attach(ok) ==
    \/ /\ g_workbuf_attached /\ g_attached
       /\ ok
       /\ UNCHANGED padVars
    \/ /\ ~g_workbuf_attached
       /\ FALSE \in HidAnswers
       /\ ~ok
       /\ UNCHANGED padVars
    \/ /\ ~g_attached
       /\ g_workbuf_attached \/ TRUE \in HidAnswers
       /\ FALSE \in HidAnswers
       /\ ~ok
       /\ g_workbuf_attached' = TRUE
       /\ UNCHANGED <<g_attached, g_buttons, down>>
    \/ /\ ~g_attached
       /\ TRUE \in HidAnswers
       /\ ok \in HidAnswers
       /\ g_workbuf_attached' = TRUE
       /\ g_attached' = TRUE
       /\ g_buttons' = {}
       /\ down' = {}

\* apply_state: the whole of g_state is pushed.
apply_state(ok) ==
    /\ ok \in HidAnswers
    /\ down' = IF ok THEN g_buttons' ELSE down

\* The two halves of input_tap and input_stick; input_hold is the first,
\* input_release the second.
press(mask, ok) ==
    /\ g_buttons' = g_buttons \cup mask
    /\ apply_state(ok)
    /\ UNCHANGED <<g_workbuf_attached, g_attached>>

lift(mask, ok) ==
    /\ g_buttons' = g_buttons \ mask
    /\ apply_state(ok)
    /\ UNCHANGED <<g_workbuf_attached, g_attached>>

input_detach ==
    \/ /\ ~g_attached \/ FALSE \in HidAnswers
       /\ UNCHANGED padVars
    \/ /\ g_attached
       /\ TRUE \in HidAnswers
       /\ g_attached' = FALSE
       /\ down' = {}
       /\ UNCHANGED <<g_workbuf_attached, g_buttons>>

\* The frames of a gesture: the first one that is accepted makes it active.
touch_push ==
    \E ok \in HidAnswers : g_touch_active' = (g_touch_active \/ ok)

\* The results of its two calls are ignored.
touch_release ==
    g_touch_active' = FALSE

input_clear ==
    /\ touch_release
    /\ \/ /\ ~g_attached
          /\ UNCHANGED padVars
       \/ /\ g_attached
          /\ g_buttons' = {}
          /\ \E ok \in HidAnswers : apply_state(ok)
          /\ UNCHANGED <<g_workbuf_attached, g_attached>>

\* The results of its calls are ignored.
input_suspend ==
    /\ touch_release
    /\ g_attached' = FALSE
    /\ g_workbuf_attached' = FALSE
    /\ g_buttons' = {}
    /\ down' = {}
=============================================================================
