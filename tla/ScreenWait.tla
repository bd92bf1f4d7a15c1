----------------------------- MODULE ScreenWait -----------------------------
(***************************************************************************)
(* features/screen/screen_scale.c: screen_wait captures thumbnails into    *)
(* two buffers and waits until one differs from the first, or until none   *)
(* has differed from the one before for a while.  A frame is a number;     *)
(* two frames differ when they are DiffAt apart, so a slow drift does not. *)
(***************************************************************************)
EXTENDS Integers, Sequences, SequencesExt

CONSTANTS
    Frames,      \* thumbnails
    DiffAt,      \* stands for threshold_pct of changed pixels
    StableMs,    \* stable_ms, in polls
    TimeoutMs    \* bound: timeout, in polls

\* screen_http.c:110 and screen_mcp.c:74 refuse a threshold that is not positive.
ASSUME ScreenWaitAssumption ==
    /\ Frames \subseteq Int
    /\ DiffAt \in Nat \ {0}
    /\ StableMs \in Nat

VARIABLES
    sw,       \* the wait; slot holds the two buffers, ref names the reference
    frames    \* history: what was captured, and when

screenWaitVars == <<sw, frames>>

NoScreenWait == [at |-> "off"]
ScreenWaitInit == sw = NoScreenWait /\ frames = <<>>

screen_thumb_diff(f, g) == f - g >= DiffAt \/ g - f >= DiffAt

(* The buffers come from request memory, or there is not enough of it.     *)
ScreenWaitBegin(mode) ==
    /\ sw' \in {[at |-> "capture", mode |-> mode, slot |-> <<0, 0>>, ref |-> 1,
                 have_ref |-> FALSE, now |-> 0, stable_since |-> 0, met |-> FALSE],
                [at |-> "refused"]}
    /\ frames' = <<>>

(* A capture that fails may have been decoded in part.                     *)
CaptureFails ==
    /\ sw.at = "capture"
    /\ \E f \in Frames :
          sw' = [sw EXCEPT !.at = "decide", !.slot[IF sw.have_ref THEN 3 - sw.ref ELSE sw.ref] = f]
    /\ UNCHANGED frames

(* Bug: the reference of a stable wait stays the first frame.              *)
Compared_with_first(w, diff) ==
    IF w.mode = "change" THEN [w EXCEPT !.met = diff]
    ELSE [w EXCEPT !.stable_since = IF diff THEN w.now ELSE @,
                   !.met = ~diff /\ w.now - w.stable_since >= StableMs]

Compared(w, diff) ==
    IF w.mode = "change" THEN [w EXCEPT !.met = diff]
    ELSE [w EXCEPT !.stable_since = IF diff THEN w.now ELSE @,
                   !.met = ~diff /\ w.now - w.stable_since >= StableMs,
                   !.ref = 3 - @]

(* The screen shows any frame; the first one is the reference.             *)
Capture ==
    /\ sw.at = "capture"
    /\ \E f \in Frames :
          /\ sw' = [(IF ~sw.have_ref
                       THEN [sw EXCEPT !.have_ref = TRUE, !.stable_since = sw.now,
                                       !.slot[sw.ref] = f]
                       ELSE Compared([sw EXCEPT !.slot[3 - sw.ref] = f],
                                     screen_thumb_diff(sw.slot[sw.ref], f)))
                    EXCEPT !.at = "decide"]
          /\ frames' = Append(frames, [frame |-> f, time |-> sw.now])

(* Met, timed out, interrupted by a sleep request, or another poll.        *)
ScreenDecide ==
    /\ sw.at = "decide"
    /\ \/ sw' = [sw EXCEPT !.at = "answered"]
       \/ /\ ~sw.met /\ sw.now < TimeoutMs
          /\ sw' = [sw EXCEPT !.at = "capture", !.now = @ + 1]
    /\ UNCHANGED frames

screen_wait == Capture \/ CaptureFails \/ ScreenDecide

Differ(i, j) == screen_thumb_diff(frames[i].frame, frames[j].frame)

(* ---- what the property rests on ---- *)

ScreenWaits ==
    [at : {"capture", "decide", "answered"}, mode : {"change", "stable"}, slot : [1..2 -> Int],
     ref : 1..2, have_ref : BOOLEAN, now : Nat, stable_since : Nat, met : BOOLEAN]
Captured == [frame : Int, time : Nat]

(* The reference is the first frame or the last one; met and stable_since  *)
(* say what the frames captured so far say.                                *)
ScreenWaitRight ==
    sw.at \in {"capture", "decide", "answered"} =>
        /\ sw \in ScreenWaits /\ frames \in Seq(Captured)
        /\ sw.have_ref <=> Len(frames) > 0
        /\ sw.met => sw.have_ref /\ sw.at # "capture"
        /\ \A i \in 1..Len(frames) : frames[i].time <= sw.now
        /\ sw.have_ref /\ sw.mode = "change" =>
              /\ sw.slot[sw.ref] = frames[1].frame
              /\ sw.met <=> Differ(1, Len(frames))
        /\ sw.have_ref /\ sw.mode = "stable" =>
              /\ sw.slot[sw.ref] = frames[Len(frames)].frame
              /\ frames[1].time <= sw.stable_since
              /\ \A i \in 2..Len(frames) : frames[i].time > sw.stable_since => ~Differ(i - 1, i)
              /\ sw.met => frames[Len(frames)].time - sw.stable_since >= StableMs

(* screen.h: a change is reported exactly when the last frame differs from *)
(* the first captured one; stability only when no two frames in a row      *)
(* differed for stable_ms, failed captures in between or not.              *)
ScreenWaitTellsTruth ==
    sw.at = "answered" =>
        IF sw.mode = "change"
          THEN sw.met <=> Len(frames) > 0 /\ Differ(1, Len(frames))
          ELSE sw.met => /\ Last(frames).time - frames[1].time >= StableMs
                         /\ \A i \in 2..Len(frames) :
                              frames[i].time > Last(frames).time - StableMs => ~Differ(i - 1, i)
=============================================================================
